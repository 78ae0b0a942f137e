-------------------------------- MODULE MCOciPull --------------------------------
(* The instance of OciPull that TLC checks: an artifact of one or two      *)
(* files, processes that pull it, interchangeable, and manifests that are  *)
(* right for one number of files or the other, foreign, or wrong in one    *)
(* point each.                                                             *)
EXTENDS OciPull, TLC

CONSTANTS p1, p2

MCProcs == {p1, p2}

ProcSymmetry == Permutations(MCProcs)

MCTarget ==
  [os |-> "ubuntu", type |-> "server", arch |-> "amd64", host |-> "debian", engine |-> "qemu"]

Layer(i) == [title |-> i, media |-> "expected"]

Own(layers) ==
  [artifact |-> TRUE, annotated |-> TRUE, target |-> MCTarget, layers |-> layers]

Elsewhere(target) == [Own(<<Layer(1)>>) EXCEPT !.target = target]

ForeignTarget == [MCTarget EXCEPT !.host = "darwin", !.engine = "utm"]

MCManifest == [
  own      |-> Own(<<Layer(1)>>),
  pair     |-> Own(<<Layer(2), Layer(1)>>),
  foreign  |-> Elsewhere(ForeignTarget),
  otherVm  |-> Elsewhere([ForeignTarget EXCEPT !.arch = "arm64"]),
  windows  |-> Elsewhere([MCTarget EXCEPT !.host = "windows", !.engine = "hyperv"]),
  twice    |-> Own(<<Layer(1), Layer(1)>>),
  media    |-> Own(<<[title |-> 1, media |-> "other"]>>),
  untyped  |-> [Own(<<Layer(1)>>) EXCEPT !.artifact = FALSE] ]
===============================================================================
