------------------------------ MODULE RoleSources ------------------------------
(***************************************************************************)
(* The git sources of ansible roles and playbooks                          *)
(* (pkg/provision/role_sources.go): what one configured entry has in the   *)
(* two caches, and how a run brings its checkout up to date.  Several runs *)
(* use the same checkout, and nothing locks it.                            *)
(***************************************************************************)
EXTENDS ProvisionRun

CONSTANT MaxRev       \* bound: revisions of a branch at origin

ASSUME MaxRevAssumption == MaxRev \in Nat \ {0}

VARIABLES
  origin,             \* origin[b]: the newest revision of branch b, 0 without such a branch
  conf,               \* the entry of ansible-role-sources.yml
  cache               \* cache[c]: the checkout of the entry in the cache c

sources == <<origin, conf, cache>>

Branches == {"main", "dev"}    \* "main" is the default branch
Caches   == {"roles", "playbooks"}
Refs     == {"none", "dev", "v1"}   \* no ref, a branch, a tag

(* git: there is an entry, a named git source; playbooks: it is a source   *)
(* of playbooks too; update: the checkout is to follow origin              *)
Confs == [git: BOOLEAN, playbooks: BOOLEAN, ref: Refs, update: BOOLEAN]

(* dir:   a "partial" directory is one git clone has not finished          *)
(* head:  the branch or the tag checked out                                *)
(* local, remote: the branches and the remote-tracking branches            *)
(* whole: the working tree is all of head                                  *)
(* by:    the process that clones      cut: the clone was cut off, or its  *)
(* remains could not be removed                                            *)
NoBranch   == [b \in Branches |-> 0]
NoCheckout == [dir |-> "none", head |-> "main", local |-> NoBranch, remote |-> NoBranch,
               whole |-> FALSE, by |-> 0, cut |-> FALSE]

It(p) == cache[job[p].use]

Checkouts ==
  [dir: {"none", "partial", "repo"}, head: Branches \cup {"v1"},
   local: [Branches -> 0..MaxRev], remote: [Branches -> 0..MaxRev],
   whole: BOOLEAN, by: Procs \cup {0}, cut: BOOLEAN]

\* The checkout p works on becomes k, and p goes on at l.
Becomes(p, k, l) ==
  /\ cache' = [cache EXCEPT ![job[p].use] = k]
  /\ Goto(p, l)
  /\ UNCHANGED <<files, origin, conf>>

Step(p, l) == Goto(p, l) /\ UNCHANGED <<files, sources>>

\* A git command reports success with one of "results", or an error.
Git(p, results, l) ==
  \/ \E k \in results : Becomes(p, k, l)
  \/ Step(p, "unresolved")

-------------------------------------------------------------------------------
(* git.                                                                    *)

Cloned(k) ==
  [k EXCEPT !.dir = "repo", !.head = "main", !.local = [NoBranch EXCEPT !["main"] = origin["main"]],
            !.remote = origin, !.whole = TRUE, !.by = 0, !.cut = FALSE]

Fetched(k) == [k EXCEPT !.remote = origin]

\* git checkout -B: the branch becomes what origin had.
Reset(k, r) ==
  [k EXCEPT !.head = r, !.whole = TRUE, !.dir = "repo", !.local[r] = k.remote[r]]

\* git checkout: of a branch there is, of one origin has, or of the tag.
CheckedOut(k, r) ==
  IF k.remote = NoBranch THEN {}
  ELSE IF r = "v1" THEN {[k EXCEPT !.head = "v1", !.whole = TRUE, !.dir = "repo"]}
  ELSE IF k.local[r] # 0 THEN {[k EXCEPT !.head = r, !.whole = TRUE, !.dir = "repo"]}
  ELSE IF k.remote[r] # 0 THEN {Reset(k, r)}
  ELSE {}

\* git pull --ff-only of branch b, which is checked out: it brings in what is
\* new, and looks at nothing else in the working tree.
Pulled(k, b) ==
  IF b = "v1" THEN {}
  ELSE IF 0 \in {k.local[b], origin[b]} THEN {}
  ELSE {[k EXCEPT !.local[b] = origin[b], !.remote[b] = origin[b]]}

-------------------------------------------------------------------------------
(* resolveAnsibleRolePaths and resolveProvisionPlaybookPath.               *)

\* The playbook may be given by its path, or be one of the project's.
ResolvePlaybook(p) ==
  /\ at[p] = "playbook" /\ UNCHANGED <<files, sources>>
  /\ \/ Goto(p, "resolved")
     \/ Goto(p, "unresolved")
     \/ /\ conf.git /\ conf.playbooks
        /\ at' = [at EXCEPT ![p] = "look"]
        /\ job' = [job EXCEPT ![p].used = @ \cup {"playbooks"}]

ResolveRoles(p) ==
  /\ at[p] = "roles" /\ UNCHANGED <<files, sources>>
  /\ \/ ~conf.git /\ Goto(p, "resolved")
     \/ Goto(p, "unresolved")
     \/ /\ conf.git
        /\ at' = [at EXCEPT ![p] = "look"]
        /\ job' = [job EXCEPT ![p].used = @ \cup {"roles"}]

\* shouldUpdateGitRoleSource, and what to do with a checkout that exists.
UpdateOrNot ==
  IF conf.update THEN "fetch"
  ELSE IF conf.ref # "none" THEN "checkout" ELSE "subdirectory"

\* ensureGitRoleSource; validateGitCheckout asks only for a .git directory.
LookAtCheckout(p) ==
  /\ at[p] = "look"
  /\ \/ Step(p, "unresolved")
     \/ It(p).dir = "none" /\ Step(p, "clone")
     \/ It(p).dir # "none" /\ Step(p, UpdateOrNot)

\* git clone refuses a directory that is there by now.
Clone(p) ==
  /\ at[p] = "clone"
  /\ IF It(p).dir = "none"
     THEN \/ Becomes(p, [NoCheckout EXCEPT !.dir = "partial", !.by = p], "cloning")
          \/ Step(p, "discard")
     ELSE Step(p, "discard")

\* A clone whose directory another run has removed fails.
CloneEnds(p) ==
  /\ at[p] = "cloning"
  /\ \/ /\ It(p).by = p
        /\ Becomes(p, Cloned(It(p)), IF conf.ref = "none" THEN "subdirectory" ELSE "checkout")
     \/ Step(p, "discard")

\* What a failed clone left is removed, whoever made it.
DiscardClone(p) ==
  /\ at[p] = "discard"
  /\ \/ Becomes(p, NoCheckout, "unresolved")
     \/ Becomes(p, [It(p) EXCEPT !.cut = It(p).dir # "none", !.by = 0], "unresolved")

Fetch(p) ==
  /\ at[p] = "fetch"
  /\ Git(p, {Fetched(It(p))}, IF conf.ref = "none" THEN "pull" ELSE "updateRef")

\* A slip for the mutation runs; nothing else uses it: a branch of origin is
\* not followed.
BugUpdateRef(p) == at[p] = "updateRef" /\ Step(p, "checkout")

\* updateGitRoleSourceRef: a ref that is a branch at origin is followed, any
\* other is checked out as it is here.  A rev-parse that fails counts as an
\* answer, there is no such branch: at origin, or here.
UpdateRef(p) ==
  /\ at[p] = "updateRef"
  /\ IF conf.ref \in Branches /\ It(p).remote[conf.ref] # 0
     THEN \/ Git(p, CheckedOut(It(p), conf.ref) \cup {Reset(It(p), conf.ref)}, "pullRef")
          \/ /\ at' = [at EXCEPT ![p] = "checkout"]
             /\ job' = [job EXCEPT ![p].missed = TRUE]
             /\ UNCHANGED <<files, sources>>
     ELSE Step(p, "checkout")

PullRef(p) == at[p] = "pullRef" /\ Git(p, Pulled(It(p), conf.ref), "subdirectory")

Pull(p) == at[p] = "pull" /\ Git(p, Pulled(It(p), It(p).head), "subdirectory")

CheckoutRef(p) == at[p] = "checkout" /\ Git(p, CheckedOut(It(p), conf.ref), "subdirectory")

\* The configured subdirectory has to be in the checkout.
FindSubdirectory(p) ==
  /\ at[p] = "subdirectory"
  /\ \/ It(p).dir # "none" /\ Step(p, "resolved")
     \/ Step(p, "unresolved")

ResolveStep(p) ==
  \/ ResolvePlaybook(p)
  \/ ResolveRoles(p)
  \/ LookAtCheckout(p)
  \/ Clone(p)
  \/ CloneEnds(p)
  \/ DiscardClone(p)
  \/ Fetch(p)
  \/ UpdateRef(p)
  \/ PullRef(p)
  \/ Pull(p)
  \/ CheckoutRef(p)
  \/ FindSubdirectory(p)

-------------------------------------------------------------------------------
(* Origin and the user.                                                    *)

Push(b) ==
  /\ origin[b] # 0 /\ origin[b] < MaxRev
  /\ origin' = [origin EXCEPT ![b] = @ + 1]
  /\ UNCHANGED <<run, conf, cache>>

DeleteBranch ==
  /\ origin["dev"] # 0
  /\ origin' = [origin EXCEPT !["dev"] = 0]
  /\ UNCHANGED <<run, conf, cache>>

\* The entry keeps its name, and so its place in the caches.
Reconfigure ==
  /\ conf.git /\ \A p \in Procs : at[p] \in {"idle", "over"}
  /\ \E r \in Refs, u \in BOOLEAN : conf' = [conf EXCEPT !.ref = r, !.update = u]
  /\ UNCHANGED <<run, origin, cache>>

\* A process that dies leaves its clone behind, before or after the branches
\* have come, or git finishes it.
LeaveClone(p) ==
  IF at[p] \in {"cloning", "discard"} /\ It(p).by = p
  THEN \E k \in {It(p), [Cloned(It(p)) EXCEPT !.dir = "partial", !.whole = FALSE]} :
         cache' \in {[cache EXCEPT ![job[p].use] = [k EXCEPT !.cut = TRUE, !.by = 0]],
                     [cache EXCEPT ![job[p].use] = Cloned(k)]}
  ELSE UNCHANGED cache

-------------------------------------------------------------------------------
(* What ansible is to find.                                                *)

(* The checkouts p has resolved are whole and at the configured ref and,   *)
(* when they are to follow origin, at least as new as the branch was when  *)
(* the run began.  There are three exceptions.  A clone that was cut off   *)
(* is taken for a checkout when no ref makes git check it out again        *)
(* (role_sources.go:472).  A branch origin has dropped is used as it was   *)
(* (:519).  A git that failed to find the branch has not updated it (:532) *)
SourcesCurrent(p) ==
  \A c \in job[p].used :
    LET k == cache[c] IN
    /\ k.whole \/ (k.cut /\ conf.ref = "none")
    /\ conf.ref # "none" => k.head = conf.ref
    /\ conf.update /\ ~job[p].missed /\ k.head \in Branches /\ k.remote[k.head] # 0 =>
         k.local[k.head] >= job[p].seen[k.head]
================================================================================
