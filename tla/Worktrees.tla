----------------------------- MODULE Worktrees ------------------------------
(***************************************************************************)
(* The git worktree of one agent (worktree-manager.ts): its directory,     *)
(* what git knows of it, its branch and its row in agent_worktrees.  A     *)
(* caller is a request that ensures the worktree (every iteration of a     *)
(* run does) or resets it; each git command, and the removal of the        *)
(* directory, is a step of its own, because the manager awaits it.         *)
(*                                                                         *)
(* The project root is a git repository.  What git does is external and    *)
(* modelled from its documented refusals: `branch -f` refuses a branch     *)
(* that is checked out, `worktree add` refuses a directory that is not     *)
(* empty, `worktree remove` refuses one that is not a working tree.  git   *)
(* is a process of its own: when the control plane ends, the command in    *)
(* progress is carried out or was never started, never cut in half; the    *)
(* removal by node may be.                                                 *)
(*                                                                         *)
(* Work is a set of numbers: files not committed yet, and commits of the   *)
(* agent's branch.  Bounds: MaxWork items, MaxFaults failures of git or    *)
(* damages to the directory, MaxCrashes.                                   *)
(***************************************************************************)
EXTENDS Naturals, FiniteSets

CONSTANTS
    Callers,     \* requests that may be served at the same time
    Resets,      \* may a reset be requested?
    Enclosed,    \* is the storage directory itself inside a git repository?
    MaxWork, MaxFaults, MaxCrashes

ASSUME WorktreesAssumption ==
    /\ Resets \in BOOLEAN /\ Enclosed \in BOOLEAN
    /\ MaxWork \in Nat /\ MaxFaults \in Nat /\ MaxCrashes \in Nat

VARIABLES
    dir,         \* "absent", "valid", or "broken": there, but git does not know it
    registered,  \* git's list of worktrees names the directory
    loose,       \* work in the directory, not committed
    commits,     \* work on the agent's branch
    row,         \* the status in agent_worktrees, or "none"
    caller,      \* [Callers -> what it does next]
    excuse,      \* why work may be lost so far: a reset, git failed, damage
    made,        \* work produced so far
    faults, crashes

git == <<dir, registered, loose, commits>>
vars == <<git, row, caller, excuse, made, faults, crashes>>

Pcs == {"idle", "look", "validate", "remove", "rm", "prune", "branch", "add",
        "record", "ready", "failed"}
Idle == [pc |-> "idle", twice |-> FALSE]

\* A reset removes the worktree itself and then creates it as an ensure does,
\* which removes it once more: `twice`.
CallerType == [pc : Pcs, twice : BOOLEAN]

Init ==
    /\ dir = "absent" /\ registered = FALSE /\ loose = {} /\ commits = {}
    /\ row = "none"
    /\ caller = [c \in Callers |-> Idle]
    /\ excuse = {} /\ made = 0 /\ faults = 0 /\ crashes = 0

At(c, pc) == caller[c].pc = pc
Goes(c, pc) == caller' = [caller EXCEPT ![c].pc = pc]

\* worktrees.upsert: the row is inserted, or its status overwritten.
Upsert(status) == row' = status

-----------------------------------------------------------------------------
(* Requests.                                                               *)

Ensure(c) ==
    /\ caller[c].pc \in {"idle", "ready", "failed"}
    /\ caller' = [caller EXCEPT ![c] = [pc |-> "look", twice |-> FALSE]]
    /\ UNCHANGED <<git, row, excuse, made, faults, crashes>>

Reset(c) ==
    /\ Resets
    /\ caller[c].pc \in {"idle", "ready", "failed"}
    /\ caller' = [caller EXCEPT ![c] = [pc |-> "remove", twice |-> TRUE]]
    /\ excuse' = excuse \cup {"reset"}
    /\ UNCHANGED <<git, row, made, faults, crashes>>

\* A caller that never reuses the directory.
Look_Fresh(c) ==
    /\ At(c, "look")
    /\ Goes(c, "remove")
    /\ UNCHANGED <<git, row, excuse, made, faults, crashes>>

\* The row is read, and whether its directory is there.
Look(c) ==
    /\ At(c, "look")
    /\ Goes(c, IF row # "none" /\ dir # "absent" THEN "validate" ELSE "remove")
    /\ UNCHANGED <<git, row, excuse, made, faults, crashes>>

\* `git rev-parse --show-toplevel` in the directory.  Inside another repository
\* it answers for that one.
Validates == dir = "valid" \/ (dir = "broken" /\ Enclosed)

\* The failure of the validation is not caught.
Validate_Throws(c) ==
    /\ At(c, "validate")
    /\ Goes(c, IF Validates THEN "record" ELSE "failed")
    /\ UNCHANGED <<git, row, excuse, made, faults, crashes>>

Validate(c) ==
    /\ At(c, "validate")
    /\ \/ Validates /\ Goes(c, "record") /\ UNCHANGED <<row, excuse, faults>>
       \/ ~Validates /\ Upsert("ERROR") /\ Goes(c, "remove") /\ UNCHANGED <<excuse, faults>>
       \/ /\ faults < MaxFaults                      \* git itself fails
          /\ faults' = faults + 1 /\ excuse' = excuse \cup {"git"}
          /\ Upsert("ERROR") /\ Goes(c, "remove")
    /\ UNCHANGED <<git, made, crashes>>

-----------------------------------------------------------------------------
(* removeExistingWorktree: no failure of git stops it.                     *)

Remove(c) ==
    /\ At(c, "remove")
    /\ \/ IF registered /\ dir # "broken"
          THEN dir' = "absent" /\ registered' = FALSE /\ loose' = {}
          ELSE UNCHANGED <<dir, registered, loose>>
       \/ faults < MaxFaults /\ UNCHANGED <<dir, registered, loose>>
    /\ Goes(c, "rm")
    /\ UNCHANGED <<commits, row, excuse, made, faults, crashes>>

Rm(c) ==
    /\ At(c, "rm")
    /\ dir' = "absent" /\ loose' = {}
    /\ Goes(c, "prune")
    /\ UNCHANGED <<registered, commits, row, excuse, made, faults, crashes>>

\* A reset that stops after it has removed the worktree.
Prune_ResetEnds(c) ==
    /\ At(c, "prune")
    /\ registered' = (registered /\ dir = "valid")
    /\ Goes(c, IF caller[c].twice THEN "failed" ELSE "branch")
    /\ UNCHANGED <<dir, loose, commits, row, excuse, made, faults, crashes>>

Prune(c) ==
    /\ At(c, "prune")
    /\ \/ registered' = (registered /\ dir = "valid")
       \/ faults < MaxFaults /\ UNCHANGED registered
    /\ caller' = [caller EXCEPT ![c] =
           IF @.twice THEN [pc |-> "remove", twice |-> FALSE]
           ELSE [@ EXCEPT !.pc = "branch"]]
    /\ UNCHANGED <<dir, loose, commits, row, excuse, made, faults, crashes>>

-----------------------------------------------------------------------------
(* createFreshWorktree: `branch -f`, `worktree add`, the row.              *)

Fails(c) ==
    /\ Goes(c, "failed")
    /\ UNCHANGED git

Branch(c) ==
    /\ At(c, "branch")
    /\ \/ ~registered /\ commits' = {} /\ Goes(c, "add")
          /\ UNCHANGED <<dir, registered, loose, faults, excuse>>
       \/ registered /\ Fails(c) /\ UNCHANGED <<faults, excuse>>
       \/ /\ faults < MaxFaults /\ Fails(c)
          /\ faults' = faults + 1 /\ excuse' = excuse \cup {"git"}
    /\ UNCHANGED <<row, made, crashes>>

Add(c) ==
    /\ At(c, "add")
    /\ \/ dir = "absent" /\ dir' = "valid" /\ registered' = TRUE /\ loose' = {}
          /\ Goes(c, "record") /\ UNCHANGED <<commits, faults, excuse>>
       \/ dir # "absent" /\ Fails(c) /\ UNCHANGED <<faults, excuse>>
       \/ /\ faults < MaxFaults /\ Fails(c)
          /\ faults' = faults + 1 /\ excuse' = excuse \cup {"git"}
    /\ UNCHANGED <<row, made, crashes>>

\* The row is written for a fresh worktree only in memory.
Record_Unwritten(c) ==
    /\ At(c, "record")
    /\ Goes(c, "ready")
    /\ UNCHANGED <<git, row, excuse, made, faults, crashes>>

\* upsertRecord
Record(c) ==
    /\ At(c, "record")
    /\ Upsert("READY")
    /\ Goes(c, "ready")
    /\ UNCHANGED <<git, excuse, made, faults, crashes>>

-----------------------------------------------------------------------------
(* What the tools of a run, the operator and the machine do.               *)

\* A tool writes a file below the path it was given, while the run goes on.
Write(c) ==
    /\ At(c, "ready") /\ dir = "valid" /\ made < MaxWork
    /\ made' = made + 1 /\ loose' = loose \cup {made + 1}
    /\ UNCHANGED <<dir, registered, commits, row, caller, excuse, faults, crashes>>

Commit(c) ==
    /\ At(c, "ready") /\ dir = "valid" /\ loose # {}
    /\ commits' = commits \cup loose /\ loose' = {}
    /\ UNCHANGED <<dir, registered, row, caller, excuse, made, faults, crashes>>

Damage ==
    /\ faults < MaxFaults /\ dir # "absent"
    /\ faults' = faults + 1 /\ excuse' = excuse \cup {"damage"}
    /\ dir' \in {"absent", "broken"} /\ loose' = {}
    /\ UNCHANGED <<registered, commits, row, caller, made, crashes>>

\* The control plane ends; a removal in progress may have taken the .git file.
Crash ==
    /\ crashes < MaxCrashes
    /\ crashes' = crashes + 1
    /\ caller' = [c \in Callers |-> Idle]
    /\ \/ UNCHANGED <<dir, loose>>
       \/ /\ \E c \in Callers : At(c, "rm")
          /\ dir # "absent" /\ dir' = "broken" /\ loose' = {}
    /\ UNCHANGED <<registered, commits, row, excuse, made, faults>>

Step(c) ==
    \/ Look(c) \/ Validate(c) \/ Remove(c) \/ Rm(c) \/ Prune(c)
    \/ Branch(c) \/ Add(c) \/ Record(c)

Next ==
    \/ \E c \in Callers : Ensure(c) \/ Reset(c) \/ Step(c) \/ Write(c) \/ Commit(c)
    \/ Damage \/ Crash

Spec == Init /\ [][Next]_vars

\* git and the event loop finish what was asked of them.
Fairness == \A c \in Callers : WF_vars(Step(c))
FairSpec == Spec /\ Fairness

-----------------------------------------------------------------------------
(* Every variable has its type.                                            *)
TypeOK ==
    /\ dir \in {"absent", "valid", "broken"} /\ registered \in BOOLEAN
    /\ loose \subseteq 1..MaxWork /\ commits \subseteq 1..MaxWork
    /\ row \in {"none", "READY", "ERROR"}
    /\ caller \in [Callers -> CallerType]
    /\ excuse \subseteq {"reset", "git", "damage"} /\ made \in 0..MaxWork
    /\ faults \in 0..MaxFaults /\ crashes \in 0..MaxCrashes

(* Work of an agent, in its directory or on its branch, is lost only when a  *)
(* reset was asked for, git failed or somebody damaged the directory: runs   *)
(* that ensure the worktree again and again, and restarts, keep it.          *)
WorkIsKept == excuse = {} => 1..made = loose \cup commits

(* A run is handed a directory that is a worktree of the repository and is  *)
(* recorded READY, after resets, restarts and failures of git alike, unless  *)
(* somebody damaged it from outside.                                         *)
ReadyIsWorktree ==
    "damage" \notin excuse => \A c \in Callers :
        At(c, "ready") => (dir = "valid" /\ registered /\ row = "READY")

(* Whoever comes last, and whatever failed for the others, nobody leaves a   *)
(* row READY for a directory that is not a worktree, when nobody is at work, *)
(* nothing crashed and nothing was damaged.                                  *)
QuietRowIsTrue ==
    ((\A c \in Callers : caller[c].pc \in {"idle", "ready", "failed"})
        /\ row = "READY" /\ faults = 0 /\ crashes = 0)
    => (dir = "valid" /\ registered)

(* The creation finds room: whatever a crash, a damage or a failed command   *)
(* has left behind, the next caller gets a worktree once git works again.    *)
NextCallerIsServed ==
    \A c \in Callers :
        (At(c, "look") /\ faults = MaxFaults /\ crashes = MaxCrashes) ~> At(c, "ready")
=============================================================================
