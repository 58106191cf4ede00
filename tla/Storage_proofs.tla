-------------------------- MODULE Storage_proofs ----------------------------
(***************************************************************************)
(* Theorems about what is stored: worktrees, files, artifacts, database.   *)
(*                                                                         *)
(* Worktrees, for one caller at a time, as the runs of one agent are, and  *)
(* any amount of work, failures of git, damages and restarts: the work of  *)
(* an agent is kept, and what a run is handed is a worktree.  The argument.*)
(* As long as nothing excuses a loss, either there is no work yet, or the  *)
(* directory is a worktree with a row, and then the only caller looks at   *)
(* it, finds it and never gets to the removal (WorkOK).                    *)
(*                                                                         *)
(* Worktrees, for any number of callers at a time, which breaks both, but  *)
(* without failures of git and restarts: the last of them leaves a row     *)
(* that is true.  While the directory is gone and its row still says READY,*)
(* some caller is on the way to create it (RowIsCaughtUp), and what git    *)
(* still lists of it is about to be pruned (ListIsTrue), so that its       *)
(* creation is not refused.                                                *)
(*                                                                         *)
(* ToolWork, for any verification commands and any number of calls, edits  *)
(* of the scripts and crashes.  CallOK says of each step of a call what    *)
(* must have happened before it.  A call was asked about exactly if its    *)
(* tool requires it; at the step that writes a row the file is there; at   *)
(* the step that applies a patch its row is there.                         *)
(*                                                                         *)
(* Migrations, for any planes, origins, earlier releases and crashes: what *)
(* is served is sound, and nothing is lost.  What is recorded is always a  *)
(* prefix of the migrations (RecordedOK), because a commit that would not  *)
(* extend it is refused; so it is enough to say what a database has after  *)
(* k migrations (Sound) and to show of each migration that it leads from   *)
(* what the one before has left to that.                                   *)
(*                                                                         *)
(* FileTools, for any tree, any bounds and any changes of the tree between *)
(* two steps of a walk.  The worklist is what is left to visit: whatever   *)
(* nobody has changed and should be answered is found, covered by an item  *)
(* of the worklist, or beyond a full answer (WalkInv); in the order of the *)
(* answer, which an item keeps when it is replaced by what it leads to.    *)
(***************************************************************************)
EXTENDS MCStorage, SequenceTheorems, FiniteSetTheorems, TLAPS

USE DEF Upsert

OneCaller == \E c \in Callers : Callers = {c}

\* Steps of a caller that leave the directory alone.
Harmless == {"idle", "look", "validate", "record", "ready", "failed"}

CallerOK == caller \in [Callers -> CallerType] /\ made \in Nat

\* A run at work has a row.
ReadyHasRow == \A c \in Callers : At(c, "ready") => row # "none"

WorkOK ==
    excuse = {} =>
        \/ made = 0 /\ loose = {} /\ commits = {}
        \/ /\ dir = "valid" /\ row # "none" /\ 1..made = loose \cup commits
           /\ \A c \in Callers : caller[c].pc \in Harmless

WorkInv == CallerOK /\ ReadyHasRow /\ WorkOK

LEMMA InitWork == Init => WorkInv
BY DEF Init, WorkInv, CallerOK, CallerType, Pcs, Idle, ReadyHasRow, At, WorkOK

\* What a caller does next, when it goes from step to step.
LEMMA GoesTo ==
    ASSUME CallerOK, NEW c \in Callers, NEW k \in CallerType, caller' = [caller EXCEPT ![c] = k]
    PROVE  /\ caller' \in [Callers -> CallerType] /\ caller'[c] = k
           /\ \A x \in Callers : x # c => caller'[x] = caller[x]
BY DEF CallerOK

LEMMA StepOfCaller ==
    ASSUME NEW k \in CallerType, NEW pc \in Pcs
    PROVE  [k EXCEPT !.pc = pc] \in CallerType /\ [k EXCEPT !.pc = pc].pc = pc
BY DEF CallerType

\* The next state of the caller that takes a step.
LEMMA NextOfCaller ==
    ASSUME CallerOK, NEW c \in Callers, Step(c) \/ Ensure(c) \/ Reset(c)
    PROVE  \E k \in CallerType : caller' = [caller EXCEPT ![c] = k]
<1>1. caller[c] \in CallerType
  BY DEF CallerOK
<1>2. ASSUME NEW pc \in Pcs, Goes(c, pc) PROVE \E k \in CallerType : caller' = [caller EXCEPT ![c] = k]
  BY <1>1, <1>2, StepOfCaller DEF Goes
<1>3. CASE Ensure(c) \/ Reset(c)
  <2>1. \A pc \in Pcs, b \in BOOLEAN : [pc |-> pc, twice |-> b] \in CallerType
    BY DEF CallerType
  <2> QED
    BY <1>3, <2>1 DEF Ensure, Reset, Pcs
<1>4. CASE Prune(c)
  <2>1. [pc |-> "remove", twice |-> FALSE] \in CallerType
    BY DEF CallerType, Pcs
  <2>2. "branch" \in Pcs
    BY DEF Pcs
  <2> QED
    BY <1>1, <1>4, <2>1, <2>2, StepOfCaller DEF Prune
<1>5. ASSUME Look(c) \/ Validate(c) \/ Remove(c) \/ Rm(c) \/ Branch(c) \/ Add(c) \/ Record(c)
      PROVE  \E pc \in Pcs : Goes(c, pc)
  BY <1>5, Zenon DEF Look, Validate, Remove, Rm, Branch, Add, Record, Fails, Pcs
<1> QED
  BY <1>2, <1>3, <1>4, <1>5 DEF Step

\* The place a caller is at next, and the row.
LEMMA PlaceOfCaller ==
    ASSUME CallerOK, NEW c \in Callers, NEW pc, Goes(c, pc)
    PROVE  caller'[c].pc = pc
BY DEF CallerOK, CallerType, Goes

LEMMA StepKeepsCallers ==
    ASSUME CallerOK, NEW c \in Callers, Step(c) \/ Ensure(c) \/ Reset(c)
    PROVE  CallerOK' /\ \A x \in Callers : x # c => caller'[x] = caller[x]
<1>1. PICK k \in CallerType : caller' = [caller EXCEPT ![c] = k]
  BY NextOfCaller
<1>2. made' = made
  BY DEF Step, Look, Validate, Remove, Rm, Prune, Branch, Add, Record, Ensure, Reset
<1> QED
  BY <1>1, <1>2, GoesTo DEF CallerOK

LEMMA StepKeepsWork ==
    ASSUME WorkInv, NEW c \in Callers, Callers = {c}, Step(c)
    PROVE  WorkInv'
<1>1. CallerOK' /\ made' = made
  BY StepKeepsCallers DEF WorkInv, Step, Look, Validate, Remove, Rm, Prune, Branch, Add, Record
<1>2. ASSUME NEW pc, Goes(c, pc) PROVE caller'[c].pc = pc
  BY <1>2, PlaceOfCaller DEF WorkInv
<1>3. CASE Look(c)
  <2>1. At(c, "look") /\ UNCHANGED <<dir, loose, commits, row, excuse>>
    BY <1>3 DEF Look, git
  <2>2. caller'[c].pc = IF row # "none" /\ dir # "absent" THEN "validate" ELSE "remove"
    BY <1>2, <1>3 DEF Look
  <2> QED
    BY <1>1, <2>1, <2>2 DEF WorkInv, ReadyHasRow, WorkOK, At, Harmless
<1>4. CASE Validate(c)
  <2>1. At(c, "validate") /\ UNCHANGED <<dir, loose, commits>>
    BY <1>4 DEF Validate, git
  <2>2. \/ Validates /\ caller'[c].pc = "record" /\ row' = row /\ excuse' = excuse
        \/ ~Validates /\ caller'[c].pc = "remove" /\ row' = "ERROR" /\ excuse' = excuse
        \/ caller'[c].pc = "remove" /\ row' = "ERROR" /\ excuse' = excuse \cup {"git"}
    BY <1>2, <1>4 DEF Validate
  <2> QED
    BY <1>1, <2>1, <2>2 DEF WorkInv, ReadyHasRow, WorkOK, At, Harmless, Validates
<1>5. CASE Remove(c) \/ Rm(c) \/ Prune(c)
  <2>1. /\ caller[c].pc \in {"remove", "rm", "prune"} /\ UNCHANGED <<commits, row, excuse>>
        /\ loose' \in {loose, {}}
    BY <1>5 DEF Remove, Rm, Prune, At
  <2>2. caller'[c].pc \in {"rm", "prune", "remove", "branch"}
    <3>1. CASE Remove(c) \/ Rm(c)
      BY <1>2, <3>1 DEF Remove, Rm
    <3>2. CASE Prune(c)
      BY <3>2 DEF Prune, WorkInv, CallerOK, CallerType
    <3> QED
      BY <1>5, <3>1, <3>2
  <2> QED
    BY <1>1, <2>1, <2>2 DEF WorkInv, ReadyHasRow, WorkOK, At, Harmless
<1>6. CASE Branch(c) \/ Add(c)
  <2>1. /\ caller[c].pc \in {"branch", "add"} /\ row' = row /\ excuse' \in {excuse, excuse \cup {"git"}}
        /\ loose' \in {loose, {}} /\ commits' \in {commits, {}}
    BY <1>6 DEF Branch, Add, At, Fails, git
  <2>2. caller'[c].pc \in {"add", "record", "failed"}
    BY <1>2, <1>6 DEF Branch, Add, Fails
  <2> QED
    BY <1>1, <2>1, <2>2 DEF WorkInv, ReadyHasRow, WorkOK, At, Harmless
<1>7. CASE Record(c)
  <2>1. At(c, "record") /\ UNCHANGED <<dir, loose, commits, excuse>> /\ row' = "READY"
    BY <1>7 DEF Record, git
  <2>2. caller'[c].pc = "ready"
    BY <1>2, <1>7 DEF Record
  <2> QED
    BY <1>1, <2>1, <2>2 DEF WorkInv, ReadyHasRow, WorkOK, At, Harmless
<1> QED
  BY <1>3, <1>4, <1>5, <1>6, <1>7 DEF Step

LEMMA RequestKeepsWork ==
    ASSUME WorkInv, NEW c \in Callers, Callers = {c}, Ensure(c) \/ Reset(c)
    PROVE  WorkInv'
<1>1. CallerOK' /\ made' = made
  BY StepKeepsCallers DEF WorkInv, Ensure, Reset
<1>2. CASE Ensure(c)
  <2>1. caller'[c].pc = "look" /\ UNCHANGED <<dir, loose, commits, row, excuse>>
    BY <1>2 DEF Ensure, git, WorkInv, CallerOK
  <2> QED
    BY <1>1, <1>2, <2>1 DEF WorkInv, ReadyHasRow, WorkOK, At, Harmless
<1>3. CASE Reset(c)
  <2>1. caller'[c].pc = "remove" /\ "reset" \in excuse' /\ row' = row
    BY <1>3 DEF Reset, WorkInv, CallerOK
  <2> QED
    BY <1>1, <2>1 DEF WorkInv, ReadyHasRow, WorkOK, At
<1> QED
  BY <1>2, <1>3

LEMMA WorkStep == ASSUME WorkInv, OneCaller, [Next]_vars PROVE WorkInv'
<1>1. PICK c \in Callers : Callers = {c}
  BY DEF OneCaller
<1>2. CASE Step(c) \/ Ensure(c) \/ Reset(c)
  BY <1>1, <1>2, StepKeepsWork, RequestKeepsWork
<1>3. CASE Write(c)
  <2>1. /\ At(c, "ready") /\ dir = "valid" /\ made' = made + 1 /\ loose' = loose \cup {made + 1}
        /\ UNCHANGED <<dir, commits, row, caller, excuse>>
    BY <1>3 DEF Write
  <2>2. row # "none" /\ made \in Nat
    BY <1>1, <2>1 DEF WorkInv, ReadyHasRow, CallerOK
  <2>3. 1..(made + 1) = (1..made) \cup {made + 1}
    BY <2>2
  <2>4. made = 0 => 1..made = {}
    OBVIOUS
  <2>5. excuse = {} => 1..made = loose \cup commits
    BY <2>4 DEF WorkInv, WorkOK
  <2>6. WorkOK'
    BY <1>1, <2>1, <2>2, <2>3, <2>5 DEF WorkOK, At, Harmless
  <2> QED
    BY <2>1, <2>2, <2>6 DEF WorkInv, CallerOK, ReadyHasRow, At
<1>4. CASE Commit(c)
  <2>1. /\ commits' = commits \cup loose /\ loose' = {}
        /\ UNCHANGED <<dir, row, caller, excuse, made>>
    BY <1>4 DEF Commit
  <2> QED
    BY <2>1 DEF WorkInv, CallerOK, ReadyHasRow, WorkOK, At
<1>5. CASE Damage
  BY <1>5 DEF Damage, WorkInv, CallerOK, ReadyHasRow, WorkOK, At
<1>6. CASE Crash
  <2>1. /\ caller' = [x \in Callers |-> Idle] /\ UNCHANGED <<commits, row, excuse, made>>
        /\ \/ UNCHANGED <<dir, loose>>
           \/ At(c, "rm") /\ loose' = {}
    BY <1>1, <1>6 DEF Crash
  <2>2. Idle \in CallerType /\ Idle.pc = "idle"
    BY DEF Idle, CallerType, Pcs
  <2> QED
    BY <2>1, <2>2 DEF WorkInv, CallerOK, ReadyHasRow, WorkOK, At, Harmless
<1>7. CASE UNCHANGED vars
  BY <1>7 DEF vars, git, WorkInv, CallerOK, ReadyHasRow, WorkOK, At
<1> QED
  BY <1>1, <1>2, <1>3, <1>4, <1>5, <1>6, <1>7 DEF Next

LEMMA KeptFromInv == WorkInv => WorkIsKept
<1>1. made = 0 => 1..made = {}
  OBVIOUS
<1> QED
  BY <1>1 DEF WorkInv, WorkOK, WorkIsKept

(* The work of an agent is lost only by a reset, by a failure of git or by   *)
(* damage from outside: ensuring its worktree at every iteration, and any    *)
(* restart, keeps it (ensureWorktree reuses what validates).                 *)
THEOREM WorkIsNotLost == ASSUME OneCaller PROVE SpecIn => []WorkIsLasting
<1> DEFINE Inv == setting = "alone" => WorkInv
<1>1. InitIn => Inv
  BY InitWork DEF InitIn
<1>2. Inv /\ [NextIn]_all => Inv'
  BY WorkStep DEF NextIn, all
<1>3. Inv => WorkIsLasting
  BY KeptFromInv DEF WorkIsLasting
<1> QED
  BY <1>1, <1>2, <1>3, PTL DEF SpecIn

-----------------------------------------------------------------------------
(* What a run is handed.                                                    *)

\* Without damage, what is called ready is a registered worktree.
HandedOK ==
    "damage" \notin excuse =>
        /\ dir = "valid" => registered
        /\ \A c \in Callers : caller[c].pc \in {"record", "ready"} => dir = "valid"
        /\ \A c \in Callers : At(c, "ready") => row = "READY"

HandedInv == CallerOK /\ HandedOK

LEMMA HandedStep == ASSUME HandedInv, OneCaller, ~Enclosed, [Next]_vars PROVE HandedInv'
<1>1. PICK c \in Callers : Callers = {c}
  BY DEF OneCaller
<1>2. ASSUME NEW pc, Goes(c, pc) PROVE caller'[c].pc = pc
  BY <1>2, PlaceOfCaller DEF HandedInv
<1>3. CASE Step(c)
  <2>1. CallerOK' /\ \A x \in Callers : x = c
    BY <1>1, <1>3, StepKeepsCallers DEF HandedInv
  <2>2. CASE Look(c)
    <3>1. caller'[c].pc \in {"validate", "remove"} /\ UNCHANGED <<git, excuse>>
      BY <1>2, <2>2 DEF Look
    <3> QED
      BY <2>1, <3>1 DEF HandedInv, HandedOK, At, git
  <2>3. CASE Validate(c)
    <3>1. /\ UNCHANGED git /\ excuse \subseteq excuse'
          /\ caller'[c].pc \in {"record", "remove"} /\ (caller'[c].pc = "record" => dir = "valid")
      BY <1>2, <2>3 DEF Validate, Validates
    <3> QED
      BY <2>1, <3>1 DEF HandedInv, HandedOK, At, git
  <2>4. CASE Remove(c) \/ Rm(c) \/ Prune(c)
    <3>1. /\ excuse' = excuse /\ (dir' = "valid" => dir = "valid" /\ (registered => registered'))
      <4>1. CASE Remove(c)
        BY <4>1 DEF Remove
      <4>2. CASE Rm(c)
        BY <4>2 DEF Rm
      <4>3. CASE Prune(c)
        <5>1. excuse' = excuse /\ dir' = dir
          BY <4>3 DEF Prune
        <5>2. registered' = (registered /\ dir = "valid") \/ registered' = registered
          BY <4>3 DEF Prune
        <5>3. ASSUME registered, dir = "valid" PROVE registered'
          <6>1. (registered /\ dir = "valid") = TRUE
            BY <5>3
          <6> QED
            BY <5>2, <5>3, <6>1
        <5> QED
          BY <5>1, <5>3
      <4> QED
        BY <2>4, <4>1, <4>2, <4>3
    <3>2. caller'[c].pc \in {"rm", "prune", "remove", "branch"}
      <4>1. CASE Remove(c) \/ Rm(c)
        BY <1>2, <4>1 DEF Remove, Rm
      <4>2. CASE Prune(c)
        BY <4>2 DEF Prune, HandedInv, CallerOK, CallerType
      <4> QED
        BY <2>4, <4>1, <4>2
    <3> QED
      BY <2>1, <3>1, <3>2 DEF HandedInv, HandedOK, At
  <2>5. CASE Branch(c)
    <3>1. /\ excuse \subseteq excuse' /\ UNCHANGED <<dir, registered>> /\ caller'[c].pc \in {"add", "failed"}
      BY <1>2, <2>5 DEF Branch, Fails, git
    <3> QED
      BY <2>1, <3>1 DEF HandedInv, HandedOK, At
  <2>6. CASE Add(c)
    <3>1. /\ excuse \subseteq excuse'
          /\ \/ dir' = "valid" /\ registered' = TRUE /\ caller'[c].pc = "record"
             \/ UNCHANGED <<dir, registered>> /\ caller'[c].pc = "failed"
      BY <1>2, <2>6 DEF Add, Fails, git
    <3> QED
      BY <2>1, <3>1 DEF HandedInv, HandedOK, At
  <2>7. CASE Record(c)
    <3>1. UNCHANGED <<git, excuse>> /\ At(c, "record") /\ row' = "READY"
      BY <2>7 DEF Record
    <3> QED
      BY <2>1, <3>1 DEF HandedInv, HandedOK, At, git
  <2> QED
    BY <1>3, <2>2, <2>3, <2>4, <2>5, <2>6, <2>7 DEF Step
<1>4. CASE Ensure(c) \/ Reset(c)
  <2>1. CallerOK' /\ \A x \in Callers : x = c
    BY <1>1, <1>4, StepKeepsCallers DEF HandedInv
  <2>2. caller'[c].pc \in {"look", "remove"} /\ UNCHANGED git /\ excuse \subseteq excuse'
    BY <1>4 DEF Ensure, Reset, HandedInv, CallerOK
  <2> QED
    BY <2>1, <2>2 DEF HandedInv, HandedOK, At, git
<1>5. CASE Write(c) \/ Commit(c)
  <2>1. UNCHANGED <<dir, registered, row, caller, excuse>> /\ made' \in {made, made + 1}
    BY <1>5 DEF Write, Commit
  <2> QED
    BY <2>1 DEF HandedInv, HandedOK, CallerOK, At
<1>6. CASE Damage
  BY <1>6 DEF Damage, HandedInv, HandedOK, CallerOK
<1>7. CASE Crash
  <2>1. /\ caller' = [x \in Callers |-> Idle] /\ UNCHANGED <<registered, excuse, made>>
        /\ dir' \in {dir, "broken"}
    BY <1>7 DEF Crash
  <2>2. Idle \in CallerType /\ Idle.pc = "idle"
    BY DEF Idle, CallerType, Pcs
  <2> QED
    BY <2>1, <2>2 DEF HandedInv, HandedOK, CallerOK, At
<1>8. CASE UNCHANGED vars
  BY <1>8 DEF vars, git, HandedInv, HandedOK, CallerOK, At
<1> QED
  BY <1>1, <1>3, <1>4, <1>5, <1>6, <1>7, <1>8 DEF Next

LEMMA HandedFromInv == HandedInv => ReadyIsWorktree
BY DEF HandedInv, HandedOK, ReadyIsWorktree, At

-----------------------------------------------------------------------------
(* The worktree that several callers share.                                *)

\* What a caller does that has taken the directory away, or is about to, and has
\* not put it back.
Rebuilding == {"remove", "rm", "prune", "branch", "add"}

Places ==
    /\ caller \in [Sharers -> Shared!CallerType]
    /\ dir \in {"absent", "valid"} /\ registered \in BOOLEAN /\ faults = 0 /\ crashes = 0

\* git knows what is there; what it still lists although it is gone, somebody is
\* about to prune.
ListIsTrue ==
    /\ dir = "valid" => registered
    /\ registered /\ dir # "valid" => \E c \in Sharers : caller[c].pc = "prune"

\* While the directory is gone and the row says, or is about to say, that it is
\* there, somebody is on the way to create it.
RowIsCaughtUp ==
    dir # "valid" /\ (row = "READY" \/ \E c \in Sharers : caller[c].pc = "record") =>
        \E c \in Sharers : caller[c].pc \in Rebuilding

SharedInv == Places /\ ListIsTrue /\ RowIsCaughtUp

USE DEF Shared!Upsert, Shared!At

LEMMA InitShared == Shared!Init => SharedInv
<1> SUFFICES ASSUME Shared!Init PROVE SharedInv
  OBVIOUS
<1>1. Shared!Idle \in Shared!CallerType /\ Shared!Idle.pc = "idle"
  BY DEF Shared!Idle, Shared!CallerType, Shared!Pcs
<1>2. caller \in [Sharers -> Shared!CallerType] /\ \A c \in Sharers : caller[c].pc = "idle"
  BY <1>1 DEF Shared!Init
<1>3. dir = "absent" /\ registered = FALSE /\ row = "none" /\ faults = 0 /\ crashes = 0
  BY DEF Shared!Init
<1> QED
  BY <1>2, <1>3 DEF SharedInv, Places, ListIsTrue, RowIsCaughtUp

LEMMA QuietFromInv == SharedInv => Shared!QuietRowIsTrue
BY DEF SharedInv, Places, ListIsTrue, RowIsCaughtUp, Rebuilding, Shared!QuietRowIsTrue

\* Where a caller goes, and that the others stay.
LEMMA CallerGoes ==
    ASSUME Places, NEW c \in Sharers, NEW pc \in Shared!Pcs, Shared!Goes(c, pc)
    PROVE  /\ caller' \in [Sharers -> Shared!CallerType] /\ caller'[c].pc = pc
           /\ \A x \in Sharers \ {c} : caller'[x] = caller[x]
<1>1. [caller[c] EXCEPT !.pc = pc] \in Shared!CallerType /\ [caller[c] EXCEPT !.pc = pc].pc = pc
  BY DEF Places, Shared!CallerType
<1> QED
  BY <1>1 DEF Places, Shared!Goes

\* A step of one caller keeps the invariant when what it does to the directory, the
\* list and the row fits where it goes.
LEMMA CallerKeeps ==
    ASSUME SharedInv, NEW c \in Sharers, NEW pc,
           caller' \in [Sharers -> Shared!CallerType], caller'[c].pc = pc,
           \A x \in Sharers \ {c} : caller'[x] = caller[x],
           dir' \in {"absent", "valid"}, registered' \in BOOLEAN, UNCHANGED <<faults, crashes>>,
           dir' = "valid" => registered',
           registered' /\ dir' # "valid" => pc = "prune" \/ (caller[c].pc # "prune" /\ registered /\ dir # "valid"),
           dir' = "valid" \/ pc \in Rebuilding
             \/ (dir = dir' /\ caller[c].pc \notin Rebuilding
             /\ (row' = row \/ row' = "ERROR" \/ caller[c].pc = "record")
                   /\ pc # "record")
             \/ (registered /\ caller[c].pc # "prune" /\ dir # "valid")
    PROVE  SharedInv'
<1> USE DEF SharedInv
<1>1. Places'
  BY DEF Places
<1>2. ListIsTrue'
  BY DEF ListIsTrue
<1>3. RowIsCaughtUp'
  <2> SUFFICES ASSUME dir' # "valid", pc \notin Rebuilding, row' = "READY" \/ \E x \in Sharers : caller'[x].pc = "record"
               PROVE  \E x \in Sharers : caller'[x].pc \in Rebuilding
    BY DEF RowIsCaughtUp
  <2>1. CASE registered /\ caller[c].pc # "prune" /\ dir # "valid"
    <3>1. PICK x \in Sharers : caller[x].pc = "prune"
      BY <2>1 DEF ListIsTrue
    <3> QED
      BY <2>1, <3>1 DEF Rebuilding
  <2>2. CASE /\ dir = dir' /\ caller[c].pc \notin Rebuilding /\ pc # "record"
             /\ (row' = row \/ row' = "ERROR" \/ caller[c].pc = "record")
    <3>1. row = "READY" \/ \E x \in Sharers : caller[x].pc = "record"
      BY <2>2
    <3>2. PICK x \in Sharers : caller[x].pc \in Rebuilding
      BY <2>2, <3>1 DEF RowIsCaughtUp
    <3> QED
      BY <2>2, <3>2
  <2> QED
    BY <2>1, <2>2
<1> QED
  BY <1>1, <1>2, <1>3

LEMMA SharedStep ==
    ASSUME SharedInv, NEW c \in Sharers, Shared!Step(c)
    PROVE  SharedInv'
<1>1. /\ Places /\ ListIsTrue /\ caller[c] \in Shared!CallerType /\ ~(faults < 0)
  BY DEF SharedInv, Places
<1>2. ASSUME NEW pc \in Shared!Pcs, Shared!Goes(c, pc)
      PROVE  /\ caller' \in [Sharers -> Shared!CallerType] /\ caller'[c].pc = pc
             /\ \A x \in Sharers \ {c} : caller'[x] = caller[x]
  BY <1>1, <1>2, CallerGoes
<1>3. CASE Shared!Look(c)
  <2>1. PICK pc \in {"validate", "remove"} : Shared!Goes(c, pc)
    BY <1>3 DEF Shared!Look
  <2>2. UNCHANGED <<dir, registered, row, faults, crashes>> /\ caller[c].pc = "look"
    BY <1>3 DEF Shared!Look, Shared!git
  <2> QED
    BY <1>1, <1>2, <2>1, <2>2, CallerKeeps DEF Shared!Pcs, Rebuilding, Places, ListIsTrue
<1>4. CASE Shared!Validate(c)
  <2>1. UNCHANGED <<dir, registered, faults, crashes>> /\ caller[c].pc = "validate"
    BY <1>1, <1>4 DEF Shared!Validate, Shared!git
  <2>2. CASE dir = "valid"
    <3>1. PICK pc \in {"record", "remove"} : Shared!Goes(c, pc)
      BY <1>4 DEF Shared!Validate
    <3> QED
      BY <1>1, <1>2, <2>1, <2>2, <3>1, CallerKeeps DEF Shared!Pcs, Places, ListIsTrue
  <2>3. CASE dir # "valid"
    <3>1. Shared!Goes(c, "remove")
      BY <1>1, <1>4, <2>3 DEF Shared!Validate, Shared!Validates, Places
    <3> QED
      BY <1>1, <1>2, <2>1, <2>3, <3>1, CallerKeeps DEF Shared!Pcs, Rebuilding, Places, ListIsTrue
  <2> QED
    BY <2>2, <2>3
<1>5. CASE Shared!Remove(c)
  <2>1. Shared!Goes(c, "rm") /\ caller[c].pc = "remove" /\ UNCHANGED <<row, faults, crashes>>
    BY <1>5 DEF Shared!Remove
  <2>2. (dir' = "absent" /\ ~registered') \/ UNCHANGED <<dir, registered>>
    BY <1>1, <1>5 DEF Shared!Remove
  <2>3. registered' \in BOOLEAN
    BY <1>1, <1>5 DEF Shared!Remove, Places
  <2>4. "rm" \in Shared!Pcs /\ "rm" \in Rebuilding
    BY DEF Shared!Pcs, Rebuilding
  <2>5. /\ dir' \in {"absent", "valid"} /\ (dir' = "valid" => registered')
        /\ (registered' /\ dir' # "valid" => registered /\ dir # "valid")
    BY <1>1, <2>2 DEF Places, ListIsTrue
  <2> QED
    BY <1>2, <2>1, <2>3, <2>4, <2>5, CallerKeeps
<1>6. CASE Shared!Rm(c)
  <2>1. /\ Shared!Goes(c, "prune") /\ dir' = "absent" /\ UNCHANGED <<registered, row, faults, crashes>>
    BY <1>6 DEF Shared!Rm
  <2> QED
    BY <1>1, <1>2, <2>1, CallerKeeps DEF Shared!Pcs, Rebuilding, Places
<1>7. CASE Shared!Prune(c)
  <2>1. PICK k \in Shared!CallerType :
          caller' = [caller EXCEPT ![c] = k] /\ k.pc \in {"remove", "branch"}
    <3>1. [pc |-> "remove", twice |-> FALSE] \in Shared!CallerType
      BY DEF Shared!CallerType, Shared!Pcs
    <3>2. /\ [caller[c] EXCEPT !.pc = "branch"] \in Shared!CallerType
          /\ [caller[c] EXCEPT !.pc = "branch"].pc = "branch"
      BY <1>1 DEF Shared!CallerType, Shared!Pcs
    <3> QED
      BY <1>7, <3>1, <3>2 DEF Shared!Prune
  <2>2. caller' \in [Sharers -> Shared!CallerType] /\ caller'[c].pc = k.pc
        /\ \A x \in Sharers \ {c} : caller'[x] = caller[x]
    BY <1>1, <2>1 DEF Places
  <2>3. registered' = (registered /\ dir = "valid") /\ UNCHANGED <<dir, row, faults, crashes>>
    BY <1>1, <1>7 DEF Shared!Prune
  <2> QED
    BY <1>1, <2>1, <2>2, <2>3, CallerKeeps DEF Rebuilding, Places, ListIsTrue
<1>8. CASE Shared!Branch(c)
  <2>1. /\ UNCHANGED <<dir, registered, row, faults, crashes>> /\ caller[c].pc = "branch"
        /\ \/ ~registered /\ Shared!Goes(c, "add")
           \/ registered /\ Shared!Goes(c, "failed")
    BY <1>1, <1>8 DEF Shared!Branch, Shared!Fails, Shared!git
  <2> QED
    BY <1>1, <1>2, <2>1, CallerKeeps DEF Shared!Pcs, Rebuilding, Places, ListIsTrue
<1>9. CASE Shared!Add(c)
  <2>1. /\ UNCHANGED <<row, faults, crashes>> /\ dir' = "valid" /\ registered'
        /\ (Shared!Goes(c, "record") \/ Shared!Goes(c, "failed"))
    BY <1>1, <1>9 DEF Shared!Add, Shared!Fails, Shared!git, Places, ListIsTrue
  <2>2. registered' \in BOOLEAN
    BY <1>1, <1>9 DEF Shared!Add, Shared!Fails, Shared!git, Places
  <2> QED
    BY <1>2, <2>1, <2>2, CallerKeeps DEF Shared!Pcs
<1>10. CASE Shared!Record(c)
  <2>1. Shared!Goes(c, "ready") /\ caller[c].pc = "record" /\ UNCHANGED <<dir, registered, faults, crashes>>
    BY <1>10 DEF Shared!Record, Shared!git
  <2> QED
    BY <1>1, <1>2, <2>1, CallerKeeps DEF Shared!Pcs, Rebuilding, Places, ListIsTrue
<1> QED
  BY <1>3, <1>4, <1>5, <1>6, <1>7, <1>8, <1>9, <1>10 DEF Shared!Step

LEMMA SharedRequest ==
    ASSUME SharedInv, NEW c \in Sharers, Shared!Ensure(c) \/ Shared!Reset(c)
    PROVE  SharedInv'
<1>1. PICK k \in Shared!CallerType :
        caller' = [caller EXCEPT ![c] = k] /\ k.pc \in {"look", "remove"}
  <2>1. \A pc \in Shared!Pcs, b \in BOOLEAN : [pc |-> pc, twice |-> b] \in Shared!CallerType
    BY DEF Shared!CallerType
  <2> QED
    BY <2>1 DEF Shared!Ensure, Shared!Reset, Shared!Pcs
<1>2. /\ caller[c].pc \in {"idle", "ready", "failed"}
      /\ UNCHANGED <<dir, registered, row, faults, crashes>>
  BY DEF Shared!Ensure, Shared!Reset, Shared!git
<1>3. caller' \in [Sharers -> Shared!CallerType] /\ caller'[c].pc = k.pc
      /\ \A x \in Sharers \ {c} : caller'[x] = caller[x]
  BY <1>1 DEF SharedInv, Places
<1> QED
  BY <1>1, <1>2, <1>3, CallerKeeps DEF Rebuilding, SharedInv, Places, ListIsTrue

LEMMA SharedUnchanged ==
    ASSUME SharedInv, UNCHANGED <<dir, registered, row, caller, faults, crashes>> PROVE SharedInv'
BY DEF SharedInv, Places, ListIsTrue, RowIsCaughtUp

LEMMA SharedNext == ASSUME SharedInv, Shared!Next PROVE SharedInv'
<1>1. ~Shared!Damage /\ ~Shared!Crash
  BY DEF Shared!Damage, Shared!Crash, SharedInv, Places
<1>2. ASSUME NEW c \in Sharers, Shared!Write(c) \/ Shared!Commit(c) PROVE SharedInv'
  BY <1>2, SharedUnchanged DEF Shared!Write, Shared!Commit
<1> QED
  BY <1>1, <1>2, SharedStep, SharedRequest DEF Shared!Next

-----------------------------------------------------------------------------
(* Any number of callers ensure and reset one worktree, each of them giving  *)
(* way to the others at every git command: when all of them are done, a row  *)
(* that says READY is right (worktree-manager.ts).                           *)
THEOREM QuietRowsAreTrue == SpecIn => [](setting = "shared" => Shared!QuietRowIsTrue)
<1> DEFINE Inv == setting = "shared" => SharedInv
<1>1. InitIn => Inv
  BY InitShared DEF InitIn
<1>2. Inv /\ [NextIn]_all => Inv'
  BY SharedNext, SharedUnchanged DEF NextIn, all, vars, git
<1>3. Inv => (setting = "shared" => Shared!QuietRowIsTrue)
  BY QuietFromInv
<1> QED
  BY <1>1, <1>2, <1>3, PTL DEF SpecIn

(* A run is handed a directory that git knows as a worktree and a row that   *)
(* says READY, after any resets, restarts and failures of git, unless it was *)
(* damaged from outside (createFreshWorktree ends with both or throws); and  *)
(* callers that came at the same time leave such a row too.                  *)
THEOREM RowsStayTrue == ASSUME OneCaller, ~Enclosed PROVE SpecIn => []ReadyRowsAreTrue
<1> DEFINE Inv == setting = "alone" => HandedInv
<1>1. InitIn => Inv
  <2>1. Init => HandedInv
    BY InitWork DEF Init, WorkInv, HandedInv, HandedOK, At, Idle
  <2> QED
    BY <2>1 DEF InitIn
<1>2. Inv /\ [NextIn]_all => Inv'
  BY HandedStep DEF NextIn, all
<1>3. Inv /\ (setting = "shared" => Shared!QuietRowIsTrue) => ReadyRowsAreTrue
  BY HandedFromInv DEF ReadyRowsAreTrue
<1> QED
  BY <1>1, <1>2, <1>3, QuietRowsAreTrue, PTL DEF SpecIn

-----------------------------------------------------------------------------
(* The tools of an agent.                                                  *)

USE DEF Tools!CreateArtifact

Steps == {"none", "waits", "execute", "store", "row", "apply", "done"}
Results == Tools!Outcome \cup {"none", "denied", "refused"}
Stored == {"run_command", "run_verification_command", "write_file", "apply_patch", "git_diff"}

CallType ==
    call \in [id : Nat, tool : Tools!Names \cup {"none"}, label : Labels \cup {Tools!NoLabel}, step : Steps,
              asked : BOOLEAN, result : Results]

CallOK ==
    /\ call.step \notin {"none", "done"} => call.asked = Tools!RequiresApproval(call.tool)
    /\ call.step \in {"waits", "execute", "store", "row"} /\ call.tool \in {"write_file", "apply_patch"} =>
          call.result = "none"
    /\ call.step \in {"store", "row", "apply"} => call.tool \in Stored
    /\ call.step = "store" => call.tool # "write_file"
    /\ call.step = "apply" => call.tool = "apply_patch" /\ Tools!Row \in rows
    /\ call.step = "row" /\ call.tool # "write_file" => call.id \in stored

CallInv == CallType /\ CallOK /\ Tools!RowsHaveFiles /\ Tools!CommandsLeaveOutput

LEMMA InitCall == Tools!Init => CallInv
<1> SUFFICES ASSUME Tools!Init PROVE CallInv
  OBVIOUS
<1>1. call = Tools!NoCall /\ rows = {}
  BY DEF Tools!Init
<1>2. CallType
  BY <1>1 DEF CallType, Tools!NoCall, Steps, Results
<1>3. CallOK /\ Tools!RowsHaveFiles /\ Tools!CommandsLeaveOutput
  BY <1>1 DEF CallOK, Tools!RowsHaveFiles, Tools!CommandsLeaveOutput, Tools!NoCall
<1> QED
  BY <1>2, <1>3 DEF CallInv

(* The number of a call is a number; the rest of a call keeps its type.     *)
CallTyping == calls \in Nat /\ CallType

LEMMA CallTypingStep == CallTyping /\ [Tools!Next]_(Tools!vars) => CallTyping'
<1> USE DEF CallTyping, CallType, Steps, Results, Tools!Outcome, Tools!Goes, Tools!Ends
<1> SUFFICES ASSUME CallTyping, [Tools!Next]_(Tools!vars) PROVE CallTyping'
  OBVIOUS
<1>1. ASSUME Tools!ListTools PROVE CallTyping'
  BY <1>1 DEF Tools!ListTools, Tools!bounds
<1>2. ASSUME Tools!EditScripts PROVE CallTyping'
  BY <1>2 DEF Tools!EditScripts, Tools!bounds
<1>3. ASSUME Tools!Decide PROVE CallTyping'
  BY <1>3 DEF Tools!Decide, Tools!bounds
<1>4. ASSUME Tools!Refused PROVE CallTyping'
  BY <1>4 DEF Tools!Refused, Tools!bounds
<1>5. ASSUME Tools!Answer PROVE CallTyping'
  BY <1>5 DEF Tools!Answer, Tools!bounds
<1>6. ASSUME Tools!WriteFile PROVE CallTyping'
  BY <1>6 DEF Tools!WriteFile, Tools!bounds
<1>7. ASSUME Tools!RunCommand PROVE CallTyping'
  BY <1>7 DEF Tools!RunCommand, Tools!bounds
<1>8. ASSUME Tools!RunVerification PROVE CallTyping'
  BY <1>8 DEF Tools!RunVerification, Tools!bounds
<1>9. ASSUME Tools!GitDiff PROVE CallTyping'
  BY <1>9 DEF Tools!GitDiff, Tools!bounds
<1>10. ASSUME Tools!ApplyPatch PROVE CallTyping'
  BY <1>10 DEF Tools!ApplyPatch, Tools!bounds
<1>11. ASSUME Tools!Store PROVE CallTyping'
  BY <1>11 DEF Tools!Store, Tools!bounds
<1>12. ASSUME Tools!StoreRow PROVE CallTyping'
  BY <1>12 DEF Tools!StoreRow, Tools!bounds
<1>13. ASSUME Tools!NextCall PROVE CallTyping'
  BY <1>13 DEF Tools!NextCall, Tools!bounds, Tools!NoCall
<1>14. ASSUME Tools!Crash PROVE CallTyping'
  BY <1>14 DEF Tools!Crash, Tools!bounds, Tools!NoCall
<1>15. ASSUME NEW tool \in Tools!Names, NEW label \in Labels \cup {Tools!NoLabel}, Tools!Request(tool, label) PROVE CallTyping'
  <2>1. Tools!RequiresApproval(tool) \in BOOLEAN
    BY DEF Tools!RequiresApproval
  <2>2. (IF Tools!RequiresApproval(tool) THEN "waits" ELSE "execute") \in Steps
    OBVIOUS
  <2>3. label \in Labels \cup {Tools!NoLabel} /\ calls' \in Nat /\ calls + 1 \in Nat
    BY <1>15 DEF Tools!Request
  <2>4. call' = [id |-> calls + 1, tool |-> tool, label |-> label, asked |-> Tools!RequiresApproval(tool),
                 step |-> IF Tools!RequiresApproval(tool) THEN "waits" ELSE "execute", result |-> "none"]
    BY <1>15 DEF Tools!Request
  <2> HIDE DEF Steps
  <2> QED
    BY <2>1, <2>2, <2>3, <2>4 DEF CallType
<1>16. CASE UNCHANGED Tools!vars
  BY <1>16 DEF Tools!vars, Tools!bounds
<1> QED
  BY <1>1, <1>2, <1>3, <1>4, <1>5, <1>6, <1>7, <1>8, <1>9, <1>10, <1>11, <1>12, <1>13, <1>14, <1>15,
     <1>16 DEF Tools!Next, Tools!Execute

(* What must have happened before each step of a call.                      *)
LEMMA CallOKStep == CallTyping /\ CallOK /\ [Tools!Next]_(Tools!vars) => CallOK'
<1> USE DEF CallTyping, CallType, CallOK, Tools!Goes, Tools!Ends, Tools!Row, Stored
<1> SUFFICES ASSUME CallTyping, CallOK, [Tools!Next]_(Tools!vars) PROVE CallOK'
  OBVIOUS
<1>1. ASSUME Tools!ListTools PROVE CallOK'
  BY <1>1 DEF Tools!ListTools, Tools!bounds
<1>2. ASSUME Tools!EditScripts PROVE CallOK'
  BY <1>2 DEF Tools!EditScripts, Tools!bounds
<1>3. ASSUME Tools!Decide PROVE CallOK'
  BY <1>3 DEF Tools!Decide, Tools!bounds
<1>4. ASSUME Tools!Refused PROVE CallOK'
  BY <1>4 DEF Tools!Refused, Tools!bounds
<1>5. ASSUME Tools!Answer PROVE CallOK'
  BY <1>5 DEF Tools!Answer, Tools!bounds
<1>6. ASSUME Tools!WriteFile PROVE CallOK'
  BY <1>6 DEF Tools!WriteFile, Tools!bounds
<1>7. ASSUME Tools!RunCommand PROVE CallOK'
  BY <1>7 DEF Tools!RunCommand, Tools!bounds
<1>8. ASSUME Tools!RunVerification PROVE CallOK'
  BY <1>8 DEF Tools!RunVerification, Tools!bounds
<1>9. ASSUME Tools!GitDiff PROVE CallOK'
  BY <1>9 DEF Tools!GitDiff, Tools!bounds
<1>10. ASSUME Tools!ApplyPatch PROVE CallOK'
  BY <1>10 DEF Tools!ApplyPatch, Tools!bounds
<1>11. ASSUME Tools!Store PROVE CallOK'
  BY <1>11 DEF Tools!Store, Tools!bounds
<1>12. ASSUME Tools!StoreRow PROVE CallOK'
  BY <1>12 DEF Tools!StoreRow, Tools!bounds
<1>13. ASSUME Tools!NextCall PROVE CallOK'
  BY <1>13 DEF Tools!NextCall, Tools!bounds, Tools!NoCall
<1>14. ASSUME Tools!Crash PROVE CallOK'
  BY <1>14 DEF Tools!Crash, Tools!bounds, Tools!NoCall
<1>15. ASSUME NEW tool \in Tools!Names, NEW label \in Labels \cup {Tools!NoLabel}, Tools!Request(tool, label) PROVE CallOK'
  BY <1>15 DEF Tools!Request, Tools!bounds
<1>16. CASE UNCHANGED Tools!vars
  BY <1>16 DEF Tools!vars, Tools!bounds
<1> QED
  BY <1>1, <1>2, <1>3, <1>4, <1>5, <1>6, <1>7, <1>8, <1>9, <1>10, <1>11, <1>12, <1>13, <1>14, <1>15,
     <1>16 DEF Tools!Next, Tools!Execute

(* Files are there before their rows, rows before the answer.               *)
LEMMA RowsStep == CallTyping /\ CallOK /\ Tools!RowsHaveFiles /\ [Tools!Next]_(Tools!vars) => Tools!RowsHaveFiles'
<1> USE DEF CallTyping, CallType, CallOK, Tools!Row, Tools!RowsHaveFiles
<1> SUFFICES ASSUME CallTyping, CallOK, Tools!RowsHaveFiles, [Tools!Next]_(Tools!vars) PROVE Tools!RowsHaveFiles'
  OBVIOUS
<1>1. CASE Tools!StoreRow
  BY <1>1 DEF Tools!StoreRow
<1>2. CASE Tools!Store
  BY <1>2 DEF Tools!Store
<1>3. CASE UNCHANGED <<rows, stored>>
  BY <1>3
<1> QED
  BY <1>1, <1>2, <1>3, Zenon DEF Tools!Next, Tools!Execute, Tools!vars, Tools!ListTools, Tools!EditScripts,
     Tools!Decide, Tools!NextCall, Tools!Crash, Tools!Request,
     Tools!Refused, Tools!Answer, Tools!WriteFile, Tools!RunCommand, Tools!RunVerification, Tools!GitDiff, Tools!ApplyPatch

LEMMA OutputStep == CallTyping /\ CallOK /\ Tools!CommandsLeaveOutput /\ [Tools!Next]_(Tools!vars) => Tools!CommandsLeaveOutput'
<1> USE DEF CallTyping, CallType, CallOK, Tools!Goes, Tools!Ends, Tools!Row, Stored, Tools!CommandsLeaveOutput,
   Tools!InWorktree, Tools!Everywhere
<1> SUFFICES ASSUME CallTyping, CallOK, Tools!CommandsLeaveOutput, [Tools!Next]_(Tools!vars) PROVE Tools!CommandsLeaveOutput'
  OBVIOUS
<1>1. ASSUME Tools!ListTools PROVE Tools!CommandsLeaveOutput'
  BY <1>1 DEF Tools!ListTools, Tools!bounds
<1>2. ASSUME Tools!EditScripts PROVE Tools!CommandsLeaveOutput'
  BY <1>2 DEF Tools!EditScripts, Tools!bounds
<1>3. ASSUME Tools!Decide PROVE Tools!CommandsLeaveOutput'
  BY <1>3 DEF Tools!Decide, Tools!bounds
<1>4. ASSUME Tools!Refused PROVE Tools!CommandsLeaveOutput'
  BY <1>4 DEF Tools!Refused, Tools!bounds
<1>5. ASSUME Tools!Answer PROVE Tools!CommandsLeaveOutput'
  BY <1>5 DEF Tools!Answer, Tools!bounds
<1>6. ASSUME Tools!WriteFile PROVE Tools!CommandsLeaveOutput'
  BY <1>6 DEF Tools!WriteFile, Tools!bounds
<1>7. ASSUME Tools!RunCommand PROVE Tools!CommandsLeaveOutput'
  BY <1>7 DEF Tools!RunCommand, Tools!bounds
<1>8. ASSUME Tools!RunVerification PROVE Tools!CommandsLeaveOutput'
  BY <1>8 DEF Tools!RunVerification, Tools!bounds
<1>9. ASSUME Tools!GitDiff PROVE Tools!CommandsLeaveOutput'
  BY <1>9 DEF Tools!GitDiff, Tools!bounds
<1>10. ASSUME Tools!ApplyPatch PROVE Tools!CommandsLeaveOutput'
  BY <1>10 DEF Tools!ApplyPatch, Tools!bounds
<1>11. ASSUME Tools!Store PROVE Tools!CommandsLeaveOutput'
  BY <1>11 DEF Tools!Store, Tools!bounds
<1>12. ASSUME Tools!StoreRow PROVE Tools!CommandsLeaveOutput'
  BY <1>12 DEF Tools!StoreRow, Tools!bounds
<1>13. ASSUME Tools!NextCall PROVE Tools!CommandsLeaveOutput'
  BY <1>13 DEF Tools!NextCall, Tools!bounds, Tools!NoCall
<1>14. ASSUME Tools!Crash PROVE Tools!CommandsLeaveOutput'
  BY <1>14 DEF Tools!Crash, Tools!bounds, Tools!NoCall
<1>15. ASSUME NEW tool \in Tools!Names, NEW label \in Labels \cup {Tools!NoLabel}, Tools!Request(tool, label) PROVE Tools!CommandsLeaveOutput'
  BY <1>15 DEF Tools!Request, Tools!bounds
<1>16. CASE UNCHANGED Tools!vars
  BY <1>16 DEF Tools!vars, Tools!bounds
<1> QED
  BY <1>1, <1>2, <1>3, <1>4, <1>5, <1>6, <1>7, <1>8, <1>9, <1>10, <1>11, <1>12, <1>13, <1>14, <1>15,
     <1>16 DEF Tools!Next, Tools!Execute

LEMMA CallStep == CallTyping /\ CallInv /\ [Tools!Next]_(Tools!vars) => CallTyping' /\ CallInv'
BY CallTypingStep, CallOKStep, RowsStep, OutputStep DEF CallInv, CallTyping

LEMMA AlwaysCallInv == Tools!Spec => [](CallTyping /\ CallInv)
<1>1. Tools!Init => CallTyping
  BY InitCall DEF Tools!Init, CallTyping, CallInv
<1> QED
  BY <1>1, InitCall, CallStep, PTL DEF Tools!Spec

(* writeArtifact writes the file before its row: no crash leaves a row of a   *)
(* command, a diff or a patch without its file.                               *)
THEOREM RowsAlwaysHaveFiles == Tools!Spec => []Tools!RowsHaveFiles
<1>1. CallInv => Tools!RowsHaveFiles
  BY DEF CallInv
<1> QED
  BY <1>1, AlwaysCallInv, PTL

(* An agent that is told of a command, a patch or a write can be shown its    *)
(* artifact.                                                                  *)
THEOREM OutputIsLeft == Tools!Spec => []Tools!CommandsLeaveOutput
<1>1. CallInv => Tools!CommandsLeaveOutput
  BY DEF CallInv
<1> QED
  BY <1>1, AlwaysCallInv, PTL

(* Whatever the provider asks for, a file of a worktree changes only by a     *)
(* call that was put before the operator or by a command of the repository.   *)
THEOREM ChangesAreSeen == SpecIn => ChangesWereSeen
<1> DEFINE Seen == files' # files => call.asked \/ call.tool = "run_verification_command"
<1>1. CallTyping /\ CallInv /\ [Tools!Next]_(Tools!vars) => [Seen]_(Tools!vars)
  <2> SUFFICES ASSUME CallTyping, CallInv, Tools!Next, files' # files
               PROVE  call.asked \/ call.tool = "run_verification_command"
    BY DEF Tools!vars
  <2> USE DEF CallInv, CallOK, Tools!RequiresApproval, Tools!ApprovalRequired
  <2>1. CASE Tools!WriteFile
    BY <2>1, Zenon DEF Tools!WriteFile
  <2>2. CASE Tools!RunCommand
    BY <2>2, Zenon DEF Tools!RunCommand
  <2>3. CASE Tools!RunVerification
    BY <2>3 DEF Tools!RunVerification
  <2>4. CASE Tools!ApplyPatch
    BY <2>4, Zenon DEF Tools!ApplyPatch
  <2> QED
    BY <2>1, <2>2, <2>3, <2>4, Zenon
    DEF Tools!Next, Tools!Execute, Tools!ListTools, Tools!EditScripts, Tools!Decide, Tools!NextCall,
        Tools!Crash, Tools!Request, Tools!Refused, Tools!Answer, Tools!GitDiff, Tools!Store, Tools!StoreRow
<1>2. [NextIn]_all => [Tools!Next]_(Tools!vars)
  BY DEF NextIn, all, tooling, Tools!vars, Tools!repo, Tools!bounds
<1>3. SpecIn => Tools!Spec
  <2>1. InitIn => Tools!Init
    BY DEF InitIn
  <2> QED
    BY <1>2, <2>1, PTL DEF SpecIn, Tools!Spec
<1> QED
  BY <1>1, <1>3, AlwaysCallInv, PTL DEF Tools!Spec, ChangesWereSeen, Tools!ChangesWereSeen

-----------------------------------------------------------------------------
(* Migrations: the invariant                                               *)

IsTable(r) ==
    /\ DOMAIN r = {"cols", "late", "cascade", "setNull", "states", "full"}
    /\ r.full \in BOOLEAN

\* After so many migrations a database has these tables, ...
Present(k) ==
    (IF k >= 1 THEN Database!FirstNames \cup {"artifacts"} ELSE {})
      \cup (IF k >= 3 THEN Database!RunNames ELSE {})
      \cup (IF k >= 6 THEN {Database!Coordination} ELSE {})
      \cup (IF k >= 10 THEN Database!MemoryNames ELSE {})

\* ... of the columns that statements name, these, ...
Since(t, c) ==
    CASE c \in {"project_root", "shared_context"} -> 2
      [] c = "provider_call_id" -> 4
      [] c = "run_id" -> 5
      [] c \in {"finding_summaries", "action_requests"} -> 7
      [] c = "team_ask" -> 8
      [] c \in {"shared_context_kv", "auto_assign"} -> 10
      [] c = "coordinator_usage" -> 12
      [] t = "agent_memory_blocks" -> 13
      [] c \in {"parent_artifact_id", "modified_payload"} \/ (t = "artifacts" /\ c = "version") -> 16
      [] OTHER -> 9

Due(t, k) == {c \in Database!Named(t) : Since(t, c) <= k}

\* ... of the states, these, ...
DueStates(t, k) ==
    IF (t = "agent_sessions" /\ k >= 3) \/ (t = "agent_runs" /\ k >= 14) THEN Database!Set(t) ELSE {}

\* ... and foreign keys that name what they do in a new table, or these.
Stale(t, k) ==
    {u \in {"agent_sessions_old", "agent_runs_old", "artifacts"} :
        \/ /\ u = "agent_sessions_old" /\ k \in {3, 4}
           /\ t \in {"agent_events", "agent_context_mounts", "usage_ticks", "artifacts"}
        \/ /\ u = "agent_runs_old" /\ k = 14
           /\ t \in {"transcript_entries", "tool_calls", "approval_requests", "handoff_items"}
        \/ u = "agent_runs_old" /\ k >= 14 /\ t = "artifacts"
        \/ u = "artifacts" /\ k = 16 /\ t = "artifacts"}

TableOK(table, t, k) ==
    /\ IsTable(table)
    /\ Due(t, k) \subseteq table.cols
    /\ DueStates(t, k) \subseteq table.states
    /\ Database!References(table) \subseteq Database!References(Database!Fresh(t)) \cup Stale(t, k)

\* The sessions of the first release are recreated, and renamed for it, only where no
\* table of runs names them.
FirstOnly(s, k) ==
    k \in {1, 2} /\ "WAITING_APPROVAL" \notin s["agent_sessions"].states
        => DOMAIN s \subseteq Database!FirstNames \cup {"artifacts"}

Sound(s, k) ==
    /\ DOMAIN s \subseteq Database!Names /\ Present(k) \subseteq DOMAIN s
    /\ k = 0 => DOMAIN s = {}
    /\ \A t \in DOMAIN s : TableOK(s[t], t, k)
    /\ FirstOnly(s, k)

\* The migrations are recorded one after another, and no plane knows of more than that.
RecordedOK(k) ==
    /\ recorded = 1..k /\ release \in 0..16
    /\ history = "live" => k >= 9
    /\ DOMAIN plane = Planes /\ DOMAIN applied = Planes
    /\ \A p \in Planes :
        /\ \E j \in 0..k : applied[p] = 1..j /\ (plane[p] = "within" => j < 16)
        /\ plane[p] = "serve" => k = 16
        /\ k < release => plane[p] = "down"

DatabaseInv == \E k \in 0..16 : RecordedOK(k) /\ Sound(schema, k)

-----------------------------------------------------------------------------
(* What a statement does to the tables                                     *)

\* No table is gone, and none has lost its rows.
Keeps(s, r) == \A t \in DOMAIN s : t \in DOMAIN r /\ (s[t].full => r[t].full)

LEMMA FreshTables == \A t : IsTable(Database!Fresh(t)) /\ ~Database!Fresh(t).full
BY DEF Database!Fresh, IsTable

\* A table with the columns, states and foreign keys of another.
Same(old, new) ==
    /\ IsTable(new) /\ new.cols = old.cols /\ new.states = old.states
    /\ Database!References(new) = Database!References(old)

\* The tables are those of before, some with more columns.
Wider(s, r) ==
    /\ DOMAIN r = DOMAIN s /\ Keeps(s, r)
    /\ \A u \in DOMAIN s :
        /\ IsTable(r[u]) /\ s[u].cols \subseteq r[u].cols /\ r[u].states = s[u].states
        /\ Database!References(r[u]) = Database!References(s[u])

LEMMA AddsColumns ==
    ASSUME NEW s, NEW t \in DOMAIN s, NEW cols, \A u \in DOMAIN s : IsTable(s[u]),
           NEW r, r = Database!AddColumns(s, t, cols)
    PROVE  Wider(s, r) /\ cols \subseteq r[t].cols
<1>1. DOMAIN r = DOMAIN s /\ \A u \in DOMAIN s \ {t} : r[u] = s[u]
  BY DEF Database!AddColumns
<1>2. /\ IsTable(r[t]) /\ r[t].cols = s[t].cols \cup cols /\ r[t].states = s[t].states
      /\ Database!References(r[t]) = Database!References(s[t]) /\ r[t].full = s[t].full
  BY DEF Database!AddColumns, Database!References, IsTable
<1> QED
  BY <1>1, <1>2 DEF Wider, Keeps

LEMMA WiderAgain == \A s, r, q : Wider(s, r) /\ Wider(r, q) => Wider(s, q)
BY DEF Wider, Keeps

\* A table whose foreign keys have followed.
Turned(from, to, old) ==
    [old EXCEPT !.cascade = Database!Renamed(from, to, @), !.setNull = Database!Renamed(from, to, @)]

LEMMA TurnsKeys ==
    ASSUME NEW from, NEW to, NEW old, IsTable(old), NEW new, new = Turned(from, to, old)
    PROVE  /\ IsTable(new) /\ new.cols = old.cols /\ new.states = old.states /\ new.full = old.full
           /\ Database!References(new) = Database!Renamed(from, to, Database!References(old))
<1>3. /\ IsTable(new) /\ new.cols = old.cols /\ new.states = old.states /\ new.full = old.full
      /\ new.cascade = Database!Renamed(from, to, old.cascade)
      /\ new.setNull = Database!Renamed(from, to, old.setNull)
  BY DEF IsTable, Turned
<1> QED
  BY <1>3 DEF Database!References, Database!Renamed

\* One table is as given; the foreign keys of the others have followed the old one.
Recreated(s, t, temp, table, r) ==
    /\ DOMAIN r = DOMAIN s /\ Keeps(s, r) /\ \A u \in DOMAIN s : IsTable(r[u])
    /\ Same(table, r[t])
    /\ \A u \in DOMAIN s \ {t} :
        /\ r[u].cols = s[u].cols /\ r[u].states = s[u].states
        /\ Database!References(r[u]) = Database!Renamed(t, temp, Database!References(s[u]))
        /\ t \notin Database!References(s[u]) => Same(s[u], r[u])

LEMMA Recreates ==
    ASSUME NEW s, NEW t \in DOMAIN s, NEW temp, temp \notin DOMAIN s,
           \A u \in DOMAIN s : IsTable(s[u]),
           NEW table, IsTable(table), NEW r, r = Database!Recreate(s, t, temp, table)
    PROVE  Recreated(s, t, temp, table, r)
<1> DEFINE m == Database!Rename(s, t, temp)
<1>1. /\ DOMAIN m = (DOMAIN s \ {t}) \cup {temp} /\ m[temp] = Turned(t, temp, s[t])
      /\ \A u \in DOMAIN s \ {t} : m[u] = Turned(t, temp, s[u])
  BY DEF Database!Rename, Turned
<1>2. r = [u \in DOMAIN s |-> IF u = t THEN [table EXCEPT !.full = m[temp].full] ELSE m[u]]
  BY <1>1 DEF Database!Recreate, Database!Drop, Database!Enforced
<1>3. /\ m[temp].full = s[t].full /\ s[t].full \in BOOLEAN
      /\ \A u \in DOMAIN s \ {t} :
           /\ IsTable(m[u]) /\ m[u].cols = s[u].cols /\ m[u].states = s[u].states
           /\ m[u].full = s[u].full
           /\ Database!References(m[u]) = Database!Renamed(t, temp, Database!References(s[u]))
  <2>1. IsTable(s[t])
    OBVIOUS
  <2>2. m[temp].full = s[t].full
    BY <1>1, <2>1, TurnsKeys
  <2>3. s[t].full \in BOOLEAN
    BY <2>1 DEF IsTable
  <2>4. ASSUME NEW u \in DOMAIN s \ {t}
        PROVE  /\ IsTable(m[u]) /\ m[u].cols = s[u].cols /\ m[u].states = s[u].states
               /\ m[u].full = s[u].full
               /\ Database!References(m[u]) = Database!Renamed(t, temp, Database!References(s[u]))
    <3>1. IsTable(s[u]) /\ u \in DOMAIN m /\ u # temp
      BY <1>1
    <3> HIDE DEF m
    <3> QED
      BY <1>1, <3>1, TurnsKeys
  <2> QED
    BY <2>2, <2>3, <2>4
<1> HIDE DEF m
<1>4. r[t] = [table EXCEPT !.full = s[t].full]
  BY <1>2, <1>3
<1>5. /\ IsTable(r[t]) /\ r[t].cols = table.cols /\ r[t].states = table.states
      /\ r[t].full = s[t].full /\ Database!References(r[t]) = Database!References(table)
  BY <1>3, <1>4 DEF IsTable, Database!References
<1>6. DOMAIN r = DOMAIN s /\ \A u \in DOMAIN s \ {t} : r[u] = m[u]
  BY <1>2
<1>7. \A u \in DOMAIN s : IsTable(r[u])
  BY <1>3, <1>5, <1>6
<1>8. Keeps(s, r)
  BY <1>3, <1>5, <1>6 DEF Keeps
<1>9. Same(table, r[t])
  BY <1>5 DEF Same
<1>10. ASSUME NEW u \in DOMAIN s \ {t}, t \notin Database!References(s[u]) PROVE Same(s[u], r[u])
  BY <1>3, <1>6, <1>10 DEF Same, Database!Renamed
<1> QED
  BY <1>3, <1>6, <1>7, <1>8, <1>9, <1>10 DEF Recreated

-----------------------------------------------------------------------------
(* What each migration must bring                                          *)

\* The columns that become due with a migration.
Added(t, n) ==
    CASE n = 2 /\ t = "workspaces" -> {"project_root", "shared_context"}
      [] n = 4 /\ t = "tool_calls" -> {"provider_call_id"}
      [] n = 5 /\ t = "artifacts" -> {"run_id"}
      [] n = 7 /\ t = Database!Coordination -> {"finding_summaries", "action_requests"}
      [] n = 8 /\ t = Database!Coordination -> {"team_ask"}
      [] n = 9 /\ t = "workspaces" -> {"coordination_brief"}
      [] n = 9 /\ t = Database!Coordination ->
            {"dependency_graph", "execution_plan", "blocked_agents", "coordinator_decisions",
             "reply_packets", "team_ask_history", "current_prompt_id"}
      [] n = 10 /\ t = "workspaces" -> {"shared_context_kv"}
      [] n = 10 /\ t = "handoff_items" -> {"auto_assign"}
      [] n = 12 /\ t = Database!Coordination -> {"coordinator_usage"}
      [] n = 13 /\ t = "agent_memory_blocks" -> {"expires_at", "version"}
      [] n = 16 /\ t = "artifacts" -> {"version", "parent_artifact_id"}
      [] n = 16 /\ t = "approval_requests" -> {"modified_payload"}
      [] OTHER -> {}

LEMMA DueGrows == \A n \in 1..16 : \A t : Due(t, n) \subseteq Due(t, n - 1) \cup Added(t, n)
<1> SUFFICES ASSUME NEW n \in 1..16, NEW t, NEW c \in Database!Named(t), Since(t, c) = n
             PROVE  c \in Added(t, n)
  BY DEF Due, Since
<1> USE DEF Database!Named, Database!Coordination, Since, Added
<1>1. CASE t = "workspaces"
  BY <1>1
<1>2. CASE t = Database!Coordination
  BY <1>2
<1>3. CASE t = "artifacts"
  BY <1>3
<1>4. CASE t = "agent_memory_blocks"
  BY <1>4
<1>5. CASE t = "approval_requests"
  BY <1>5
<1>6. CASE t = "handoff_items"
  BY <1>6
<1>7. CASE t = "tool_calls"
  BY <1>7
<1> QED
  BY <1>1, <1>2, <1>3, <1>4, <1>5, <1>6, <1>7

\* A table that is created, or created anew, has what is due.
LEMMA FreshIsDue ==
    ASSUME NEW t \in Database!Names, NEW n \in 1..16,
           \/ n = 1
           \/ n = 3 /\ t \in Database!RunNames \cup {"agent_sessions"}
           \/ n = 5 /\ t \in {"agent_events", "agent_context_mounts", "usage_ticks", "artifacts"}
           \/ n = 6 /\ t = Database!Coordination
           \/ n = 10 /\ t \in Database!MemoryNames
           \/ n = 15 /\ t \in {"transcript_entries", "tool_calls", "approval_requests"}
    PROVE  TableOK(Database!Fresh(t), t, n)
<1>1. IsTable(Database!Fresh(t))
  BY FreshTables
<1>2. Due(t, n) \subseteq Database!Columns(t)
  BY DEF Due, Since, Database!Named, Database!Columns, Database!Coordination, Database!RunNames, Database!MemoryNames
<1>3. DueStates(t, n) \subseteq Database!Fresh(t).states
  BY DEF DueStates, Database!Set, Database!Fresh, Database!RunNames, Database!MemoryNames, Database!Coordination
<1> QED
  BY <1>1, <1>2, <1>3 DEF TableOK, Database!Fresh

\* What is due of the states and of the foreign keys changes with few migrations.
LEMMA StatesGrow ==
    \A n \in 1..16, t \in Database!Names :
        (n = 3 /\ t = "agent_sessions") \/ (n = 14 /\ t = "agent_runs")
          \/ DueStates(t, n) \subseteq DueStates(t, n - 1)
BY DEF DueStates

LEMMA StaleGrows == \A t : \A n \in 1..16 : n \in {5, 15} \/ Stale(t, n - 1) \subseteq Stale(t, n)
BY DEF Stale

\* A table that a migration leaves alone, or that gets the columns due, is right again.
LEMMA StaysRight ==
    ASSUME NEW n \in 1..16 \ {5, 15}, NEW t \in Database!Names, NEW old, NEW new,
           TableOK(old, t, n - 1), IsTable(new),
           old.cols \cup Added(t, n) \subseteq new.cols,
           \/ old.states \subseteq new.states /\ ~(n = 3 /\ t = "agent_sessions")
                                              /\ ~(n = 14 /\ t = "agent_runs")
           \/ DueStates(t, n) \subseteq new.states,
           Database!References(new) \subseteq Database!References(old) \cup Stale(t, n)
    PROVE  TableOK(new, t, n)
BY DueGrows, StatesGrow, StaleGrows DEF TableOK

-----------------------------------------------------------------------------
(* The migrations                                                          *)

\* What is to be shown of migration n.
Succeeds(n) ==
    \A s : Sound(s, n - 1) => Sound(Database!Apply(n, s), n) /\ Keeps(s, Database!Apply(n, s))

LEMMA SoundTables ==
    \A k, s : Sound(s, k) =>
        /\ DOMAIN s \subseteq Database!Names /\ Present(k) \subseteq DOMAIN s
        /\ \A t \in DOMAIN s : t \in Database!Names /\ TableOK(s[t], t, k) /\ IsTable(s[t])
BY DEF Sound, TableOK

LEMMA SameIsRight == \A old, new, t, k : TableOK(old, t, k) /\ Same(old, new) => TableOK(new, t, k)
BY DEF TableOK, Same

\* A migration that creates tables.
LEMMA SoundCreate ==
    ASSUME NEW n \in 1..16, NEW s, NEW names \in SUBSET Database!Names,
           DOMAIN s \subseteq Database!Names, Present(n) \subseteq DOMAIN s \cup names,
           NEW r, r = Database!Create(s, names),
           \A t \in DOMAIN s : TableOK(s[t], t, n),
           \A t \in names \ DOMAIN s : TableOK(Database!Fresh(t), t, n),
           FirstOnly(r, n)
    PROVE  Sound(r, n) /\ Keeps(s, r)
<1>1. /\ DOMAIN r = DOMAIN s \cup names /\ Keeps(s, r)
      /\ \A t \in DOMAIN s : r[t] = s[t]
      /\ \A t \in names \ DOMAIN s : r[t] = Database!Fresh(t)
  BY DEF Database!Create, Keeps
<1>2. ASSUME NEW t \in DOMAIN r PROVE TableOK(r[t], t, n)
  <2>1. CASE t \in DOMAIN s
    BY <1>1, <2>1
  <2>2. CASE t \in names \ DOMAIN s
    BY <1>1, <2>2
  <2> QED
    BY <1>1, <2>1, <2>2
<1> QED
  BY <1>1, <1>2 DEF Sound

\* A migration that adds columns.
LEMMA SoundColumns ==
    ASSUME NEW n \in 1..16 \ {1, 3, 5, 14, 15}, NEW s, Sound(s, n - 1), NEW r, Wider(s, r),
           Present(n) \subseteq Present(n - 1),
           \A t \in DOMAIN s : Added(t, n) \subseteq r[t].cols
    PROVE  Sound(r, n) /\ Keeps(s, r)
<1>1. /\ DOMAIN s \subseteq Database!Names /\ Present(n - 1) \subseteq DOMAIN s
      /\ \A t \in DOMAIN s : t \in Database!Names /\ TableOK(s[t], t, n - 1) /\ IsTable(s[t])
  BY SoundTables
<1>2. ASSUME NEW t \in DOMAIN s PROVE TableOK(r[t], t, n)
  <2>1. /\ IsTable(r[t]) /\ s[t].cols \cup Added(t, n) \subseteq r[t].cols
        /\ s[t].states \subseteq r[t].states /\ Database!References(r[t]) \subseteq Database!References(s[t])
    BY DEF Wider
  <2> QED
    BY <1>1, <2>1, StaysRight
<1>3. FirstOnly(r, n)
  <2> SUFFICES ASSUME n = 2 PROVE FirstOnly(r, 2)
    BY DEF FirstOnly
  <2>1. "agent_sessions" \in DOMAIN s
    BY <1>1 DEF Present, Database!FirstNames
  <2> QED
    BY <2>1 DEF FirstOnly, Sound, Wider
<1> QED
  BY <1>1, <1>2, <1>3 DEF Sound, Wider

LEMMA Migration1 == Succeeds(1)
<1> SUFFICES ASSUME NEW s, Sound(s, 0)
             PROVE  Sound(Database!Apply(1, s), 1) /\ Keeps(s, Database!Apply(1, s))
  BY DEF Succeeds
<1> DEFINE names == Database!FirstNames \cup Database!RunNames \cup {"artifacts", Database!Coordination}
           r == Database!Apply(1, s)
<1>1. r = Database!Create(s, names)
  BY DEF Database!Apply, Database!M1
<1>2. DOMAIN s = {} /\ names \subseteq Database!Names
  BY DEF Sound, Database!Names
<1>3. \A t \in names : TableOK(Database!Fresh(t), t, 1)
  BY <1>2, FreshIsDue
<1>4. FirstOnly(r, 1)
  <2>1. "agent_sessions" \in names \ DOMAIN s
    BY <1>2 DEF Database!FirstNames
  <2> HIDE DEF names, r
  <2>2. \A t \in names \ DOMAIN s : r[t] = Database!Fresh(t)
    BY <1>1 DEF Database!Create
  <2>3. r["agent_sessions"] = Database!Fresh("agent_sessions")
    BY <2>1, <2>2
  <2> QED
    BY <2>3 DEF FirstOnly, Database!Fresh
<1>5. Present(1) \subseteq DOMAIN s \cup names
  BY DEF Present
<1> HIDE DEF names, r
<1> QED
  BY <1>1, <1>2, <1>3, <1>4, <1>5, SoundCreate DEF r

\* 0002, 0004, 0007, 0008, 0012, 0013: columns of one table.
LEMMA OneTableGetsColumns ==
    ASSUME NEW n \in {2, 4, 7, 8, 12, 13}, NEW s, Sound(s, n - 1), NEW t, NEW cols,
           t \in Present(n - 1),
           Added(t, n) \subseteq cols, \A u \in Database!Names \ {t} : Added(u, n) = {},
           NEW r, r = Database!AddColumns(s, t, cols)
    PROVE  Sound(r, n) /\ Keeps(s, r)
<1>1. /\ DOMAIN s \subseteq Database!Names /\ t \in DOMAIN s
      /\ \A u \in DOMAIN s : IsTable(s[u])
  BY SoundTables
<1>2. Wider(s, r) /\ cols \subseteq r[t].cols
  BY <1>1, AddsColumns
<1>3. Present(n) \subseteq Present(n - 1)
  BY DEF Present
<1>4. \A u \in DOMAIN s : Added(u, n) \subseteq r[u].cols
  BY <1>1, <1>2
<1> QED
  BY <1>2, <1>3, <1>4, SoundColumns

LEMMA MigrationsOfColumns == \A n \in {2, 4, 7, 8, 12, 13} : Succeeds(n)
<1> USE DEF Succeeds, Database!Apply, Present, Added, Database!FirstNames, Database!RunNames,
            Database!MemoryNames, Database!Coordination
<1>1. Succeeds(2)
  BY OneTableGetsColumns
<1>2. Succeeds(4)
  BY OneTableGetsColumns
<1>3. Succeeds(7)
  BY OneTableGetsColumns DEF Database!M7
<1>4. Succeeds(8)
  BY OneTableGetsColumns
<1>5. Succeeds(12)
  BY OneTableGetsColumns
<1>6. Succeeds(13)
  BY OneTableGetsColumns
<1> QED
  BY <1>1, <1>2, <1>3, <1>4, <1>5, <1>6

LEMMA Migration9 == Succeeds(9)
<1> SUFFICES ASSUME NEW s, Sound(s, 8)
             PROVE  Sound(Database!M9(s), 9) /\ Keeps(s, Database!M9(s))
  BY DEF Succeeds, Database!Apply
<1>1. /\ {Database!Coordination, "workspaces"} \subseteq DOMAIN s
      /\ \A u \in DOMAIN s : u \in Database!Names /\ IsTable(s[u])
  BY SoundTables DEF Present, Database!FirstNames
<1> DEFINE asks == {"dependency_graph", "execution_plan", "blocked_agents", "coordinator_decisions",
                    "reply_packets", "team_ask_history", "current_prompt_id"}
           r == Database!AddColumns(s, Database!Coordination, asks)
           q == Database!AddColumns(r, "workspaces", {"coordination_brief"})
<1> HIDE DEF asks
<1>2. Wider(s, r) /\ asks \subseteq r[Database!Coordination].cols
  BY <1>1, AddsColumns
<1> HIDE DEF r
<1>3. Wider(r, q) /\ {"coordination_brief"} \subseteq q["workspaces"].cols
  BY <1>1, <1>2, AddsColumns DEF Wider
<1>4. q = Database!M9(s)
  BY DEF q, r, asks, Database!M9
<1> HIDE DEF q
<1>5. Wider(s, q) /\ asks \subseteq q[Database!Coordination].cols
  <2>1. r[Database!Coordination].cols \subseteq q[Database!Coordination].cols
    BY <1>1, <1>2, <1>3 DEF Wider
  <2> QED
    BY <1>2, <1>3, <2>1, WiderAgain
<1>6. \A t \in DOMAIN s : Added(t, 9) \subseteq q[t].cols
  BY <1>3, <1>5 DEF Added, asks
<1>7. Present(9) \subseteq Present(8)
  BY DEF Present
<1> QED
  BY <1>4, <1>5, <1>6, <1>7, SoundColumns

\* A table is right if it has more columns than one that is.
LEMMA WiderIsRight ==
    \A s, r, n : Wider(s, r) => \A t \in DOMAIN s : TableOK(s[t], t, n) => TableOK(r[t], t, n)
BY DEF Wider, TableOK

LEMMA Migration10 == Succeeds(10)
<1> SUFFICES ASSUME NEW s, Sound(s, 9)
             PROVE  Sound(Database!M10(s), 10) /\ Keeps(s, Database!M10(s))
  BY DEF Succeeds, Database!Apply
<1> DEFINE m == Database!Create(s, Database!MemoryNames)
           r == Database!AddColumns(m, "workspaces", {"shared_context_kv"})
           q == Database!AddColumns(r, "handoff_items", {"auto_assign"})
<1>1. /\ {"handoff_items", "workspaces"} \subseteq DOMAIN s /\ Present(9) \subseteq DOMAIN s
      /\ \A u \in DOMAIN s : u \in Database!Names /\ TableOK(s[u], u, 10 - 1) /\ IsTable(s[u])
  BY SoundTables DEF Present, Database!FirstNames, Database!RunNames
<1>2. /\ DOMAIN m = DOMAIN s \cup Database!MemoryNames /\ Keeps(s, m)
      /\ \A t \in DOMAIN s : m[t] = s[t]
      /\ \A t \in Database!MemoryNames \ DOMAIN s : m[t] = Database!Fresh(t)
  BY DEF Database!Create, Keeps
<1>3. Database!MemoryNames \subseteq Database!Names
  BY DEF Database!Names
<1>4. \A u \in DOMAIN m : IsTable(m[u])
  BY <1>1, <1>2, FreshTables
<1> HIDE DEF m
<1>5. Wider(m, r) /\ {"shared_context_kv"} \subseteq r["workspaces"].cols
  BY <1>1, <1>2, <1>4, AddsColumns
<1> HIDE DEF r
<1>6. Wider(r, q) /\ {"auto_assign"} \subseteq q["handoff_items"].cols
  <2>1. "handoff_items" \in DOMAIN r /\ \A u \in DOMAIN r : IsTable(r[u])
    BY <1>1, <1>2, <1>5 DEF Wider
  <2> HIDE DEF q
  <2> QED
    BY <2>1, AddsColumns DEF q
<1>7. q = Database!M10(s)
  BY DEF q, r, m, Database!M10
<1> HIDE DEF q
<1>8. Wider(m, q) /\ {"shared_context_kv"} \subseteq q["workspaces"].cols
  <2>1. r["workspaces"].cols \subseteq q["workspaces"].cols
    BY <1>1, <1>2, <1>5, <1>6 DEF Wider
  <2> QED
    BY <1>5, <1>6, <2>1, WiderAgain
<1>9. ASSUME NEW t \in DOMAIN q PROVE TableOK(q[t], t, 10)
  <2>1. t \in DOMAIN m /\ t \in Database!Names
    BY <1>1, <1>2, <1>3, <1>8, <1>9 DEF Wider
  <2>2. CASE t \in DOMAIN s
    <3>1. Added(t, 10) \subseteq q[t].cols
      BY <1>6, <1>8 DEF Added
    <3>2. /\ IsTable(q[t]) /\ s[t].cols \cup Added(t, 10) \subseteq q[t].cols
          /\ s[t].states \subseteq q[t].states
          /\ Database!References(q[t]) \subseteq Database!References(s[t])
      BY <1>2, <1>8, <2>1, <2>2, <3>1 DEF Wider
    <3> QED
      BY <1>1, <2>2, <3>2, StaysRight
  <2>3. CASE t \in Database!MemoryNames \ DOMAIN s
    <3>1. TableOK(m[t], t, 10)
      BY <1>2, <1>3, <2>3, FreshIsDue
    <3> QED
      BY <1>8, <2>1, <3>1, WiderIsRight
  <2> QED
    BY <1>2, <2>1, <2>2, <2>3
<1>10. Present(10) \subseteq Present(9) \cup Database!MemoryNames
  BY DEF Present
<1>11. DOMAIN q = DOMAIN m /\ Keeps(s, q)
  BY <1>2, <1>8 DEF Wider, Keeps
<1>12. DOMAIN q \subseteq Database!Names /\ Present(10) \subseteq DOMAIN q
  BY <1>1, <1>2, <1>3, <1>10, <1>11
<1> QED
  BY <1>7, <1>9, <1>11, <1>12 DEF Sound, FirstOnly

LEMMA Migration6 == Succeeds(6)
<1> SUFFICES ASSUME NEW s, Sound(s, 5), NEW r, r = Database!Create(s, {Database!Coordination})
             PROVE  Sound(r, 6) /\ Keeps(s, r)
  BY DEF Succeeds, Database!Apply
<1>1. /\ Present(5) \subseteq DOMAIN s
      /\ \A u \in DOMAIN s : u \in Database!Names /\ TableOK(s[u], u, 6 - 1) /\ IsTable(s[u])
  BY SoundTables
<1>2. \A u : Added(u, 6) = {}
  BY DEF Added
<1>3. \A u \in DOMAIN s : TableOK(s[u], u, 6)
  BY <1>1, <1>2, StaysRight
<1>4. Database!Coordination \in Database!Names
  BY DEF Database!Names
<1>5. TableOK(Database!Fresh(Database!Coordination), Database!Coordination, 6)
  BY <1>4, FreshIsDue
<1>6. Present(6) \subseteq Present(5) \cup {Database!Coordination} /\ FirstOnly(r, 6)
  BY DEF Present, FirstOnly
<1> QED
  BY <1>1, <1>3, <1>4, <1>5, <1>6, SoundCreate

\* 0011 makes indexes.
LEMMA Migration11 == Succeeds(11)
<1> SUFFICES ASSUME NEW s, Sound(s, 10) PROVE Sound(s, 11) /\ Keeps(s, s)
  BY DEF Succeeds, Database!Apply
<1>1. \A u \in DOMAIN s : IsTable(s[u])
  BY SoundTables
<1>2. Wider(s, s)
  BY <1>1 DEF Wider, Keeps
<1>3. (\A u : Added(u, 11) = {}) /\ Present(11) \subseteq Present(10)
  BY DEF Added, Present
<1> QED
  BY <1>2, <1>3, SoundColumns

LEMMA Migration16 == Succeeds(16)
<1> SUFFICES ASSUME NEW s, Sound(s, 15)
             PROVE  Sound(Database!M16(s), 16) /\ Keeps(s, Database!M16(s))
  BY DEF Succeeds, Database!Apply
<1> DEFINE r == Database!AddColumns(s, "artifacts", {"version", "parent_artifact_id"})
           m == [r EXCEPT !["artifacts"].setNull = @ \cup {"artifacts"}]
           q == Database!AddColumns(m, "approval_requests", {"modified_payload"})
<1>1. /\ {"artifacts", "approval_requests"} \subseteq DOMAIN s /\ Present(15) \subseteq DOMAIN s
      /\ \A u \in DOMAIN s : u \in Database!Names /\ TableOK(s[u], u, 16 - 1) /\ IsTable(s[u])
  BY SoundTables DEF Present, Database!RunNames
<1>2. Wider(s, r) /\ {"version", "parent_artifact_id"} \subseteq r["artifacts"].cols
  BY <1>1, AddsColumns
<1> HIDE DEF r
<1>3. /\ DOMAIN m = DOMAIN r /\ \A u \in DOMAIN r \ {"artifacts"} : m[u] = r[u]
      /\ IsTable(m["artifacts"]) /\ m["artifacts"].cols = r["artifacts"].cols
      /\ m["artifacts"].states = r["artifacts"].states /\ m["artifacts"].full = r["artifacts"].full
      /\ Database!References(m["artifacts"]) = Database!References(r["artifacts"]) \cup {"artifacts"}
  BY <1>1, <1>2 DEF Wider, IsTable, Database!References
<1>4. \A u \in DOMAIN m : IsTable(m[u])
  BY <1>1, <1>2, <1>3 DEF Wider
<1>5. m = [r EXCEPT !["artifacts"].setNull = @ \cup {"artifacts"}]
  OBVIOUS
<1> HIDE DEF m
<1>6. Wider(m, q) /\ {"modified_payload"} \subseteq q["approval_requests"].cols
  BY <1>1, <1>2, <1>3, <1>4, AddsColumns DEF Wider
<1>7. q = Database!M16(s)
  BY <1>5 DEF q, r, Database!M16
<1> HIDE DEF q
<1>8. "artifacts" \in Stale("artifacts", 16)
  BY DEF Stale
<1>9. ASSUME NEW t \in DOMAIN s
      PROVE  /\ IsTable(q[t]) /\ s[t].cols \cup Added(t, 16) \subseteq q[t].cols
             /\ s[t].states \subseteq q[t].states
             /\ Database!References(q[t]) \subseteq Database!References(s[t]) \cup Stale(t, 16)
  <2>1. /\ IsTable(q[t]) /\ r[t].cols \subseteq q[t].cols /\ q[t].states = r[t].states
        /\ Database!References(q[t]) \subseteq Database!References(r[t]) \cup (IF t = "artifacts" THEN {"artifacts"} ELSE {})
    BY <1>2, <1>3, <1>6 DEF Wider
  <2>2. /\ s[t].cols \subseteq r[t].cols /\ r[t].states = s[t].states
        /\ Database!References(r[t]) = Database!References(s[t])
    BY <1>2 DEF Wider
  <2>3. Added(t, 16) \subseteq q[t].cols
    BY <1>2, <1>6, <2>1 DEF Added
  <2> QED
    BY <1>8, <2>1, <2>2, <2>3
<1>10. \A t \in DOMAIN s : TableOK(q[t], t, 16)
  BY <1>1, <1>9, StaysRight
<1>11. DOMAIN q = DOMAIN s /\ Keeps(s, q)
  BY <1>2, <1>3, <1>6 DEF Wider, Keeps
<1>12. Present(16) \subseteq Present(15)
  BY DEF Present
<1> QED
  BY <1>1, <1>7, <1>10, <1>11, <1>12 DEF Sound, FirstOnly

\* Which tables name the tables that migrations recreate.
LEMMA KeysOfFresh ==
    \A t \in Database!Names :
      /\ Database!References(Database!Fresh(t)) \cap
            {"agent_events", "agent_context_mounts", "usage_ticks", "artifacts", "transcript_entries",
             "approval_requests", "handoff_items"} = {}
      /\ "agent_sessions" \in Database!References(Database!Fresh(t))
           /\ t \in Database!FirstNames \cup {"artifacts"}
         => t \in {"agent_events", "agent_context_mounts", "usage_ticks", "artifacts"}
      /\ "agent_runs" \in Database!References(Database!Fresh(t))
         => t \in {"transcript_entries", "tool_calls", "approval_requests", "handoff_items", "artifacts"}
      /\ "tool_calls" \in Database!References(Database!Fresh(t)) => t = "approval_requests"
<1> SUFFICES ASSUME NEW t \in Database!Names PROVE
      /\ Database!References(Database!Fresh(t)) \cap
            {"agent_events", "agent_context_mounts", "usage_ticks", "artifacts", "transcript_entries",
             "approval_requests", "handoff_items"} = {}
      /\ "agent_sessions" \in Database!References(Database!Fresh(t))
           /\ t \in Database!FirstNames \cup {"artifacts"}
         => t \in {"agent_events", "agent_context_mounts", "usage_ticks", "artifacts"}
      /\ "agent_runs" \in Database!References(Database!Fresh(t))
         => t \in {"transcript_entries", "tool_calls", "approval_requests", "handoff_items", "artifacts"}
      /\ "tool_calls" \in Database!References(Database!Fresh(t)) => t = "approval_requests"
  OBVIOUS
<1>1. Database!References(Database!Fresh(t)) = Database!Cascades(t) \cup Database!Nulls(t)
  BY DEF Database!References, Database!Fresh
<1> QED
  BY <1>1 DEF Database!Cascades, Database!Nulls, Database!FirstNames, Database!Coordination

\* The names they take for a moment are no table's.
LEMMA TemporaryNames ==
    \A t \in Database!Names :
        t \notin {"agent_sessions_old", "agent_events_repair_old", "agent_context_mounts_repair_old",
                  "usage_ticks_repair_old", "artifacts_repair_old", "agent_runs_old",
                  "transcript_entries_v14", "tool_calls_v14", "approval_requests_v14", "handoff_items_v14"}
BY DEF Database!Names, Database!FirstNames, Database!RunNames, Database!MemoryNames, Database!Coordination

LEMMA Migration14 == Succeeds(14)
<1> SUFFICES ASSUME NEW s, Sound(s, 13)
             PROVE  Sound(Database!M14(s), 14) /\ Keeps(s, Database!M14(s))
  BY DEF Succeeds, Database!Apply
<1> DEFINE table == [Database!Fresh("agent_runs") EXCEPT !.states = {"QUEUED", "WAITING_INPUT"}]
           r == Database!M14(s)
<1>1. /\ "agent_runs" \in DOMAIN s /\ Present(13) \subseteq DOMAIN s
      /\ \A u \in DOMAIN s : u \in Database!Names /\ TableOK(s[u], u, 14 - 1) /\ IsTable(s[u])
  BY SoundTables DEF Present, Database!RunNames
<1>2. /\ IsTable(table) /\ table.states = {"QUEUED", "WAITING_INPUT"} /\ table.cols = Database!Columns("agent_runs")
      /\ Database!References(table) = Database!References(Database!Fresh("agent_runs"))
  BY DEF Database!Fresh, IsTable, Database!References
<1>3. r = Database!Recreate(s, "agent_runs", "agent_runs_old", table)
  BY DEF Database!M14
<1>4. "agent_runs_old" \notin DOMAIN s
  BY <1>1, TemporaryNames
<1> HIDE DEF r, table
<1>5. Recreated(s, "agent_runs", "agent_runs_old", table, r)
  BY <1>1, <1>2, <1>3, <1>4, Recreates
<1>6. TableOK(r["agent_runs"], "agent_runs", 14)
  <2>1. Due("agent_runs", 14) = {}
    BY DEF Due, Database!Named, Database!Coordination
  <2>2. DueStates("agent_runs", 14) \subseteq {"QUEUED", "WAITING_INPUT"}
    BY DEF DueStates, Database!Set
  <2> QED
    BY <1>2, <1>5, <2>1, <2>2 DEF TableOK, Same, Recreated
<1>7. ASSUME NEW t \in DOMAIN s \ {"agent_runs"} PROVE TableOK(r[t], t, 14)
  <2>1. "agent_runs" \in Database!References(s[t])
          => t \in {"transcript_entries", "tool_calls", "approval_requests", "handoff_items", "artifacts"}
    BY <1>1, KeysOfFresh DEF TableOK, Stale
  <2>2. Database!References(r[t]) \subseteq Database!References(s[t]) \cup Stale(t, 14)
    BY <1>5, <2>1 DEF Database!Renamed, Stale, Recreated
  <2>3. Added(t, 14) = {}
    BY DEF Added
  <2>4. /\ IsTable(r[t]) /\ s[t].cols \cup Added(t, 14) \subseteq r[t].cols
        /\ s[t].states \subseteq r[t].states
    BY <1>5, <2>3 DEF Recreated
  <2> QED
    BY <1>1, <2>2, <2>4, StaysRight
<1>8. Present(14) \subseteq Present(13)
  BY DEF Present
<1> QED
  BY <1>1, <1>5, <1>6, <1>7, <1>8 DEF Sound, FirstOnly, r, Recreated

LEMMA Migration3 == Succeeds(3)
<1> SUFFICES ASSUME NEW s, Sound(s, 2)
             PROVE  Sound(Database!M3(s), 3) /\ Keeps(s, Database!M3(s))
  BY DEF Succeeds, Database!Apply
<1> DEFINE m == Database!SessionsRebuilt(s)
           r == Database!M3(s)
<1>1. /\ "agent_sessions" \in DOMAIN s /\ Present(2) \subseteq DOMAIN s
      /\ \A u \in DOMAIN s : u \in Database!Names /\ TableOK(s[u], u, 3 - 1) /\ IsTable(s[u])
  BY SoundTables DEF Present, Database!FirstNames
<1>2. \A t : Added(t, 3) = {}
  BY DEF Added
<1>3. DOMAIN m = DOMAIN s /\ Keeps(s, m) /\ \A t \in DOMAIN s : TableOK(m[t], t, 3)
  <2>1. CASE "WAITING_APPROVAL" \in s["agent_sessions"].states
    <3>1. m = s
      BY <2>1 DEF Database!SessionsRebuilt
    <3>2. ASSUME NEW t \in DOMAIN s PROVE TableOK(s[t], t, 3)
      <4>1. DueStates(t, 3) \subseteq s[t].states \/ t # "agent_sessions"
        BY <2>1 DEF DueStates, Database!Set
      <4> QED
        BY <1>1, <1>2, <4>1, StaysRight
    <3> QED
      BY <3>1, <3>2 DEF Keeps
  <2>2. CASE "WAITING_APPROVAL" \notin s["agent_sessions"].states
    <3>1. m = Database!Recreate(s, "agent_sessions", "agent_sessions_old", Database!Fresh("agent_sessions"))
      BY <2>2 DEF Database!SessionsRebuilt
    <3>2. "agent_sessions_old" \notin DOMAIN s
      BY <1>1, TemporaryNames
    <3>3. DOMAIN s \subseteq Database!FirstNames \cup {"artifacts"}
      BY <2>2 DEF Sound, FirstOnly
    <3> HIDE DEF m
    <3>4. Recreated(s, "agent_sessions", "agent_sessions_old", Database!Fresh("agent_sessions"), m)
      BY <1>1, <3>1, <3>2, FreshTables, Recreates
    <3>5. TableOK(m["agent_sessions"], "agent_sessions", 3)
      BY <1>1, <3>4, FreshIsDue, SameIsRight DEF Recreated
    <3>6. ASSUME NEW t \in DOMAIN s \ {"agent_sessions"} PROVE TableOK(m[t], t, 3)
      <4>1. "agent_sessions" \in Database!References(s[t])
              => t \in {"agent_events", "agent_context_mounts", "usage_ticks", "artifacts"}
        BY <1>1, <3>3, KeysOfFresh DEF TableOK, Stale
      <4>2. Database!References(m[t]) \subseteq Database!References(s[t]) \cup Stale(t, 3)
        BY <3>4, <4>1 DEF Database!Renamed, Stale, Recreated
      <4>3. /\ IsTable(m[t]) /\ s[t].cols \cup Added(t, 3) \subseteq m[t].cols
            /\ s[t].states \subseteq m[t].states
        BY <1>2, <3>4 DEF Recreated
      <4> QED
        BY <1>1, <4>2, <4>3, StaysRight
    <3> QED
      BY <3>4, <3>5, <3>6 DEF Recreated
  <2> QED
    BY <2>1, <2>2
<1>4. r = Database!Create(m, Database!RunNames)
  BY DEF Database!M3
<1> HIDE DEF m
<1>5. Database!RunNames \subseteq Database!Names
  BY DEF Database!Names
<1>6. \A t \in Database!RunNames : TableOK(Database!Fresh(t), t, 3)
  BY <1>5, FreshIsDue
<1>7. Present(3) \subseteq Present(2) \cup Database!RunNames /\ FirstOnly(r, 3)
  BY DEF Present, FirstOnly
<1> HIDE DEF r
<1>8. Sound(r, 3) /\ Keeps(m, r)
  <2>1. DOMAIN m \subseteq Database!Names /\ Present(3) \subseteq DOMAIN m \cup Database!RunNames
    BY <1>1, <1>3, <1>7
  <2> QED
    BY <1>3, <1>4, <1>5, <1>6, <1>7, <2>1, SoundCreate
<1> QED
  BY <1>3, <1>8 DEF r, Keeps

\* A repair: the table is as before, with sound keys to the sessions, or as created today.
Repaired(s, t, force, r) ==
    /\ DOMAIN r = DOMAIN s /\ Keeps(s, r)
    /\ \A u \in DOMAIN s \ {t} : Same(s[u], r[u])
    /\ \/ Same(Database!Fresh(t), r[t])
       \/ Same(s[t], r[t]) /\ "agent_sessions_old" \notin Database!References(s[t]) /\ ~force

LEMMA Repairs ==
    ASSUME NEW s, NEW t \in DOMAIN s, NEW temp, temp \notin DOMAIN s, NEW force \in BOOLEAN,
           \A u \in DOMAIN s : IsTable(s[u]),
           \A u \in DOMAIN s \ {t} : t \notin Database!References(s[u]),
           NEW r, r = Database!Repair(s, t, temp, force)
    PROVE  Repaired(s, t, force, r)
<1>1. CASE "agent_sessions_old" \in Database!References(s[t]) \/ force
  <2>1. r = Database!Recreate(s, t, temp, Database!Fresh(t))
    BY <1>1 DEF Database!Repair
  <2>2. Recreated(s, t, temp, Database!Fresh(t), r)
    BY <2>1, FreshTables, Recreates
  <2> QED
    BY <2>2 DEF Recreated, Repaired
<1>2. CASE ~("agent_sessions_old" \in Database!References(s[t]) \/ force)
  <2>1. r = s
    BY <1>2 DEF Database!Repair
  <2> QED
    BY <1>2, <2>1 DEF Repaired, Same, Keeps
<1> QED
  BY <1>1, <1>2

\* The tables 0005 repairs, which no foreign key names.
Dependents == {"agent_events", "agent_context_mounts", "usage_ticks", "artifacts"}

\* While they are repaired: each is as it was, or as created today.
Repairing(s, r) ==
    /\ DOMAIN r = DOMAIN s /\ Keeps(s, r)
    /\ \A u \in DOMAIN s : Same(s[u], r[u]) \/ (u \in Dependents /\ Same(Database!Fresh(u), r[u]))

LEMMA RepairsOne ==
    ASSUME NEW s, \A u \in DOMAIN s : u \in Database!Names /\ TableOK(s[u], u, 4),
           NEW m, Repairing(s, m), NEW t \in Dependents \cap DOMAIN s,
           NEW temp, temp \notin DOMAIN s, NEW force \in BOOLEAN,
           NEW r, r = Database!Repair(m, t, temp, force)
    PROVE  Repaired(m, t, force, r) /\ Repairing(s, r)
<1>1. \A u \in DOMAIN m : IsTable(m[u])
  BY DEF Repairing, Same
<1>2. ASSUME NEW u \in DOMAIN m \ {t} PROVE t \notin Database!References(m[u])
  <2>1. u \in DOMAIN s /\ u \in Database!Names /\ TableOK(s[u], u, 4)
    BY DEF Repairing
  <2>2. t \notin Database!References(Database!Fresh(u))
    BY <2>1, KeysOfFresh DEF Dependents
  <2>3. t \notin Stale(u, 4)
    BY DEF Stale, Dependents
  <2>4. t \notin Database!References(s[u])
    BY <2>1, <2>2, <2>3 DEF TableOK
  <2>5. Database!References(m[u]) \in {Database!References(s[u]), Database!References(Database!Fresh(u))}
    BY <2>1 DEF Repairing, Same
  <2> QED
    BY <2>2, <2>4, <2>5
<1>3. t \in DOMAIN m /\ temp \notin DOMAIN m
  BY DEF Repairing
<1>4. Repaired(m, t, force, r)
  BY <1>1, <1>2, <1>3, Repairs
<1>5. Repairing(s, r)
  <2>1. DOMAIN r = DOMAIN s /\ Keeps(s, r)
    BY <1>4 DEF Repaired, Repairing, Keeps
  <2>2. ASSUME NEW u \in DOMAIN s
        PROVE  Same(s[u], r[u]) \/ (u \in Dependents /\ Same(Database!Fresh(u), r[u]))
    <3>1. Same(m[u], r[u]) \/ (u = t /\ Same(Database!Fresh(t), r[t]))
      BY <1>4 DEF Repaired, Repairing
    <3>2. Same(s[u], m[u]) \/ (u \in Dependents /\ Same(Database!Fresh(u), m[u]))
      BY DEF Repairing
    <3> QED
      BY <3>1, <3>2 DEF Same
  <2> QED
    BY <2>1, <2>2 DEF Repairing
<1> QED
  BY <1>4, <1>5

LEMMA Migration5 == Succeeds(5)
<1> SUFFICES ASSUME NEW s, Sound(s, 4)
             PROVE  Sound(Database!RepairSessionKeys(s), 5) /\ Keeps(s, Database!RepairSessionKeys(s))
  BY DEF Succeeds, Database!Apply
<1> DEFINE events == Database!Repair(s, "agent_events", "agent_events_repair_old", FALSE)
           mounts == Database!Repair(events, "agent_context_mounts", "agent_context_mounts_repair_old", FALSE)
           ticks == Database!Repair(mounts, "usage_ticks", "usage_ticks_repair_old", FALSE)
           force == "run_id" \notin ticks["artifacts"].cols
           r == Database!Repair(ticks, "artifacts", "artifacts_repair_old", force)
<1>1. /\ Dependents \subseteq DOMAIN s /\ Present(4) \subseteq DOMAIN s
      /\ \A u \in DOMAIN s : u \in Database!Names /\ TableOK(s[u], u, 4) /\ IsTable(s[u])
  BY SoundTables DEF Present, Database!FirstNames, Dependents
<1>2. DOMAIN s \cap {"agent_events_repair_old", "agent_context_mounts_repair_old",
                     "usage_ticks_repair_old", "artifacts_repair_old"} = {}
  BY <1>1, TemporaryNames
<1>3. {"agent_events", "agent_context_mounts", "usage_ticks", "artifacts"} \subseteq Dependents \cap DOMAIN s
  BY <1>1 DEF Dependents
<1>4. r = Database!RepairSessionKeys(s) /\ force \in BOOLEAN
  BY DEF Database!RepairSessionKeys
<1>5. Repairing(s, s)
  BY <1>1 DEF Repairing, Same, Keeps
<1>6. Repaired(s, "agent_events", FALSE, events) /\ Repairing(s, events)
  BY <1>1, <1>2, <1>3, <1>5, RepairsOne
<1> HIDE DEF events
<1>7. Repaired(events, "agent_context_mounts", FALSE, mounts) /\ Repairing(s, mounts)
  BY <1>1, <1>2, <1>3, <1>6, RepairsOne
<1> HIDE DEF mounts
<1>8. Repaired(mounts, "usage_ticks", FALSE, ticks) /\ Repairing(s, ticks)
  BY <1>1, <1>2, <1>3, <1>7, RepairsOne
<1> HIDE DEF ticks, force
<1>9. Repaired(ticks, "artifacts", force, r) /\ Repairing(s, r)
  BY <1>1, <1>2, <1>3, <1>4, <1>8, RepairsOne
<1> HIDE DEF r
<1>10. DOMAIN r = DOMAIN s /\ DOMAIN events = DOMAIN s /\ DOMAIN mounts = DOMAIN s /\ DOMAIN ticks = DOMAIN s
  BY <1>6, <1>7, <1>8, <1>9 DEF Repairing
<1>11. ASSUME NEW t \in Dependents
       PROVE  Same(Database!Fresh(t), r[t])
                \/ (Same(s[t], r[t]) /\ "agent_sessions_old" \notin Database!References(s[t]))
  <2>1. t \in DOMAIN s
    BY <1>1
  <2>2. CASE t = "agent_events"
    <3>1. Same(events[t], mounts[t]) /\ Same(mounts[t], ticks[t]) /\ Same(ticks[t], r[t])
      BY <1>7, <1>8, <1>9, <1>10, <2>1, <2>2 DEF Repaired
    <3> QED
      BY <1>6, <2>2, <3>1 DEF Repaired, Same
  <2>3. CASE t = "agent_context_mounts"
    <3>1. Same(s[t], events[t]) /\ Same(mounts[t], ticks[t]) /\ Same(ticks[t], r[t])
      BY <1>6, <1>8, <1>9, <1>10, <2>1, <2>3 DEF Repaired
    <3> QED
      BY <1>7, <2>3, <3>1 DEF Repaired, Same
  <2>4. CASE t = "usage_ticks"
    <3>1. Same(s[t], events[t]) /\ Same(events[t], mounts[t]) /\ Same(ticks[t], r[t])
      BY <1>6, <1>7, <1>9, <1>10, <2>1, <2>4 DEF Repaired
    <3> QED
      BY <1>8, <2>4, <3>1 DEF Repaired, Same
  <2>5. CASE t = "artifacts"
    <3>1. Same(s[t], events[t]) /\ Same(events[t], mounts[t]) /\ Same(mounts[t], ticks[t])
      BY <1>6, <1>7, <1>8, <1>10, <2>1, <2>5 DEF Repaired
    <3> QED
      BY <1>9, <2>5, <3>1 DEF Repaired, Same
  <2> QED
    BY <2>2, <2>3, <2>4, <2>5 DEF Dependents
<1>12. Same(Database!Fresh("artifacts"), r["artifacts"]) \/ "run_id" \in r["artifacts"].cols
  BY <1>9 DEF Repaired, Same, force
<1>13. ASSUME NEW t \in DOMAIN s PROVE TableOK(r[t], t, 5)
  <2>1. t \in Database!Names /\ TableOK(s[t], t, 5 - 1)
    BY <1>1
  <2>2. Due(t, 5) \subseteq Due(t, 5 - 1) \cup Added(t, 5)
    BY DueGrows
  <2>3. Added(t, 5) \subseteq (IF t = "artifacts" THEN {"run_id"} ELSE {})
    BY DEF Added
  <2>4. CASE t \notin Dependents
    <3>1. Same(s[t], r[t])
      BY <1>9, <2>4 DEF Repairing
    <3>2. Added(t, 5) = {} /\ Stale(t, 5 - 1) = {} /\ DueStates(t, 5) = DueStates(t, 5 - 1)
      BY <2>4 DEF Added, Stale, Dependents, DueStates
    <3> QED
      BY <2>1, <2>2, <3>1, <3>2 DEF TableOK, Same
  <2>5. CASE t \in Dependents /\ Same(Database!Fresh(t), r[t])
    <3>1. TableOK(Database!Fresh(t), t, 5)
      BY <2>1, <2>5, FreshIsDue DEF Dependents
    <3> QED
      BY <2>5, <3>1, SameIsRight
  <2>6. CASE t \in Dependents /\ ~Same(Database!Fresh(t), r[t])
    <3>1. Same(s[t], r[t]) /\ "agent_sessions_old" \notin Database!References(s[t])
      BY <1>11, <2>6
    <3>2. Added(t, 5) \subseteq r[t].cols
      BY <1>12, <2>3, <2>6
    <3>3. Stale(t, 5 - 1) \subseteq {"agent_sessions_old"} /\ DueStates(t, 5) = {}
      BY <2>6 DEF Stale, DueStates, Dependents
    <3> QED
      BY <2>1, <2>2, <3>1, <3>2, <3>3 DEF TableOK, Same
  <2> QED
    BY <2>4, <2>5, <2>6
<1>14. Present(5) \subseteq Present(4)
  BY DEF Present
<1> QED
  BY <1>1, <1>4, <1>9, <1>10, <1>13, <1>14 DEF Sound, FirstOnly, Repairing

LEMMA Migration15 == Succeeds(15)
<1> SUFFICES ASSUME NEW s, Sound(s, 14)
             PROVE  Sound(Database!RepairRunKeys(s), 15) /\ Keeps(s, Database!RepairRunKeys(s))
  BY DEF Succeeds, Database!Apply
<1> DEFINE entries == Database!Recreate(s, "transcript_entries", "transcript_entries_v14",
                                        Database!Fresh("transcript_entries"))
           tooled == Database!Recreate(entries, "tool_calls", "tool_calls_v14", Database!Fresh("tool_calls"))
           approvals == Database!Recreate(tooled, "approval_requests", "approval_requests_v14",
                                          Database!Fresh("approval_requests"))
           items == [Database!Fresh("handoff_items") EXCEPT !.cols = {"auto_assign"}]
           r == Database!Recreate(approvals, "handoff_items", "handoff_items_v14", items)
           others == DOMAIN s \ {"transcript_entries", "tool_calls", "approval_requests", "handoff_items"}
<1>1. /\ {"transcript_entries", "tool_calls", "approval_requests", "handoff_items"} \subseteq DOMAIN s
      /\ Present(14) \subseteq DOMAIN s
      /\ \A u \in DOMAIN s : u \in Database!Names /\ TableOK(s[u], u, 15 - 1) /\ IsTable(s[u])
  BY SoundTables DEF Present, Database!RunNames
<1>2. DOMAIN s \cap {"transcript_entries_v14", "tool_calls_v14", "approval_requests_v14", "handoff_items_v14"} = {}
  BY <1>1, TemporaryNames
<1>3. ASSUME NEW u \in DOMAIN s
      PROVE  /\ Database!References(s[u]) \cap {"transcript_entries", "approval_requests", "handoff_items"} = {}
             /\ "tool_calls" \in Database!References(s[u]) => u = "approval_requests"
  <2>1. u \in Database!Names /\ TableOK(s[u], u, 15 - 1)
    BY <1>1
  <2>2. Stale(u, 15 - 1) \subseteq {"agent_sessions_old", "agent_runs_old", "artifacts"}
    BY DEF Stale
  <2>3. Database!References(s[u]) \subseteq Database!References(Database!Fresh(u)) \cup Stale(u, 15 - 1)
    BY <2>1 DEF TableOK
  <2> QED
    BY <2>1, <2>2, <2>3, KeysOfFresh
<1>4. /\ IsTable(items) /\ items.cols = {"auto_assign"} /\ items.states = {}
      /\ Database!References(items) = Database!References(Database!Fresh("handoff_items"))
  BY DEF Database!Fresh, IsTable, Database!References
<1>5. r = Database!RepairRunKeys(s)
  BY DEF Database!RepairRunKeys
<1> HIDE DEF items, others
<1>6. Recreated(s, "transcript_entries", "transcript_entries_v14", Database!Fresh("transcript_entries"), entries)
  BY <1>1, <1>2, FreshTables, Recreates
<1> HIDE DEF entries
<1>7. /\ DOMAIN entries = DOMAIN s /\ Keeps(s, entries) /\ \A u \in DOMAIN s : IsTable(entries[u])
      /\ Same(Database!Fresh("transcript_entries"), entries["transcript_entries"])
      /\ \A u \in DOMAIN s \ {"transcript_entries"} : Same(s[u], entries[u])
  BY <1>3, <1>6 DEF Recreated
<1>8. Recreated(entries, "tool_calls", "tool_calls_v14", Database!Fresh("tool_calls"), tooled)
  BY <1>1, <1>2, <1>7, FreshTables, Recreates
<1> HIDE DEF tooled
<1>9. /\ DOMAIN tooled = DOMAIN s /\ Keeps(s, tooled) /\ \A u \in DOMAIN s : IsTable(tooled[u])
      /\ Same(Database!Fresh("transcript_entries"), tooled["transcript_entries"])
      /\ Same(Database!Fresh("tool_calls"), tooled["tool_calls"])
      /\ \A u \in others \cup {"handoff_items"} : u \in DOMAIN s => Same(s[u], tooled[u])
  <2>1. \A u \in DOMAIN s \ {"approval_requests"} : "tool_calls" \notin Database!References(entries[u])
    <3>1. "tool_calls" \notin Database!References(Database!Fresh("transcript_entries"))
      BY <1>1, KeysOfFresh
    <3> QED
      BY <1>3, <1>7, <3>1 DEF Same
  <2>2. Keeps(s, tooled)
    BY <1>7, <1>8 DEF Recreated, Keeps
  <2>3. \A u \in DOMAIN s \ {"approval_requests", "tool_calls"} : Same(entries[u], tooled[u])
    BY <1>7, <1>8, <2>1 DEF Recreated
  <2>4. /\ DOMAIN tooled = DOMAIN s /\ \A u \in DOMAIN s : IsTable(tooled[u])
        /\ Same(Database!Fresh("tool_calls"), tooled["tool_calls"])
    BY <1>7, <1>8 DEF Recreated
  <2> QED
    BY <1>1, <1>7, <2>2, <2>3, <2>4 DEF Same, others
<1>10. Recreated(tooled, "approval_requests", "approval_requests_v14", Database!Fresh("approval_requests"), approvals)
  BY <1>1, <1>2, <1>9, FreshTables, Recreates
<1> HIDE DEF approvals
<1>11. /\ DOMAIN approvals = DOMAIN s /\ Keeps(s, approvals) /\ \A u \in DOMAIN s : IsTable(approvals[u])
       /\ \A u \in {"transcript_entries", "tool_calls", "approval_requests"} :
            Same(Database!Fresh(u), approvals[u])
       /\ \A u \in others \cup {"handoff_items"} : u \in DOMAIN s => Same(s[u], approvals[u])
  <2>1. \A u \in DOMAIN s \ {"approval_requests"} : "approval_requests" \notin Database!References(tooled[u])
    <3>1. \A u \in {"transcript_entries", "tool_calls"} :
            "approval_requests" \notin Database!References(Database!Fresh(u))
      BY <1>1, KeysOfFresh
    <3> QED
      BY <1>3, <1>9, <3>1 DEF Same, others
  <2>2. Keeps(s, approvals)
    BY <1>9, <1>10 DEF Recreated, Keeps
  <2>3. \A u \in DOMAIN s \ {"approval_requests"} : Same(tooled[u], approvals[u])
    BY <1>9, <1>10, <2>1 DEF Recreated
  <2>4. /\ DOMAIN approvals = DOMAIN s /\ \A u \in DOMAIN s : IsTable(approvals[u])
        /\ Same(Database!Fresh("approval_requests"), approvals["approval_requests"])
    BY <1>9, <1>10 DEF Recreated
  <2> QED
    BY <1>1, <1>9, <2>2, <2>3, <2>4 DEF Same, others
<1>12. Recreated(approvals, "handoff_items", "handoff_items_v14", items, r)
  BY <1>1, <1>2, <1>4, <1>11, Recreates
<1> HIDE DEF r
<1>13. /\ DOMAIN r = DOMAIN s /\ Keeps(s, r) /\ Same(items, r["handoff_items"])
       /\ \A u \in {"transcript_entries", "tool_calls", "approval_requests"} :
            Same(Database!Fresh(u), r[u])
       /\ \A u \in others : Same(s[u], r[u])
  <2>1. \A u \in DOMAIN s \ {"handoff_items"} : "handoff_items" \notin Database!References(approvals[u])
    <3>1. \A u \in {"transcript_entries", "tool_calls", "approval_requests"} :
            "handoff_items" \notin Database!References(Database!Fresh(u))
      BY <1>1, KeysOfFresh
    <3> QED
      BY <1>3, <1>11, <3>1 DEF Same, others
  <2>2. Keeps(s, r)
    BY <1>11, <1>12 DEF Recreated, Keeps
  <2>3. \A u \in DOMAIN s \ {"handoff_items"} : Same(approvals[u], r[u])
    BY <1>11, <1>12, <2>1 DEF Recreated
  <2>4. DOMAIN r = DOMAIN s /\ Same(items, r["handoff_items"])
    BY <1>11, <1>12 DEF Recreated
  <2> QED
    BY <1>1, <1>11, <2>2, <2>3, <2>4 DEF Same, others
<1>14. ASSUME NEW t \in DOMAIN s PROVE TableOK(r[t], t, 15)
  <2>1. t \in Database!Names /\ TableOK(s[t], t, 15 - 1)
    BY <1>1
  <2>2. CASE t \in {"transcript_entries", "tool_calls", "approval_requests"}
    <3>1. TableOK(Database!Fresh(t), t, 15)
      BY <2>1, <2>2, FreshIsDue
    <3> QED
      BY <1>13, <2>2, <3>1, SameIsRight
  <2>3. CASE t = "handoff_items"
    <3>1. Due(t, 15) \subseteq {"auto_assign"} /\ DueStates(t, 15) = {}
      BY <2>3 DEF Due, DueStates, Database!Named, Database!Coordination
    <3> QED
      BY <1>4, <1>13, <2>3, <3>1 DEF TableOK, Same
  <2>4. CASE t \in others
    <3>1. Due(t, 15) \subseteq Due(t, 15 - 1) /\ DueStates(t, 15) \subseteq DueStates(t, 15 - 1)
      BY DueGrows DEF Added, DueStates
    <3>2. Stale(t, 15 - 1) \subseteq Stale(t, 15)
      BY <2>4 DEF Stale, others
    <3> QED
      BY <1>13, <2>1, <2>4, <3>1, <3>2 DEF TableOK, Same
  <2> QED
    BY <2>2, <2>3, <2>4 DEF others
<1>15. Present(15) \subseteq Present(14)
  BY DEF Present
<1> QED
  BY <1>1, <1>5, <1>13, <1>14, <1>15 DEF Sound, FirstOnly

LEMMA Migrates == \A n \in 1..16 : Succeeds(n)
BY Migration1, MigrationsOfColumns, Migration3, Migration5, Migration6, Migration9, Migration10,
   Migration11, Migration14, Migration15, Migration16

-----------------------------------------------------------------------------
(* The steps of the planes                                                 *)

LEMMA Fills ==
    ASSUME NEW k, NEW s, Sound(s, k), NEW r, DOMAIN r = DOMAIN s,
           \A t \in DOMAIN s : r[t] \in {s[t], [s[t] EXCEPT !.full = TRUE]}
    PROVE  Sound(r, k) /\ Keeps(s, r)
<1>1. \A t \in DOMAIN s : TableOK(s[t], t, k) /\ IsTable(s[t])
  BY SoundTables
<1>2. ASSUME NEW t \in DOMAIN s
      PROVE  Same(s[t], r[t]) /\ (s[t].full => r[t].full)
  BY <1>1 DEF Same, IsTable, Database!References
<1>3. \A t \in DOMAIN s : TableOK(r[t], t, k)
  BY <1>1, <1>2, SameIsRight
<1>4. FirstOnly(r, k)
  <2> SUFFICES ASSUME k \in {1, 2} PROVE FirstOnly(r, k)
    BY DEF FirstOnly
  <2>1. "agent_sessions" \in DOMAIN s
    BY DEF Sound, Present, Database!FirstNames
  <2> QED
    BY <1>2, <2>1 DEF FirstOnly, Sound, Same
<1> QED
  BY <1>2, <1>3, <1>4 DEF Sound, Keeps

LEMMA LeastIsNext ==
    \A n, k \in Nat : k < n => (1..n) \ (1..k) # {} /\ Database!Least((1..n) \ (1..k)) = k + 1
<1> SUFFICES ASSUME NEW n \in Nat, NEW k \in Nat, k < n
             PROVE  (1..n) \ (1..k) # {} /\ Database!Least((1..n) \ (1..k)) = k + 1
  OBVIOUS
<1> DEFINE ns == (1..n) \ (1..k)
<1>1. k + 1 \in ns /\ \A m \in ns : k + 1 <= m
  OBVIOUS
<1>2. \A l \in ns : (\A m \in ns : l <= m) => l = k + 1
  BY <1>1
<1> HIDE DEF ns
<1>3. Database!Least(ns) = k + 1
  BY <1>1, <1>2 DEF Database!Least
<1> QED
  BY <1>1, <1>3 DEF ns

LEMMA InitialIsSound == Sound(Database!InitialTables, 1)
<1> DEFINE s == Database!InitialTables
<1>1. DOMAIN s = Database!FirstNames \cup {"artifacts"}
  BY DEF Database!InitialTables
<1>2. ASSUME NEW t \in DOMAIN s PROVE TableOK(s[t], t, 1)
  <2>1. Due(t, 1) = {} /\ DueStates(t, 1) = {}
    BY DEF Due, Since, DueStates
  <2>2. IsTable(s[t]) /\ Database!References(s[t]) \subseteq Database!References(Database!Fresh(t))
    <3>1. s[t] \in {[Database!Fresh(t) EXCEPT !.cols = {}, !.setNull = {}],
                    [Database!Fresh(t) EXCEPT !.states = {}], Database!Fresh(t)}
      BY <1>1 DEF Database!InitialTables
    <3>2. IsTable(Database!Fresh(t))
      BY FreshTables
    <3> QED
      BY <3>1, <3>2 DEF IsTable, Database!References
  <2> QED
    BY <2>1, <2>2 DEF TableOK
<1>3. DOMAIN s \subseteq Database!Names
  BY <1>1 DEF Database!Names
<1> QED
  BY <1>1, <1>2, <1>3 DEF Sound, FirstOnly, Present

LEMMA UnnamedIsSound == Sound(Database!UnnamedCalls, 3)
<1>1. Sound(Database!Apply(2, Database!InitialTables), 2)
  BY InitialIsSound, Migrates DEF Succeeds
<1> DEFINE s == Database!Apply(3, Database!Apply(2, Database!InitialTables))
<1>2. Sound(s, 3)
  BY <1>1, Migrates DEF Succeeds
<1>3. Database!UnnamedCalls = [s EXCEPT !["tool_calls"].cols = {}]
  BY DEF Database!UnnamedCalls
<1> HIDE DEF s
<1>4. "tool_calls" \in DOMAIN s /\ TableOK(s["tool_calls"], "tool_calls", 3)
  BY <1>2 DEF Sound, Present, Database!RunNames
<1>5. Due("tool_calls", 3) = {}
  BY DEF Due, Since, Database!Named, Database!Coordination
<1>6. TableOK([s["tool_calls"] EXCEPT !.cols = {}], "tool_calls", 3)
  BY <1>4, <1>5 DEF TableOK, IsTable, Database!References
<1> QED
  BY <1>2, <1>3, <1>4, <1>6 DEF Sound, FirstOnly

LEMMA InUseIsSound == \A s, k : Sound(s, k) => Sound(Database!InUse(s), k) /\ Keeps(s, Database!InUse(s))
<1> SUFFICES ASSUME NEW s, NEW k, Sound(s, k)
             PROVE  Sound(Database!InUse(s), k) /\ Keeps(s, Database!InUse(s))
  OBVIOUS
<1>1. /\ DOMAIN Database!InUse(s) = DOMAIN s
      /\ \A t \in DOMAIN s : Database!InUse(s)[t] \in {s[t], [s[t] EXCEPT !.full = TRUE]}
  BY DEF Database!InUse
<1> QED
  BY <1>1, Fills

LEMMA EmptyIsSound == ASSUME NEW s, DOMAIN s = {} PROVE Sound(s, 0)
BY DEF Sound, Present, FirstOnly

LEMMA InitDatabase == Database!Init \/ NoDatabase => DatabaseInv
<1> SUFFICES ASSUME Database!Init \/ NoDatabase PROVE DatabaseInv
  OBVIOUS
<1>1. ASSUME NEW k \in 0..16, recorded = 1..k, Sound(schema, k) PROVE DatabaseInv
  <2>1. release \in 0..16
    <3>1. Prefixes \subseteq 0..16
      BY StorageAssumption DEF Database!MigrationsAssumption
    <3>2. release \in Prefixes \/ release = 0
      BY DEF Database!Init, NoDatabase
    <3>3. CASE release \in Prefixes
      BY <3>1, <3>3
    <3>4. CASE release = 0
      BY <3>4
    <3> QED
      BY <3>2, <3>3, <3>4
  <2>2. /\ history # "live" /\ plane = [p \in Planes |-> "down"] /\ applied = [p \in Planes |-> {}]
    BY DEF Database!Init, NoDatabase
  <2>3. {} = 1..0 /\ 0 \in 0..k
    OBVIOUS
  <2>4. \A p \in Planes : applied[p] = 1..0 /\ plane[p] = "down" /\ 0 < 16
    BY <2>2, <2>3
  <2>5. RecordedOK(k)
    BY <1>1, <2>1, <2>2, <2>3, <2>4 DEF RecordedOK
  <2> QED
    BY <1>1, <2>5 DEF DatabaseInv
<1>2. CASE recorded = {} /\ DOMAIN schema = {}
  <2>1. recorded = 1..0 /\ Sound(schema, 0)
    BY <1>2, EmptyIsSound
  <2> QED
    BY <1>1, <2>1
<1>3. CASE schema = Database!InUse(Database!InitialTables) /\ recorded = {1}
  <2>1. recorded = 1..1 /\ Sound(schema, 1)
    BY <1>3, InitialIsSound, InUseIsSound
  <2> QED
    BY <1>1, <2>1
<1>4. CASE schema = Database!InUse(Database!UnnamedCalls) /\ recorded = 1..3
  <2>1. Sound(schema, 3)
    BY <1>4, UnnamedIsSound, InUseIsSound
  <2> QED
    BY <1>1, <1>4, <2>1
<1>5. CASE NoDatabase
  <2>1. recorded = {} /\ DOMAIN schema = {}
    BY <1>5 DEF NoDatabase
  <2> QED
    BY <1>2, <2>1
<1>6. CASE Database!Init
  <2>1. \/ recorded = {} /\ schema = [t \in {} |-> Database!Fresh(t)]
        \/ schema = Database!InUse(Database!InitialTables) /\ recorded = {1}
        \/ schema = Database!InUse(Database!UnnamedCalls) /\ recorded = 1..3
    BY <1>6, Zenon DEF Database!Init
  <2> QED
    BY <1>2, <1>3, <1>4, <2>1
<1> QED
  BY <1>5, <1>6

\* What a step leaves of what is recorded.
LEMMA KeepsRecord ==
    ASSUME NEW k \in 0..16, RecordedOK(k), NEW p \in Planes, NEW to, to # "serve", NEW j \in 0..k,
           to = "within" => j < 16, k >= release,
           plane' = [plane EXCEPT ![p] = to],
           applied' = [applied EXCEPT ![p] = 1..j] \/ (UNCHANGED applied /\ applied[p] = 1..j),
           UNCHANGED <<recorded, release, history>>
    PROVE  RecordedOK(k)'
<1>1. DOMAIN plane' = Planes /\ DOMAIN applied' = Planes
  BY DEF RecordedOK
<1>2. ASSUME NEW q \in Planes
      PROVE  /\ \E i \in 0..k : applied'[q] = 1..i /\ (plane'[q] = "within" => i < 16)
             /\ plane'[q] = "serve" => k = 16
  <2>1. CASE q = p
    <3>1. applied'[p] = 1..j /\ plane'[p] = to
      BY DEF RecordedOK
    <3> QED
      BY <2>1, <3>1
  <2>2. CASE q # p
    <3>1. applied'[q] = applied[q] /\ plane'[q] = plane[q]
      BY <2>2 DEF RecordedOK
    <3> QED
      BY <3>1 DEF RecordedOK
  <2> QED
    BY <2>1, <2>2
<1> QED
  BY <1>1, <1>2 DEF RecordedOK

\* The next migration of a plane that has read, or applied, this many.
LEMMA NextOfPlane ==
    ASSUME NEW p, NEW j \in 0..16, applied[p] = 1..j
    PROVE  /\ Database!Pending(p) = {} <=> j = 16
           /\ j < 16 => Database!NextMigration(p) = j + 1
<1>1. Database!Pending(p) = (1..16) \ (1..j)
  BY DEF Database!Pending, Database!Count
<1>2. j = 16 => Database!Pending(p) = {}
  BY <1>1
<1>3. ASSUME j < 16 PROVE Database!Pending(p) # {} /\ Database!Least(Database!Pending(p)) = j + 1
  <2>1. 16 \in Nat /\ j \in Nat
    OBVIOUS
  <2> QED
    BY <1>1, <1>3, <2>1, LeastIsNext
<1> QED
  BY <1>2, <1>3 DEF Database!NextMigration

LEMMA UpgradeStep ==
    ASSUME DatabaseInv, Database!Upgrade
    PROVE  DatabaseInv' /\ Keeps(schema, schema') /\ (history = "live" => history' = "live")
<1>1. PICK k \in 0..16 : RecordedOK(k) /\ Sound(schema, k)
  BY DEF DatabaseInv
<1>2. k < release /\ k + 1 \in 1..16 /\ Database!Least(Database!Missing) = k + 1
  <2>1. Database!Missing = (1..release) \ (1..k) /\ release \in 0..16
    BY <1>1 DEF Database!Missing, RecordedOK
  <2>2. k < release
    BY <2>1 DEF Database!Upgrade
  <2> QED
    BY <2>1, <2>2, LeastIsNext
<1>3. /\ schema' = Database!InUse(Database!Apply(k + 1, schema)) /\ recorded' = recorded \cup {k + 1}
      /\ history' = (IF k + 1 >= 9 THEN "live" ELSE history) /\ UNCHANGED <<release, plane, applied>>
  BY <1>2 DEF Database!Upgrade
<1>4. /\ Sound(Database!Apply(k + 1, schema), k + 1) /\ Keeps(schema, Database!Apply(k + 1, schema))
  BY <1>1, <1>2, Migrates DEF Succeeds
<1>5. Sound(schema', k + 1) /\ Keeps(schema, schema')
  BY <1>3, <1>4, InUseIsSound DEF Keeps
<1>6. RecordedOK(k + 1)'
  <2>1. recorded' = 1..(k + 1)
    BY <1>1, <1>3 DEF RecordedOK
  <2>2. \A p \in Planes : /\ plane'[p] = "down"
                          /\ \E j \in 0..(k + 1) : applied'[p] = 1..j /\ (plane'[p] = "within" => j < 16)
    BY <1>1, <1>2, <1>3 DEF RecordedOK
  <2> QED
    BY <1>1, <1>2, <1>3, <2>1, <2>2 DEF RecordedOK
<1> QED
  BY <1>2, <1>3, <1>5, <1>6 DEF DatabaseInv

LEMMA CommitStep ==
    ASSUME DatabaseInv, NEW p \in Planes, Database!Commit(p)
    PROVE  DatabaseInv' /\ Keeps(schema, schema') /\ (history = "live" => history' = "live")
<1>1. PICK k \in 0..16 : RecordedOK(k) /\ Sound(schema, k)
  BY DEF DatabaseInv
<1>2. PICK j \in 0..k : applied[p] = 1..j /\ j < 16
  BY <1>1 DEF RecordedOK, Database!Commit
<1>3. j = k /\ k + 1 \in 1..16 /\ Database!NextMigration(p) = k + 1
  <2>1. Database!NextMigration(p) \notin 1..k
    BY <1>1 DEF Database!Commit, RecordedOK
  <2>2. j \in 0..16
    OBVIOUS
  <2>3. Database!NextMigration(p) = j + 1
    BY <1>2, <2>2, NextOfPlane
  <2> QED
    BY <1>2, <2>1, <2>3
<1>4. /\ schema' = Database!Apply(k + 1, schema) /\ recorded' = recorded \cup {k + 1}
      /\ applied' = [applied EXCEPT ![p] = @ \cup {k + 1}]
      /\ plane' = [plane EXCEPT ![p] = "migrate"] /\ release' = release /\ plane[p] = "within"
      /\ history' = IF k + 1 = 9 /\ schema[Database!Coordination].full THEN "copied" ELSE history
  BY <1>3 DEF Database!Commit, Database!Goes, Database!Backfill
<1>5. Sound(schema', k + 1) /\ Keeps(schema, schema')
  BY <1>1, <1>3, <1>4, Migrates DEF Succeeds
<1>6. history = "live" => k >= 9 /\ history' = "live"
  BY <1>1, <1>4 DEF RecordedOK
<1>7. RecordedOK(k + 1)'
  <2>1. recorded' = 1..(k + 1)
    BY <1>1, <1>4 DEF RecordedOK
  <2>2. k >= release
    BY <1>1, <1>4 DEF RecordedOK
  <2>3. ASSUME NEW q \in Planes
        PROVE  /\ \E i \in 0..(k + 1) : applied'[q] = 1..i /\ (plane'[q] = "within" => i < 16)
               /\ plane'[q] # "serve"
    <3>1. CASE q = p
      <4>1. applied'[p] = 1..(k + 1) /\ plane'[p] = "migrate"
        BY <1>1, <1>2, <1>3, <1>4 DEF RecordedOK
      <4> QED
        BY <1>3, <3>1, <4>1
    <3>2. CASE q # p
      <4>1. applied'[q] = applied[q] /\ plane'[q] = plane[q]
        BY <1>1, <1>4, <3>2 DEF RecordedOK
      <4> QED
        BY <1>1, <1>3, <4>1 DEF RecordedOK
    <3> QED
      BY <3>1, <3>2
  <2>4. DOMAIN plane' = Planes /\ DOMAIN applied' = Planes
    BY <1>1, <1>4 DEF RecordedOK
  <2>5. history' = "live" => k + 1 >= 9
    BY <1>4, <1>6
  <2>6. release' \in 0..16 /\ ~(k + 1 < release')
    BY <1>1, <1>4, <2>2 DEF RecordedOK
  <2> QED
    BY <2>1, <2>3, <2>4, <2>5, <2>6 DEF RecordedOK
<1> QED
  BY <1>3, <1>5, <1>6, <1>7 DEF DatabaseInv

LEMMA OtherSteps ==
    ASSUME DatabaseInv, NEW p \in Planes,
           \/ Database!Start(p) \/ Database!Begin(p) \/ Database!Rollback(p)
           \/ Database!AssertCoreSchema(p) \/ Database!Crash(p)
    PROVE  DatabaseInv' /\ schema' = schema /\ history' = history
<1>1. PICK k \in 0..16 : RecordedOK(k) /\ Sound(schema, k)
  BY DEF DatabaseInv
<1>2. UNCHANGED <<schema, recorded, history, release>>
  BY DEF Database!Start, Database!Begin, Database!Rollback, Database!AssertCoreSchema, Database!Crash
<1>3. PICK j \in 0..k : applied[p] = 1..j /\ (plane[p] = "within" => j < 16)
  BY <1>1 DEF RecordedOK
<1>4. j \in 0..16 /\ (Database!Pending(p) = {} <=> j = 16)
  <2>1. j \in 0..16
    OBVIOUS
  <2> QED
    BY <1>3, <2>1, NextOfPlane
<1>5. CASE Database!Start(p)
  <2>1. applied' = [applied EXCEPT ![p] = 1..k] /\ plane' = [plane EXCEPT ![p] = "migrate"]
    BY <1>1, <1>5 DEF Database!Start, Database!Goes, RecordedOK
  <2>2. k >= release
    <3>1. (1..release) \ (1..k) = {} /\ release \in 0..16
      BY <1>1, <1>5 DEF Database!Start, Database!Missing, RecordedOK
    <3>2. CASE k < release
      BY <3>1, <3>2, LeastIsNext
    <3> QED
      BY <3>1, <3>2
  <2>3. k \in 0..k
    OBVIOUS
  <2>4. RecordedOK(k)'
    BY <1>1, <1>2, <2>1, <2>2, <2>3, KeepsRecord
  <2> QED
    BY <1>1, <1>2, <2>4 DEF DatabaseInv
<1>6. CASE Database!Begin(p) \/ Database!Rollback(p) \/ Database!Crash(p)
  <2>1. PICK to \in {"within", "failed", "down"} :
            /\ plane' = [plane EXCEPT ![p] = to] /\ UNCHANGED applied /\ plane[p] # "down"
            /\ to = "within" => Database!Pending(p) # {}
    BY <1>6 DEF Database!Begin, Database!Rollback, Database!Crash, Database!Goes
  <2>2. to = "within" => j < 16
    BY <1>4, <2>1
  <2>3. k >= release
    BY <1>1, <2>1 DEF RecordedOK
  <2>4. RecordedOK(k)'
    BY <1>1, <1>2, <1>3, <2>1, <2>2, <2>3, KeepsRecord
  <2> QED
    BY <1>1, <1>2, <2>4 DEF DatabaseInv
<1>7. CASE Database!AssertCoreSchema(p)
  <2>1. PICK to \in {"serve", "failed"} :
            plane' = [plane EXCEPT ![p] = to] /\ applied' = applied /\ Database!Pending(p) = {}
    BY <1>7 DEF Database!AssertCoreSchema, Database!Goes
  <2>2. j = 16 /\ k = 16
    BY <1>4, <2>1
  <2>3. RecordedOK(k)'
    BY <1>1, <1>2, <2>1, <2>2 DEF RecordedOK
  <2> QED
    BY <1>1, <1>2, <2>3 DEF DatabaseInv
<1> QED
  BY <1>2, <1>5, <1>6, <1>7

LEMMA ServeStep ==
    ASSUME DatabaseInv, NEW p \in Planes, Database!Serve(p)
    PROVE  DatabaseInv' /\ Keeps(schema, schema') /\ history' = "live"
<1>1. PICK k \in 0..16 : RecordedOK(k) /\ Sound(schema, k)
  BY DEF DatabaseInv
<1>2. k = 16
  BY <1>1 DEF Database!Serve, RecordedOK
<1>3. /\ DOMAIN schema' = DOMAIN schema
      /\ \A t \in DOMAIN schema : schema'[t] \in {schema[t], [schema[t] EXCEPT !.full = TRUE]}
  BY DEF Database!Serve
<1>4. Sound(schema', k) /\ Keeps(schema, schema')
  BY <1>1, <1>3, Fills
<1>5. RecordedOK(k)'
  BY <1>1, <1>2 DEF Database!Serve, RecordedOK
<1> QED
  BY <1>4, <1>5 DEF DatabaseInv, Database!Serve

LEMMA DatabaseStep ==
    ASSUME DatabaseInv, [NextIn]_all
    PROVE  DatabaseInv' /\ Keeps(schema, schema') /\ (history = "live" => history' = "live")
<1>1. CASE UNCHANGED base
  BY <1>1 DEF base, DatabaseInv, RecordedOK, Keeps
<1>2. CASE Database!Next
  BY <1>2, UpgradeStep, CommitStep, OtherSteps, ServeStep DEF Database!Next, Database!Step, Keeps
<1> QED
  BY <1>1, <1>2 DEF NextIn, all

LEMMA AlwaysDatabaseInv == SpecIn => []DatabaseInv
<1>1. InitIn => DatabaseInv
  BY InitDatabase DEF InitIn
<1>2. DatabaseInv /\ [NextIn]_all => DatabaseInv'
  BY DatabaseStep
<1> QED
  BY <1>1, <1>2, PTL DEF SpecIn

(* A control plane serves only with every column and every state that its     *)
(* statements use, and with sound keys where 0005 and 0015 repair them,       *)
(* whatever release the database is from and however many planes start on it. *)
THEOREM SchemaIsServedSound == SpecIn => []ServedSchemaIsSound
<1>1. DatabaseInv => ServedSchemaIsSound
  <2> SUFFICES ASSUME DatabaseInv, NEW p \in Planes, plane[p] = "serve" PROVE ServedSchemaIsSound
    BY DEF ServedSchemaIsSound, Database!ServedSchemaIsCurrent, Database!RepairedKeysResolve
  <2>1. Sound(schema, 16)
    BY DEF DatabaseInv, RecordedOK
  <2>2. DOMAIN schema = Database!Names
    BY <2>1 DEF Sound, Present, Database!Names
  <2>3. ASSUME NEW t \in Database!Names
        PROVE  /\ Database!Named(t) \subseteq schema[t].cols /\ Database!Set(t) \subseteq schema[t].states
               /\ t # "artifacts" => Database!References(schema[t]) \subseteq DOMAIN schema
    <3>1. TableOK(schema[t], t, 16)
      BY <2>1, <2>2 DEF Sound
    <3>2. Due(t, 16) = Database!Named(t)
      BY DEF Due, Since
    <3>3. DueStates(t, 16) = Database!Set(t)
      BY DEF DueStates, Database!Set
    <3>4. t # "artifacts" => Stale(t, 16) = {}
      BY DEF Stale
    <3>5. Database!References(Database!Fresh(t)) \subseteq Database!Names
      <4>1. Database!References(Database!Fresh(t)) = Database!Cascades(t) \cup Database!Nulls(t)
        BY DEF Database!References, Database!Fresh
      <4> QED
        BY <4>1 DEF Database!Cascades, Database!Nulls, Database!Names, Database!FirstNames,
                    Database!RunNames
    <3> QED
      BY <2>2, <3>1, <3>2, <3>3, <3>4, <3>5 DEF TableOK
  <2> QED
    BY <2>2, <2>3 DEF ServedSchemaIsSound, Database!ServedSchemaIsCurrent, Database!RepairedKeysResolve
<1> QED
  BY <1>1, AlwaysDatabaseInv, PTL

(* No migration loses the rows of a table, whatever it renames, recreates or  *)
(* drops; and 0009 never copies over the history written since.               *)
THEOREM NothingIsEverLost == SpecIn => NothingIsLost
<1>1. DatabaseInv /\ [NextIn]_all =>
        /\ [\A t \in DOMAIN schema : schema[t].full => t \in DOMAIN schema' /\ schema'[t].full]_(Database!vars)
        /\ [history = "live" => history' = "live"]_(Database!vars)
  BY DatabaseStep DEF Keeps
<1> QED
  BY <1>1, AlwaysDatabaseInv, PTL
  DEF SpecIn, NothingIsLost, Database!RowsAreKept, Database!HistoryStays

-----------------------------------------------------------------------------
(* Walks over a tree: the invariant.                                        *)

\* p is a prefix of q; p comes before q, and so does all below p before all below q.
Within(p, q) == Len(p) <= Len(q) /\ \A k \in 1..Len(p) : p[k] = q[k]
Apart(p, q) ==
    \E k \in 1..Len(p) : k <= Len(q) /\ p[k] < q[k] /\ \A j \in 1..(k - 1) : p[j] = q[j]
\* Neither is a prefix of the other.
Unlike(p, q) == Apart(p, q) \/ Apart(q, p)

EntryKinds == {"dir", "match", "other", "dangling"}

\* What an item of the worklist stands for.
Covers(w, q) ==
    /\ Within(w.path, q)
    /\ w.do \in {"enter", "root"} => Len(w.path) < Len(q)
    /\ w.do \in {"match", "other", "dangling", "read", "ask"} => q = w.path

\* Some item of the worklist is going to come to q.
Covered(q) == \E i \in DOMAIN work : Covers(work[i], q)

\* p is there, or is a directory, unless somebody has changed it.
Known(p) == p \in touched \/ p \in DOMAIN tree
Entered(p) == p \in touched \/ Walks!IsDir(p)

Items == [path : Walks!Paths \cup {Walks!Root},
          do : EntryKinds \cup {"enter", "stat", "read", "ask", "root"}]

\* Types; and what nobody has changed has directories above it that nobody has changed.
WalkTypes ==
    /\ Walks!IsTree(tree) /\ touched \subseteq Walks!Paths
    /\ \A q \in Walks!Steady, p \in touched : ~Within(p, q)
    /\ request \in [tool : {"none", "list_tree", "search_files", "project_files", "read_file"},
                    at : Seq(Nat), depth : Nat, chars : Nat, bytes : Nat]
    /\ found \in Seq(Walks!Paths)
    /\ work \in Seq(Items)
    /\ reply.status \in {"none", "ok", "error"}
    /\ reply.status # "none" => work = <<>>

\* Nothing is found before there is a call.
Unbegun ==
    request.tool = "none" =>
        request = Walks!NoCall /\ work = <<>> /\ found = <<>> /\ reply = Walks!NoReply /\ touched = {}

\* What is found comes before all that the item w still leads to.
Earlier(f, w) ==
    Apart(f, w.path) \/ (Within(f, w.path) /\ (Len(f) < Len(w.path) \/ w.do = "enter"))

ListItemOK(w) ==
    \/ /\ w.do = "enter" /\ Entered(w.path) /\ Len(w.path) <= Len(request.at) + request.depth
       /\ w.path = request.at \/ Walks!Listable(w.path)
    \/ w.do \in EntryKinds /\ Walks!Listable(w.path) /\ (w.path \in touched \/ Walks!Is(w.path, {w.do}))

\* list_tree: what is found and then the worklist are in the order of the paths, and an
\* entry nobody has changed is found, covered, or after all of a full list.
ListInv ==
    /\ Len(found) <= TreeLimit
    /\ \A i \in DOMAIN work : ListItemOK(work[i])
    /\ \A i \in DOMAIN found : Walks!Listable(found[i]) /\ Known(found[i])
    /\ \A i, j \in DOMAIN found : i < j => Walks!Before(found[i], found[j])
    /\ \A i, j \in DOMAIN work : i < j => Apart(work[i].path, work[j].path)
    /\ \A i \in DOMAIN found, j \in DOMAIN work : Earlier(found[i], work[j])
    /\ reply.status # "error" =>
         \A q \in Walks!Steady : Walks!Listable(q) =>
            \/ q \in Walks!ToSet(found) \/ Covered(q)
            \/ Len(found) = TreeLimit /\ \A i \in DOMAIN found : Walks!Before(found[i], q)
    /\ reply.status = "error" => touched # {}
    /\ reply.status = "ok" => reply.truncated = (Len(found) >= TreeLimit)

SearchItemOK(w) ==
    /\ Walks!Searchable(w.path)
    /\ \/ w.do = "stat" /\ (w.path = Walks!Root \/ Known(w.path))
       \/ w.do = "enter" /\ Entered(w.path)
       \/ w.do = "read" /\ (w.path \in touched \/ Walks!Is(w.path, {"match", "other"})) /\ Len(found) < SearchLimit

\* search_files: no path is found twice or is found and yet to come, and a match nobody
\* has changed is found or covered, unless the search is full.
SearchInv ==
    /\ Len(found) <= SearchLimit
    /\ \A i \in DOMAIN work : SearchItemOK(work[i]) /\ (work[i].do = "read" => i = 1)
    /\ \A i \in DOMAIN found :
          Walks!Searchable(found[i]) /\ (found[i] \in touched \/ Walks!Is(found[i], {"match"}))
    /\ \A i, j \in DOMAIN found : i # j => found[i] # found[j]
    /\ \A i, j \in DOMAIN work : i < j => Unlike(work[i].path, work[j].path)
    /\ \A i \in DOMAIN found, j \in DOMAIN work : Unlike(found[i], work[j].path)
    /\ reply.status # "error" =>
         \A q \in Walks!Steady : Walks!Searchable(q) /\ tree[q] = "match" =>
            q \in Walks!ToSet(found) \/ Covered(q) \/ Len(found) = SearchLimit
    /\ reply.status = "error" =>
          touched # {} \/ \E q \in Walks!Steady : Walks!Searchable(q) /\ tree[q] = "dangling"

Source(p) == p[1] \in SourceRoots /\ Len(p) <= WalkDepth + 2
SourceItemOK(w) ==
    \/ w.do = "ask" /\ Len(w.path) = 1 /\ w.path[1] \in RootFiles
    \/ w.do = "root" /\ Len(w.path) = 1 /\ w.path[1] \in SourceRoots
    \/ /\ w.do = "enter" /\ Entered(w.path) /\ Len(w.path) \in 1..(WalkDepth + 1)
       /\ w.path[1] \in SourceRoots /\ \A k \in 2..Len(w.path) : w.path[k] \notin Skipped
    \/ /\ w.do \in EntryKinds /\ Len(w.path) \in 2..(WalkDepth + 2) /\ w.path[1] \in SourceRoots
       /\ \A k \in 2..(Len(w.path) - 1) : w.path[k] \notin Skipped
       /\ w.path \in touched \/ Walks!Is(w.path, {w.do})

\* The discovery: the root's files are asked for before the sources are looked for, and
\* what nobody has changed is found or covered, unless there are candidates enough.
SourceInv ==
    /\ reply.status # "error"
    /\ \A i \in DOMAIN work : SourceItemOK(work[i])
    /\ \A i \in DOMAIN found :
          found[i] \in touched
            \/ (found[i] \in DOMAIN tree /\ (Walks!IsRootFile(found[i]) \/ Walks!IsSource(found[i])))
    /\ \A i, j \in DOMAIN found :
          i < j => found[i] # found[j] /\ (Len(found[j]) = 1 => Len(found[i]) = 1)
    /\ \A i \in DOMAIN found : i > CandidateLimit => Len(found[i]) = 1
    /\ \A i, j \in DOMAIN work : i < j /\ work[j].do = "ask" =>
          work[i].do = "ask" /\ work[i].path # work[j].path
    /\ \A i \in DOMAIN found, j \in DOMAIN work : work[j].do = "ask" =>
          Len(found[i]) = 1 /\ found[i] # work[j].path
    /\ \A q \in Walks!Steady : Walks!IsRootFile(q) =>
          q \in Walks!ToSet(found) \/ \E i \in DOMAIN work : work[i].do = "ask" /\ work[i].path = q
    /\ \A q \in Walks!Steady : Walks!IsSource(q) =>
          q \in Walks!ToSet(found) \/ Covered(q) \/ Len(found) >= CandidateLimit

\* read_file: who is not told of a cut has every character.
ReadInv ==
    request.tool = "read_file" =>
        reply.status = "ok" /\ (~reply.truncated => reply.size = request.chars)

WalkInv ==
    /\ WalkTypes /\ Unbegun /\ ReadInv
    /\ request.tool = "list_tree" => ListInv
    /\ request.tool = "search_files" => SearchInv
    /\ request.tool = "project_files" => SourceInv

-----------------------------------------------------------------------------
(* Walks: paths, the tree, and the worklist.                                *)

LEMMA WalkBounds ==
    /\ PathNames \subseteq Nat /\ WalkDepth \in Nat /\ Depth \in Nat \ {0}
    /\ TreeLimit \in Nat \ {0} /\ SearchLimit \in Nat \ {0} /\ CandidateLimit \in Nat \ {0}
BY StorageAssumption DEF Walks!FileToolsAssumption

LEMMA PathIs ==
    ASSUME NEW p \in Walks!Paths
    PROVE  p \in Seq(Nat) /\ Len(p) \in Nat /\ Len(p) >= 1 /\ \A k \in 1..Len(p) : p[k] \in Nat
<1>1. PICK n \in 1..Depth : p \in [1..n -> PathNames]
  BY DEF Walks!Paths
<1>2. n \in Nat /\ \A k \in 1..n : p[k] \in Nat
  <2>1. n \in Nat
    BY <1>1, WalkBounds
  <2>2. \A k \in 1..n : p[k] \in PathNames
    BY <1>1
  <2> QED
    BY <2>1, <2>2, WalkBounds
<1>3. p \in [1..n -> Nat]
  BY <1>1, <1>2
<1> QED
  BY <1>1, <1>2, <1>3

LEMMA PrefixIs ==
    ASSUME NEW p \in Seq(Nat), NEW q \in Seq(Nat)
    PROVE  /\ Walks!IsPrefix(p, q) <=> Within(p, q)
           /\ Walks!IsStrictPrefix(p, q) <=> Within(p, q) /\ Len(p) < Len(q)
<1>1. ASSUME Len(p) <= Len(q)
      PROVE  /\ SubSeq(p, 1, Len(p)) = p
             /\ SubSeq(q, 1, Len(p)) \in Seq(Nat) /\ Len(SubSeq(q, 1, Len(p))) = Len(p)
             /\ \A k \in 1..Len(p) : SubSeq(q, 1, Len(p))[k] = q[k]
  BY <1>1
<1>2. Walks!IsPrefix(p, q) <=> Within(p, q)
  <2>1. ASSUME Within(p, q) PROVE Walks!IsPrefix(p, q)
    <3>1. Len(p) <= Len(q) /\ \A k \in 1..Len(p) : p[k] = q[k]
      BY <2>1 DEF Within
    <3>2. p = SubSeq(q, 1, Len(p))
      BY <1>1, <3>1, SeqEqual
    <3> QED
      BY <1>1, <3>1, <3>2 DEF Walks!IsPrefix
  <2>2. ASSUME Walks!IsPrefix(p, q) PROVE Within(p, q)
    <3>1. Len(p) <= Len(q) /\ p = SubSeq(q, 1, Len(p))
      BY <1>1, <2>2 DEF Walks!IsPrefix
    <3> QED
      BY <1>1, <3>1 DEF Within
  <2> QED
    BY <2>1, <2>2
<1>3. Within(p, q) /\ Len(p) = Len(q) => p = q
  BY SeqEqual DEF Within
<1> QED
  BY <1>2, <1>3 DEF Walks!IsStrictPrefix, Within

LEMMA WithinGoesOn ==
    ASSUME NEW p \in Seq(Nat), NEW q \in Seq(Nat), NEW r \in Seq(Nat), Within(p, q), Within(q, r)
    PROVE  Within(p, r)
<1>1. \A k \in 1..Len(p) : k \in 1..Len(q)
  BY DEF Within
<1> QED
  BY <1>1 DEF Within

LEMMA ApartGoesDown ==
    ASSUME NEW p \in Seq(Nat), NEW q \in Seq(Nat), NEW a \in Seq(Nat), NEW b \in Seq(Nat),
           Within(p, a), Within(q, b), Apart(p, q)
    PROVE  Apart(a, b)
<1>1. PICK k \in 1..Len(p) : k <= Len(q) /\ p[k] < q[k] /\ \A j \in 1..(k - 1) : p[j] = q[j]
  BY DEF Apart
<1>2. /\ k \in 1..Len(a) /\ k <= Len(b) /\ k \in 1..Len(q)
      /\ \A j \in 1..(k - 1) : j \in 1..Len(p) /\ j \in 1..Len(q)
  BY <1>1 DEF Within
<1> QED
  BY <1>1, <1>2 DEF Within, Apart

LEMMA ApartDiffers ==
    ASSUME NEW p \in Seq(Nat), NEW q \in Seq(Nat), Apart(p, q)
    PROVE  p # q /\ ~Within(p, q) /\ ~Within(q, p)
<1>1. PICK k \in 1..Len(p) : k \in 1..Len(q) /\ p[k] < q[k] /\ p[k] \in Nat /\ q[k] \in Nat
  BY DEF Apart
<1> QED
  BY <1>1 DEF Within

LEMMA WithinSelf == ASSUME NEW p \in Seq(Nat) PROVE Within(p, p)
BY DEF Within

\* What readdir finds.
LEMMA ChildIs ==
    ASSUME Walks!IsTree(tree), NEW p \in Seq(Nat), NEW c \in Walks!Children(p)
    PROVE  /\ c \in DOMAIN tree /\ c \in Walks!Paths /\ c \in Seq(Nat) /\ tree[c] \in EntryKinds
           /\ Within(p, c) /\ Len(c) = Len(p) + 1
           /\ request.tool # "project_files" => c[Len(c)] \notin Skipped
<1>1. c \in DOMAIN tree /\ Len(c) = Len(p) + 1 /\ Walks!IsPrefix(p, c)
      /\ (request.tool # "project_files" => c[Len(c)] \notin Skipped)
  BY DEF Walks!Children, Walks!Last
<1>2. c \in Walks!Paths /\ tree[c] \in EntryKinds
  BY <1>1 DEF Walks!IsTree, Walks!Kinds, EntryKinds
<1>3. c \in Seq(Nat)
  BY <1>2, PathIs
<1> QED
  BY <1>1, <1>2, <1>3, PrefixIs

LEMMA ChildrenDiffer ==
    ASSUME Walks!IsTree(tree), NEW p \in Seq(Nat), NEW c \in Walks!Children(p), NEW d \in Walks!Children(p)
    PROVE  /\ c[Len(c)] < d[Len(d)] => Apart(c, d)
           /\ c # d => Unlike(c, d)
<1>1. /\ c \in Seq(Nat) /\ Within(p, c) /\ Len(c) = Len(p) + 1
      /\ d \in Seq(Nat) /\ Within(p, d) /\ Len(d) = Len(p) + 1
  BY ChildIs
<1>2. \A j \in 1..Len(p) : c[j] = d[j]
  BY <1>1 DEF Within
<1> DEFINE n == Len(p) + 1
<1>3. /\ n \in 1..Len(c) /\ n \in 1..Len(d) /\ \A j \in 1..(n - 1) : c[j] = d[j]
      /\ c[n] \in Nat /\ d[n] \in Nat
  BY <1>1, <1>2
<1>4. c[n] < d[n] => Apart(c, d)
  BY <1>1, <1>3 DEF Apart
<1>5. d[n] < c[n] => Apart(d, c)
  BY <1>1, <1>3 DEF Apart
<1>6. ASSUME c[n] = d[n] PROVE c = d
  <2>1. \A j \in 1..Len(c) : c[j] = d[j]
    BY <1>1, <1>2, <1>6
  <2> QED
    BY <1>1, <2>1, SeqEqual
<1> QED
  BY <1>1, <1>3, <1>4, <1>5, <1>6 DEF Unlike

LEMMA TreeIsClosed ==
    ASSUME Walks!IsTree(tree), NEW q \in DOMAIN tree, NEW n \in Nat, n >= 1, n < Len(q)
    PROVE  Walks!Is(SubSeq(q, 1, n), {"dir"})
<1>1. q \in Seq(Nat)
  BY PathIs DEF Walks!IsTree
<1>2. n \in 1..(Len(q) - 1)
  BY <1>1
<1> QED
  BY <1>2 DEF Walks!IsTree, Walks!Is

\* What lies below a directory lies below one of its children, or is one.
LEMMA ChildOf ==
    ASSUME Walks!IsTree(tree), NEW q \in DOMAIN tree, NEW p \in Seq(Nat), Within(p, q), Len(p) < Len(q),
           request.tool = "project_files" \/ q[Len(p) + 1] \notin Skipped
    PROVE  \E c \in Walks!Children(p) : Within(c, q) /\ (c = q \/ tree[c] = "dir")
<1> DEFINE n == Len(p) + 1
           c == SubSeq(q, 1, n)
<1>1. q \in Seq(Nat) /\ q \in Walks!Paths
  BY PathIs DEF Walks!IsTree
<1>2. n \in 1..Len(q)
  BY <1>1
<1>3. c \in Seq(Nat) /\ Len(c) = n /\ \A k \in 1..n : c[k] = q[k]
  BY <1>1, <1>2
<1>4. c \in DOMAIN tree /\ (c = q \/ tree[c] = "dir")
  <2>1. CASE n = Len(q)
    <3>1. c = q
      BY <1>1, <1>3, <2>1, SeqEqual
    <3> QED
      BY <3>1
  <2>2. CASE n < Len(q)
    BY <1>2, <2>2, TreeIsClosed DEF Walks!Is
  <2> QED
    BY <1>1, <1>2, <2>1, <2>2
<1>5. Within(p, c) /\ Within(c, q)
  BY <1>1, <1>2, <1>3 DEF Within
<1>6. c \in Walks!Children(p)
  <2>1. Walks!IsPrefix(p, c) /\ Len(c) = Len(p) + 1
    BY <1>3, <1>5, PrefixIs
  <2>2. c[Len(c)] = q[Len(p) + 1]
    BY <1>2, <1>3
  <2> HIDE DEF c, n
  <2> QED
    BY <1>4, <2>1, <2>2 DEF Walks!Children, Walks!Last
<1> QED
  BY <1>4, <1>5, <1>6

\* The directories above what was not changed are what they were.
LEMMA SteadyAbove ==
    ASSUME Walks!IsTree(tree), NEW q \in Walks!Steady, NEW p \in Walks!Paths \cup {Walks!Root},
           Within(p, q), Len(p) < Len(q)
    PROVE  Walks!IsDir(p)
<1>1. q \in DOMAIN tree /\ q \in Seq(Nat)
  BY PathIs DEF Walks!IsTree, Walks!Steady
<1>2. CASE p \in Walks!Paths
  <2>1. p \in Seq(Nat) /\ Len(p) \in Nat /\ Len(p) >= 1
    BY <1>2, PathIs
  <2>2. SubSeq(q, 1, Len(p)) = p
    BY <1>1, <2>1, PrefixIs DEF Walks!IsPrefix, Within
  <2> QED
    BY <1>1, <2>1, <2>2, TreeIsClosed DEF Walks!IsDir
<1>3. CASE p = Walks!Root
  BY <1>3 DEF Walks!IsDir
<1> QED
  BY <1>2, <1>3

LEMMA PathOrRoot ==
    ASSUME NEW p \in Walks!Paths \cup {Walks!Root} PROVE p \in Seq(Nat) /\ Len(p) \in Nat
<1>1. <<>> \in Seq(Nat) /\ Len(<<>>) = 0
  OBVIOUS
<1> QED
  BY <1>1, PathIs DEF Walks!Root

\* The worklist when its head is replaced.
LEMMA Pushed ==
    ASSUME NEW S, NEW w \in Seq(S), w # <<>>, NEW items \in Seq(S), NEW v, v = items \o Tail(w)
    PROVE  /\ v \in Seq(S) /\ Head(w) \in S /\ Head(w) = w[1] /\ 1 \in DOMAIN w
           /\ DOMAIN v = 1..(Len(items) + Len(w) - 1)
           /\ \A i \in 1..Len(items) : i \in DOMAIN v /\ v[i] = items[i]
           /\ \A i \in 2..Len(w) : Len(items) + i - 1 \in DOMAIN v /\ v[Len(items) + i - 1] = w[i]
           /\ \A j \in DOMAIN v : j \notin 1..Len(items) =>
                 j - Len(items) + 1 \in 2..Len(w) /\ v[j] = w[j - Len(items) + 1]
<1>1. /\ Tail(w) \in Seq(S) /\ Len(Tail(w)) = Len(w) - 1 /\ Len(w) \in Nat /\ Len(w) >= 1
      /\ \A i \in 1..Len(Tail(w)) : Tail(w)[i] = w[i + 1]
  OBVIOUS
<1>2. /\ Len(v) = Len(items) + Len(w) - 1 /\ v \in Seq(S) /\ Len(items) \in Nat
      /\ \A i \in 1..Len(v) : v[i] = IF i <= Len(items) THEN items[i] ELSE Tail(w)[i - Len(items)]
  BY <1>1
<1> HIDE <1>2
<1>3. \A i \in 1..Len(items) : i \in 1..Len(v) /\ v[i] = items[i]
  BY <1>1, <1>2
<1>4. ASSUME NEW i \in 2..Len(w)
      PROVE  Len(items) + i - 1 \in 1..Len(v) /\ v[Len(items) + i - 1] = w[i]
  <2>1. i - 1 \in 1..Len(Tail(w)) /\ Tail(w)[i - 1] = w[i]
    BY <1>1
  <2> QED
    BY <1>1, <1>2, <2>1
<1>5. ASSUME NEW j \in 1..Len(v), j \notin 1..Len(items)
      PROVE  j - Len(items) + 1 \in 2..Len(w) /\ v[j] = w[j - Len(items) + 1]
  <2>1. j > Len(items) /\ j - Len(items) \in 1..Len(Tail(w))
    BY <1>1, <1>2, <1>5
  <2> QED
    BY <1>1, <1>2, <2>1
<1>6. DOMAIN v = 1..Len(v) /\ Head(w) \in S /\ Head(w) = w[1] /\ 1 \in DOMAIN w
  BY <1>1, <1>2
<1> QED
  BY <1>2, <1>3, <1>4, <1>5, <1>6

LEMMA Appended ==
    ASSUME NEW S, NEW f \in Seq(S), NEW x \in S, NEW g, g = Append(f, x)
    PROVE  /\ g \in Seq(S) /\ g # f /\ Len(f) \in Nat /\ DOMAIN f = 1..Len(f)
           /\ DOMAIN g = 1..(Len(f) + 1) /\ Len(g) = Len(f) + 1
           /\ \A i \in DOMAIN f : i \in DOMAIN g /\ g[i] = f[i]
           /\ Len(f) + 1 \in DOMAIN g /\ g[Len(f) + 1] = x
           /\ \A i \in DOMAIN g : (i \in DOMAIN f /\ g[i] = f[i]) \/ (i = Len(f) + 1 /\ g[i] = x)
<1>1. g \in Seq(S) /\ Len(f) \in Nat /\ DOMAIN f = 1..Len(f) /\ Len(g) = Len(f) + 1
  OBVIOUS
<1>2. DOMAIN g = 1..(Len(f) + 1)
  BY <1>1
<1>3. /\ \A i \in 1..Len(f) : g[i] = f[i]
      /\ g[Len(f) + 1] = x
  OBVIOUS
<1>4. \A i \in 1..(Len(f) + 1) : i \in 1..Len(f) \/ i = Len(f) + 1
  BY <1>1
<1>5. \A i \in 1..Len(f) : i \in 1..(Len(f) + 1)
  BY <1>1
<1>6. Len(f) + 1 \in 1..(Len(f) + 1) /\ Len(f) + 1 # Len(f)
  <2>1. \A n \in Nat : n + 1 \in 1..(n + 1) /\ n + 1 # n
    OBVIOUS
  <2> QED
    BY <1>1, <2>1
<1>7. \A i \in DOMAIN g : (i \in DOMAIN f /\ g[i] = f[i]) \/ (i = Len(f) + 1 /\ g[i] = x)
  BY <1>1, <1>2, <1>3, <1>4
<1> QED
  BY <1>1, <1>2, <1>3, <1>5, <1>6, <1>7

LEMMA BeforeIs ==
    ASSUME NEW p \in Seq(Nat), NEW q \in Seq(Nat)
    PROVE  Walks!Before(p, q) <=> (Within(p, q) /\ Len(p) < Len(q)) \/ Apart(p, q)
<1>1. (\E k \in DOMAIN p \cap DOMAIN q : p[k] < q[k] /\ \A j \in 1..(k - 1) : p[j] = q[j]) <=> Apart(p, q)
  <2>1. DOMAIN p = 1..Len(p) /\ DOMAIN q = 1..Len(q) /\ Len(p) \in Nat /\ Len(q) \in Nat
    OBVIOUS
  <2>2. \A k \in 1..Len(p) : k <= Len(q) <=> k \in DOMAIN q
    BY <2>1
  <2>3. DOMAIN p \cap DOMAIN q = {k \in 1..Len(p) : k <= Len(q)}
    BY <2>1, <2>2
  <2> QED
    BY <2>3 DEF Apart
<1> QED
  BY <1>1, PrefixIs DEF Walks!Before

LEMMA EarlierBefore ==
    ASSUME NEW f \in Seq(Nat), NEW w, w.path \in Seq(Nat), NEW q \in Seq(Nat), Earlier(f, w), Covers(w, q)
    PROVE  Walks!Before(f, q)
<1>1. CASE Apart(f, w.path)
  <2>1. Apart(f, q)
    BY <1>1, ApartGoesDown, WithinSelf DEF Covers
  <2> QED
    BY <2>1, BeforeIs
<1>2. CASE Within(f, w.path) /\ (Len(f) < Len(w.path) \/ w.do = "enter")
  <2>1. Within(f, q)
    BY <1>2, WithinGoesOn DEF Covers
  <2>2. Len(f) < Len(q)
    BY <1>2 DEF Covers, Within
  <2> QED
    BY <2>1, <2>2, BeforeIs
<1> QED
  BY <1>1, <1>2 DEF Earlier

LEMMA EarlierGoesDown ==
    ASSUME NEW f \in Seq(Nat), NEW w, w.path \in Seq(Nat), NEW v, v.path \in Seq(Nat), Earlier(f, w),
           Within(w.path, v.path), Len(w.path) < Len(v.path) \/ v.do = "enter"
    PROVE  Earlier(f, v)
<1>1. CASE Apart(f, w.path)
  BY <1>1, ApartGoesDown, WithinSelf DEF Earlier
<1>2. CASE Within(f, w.path) /\ (Len(f) < Len(w.path) \/ w.do = "enter")
  <2>1. Within(f, v.path)
    BY <1>2, WithinGoesOn
  <2> QED
    BY <1>2, <2>1 DEF Within, Earlier
<1> QED
  BY <1>1, <1>2 DEF Earlier

\* The entries of a directory.
LEMMA EntriesAre ==
    ASSUME WalkTypes, NEW p \in Walks!Paths \cup {Walks!Root}, NEW s \in Walks!Listings(p)
    PROVE  /\ Walks!Entries(s) \in Seq(Items)
           /\ \A i \in 1..Len(Walks!Entries(s)) :
                 /\ Walks!Entries(s)[i].path \in Walks!Children(p)
                 /\ Walks!Entries(s)[i].do = IF request.tool = "search_files" THEN "stat"
                                            ELSE tree[Walks!Entries(s)[i].path]
           /\ \A c \in Walks!Children(p) : \E i \in 1..Len(Walks!Entries(s)) : Walks!Entries(s)[i].path = c
           /\ \A i, j \in 1..Len(Walks!Entries(s)) : i < j =>
                 /\ Unlike(Walks!Entries(s)[i].path, Walks!Entries(s)[j].path)
                 /\ request.tool = "list_tree" =>
                       Apart(Walks!Entries(s)[i].path, Walks!Entries(s)[j].path)
<1> DEFINE n == Cardinality(Walks!Children(p))
           e == Walks!Entries(s)
<1>1. p \in Seq(Nat) /\ Walks!IsTree(tree)
  BY PathOrRoot DEF WalkTypes
<1>2. n \in Nat
  <2>1. IsFiniteSet(DOMAIN tree)
    BY <1>1 DEF Walks!IsTree, Walks!IsFiniteSet, IsFiniteSet
  <2>2. Walks!Children(p) \subseteq DOMAIN tree
    BY DEF Walks!Children
  <2>3. IsFiniteSet(Walks!Children(p))
    BY <2>1, <2>2, FS_Subset
  <2> QED
    BY <2>3, FS_CardinalityType
<1>3. /\ s \in [1..n -> Walks!Children(p)] /\ Walks!ToSet(s) = Walks!Children(p)
      /\ \A i, j \in 1..n : i < j =>
            /\ s[i] # s[j] \/ s[i][Len(s[i])] < s[j][Len(s[j])]
            /\ request.tool = "list_tree" => s[i][Len(s[i])] < s[j][Len(s[j])]
  <2>1. /\ s \in [1..n -> Walks!Children(p)] /\ Walks!ToSet(s) = Walks!Children(p)
        /\ \A i, j \in DOMAIN s : i < j =>
              IF request.tool = "list_tree" THEN Walks!Last(s[i]) < Walks!Last(s[j]) ELSE s[i] # s[j]
    BY DEF Walks!Listings, Walks!Cardinality, Cardinality
  <2>2. DOMAIN s = 1..n
    BY <2>1
  <2> QED
    BY <2>1, <2>2 DEF Walks!Last
<1>4. e = [i \in 1..n |-> [path |-> s[i], do |-> IF request.tool = "search_files" THEN "stat" ELSE tree[s[i]]]]
  BY <1>3 DEF Walks!Entries, Walks!Item
<1>5. \A i \in 1..n : s[i] \in Walks!Children(p) /\ s[i] \in Walks!Paths /\ tree[s[i]] \in EntryKinds
  BY <1>1, <1>3, ChildIs
<1>6. e \in [1..n -> Items]
  <2>1. \A i \in 1..n : e[i] \in Items
    BY <1>4, <1>5 DEF Items
  <2> QED
    BY <1>4, <2>1
<1>7. e \in Seq(Items) /\ Len(e) = n
  BY <1>2, <1>6
<1>8. \A i \in 1..n : /\ e[i].path = s[i]
                      /\ e[i].do = IF request.tool = "search_files" THEN "stat" ELSE tree[s[i]]
  BY <1>4
<1> HIDE DEF e
<1>9. \A c \in Walks!Children(p) : \E i \in 1..n : e[i].path = c
  BY <1>3, <1>8 DEF Walks!ToSet
<1>10. ASSUME NEW i \in 1..n, NEW j \in 1..n, i < j
       PROVE  Unlike(s[i], s[j]) /\ (request.tool = "list_tree" => Apart(s[i], s[j]))
  <2>1. s[i][Len(s[i])] < s[j][Len(s[j])] => Apart(s[i], s[j])
    BY <1>1, <1>5, ChildrenDiffer
  <2>2. s[i] # s[j] => Unlike(s[i], s[j])
    BY <1>1, <1>5, ChildrenDiffer
  <2> QED
    BY <1>3, <1>10, <2>1, <2>2 DEF Unlike
<1> QED
  BY <1>5, <1>7, <1>8, <1>9, <1>10 DEF e

-----------------------------------------------------------------------------
(* Walks: list_tree.                                                        *)

LEMMA ListableIs ==
    ASSUME WalkTypes, NEW q \in Seq(Nat)
    PROVE  /\ request.at \in Seq(Nat) /\ Len(request.at) \in Nat /\ request.depth \in Nat
           /\ Walks!Listable(q) <=>
                /\ Within(request.at, q) /\ Len(request.at) < Len(q) /\ Len(q) <= Len(request.at) + request.depth + 1
                /\ \A k \in (Len(request.at) + 1)..Len(q) : q[k] \notin Skipped
<1>1. request.at \in Seq(Nat) /\ request.depth \in Nat
  BY DEF WalkTypes
<1> QED
  BY <1>1, PrefixIs DEF Walks!Listable, Walks!Below, Walks!Open

\* Only directories have something below them.
LEMMA NothingBelow ==
    ASSUME WalkTypes, NEW w \in Items, w.do \in {"match", "other", "dangling"},
           w.path \in touched \/ Walks!Is(w.path, {w.do}), NEW q \in Walks!Steady, Within(w.path, q),
           w.path # Walks!Root
    PROVE  q = w.path
<1>1. /\ w.path \notin touched /\ w.path \in Walks!Paths /\ w.path \in Seq(Nat)
      /\ q \in Seq(Nat) /\ Walks!IsTree(tree)
  BY PathIs, PathOrRoot DEF WalkTypes, Items, Walks!Steady, Walks!IsTree
<1>2. tree[w.path] # "dir"
  BY <1>1 DEF Walks!Is
<1>3. CASE Len(w.path) < Len(q)
  <2>1. Walks!IsDir(w.path)
    BY <1>1, <1>3, SteadyAbove
  <2> QED
    BY <1>2, <2>1 DEF Walks!IsDir, Walks!Is
<1>4. CASE ~(Len(w.path) < Len(q))
  <2>1. Len(w.path) = Len(q) /\ \A k \in 1..Len(q) : w.path[k] = q[k]
    BY <1>1, <1>4 DEF Within
  <2> QED
    BY <1>1, <2>1, SeqEqual
<1> QED
  BY <1>3, <1>4

\* The head of the worklist of a listing makes room for its items.
LEMMA ListPush ==
    ASSUME WalkTypes, ListInv, reply.status = "none", work # <<>>, UNCHANGED <<tree, request, reply, touched>>,
           NEW items \in Seq(Items), work' = items \o Tail(work),
           \A i \in 1..Len(items) :
              /\ ListItemOK(items[i]) /\ Within(Head(work).path, items[i].path)
              /\ Len(Head(work).path) < Len(items[i].path) \/ items[i].do = "enter",
           \A i, j \in 1..Len(items) : i < j => Apart(items[i].path, items[j].path),
           \/ found' = found
           \/ /\ found' = Append(found, Head(work).path) /\ Len(found) < TreeLimit
              /\ Head(work).do \in EntryKinds,
           \A q \in Walks!Steady : Walks!Listable(q) /\ Covers(Head(work), q) =>
              \/ q = Head(work).path /\ found' = Append(found, Head(work).path)
              \/ \E i \in 1..Len(items) : Covers(items[i], q)
              \/ Len(found') >= TreeLimit
    PROVE  WalkTypes' /\ ListInv'
<1> DEFINE h == Head(work)
<1>1. /\ work \in Seq(Items) /\ found \in Seq(Walks!Paths)
  BY DEF WalkTypes
<1>2. /\ work' \in Seq(Items) /\ h \in Items /\ h = work[1] /\ 1 \in DOMAIN work
      /\ \A i \in 1..Len(items) : i \in DOMAIN work' /\ work'[i] = items[i]
      /\ \A i \in 2..Len(work) : Len(items) + i - 1 \in DOMAIN work' /\ work'[Len(items) + i - 1] = work[i]
      /\ \A j \in DOMAIN work' : j \notin 1..Len(items) =>
            j - Len(items) + 1 \in 2..Len(work) /\ work'[j] = work[j - Len(items) + 1]
      /\ Len(items) \in Nat /\ Len(work) \in Nat /\ DOMAIN work = 1..Len(work)
      /\ DOMAIN work' = 1..(Len(items) + Len(work) - 1)
  BY <1>1, Pushed
<1>3. /\ \A w \in Items : w.path \in Seq(Nat) /\ Len(w.path) \in Nat
      /\ \A i \in DOMAIN work : work[i] \in Items
      /\ \A i \in DOMAIN work' : work'[i] \in Items
      /\ \A i \in 1..Len(items) : items[i] \in Items
  <2>1. \A w \in Items : w.path \in Seq(Nat) /\ Len(w.path) \in Nat
    <3>1. TAKE w \in Items
    <3>2. w.path \in Walks!Paths \cup {Walks!Root}
      BY DEF Items
    <3> QED
      BY <3>2, PathOrRoot
  <2>2. \A i \in DOMAIN work' : work'[i] \in Items
    BY <1>2, ElementOfSeq
  <2> QED
    BY <1>1, <2>1, <2>2
<1>4. \A i \in DOMAIN found : found[i] \in Walks!Paths /\ found[i] \in Seq(Nat)
  BY <1>1, PathIs
<1>5. \A q \in Walks!Steady : q \in Seq(Nat)
  BY PathIs DEF WalkTypes, Walks!IsTree, Walks!Steady
<1>6. h.do \in EntryKinds => h.path \in Walks!Paths /\ Walks!Listable(h.path) /\ Known(h.path)
  <2>1. ListItemOK(h)
    BY <1>2 DEF ListInv
  <2>2. h.do \in EntryKinds => Walks!Listable(h.path) /\ Known(h.path)
    BY <2>1 DEF ListItemOK, EntryKinds, Known, Walks!Is
  <2>3. Walks!Listable(h.path) => Len(h.path) > 0
    BY <1>2, <1>3, ListableIs
  <2>4. h.path \in Walks!Paths \/ Len(h.path) = 0
    BY <1>2 DEF Items, Walks!Root
  <2> QED
    BY <2>2, <2>3, <2>4
<1> HIDE DEF h
<1>7. /\ found' \in Seq(Walks!Paths)
      /\ \A i \in DOMAIN found' :
            \/ i \in DOMAIN found /\ found'[i] = found[i]
            \/ i = Len(found) + 1 /\ found'[i] = h.path /\ h.do \in EntryKinds
      /\ \A i \in DOMAIN found : i \in DOMAIN found' /\ found'[i] = found[i]
      /\ found' # found => Len(found) + 1 \in DOMAIN found' /\ found'[Len(found) + 1] = h.path
      /\ Len(found) \in Nat /\ DOMAIN found = 1..Len(found)
  <2>1. Len(found) \in Nat /\ DOMAIN found = 1..Len(found)
    BY <1>1
  <2>2. CASE found' = found
    BY <1>1, <2>1, <2>2
  <2>3. CASE found' = Append(found, h.path) /\ h.do \in EntryKinds
    <3>1. h.path \in Walks!Paths
      BY <1>6, <2>3
    <3> HIDE DEF EntryKinds
    <3> QED
      BY <1>1, <2>3, <3>1, Appended
  <2> QED
    BY <2>2, <2>3 DEF h
<1>8. WalkTypes'
  BY <1>2, <1>7 DEF WalkTypes, Walks!IsTree, Walks!Steady, Within
<1>9. Len(found') <= TreeLimit
  <2>1. CASE found' = found
    BY <2>1 DEF ListInv
  <2>2. CASE found' # found
    <3>1. Len(found') = Len(found) + 1 /\ Len(found) < TreeLimit
      BY <1>1, <2>2
    <3> QED
      BY <1>7, <3>1, WalkBounds
  <2> QED
    BY <2>1, <2>2
<1>10. \A i \in DOMAIN work' : ListItemOK(work[i])'
  <2>1. \A i \in DOMAIN work' : ListItemOK(work'[i])
    <3>1. TAKE i \in DOMAIN work'
    <3>2. CASE i \in 1..Len(items)
      BY <1>2, <3>2
    <3>3. CASE i \notin 1..Len(items)
      <4>1. i - Len(items) + 1 \in DOMAIN work /\ work'[i] = work[i - Len(items) + 1]
        BY <1>2, <3>3
      <4> QED
        BY <4>1 DEF ListInv
    <3> QED
      BY <3>2, <3>3
  <2> QED
    BY <2>1 DEF ListItemOK, Entered, Walks!IsDir, Walks!Is, Walks!Listable, Walks!Below, Walks!Open
<1>11. \A i \in DOMAIN found' : Walks!Listable(found[i])' /\ Known(found[i])'
  <2>1. \A i \in DOMAIN found' : Walks!Listable(found'[i]) /\ Known(found'[i])
    BY <1>6, <1>7 DEF ListInv
  <2> QED
    BY <2>1 DEF Known, Walks!Listable, Walks!Below, Walks!Open
<1>12. \A i \in DOMAIN found : h.do \in EntryKinds => Walks!Before(found[i], h.path)
  <2>1. TAKE i \in DOMAIN found
  <2>2. Earlier(found[i], h)
    BY <1>2 DEF ListInv
  <2> QED
    BY <1>2, <1>3, <1>4, <2>2, BeforeIs DEF Earlier, EntryKinds
<1>13. \A i, j \in DOMAIN found' : i < j => Walks!Before(found'[i], found'[j])
  <2>1. TAKE i, j \in DOMAIN found'
  <2>2. HAVE i < j
  <2>3. CASE j \in DOMAIN found
    BY <1>7, <2>2, <2>3 DEF ListInv
  <2>4. CASE j \notin DOMAIN found
    BY <1>7, <1>12, <2>2, <2>4
  <2> QED
    BY <2>3, <2>4
<1>19. \A k \in 2..Len(work) : k \in DOMAIN work /\ Apart(h.path, work[k].path)
  <2>1. \A k \in 2..Len(work) : k \in DOMAIN work /\ 1 < k
    BY <1>2
  <2> QED
    BY <1>2, <2>1 DEF ListInv
<1>14. \A i, j \in DOMAIN work' : i < j => Apart(work'[i].path, work'[j].path)
  <2>1. TAKE i, j \in DOMAIN work'
  <2>2. HAVE i < j
  <2>3. CASE j \in 1..Len(items)
    BY <1>2, <2>2, <2>3
  <2>4. CASE i \in 1..Len(items) /\ j \notin 1..Len(items)
    <3>1. Apart(h.path, work'[j].path)
      BY <1>2, <1>19, <2>4
    <3>2. Within(h.path, work'[i].path)
      BY <1>2, <2>4 DEF h
    <3>3. /\ h.path \in Seq(Nat) /\ work'[i].path \in Seq(Nat) /\ work'[j].path \in Seq(Nat)
      BY <1>2, <1>3
    <3> QED
      BY <3>1, <3>2, <3>3, ApartGoesDown, WithinSelf
  <2>5. CASE i \notin 1..Len(items)
    <3>1. j \notin 1..Len(items) /\ i - Len(items) + 1 < j - Len(items) + 1
      BY <1>2, <2>2, <2>5
    <3>2. /\ i - Len(items) + 1 \in DOMAIN work /\ work'[i] = work[i - Len(items) + 1]
          /\ j - Len(items) + 1 \in DOMAIN work /\ work'[j] = work[j - Len(items) + 1]
      BY <1>2, <2>5, <3>1
    <3> QED
      BY <3>1, <3>2 DEF ListInv
  <2> QED
    BY <2>3, <2>4, <2>5
<1>15. \A i \in DOMAIN found', j \in DOMAIN work' : Earlier(found'[i], work'[j])
  <2>1. TAKE i \in DOMAIN found', j \in DOMAIN work'
  <2>2. CASE j \in 1..Len(items)
    <3>1. /\ work'[j] \in Items /\ Within(h.path, work'[j].path)
          /\ Len(h.path) < Len(work'[j].path) \/ work'[j].do = "enter"
      BY <1>2, <1>3, <2>2 DEF h
    <3>2. CASE i \in DOMAIN found
      <4>1. Earlier(found[i], h)
        BY <1>2, <3>2 DEF ListInv
      <4> QED
        BY <1>2, <1>3, <1>4, <1>7, <3>1, <3>2, <4>1, EarlierGoesDown
    <3>3. CASE i \notin DOMAIN found
      BY <1>7, <3>1, <3>3 DEF Earlier
    <3> QED
      BY <3>2, <3>3
  <2>3. CASE j \notin 1..Len(items)
    <3>1. j - Len(items) + 1 \in 2..Len(work) /\ work'[j] = work[j - Len(items) + 1]
      BY <1>2, <2>3
    <3>2. CASE i \in DOMAIN found
      BY <1>2, <1>7, <3>1, <3>2 DEF ListInv
    <3>3. CASE i \notin DOMAIN found
      <4>1. Apart(h.path, work'[j].path)
        BY <1>19, <3>1
      <4> QED
        BY <1>7, <3>3, <4>1 DEF Earlier
    <3> QED
      BY <3>2, <3>3
  <2> QED
    BY <2>2, <2>3
<1>16. ASSUME NEW q \in Walks!Steady, Walks!Listable(q)
       PROVE  \/ q \in Walks!ToSet(found') \/ \E i \in DOMAIN work' : Covers(work'[i], q)
              \/ Len(found') = TreeLimit /\ \A i \in DOMAIN found' : Walks!Before(found'[i], q)
  <2>1. CASE q \in Walks!ToSet(found)
    BY <1>7, <2>1 DEF Walks!ToSet
  <2>2. CASE Len(found) = TreeLimit /\ \A i \in DOMAIN found : Walks!Before(found[i], q)
    <3>1. found' = found
      <4>1. ~(Len(found) < TreeLimit)
        BY <2>2, WalkBounds
      <4> QED
        BY <4>1
    <3> QED
      BY <2>2, <3>1
  <2>3. ASSUME NEW i \in DOMAIN work, Covers(work[i], q), i # 1
        PROVE  \E j \in DOMAIN work' : Covers(work'[j], q)
    <3>1. i \in 2..Len(work)
      BY <1>2, <2>3
    <3> QED
      BY <1>2, <2>3, <3>1
  <2>4. ASSUME Covers(h, q)
        PROVE  \/ q \in Walks!ToSet(found') \/ \E i \in DOMAIN work' : Covers(work'[i], q)
               \/ Len(found') = TreeLimit /\ \A i \in DOMAIN found' : Walks!Before(found'[i], q)
    <3>1. CASE q = h.path /\ found' = Append(found, h.path)
      BY <1>1, <3>1 DEF Walks!ToSet
    <3>2. CASE \E i \in 1..Len(items) : Covers(items[i], q)
      BY <1>2, <3>2
    <3>3. CASE Len(found') >= TreeLimit /\ ~(q = h.path /\ found' = Append(found, h.path))
      <4>1. ASSUME NEW i \in DOMAIN found PROVE Walks!Before(found[i], q)
        <5>1. Earlier(found[i], h)
          BY <1>2 DEF ListInv
        <5> QED
          BY <1>2, <1>3, <1>4, <1>5, <2>4, <5>1, EarlierBefore
      <4>2. ASSUME found' # found PROVE Walks!Before(h.path, q)
        <5>1. q # h.path /\ q \in Seq(Nat) /\ h.path \in Seq(Nat) /\ Within(h.path, q)
          BY <1>2, <1>3, <1>5, <2>4, <3>3, <4>2 DEF Covers, h
        <5>2. Len(h.path) = Len(q) => h.path = q
          BY <5>1, SeqEqual DEF Within
        <5>3. Len(h.path) < Len(q)
          BY <5>1, <5>2 DEF Within
        <5> QED
          BY <5>1, <5>3, BeforeIs
      <4>3. Len(found') = TreeLimit
        BY <1>7, <1>9, <3>3, WalkBounds
      <4> QED
        BY <1>7, <4>1, <4>2, <4>3
    <3> QED
      BY <1>16, <2>4, <3>1, <3>2, <3>3 DEF h
  <2>5. \/ q \in Walks!ToSet(found) \/ \E i \in DOMAIN work : Covers(work[i], q)
        \/ Len(found) = TreeLimit /\ \A i \in DOMAIN found : Walks!Before(found[i], q)
    BY <1>16 DEF ListInv, Covered
  <2> QED
    BY <1>2, <2>1, <2>2, <2>3, <2>4, <2>5
<1>17. \A q \in Walks!Steady' : Walks!Listable(q)' =>
            \/ q \in Walks!ToSet(found)' \/ Covered(q)'
            \/ Len(found') = TreeLimit /\ \A i \in DOMAIN found' : Walks!Before(found'[i], q)
  BY <1>16 DEF Walks!Steady, Walks!Listable, Walks!Below, Walks!Open, Walks!ToSet, Covered
<1> QED
  BY <1>8, <1>9, <1>10, <1>11, <1>13, <1>14, <1>15, <1>17 DEF ListInv

LEMMA HeadIs ==
    ASSUME WalkTypes, work # <<>>
    PROVE  /\ Head(work) = work[1] /\ 1 \in DOMAIN work /\ Head(work) \in Items
           /\ Head(work).path \in Walks!Paths \cup {Walks!Root}
           /\ Head(work).path \in Seq(Nat) /\ Len(Head(work).path) \in Nat
<1>1. work \in Seq(Items)
  BY DEF WalkTypes
<1>2. Head(work) = work[1] /\ 1 \in DOMAIN work /\ Head(work) \in Items
  BY <1>1
<1> QED
  BY <1>2, PathOrRoot DEF Items

LEMMA SteadyIs ==
    ASSUME WalkTypes, NEW q \in Walks!Steady
    PROVE  /\ q \in DOMAIN tree /\ q \in Walks!Paths /\ q \in Seq(Nat) /\ Len(q) \in Nat /\ Len(q) >= 1
           /\ Walks!IsTree(tree) /\ tree[q] \in EntryKinds
<1>1. q \in DOMAIN tree /\ q \in Walks!Paths /\ Walks!IsTree(tree) /\ tree[q] \in EntryKinds
  BY DEF WalkTypes, Walks!IsTree, Walks!Steady, Walks!Kinds, EntryKinds
<1> QED
  BY <1>1, PathIs

\* The entries of the directory at the head cover what it covers.
LEMMA EntriesCover ==
    ASSUME WalkTypes, work # <<>>, Head(work).do = "enter",
           NEW s \in Walks!Listings(Head(work).path), NEW q \in Walks!Steady, Covers(Head(work), q),
           request.tool = "project_files" \/ q[Len(Head(work).path) + 1] \notin Skipped
    PROVE  \E i \in 1..Len(Walks!Entries(s)) : Covers(Walks!Entries(s)[i], q)
<1> DEFINE p == Head(work).path
<1>1. p \in Walks!Paths \cup {Walks!Root} /\ p \in Seq(Nat)
  BY HeadIs
<1>2. Within(p, q) /\ Len(p) < Len(q)
  BY DEF Covers
<1> HIDE DEF p
<1>3. Walks!IsTree(tree) /\ q \in DOMAIN tree /\ q \in Seq(Nat)
  BY SteadyIs
<1>4. PICK c \in Walks!Children(p) : Within(c, q) /\ (c = q \/ tree[c] = "dir")
  BY <1>1, <1>2, <1>3, ChildOf DEF p
<1>5. PICK i \in 1..Len(Walks!Entries(s)) : Walks!Entries(s)[i].path = c
  BY <1>1, <1>4, EntriesAre DEF p
<1>6. Walks!Entries(s)[i].do = IF request.tool = "search_files" THEN "stat" ELSE tree[c]
  BY <1>1, <1>5, EntriesAre DEF p
<1>7. tree[c] \in EntryKinds
  BY <1>1, <1>3, <1>4, ChildIs
<1> QED
  BY <1>4, <1>5, <1>6, <1>7 DEF Covers, EntryKinds

\* The end of a listing.
LEMMA ListStops ==
    ASSUME WalkTypes, ListInv, reply.status = "none", work' = <<>>,
           UNCHANGED <<tree, request, found, touched>>,
           \/ reply'.status = "error" /\ touched # {}
           \/ /\ reply'.status = "ok" /\ reply'.truncated = (Len(found) >= TreeLimit)
              /\ work = <<>> \/ Len(found) >= TreeLimit
    PROVE  WalkTypes' /\ ListInv'
<1>1. WalkTypes'
  <2>1. work' \in Seq(Items)
    OBVIOUS
  <2> QED
    BY <2>1 DEF WalkTypes, Walks!IsTree, Walks!Steady, Within
<1>2. DOMAIN work' = {}
  OBVIOUS
<1>3. /\ Len(found') <= TreeLimit
      /\ \A i \in DOMAIN found' : Walks!Listable(found[i])' /\ Known(found[i])'
      /\ \A i, j \in DOMAIN found' : i < j => Walks!Before(found'[i], found'[j])
  BY DEF ListInv, Known, Walks!Listable, Walks!Below, Walks!Open
<1>4. ASSUME NEW q \in Walks!Steady, Walks!Listable(q), reply'.status = "ok"
      PROVE  \/ q \in Walks!ToSet(found)
             \/ Len(found) = TreeLimit /\ \A i \in DOMAIN found : Walks!Before(found[i], q)
  <2>1. \/ q \in Walks!ToSet(found) \/ Covered(q)
        \/ Len(found) = TreeLimit /\ \A i \in DOMAIN found : Walks!Before(found[i], q)
    BY <1>4 DEF ListInv
  <2>2. ASSUME Covered(q)
        PROVE  Len(found) = TreeLimit /\ \A i \in DOMAIN found : Walks!Before(found[i], q)
    <3>1. PICK j \in DOMAIN work : Covers(work[j], q)
      BY <2>2 DEF Covered
    <3>2. work # <<>> /\ work \in Seq(Items) /\ found \in Seq(Walks!Paths)
      BY <3>1 DEF WalkTypes
    <3>3. Len(found) = TreeLimit
      BY <1>4, <3>2, WalkBounds DEF ListInv
    <3>4. work[j].path \in Seq(Nat) /\ q \in Seq(Nat)
      <4>1. work[j] \in Items
        BY <3>1, <3>2
      <4>2. work[j].path \in Walks!Paths \cup {Walks!Root}
        BY <4>1 DEF Items
      <4> QED
        BY <4>2, SteadyIs, PathOrRoot
    <3>5. \A i \in DOMAIN found : found[i] \in Seq(Nat) /\ Earlier(found[i], work[j])
      BY <3>1, <3>2, PathIs DEF ListInv
    <3> QED
      BY <3>1, <3>3, <3>4, <3>5, EarlierBefore
  <2> QED
    BY <2>1, <2>2
<1>5. reply'.status # "error" => \A q \in Walks!Steady' : Walks!Listable(q)' =>
            \/ q \in Walks!ToSet(found)'
            \/ Len(found') = TreeLimit /\ \A i \in DOMAIN found' : Walks!Before(found'[i], q)
  BY <1>4 DEF Walks!Steady, Walks!Listable, Walks!Below, Walks!Open, Walks!ToSet
<1> QED
  BY <1>1, <1>2, <1>3, <1>5 DEF ListInv

LEMMA ListEnters ==
    ASSUME WalkTypes, ListInv, request.tool = "list_tree", Walks!Enter
    PROVE  WalkTypes' /\ ListInv'
<1> DEFINE h == Head(work)
<1>1. /\ work # <<>> /\ h.do = "enter" /\ found' = found /\ reply.status = "none"
      /\ UNCHANGED <<tree, request, touched>>
  BY DEF Walks!Enter, Walks!Busy, Walks!NoReply, Walks!Continue, Walks!Skip, Walks!Fail
<1>2. /\ h = work[1] /\ 1 \in DOMAIN work /\ h.path \in Seq(Nat) /\ Len(h.path) \in Nat
      /\ h.path \in Walks!Paths \cup {Walks!Root}
  BY <1>1, HeadIs
<1>3. ListItemOK(h)
  BY <1>2 DEF ListInv
<1>4. /\ Entered(h.path) /\ Len(h.path) <= Len(request.at) + request.depth
      /\ h.path = request.at \/ Walks!Listable(h.path)
  BY <1>1, <1>3 DEF ListItemOK, EntryKinds
<1>5. ASSUME NEW s \in Walks!Listings(h.path), Walks!Continue(Walks!Entries(s))
      PROVE  WalkTypes' /\ ListInv'
  <2> DEFINE items == Walks!Entries(s)
  <2>1. work' = items \o Tail(work) /\ UNCHANGED <<tree, request, reply, touched>>
    BY <1>5 DEF Walks!Continue
  <2>2. /\ items \in Seq(Items)
        /\ \A i \in 1..Len(items) :
              items[i].path \in Walks!Children(h.path) /\ items[i].do = tree[items[i].path]
        /\ \A i, j \in 1..Len(items) : i < j => Apart(items[i].path, items[j].path)
    BY <1>2, <1>5, EntriesAre
  <2>3. ASSUME NEW c \in Walks!Children(h.path)
        PROVE  /\ Walks!Listable(c) /\ tree[c] \in EntryKinds /\ Walks!Is(c, {tree[c]})
               /\ Within(h.path, c) /\ Len(h.path) < Len(c)
    <3>1. /\ c \in DOMAIN tree /\ c \in Seq(Nat) /\ tree[c] \in EntryKinds
          /\ Within(h.path, c) /\ Len(c) = Len(h.path) + 1 /\ c[Len(c)] \notin Skipped
      BY <1>2, <2>3, ChildIs DEF WalkTypes
    <3>2. /\ request.at \in Seq(Nat) /\ Within(request.at, h.path)
          /\ \A k \in (Len(request.at) + 1)..Len(h.path) : h.path[k] \notin Skipped
      BY <1>2, <1>4, ListableIs, WithinSelf
    <3>3. Within(request.at, c) /\ Len(request.at) <= Len(h.path)
      BY <1>2, <3>1, <3>2, WithinGoesOn DEF Within
    <3>4. ASSUME NEW k \in (Len(request.at) + 1)..Len(c) PROVE c[k] \notin Skipped
      <4>1. k = Len(c) \/ (k \in (Len(request.at) + 1)..Len(h.path) /\ c[k] = h.path[k])
        BY <1>2, <3>1, <3>2 DEF Within
      <4> QED
        BY <3>1, <3>2, <4>1
    <3>5. Len(request.at) < Len(c) /\ Len(c) <= Len(request.at) + request.depth + 1
      BY <1>2, <1>4, <3>1, <3>2, <3>3, ListableIs
    <3>6. Walks!Listable(c)
      BY <3>1, <3>3, <3>4, <3>5, ListableIs
    <3> QED
      BY <1>2, <3>1, <3>6 DEF Walks!Is
  <2>4. ASSUME NEW q \in Walks!Steady, Walks!Listable(q), Covers(h, q)
        PROVE  \E i \in 1..Len(items) : Covers(items[i], q)
    <3>1. q \in Seq(Nat) /\ Len(h.path) + 1 \in (Len(request.at) + 1)..Len(q)
      <4>1. q \in Seq(Nat) /\ Len(h.path) < Len(q)
        BY <1>1, <2>4, SteadyIs DEF Covers
      <4>2. Len(request.at) \in Nat /\ Len(request.at) <= Len(h.path)
        BY <1>2, <1>4, ListableIs
      <4> QED
        BY <1>2, <4>1, <4>2
    <3>2. q[Len(h.path) + 1] \notin Skipped
      BY <2>4, <3>1, ListableIs
    <3> QED
      BY <1>1, <1>5, <2>4, <3>2, EntriesCover
  <2>5. \A i \in 1..Len(items) :
          /\ ListItemOK(items[i]) /\ Within(h.path, items[i].path)
          /\ Len(h.path) < Len(items[i].path)
    BY <2>2, <2>3 DEF ListItemOK
  <2> HIDE DEF items
  <2> QED
    BY <1>1, <2>1, <2>2, <2>4, <2>5, ListPush
<1>6. ASSUME ~Walks!IsDir(h.path), Walks!Fail
      PROVE  WalkTypes' /\ ListInv'
  <2>1. touched # {}
    BY <1>4, <1>6 DEF Entered
  <2>2. /\ reply'.status = "error" /\ work' = <<>> /\ UNCHANGED <<tree, request, found, touched>>
    BY <1>6 DEF Walks!Fail, Walks!NoReply
  <2> QED
    BY <1>1, <2>1, <2>2, ListStops
<1> QED
  BY <1>1, <1>5, <1>6 DEF Walks!Enter, Walks!Here

LEMMA Difference == ASSUME NEW a \in Nat, NEW b \in Nat, NEW d \in Nat PROVE a - b <= d <=> a <= b + d
OBVIOUS

LEMMA ListLists ==
    ASSUME WalkTypes, ListInv, request.tool = "list_tree", Walks!ListEntry
    PROVE  WalkTypes' /\ ListInv'
<1> DEFINE h == Head(work)
           in == /\ h.do = "dir" /\ Len(found') < TreeLimit
                 /\ Len(h.path) - Len(request.at) <= request.depth
           items == IF in THEN <<Walks!Item(h.path, "enter")>> ELSE <<>>
<1>1. /\ work # <<>> /\ h.do \in EntryKinds /\ Len(found) < TreeLimit /\ reply.status = "none"
      /\ found' = Append(found, h.path) /\ work' = items \o Tail(work)
      /\ UNCHANGED <<tree, request, reply, touched>>
  BY DEF Walks!ListEntry, Walks!Now, Walks!Busy, Walks!NoReply, Walks!Add, Walks!Continue, Walks!Here,
         Walks!Kinds, EntryKinds
<1>2. /\ h = work[1] /\ 1 \in DOMAIN work /\ h.path \in Seq(Nat) /\ Len(h.path) \in Nat
      /\ h \in Items /\ h.path \in Walks!Paths \cup {Walks!Root}
  BY <1>1, HeadIs
<1>3. ListItemOK(h)
  BY <1>2 DEF ListInv
<1>4. /\ Walks!Listable(h.path) /\ (h.path \in touched \/ Walks!Is(h.path, {h.do}))
      /\ request.at \in Seq(Nat) /\ Len(request.at) \in Nat /\ request.depth \in Nat
      /\ Len(request.at) < Len(h.path)
  <2>1. Walks!Listable(h.path) /\ (h.path \in touched \/ Walks!Is(h.path, {h.do}))
    BY <1>1, <1>3 DEF ListItemOK, EntryKinds
  <2> QED
    BY <1>2, <2>1, ListableIs
<1>5. items \in Seq(Items)
  <2>1. Walks!Item(h.path, "enter") \in Items
    BY <1>2 DEF Items, Walks!Item
  <2> HIDE DEF in, h
  <2> QED
    BY <2>1
<1>6. ASSUME in PROVE ListItemOK(Walks!Item(h.path, "enter"))
  <2>1. Entered(h.path)
    BY <1>4, <1>6 DEF Entered, Walks!IsDir, Walks!Is
  <2>2. Len(h.path) <= Len(request.at) + request.depth
    <3>1. Len(h.path) - Len(request.at) <= request.depth
      BY <1>6
    <3> QED
      BY <1>2, <1>4, <3>1, Difference
  <2> QED
    BY <1>4, <2>1, <2>2 DEF ListItemOK, Walks!Item
<1>7. ASSUME NEW q \in Walks!Steady, Walks!Listable(q), Covers(h, q)
      PROVE  \/ q = h.path
             \/ \E i \in 1..Len(items) : Covers(items[i], q)
             \/ Len(found') >= TreeLimit
  <2>1. q \in Seq(Nat) /\ Within(h.path, q) /\ Len(q) \in Nat
    BY <1>7, SteadyIs DEF Covers
  <2>2. CASE h.do # "dir"
    <3>1. h.do \in {"match", "other", "dangling"}
      BY <1>1, <2>2 DEF EntryKinds
    <3> QED
      BY <1>7, <3>1 DEF Covers
  <2>3. CASE h.do = "dir" /\ Len(h.path) < Len(q) /\ Len(found') < TreeLimit
    <3>1. Len(q) <= Len(request.at) + request.depth + 1
      BY <1>7, <2>1, ListableIs
    <3>2. in
      <4>1. Len(h.path) - Len(request.at) <= request.depth
        <5>1. Len(h.path) <= Len(request.at) + request.depth
          <6> HIDE DEF h, in, items
          <6> QED
            BY <1>2, <1>4, <2>1, <2>3, <3>1
        <5> QED
          BY <1>2, <1>4, <5>1, Difference
      <4> QED
        BY <2>3, <4>1
    <3>3. items = <<Walks!Item(h.path, "enter")>> /\ 1 \in 1..Len(items)
      BY <3>2
    <3>4. Covers(items[1], q)
      BY <2>1, <2>3, <3>3 DEF Covers, Walks!Item
    <3> QED
      BY <3>3, <3>4
  <2>4. CASE ~(Len(h.path) < Len(q))
    <3>1. Len(h.path) = Len(q)
      BY <1>2, <2>1, <2>4 DEF Within
    <3> QED
      BY <1>2, <2>1, <3>1, SeqEqual DEF Within
  <2>5. CASE ~(Len(found') < TreeLimit)
    <3>1. Len(found') \in Nat
      BY <1>1, <1>2, <1>4 DEF WalkTypes
    <3> QED
      BY <2>5, <3>1, WalkBounds
  <2> QED
    BY <2>2, <2>3, <2>4, <2>5
<1>8. /\ \A i \in 1..Len(items) :
            ListItemOK(items[i]) /\ Within(h.path, items[i].path) /\ items[i].do = "enter"
      /\ \A i, j \in 1..Len(items) : i < j => Apart(items[i].path, items[j].path)
  <2>1. Len(items) \in {0, 1} /\ \A i \in 1..Len(items) : in /\ items[i] = Walks!Item(h.path, "enter")
    <3> HIDE DEF in, h
    <3> QED
      OBVIOUS
  <2>2. \A i, j \in 1..Len(items) : ~(i < j)
    <3> HIDE DEF items, in, h
    <3> QED
      BY <2>1
  <2>3. /\ Walks!Item(h.path, "enter").path = h.path /\ Walks!Item(h.path, "enter").do = "enter"
        /\ Within(h.path, h.path)
    BY <1>2, WithinSelf DEF Walks!Item
  <2> HIDE DEF items, in, h
  <2> QED
    BY <1>6, <2>1, <2>2, <2>3
<1> HIDE DEF items, in
<1> QED
  BY <1>1, <1>5, <1>7, <1>8, ListPush

LEMMA ListFinishes ==
    ASSUME WalkTypes, ListInv, request.tool = "list_tree", Walks!Finish
    PROVE  WalkTypes' /\ ListInv'
<1>1. /\ reply.status = "none" /\ work' = <<>> /\ UNCHANGED <<tree, request, found, touched>>
      /\ work = <<>> \/ Len(found) >= TreeLimit
  BY DEF Walks!Finish, Walks!Busy, Walks!NoReply, Walks!Full
<1>2. reply'.status = "ok" /\ reply'.truncated = (Len(found) >= TreeLimit)
  BY DEF Walks!Finish, Walks!NoReply
<1> QED
  BY <1>1, <1>2, ListStops

\* Somebody changes a path, but not what is above what nobody changed.
LEMMA ChangeKeeps ==
    ASSUME WalkTypes, NEW p \in Walks!Paths, Walks!Change(p)
    PROVE  /\ reply = Walks!NoReply /\ request # Walks!NoCall
           /\ UNCHANGED <<request, work, found, reply>> /\ WalkTypes'
           /\ touched' # {} /\ touched \subseteq touched'
           /\ \A q : q \notin touched' =>
                 (q \in DOMAIN tree' <=> q \in DOMAIN tree) /\ (q \in DOMAIN tree => tree'[q] = tree[q])
           /\ Walks!Steady' \subseteq Walks!Steady
<1>1. /\ Walks!Busy /\ Walks!IsTree(tree') /\ UNCHANGED <<request, work, found, reply>>
      /\ touched' = touched \cup {p} /\ touched \subseteq Walks!Paths /\ Walks!IsTree(tree)
  BY DEF Walks!Change, WalkTypes
<1>2. \/ tree' = [r \in DOMAIN tree \ {p} |-> tree[r]]
      \/ \E k \in Walks!Kinds :
            tree' = [r \in DOMAIN tree \cup {p} |-> IF r = p THEN k ELSE tree[r]] /\ tree' # tree
  BY DEF Walks!Change
<1>3. ASSUME NEW q, q # p
      PROVE  (q \in DOMAIN tree' <=> q \in DOMAIN tree) /\ (q \in DOMAIN tree => tree'[q] = tree[q])
  BY <1>2, <1>3
<1>4. Walks!Steady' \subseteq Walks!Steady
  BY <1>1, <1>3 DEF Walks!Steady
<1>5. ASSUME NEW q \in Walks!Steady', Within(p, q) PROVE FALSE
  <2>1. q \in DOMAIN tree' /\ q \in DOMAIN tree /\ q # p /\ q \in Walks!Steady
    BY <1>1, <1>3, <1>4, <1>5 DEF Walks!Steady
  <2>2. q \in Seq(Nat) /\ p \in Seq(Nat) /\ Len(p) \in Nat /\ Len(p) >= 1 /\ Len(p) <= Len(q)
    BY <1>5, <2>1, SteadyIs, PathIs DEF Within
  <2>3. Len(p) < Len(q)
    <3>1. Len(p) = Len(q) => p = q
      BY <1>5, <2>2, SeqEqual DEF Within
    <3> QED
      BY <2>1, <2>2, <3>1
  <2>4. SubSeq(q, 1, Len(p)) = p /\ Len(p) \in 1..(Len(q) - 1)
    BY <1>5, <2>2, <2>3, PrefixIs DEF Walks!IsPrefix
  <2>5. p \in DOMAIN tree /\ tree[p] = "dir"
    BY <1>1, <2>1, <2>4 DEF Walks!IsTree
  <2>6. p \in DOMAIN tree' /\ tree'[p] = "dir"
    BY <1>1, <2>1, <2>4 DEF Walks!IsTree
  <2>7. PICK k : /\ tree' = [r \in DOMAIN tree \cup {p} |-> IF r = p THEN k ELSE tree[r]]
                 /\ tree' # tree
    BY <1>2, <2>6
  <2>8. DOMAIN tree' = DOMAIN tree /\ \A r \in DOMAIN tree : tree'[r] = tree[r]
    BY <2>5, <2>6, <2>7
  <2>9. tree' = [r \in DOMAIN tree |-> tree[r]]
    BY <2>5, <2>6, <2>7, <2>8
  <2> QED
    BY <1>1, <2>7, <2>9 DEF Walks!IsTree
<1>6. WalkTypes'
  <2>1. \A q \in Walks!Steady', r \in touched' : ~Within(r, q)
    BY <1>1, <1>4, <1>5 DEF WalkTypes
  <2>2. Walks!IsTree(tree)'
    BY <1>1 DEF Walks!IsTree
  <2>3. \A q \in Walks!Steady', r \in touched' : ~Within(r, q)'
    BY <2>1 DEF Within
  <2> QED
    BY <1>1, <2>2, <2>3 DEF WalkTypes
<1> QED
  BY <1>1, <1>3, <1>4, <1>6 DEF Walks!Busy

LEMMA StillThere ==
    ASSUME WalkTypes, NEW p \in Walks!Paths, Walks!Change(p), NEW q
    PROVE  /\ Known(q) => Known(q)'
           /\ Entered(q) => Entered(q)'
           /\ \A kinds : q \in touched \/ Walks!Is(q, kinds) => q \in touched' \/ Walks!Is(q, kinds)'
           /\ Walks!Listable(q)' = Walks!Listable(q)
           /\ Walks!Searchable(q)' = Walks!Searchable(q)
<1>1. /\ touched \subseteq touched' /\ request' = request
      /\ q \notin touched' =>
            (q \in DOMAIN tree' <=> q \in DOMAIN tree) /\ (q \in DOMAIN tree => tree'[q] = tree[q])
  BY ChangeKeeps
<1>2. Known(q) => Known(q)'
  BY <1>1 DEF Known
<1>3. \A kinds : q \in touched \/ Walks!Is(q, kinds) => q \in touched' \/ Walks!Is(q, kinds)'
  BY <1>1 DEF Walks!Is
<1>4. Entered(q) => Entered(q)'
  BY <1>1, <1>3 DEF Entered, Walks!IsDir
<1>5. Walks!Listable(q)' = Walks!Listable(q) /\ Walks!Searchable(q)' = Walks!Searchable(q)
  BY <1>1 DEF Walks!Listable, Walks!Searchable, Walks!Below, Walks!Open
<1> QED
  BY <1>2, <1>3, <1>4, <1>5

LEMMA ListChanges ==
    ASSUME WalkTypes, ListInv, NEW p \in Walks!Paths, Walks!Change(p)
    PROVE  ListInv'
<1>1. /\ UNCHANGED <<request, work, found, reply>> /\ reply.status = "none" /\ touched' # {}
      /\ Walks!Steady' \subseteq Walks!Steady
  BY ChangeKeeps DEF Walks!NoReply
<1>2. \A i \in DOMAIN work' : ListItemOK(work[i])'
  <2>1. ASSUME NEW w, ListItemOK(w) PROVE ListItemOK(w)'
    <3>1. /\ Entered(w.path) => Entered(w.path)'
          /\ Walks!Listable(w.path)' = Walks!Listable(w.path)
          /\ (w.path \in touched \/ Walks!Is(w.path, {w.do}))
                => w.path \in touched' \/ Walks!Is(w.path, {w.do})'
      BY StillThere
    <3> QED
      BY <1>1, <2>1, <3>1 DEF ListItemOK
  <2>2. \A i \in DOMAIN work' : ListItemOK(work[i])
    BY <1>1 DEF ListInv
  <2> QED
    BY <1>1, <2>1, <2>2 DEF ListItemOK, Entered, Walks!IsDir, Walks!Is, Walks!Listable, Walks!Below, Walks!Open
<1>3. \A i \in DOMAIN found' : Walks!Listable(found[i])' /\ Known(found[i])'
  <2>1. ASSUME NEW f, Walks!Listable(f), Known(f) PROVE Walks!Listable(f)' /\ Known(f)'
    BY <2>1, StillThere
  <2>2. \A i \in DOMAIN found' : Walks!Listable(found[i]) /\ Known(found[i])
    BY <1>1 DEF ListInv
  <2> QED
    BY <1>1, <2>1, <2>2 DEF Known, Walks!Listable, Walks!Below, Walks!Open
<1>4. \A q \in Walks!Steady' : Walks!Listable(q)' =>
            \/ q \in Walks!ToSet(found)' \/ Covered(q)'
            \/ Len(found') = TreeLimit /\ \A i \in DOMAIN found' : Walks!Before(found'[i], q)
  <2>1. TAKE q \in Walks!Steady'
  <2>2. q \in Walks!Steady /\ Walks!Listable(q)' = Walks!Listable(q)
    BY <1>1, StillThere
  <2>3. Covered(q)' = Covered(q) /\ Walks!ToSet(found)' = Walks!ToSet(found)
    BY <1>1 DEF Covered, Walks!ToSet
  <2> QED
    BY <1>1, <2>2, <2>3 DEF ListInv
<1> QED
  BY <1>1, <1>2, <1>3, <1>4 DEF ListInv

-----------------------------------------------------------------------------
(* Walks: search_files.                                                     *)

LEMMA SearchableIs ==
    ASSUME WalkTypes, NEW q \in Seq(Nat)
    PROVE  /\ request.at \in Seq(Nat) /\ Len(request.at) \in Nat
           /\ Walks!Searchable(q) <=>
                /\ Within(request.at, q)
                /\ \A k \in (Len(request.at) + 1)..Len(q) : q[k] \notin Skipped
<1>1. request.at \in Seq(Nat)
  BY DEF WalkTypes
<1>2. Within(request.at, q) /\ ~(Len(request.at) < Len(q)) => q = request.at
  <2>1. Within(request.at, q) /\ ~(Len(request.at) < Len(q)) => Len(request.at) = Len(q)
    BY <1>1 DEF Within
  <2> QED
    BY <1>1, <2>1, SeqEqual DEF Within
<1> QED
  BY <1>1, <1>2, PrefixIs, WithinSelf DEF Walks!Searchable, Walks!Below, Walks!Open

LEMMA UnlikeGoesDown ==
    ASSUME NEW p \in Seq(Nat), NEW q \in Seq(Nat), NEW b \in Seq(Nat), Within(q, b), Unlike(p, q)
    PROVE  Unlike(p, b) /\ Unlike(q, p) /\ p # q
<1>1. Apart(p, q) => Apart(p, b)
  BY ApartGoesDown, WithinSelf
<1>2. Apart(q, p) => Apart(b, p)
  BY ApartGoesDown, WithinSelf
<1> QED
  BY <1>1, <1>2, ApartDiffers DEF Unlike

\* A file has nothing below it, and a path covered by what is looked at in turn is that path.
LEMMA FileCovers ==
    ASSUME WalkTypes, NEW p \in Walks!Paths, Walks!Is(p, {"match", "other"}), NEW q \in Walks!Steady,
           Within(p, q)
    PROVE  q = p
<1>1. p \in Seq(Nat) /\ q \in Seq(Nat) /\ Len(p) \in Nat /\ Len(q) \in Nat
  BY SteadyIs, PathIs
<1>2. CASE Len(p) < Len(q)
  <2>1. Walks!IsDir(p)
    BY <1>2, SteadyIs, SteadyAbove
  <2>2. Len(p) >= 1
    BY PathIs
  <2> QED
    BY <2>1, <2>2 DEF Walks!IsDir, Walks!Is, Walks!Root
<1>3. CASE ~(Len(p) < Len(q))
  <2>1. Len(p) = Len(q)
    BY <1>1, <1>3 DEF Within
  <2> QED
    BY <1>1, <2>1, SeqEqual DEF Within
<1> QED
  BY <1>2, <1>3

LEMMA SearchPush ==
    ASSUME WalkTypes, SearchInv, reply.status = "none", work # <<>>, UNCHANGED <<tree, request, reply, touched>>,
           NEW items \in Seq(Items), work' = items \o Tail(work),
           \A i \in 1..Len(items) :
              /\ SearchItemOK(items[i]) /\ Within(Head(work).path, items[i].path)
              /\ items[i].do = "read" => i = 1,
           \A i, j \in 1..Len(items) : i < j => Unlike(items[i].path, items[j].path),
           \/ found' = found
           \/ /\ found' = Append(found, Head(work).path) /\ Len(found) < SearchLimit
              /\ items = <<>> /\ Walks!Is(Head(work).path, {"match"}),
           \A q \in Walks!Steady : tree[q] = "match" /\ Walks!Searchable(q) /\ Covers(Head(work), q) =>
              \/ q = Head(work).path /\ found' = Append(found, Head(work).path)
              \/ \E i \in 1..Len(items) : Covers(items[i], q)
    PROVE  WalkTypes' /\ SearchInv'
<1> DEFINE h == Head(work)
<1>1. /\ work \in Seq(Items) /\ found \in Seq(Walks!Paths) /\ Walks!IsTree(tree)
  BY DEF WalkTypes
<1>2. /\ work' \in Seq(Items) /\ h \in Items /\ h = work[1] /\ 1 \in DOMAIN work
      /\ \A i \in 1..Len(items) : i \in DOMAIN work' /\ work'[i] = items[i]
      /\ \A i \in 2..Len(work) : Len(items) + i - 1 \in DOMAIN work' /\ work'[Len(items) + i - 1] = work[i]
      /\ \A j \in DOMAIN work' : j \notin 1..Len(items) =>
            j - Len(items) + 1 \in 2..Len(work) /\ work'[j] = work[j - Len(items) + 1]
      /\ Len(items) \in Nat /\ Len(work) \in Nat /\ DOMAIN work = 1..Len(work)
      /\ DOMAIN work' = 1..(Len(items) + Len(work) - 1)
  BY <1>1, Pushed
<1>3. /\ \A w \in Items : w.path \in Seq(Nat) /\ Len(w.path) \in Nat
      /\ \A i \in DOMAIN work : work[i] \in Items
      /\ \A i \in DOMAIN work' : work'[i] \in Items
      /\ \A i \in 1..Len(items) : items[i] \in Items
  <2>1. \A w \in Items : w.path \in Seq(Nat) /\ Len(w.path) \in Nat
    <3>1. TAKE w \in Items
    <3>2. w.path \in Walks!Paths \cup {Walks!Root}
      BY DEF Items
    <3> QED
      BY <3>2, PathOrRoot
  <2>2. \A i \in DOMAIN work' : work'[i] \in Items
    BY <1>2, ElementOfSeq
  <2> QED
    BY <1>1, <2>1, <2>2
<1>4. \A i \in DOMAIN found : found[i] \in Walks!Paths /\ found[i] \in Seq(Nat)
  BY <1>1, PathIs
<1>5. SearchItemOK(h) /\ Walks!Searchable(h.path)
  <2>1. SearchItemOK(h)
    BY <1>2 DEF SearchInv
  <2> QED
    BY <2>1 DEF SearchItemOK
<1>6. found' # found => h.path \in Walks!Paths /\ Walks!Is(h.path, {"match"}) /\ items = <<>>
  BY <1>1 DEF Walks!Is, Walks!IsTree
<1> HIDE DEF h
<1>7. /\ found' \in Seq(Walks!Paths)
      /\ \A i \in DOMAIN found' :
            \/ i \in DOMAIN found /\ found'[i] = found[i]
            \/ i = Len(found) + 1 /\ found'[i] = h.path /\ found' # found
      /\ \A i \in DOMAIN found : i \in DOMAIN found' /\ found'[i] = found[i]
      /\ Len(found) \in Nat /\ DOMAIN found = 1..Len(found)
  <2>1. Len(found) \in Nat /\ DOMAIN found = 1..Len(found)
    BY <1>1
  <2>2. CASE found' = found
    BY <1>1, <2>1, <2>2
  <2>3. CASE found' # found
    <3>1. h.path \in Walks!Paths /\ found' = Append(found, h.path)
      BY <1>6, <2>3 DEF h
    <3> QED
      BY <1>1, <2>3, <3>1, Appended
  <2> QED
    BY <2>2, <2>3
<1>8. WalkTypes'
  BY <1>2, <1>7 DEF WalkTypes, Walks!IsTree, Walks!Steady, Within
<1>9. Len(found') <= SearchLimit
  <2>1. CASE found' = found
    BY <2>1 DEF SearchInv
  <2>2. CASE found' # found
    <3>1. Len(found') = Len(found) + 1 /\ Len(found) < SearchLimit
      BY <1>1, <2>2
    <3> QED
      BY <1>7, <3>1, WalkBounds
  <2> QED
    BY <2>1, <2>2
<1>19. \A k \in 2..Len(work) :
          /\ k \in DOMAIN work /\ Unlike(h.path, work[k].path) /\ SearchItemOK(work[k])
          /\ work[k].do # "read"
  <2>1. \A k \in 2..Len(work) : k \in DOMAIN work /\ 1 < k /\ k # 1
    BY <1>2
  <2> QED
    BY <1>2, <2>1 DEF SearchInv
<1>10. \A i \in DOMAIN work' : SearchItemOK(work[i])' /\ (work'[i].do = "read" => i = 1)
  <2>1. ASSUME NEW i \in DOMAIN work'
        PROVE  /\ SearchItemOK(work'[i]) /\ (work'[i].do = "read" => i = 1)
               /\ work'[i].do = "read" => found' = found
    <3>2. CASE i \in 1..Len(items)
      <4>1. found' = found
        BY <1>6, <3>2
      <4> QED
        BY <1>2, <3>2, <4>1
    <3>3. CASE i \notin 1..Len(items)
      <4>1. i - Len(items) + 1 \in 2..Len(work) /\ work'[i] = work[i - Len(items) + 1]
        BY <1>2, <2>1, <3>3
      <4> QED
        BY <1>19, <4>1
    <3> QED
      BY <3>2, <3>3
  <2> QED
    BY <2>1 DEF SearchItemOK, Known, Entered, Walks!IsDir, Walks!Is, Walks!Searchable, Walks!Below, Walks!Open
<1>11. \A i \in DOMAIN found' :
          Walks!Searchable(found[i])' /\ (found'[i] \in touched' \/ Walks!Is(found[i], {"match"})')
  <2>1. \A i \in DOMAIN found' :
          Walks!Searchable(found'[i]) /\ (found'[i] \in touched \/ Walks!Is(found'[i], {"match"}))
    BY <1>5, <1>6, <1>7 DEF SearchInv
  <2> QED
    BY <2>1 DEF Walks!Is, Walks!Searchable, Walks!Below, Walks!Open
<1>12. ASSUME NEW i \in DOMAIN found
       PROVE  found[i] # h.path
              /\ \A v \in Seq(Nat) : Within(h.path, v) => Unlike(found[i], v)
  <2>1. Unlike(found[i], h.path)
    BY <1>2 DEF SearchInv
  <2>2. h.path \in Seq(Nat) /\ found[i] \in Seq(Nat)
    BY <1>2, <1>3, <1>4
  <2> QED
    BY <2>1, <2>2, UnlikeGoesDown, WithinSelf
<1>13. \A i, j \in DOMAIN found' : i # j => found'[i] # found'[j]
  <2>1. TAKE i, j \in DOMAIN found'
  <2>2. CASE i \in DOMAIN found /\ j \in DOMAIN found
    BY <1>7, <2>2 DEF SearchInv
  <2>3. CASE ~(i \in DOMAIN found /\ j \in DOMAIN found)
    BY <1>7, <1>12, <2>3
  <2> QED
    BY <2>2, <2>3
<1>14. \A i, j \in DOMAIN work' : i < j => Unlike(work'[i].path, work'[j].path)
  <2>1. TAKE i, j \in DOMAIN work'
  <2>2. HAVE i < j
  <2>3. CASE j \in 1..Len(items)
    BY <1>2, <2>2, <2>3
  <2>4. CASE i \in 1..Len(items) /\ j \notin 1..Len(items)
    <3>1. Unlike(h.path, work'[j].path)
      BY <1>2, <1>19, <2>4
    <3>2. Within(h.path, work'[i].path)
      BY <1>2, <2>4 DEF h
    <3>3. /\ h.path \in Seq(Nat) /\ work'[i].path \in Seq(Nat) /\ work'[j].path \in Seq(Nat)
      BY <1>2, <1>3
    <3>4. Unlike(work'[j].path, h.path)
      BY <3>1 DEF Unlike
    <3>5. Unlike(work'[j].path, work'[i].path)
      BY <3>2, <3>3, <3>4, UnlikeGoesDown
    <3> QED
      BY <3>5 DEF Unlike
  <2>5. CASE i \notin 1..Len(items)
    <3>1. j \notin 1..Len(items) /\ i - Len(items) + 1 < j - Len(items) + 1
      BY <1>2, <2>2, <2>5
    <3>2. /\ i - Len(items) + 1 \in DOMAIN work /\ work'[i] = work[i - Len(items) + 1]
          /\ j - Len(items) + 1 \in DOMAIN work /\ work'[j] = work[j - Len(items) + 1]
      BY <1>2, <2>5, <3>1
    <3> QED
      BY <3>1, <3>2 DEF SearchInv
  <2> QED
    BY <2>3, <2>4, <2>5
<1>15. \A i \in DOMAIN found', j \in DOMAIN work' : Unlike(found'[i], work'[j].path)
  <2>1. TAKE i \in DOMAIN found', j \in DOMAIN work'
  <2>2. CASE j \in 1..Len(items)
    <3>1. found' = found
      BY <1>6, <2>2
    <3>2. Within(h.path, work'[j].path) /\ work'[j].path \in Seq(Nat)
      BY <1>2, <1>3, <2>2 DEF h
    <3> QED
      BY <1>7, <1>12, <3>1, <3>2
  <2>3. CASE j \notin 1..Len(items)
    <3>1. j - Len(items) + 1 \in 2..Len(work) /\ work'[j] = work[j - Len(items) + 1]
      BY <1>2, <2>3
    <3>2. CASE i \in DOMAIN found
      BY <1>7, <1>19, <3>1, <3>2 DEF SearchInv
    <3>3. CASE i \notin DOMAIN found
      BY <1>7, <1>19, <3>1, <3>3
    <3> QED
      BY <3>2, <3>3
  <2> QED
    BY <2>2, <2>3
<1>16. ASSUME NEW q \in Walks!Steady, Walks!Searchable(q), tree[q] = "match"
       PROVE  \/ q \in Walks!ToSet(found') \/ \E i \in DOMAIN work' : Covers(work'[i], q)
              \/ Len(found') = SearchLimit
  <2>1. CASE q \in Walks!ToSet(found)
    BY <1>7, <2>1 DEF Walks!ToSet
  <2>2. CASE Len(found) = SearchLimit
    <3>1. found' = found
      <4>1. ~(Len(found) < SearchLimit)
        BY <2>2, WalkBounds
      <4> QED
        BY <4>1
    <3> QED
      BY <2>2, <3>1
  <2>3. ASSUME NEW i \in DOMAIN work, Covers(work[i], q), i # 1
        PROVE  \E j \in DOMAIN work' : Covers(work'[j], q)
    <3>1. i \in 2..Len(work)
      BY <1>2, <2>3
    <3> QED
      BY <1>2, <2>3, <3>1
  <2>4. ASSUME Covers(h, q)
        PROVE  q \in Walks!ToSet(found') \/ \E i \in DOMAIN work' : Covers(work'[i], q)
    <3>1. CASE q = h.path /\ found' = Append(found, h.path)
      <4>1. h.path \in Walks!Paths
        BY <3>1, SteadyIs
      <4>2. Len(found) + 1 \in DOMAIN found' /\ found'[Len(found) + 1] = h.path
        BY <1>1, <3>1, <4>1, Appended
      <4> QED
        BY <3>1, <4>2 DEF Walks!ToSet
    <3>2. CASE \E i \in 1..Len(items) : Covers(items[i], q)
      BY <1>2, <3>2
    <3> QED
      BY <1>16, <2>4, <3>1, <3>2 DEF h
  <2>5. \/ q \in Walks!ToSet(found) \/ \E i \in DOMAIN work : Covers(work[i], q)
        \/ Len(found) = SearchLimit
    BY <1>16 DEF SearchInv, Covered
  <2> QED
    BY <1>2, <2>1, <2>2, <2>3, <2>4, <2>5
<1>17. \A q \in Walks!Steady' : Walks!Searchable(q)' /\ tree'[q] = "match" =>
            q \in Walks!ToSet(found)' \/ Covered(q)' \/ Len(found') = SearchLimit
  BY <1>16 DEF Walks!Steady, Walks!Searchable, Walks!Below, Walks!Open, Walks!ToSet, Covered
<1> QED
  BY <1>8, <1>9, <1>10, <1>11, <1>13, <1>14, <1>15, <1>17 DEF SearchInv

\* The end of a search.
LEMMA SearchStops ==
    ASSUME WalkTypes, SearchInv, reply.status = "none", work' = <<>>,
           UNCHANGED <<tree, request, found, touched>>,
           \/ /\ reply'.status = "error"
              /\ touched # {} \/ \E q \in Walks!Steady : Walks!Searchable(q) /\ tree[q] = "dangling"
           \/ reply'.status = "ok" /\ (work = <<>> \/ Len(found) >= SearchLimit)
    PROVE  WalkTypes' /\ SearchInv'
<1>1. WalkTypes'
  <2>1. work' \in Seq(Items)
    OBVIOUS
  <2> QED
    BY <2>1 DEF WalkTypes, Walks!IsTree, Walks!Steady, Within
<1>2. DOMAIN work' = {} /\ DOMAIN <<>> = {}
  OBVIOUS
<1>3. /\ Len(found') <= SearchLimit
      /\ \A i \in DOMAIN found' :
            Walks!Searchable(found[i])' /\ (found'[i] \in touched' \/ Walks!Is(found[i], {"match"})')
      /\ \A i, j \in DOMAIN found' : i # j => found'[i] # found'[j]
  BY DEF SearchInv, Walks!Is, Walks!Searchable, Walks!Below, Walks!Open
<1>4. ASSUME NEW q \in Walks!Steady, Walks!Searchable(q), tree[q] = "match", reply'.status = "ok"
      PROVE  q \in Walks!ToSet(found) \/ Len(found) = SearchLimit
  <2>1. q \in Walks!ToSet(found) \/ Covered(q) \/ Len(found) = SearchLimit
    BY <1>4 DEF SearchInv
  <2>2. Len(found) >= SearchLimit => Len(found) = SearchLimit
    <3>1. Len(found) \in Nat /\ Len(found) <= SearchLimit
      BY DEF WalkTypes, SearchInv
    <3> QED
      BY <3>1, WalkBounds
  <2> QED
    BY <1>2, <1>4, <2>1, <2>2 DEF Covered
<1>5. reply'.status # "error" => \A q \in Walks!Steady' : Walks!Searchable(q)' /\ tree'[q] = "match" =>
            q \in Walks!ToSet(found)' \/ Len(found') = SearchLimit
  BY <1>4 DEF Walks!Steady, Walks!Searchable, Walks!Below, Walks!Open, Walks!ToSet
<1>6. reply'.status = "error" =>
          touched' # {} \/ \E q \in Walks!Steady' : Walks!Searchable(q)' /\ tree'[q] = "dangling"
  BY DEF Walks!Steady, Walks!Searchable, Walks!Below, Walks!Open
<1> QED
  BY <1>1, <1>2, <1>3, <1>5, <1>6 DEF SearchInv

LEMMA SearchEnters ==
    ASSUME WalkTypes, SearchInv, request.tool = "search_files", Walks!Enter
    PROVE  WalkTypes' /\ SearchInv'
<1> DEFINE h == Head(work)
<1>1. /\ work # <<>> /\ h.do = "enter" /\ found' = found /\ reply.status = "none"
      /\ UNCHANGED <<tree, request, touched>>
  BY DEF Walks!Enter, Walks!Busy, Walks!NoReply, Walks!Continue, Walks!Skip, Walks!Fail
<1>2. /\ h = work[1] /\ 1 \in DOMAIN work /\ h.path \in Seq(Nat) /\ Len(h.path) \in Nat
      /\ h.path \in Walks!Paths \cup {Walks!Root}
  BY <1>1, HeadIs
<1>3. SearchItemOK(h)
  BY <1>2 DEF SearchInv
<1>4. Entered(h.path) /\ Walks!Searchable(h.path)
  BY <1>1, <1>3 DEF SearchItemOK
<1>5. ASSUME NEW s \in Walks!Listings(h.path), Walks!Continue(Walks!Entries(s))
      PROVE  WalkTypes' /\ SearchInv'
  <2> DEFINE items == Walks!Entries(s)
  <2>1. work' = items \o Tail(work) /\ UNCHANGED <<tree, request, reply, touched>>
    BY <1>5 DEF Walks!Continue
  <2>2. /\ items \in Seq(Items)
        /\ \A i \in 1..Len(items) : items[i].path \in Walks!Children(h.path) /\ items[i].do = "stat"
        /\ \A i, j \in 1..Len(items) : i < j => Unlike(items[i].path, items[j].path)
    BY <1>2, <1>5, EntriesAre
  <2>3. ASSUME NEW c \in Walks!Children(h.path)
        PROVE  Walks!Searchable(c) /\ Known(c) /\ Within(h.path, c)
    <3>1. /\ c \in DOMAIN tree /\ c \in Seq(Nat) /\ Within(h.path, c) /\ Len(c) = Len(h.path) + 1
          /\ c[Len(c)] \notin Skipped
      BY <1>2, <2>3, ChildIs DEF WalkTypes
    <3>2. /\ request.at \in Seq(Nat) /\ Within(request.at, h.path)
          /\ \A k \in (Len(request.at) + 1)..Len(h.path) : h.path[k] \notin Skipped
      BY <1>2, <1>4, SearchableIs
    <3>3. Within(request.at, c)
      BY <1>2, <3>1, <3>2, WithinGoesOn
    <3>4. ASSUME NEW k \in (Len(request.at) + 1)..Len(c) PROVE c[k] \notin Skipped
      <4>1. k = Len(c) \/ (k \in (Len(request.at) + 1)..Len(h.path) /\ c[k] = h.path[k])
        <5>1. Len(request.at) \in Nat /\ k \in 1..Len(c)
          BY <3>1, <3>2
        <5>2. k = Len(c) \/ k \in 1..Len(h.path)
          BY <1>2, <3>1, <5>1
        <5>3. k \in 1..Len(h.path) => c[k] = h.path[k]
          BY <3>1 DEF Within
        <5> QED
          BY <1>2, <5>1, <5>2, <5>3
      <4> QED
        BY <3>1, <3>2, <4>1
    <3> QED
      BY <3>1, <3>3, <3>4, SearchableIs DEF Known
  <2>4. ASSUME NEW q \in Walks!Steady, Walks!Searchable(q), Covers(h, q)
        PROVE  \E i \in 1..Len(items) : Covers(items[i], q)
    <3>1. q \in Seq(Nat) /\ Len(h.path) + 1 \in (Len(request.at) + 1)..Len(q)
      <4>1. q \in Seq(Nat) /\ Len(h.path) < Len(q)
        BY <1>1, <2>4, SteadyIs DEF Covers
      <4>2. Len(request.at) \in Nat /\ Len(request.at) <= Len(h.path)
        BY <1>2, <1>4, SearchableIs DEF Within
      <4> QED
        BY <1>2, <4>1, <4>2
    <3>2. q[Len(h.path) + 1] \notin Skipped
      BY <2>4, <3>1, SearchableIs
    <3> QED
      BY <1>1, <1>5, <2>4, <3>2, EntriesCover
  <2>5. \A i \in 1..Len(items) :
          /\ SearchItemOK(items[i]) /\ Within(h.path, items[i].path)
          /\ items[i].do # "read"
    BY <2>2, <2>3 DEF SearchItemOK
  <2> HIDE DEF items
  <2> QED
    BY <1>1, <2>1, <2>2, <2>4, <2>5, SearchPush
<1>6. ASSUME ~Walks!IsDir(h.path), Walks!Fail
      PROVE  WalkTypes' /\ SearchInv'
  <2>1. touched # {}
    BY <1>4, <1>6 DEF Entered
  <2>2. /\ reply'.status = "error" /\ work' = <<>> /\ UNCHANGED <<tree, request, found, touched>>
    BY <1>6 DEF Walks!Fail, Walks!NoReply
  <2> QED
    BY <1>1, <2>1, <2>2, SearchStops
<1> QED
  BY <1>1, <1>5, <1>6 DEF Walks!Enter, Walks!Here

\* The head is passed over, or comes back for the next step.
LEMMA SearchSkips ==
    ASSUME WalkTypes, SearchInv, reply.status = "none", work # <<>>, Walks!Skip,
           \A q \in Walks!Steady : tree[q] = "match" => ~Covers(Head(work), q)
    PROVE  WalkTypes' /\ SearchInv'
<1>1. work' = <<>> \o Tail(work) /\ found' = found /\ UNCHANGED <<tree, request, reply, touched>>
  BY DEF Walks!Skip, Walks!Continue
<1>2. <<>> \in Seq(Items) /\ 1..Len(<<>>) = {}
  OBVIOUS
<1> DEFINE items == <<>>
<1>3. \A i \in 1..Len(items) : FALSE
  BY <1>2
<1> HIDE DEF items
<1>4. items \in Seq(Items) /\ work' = items \o Tail(work)
  BY <1>1, <1>2 DEF items
<1> QED
  BY <1>1, <1>3, <1>4, SearchPush

LEMMA SearchInstead ==
    ASSUME WalkTypes, SearchInv, reply.status = "none", work # <<>>, NEW do \in {"enter", "read"},
           Walks!Instead(do), SearchItemOK(Walks!Item(Head(work).path, do)),
           \A q \in Walks!Steady : tree[q] = "match" /\ Covers(Head(work), q) =>
              Covers(Walks!Item(Head(work).path, do), q)
    PROVE  WalkTypes' /\ SearchInv'
<1> DEFINE item == Walks!Item(Head(work).path, do)
           items == <<item>>
<1>1. work' = items \o Tail(work) /\ found' = found /\ UNCHANGED <<tree, request, reply, touched>>
  BY DEF Walks!Instead, Walks!Continue, Walks!Here
<1>2. item \in Items /\ item.path = Head(work).path /\ Within(Head(work).path, item.path)
  BY HeadIs, WithinSelf DEF Walks!Item, Items
<1> HIDE DEF item
<1>3. items \in Seq(Items) /\ Len(items) = 1 /\ items[1] = item
  BY <1>2
<1> HIDE DEF items
<1>4. \A i \in 1..Len(items) : i = 1
  BY <1>3
<1>5. \A i, j \in 1..Len(items) : ~(i < j)
  BY <1>4
<1>6. \A i \in 1..Len(items) :
          /\ SearchItemOK(items[i]) /\ Within(Head(work).path, items[i].path)
          /\ items[i].do = "read" => i = 1
  BY <1>2, <1>3, <1>4 DEF item
<1>7. \A q \in Walks!Steady : tree[q] = "match" /\ Walks!Searchable(q) /\ Covers(Head(work), q) =>
          \E i \in 1..Len(items) : Covers(items[i], q)
  <2>1. 1 \in 1..Len(items)
    BY <1>3
  <2> QED
    BY <1>3, <2>1 DEF item
<1> QED
  BY <1>1, <1>3, <1>5, <1>6, <1>7, SearchPush

LEMMA SearchStats ==
    ASSUME WalkTypes, SearchInv, Walks!Stat
    PROVE  WalkTypes' /\ SearchInv'
<1> DEFINE h == Head(work)
<1>1. /\ work # <<>> /\ h.do = "stat" /\ reply.status = "none" /\ ~Walks!Full
      /\ request.tool = "search_files"
  BY DEF Walks!Stat, Walks!Now, Walks!Busy, Walks!NoReply
<1>2. /\ h = work[1] /\ 1 \in DOMAIN work /\ h.path \in Seq(Nat) /\ Len(h.path) \in Nat
      /\ h.path \in Walks!Paths \cup {Walks!Root}
  BY <1>1, HeadIs
<1>3. Walks!Searchable(h.path) /\ (h.path = Walks!Root \/ Known(h.path))
  <2>1. SearchItemOK(h)
    BY <1>2 DEF SearchInv
  <2> QED
    BY <1>1, <2>1 DEF SearchItemOK
<1>4. /\ Walks!Item(h.path, "enter").path = h.path /\ Walks!Item(h.path, "enter").do = "enter"
      /\ Walks!Item(h.path, "read").path = h.path /\ Walks!Item(h.path, "read").do = "read"
  BY DEF Walks!Item
<1>5. CASE Walks!IsDir(h.path) /\ Walks!Instead("enter")
  <2>1. SearchItemOK(Walks!Item(h.path, "enter"))
    BY <1>3, <1>4, <1>5 DEF SearchItemOK, Entered
  <2>2. ASSUME NEW q \in Walks!Steady, tree[q] = "match", Covers(h, q)
        PROVE  Covers(Walks!Item(h.path, "enter"), q)
    <3>1. q \in Seq(Nat) /\ Len(q) \in Nat /\ Len(q) >= 1 /\ Within(h.path, q)
      BY <2>2, SteadyIs DEF Covers
    <3>2. q # h.path
      BY <1>5, <2>2, <3>1 DEF Walks!IsDir, Walks!Is, Walks!Root
    <3>3. Len(h.path) = Len(q) => h.path = q
      BY <1>2, <3>1, SeqEqual DEF Within
    <3>4. Len(h.path) < Len(q)
      BY <1>2, <3>1, <3>2, <3>3 DEF Within
    <3> QED
      BY <1>4, <3>1, <3>4 DEF Covers
  <2> QED
    BY <1>1, <1>5, <2>1, <2>2, SearchInstead
<1>6. CASE Walks!Is(h.path, Walks!Files) /\ Walks!Instead("read")
  <2>1. Len(found) < SearchLimit
    <3>1. Len(found) \in Nat /\ ~(Len(found) >= SearchLimit)
      BY <1>1 DEF Walks!Full, WalkTypes
    <3> QED
      BY <3>1, WalkBounds
  <2>2. SearchItemOK(Walks!Item(h.path, "read"))
    BY <1>3, <1>4, <1>6, <2>1 DEF SearchItemOK, Walks!Files
  <2>3. h.path \in Walks!Paths /\ Walks!Is(h.path, {"match", "other"})
    BY <1>6 DEF Walks!Is, Walks!Files, WalkTypes, Walks!IsTree
  <2>4. ASSUME NEW q \in Walks!Steady, Covers(h, q)
        PROVE  Covers(Walks!Item(h.path, "read"), q)
    BY <1>4, <2>3, <2>4, FileCovers DEF Covers
  <2> QED
    BY <1>1, <1>6, <2>2, <2>4, SearchInstead
<1>7. CASE Walks!Is(h.path, {"other"}) /\ Walks!Skip
  <2>1. h.path \in Walks!Paths /\ Walks!Is(h.path, {"match", "other"}) /\ tree[h.path] = "other"
    BY <1>7 DEF Walks!Is, WalkTypes, Walks!IsTree
  <2>2. \A q \in Walks!Steady : tree[q] = "match" => ~Covers(h, q)
    BY <2>1, FileCovers DEF Covers
  <2> QED
    BY <1>1, <1>7, <2>2, SearchSkips
<1>8. CASE ~Walks!IsDir(h.path) /\ ~Walks!Is(h.path, Walks!Files) /\ Walks!Fail
  <2>1. touched # {} \/ \E q \in Walks!Steady : Walks!Searchable(q) /\ tree[q] = "dangling"
    <3>1. h.path \in touched \/ h.path \in DOMAIN tree
      BY <1>3, <1>8 DEF Known, Walks!IsDir
    <3>2. h.path \in DOMAIN tree => tree[h.path] \in Walks!Kinds
      BY DEF WalkTypes, Walks!IsTree
    <3>3. h.path \in DOMAIN tree => tree[h.path] = "dangling"
      BY <1>8, <3>2 DEF Walks!IsDir, Walks!Is, Walks!Files, Walks!Kinds
    <3> QED
      BY <1>3, <3>1, <3>3 DEF Walks!Steady
  <2>2. /\ reply'.status = "error" /\ work' = <<>> /\ UNCHANGED <<tree, request, found, touched>>
    BY <1>8 DEF Walks!Fail, Walks!NoReply
  <2> QED
    BY <1>1, <2>1, <2>2, SearchStops
<1> QED
  BY <1>5, <1>6, <1>7, <1>8 DEF Walks!Stat, Walks!Here

LEMMA SearchReads ==
    ASSUME WalkTypes, SearchInv, Walks!Read
    PROVE  WalkTypes' /\ SearchInv'
<1> DEFINE h == Head(work)
<1>1. work # <<>> /\ h.do = "read" /\ reply.status = "none"
  BY DEF Walks!Read, Walks!Now, Walks!Busy, Walks!NoReply
<1>2. h = work[1] /\ 1 \in DOMAIN work
  BY <1>1, HeadIs
<1>3. /\ h.path \in touched \/ Walks!Is(h.path, {"match", "other"})
      /\ Len(found) < SearchLimit
  <2>1. SearchItemOK(h)
    BY <1>2 DEF SearchInv
  <2> QED
    BY <1>1, <2>1 DEF SearchItemOK
<1>4. \A q : Covers(h, q) => q = h.path
  BY <1>1 DEF Covers
<1>5. CASE Walks!Is(h.path, {"match"}) /\ Walks!Add(<<>>)
  <2> DEFINE items == <<>>
  <2>1. /\ work' = items \o Tail(work) /\ UNCHANGED <<tree, request, reply, touched>>
        /\ found' = Append(found, h.path) /\ items = <<>>
    BY <1>5 DEF Walks!Add, Walks!Continue, Walks!Here
  <2>2. items \in Seq(Items) /\ \A i \in 1..Len(items) : FALSE
    OBVIOUS
  <2> HIDE DEF items
  <2> QED
    BY <1>1, <1>3, <1>4, <1>5, <2>1, <2>2, SearchPush
<1>6. CASE Walks!Is(h.path, {"other"}) /\ Walks!Skip
  <2>1. \A q \in Walks!Steady : tree[q] = "match" => ~Covers(h, q)
    BY <1>4, <1>6 DEF Walks!Is
  <2> QED
    BY <1>1, <1>6, <2>1, SearchSkips
<1>7. CASE ~Walks!Is(h.path, Walks!Files) /\ Walks!Fail
  <2>1. touched # {}
    BY <1>3, <1>7 DEF Walks!Files
  <2>2. /\ reply'.status = "error" /\ work' = <<>> /\ UNCHANGED <<tree, request, found, touched>>
    BY <1>7 DEF Walks!Fail, Walks!NoReply
  <2> QED
    BY <1>1, <2>1, <2>2, SearchStops
<1> QED
  BY <1>5, <1>6, <1>7 DEF Walks!Read, Walks!Here

LEMMA SearchFinishes ==
    ASSUME WalkTypes, SearchInv, request.tool = "search_files", Walks!Finish
    PROVE  WalkTypes' /\ SearchInv'
<1>1. /\ reply.status = "none" /\ work' = <<>> /\ UNCHANGED <<tree, request, found, touched>>
      /\ work = <<>> \/ Len(found) >= SearchLimit
  BY DEF Walks!Finish, Walks!Busy, Walks!NoReply, Walks!Full
<1>2. reply'.status = "ok"
  BY DEF Walks!Finish, Walks!NoReply
<1> QED
  BY <1>1, <1>2, SearchStops

LEMMA SearchChanges ==
    ASSUME WalkTypes, SearchInv, NEW p \in Walks!Paths, Walks!Change(p)
    PROVE  SearchInv'
<1>1. /\ UNCHANGED <<request, work, found, reply>> /\ reply.status = "none" /\ touched' # {}
      /\ Walks!Steady' \subseteq Walks!Steady
  BY ChangeKeeps DEF Walks!NoReply
<1>2. \A i \in DOMAIN work' : SearchItemOK(work[i])'
  <2>1. ASSUME NEW w, SearchItemOK(w) PROVE SearchItemOK(w)'
    <3>1. /\ Entered(w.path) => Entered(w.path)'
          /\ Known(w.path) => Known(w.path)'
          /\ Walks!Searchable(w.path)' = Walks!Searchable(w.path)
          /\ (w.path \in touched \/ Walks!Is(w.path, {"match", "other"}))
                => w.path \in touched' \/ Walks!Is(w.path, {"match", "other"})'
      BY StillThere
    <3> QED
      BY <1>1, <2>1, <3>1 DEF SearchItemOK, Walks!Root
  <2>2. \A i \in DOMAIN work' : SearchItemOK(work[i])
    BY <1>1 DEF SearchInv
  <2> QED
    BY <1>1, <2>1, <2>2
    DEF SearchItemOK, Entered, Known, Walks!IsDir, Walks!Is, Walks!Searchable, Walks!Below, Walks!Open
<1>3. \A i \in DOMAIN found' :
          Walks!Searchable(found[i])' /\ (found'[i] \in touched' \/ Walks!Is(found[i], {"match"})')
  <2>1. ASSUME NEW f, Walks!Searchable(f), f \in touched \/ Walks!Is(f, {"match"})
        PROVE  Walks!Searchable(f)' /\ (f \in touched' \/ Walks!Is(f, {"match"})')
    BY <2>1, StillThere
  <2>2. \A i \in DOMAIN found' :
          Walks!Searchable(found[i]) /\ (found[i] \in touched \/ Walks!Is(found[i], {"match"}))
    BY <1>1 DEF SearchInv
  <2> QED
    BY <1>1, <2>1, <2>2 DEF Walks!Is, Walks!Searchable, Walks!Below, Walks!Open
<1>4. \A q \in Walks!Steady' : Walks!Searchable(q)' /\ tree'[q] = "match" =>
            q \in Walks!ToSet(found)' \/ Covered(q)' \/ Len(found') = SearchLimit
  <2>1. TAKE q \in Walks!Steady'
  <2>2. /\ q \in Walks!Steady /\ Walks!Searchable(q)' = Walks!Searchable(q)
        /\ q \in DOMAIN tree /\ q \notin touched'
    BY <1>1, StillThere DEF Walks!Steady
  <2>3. tree'[q] = tree[q]
    BY <2>2, ChangeKeeps
  <2>4. Covered(q)' = Covered(q) /\ Walks!ToSet(found)' = Walks!ToSet(found)
    BY <1>1 DEF Covered, Walks!ToSet
  <2> QED
    BY <1>1, <2>2, <2>3, <2>4 DEF SearchInv
<1> QED
  BY <1>1, <1>2, <1>3, <1>4 DEF SearchInv

-----------------------------------------------------------------------------
(* Walks: the discovery of project files.                                   *)

LEMMA SourceItemIs ==
    ASSUME NEW w, SourceItemOK(w)
    PROVE  /\ w.do = "ask" => Len(w.path) = 1 /\ w.path[1] \in RootFiles
           /\ w.do = "root" => Len(w.path) = 1 /\ w.path[1] \in SourceRoots
           /\ w.do = "enter" => /\ Entered(w.path) /\ Len(w.path) \in 1..(WalkDepth + 1)
                                /\ w.path[1] \in SourceRoots
                                /\ \A k \in 2..Len(w.path) : w.path[k] \notin Skipped
           /\ w.do \in EntryKinds => /\ Len(w.path) \in 2..(WalkDepth + 2) /\ w.path[1] \in SourceRoots
                                     /\ \A k \in 2..(Len(w.path) - 1) : w.path[k] \notin Skipped
                                     /\ w.path \in touched \/ Walks!Is(w.path, {w.do})
BY DEF SourceItemOK, EntryKinds

LEMMA SourcePush ==
    ASSUME WalkTypes, SourceInv, work # <<>>, UNCHANGED <<tree, request, reply, touched>>,
           NEW items \in Seq(Items), work' = items \o Tail(work),
           \A i \in 1..Len(items) : SourceItemOK(items[i]) /\ items[i].do # "ask",
           items = <<>> \/ Head(work).do # "ask",
           reply.status = "none",
           \/ found' = found
           \/ /\ found' = Append(found, Head(work).path)
              /\ \/ Head(work).path \in touched
                 \/ /\ Head(work).path \in DOMAIN tree
                    /\ Walks!IsRootFile(Head(work).path) \/ Walks!IsSource(Head(work).path)
              /\ \/ Head(work).do = "ask"
                 \/ /\ Len(found) < CandidateLimit /\ Head(work).do \in EntryKinds
                    /\ Head(work).path \notin Walks!ToSet(found),
           \A q \in Walks!Steady : Walks!IsRootFile(q) /\ Head(work).do = "ask" /\ q = Head(work).path =>
              found' = Append(found, Head(work).path),
           \A q \in Walks!Steady : Walks!IsSource(q) /\ Covers(Head(work), q) =>
              \/ q = Head(work).path /\ found' = Append(found, Head(work).path)
              \/ q \in Walks!ToSet(found)
              \/ \E i \in 1..Len(items) : Covers(items[i], q)
              \/ Len(found) >= CandidateLimit
    PROVE  WalkTypes' /\ SourceInv'
<1> DEFINE h == Head(work)
<1>1. /\ work \in Seq(Items) /\ found \in Seq(Walks!Paths) /\ Walks!IsTree(tree)
      /\ touched \subseteq Walks!Paths
  BY DEF WalkTypes
<1>2. /\ work' \in Seq(Items) /\ h \in Items /\ h = work[1] /\ 1 \in DOMAIN work
      /\ \A i \in 1..Len(items) : i \in DOMAIN work' /\ work'[i] = items[i]
      /\ \A i \in 2..Len(work) : Len(items) + i - 1 \in DOMAIN work' /\ work'[Len(items) + i - 1] = work[i]
      /\ \A j \in DOMAIN work' : j \notin 1..Len(items) =>
            j - Len(items) + 1 \in 2..Len(work) /\ work'[j] = work[j - Len(items) + 1]
      /\ Len(items) \in Nat /\ Len(work) \in Nat /\ DOMAIN work = 1..Len(work)
      /\ DOMAIN work' = 1..(Len(items) + Len(work) - 1)
  BY <1>1, Pushed, SMTT(60)
<1>3. \A i \in DOMAIN found : found[i] \in Walks!Paths
  BY <1>1
<1>4. SourceItemOK(h)
  BY <1>2 DEF SourceInv
<1>5. /\ h.do = "ask" => Len(h.path) = 1
      /\ h.do \in EntryKinds => Len(h.path) \in 2..(WalkDepth + 2)
  BY <1>4, SourceItemIs
<1>6. found' # found => h.path \in Walks!Paths
  BY <1>1 DEF Walks!IsTree
<1> HIDE DEF h
<1>7. /\ found' \in Seq(Walks!Paths)
      /\ \A i \in DOMAIN found' :
            \/ i \in DOMAIN found /\ found'[i] = found[i]
            \/ i = Len(found) + 1 /\ found'[i] = h.path /\ found' # found
      /\ \A i \in DOMAIN found : i \in DOMAIN found' /\ found'[i] = found[i]
      /\ Len(found) \in Nat /\ DOMAIN found = 1..Len(found) /\ Len(found') \in Nat
      /\ Len(found') >= Len(found)
  <2>1. Len(found) \in Nat /\ DOMAIN found = 1..Len(found)
    BY <1>1
  <2>2. CASE found' = found
    <3>1. \A n \in Nat : n >= n
      OBVIOUS
    <3> QED
      BY <1>1, <2>1, <2>2, <3>1
  <2>3. CASE found' # found
    <3>1. h.path \in Walks!Paths /\ found' = Append(found, h.path)
      BY <1>6, <2>3 DEF h
    <3>2. Len(found') = Len(found) + 1
      BY <1>1, <3>1
    <3>3. Len(found') \in Nat /\ Len(found') >= Len(found)
      BY <2>1, <3>2
    <3> QED
      BY <1>1, <2>3, <3>1, <3>3, Appended
  <2> QED
    BY <2>2, <2>3
<1>8. WalkTypes'
  BY <1>2, <1>7 DEF WalkTypes, Walks!IsTree, Walks!Steady, Within
<1>9. \A k \in 2..Len(work) :
          /\ k \in DOMAIN work /\ SourceItemOK(work[k])
          /\ work[k].do = "ask" => h.do = "ask" /\ h.path # work[k].path
  <2>1. \A k \in 2..Len(work) : k \in DOMAIN work /\ 1 < k
    BY <1>2
  <2> QED
    BY <1>2, <2>1 DEF SourceInv
<1>10. ASSUME NEW i \in DOMAIN work'
       PROVE  /\ SourceItemOK(work'[i])
              /\ work'[i].do = "ask" =>
                   i \notin 1..Len(items) /\ h.do = "ask" /\ h.path # work'[i].path /\ items = <<>>
  <2>1. CASE i \in 1..Len(items)
    BY <1>2, <2>1
  <2>2. CASE i \notin 1..Len(items)
    <3>1. i - Len(items) + 1 \in 2..Len(work) /\ work'[i] = work[i - Len(items) + 1]
      BY <1>2, <1>10, <2>2
    <3> QED
      BY <1>9, <2>2, <3>1 DEF h
  <2> QED
    BY <2>1, <2>2
<1>11. \A i \in DOMAIN work' : SourceItemOK(work[i])'
  BY <1>10 DEF SourceItemOK, Entered, Walks!IsDir, Walks!Is
<1>12. \A i \in DOMAIN found' :
          found'[i] \in touched'
            \/ (found'[i] \in DOMAIN tree' /\ (Walks!IsRootFile(found[i])' \/ Walks!IsSource(found[i])'))
  <2>1. \A i \in DOMAIN found' :
          found'[i] \in touched
            \/ (found'[i] \in DOMAIN tree /\ (Walks!IsRootFile(found'[i]) \/ Walks!IsSource(found'[i])))
    BY <1>7 DEF SourceInv, h
  <2> QED
    BY <2>1 DEF Walks!IsRootFile, Walks!IsSource, Walks!Files
<1>13. ASSUME found' # found, NEW i \in DOMAIN found
       PROVE  found[i] # h.path /\ (h.do = "ask" => Len(found[i]) = 1)
  <2>1. CASE h.do = "ask"
    BY <1>2, <2>1 DEF SourceInv
  <2>2. CASE h.do # "ask"
    BY <1>13, <2>2 DEF Walks!ToSet, h
  <2> QED
    BY <2>1, <2>2
<1>14. found' # found => (h.do = "ask" /\ Len(h.path) = 1) \/ (Len(h.path) # 1 /\ Len(found) < CandidateLimit)
  <2>1. h.do \in EntryKinds => Len(h.path) # 1
    <3>1. \A n \in 2..(WalkDepth + 2) : n # 1
      BY WalkBounds
    <3> QED
      BY <1>5, <3>1
  <2> QED
    BY <1>5, <2>1 DEF h
<1>15. ASSUME NEW i \in DOMAIN found', NEW j \in DOMAIN found', i < j
       PROVE  found'[i] # found'[j] /\ (Len(found'[j]) = 1 => Len(found'[i]) = 1)
  <2>1. i \in DOMAIN found /\ found'[i] = found[i]
    BY <1>7, <1>15
  <2>2. CASE j \in DOMAIN found
    BY <1>7, <1>15, <2>1, <2>2 DEF SourceInv
  <2>3. CASE j \notin DOMAIN found
    <3>1. found'[j] = h.path /\ found' # found
      BY <1>7, <2>3
    <3> QED
      BY <1>13, <1>14, <2>1, <3>1
  <2> QED
    BY <2>2, <2>3
<1>16. \A i \in DOMAIN found' : i > CandidateLimit => Len(found'[i]) = 1
  <2>1. TAKE i \in DOMAIN found'
  <2>2. HAVE i > CandidateLimit
  <2>3. CASE i \in DOMAIN found
    BY <1>7, <2>2, <2>3 DEF SourceInv
  <2>4. CASE i \notin DOMAIN found
    <3>1. i = Len(found) + 1 /\ found'[i] = h.path /\ found' # found
      BY <1>7, <2>4
    <3>2. ~(Len(found) < CandidateLimit)
      BY <1>7, <2>2, <3>1, WalkBounds
    <3> QED
      BY <1>14, <3>1, <3>2
  <2> QED
    BY <2>3, <2>4
<1>17. ASSUME NEW i \in DOMAIN work', NEW j \in DOMAIN work', i < j, work'[j].do = "ask"
       PROVE  work'[i].do = "ask" /\ work'[i].path # work'[j].path
  <2>1. items = <<>> /\ Len(items) = 0 /\ i \notin 1..Len(items) /\ j \notin 1..Len(items)
    <3>1. items = <<>>
      BY <1>10, <1>17
    <3> QED
      BY <3>1
  <2>2. /\ i - Len(items) + 1 \in DOMAIN work /\ work'[i] = work[i - Len(items) + 1]
        /\ j - Len(items) + 1 \in DOMAIN work /\ work'[j] = work[j - Len(items) + 1]
        /\ i - Len(items) + 1 < j - Len(items) + 1
    BY <1>2, <1>17, <2>1
  <2>3. \A k, n \in DOMAIN work : k < n /\ work[n].do = "ask" => work[k].do = "ask" /\ work[k].path # work[n].path
    BY DEF SourceInv
  <2> QED
    BY <1>17, <2>2, <2>3
<1>18. ASSUME NEW i \in DOMAIN found', NEW j \in DOMAIN work', work'[j].do = "ask"
       PROVE  Len(found'[i]) = 1 /\ found'[i] # work'[j].path
  <2>1. /\ j - Len(items) + 1 \in 2..Len(work) /\ work'[j] = work[j - Len(items) + 1]
        /\ h.do = "ask" /\ h.path # work'[j].path
    BY <1>2, <1>10, <1>18
  <2>2. CASE i \in DOMAIN found
    BY <1>7, <1>9, <1>18, <2>1, <2>2 DEF SourceInv
  <2>3. CASE i \notin DOMAIN found
    BY <1>5, <1>7, <2>1, <2>3
  <2> QED
    BY <2>2, <2>3
<1>19. \A q : q \in Walks!ToSet(found) => q \in Walks!ToSet(found')
  BY <1>7 DEF Walks!ToSet
<1>20. ASSUME NEW q \in Walks!Steady, q = h.path, found' = Append(found, h.path)
       PROVE  q \in Walks!ToSet(found')
  <2>1. h.path \in Walks!Paths
    BY <1>20, SteadyIs
  <2>2. Len(found) + 1 \in DOMAIN found' /\ found'[Len(found) + 1] = h.path
    BY <1>1, <1>20, <2>1, Appended
  <2> QED
    BY <1>20, <2>2 DEF Walks!ToSet
<1>21. ASSUME NEW i \in DOMAIN work, i # 1 PROVE \E j \in DOMAIN work' : work'[j] = work[i]
  <2>1. i \in 2..Len(work)
    BY <1>2, <1>21
  <2> QED
    BY <1>2, <2>1
<1>22. ASSUME NEW q \in Walks!Steady, Walks!IsRootFile(q)
       PROVE  \/ q \in Walks!ToSet(found')
              \/ \E i \in DOMAIN work' : work'[i].do = "ask" /\ work'[i].path = q
  <2>1. CASE q \in Walks!ToSet(found)
    BY <1>19, <2>1
  <2>2. ASSUME NEW i \in DOMAIN work, work[i].do = "ask", work[i].path = q, i # 1
        PROVE  \E j \in DOMAIN work' : work'[j].do = "ask" /\ work'[j].path = q
    BY <1>21, <2>2
  <2>3. CASE h.do = "ask" /\ h.path = q
    BY <1>20, <1>22, <2>3 DEF h
  <2>4. q \in Walks!ToSet(found) \/ \E i \in DOMAIN work : work[i].do = "ask" /\ work[i].path = q
    BY <1>22 DEF SourceInv
  <2> QED
    BY <1>2, <2>1, <2>2, <2>3, <2>4
<1>23. ASSUME NEW q \in Walks!Steady, Walks!IsSource(q)
       PROVE  \/ q \in Walks!ToSet(found') \/ \E i \in DOMAIN work' : Covers(work'[i], q)
              \/ Len(found') >= CandidateLimit
  <2>1. CASE q \in Walks!ToSet(found)
    BY <1>19, <2>1
  <2>2. CASE Len(found) >= CandidateLimit
    BY <1>7, <2>2, WalkBounds
  <2>3. ASSUME NEW i \in DOMAIN work, Covers(work[i], q), i # 1
        PROVE  \E j \in DOMAIN work' : Covers(work'[j], q)
    BY <1>21, <2>3
  <2>4. CASE Covers(h, q)
    <3>1. CASE q = h.path /\ found' = Append(found, h.path)
      BY <1>20, <3>1
    <3>2. CASE \E i \in 1..Len(items) : Covers(items[i], q)
      BY <1>2, <3>2
    <3> QED
      BY <1>23, <2>1, <2>2, <2>4, <3>1, <3>2 DEF h
  <2>5. \/ q \in Walks!ToSet(found) \/ \E i \in DOMAIN work : Covers(work[i], q)
        \/ Len(found) >= CandidateLimit
    BY <1>23 DEF SourceInv, Covered
  <2> QED
    BY <1>2, <2>1, <2>2, <2>3, <2>4, <2>5
<1>24. /\ \A q \in Walks!Steady' : Walks!IsRootFile(q)' =>
            \/ q \in Walks!ToSet(found)'
            \/ \E i \in DOMAIN work' : work'[i].do = "ask" /\ work'[i].path = q
       /\ \A q \in Walks!Steady' : Walks!IsSource(q)' =>
            q \in Walks!ToSet(found)' \/ Covered(q)' \/ Len(found') >= CandidateLimit
  BY <1>22, <1>23 DEF Walks!Steady, Walks!IsRootFile, Walks!IsSource, Walks!Files, Walks!ToSet, Covered
<1>25. /\ \A i, j \in DOMAIN found' :
            i < j => found'[i] # found'[j] /\ (Len(found'[j]) = 1 => Len(found'[i]) = 1)
       /\ \A i, j \in DOMAIN work' : i < j /\ work'[j].do = "ask" =>
            work'[i].do = "ask" /\ work'[i].path # work'[j].path
       /\ \A i \in DOMAIN found', j \in DOMAIN work' : work'[j].do = "ask" =>
            Len(found'[i]) = 1 /\ found'[i] # work'[j].path
  BY <1>15, <1>17, <1>18
<1> QED
  BY <1>8, <1>11, <1>12, <1>16, <1>24, <1>25 DEF SourceInv

LEMMA SourceSkips ==
    ASSUME WalkTypes, SourceInv, reply.status = "none", work # <<>>, Walks!Skip,
           \A q \in Walks!Steady : Walks!IsRootFile(q) /\ Head(work).do = "ask" => q # Head(work).path,
           \A q \in Walks!Steady : Walks!IsSource(q) /\ Covers(Head(work), q) =>
              q \in Walks!ToSet(found) \/ Len(found) >= CandidateLimit
    PROVE  WalkTypes' /\ SourceInv'
<1> DEFINE items == <<>>
<1>1. /\ work' = items \o Tail(work) /\ found' = found /\ UNCHANGED <<tree, request, reply, touched>>
      /\ items = <<>>
  BY DEF Walks!Skip, Walks!Continue
<1>2. items \in Seq(Items) /\ \A i \in 1..Len(items) : FALSE
  OBVIOUS
<1> HIDE DEF items
<1> QED
  BY <1>1, <1>2, SourcePush

LEMMA SourceAdds ==
    ASSUME WalkTypes, SourceInv, reply.status = "none", work # <<>>, Walks!Add(<<>>),
           \/ Head(work).path \in touched
           \/ /\ Head(work).path \in DOMAIN tree
              /\ Walks!IsRootFile(Head(work).path) \/ Walks!IsSource(Head(work).path),
           \/ Head(work).do = "ask"
           \/ /\ Len(found) < CandidateLimit /\ Head(work).do = "match"
              /\ Head(work).path \notin Walks!ToSet(found)
    PROVE  WalkTypes' /\ SourceInv'
<1> DEFINE items == <<>>
<1>1. /\ work' = items \o Tail(work) /\ found' = Append(found, Head(work).path)
      /\ UNCHANGED <<tree, request, reply, touched>> /\ items = <<>>
  BY DEF Walks!Add, Walks!Continue, Walks!Here
<1>2. items \in Seq(Items) /\ \A i \in 1..Len(items) : FALSE
  OBVIOUS
<1>3. \A q : Covers(Head(work), q) => q = Head(work).path
  BY DEF Covers
<1>4. Head(work).do = "match" => Head(work).do \in EntryKinds
  BY DEF EntryKinds
<1> HIDE DEF items
<1> QED
  BY <1>1, <1>2, <1>3, <1>4, SourcePush

LEMMA SourceInstead ==
    ASSUME WalkTypes, SourceInv, reply.status = "none", work # <<>>, Walks!Instead("enter"),
           Head(work).do # "ask", SourceItemOK(Walks!Item(Head(work).path, "enter")),
           \A q \in Walks!Steady : Walks!IsSource(q) /\ Covers(Head(work), q) =>
              Len(Head(work).path) < Len(q)
    PROVE  WalkTypes' /\ SourceInv'
<1> DEFINE item == Walks!Item(Head(work).path, "enter")
           items == <<item>>
<1>1. work' = items \o Tail(work) /\ found' = found /\ UNCHANGED <<tree, request, reply, touched>>
  BY DEF Walks!Instead, Walks!Continue, Walks!Here
<1>2. item \in Items /\ item.path = Head(work).path /\ item.do = "enter"
  BY HeadIs DEF Walks!Item, Items
<1>3. SourceItemOK(item)
  OBVIOUS
<1> HIDE DEF item
<1>4. items \in Seq(Items) /\ Len(items) = 1 /\ items[1] = item
  BY <1>2
<1> HIDE DEF items
<1>5. \A i \in 1..Len(items) : i = 1
  BY <1>4
<1>6. \A i \in 1..Len(items) : SourceItemOK(items[i]) /\ items[i].do # "ask"
  BY <1>2, <1>3, <1>4, <1>5
<1>7. \A q \in Walks!Steady : Walks!IsSource(q) /\ Covers(Head(work), q) =>
          \E i \in 1..Len(items) : Covers(items[i], q)
  <2>1. 1 \in 1..Len(items)
    BY <1>4
  <2>2. \A q \in Walks!Steady : Walks!IsSource(q) /\ Covers(Head(work), q) => Covers(item, q)
    BY <1>2 DEF Covers
  <2> QED
    BY <1>4, <2>1, <2>2
<1> QED
  BY <1>1, <1>4, <1>6, <1>7, SourcePush

LEMMA SourceEnters ==
    ASSUME WalkTypes, SourceInv, request.tool = "project_files", Walks!Enter
    PROVE  WalkTypes' /\ SourceInv'
<1> DEFINE h == Head(work)
<1>1. /\ work # <<>> /\ h.do = "enter" /\ reply.status = "none" /\ found' = found
  BY DEF Walks!Enter, Walks!Busy, Walks!NoReply
<1>2. /\ h = work[1] /\ 1 \in DOMAIN work /\ h.path \in Seq(Nat) /\ Len(h.path) \in Nat
      /\ h.path \in Walks!Paths \cup {Walks!Root}
  BY <1>1, HeadIs
<1>3. /\ Len(h.path) \in 1..(WalkDepth + 1) /\ h.path[1] \in SourceRoots
      /\ \A k \in 2..Len(h.path) : h.path[k] \notin Skipped
  <2>1. SourceItemOK(h)
    BY <1>2 DEF SourceInv
  <2> QED
    BY <1>1, <2>1, SourceItemIs
<1>4. \A q : Covers(h, q) => Within(h.path, q) /\ Len(h.path) < Len(q)
  BY <1>1 DEF Covers
<1>5. ASSUME NEW s \in Walks!Listings(h.path), Walks!Continue(Walks!Entries(s))
      PROVE  WalkTypes' /\ SourceInv'
  <2> DEFINE items == Walks!Entries(s)
  <2>1. work' = items \o Tail(work) /\ UNCHANGED <<tree, request, reply, touched>>
    BY <1>5 DEF Walks!Continue
  <2>2. /\ items \in Seq(Items)
        /\ \A i \in 1..Len(items) :
              items[i].path \in Walks!Children(h.path) /\ items[i].do = tree[items[i].path]
    BY <1>2, <1>5, EntriesAre
  <2>3. ASSUME NEW w, w.path \in Walks!Children(h.path), w.do = tree[w.path]
        PROVE  SourceItemOK(w) /\ w.do # "ask"
    <3>1. /\ w.path \in DOMAIN tree /\ w.path \in Seq(Nat) /\ w.do \in EntryKinds
          /\ Within(h.path, w.path) /\ Len(w.path) = Len(h.path) + 1
      BY <1>2, <2>3, ChildIs DEF WalkTypes
    <3>2. /\ Len(w.path) \in 2..(WalkDepth + 2) /\ Len(w.path) - 1 = Len(h.path)
          /\ 1 \in 1..Len(h.path) /\ \A k \in 2..Len(h.path) : k \in 1..Len(h.path)
      BY <1>2, <1>3, <3>1, WalkBounds
    <3>3. w.path[1] \in SourceRoots /\ \A k \in 2..(Len(w.path) - 1) : w.path[k] \notin Skipped
      BY <1>3, <3>1, <3>2 DEF Within
    <3>4. Walks!Is(w.path, {w.do})
      BY <2>3, <3>1 DEF Walks!Is
    <3> QED
      BY <3>1, <3>2, <3>3, <3>4 DEF SourceItemOK, EntryKinds
  <2>4. ASSUME NEW q \in Walks!Steady, Covers(h, q)
        PROVE  \E i \in 1..Len(items) : Covers(items[i], q)
    BY <1>1, <1>5, <2>4, EntriesCover
  <2> HIDE DEF items
  <2> QED
    BY <1>1, <2>1, <2>2, <2>3, <2>4, SourcePush
<1>6. ASSUME ~Walks!IsDir(h.path), Walks!Skip
      PROVE  WalkTypes' /\ SourceInv'
  <2>1. \A q \in Walks!Steady : ~Covers(h, q)
    BY <1>2, <1>4, <1>6, SteadyAbove DEF WalkTypes
  <2> QED
    BY <1>1, <1>6, <2>1, SourceSkips
<1> QED
  BY <1>1, <1>5, <1>6 DEF Walks!Enter, Walks!Here

LEMMA SourceAsks ==
    ASSUME WalkTypes, SourceInv, Walks!Ask
    PROVE  WalkTypes' /\ SourceInv'
<1> DEFINE h == Head(work)
<1>1. work # <<>> /\ h.do = "ask" /\ reply.status = "none"
  BY DEF Walks!Ask, Walks!Now, Walks!Busy, Walks!NoReply
<1>2. h = work[1] /\ 1 \in DOMAIN work
  BY <1>1, HeadIs
<1>3. Len(h.path) = 1 /\ h.path[1] \in RootFiles
  <2>1. SourceItemOK(h)
    BY <1>2 DEF SourceInv
  <2> QED
    BY <1>1, <2>1, SourceItemIs
<1>4. CASE Walks!Is(h.path, Walks!Files) /\ Walks!Add(<<>>)
  <2>1. h.path \in DOMAIN tree /\ Walks!IsRootFile(h.path)
    BY <1>3, <1>4 DEF Walks!Is, Walks!IsRootFile
  <2> QED
    BY <1>1, <1>4, <2>1, SourceAdds
<1>5. CASE ~Walks!Is(h.path, Walks!Files) /\ Walks!Skip
  <2>1. \A q \in Walks!Steady : Walks!IsRootFile(q) => q # h.path
    BY <1>5 DEF Walks!Is, Walks!IsRootFile, Walks!Steady
  <2>2. ASSUME NEW q \in Walks!Steady, Walks!IsSource(q), Covers(h, q) PROVE FALSE
    <3>1. q = h.path /\ Len(q) \in 2..(WalkDepth + 2)
      BY <1>1, <2>2 DEF Covers, Walks!IsSource
    <3>2. \A n \in 2..(WalkDepth + 2) : n # 1
      BY WalkBounds
    <3> QED
      BY <1>3, <3>1, <3>2
  <2> QED
    BY <1>1, <1>5, <2>1, <2>2, SourceSkips
<1> QED
  BY <1>4, <1>5 DEF Walks!Ask, Walks!Here

LEMMA SourceOpens ==
    ASSUME WalkTypes, SourceInv, Walks!SourceRoot
    PROVE  WalkTypes' /\ SourceInv'
<1> DEFINE h == Head(work)
<1>1. work # <<>> /\ h.do = "root" /\ reply.status = "none"
  BY DEF Walks!SourceRoot, Walks!Now, Walks!Busy, Walks!NoReply
<1>2. h = work[1] /\ 1 \in DOMAIN work /\ h.path \in Walks!Paths \cup {Walks!Root}
  BY <1>1, HeadIs
<1>3. Len(h.path) = 1 /\ h.path[1] \in SourceRoots
  <2>1. SourceItemOK(h)
    BY <1>2 DEF SourceInv
  <2> QED
    BY <1>1, <2>1, SourceItemIs
<1>4. \A q : Covers(h, q) => Within(h.path, q) /\ Len(h.path) < Len(q)
  BY <1>1 DEF Covers
<1>5. CASE Walks!IsDir(h.path) /\ Walks!Instead("enter")
  <2>1. /\ Walks!Item(h.path, "enter").path = h.path /\ Walks!Item(h.path, "enter").do = "enter"
    BY DEF Walks!Item
  <2>2. Len(h.path) \in 1..(WalkDepth + 1) /\ \A k \in 2..Len(h.path) : FALSE
    <3>1. 1 \in 1..(WalkDepth + 1) /\ \A k \in 2..1 : FALSE
      BY WalkBounds
    <3> QED
      BY <1>3, <3>1
  <2>3. SourceItemOK(Walks!Item(h.path, "enter"))
    BY <1>3, <1>5, <2>1, <2>2 DEF SourceItemOK, Entered
  <2> QED
    BY <1>1, <1>4, <1>5, <2>3, SourceInstead
<1>6. CASE ~(Walks!IsDir(h.path) /\ Len(found) < CandidateLimit) /\ Walks!Skip
  <2>1. Len(found) \in Nat
    BY DEF WalkTypes
  <2>2. ~(Len(found) < CandidateLimit) => Len(found) >= CandidateLimit
    BY <2>1, WalkBounds
  <2>3. \A q \in Walks!Steady : Covers(h, q) => Walks!IsDir(h.path)
    BY <1>2, <1>4, SteadyAbove DEF WalkTypes
  <2> QED
    BY <1>1, <1>6, <2>2, <2>3, SourceSkips
<1> QED
  BY <1>5, <1>6 DEF Walks!SourceRoot, Walks!Here

LEMMA SourceLists ==
    ASSUME WalkTypes, SourceInv, Walks!SourceEntry
    PROVE  WalkTypes' /\ SourceInv'
<1> DEFINE h == Head(work)
           in == h.do = "dir" /\ Walks!Last(h.path) \notin Skipped /\ Len(h.path) - 2 < WalkDepth
<1>1. work # <<>> /\ h.do \in EntryKinds /\ reply.status = "none"
  BY DEF Walks!SourceEntry, Walks!Now, Walks!Busy, Walks!NoReply, Walks!Kinds, EntryKinds
<1>2. /\ h = work[1] /\ 1 \in DOMAIN work /\ h.path \in Seq(Nat) /\ Len(h.path) \in Nat /\ h \in Items
      /\ h.path \in Walks!Paths \cup {Walks!Root}
  BY <1>1, HeadIs
<1>3. /\ Len(h.path) \in 2..(WalkDepth + 2) /\ h.path[1] \in SourceRoots
      /\ \A k \in 2..(Len(h.path) - 1) : h.path[k] \notin Skipped
      /\ h.path \in touched \/ Walks!Is(h.path, {h.do})
  <2>1. SourceItemOK(h)
    BY <1>2 DEF SourceInv
  <2> QED
    BY <1>1, <2>1, SourceItemIs
<1>4. h.do # "ask" /\ Len(found) \in Nat
  BY <1>1 DEF EntryKinds, WalkTypes
<1>5. ASSUME NEW q \in Walks!Steady, Walks!IsSource(q), Covers(h, q)
      PROVE  \/ h.do = "match" /\ q = h.path
             \/ in /\ Len(h.path) < Len(q)
  <2>1. /\ q \in Seq(Nat) /\ Len(q) \in Nat /\ Within(h.path, q) /\ Len(q) <= WalkDepth + 2
        /\ q \in DOMAIN tree /\ q \notin touched /\ tree[q] = "match"
        /\ \A k \in 2..(Len(q) - 1) : q[k] \notin Skipped
    BY <1>5, SteadyIs, WalkBounds DEF Covers, Walks!IsSource, Walks!Steady
  <2>2. CASE q = h.path
    BY <1>3, <2>1, <2>2 DEF Walks!Is
  <2>3. CASE q # h.path
    <3>1. h.do = "dir"
      BY <1>1, <1>5, <2>3 DEF EntryKinds, Covers
    <3>2. Len(h.path) = Len(q) => h.path = q
      BY <1>2, <2>1, SeqEqual DEF Within
    <3>3. Len(h.path) < Len(q) /\ Len(h.path) \in 2..(Len(q) - 1) /\ Len(h.path) \in 1..Len(h.path)
      BY <1>2, <1>3, <2>1, <2>3, <3>2 DEF Within
    <3>4. Walks!Last(h.path) \notin Skipped
      BY <2>1, <3>3 DEF Within, Walks!Last
    <3>5. Len(h.path) - 2 < WalkDepth
      <4> HIDE DEF h
      <4> QED
        BY <1>2, <2>1, <3>3, WalkBounds
    <3> QED
      BY <3>1, <3>3, <3>4, <3>5
  <2> QED
    BY <2>2, <2>3
<1>6. CASE Len(found) >= CandidateLimit /\ Walks!Skip
  BY <1>1, <1>4, <1>6, SourceSkips
<1>7. CASE in /\ Walks!Instead("enter")
  <2>1. /\ Walks!Item(h.path, "enter").path = h.path /\ Walks!Item(h.path, "enter").do = "enter"
    BY DEF Walks!Item
  <2>2. Len(h.path) \in 1..(WalkDepth + 1) /\ \A k \in 2..Len(h.path) : k \in 2..(Len(h.path) - 1) \/ k = Len(h.path)
    <3>1. Len(h.path) - 2 < WalkDepth
      BY <1>7
    <3> HIDE DEF h
    <3> QED
      BY <1>2, <1>3, <3>1, WalkBounds
  <2>3. \A k \in 2..Len(h.path) : h.path[k] \notin Skipped
    BY <1>3, <1>7, <2>2 DEF Walks!Last
  <2>4. Entered(h.path)
    BY <1>3, <1>7 DEF Entered, Walks!IsDir, Walks!Is
  <2>5. SourceItemOK(Walks!Item(h.path, "enter"))
    BY <1>3, <2>1, <2>2, <2>3, <2>4 DEF SourceItemOK
  <2>6. \A q \in Walks!Steady : Walks!IsSource(q) /\ Covers(h, q) => Len(h.path) < Len(q)
    BY <1>5, <1>7
  <2> QED
    BY <1>1, <1>4, <1>7, <2>5, <2>6, SourceInstead
<1>8. CASE /\ Len(found) < CandidateLimit /\ h.do = "match" /\ h.path \notin Walks!ToSet(found)
           /\ Walks!Add(<<>>)
  <2>1. h.path \in touched \/ (h.path \in DOMAIN tree /\ Walks!IsSource(h.path))
    BY <1>3, <1>8 DEF Walks!Is, Walks!IsSource
  <2> QED
    BY <1>1, <1>8, <2>1, SourceAdds
<1>9. CASE ~in /\ ~(h.do = "match" /\ h.path \notin Walks!ToSet(found)) /\ Walks!Skip
  <2>1. \A q \in Walks!Steady : Walks!IsSource(q) /\ Covers(h, q) => q \in Walks!ToSet(found)
    BY <1>5, <1>9
  <2> QED
    BY <1>1, <1>4, <1>9, <2>1, SourceSkips
<1>10. \/ Len(found) >= CandidateLimit /\ Walks!Skip
       \/ in /\ Walks!Instead("enter")
       \/ Len(found) < CandidateLimit /\ h.do = "match" /\ h.path \notin Walks!ToSet(found) /\ Walks!Add(<<>>)
       \/ ~in /\ ~(h.do = "match" /\ h.path \notin Walks!ToSet(found)) /\ Walks!Skip
  <2>1. Len(found) >= CandidateLimit \/ Len(found) < CandidateLimit
    BY <1>4, WalkBounds
  <2> QED
    BY <2>1 DEF Walks!SourceEntry, Walks!Here
<1> QED
  BY <1>6, <1>7, <1>8, <1>9, <1>10

LEMMA SourceFinishes ==
    ASSUME WalkTypes, SourceInv, request.tool = "project_files", Walks!Finish
    PROVE  WalkTypes' /\ SourceInv'
<1>1. /\ work = <<>> /\ work' = <<>> /\ UNCHANGED <<tree, request, found, touched>>
      /\ reply'.status = "ok"
  BY DEF Walks!Finish, Walks!Full, Walks!NoReply
<1>2. WalkTypes'
  BY <1>1 DEF WalkTypes, Walks!IsTree, Walks!Steady, Within
<1>3. DOMAIN <<>> = {}
  OBVIOUS
<1>4. \A i \in DOMAIN found' :
          found'[i] \in touched'
            \/ (found'[i] \in DOMAIN tree' /\ (Walks!IsRootFile(found[i])' \/ Walks!IsSource(found[i])'))
  BY <1>1 DEF SourceInv, Walks!IsRootFile, Walks!IsSource, Walks!Files
<1>5. /\ \A q \in Walks!Steady' : Walks!IsRootFile(q)' => q \in Walks!ToSet(found)'
      /\ \A q \in Walks!Steady' : Walks!IsSource(q)' =>
            q \in Walks!ToSet(found)' \/ Len(found') >= CandidateLimit
  BY <1>1, <1>3
  DEF SourceInv, Covered, Walks!Steady, Walks!IsRootFile, Walks!IsSource, Walks!Files, Walks!ToSet
<1> QED
  BY <1>1, <1>2, <1>3, <1>4, <1>5 DEF SourceInv

LEMMA SourceChanges ==
    ASSUME WalkTypes, SourceInv, NEW p \in Walks!Paths, Walks!Change(p)
    PROVE  SourceInv'
<1>1. /\ UNCHANGED <<request, work, found, reply>> /\ reply.status = "none" /\ touched \subseteq touched'
      /\ Walks!Steady' \subseteq Walks!Steady
      /\ \A q : q \notin touched' =>
            (q \in DOMAIN tree' <=> q \in DOMAIN tree) /\ (q \in DOMAIN tree => tree'[q] = tree[q])
  BY ChangeKeeps DEF Walks!NoReply
<1>2. \A i \in DOMAIN work' : SourceItemOK(work[i])'
  <2>1. ASSUME NEW w, SourceItemOK(w) PROVE SourceItemOK(w)'
    <3>1. /\ Entered(w.path) => Entered(w.path)'
          /\ (w.path \in touched \/ Walks!Is(w.path, {w.do}))
                => w.path \in touched' \/ Walks!Is(w.path, {w.do})'
      BY StillThere
    <3> QED
      BY <1>1, <2>1, <3>1 DEF SourceItemOK
  <2>2. \A i \in DOMAIN work' : SourceItemOK(work[i])
    BY <1>1 DEF SourceInv
  <2> QED
    BY <1>1, <2>1, <2>2 DEF SourceItemOK, Entered, Walks!IsDir, Walks!Is
<1>3. \A f : f \notin touched' /\ f \in DOMAIN tree =>
          Walks!IsRootFile(f)' = Walks!IsRootFile(f) /\ Walks!IsSource(f)' = Walks!IsSource(f)
  BY <1>1 DEF Walks!IsRootFile, Walks!IsSource, Walks!Files
<1>4. \A i \in DOMAIN found' :
          found'[i] \in touched'
            \/ (found'[i] \in DOMAIN tree' /\ (Walks!IsRootFile(found[i])' \/ Walks!IsSource(found[i])'))
  <2>1. ASSUME NEW f,
               f \in touched \/ (f \in DOMAIN tree /\ (Walks!IsRootFile(f) \/ Walks!IsSource(f)))
        PROVE  f \in touched' \/ (f \in DOMAIN tree' /\ (Walks!IsRootFile(f)' \/ Walks!IsSource(f)'))
    BY <1>1, <1>3, <2>1
  <2>2. \A i \in DOMAIN found' :
          found[i] \in touched
            \/ (found[i] \in DOMAIN tree /\ (Walks!IsRootFile(found[i]) \/ Walks!IsSource(found[i])))
    BY <1>1 DEF SourceInv
  <2> QED
    BY <1>1, <2>1, <2>2 DEF Walks!IsRootFile, Walks!IsSource, Walks!Files
<1>5. /\ \A q \in Walks!Steady' : Walks!IsRootFile(q)' =>
            \/ q \in Walks!ToSet(found)'
            \/ \E i \in DOMAIN work' : work'[i].do = "ask" /\ work'[i].path = q
      /\ \A q \in Walks!Steady' : Walks!IsSource(q)' =>
            q \in Walks!ToSet(found)' \/ Covered(q)' \/ Len(found') >= CandidateLimit
  <2>1. \A q \in Walks!Steady' : /\ q \in Walks!Steady /\ Walks!IsRootFile(q)' = Walks!IsRootFile(q)
                                 /\ Walks!IsSource(q)' = Walks!IsSource(q)
    BY <1>1, <1>3 DEF Walks!Steady
  <2>2. \A q : Covered(q)' = Covered(q) /\ Walks!ToSet(found)' = Walks!ToSet(found)
    BY <1>1 DEF Covered, Walks!ToSet
  <2> QED
    BY <1>1, <2>1, <2>2 DEF SourceInv
<1> QED
  BY <1>1, <1>2, <1>4, <1>5 DEF SourceInv

-----------------------------------------------------------------------------
(* Walks: calls begin.                                                      *)

LEMMA WalkBegins == Walks!Init => WalkInv
<1> SUFFICES ASSUME Walks!Init PROVE WalkInv
  OBVIOUS
<1>1. /\ Walks!IsTree(tree) /\ request = Walks!NoCall /\ work = <<>> /\ found = <<>>
      /\ reply = Walks!NoReply /\ touched = {}
  BY DEF Walks!Init, Walks!Trees
<1>2. /\ request.tool = "none" /\ reply.status = "none"
      /\ request \in [tool : {"none", "list_tree", "search_files", "project_files", "read_file"},
                      at : Seq(Nat), depth : Nat, chars : Nat, bytes : Nat]
  <2>1. <<>> \in Seq(Nat)
    OBVIOUS
  <2> QED
    BY <1>1, <2>1 DEF Walks!NoCall, Walks!NoReply, Walks!Root
<1>3. work \in Seq(Items) /\ found \in Seq(Walks!Paths)
  BY <1>1
<1> QED
  BY <1>1, <1>2, <1>3 DEF WalkInv, WalkTypes, Unbegun, ReadInv

LEMMA NothingBegun ==
    ASSUME WalkInv, request = Walks!NoCall
    PROVE  /\ Walks!IsTree(tree) /\ work = <<>> /\ found = <<>> /\ reply = Walks!NoReply /\ touched = {}
           /\ reply.status = "none" /\ DOMAIN found = {} /\ Len(found) = 0 /\ Walks!ToSet(found) = {}
<1>1. /\ Walks!IsTree(tree) /\ work = <<>> /\ found = <<>> /\ reply = Walks!NoReply /\ touched = {}
  BY DEF WalkInv, WalkTypes, Unbegun, Walks!NoCall
<1>2. DOMAIN <<>> = {} /\ Len(<<>>) = 0
  OBVIOUS
<1> QED
  BY <1>1, <1>2 DEF Walks!NoReply, Walks!ToSet

\* A call begins with a list of items.
LEMMA CallBegins ==
    ASSUME WalkInv, NEW tool \in {"list_tree", "search_files", "project_files"}, NEW at \in Seq(Nat),
           NEW depth \in Nat, NEW items \in Seq(Items), Walks!Begin(tool, at, depth, items)
    PROVE  /\ WalkTypes' /\ Unbegun' /\ ReadInv' /\ work' = items
           /\ request'.tool = tool /\ request'.at = at /\ request'.depth = depth
           /\ UNCHANGED <<tree, found, reply, touched>> /\ request = Walks!NoCall
<1>1. /\ request = Walks!NoCall /\ work' = items /\ UNCHANGED <<tree, found, reply, touched>>
      /\ request' = [Walks!NoCall EXCEPT !.tool = tool, !.at = at, !.depth = depth]
  BY DEF Walks!Begin
<1>2. /\ request'.tool = tool /\ request'.at = at /\ request'.depth = depth
      /\ request' \in [tool : {"none", "list_tree", "search_files", "project_files", "read_file"},
                       at : Seq(Nat), depth : Nat, chars : Nat, bytes : Nat]
  BY <1>1 DEF Walks!NoCall
<1>3. reply.status = "none" /\ touched = {} /\ WalkTypes
  BY <1>1, NothingBegun DEF WalkInv
<1>4. WalkTypes'
  BY <1>1, <1>2, <1>3 DEF WalkTypes, Walks!IsTree, Walks!Steady, Within
<1> QED
  BY <1>1, <1>2, <1>4 DEF Unbegun, ReadInv

LEMMA OneItem ==
    ASSUME NEW p \in Walks!Paths \cup {Walks!Root}, NEW do \in {"enter", "stat"}
    PROVE  LET items == <<Walks!Item(p, do)>>
           IN  /\ items \in Seq(Items) /\ DOMAIN items = {1} /\ items[1].path = p /\ items[1].do = do
<1>1. Walks!Item(p, do) \in Items /\ Walks!Item(p, do).path = p /\ Walks!Item(p, do).do = do
  BY DEF Walks!Item, Items
<1>2. \A x : Len(<<x>>) = 1 /\ DOMAIN <<x>> = 1..1 /\ 1..1 = {1}
  OBVIOUS
<1> QED
  BY <1>1, <1>2

LEMMA ListBegins ==
    ASSUME WalkInv, NEW at \in Walks!Paths \cup {Walks!Root}, NEW depth \in 1..MaxDepth,
           Walks!ListTree(at, depth)
    PROVE  WalkInv'
<1> DEFINE items == <<Walks!Item(at, "enter")>>
<1>1. at \in Seq(Nat) /\ Len(at) \in Nat /\ depth \in Nat
  BY PathOrRoot
<1>2. items \in Seq(Items) /\ DOMAIN items = {1} /\ items[1].path = at /\ items[1].do = "enter"
  BY OneItem
<1>3. Walks!IsDir(at) /\ Walks!Begin("list_tree", at, depth, items)
  BY DEF Walks!ListTree
<1> HIDE DEF items
<1>4. /\ WalkTypes' /\ Unbegun' /\ ReadInv' /\ work' = items /\ request'.tool = "list_tree"
      /\ request'.at = at /\ request'.depth = depth /\ UNCHANGED <<tree, found, reply, touched>>
      /\ request = Walks!NoCall
  BY <1>1, <1>2, <1>3, CallBegins
<1>5. /\ reply.status = "none" /\ touched = {} /\ DOMAIN found = {} /\ Len(found) = 0
  BY <1>4, NothingBegun
<1>6. Entered(at)'
  BY <1>3, <1>4 DEF Entered, Walks!IsDir, Walks!Is
<1>7. \A i \in DOMAIN work' : ListItemOK(work[i])'
  BY <1>1, <1>2, <1>4, <1>6 DEF ListItemOK, Entered, Walks!IsDir, Walks!Is
<1>8. ASSUME NEW q \in Walks!Steady', Walks!Listable(q)' PROVE Covered(q)'
  <2>1. q \in Seq(Nat) /\ Within(at, q) /\ Len(at) < Len(q)
    <3>1. q \in Seq(Nat)
      BY <1>4, <1>8, SteadyIs DEF Walks!Steady, WalkInv
    <3> QED
      BY <1>1, <1>4, <1>8, <3>1, PrefixIs DEF Walks!Listable, Walks!Below
  <2>2. Covers(work'[1], q) /\ 1 \in DOMAIN work'
    BY <1>2, <1>4, <2>1 DEF Covers
  <2> QED
    BY <2>2 DEF Covered, Covers, Within
<1>9. \A i, j \in DOMAIN work' : ~(i < j)
  BY <1>2, <1>4
<1>10. ListInv'
  BY <1>4, <1>5, <1>7, <1>8, <1>9, WalkBounds DEF ListInv
<1> QED
  BY <1>4, <1>10 DEF WalkInv

LEMMA SearchBegins ==
    ASSUME WalkInv, NEW at \in Walks!Paths \cup {Walks!Root}, Walks!SearchFiles(at)
    PROVE  WalkInv'
<1> DEFINE items == <<Walks!Item(at, "stat")>>
<1>1. at \in Seq(Nat) /\ Len(at) \in Nat /\ 0 \in Nat
  BY PathOrRoot
<1>2. items \in Seq(Items) /\ DOMAIN items = {1} /\ items[1].path = at /\ items[1].do = "stat"
  BY OneItem
<1>3. (at = Walks!Root \/ at \in DOMAIN tree) /\ Walks!Begin("search_files", at, 0, items)
  BY DEF Walks!SearchFiles
<1> HIDE DEF items
<1>4. /\ WalkTypes' /\ Unbegun' /\ ReadInv' /\ work' = items /\ request'.tool = "search_files"
      /\ request'.at = at /\ UNCHANGED <<tree, found, reply, touched>> /\ request = Walks!NoCall
  BY <1>1, <1>2, <1>3, CallBegins
<1>5. /\ reply.status = "none" /\ touched = {} /\ DOMAIN found = {} /\ Len(found) = 0
  BY <1>4, NothingBegun
<1>6. Walks!Searchable(at)'
  <2>1. \A k \in (Len(at) + 1)..Len(at) : FALSE
    BY <1>1
  <2> QED
    BY <1>4, <2>1 DEF Walks!Searchable, Walks!Open
<1>7. \A i \in DOMAIN work' : SearchItemOK(work[i])' /\ work'[i].do # "read"
  BY <1>2, <1>3, <1>4, <1>6
  DEF SearchItemOK, Known, Walks!Root, Walks!Searchable, Walks!Below, Walks!Open
<1>8. ASSUME NEW q \in Walks!Steady', Walks!Searchable(q)' PROVE Covered(q)'
  <2>1. q \in Seq(Nat) /\ Within(at, q)
    <3>1. q \in Seq(Nat)
      BY <1>4, <1>8, SteadyIs DEF Walks!Steady, WalkInv
    <3> QED
      BY <1>1, <1>4, <1>8, <3>1, PrefixIs, WithinSelf DEF Walks!Searchable, Walks!Below
  <2>2. Covers(work'[1], q) /\ 1 \in DOMAIN work'
    BY <1>2, <1>4, <2>1 DEF Covers
  <2> QED
    BY <2>2 DEF Covered, Covers, Within
<1>9. \A i, j \in DOMAIN work' : ~(i < j)
  BY <1>2, <1>4
<1>10. SearchInv'
  BY <1>4, <1>5, <1>7, <1>8, <1>9, WalkBounds DEF SearchInv
<1> QED
  BY <1>4, <1>10 DEF WalkInv

LEMMA AscendingIs ==
    ASSUME NEW S \in SUBSET PathNames, IsFiniteSet(S), NEW s \in Walks!Ascending(S)
    PROVE  /\ s \in Seq(S) /\ S \subseteq Nat /\ Walks!ToSet(s) = S
           /\ \A i, j \in DOMAIN s : i < j => s[i] # s[j]
<1>1. /\ s \in [1..Cardinality(S) -> S] /\ Walks!ToSet(s) = S
      /\ \A i, j \in DOMAIN s : i < j => s[i] < s[j]
  BY DEF Walks!Ascending, Walks!Cardinality, Cardinality
<1>2. Cardinality(S) \in Nat /\ S \subseteq Nat
  BY FS_CardinalityType, WalkBounds
<1>3. s \in Seq(S)
  BY <1>1, <1>2
<1>4. \A m, n \in Nat : m < n => m # n
  OBVIOUS
<1>5. \A i \in DOMAIN s : s[i] \in Nat
  BY <1>1, <1>2
<1> QED
  BY <1>1, <1>2, <1>3, <1>4, <1>5

LEMMA SinglePath ==
    ASSUME NEW n \in PathNames
    PROVE  /\ <<n>> \in Walks!Paths /\ <<n>> \in Seq(Nat) /\ Len(<<n>>) = 1 /\ <<n>>[1] = n
           /\ \A q \in Seq(Nat) : Len(q) >= 1 /\ q[1] = n => Within(<<n>>, q)
           /\ \A q \in Seq(Nat) : Len(q) = 1 /\ q[1] = n => q = <<n>>
<1>1. <<n>> \in [1..1 -> PathNames] /\ 1 \in 1..Depth
  BY WalkBounds
<1>2. <<n>> \in Walks!Paths
  BY <1>1 DEF Walks!Paths
<1>3. <<n>> \in Seq(Nat) /\ Len(<<n>>) = 1 /\ <<n>>[1] = n
  BY WalkBounds
<1>4. \A q \in Seq(Nat) : Len(q) >= 1 /\ q[1] = n => Within(<<n>>, q)
  BY <1>3 DEF Within
<1>5. \A q \in Seq(Nat) : Len(q) = 1 /\ q[1] = n => q = <<n>>
  BY <1>3, SeqEqual
<1> QED
  BY <1>2, <1>3, <1>4, <1>5

LEMMA ItemsOf ==
    ASSUME NEW S \in SUBSET PathNames, NEW s \in Seq(S), NEW do \in {"ask", "root"},
           NEW items, items = [i \in DOMAIN s |-> Walks!Item(<<s[i]>>, do)]
    PROVE  /\ items \in Seq(Items) /\ Len(items) = Len(s) /\ DOMAIN items = DOMAIN s
           /\ \A i \in DOMAIN s : items[i].path = <<s[i]>> /\ items[i].do = do
<1>1. \A i \in DOMAIN s : s[i] \in PathNames
  OBVIOUS
<1>2. \A i \in DOMAIN s : items[i] \in Items /\ items[i].path = <<s[i]>> /\ items[i].do = do
  BY <1>1, SinglePath DEF Walks!Item, Items
<1>3. Len(s) \in Nat /\ DOMAIN s = 1..Len(s) /\ DOMAIN items = DOMAIN s
  OBVIOUS
<1>4. items \in [1..Len(s) -> Items]
  BY <1>2, <1>3
<1>5. items \in Seq(Items) /\ Len(items) = Len(s)
  BY <1>3, <1>4
<1> QED
  BY <1>2, <1>3, <1>5

LEMMA Joined ==
    ASSUME NEW S, NEW a \in Seq(S), NEW b \in Seq(S), NEW c, c = a \o b
    PROVE  /\ c \in Seq(S) /\ Len(c) = Len(a) + Len(b)
           /\ \A i \in 1..Len(a) : c[i] = a[i]
           /\ \A i \in 1..Len(b) : c[Len(a) + i] = b[i]
<1>1. c \in Seq(S) /\ Len(c) = Len(a) + Len(b) /\ Len(a) \in Nat /\ Len(b) \in Nat
  OBVIOUS
<1>2. \A i \in 1..(Len(a) + Len(b)) : c[i] = IF i <= Len(a) THEN a[i] ELSE b[i - Len(a)]
  OBVIOUS
<1>3. \A i \in 1..Len(a) : i \in 1..(Len(a) + Len(b)) /\ i <= Len(a)
  BY <1>1
<1>4. \A i \in 1..Len(b) : /\ Len(a) + i \in 1..(Len(a) + Len(b))
                           /\ ~(Len(a) + i <= Len(a)) /\ Len(a) + i - Len(a) = i
  BY <1>1
<1> QED
  BY <1>1, <1>2, <1>3, <1>4

\* The files that are asked for by name come first, then the source roots.
LEMMA SourceBegins == ASSUME WalkInv, Walks!ProjectFiles PROVE WalkInv'
<1>1. /\ RootFiles \subseteq PathNames /\ SourceRoots \subseteq PathNames
      /\ IsFiniteSet(RootFiles) /\ IsFiniteSet(SourceRoots)
  BY StorageAssumption DEF Walks!FileToolsAssumption, Walks!IsFiniteSet, IsFiniteSet
<1>2. PICK names \in Walks!Ascending(RootFiles), roots \in Walks!Ascending(SourceRoots) :
        Walks!Begin("project_files", Walks!Root, 0,
              [i \in DOMAIN names |-> Walks!Item(<<names[i]>>, "ask")]
                \o [i \in DOMAIN roots |-> Walks!Item(<<roots[i]>>, "root")])
  BY DEF Walks!ProjectFiles
<1>3. /\ names \in Seq(RootFiles) /\ Walks!ToSet(names) = RootFiles
      /\ \A i, j \in DOMAIN names : i < j => names[i] # names[j]
      /\ roots \in Seq(SourceRoots) /\ Walks!ToSet(roots) = SourceRoots
  BY <1>1, AscendingIs
<1> DEFINE asks == [i \in DOMAIN names |-> Walks!Item(<<names[i]>>, "ask")]
           dirs == [i \in DOMAIN roots |-> Walks!Item(<<roots[i]>>, "root")]
           items == asks \o dirs
           n == Len(names)
<1>4. /\ asks \in Seq(Items) /\ Len(asks) = n
      /\ \A i \in DOMAIN names : asks[i].path = <<names[i]>> /\ asks[i].do = "ask"
      /\ dirs \in Seq(Items) /\ Len(dirs) = Len(roots)
      /\ \A i \in DOMAIN roots : dirs[i].path = <<roots[i]>> /\ dirs[i].do = "root"
  <2>1. /\ asks \in Seq(Items) /\ Len(asks) = n
        /\ \A i \in DOMAIN names : asks[i].path = <<names[i]>> /\ asks[i].do = "ask"
    BY <1>1, <1>3, ItemsOf
  <2>2. /\ dirs \in Seq(Items) /\ Len(dirs) = Len(roots)
        /\ \A i \in DOMAIN roots : dirs[i].path = <<roots[i]>> /\ dirs[i].do = "root"
    BY <1>1, <1>3, ItemsOf
  <2> QED
    BY <2>1, <2>2
<1>5. /\ n \in Nat /\ Len(roots) \in Nat /\ DOMAIN names = 1..n /\ DOMAIN roots = 1..Len(roots)
      /\ \A i \in 1..n : names[i] \in RootFiles /\ names[i] \in PathNames
      /\ \A i \in 1..Len(roots) : roots[i] \in SourceRoots /\ roots[i] \in PathNames
  BY <1>1, <1>3
<1>6. Walks!Begin("project_files", Walks!Root, 0, items)
  BY <1>2
<1> HIDE DEF asks, dirs, n
<1>7. /\ items \in Seq(Items) /\ Len(items) = n + Len(roots)
      /\ \A i \in 1..n : items[i] = asks[i]
      /\ \A i \in 1..Len(roots) : items[n + i] = dirs[i]
  <2>1. /\ items \in Seq(Items) /\ Len(items) = Len(asks) + Len(dirs)
        /\ \A i \in 1..Len(asks) : items[i] = asks[i]
        /\ \A i \in 1..Len(dirs) : items[Len(asks) + i] = dirs[i]
    <3>1. items = asks \o dirs
      OBVIOUS
    <3>2. asks \in Seq(Items) /\ dirs \in Seq(Items)
      BY <1>4
    <3>3. ASSUME NEW c, c = asks \o dirs
          PROVE  /\ c \in Seq(Items) /\ Len(c) = Len(asks) + Len(dirs)
                 /\ \A i \in 1..Len(asks) : c[i] = asks[i]
                 /\ \A i \in 1..Len(dirs) : c[Len(asks) + i] = dirs[i]
      BY <3>2, <3>3, Joined
    <3> HIDE DEF items
    <3> QED
      BY <3>1, <3>3
  <2>2. Len(asks) = n /\ Len(dirs) = Len(roots)
    BY <1>4
  <2> HIDE DEF items
  <2> QED
    BY <2>1, <2>2
<1> HIDE DEF items
<1>8. DOMAIN items = 1..(n + Len(roots))
      /\ \A i \in DOMAIN items : i \in 1..n \/ (i - n \in 1..Len(roots) /\ items[i] = dirs[i - n])
  <2>1. DOMAIN items = 1..(n + Len(roots))
    BY <1>5, <1>7
  <2>2. ASSUME NEW i \in DOMAIN items, i \notin 1..n
        PROVE  i - n \in 1..Len(roots) /\ items[i] = dirs[i - n]
    <3>1. i - n \in 1..Len(roots) /\ n + (i - n) = i
      BY <1>5, <2>1, <2>2
    <3> QED
      BY <1>7, <3>1
  <2> QED
    BY <2>1, <2>2
<1>9. /\ \A i \in 1..n : i \in DOMAIN items /\ items[i].do = "ask" /\ items[i].path = <<names[i]>>
      /\ \A i \in 1..Len(roots) :
            n + i \in DOMAIN items /\ items[n + i].do = "root" /\ items[n + i].path = <<roots[i]>>
  <2>1. /\ \A i \in 1..n : i \in DOMAIN items
        /\ \A i \in 1..Len(roots) : n + i \in DOMAIN items
    BY <1>5, <1>8
  <2>2. \A i \in 1..n : items[i].do = "ask" /\ items[i].path = <<names[i]>>
    BY <1>4, <1>5, <1>7
  <2>3. ASSUME NEW i \in 1..Len(roots)
        PROVE  items[n + i].do = "root" /\ items[n + i].path = <<roots[i]>>
    <3>1. items[n + i] = dirs[i]
      BY <1>7
    <3>2. dirs[i].do = "root" /\ dirs[i].path = <<roots[i]>>
      BY <1>4, <1>5
    <3> QED
      BY <3>1, <3>2
  <2> QED
    BY <2>1, <2>2, <2>3
<1>10. ASSUME NEW i \in DOMAIN items
       PROVE  /\ items[i].do \in {"ask", "root"} /\ SourceItemOK(items[i])
              /\ items[i].do = "ask" => i \in 1..n
  <2>1. CASE i \in 1..n
    <3>1. items[i].do = "ask" /\ items[i].path = <<names[i]>> /\ names[i] \in RootFiles /\ names[i] \in PathNames
      BY <1>5, <1>9, <2>1
    <3>2. Len(items[i].path) = 1 /\ items[i].path[1] \in RootFiles
      BY <3>1, SinglePath
    <3> QED
      BY <2>1, <3>1, <3>2 DEF SourceItemOK
  <2>2. CASE i \notin 1..n
    <3>1. /\ items[i].do = "root" /\ items[i].path = <<roots[i - n]>>
          /\ roots[i - n] \in SourceRoots /\ roots[i - n] \in PathNames
      BY <1>4, <1>5, <1>8, <1>10, <2>2
    <3>2. Len(items[i].path) = 1 /\ items[i].path[1] \in SourceRoots
      BY <3>1, SinglePath
    <3> QED
      BY <3>1, <3>2 DEF SourceItemOK
  <2> QED
    BY <2>1, <2>2
<1>11. /\ WalkTypes' /\ Unbegun' /\ ReadInv' /\ work' = items /\ request'.tool = "project_files"
       /\ UNCHANGED <<tree, found, reply, touched>> /\ request = Walks!NoCall
  <2>1. Walks!Root \in Seq(Nat) /\ 0 \in Nat
    BY DEF Walks!Root
  <2> QED
    BY <1>6, <1>7, <2>1, CallBegins
<1>12. /\ reply.status = "none" /\ touched = {} /\ DOMAIN found = {} /\ Len(found) = 0
  BY <1>11, NothingBegun
<1>13. \A i \in DOMAIN work' : SourceItemOK(work[i])'
  BY <1>10, <1>11 DEF SourceItemOK, Entered, Walks!IsDir, Walks!Is
<1>14. ASSUME NEW i \in DOMAIN work', NEW j \in DOMAIN work', i < j, work'[j].do = "ask"
       PROVE  work'[i].do = "ask" /\ work'[i].path # work'[j].path
  <2>1. i \in 1..n /\ j \in 1..n
    <3>1. j \in 1..n
      BY <1>10, <1>11, <1>14
    <3>2. i \in 1..(n + Len(roots))
      BY <1>8, <1>11
    <3> QED
      BY <1>5, <1>14, <3>1, <3>2
  <2>2. names[i] # names[j] /\ names[i] \in PathNames /\ names[j] \in PathNames
    BY <1>3, <1>5, <1>14, <2>1
  <2>3. <<names[i]>> # <<names[j]>>
    BY <2>2, SinglePath
  <2> QED
    BY <1>9, <1>11, <2>1, <2>3
<1>15. ASSUME NEW q \in Walks!Steady'
       PROVE  q \in Seq(Nat) /\ Len(q) \in Nat /\ Len(q) >= 1
  BY <1>11, SteadyIs DEF Walks!Steady, WalkInv
<1>16. ASSUME NEW q \in Walks!Steady', Walks!IsRootFile(q)'
       PROVE  \E i \in DOMAIN work' : work'[i].do = "ask" /\ work'[i].path = q
  <2>1. Len(q) = 1 /\ q[1] \in RootFiles
    BY <1>16 DEF Walks!IsRootFile
  <2>2. PICK i \in 1..n : names[i] = q[1]
    BY <1>3, <1>5, <2>1 DEF Walks!ToSet
  <2>3. q = <<names[i]>>
    BY <1>5, <1>15, <2>1, <2>2, SinglePath
  <2> QED
    BY <1>9, <1>11, <2>3
<1>17. ASSUME NEW q \in Walks!Steady', Walks!IsSource(q)' PROVE Covered(q)'
  <2>1. Len(q) \in 2..(WalkDepth + 2) /\ q[1] \in SourceRoots
    BY <1>17 DEF Walks!IsSource
  <2>2. PICK i \in 1..Len(roots) : roots[i] = q[1]
    BY <1>3, <1>5, <2>1 DEF Walks!ToSet
  <2>3. Within(<<roots[i]>>, q) /\ Len(<<roots[i]>>) < Len(q)
    <3>1. 1 < Len(q)
      BY <2>1, WalkBounds
    <3> QED
      BY <1>5, <1>15, <2>2, <3>1, SinglePath
  <2>4. n + i \in DOMAIN work' /\ work'[n + i].do = "root" /\ work'[n + i].path = <<roots[i]>>
    BY <1>9, <1>11
  <2>5. n + i \in DOMAIN work' /\ Covers(work'[n + i], q)
    BY <2>3, <2>4 DEF Covers
  <2> QED
    BY <2>5 DEF Covered, Covers, Within
<1>18. SourceInv'
  <2>1. /\ reply'.status # "error" /\ DOMAIN found' = {}
    BY <1>11, <1>12
  <2>2. \A i, j \in DOMAIN work' : i < j /\ work'[j].do = "ask" =>
          work'[i].do = "ask" /\ work'[i].path # work'[j].path
    BY <1>14
  <2> QED
    BY <1>13, <1>16, <1>17, <2>1, <2>2 DEF SourceInv
<1> QED
  BY <1>11, <1>18 DEF WalkInv

\* Characters are not more than bytes.
LEMMA ReadBegins ==
    ASSUME WalkInv, NEW chars \in Nat, NEW bytes \in Nat, chars <= bytes, Walks!ReadFile(chars, bytes)
    PROVE  WalkInv'
<1>1. /\ request = Walks!NoCall /\ UNCHANGED <<tree, work, found, touched>>
      /\ request' = [Walks!NoCall EXCEPT !.tool = "read_file", !.chars = chars, !.bytes = bytes]
      /\ reply' = [status |-> "ok", size |-> IF chars <= MaxSize THEN chars ELSE MaxSize,
                   truncated |-> bytes > MaxSize]
  BY DEF Walks!ReadFile
<1>2. work = <<>> /\ WalkTypes
  BY <1>1, NothingBegun DEF WalkInv
<1>3. /\ request'.tool = "read_file" /\ request'.chars = chars
      /\ request' \in [tool : {"none", "list_tree", "search_files", "project_files", "read_file"},
                       at : Seq(Nat), depth : Nat, chars : Nat, bytes : Nat]
  <2>1. <<>> \in Seq(Nat)
    OBVIOUS
  <2> QED
    BY <1>1, <2>1 DEF Walks!NoCall, Walks!Root
<1>4. reply'.status = "ok" /\ (~reply'.truncated => reply'.size = chars)
  <2>1. MaxSize \in Nat
    BY StorageAssumption DEF Walks!FileToolsAssumption
  <2>2. ~(bytes > MaxSize) => chars <= MaxSize
    BY <2>1
  <2> QED
    BY <1>1, <2>2
<1>5. WalkTypes'
  BY <1>1, <1>2, <1>3, <1>4 DEF WalkTypes, Walks!IsTree, Walks!Steady, Within
<1> QED
  BY <1>3, <1>4, <1>5 DEF WalkInv, Unbegun, ReadInv

LEMMA WalkStep == ASSUME WalkInv, Walks!Next PROVE WalkInv'
<1> DEFINE Serves == Walks!Enter \/ Walks!ListEntry \/ Walks!Stat \/ Walks!Read \/ Walks!Ask \/ Walks!SourceRoot
                     \/ Walks!SourceEntry \/ Walks!Finish
<1>1. ASSUME NEW p \in Walks!Paths \cup {Walks!Root}, Walks!SearchFiles(p) PROVE WalkInv'
  BY <1>1, SearchBegins
<1>2. ASSUME NEW p \in Walks!Paths \cup {Walks!Root}, NEW depth \in 1..MaxDepth, Walks!ListTree(p, depth)
      PROVE  WalkInv'
  BY <1>2, ListBegins
<1>3. ASSUME Walks!ProjectFiles PROVE WalkInv'
  BY <1>3, SourceBegins
<1>4. ASSUME NEW chars \in 0..(MaxSize + 1), NEW bytes \in chars..(chars * MaxBytesPerChar),
             Walks!ReadFile(chars, bytes)
      PROVE  WalkInv'
  <2>1. chars \in Nat /\ bytes \in Nat /\ chars <= bytes
    <3>1. MaxSize \in Nat /\ MaxBytesPerChar \in Nat
      BY StorageAssumption DEF Walks!FileToolsAssumption
    <3>2. chars \in Nat
      BY <3>1
    <3>3. chars * MaxBytesPerChar \in Nat
      BY <3>1, <3>2
    <3> QED
      BY <3>2, <3>3
  <2> QED
    BY <1>4, <2>1, ReadBegins
<1>5. ASSUME NEW p \in Walks!Paths, Walks!Change(p) PROVE WalkInv'
  <2>1. WalkTypes' /\ request' = request /\ reply' = reply /\ request # Walks!NoCall
    BY <1>5, ChangeKeeps DEF WalkInv
  <2>2. Unbegun' /\ ReadInv'
    BY <2>1 DEF WalkInv, Unbegun, ReadInv
  <2>3. /\ request.tool = "list_tree" => ListInv'
        /\ request.tool = "search_files" => SearchInv'
        /\ request.tool = "project_files" => SourceInv'
    BY <1>5, ListChanges, SearchChanges, SourceChanges DEF WalkInv
  <2> QED
    BY <2>1, <2>2, <2>3 DEF WalkInv
<1>6. ASSUME Serves PROVE WalkInv'
  <2>1. request # Walks!NoCall /\ reply.status = "none" /\ request' = request
    <3>1. Walks!Busy
      BY <1>6
      DEF Walks!Enter, Walks!ListEntry, Walks!Stat, Walks!Read, Walks!Ask, Walks!SourceRoot,
          Walks!SourceEntry, Walks!Finish, Walks!Now
    <3>2. /\ \A items : Walks!Continue(items) => request' = request
          /\ Walks!Fail => request' = request
      BY DEF Walks!Continue, Walks!Fail
    <3>3. /\ Walks!Skip => request' = request
          /\ \A do : Walks!Instead(do) => request' = request
          /\ \A items : Walks!Add(items) => request' = request
      BY <3>2 DEF Walks!Skip, Walks!Instead, Walks!Add
    <3>4. Walks!Enter => request' = request
      BY <3>2, <3>3 DEF Walks!Enter
    <3>5. Walks!SourceEntry => request' = request
      BY <3>3 DEF Walks!SourceEntry
    <3>6. Walks!Finish => request' = request
      BY DEF Walks!Finish
    <3>7. Walks!ListEntry \/ Walks!Stat \/ Walks!Read \/ Walks!Ask \/ Walks!SourceRoot =>
            request' = request
      BY <3>2, <3>3 DEF Walks!ListEntry, Walks!Stat, Walks!Read, Walks!Ask, Walks!SourceRoot
    <3> QED
      BY <1>6, <3>1, <3>4, <3>5, <3>6, <3>7 DEF Walks!Busy, Walks!NoReply
  <2>2. request.tool \in {"list_tree", "search_files", "project_files"}
    BY <2>1 DEF WalkInv, WalkTypes, Unbegun, ReadInv
  <2>3. CASE request.tool = "list_tree"
    <3>1. Walks!Enter \/ Walks!ListEntry \/ Walks!Finish
      BY <1>6, <2>3 DEF Walks!Stat, Walks!Read, Walks!Ask, Walks!SourceRoot, Walks!SourceEntry, Walks!Now
    <3>2. WalkTypes' /\ ListInv'
      BY <2>3, <3>1, ListEnters, ListLists, ListFinishes DEF WalkInv
    <3> QED
      BY <2>1, <2>3, <3>2 DEF WalkInv, Unbegun, ReadInv
  <2>4. CASE request.tool = "search_files"
    <3>1. Walks!Enter \/ Walks!Stat \/ Walks!Read \/ Walks!Finish
      BY <1>6, <2>4 DEF Walks!ListEntry, Walks!Ask, Walks!SourceRoot, Walks!SourceEntry, Walks!Now
    <3>2. WalkTypes' /\ SearchInv'
      BY <2>4, <3>1, SearchEnters, SearchStats, SearchReads, SearchFinishes DEF WalkInv
    <3> QED
      BY <2>1, <2>4, <3>2 DEF WalkInv, Unbegun, ReadInv
  <2>5. CASE request.tool = "project_files"
    <3>1. Walks!Enter \/ Walks!Ask \/ Walks!SourceRoot \/ Walks!SourceEntry \/ Walks!Finish
      BY <1>6, <2>5 DEF Walks!ListEntry, Walks!Stat, Walks!Read, Walks!Now
    <3>2. WalkTypes' /\ SourceInv'
      BY <2>5, <3>1, SourceEnters, SourceAsks, SourceOpens, SourceLists, SourceFinishes DEF WalkInv
    <3> QED
      BY <2>1, <2>5, <3>2 DEF WalkInv, Unbegun, ReadInv
  <2> QED
    BY <2>2, <2>3, <2>4, <2>5
<1> QED
  BY <1>1, <1>2, <1>3, <1>4, <1>5, <1>6 DEF Walks!Next

LEMMA WalkStays == ASSUME WalkInv, UNCHANGED <<tree, request, work, found, reply, touched>> PROVE WalkInv'
<1>1. WalkTypes' /\ Unbegun' /\ ReadInv'
  BY DEF WalkInv, WalkTypes, Unbegun, ReadInv, Within, Walks!IsTree, Walks!Steady
<1>2. ASSUME ListInv PROVE ListInv'
  <2>1. \A i \in DOMAIN work' : ListItemOK(work[i])'
    BY <1>2 DEF ListInv, ListItemOK, Entered, Walks!IsDir, Walks!Is, Walks!Listable, Walks!Below, Walks!Open
  <2>2. \A i \in DOMAIN found' : Walks!Listable(found[i])' /\ Known(found[i])'
    BY <1>2 DEF ListInv, Known, Walks!Listable, Walks!Below, Walks!Open
  <2>3. reply'.status # "error" =>
          \A q \in Walks!Steady' : Walks!Listable(q)' =>
            \/ q \in Walks!ToSet(found)' \/ Covered(q)'
            \/ Len(found') = TreeLimit /\ \A i \in DOMAIN found' : Walks!Before(found'[i], q)
    BY <1>2 DEF ListInv, Covered, Walks!Steady, Walks!ToSet, Walks!Listable, Walks!Below, Walks!Open
  <2> QED
    BY <1>2, <2>1, <2>2, <2>3 DEF ListInv
<1>3. ASSUME SearchInv PROVE SearchInv'
  <2>1. \A i \in DOMAIN work' : SearchItemOK(work[i])' /\ (work'[i].do = "read" => i = 1)
    BY <1>3
    DEF SearchInv, SearchItemOK, Entered, Known, Walks!IsDir, Walks!Is, Walks!Searchable, Walks!Below, Walks!Open
  <2>2. \A i \in DOMAIN found' :
          Walks!Searchable(found[i])' /\ (found'[i] \in touched' \/ Walks!Is(found[i], {"match"})')
    BY <1>3 DEF SearchInv, Walks!Is, Walks!Searchable, Walks!Below, Walks!Open
  <2>3. reply'.status # "error" =>
          \A q \in Walks!Steady' : Walks!Searchable(q)' /\ tree'[q] = "match" =>
            q \in Walks!ToSet(found)' \/ Covered(q)' \/ Len(found') = SearchLimit
    BY <1>3 DEF SearchInv, Covered, Walks!Steady, Walks!ToSet, Walks!Searchable, Walks!Below, Walks!Open
  <2>4. reply'.status = "error" =>
          touched' # {} \/ \E q \in Walks!Steady' : Walks!Searchable(q)' /\ tree'[q] = "dangling"
    BY <1>3 DEF SearchInv, Walks!Steady, Walks!Searchable, Walks!Below, Walks!Open
  <2> QED
    BY <1>3, <2>1, <2>2, <2>3, <2>4 DEF SearchInv
<1>4. ASSUME SourceInv PROVE SourceInv'
  <2>1. \A i \in DOMAIN work' : SourceItemOK(work[i])'
    BY <1>4 DEF SourceInv, SourceItemOK, Entered, Walks!IsDir, Walks!Is
  <2>2. \A i \in DOMAIN found' :
          found'[i] \in touched'
            \/ (found'[i] \in DOMAIN tree' /\ (Walks!IsRootFile(found[i])' \/ Walks!IsSource(found[i])'))
    BY <1>4 DEF SourceInv, Walks!IsRootFile, Walks!IsSource, Walks!Files
  <2>3. /\ \A q \in Walks!Steady' : Walks!IsRootFile(q)' =>
            \/ q \in Walks!ToSet(found)'
            \/ \E i \in DOMAIN work' : work'[i].do = "ask" /\ work'[i].path = q
        /\ \A q \in Walks!Steady' : Walks!IsSource(q)' =>
            q \in Walks!ToSet(found)' \/ Covered(q)' \/ Len(found') >= CandidateLimit
    BY <1>4
    DEF SourceInv, Covered, Walks!Steady, Walks!ToSet, Walks!IsRootFile, Walks!IsSource, Walks!Files
  <2> QED
    BY <1>4, <2>1, <2>2, <2>3 DEF SourceInv
<1> QED
  BY <1>1, <1>2, <1>3, <1>4 DEF WalkInv

LEMMA WalksRight == WalkInv => WalksAnswerRight
<1> SUFFICES ASSUME WalkInv PROVE WalksAnswerRight
  OBVIOUS
<1>1. DOMAIN <<>> = {} /\ (reply.status # "none" => work = <<>>)
  BY DEF WalkInv, WalkTypes
<1>2. reply.status # "none" => \A q : ~Covered(q)
  BY <1>1 DEF Covered
<1>3. ASSUME request.tool = "list_tree" PROVE Walks!ListsFirstPaths /\ Walks!CutIsSaid
  <2>1. ListInv /\ TreeLimit \in Nat /\ Len(found) \in Nat
    BY <1>3, WalkBounds DEF WalkInv, WalkTypes
  <2>2. Walks!ListsFirstPaths
    BY <1>2, <2>1 DEF ListInv, Walks!ListsFirstPaths, Known, Walks!Steady
  <2>3. (reply.status = "ok" /\ ~reply.truncated) =>
           \A q \in Walks!Steady : Walks!Listable(q) => q \in Walks!ToSet(found)
    <3>1. Len(found) = TreeLimit => Len(found) >= TreeLimit
      BY <2>1
    <3> QED
      BY <1>2, <2>1, <3>1 DEF ListInv
  <2>4. reply.status = "error" => touched # {}
    BY <2>1 DEF ListInv
  <2> QED
    BY <1>3, <2>2, <2>3, <2>4 DEF Walks!CutIsSaid, Walks!Answered
<1>4. ASSUME request.tool = "search_files" PROVE Walks!SearchIsComplete
  <2>1. SearchInv /\ SearchLimit \in Nat /\ Len(found) \in Nat
    BY <1>4, WalkBounds DEF WalkInv, WalkTypes
  <2>2. Len(found) < SearchLimit => Len(found) # SearchLimit
    BY <2>1
  <2> QED
    BY <1>2, <2>1, <2>2 DEF SearchInv, Walks!SearchIsComplete, Walks!Steady, Walks!Is
<1>5. ASSUME request.tool = "project_files" PROVE Walks!CandidatesAreSources
  <2>1. SourceInv /\ CandidateLimit \in Nat /\ Len(found) \in Nat
    BY <1>5, WalkBounds DEF WalkInv, WalkTypes
  <2>2. Len(found) < CandidateLimit => ~(Len(found) >= CandidateLimit)
    BY <2>1
  <2>3. reply.status = "ok" => work = <<>>
    BY <1>1
  <2>4. reply.status = "ok" => \A q \in Walks!Steady :
           Walks!IsRootFile(q) \/ (Walks!IsSource(q) /\ Len(found) < CandidateLimit) => q \in Walks!ToSet(found)
    BY <1>1, <1>2, <2>1, <2>2, <2>3 DEF SourceInv
  <2>5. \A i \in DOMAIN found :
           found[i] \in touched
             \/ (found[i] \in Walks!Steady /\ (Walks!IsRootFile(found[i]) \/ Walks!IsSource(found[i])))
    BY <2>1 DEF SourceInv, Walks!Steady
  <2> QED
    BY <2>1, <2>4, <2>5 DEF SourceInv, Walks!CandidatesAreSources
<1>6. request.tool # "list_tree" => Walks!CutIsSaid
  BY DEF WalkInv, ReadInv, Walks!CutIsSaid, Walks!Answered
<1> QED
  BY <1>3, <1>4, <1>5, <1>6
  DEF WalksAnswerRight, Walks!ListsFirstPaths, Walks!SearchIsComplete, Walks!CandidatesAreSources

\* Where nobody walks there is no call.
WalksInv == IF setting = "files" THEN WalkInv ELSE request = Walks!NoCall

(* The tools that read and the discovery answer with what they should,        *)
(* whatever is written, removed or linked anew between two of their steps:    *)
(* list_tree with the first entries by path, a search that has room with      *)
(* every match, the discovery with all of the root's files and then with      *)
(* sources; and who is not told of a cut has all of it.                       *)
THEOREM WalksStayRight == SpecIn => []WalksAnswerRight
<1>1. InitIn => WalksInv
  BY WalkBegins DEF InitIn, NoWalk, WalksInv
<1>2. WalksInv /\ [NextIn]_all => WalksInv'
  BY WalkStep, WalkStays DEF NextIn, all, walking, WalksInv
<1>3. WalksInv => WalksAnswerRight
  <2>1. request = Walks!NoCall => WalksAnswerRight
    <3>1. request = Walks!NoCall => request.tool = "none"
      BY DEF Walks!NoCall
    <3> QED
      BY <3>1 DEF WalksAnswerRight, Walks!ListsFirstPaths, Walks!SearchIsComplete,
                  Walks!CandidatesAreSources, Walks!CutIsSaid, Walks!Answered
  <2> QED
    BY <2>1, WalksRight DEF WalksInv
<1> QED
  BY <1>1, <1>2, <1>3, PTL DEF SpecIn
=============================================================================
