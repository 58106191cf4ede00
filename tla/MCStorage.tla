------------------------------ MODULE MCStorage ------------------------------
(***************************************************************************)
(* What is stored: the worktrees, their files and the database.  In a       *)
(* behaviour one of five moves:                                             *)
(*   "alone"     the callers of an agent's worktree, over failures of git,  *)
(*               damages and restarts (Worktrees, the constants of the      *)
(*               .cfg),                                                     *)
(*   "shared"    Sharers, several callers of one worktree, without these,   *)
(*   "tools"     the tools of an agent that write files and run commands    *)
(*               (ToolWork),                                                *)
(*   "files"     the tools that read files, and the discovery of project    *)
(*               files, while others change them (FileTools),               *)
(*   "database"  control planes that start on one database (Migrations).    *)
(***************************************************************************)
EXTENDS Worktrees

CONSTANTS Sharers, Labels, MaxCalls, MaxEdits, MaxEnds, Planes, Origins, Prefixes, MaxDowns,
          PathNames, Skipped, RootFiles, SourceRoots, Depth, MaxNodes, MaxChanges,
          TreeLimit, SearchLimit, CandidateLimit, WalkDepth, MaxDepth, MaxSize, MaxBytesPerChar
VARIABLES setting,
          hasWorktree, scripts, offered, call, files, stored, rows, calls, edits, ends,
          schema, recorded, history, release, plane, applied, lock, downs,
          tree, request, work, found, reply, touched

Shared   == INSTANCE Worktrees WITH Callers <- Sharers, MaxFaults <- 0, MaxCrashes <- 0
Tools    == INSTANCE ToolWork WITH MaxCrashes <- MaxEnds, crashes <- ends
Walks    == INSTANCE FileTools WITH Names <- PathNames, call <- request
Database == INSTANCE Migrations WITH MaxCrashes <- MaxDowns, pc <- plane, crashes <- downs

ASSUME StorageAssumption ==
  Tools!ToolWorkAssumption /\ Database!MigrationsAssumption /\ Walks!FileToolsAssumption

tooling == <<hasWorktree, scripts, offered, call, files, stored, rows, calls, edits, ends>>
base    == <<schema, recorded, history, release, plane, applied, lock, downs>>
walking == <<tree, request, work, found, reply, touched>>
all     == <<vars, tooling, base, walking, setting>>

\* No control plane, and no database.
NoDatabase ==
  /\ schema = <<>> /\ recorded = {} /\ history = "none" /\ release = 0
  /\ plane = [p \in Planes |-> "down"] /\ applied = [p \in Planes |-> {}]
  /\ lock = Database!Nobody /\ downs = 0

\* Nothing to walk over, and nobody walks.
NoWalk ==
  /\ tree = <<>> /\ request = Walks!NoCall /\ work = <<>> /\ found = <<>>
  /\ reply = Walks!NoReply /\ touched = {}

InitIn ==
  /\ setting \in {"alone", "shared", "tools", "files", "database"}
  /\ IF setting = "shared" THEN Shared!Init ELSE Init
  /\ Tools!Init
  /\ setting # "tools" => ~hasWorktree
  /\ IF setting = "files" THEN Walks!Init ELSE NoWalk
  /\ IF setting = "database" THEN Database!Init ELSE NoDatabase

NextIn ==
  /\ UNCHANGED setting
  /\ \/ setting = "alone"    /\ Next          /\ UNCHANGED <<tooling, base, walking>>
     \/ setting = "shared"   /\ Shared!Next   /\ UNCHANGED <<tooling, base, walking>>
     \/ setting = "tools"    /\ Tools!Next    /\ UNCHANGED <<vars, base, walking>>
     \/ setting = "files"    /\ Walks!Next    /\ UNCHANGED <<vars, tooling, base>>
     \/ setting = "database" /\ Database!Next /\ UNCHANGED <<vars, tooling, walking>>

\* git and the event loop finish what they were asked (Worktrees!Fairness).
StepIn(c) == setting = "alone" /\ Step(c) /\ UNCHANGED <<tooling, base, walking, setting>>

\* An earlier release is brought to its end, a start goes on, and a plane that went
\* down is started again (Migrations!FairSpec); the starts are said of plane alone.
UpgradeIn == setting = "database" /\ Database!Upgrade /\ UNCHANGED <<vars, tooling, walking, setting>>
GoesOnIn(p) == setting = "database" /\ Database!GoesOn(p)

SpecIn ==
  /\ InitIn /\ [][NextIn]_all
  /\ \A c \in Callers : WF_all(StepIn(c))
  /\ WF_all(UpgradeIn) /\ \A p \in Planes : WF_plane(GoesOnIn(p))

-----------------------------------------------------------------------------
\* An agent's work stays, as long as the callers of its worktree come one after
\* another, whatever restarts come between them (worktree-manager.ts).
WorkIsLasting == setting = "alone" => WorkIsKept

\* A row READY is right: for a run that has come alone, and, when callers have come at
\* the same time, after the last of them (worktree-manager.ts).
ReadyRowsAreTrue ==
  /\ setting = "alone"  => ReadyIsWorktree
  /\ setting = "shared" => Shared!QuietRowIsTrue

\* Files change as the operator has seen or as the repository says (tool-broker.ts).
ChangesWereSeen == Tools!ChangesWereSeen

\* The walks over a tree answer with what they should, whoever changes it meanwhile:
\* list_tree with the first entries by path, a search that has room with every match,
\* the discovery with the root's files and then with sources; and who is not told of a
\* cut has all of it (tool-broker.ts, project-files.ts).
WalksAnswerRight ==
  Walks!ListsFirstPaths /\ Walks!SearchIsComplete /\ Walks!CandidatesAreSources /\ Walks!CutIsSaid

\* A control plane serves only with every column and state its statements use,
\* whatever release the database comes from, and with foreign keys that name
\* existing tables, as far as 0005 and 0015 repair them (migrations.ts).
ServedSchemaIsSound == Database!ServedSchemaIsCurrent /\ Database!RepairedKeysResolve

\* No migration loses the rows of a table, and the copy 0009 makes is never made
\* again over the history written since.
NothingIsLost == Database!RowsAreKept /\ Database!HistoryStays

\* However often a start is interrupted or loses against another, some plane serves
\* at last.
ServesAtLast == setting = "database" => Database!ServesAtLast
==============================================================================
