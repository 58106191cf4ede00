----------------------------- MODULE MCEventLog ------------------------------
(***************************************************************************)
(* EventLog in two settings: "alone", the constants of the .cfg, where a    *)
(* request appends its events one after the other and others write too, and *)
(* "forking", where two chains of one macrotask append at once.  A          *)
(* behaviour stays in the setting it starts in.                             *)
(***************************************************************************)
EXTENDS EventLog

VARIABLE setting

Forking == INSTANCE EventLog WITH MaxFork <- 2, MaxNotes <- 0

TurnIn(c) ==
  /\ UNCHANGED setting
  /\ \/ setting = "alone" /\ Turn(c)
     \/ setting = "forking" /\ Forking!Turn(c)

NextIn ==
  \/ \E c \in Chains : TurnIn(c)
  \/ /\ UNCHANGED setting
     /\ \/ setting = "alone" /\ ((\E S \in SUBSET Chains : Wake(S)) \/ Crash)
        \/ setting = "forking" /\ ((\E S \in SUBSET Chains : Forking!Wake(S)) \/ Forking!Crash)

InitIn == Init /\ setting \in {"alone", "forking"}

SpecIn ==
  /\ InitIn
  /\ [][NextIn]_<<vars, setting>>
  /\ \A c \in Chains : WF_<<vars, setting>>(TurnIn(c))
==============================================================================
