---------------------------- MODULE MCCoordination ----------------------------
(***************************************************************************)
(* Coordination without the synthesis model (the constants of the .cfg),    *)
(* where every refresh is one step, and with it ("model"), where refreshes  *)
(* overlap and the process may restart.  A behaviour stays in its setting.  *)
(***************************************************************************)
EXTENDS Coordination

VARIABLE setting

Model ==
  INSTANCE Coordination WITH
    Handoffs <- {}, Synthesis <- {TRUE}, MaxStarts <- 0, MaxBriefs <- 0,
    MaxDecisions <- 0, MaxCrashes <- 1

InitIn ==
  \/ setting = "plain" /\ Init
  \/ setting = "model" /\ Model!Init

NextIn ==
  /\ UNCHANGED setting
  /\ \/ setting = "plain" /\ Next
     \/ setting = "model" /\ Model!Next

\* With the model: the desktop polls, time passes and calls of the model end.
AgeIn     == setting = "model" /\ Model!Age /\ UNCHANGED setting
PollIn(c) == setting = "model" /\ Model!Poll(c) /\ UNCHANGED setting
ReturnIn(c) ==
  setting = "model" /\ UNCHANGED setting /\ \E answered \in BOOLEAN : Model!Return(c, answered)

SpecIn ==
  /\ InitIn /\ [][NextIn]_<<vars, setting>>
  /\ WF_<<vars, setting>>(AgeIn)
  /\ \A c \in Chains : WF_<<vars, setting>>(PollIn(c)) /\ WF_<<vars, setting>>(ReturnIn(c))

-----------------------------------------------------------------------------
\* With the model, an agent that waits for the operator, or failed, gets into the
\* ask, though refreshes overlap, calls of the model fail and the process restarts.
WaitingGetsAsked == setting = "plain" \/ WaitingIsAsked
===============================================================================
