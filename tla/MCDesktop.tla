------------------------------ MODULE MCDesktop ------------------------------
(***************************************************************************)
(* The desktop's pages: what they show (LiveView) and how a message is sent *)
(* (Broadcast).  In a behaviour one of the two moves.  The .cfg gives the   *)
(* sizes; Shown are the kinds of queries on the screen.                     *)
(***************************************************************************)
EXTENDS Naturals, Sequences, FiniteSets

CONSTANTS Viewers,          \* agents of LiveView
          Shown,            \* its kinds of queries
          MaxWrites, MaxEvents, MaxDrops, MaxSelections, MaxFailures,
          MaxAgents,        \* agents of Broadcast
          MaxMessages, MaxChanges, MaxErrors

VARIABLES setting,
          version, data, fetch, promised, stream, inbox, connected, leaving, selected,
          writes, events, drops, selections, failures,
          runs, active, plan, known, message, targets, focused, phase, todo, dispatched, status,
          marks, feed, queued, changes, errors

View == INSTANCE LiveView WITH Agents <- Viewers, Kinds <- Shown, Away <- TRUE

Message == INSTANCE Broadcast

ASSUME DesktopAssumption == View!LiveViewAssumption /\ Message!BroadcastAssumption

viewVars ==
  <<version, data, fetch, promised, stream, inbox, connected, leaving, selected,
    writes, events, drops, selections, failures>>
messageVars ==
  <<runs, active, plan, known, message, targets, focused, phase, todo, dispatched, status,
    marks, feed, queued, changes, errors>>
all == <<viewVars, messageVars, setting>>

\* The setting that rests has one initial state.
InitIn ==
  /\ setting \in {"view", "message"}
  /\ View!Init /\ Message!Init
  /\ setting # "view" => selected = CHOOSE a \in Viewers : TRUE
  /\ setting # "message" => active = {} /\ plan = [a \in Message!Agents |-> "run"] /\ known

NextIn ==
  /\ UNCHANGED setting
  /\ \/ setting = "view" /\ View!Next /\ UNCHANGED messageVars
     \/ setting = "message" /\ Message!Next /\ UNCHANGED viewVars

SpecIn == InitIn /\ [][NextIn]_all

-----------------------------------------------------------------------------
(* Requests are answered or fail, timers fire, a socket that was accepted   *)
(* delivers or closes, and runs end: the fairness of the two modules.       *)

ViewStep(A)    == setting = "view" /\ A /\ UNCHANGED <<messageVars, setting>>
MessageStep(A) == setting = "message" /\ A /\ UNCHANGED <<viewVars, setting>>

FairSpecIn ==
  /\ SpecIn
  /\ WF_all(ViewStep(View!Deliver))
  /\ \A q \in View!Query : WF_all(ViewStep(View!Serve(q))) /\ WF_all(ViewStep(View!Poll(q)))
  /\ WF_all(MessageStep(Message!Send))
  /\ \A a \in Message!Agents : WF_all(MessageStep(Message!End(a)))

-----------------------------------------------------------------------------
\* What a handled event told of is on the screen or being fetched (App.tsx).
ToldIsShown == View!ToldIsShown

\* A message starts at most one run of an agent, whatever is lost: the fallback does
\* not send again what the coordinator sent; and a message to one agent is reported
\* with the run of that agent (submitWorkspaceInstruction).
MessagesRunOnce == Message!OneRunEach /\ Message!FocusedRunIsOfAgent

\* Whatever the stream and requests do, the desktop gets on: without a stream for
\* good polling makes the screen current, the artifacts become current always, and
\* the composer can be used again.
DesktopRecovers ==
  /\ setting = "message" \/ (View!PolledViewIsCurrent /\ View!ArtifactsAreCurrent)
  /\ Message!SendingEnds
==============================================================================
