--------------------------- MODULE Desktop_proofs ---------------------------
(***************************************************************************)
(* Theorems about the desktop's pages.                                     *)
(*                                                                         *)
(* Broadcast, for any number of agents, messages, changes of the plan and  *)
(* failing requests: a message starts at most one run of an agent, and a   *)
(* message to one agent is reported with its own run.  The argument:       *)
(* whoever is still to be sent to has no run of the message yet            *)
(* (NotYetSent).  The desktop falls back to sending itself only when the   *)
(* coordinator has started nobody, so this holds of its targets, too.      *)
(*                                                                         *)
(* LiveView, for any agents, queries and events: what a handled event told *)
(* of is shown or being fetched, because every query it tells of is one it *)
(* invalidates, as far as it is on the screen.                             *)
(***************************************************************************)
EXTENDS MCDesktop, FiniteSetTheorems, SequenceTheorems, WellFoundedInduction, TLAPS

LEMMA Bounds == MaxAgents \in Nat /\ MaxMessages \in Nat /\ "workspace" \notin Viewers
BY DesktopAssumption DEF Message!BroadcastAssumption, View!LiveViewAssumption, View!All

-----------------------------------------------------------------------------
(* Lists of agents                                                         *)

\* Induction over the natural numbers, of sets.
Below == {p \in Nat \X Nat : p[1] < p[2]}

LEMMA FirstIsOne ==
    ASSUME NEW agents \in SUBSET Message!Agents, agents # {}
    PROVE  Message!First(agents) \in agents
<1>1. IsWellFoundedOn(Below, Nat)
  BY NatLessThanWellFounded DEF OpToRel, Below
<1>2. agents \subseteq Nat
  BY DEF Message!Agents
<1>3. \E a \in agents : \A b \in agents : <<b, a>> \notin Below
  BY <1>1, <1>2, WFMin
<1>4. \A a, b \in Nat : <<b, a>> \notin Below => a <= b
  BY DEF Below
<1>5. \E a \in agents : \A b \in agents : a <= b
  BY <1>2, <1>3, <1>4
<1> QED
  BY <1>5 DEF Message!First

LEMMA OnlyOne ==
    ASSUME NEW agents \in SUBSET Message!Agents, Message!Cardinality(agents) = 1
    PROVE  \E a \in Message!Agents : agents = {a}
<1>1. Cardinality(agents) = 1
  BY DEF Message!Cardinality, Cardinality
<1>2. IsFiniteSet(Message!Agents)
  BY Bounds, FS_Interval DEF Message!Agents
<1>3. IsFiniteSet(agents)
  BY <1>2, FS_Subset
<1> QED
  BY <1>1, <1>3, FS_Singleton

-----------------------------------------------------------------------------
(* Messages                                                                *)

MessageTypes ==
    /\ runs \in Seq([agent : Message!Agents, message : Nat]) /\ message \in Nat
    /\ phase \in Message!Phases /\ focused \in BOOLEAN
    /\ targets \subseteq Message!Agents /\ todo \subseteq Message!Agents
    /\ dispatched \in Seq(Nat)

\* Has an agent a run of the last message?
HasIt(a) == \E i \in DOMAIN runs : runs[i].agent = a /\ runs[i].message = message

NotYetSent ==
    /\ \A i \in DOMAIN runs : runs[i].message <= message
    /\ phase # "none" => targets # {}
    /\ phase \in {"starting", "direct"} => todo # {} /\ \A a \in todo : ~HasIt(a)
    /\ phase = "starting" => status # "stale_state"
    /\ phase = "asked" \/ (phase = "answered" /\ status = "stale_state") => \A a \in Message!Agents : ~HasIt(a)

\* What is known of a message to one agent.
FocusOK ==
    focused /\ phase # "none" =>
        \E a \in Message!Agents :
            /\ targets = {a}
            /\ \/ phase = "direct" /\ todo = {a} /\ dispatched = <<>>
               \/ /\ phase = "settling"
                  /\ \A i \in DOMAIN dispatched :
                        /\ dispatched[i] \in DOMAIN runs
                        /\ runs[dispatched[i]].agent = a /\ runs[dispatched[i]].message = message

MessageInv ==
    MessageTypes /\ NotYetSent /\ FocusOK /\ Message!OneRunEach /\ Message!FocusedRunIsOfAgent

LEMMA InitMessage == Message!Init => MessageInv
<1> SUFFICES ASSUME Message!Init PROVE MessageInv
  OBVIOUS
<1>1. /\ runs = <<>> /\ message = 0 /\ targets = {} /\ focused = FALSE /\ phase = "none"
      /\ todo = {} /\ dispatched = <<>> /\ feed = {}
  BY DEF Message!Init
<1>2. runs \in Seq([agent : Message!Agents, message : Nat]) /\ DOMAIN runs = {} /\ dispatched \in Seq(Nat)
  BY <1>1
<1>3. MessageTypes
  BY <1>1, <1>2 DEF MessageTypes, Message!Phases
<1>4. NotYetSent /\ FocusOK
  BY <1>1, <1>2 DEF NotYetSent, FocusOK
<1>5. Message!OneRunEach /\ Message!FocusedRunIsOfAgent
  BY <1>1, <1>2 DEF Message!OneRunEach, Message!FocusedRunIsOfAgent
<1> QED
  BY <1>3, <1>4, <1>5 DEF MessageInv

LEMMA RunsTyped ==
    ASSUME MessageInv
    PROVE  /\ Len(runs) \in Nat /\ DOMAIN runs = 1..Len(runs) /\ message \in Nat
           /\ \A i \in DOMAIN runs : runs[i].agent \in Message!Agents /\ runs[i].message \in Nat
<1>1. runs \in Seq([agent : Message!Agents, message : Nat]) /\ message \in Nat
  BY DEF MessageInv, MessageTypes
<1>2. \A i \in 1..Len(runs) : runs[i] \in [agent : Message!Agents, message : Nat]
  BY <1>1, ElementOfSeq
<1> QED
  BY <1>1, <1>2

\* Steps that leave what is known of messages alone.
LEMMA MessageRests ==
    ASSUME MessageInv, UNCHANGED <<runs, message, targets, focused, phase, todo, dispatched, status, feed>>
    PROVE  MessageInv'
<1>1. MessageTypes'
  BY DEF MessageInv, MessageTypes
<1>2. NotYetSent'
  BY DEF MessageInv, NotYetSent, HasIt
<1>3. FocusOK'
  BY DEF MessageInv, FocusOK
<1>4. Message!OneRunEach' /\ Message!FocusedRunIsOfAgent'
  BY DEF MessageInv, Message!OneRunEach, Message!FocusedRunIsOfAgent
<1> QED
  BY <1>1, <1>2, <1>3, <1>4 DEF MessageInv

\* Steps that send nothing.
LEMMA NothingSent ==
    ASSUME MessageInv, UNCHANGED <<runs, feed>>, MessageTypes', NotYetSent', FocusOK'
    PROVE  MessageInv'
BY DEF MessageInv, Message!OneRunEach, Message!FocusedRunIsOfAgent

LEMMA SubmitKeeps ==
    ASSUME MessageInv, NEW agents \in SUBSET Message!Agents, NEW toOne \in BOOLEAN,
           Message!Submit(agents, toOne)
    PROVE  MessageInv'
<1>1. /\ message' = message + 1 /\ agents # {} /\ (toOne => Message!Cardinality(agents) = 1)
      /\ targets' = agents /\ focused' = toOne /\ phase' = (IF toOne THEN "direct" ELSE "asked")
      /\ todo' = (IF toOne THEN agents ELSE {}) /\ dispatched' = <<>> /\ status' = "none"
      /\ UNCHANGED <<runs, feed>>
  BY DEF Message!Submit, Message!server
<1>2. MessageTypes'
  BY <1>1 DEF MessageInv, MessageTypes, Message!Phases
<1>3. \A i \in DOMAIN runs' : runs'[i].message <= message' /\ runs'[i].message # message'
  <2>1. \A i \in DOMAIN runs : runs[i].message <= message
    BY DEF MessageInv, NotYetSent
  <2> QED
    BY <1>1, <2>1, RunsTyped
<1>4. NotYetSent'
  BY <1>1, <1>3 DEF NotYetSent, HasIt
<1>5. FocusOK'
  BY <1>1, OnlyOne DEF FocusOK
<1> QED
  BY <1>1, <1>2, <1>4, <1>5, NothingSent

LEMMA DecomposeKeeps == ASSUME MessageInv, Message!Decompose PROVE MessageInv'
<1>1. /\ phase = "asked" /\ todo' = (IF known THEN Message!Recipients("run") ELSE {})
      /\ phase' = (IF todo' = {} THEN "answered" ELSE "starting")
      /\ status' = (IF ~known THEN "stale_state"
                    ELSE IF todo' # {} THEN "dispatched"
                    ELSE IF Message!Recipients("hold") # {} THEN "all_blocked" ELSE "no_agents")
      /\ UNCHANGED <<runs, feed, message, targets, focused, dispatched>>
  BY DEF Message!Decompose, Message!server, Message!shown
<1>2. todo' \subseteq Message!Agents
  BY <1>1 DEF Message!Recipients
<1>3. MessageTypes'
  BY <1>1, <1>2 DEF MessageInv, MessageTypes, Message!Phases
<1>4. NotYetSent'
  BY <1>1, <1>2 DEF MessageInv, NotYetSent, HasIt
<1>5. FocusOK'
  BY <1>1 DEF MessageInv, FocusOK
<1> QED
  BY <1>1, <1>3, <1>4, <1>5, NothingSent

\* A run of the agent that is next: what a step that sends does to the runs.
LEMMA OneIsSent ==
    ASSUME MessageInv, phase \in {"starting", "direct"}, todo' = todo \ {Message!First(todo)},
           phase' \in Message!Phases, dispatched' \in Seq(Nat),
           UNCHANGED <<feed, message, targets, focused, status>>,
           \/ runs' = runs
           \/ runs' = Append(runs, [agent |-> Message!First(todo), message |-> message]),
           phase' = "starting" => phase = "starting",
           phase' \in {"starting", "direct"} => todo' # {},
           phase' # "asked", phase' = "answered" => phase = "starting",
           FocusOK'
    PROVE  MessageInv'
<1> DEFINE a == Message!First(todo)
<1>1. a \in todo /\ a \in Message!Agents /\ ~HasIt(a) /\ message \in Nat
  BY FirstIsOne DEF MessageInv, MessageTypes, NotYetSent
<1> HIDE DEF a
<1>2. CASE runs' = runs
  <2>1. MessageTypes'
    BY <1>2 DEF MessageInv, MessageTypes
  <2>2. NotYetSent'
    BY <1>2 DEF MessageInv, NotYetSent, HasIt
  <2> QED
    BY <1>2, <2>1, <2>2, NothingSent
<1>3. CASE runs' = Append(runs, [agent |-> a, message |-> message])
  <2> DEFINE new == [agent |-> a, message |-> message]
  <2>1. new \in [agent : Message!Agents, message : Nat] /\ new.agent = a /\ new.message = message
    BY <1>1
  <2> HIDE DEF new
  <2>2. /\ runs \in Seq([agent : Message!Agents, message : Nat])
        /\ runs' \in Seq([agent : Message!Agents, message : Nat])
        /\ Len(runs') = Len(runs) + 1 /\ runs'[Len(runs) + 1] = new
        /\ \A i \in 1..Len(runs) : runs'[i] = runs[i]
    BY <1>3, <2>1 DEF MessageInv, MessageTypes, new
  <2>3. /\ DOMAIN runs = 1..Len(runs) /\ Len(runs) \in Nat
        /\ DOMAIN runs' = (DOMAIN runs) \cup {Len(runs) + 1}
    BY <2>2
  <2>4. MessageTypes'
    BY <2>2 DEF MessageInv, MessageTypes
  <2>5. NotYetSent'
    <3>1. \A i \in DOMAIN runs' : runs'[i].message <= message'
      BY <1>1, <2>1, <2>2, <2>3 DEF MessageInv, NotYetSent
    <3>2. \A b \in todo' : ~HasIt(b)'
      <4> SUFFICES ASSUME NEW b \in todo', NEW i \in DOMAIN runs',
                          runs'[i].agent = b, runs'[i].message = message'
                   PROVE  FALSE
        BY DEF HasIt
      <4>1. b \in todo /\ b # a
        BY DEF a
      <4> QED
        BY <4>1, <2>1, <2>2, <2>3 DEF MessageInv, NotYetSent, HasIt
    <3> QED
      BY <3>1, <3>2 DEF MessageInv, NotYetSent
  <2>6. Message!OneRunEach'
    <3> SUFFICES ASSUME NEW i \in DOMAIN runs', NEW j \in DOMAIN runs',
                        runs'[i].agent = runs'[j].agent, runs'[i].message = runs'[j].message
                 PROVE  i = j
      BY DEF Message!OneRunEach
    <3> QED
      BY <1>1, <2>1, <2>2, <2>3 DEF MessageInv, HasIt, Message!OneRunEach
  <2>7. Message!FocusedRunIsOfAgent'
    BY <2>2, <2>3 DEF MessageInv, Message!FocusedRunIsOfAgent
  <2> QED
    BY <2>4, <2>5, <2>6, <2>7 DEF MessageInv
<1> QED
  BY <1>2, <1>3 DEF a

LEMMA StartNextKeeps == ASSUME MessageInv, Message!StartNext PROVE MessageInv'
<1>1. /\ phase = "starting" /\ todo' = todo \ {Message!First(todo)}
      /\ phase' = (IF todo' = {} THEN "answered" ELSE "starting")
      /\ UNCHANGED <<feed, message, targets, focused, status>>
  BY DEF Message!StartNext, Message!shown
<1>2. /\ \/ runs' = runs
         \/ runs' = Append(runs, [agent |-> Message!First(todo), message |-> message])
      /\ dispatched' = dispatched \/ dispatched' = Append(dispatched, Len(runs) + 1)
  BY DEF Message!StartNext, Message!Created, Message!Refused
<1>3. dispatched' \in Seq(Nat)
  <2>1. dispatched \in Seq(Nat) /\ Len(runs) + 1 \in Nat
    BY RunsTyped DEF MessageInv, MessageTypes
  <2> QED
    BY <1>2, <2>1
<1>4. FocusOK'
  BY <1>1 DEF MessageInv, FocusOK
<1> QED
  BY <1>1, <1>2, <1>3, <1>4, OneIsSent DEF Message!Phases

LEMMA SendNextKeeps == ASSUME MessageInv, Message!SendNext PROVE MessageInv'
<1>1. /\ phase = "direct" /\ todo' = todo \ {Message!First(todo)}
      /\ phase' = (IF todo' = {} THEN "settling" ELSE "direct")
      /\ UNCHANGED <<feed, message, targets, focused, status>>
  BY DEF Message!SendNext, Message!shown
<1> DEFINE new == [agent |-> Message!First(todo), message |-> message]
<1>2. /\ runs' = runs \/ runs' = Append(runs, new)
      /\ \/ dispatched' = dispatched
         \/ dispatched' = Append(dispatched, Len(runs) + 1) /\ runs' = Append(runs, new)
  BY DEF Message!SendNext, Message!Created, Message!Refused
<1>3. dispatched \in Seq(Nat) /\ runs \in Seq([agent : Message!Agents, message : Nat]) /\ Len(runs) \in Nat
  BY DEF MessageInv, MessageTypes
<1>4. dispatched' \in Seq(Nat)
  <2>1. Len(runs) + 1 \in Nat /\ dispatched \in Seq(Nat)
    BY <1>3
  <2>2. dispatched' = dispatched \/ dispatched' = Append(dispatched, Len(runs) + 1)
    BY <1>2
  <2> QED
    BY <2>1, <2>2
<1>5. FocusOK'
  <2> SUFFICES ASSUME focused PROVE FocusOK'
    BY <1>1 DEF FocusOK
  <2>1. PICK a \in Message!Agents : targets = {a} /\ todo = {a} /\ dispatched = <<>>
    BY <1>1 DEF MessageInv, FocusOK
  <2>2. Message!First(todo) = a
    BY <2>1, FirstIsOne
  <2>3. todo' = {} /\ phase' = "settling" /\ targets' = {a} /\ message' = message
    BY <1>1, <2>1, <2>2
  <2>4. ASSUME NEW i \in DOMAIN dispatched'
        PROVE  /\ dispatched'[i] \in DOMAIN runs'
               /\ runs'[dispatched'[i]].agent = a /\ runs'[dispatched'[i]].message = message'
    <3>1. dispatched' = <<Len(runs) + 1>> /\ runs' = Append(runs, new)
      BY <1>2, <2>1, <2>4
    <3>2. new.agent = a /\ new.message = message
      BY <2>2
    <3>3. new \in [agent : Message!Agents, message : Nat]
      BY <2>2 DEF MessageInv, MessageTypes
    <3> HIDE DEF new
    <3>4. Len(runs') = Len(runs) + 1 /\ runs'[Len(runs) + 1] = new /\ DOMAIN runs' = 1..(Len(runs) + 1)
      BY <1>3, <3>1, <3>3
    <3> QED
      BY <1>3, <2>3, <2>4, <3>1, <3>2, <3>4
  <2> QED
    BY <2>3, <2>4 DEF FocusOK
<1> QED
  BY <1>1, <1>2, <1>4, <1>5, OneIsSent DEF Message!Phases

LEMMA ReceiveKeeps == ASSUME MessageInv, Message!Receive PROVE MessageInv'
<1>1. /\ phase = "answered"
      /\ phase' = (IF status = "dispatched" THEN "settling"
                   ELSE IF status = "stale_state" THEN "direct" ELSE "none")
      /\ todo' = (IF status = "stale_state" THEN targets ELSE {})
      /\ UNCHANGED <<runs, feed, message, targets, focused, dispatched, status>>
  BY DEF Message!Receive, Message!server
<1>2. MessageTypes'
  BY <1>1 DEF MessageInv, MessageTypes, Message!Phases
<1>3. NotYetSent'
  BY <1>1 DEF MessageInv, MessageTypes, NotYetSent, HasIt
<1>4. FocusOK'
  BY <1>1 DEF MessageInv, FocusOK
<1> QED
  BY <1>1, <1>2, <1>3, <1>4, NothingSent

LEMMA SettleKeeps == ASSUME MessageInv, Message!Settle PROVE MessageInv'
<1>1. /\ phase = "settling" /\ phase' = "none"
      /\ feed' = feed \cup {Message!Entry(a) : a \in targets}
      /\ UNCHANGED <<runs, message, targets, focused, todo, dispatched, status>>
  BY DEF Message!Settle, Message!server
<1>2. MessageTypes' /\ NotYetSent' /\ FocusOK'
  BY <1>1 DEF MessageInv, MessageTypes, NotYetSent, HasIt, FocusOK, Message!Phases
<1>3. ASSUME NEW e \in feed', e.focused, e.says = "Run requested"
      PROVE  /\ e.run \in DOMAIN runs
             /\ runs[e.run].agent = e.agent /\ runs[e.run].message = e.message
  <2>1. CASE e \in feed
    BY <1>3, <2>1 DEF MessageInv, Message!FocusedRunIsOfAgent
  <2>2. CASE e \notin feed
    <3>1. PICK a \in targets : e = Message!Entry(a)
      BY <1>1, <2>2
    <3>2. CASE a \in Message!Matched
      <4>1. /\ e = [message |-> message, agent |-> a, focused |-> focused,
                    says |-> "Run requested", run |-> dispatched[Message!Place(a, targets)]]
            /\ Message!Place(a, targets) \in DOMAIN dispatched
        BY <3>1, <3>2 DEF Message!Entry, Message!Matched
      <4>2. focused /\ e.agent = a /\ e.message = message /\ e.run = dispatched[Message!Place(a, targets)]
        BY <1>3, <4>1
      <4> QED
        BY <1>1, <3>1, <4>1, <4>2 DEF MessageInv, FocusOK
    <3>3. CASE a \notin Message!Matched
      BY <1>3, <3>1, <3>3 DEF Message!Entry
    <3> QED
      BY <3>2, <3>3
  <2> QED
    BY <2>1, <2>2
<1> QED
  BY <1>1, <1>2, <1>3 DEF MessageInv, Message!OneRunEach, Message!FocusedRunIsOfAgent

LEMMA MessageStepKeeps == ASSUME MessageInv, Message!Next PROVE MessageInv'
<1>1. ASSUME NEW a, NEW decision, Message!Replan(a, decision) PROVE MessageInv'
  BY <1>1, MessageRests DEF Message!Replan, Message!shown, Message!sending
<1>2. ASSUME NEW a, Message!End(a) \/ Message!Unmark(a) PROVE MessageInv'
  BY <1>2, MessageRests DEF Message!End, Message!Unmark, Message!server, Message!shown, Message!sending
<1>3. CASE Message!Rebuild
  BY <1>3, MessageRests DEF Message!Rebuild, Message!shown, Message!sending
<1>4. CASE Message!Lose
  <2>1. /\ phase \in {"asked", "answered"} /\ phase' = "none"
        /\ UNCHANGED <<runs, feed, message, targets, focused, todo, dispatched, status>>
    BY <1>4 DEF Message!Lose, Message!server, Message!shown
  <2>2. MessageTypes' /\ NotYetSent' /\ FocusOK'
    BY <2>1 DEF MessageInv, MessageTypes, NotYetSent, HasIt, FocusOK, Message!Phases
  <2> QED
    BY <2>1, <2>2, NothingSent
<1> QED
  BY <1>1, <1>2, <1>3, <1>4, SubmitKeeps, DecomposeKeeps, StartNextKeeps, SendNextKeeps, ReceiveKeeps,
     SettleKeeps DEF Message!Next, Message!Send

(* submitWorkspaceInstruction: whatever requests are lost, runs end and       *)
(* plans change, no agent is started twice by one message, neither by the     *)
(* coordinator and the fallback together, and a message to one agent shows    *)
(* the run it started.                                                        *)
THEOREM MessagesStartOnce == SpecIn => []MessagesRunOnce
<1>1. InitIn => MessageInv
  BY InitMessage DEF InitIn
<1>2. MessageInv /\ [NextIn]_all => MessageInv'
  BY MessageStepKeeps, MessageRests DEF NextIn, all, messageVars
<1>3. MessageInv => MessagesRunOnce
  BY DEF MessageInv, MessagesRunOnce
<1> QED
  BY <1>1, <1>2, <1>3, PTL DEF SpecIn

-----------------------------------------------------------------------------
(* The screen                                                              *)

EventSet == [agent : Viewers, type : {"STATUS_CHANGED", "HEARTBEAT"}, told : [View!Query -> Nat]]

\* Versions are numbers, on the server, on their way and on the screen.
ViewInv ==
    /\ version \in [View!Query -> Nat] /\ promised \in [View!Query -> Nat]
    /\ inbox \in Seq(EventSet)

LEMMA InitView == View!Init => ViewInv
BY DEF View!Init, ViewInv, View!Unloaded

LEMMA ViewRests == ASSUME ViewInv, UNCHANGED <<version, promised, inbox>> PROVE ViewInv'
BY DEF ViewInv

LEMMA HandleIs ==
    ASSUME ViewInv, View!Handle
    PROVE  \E event \in EventSet :
             /\ UNCHANGED <<version, data, selected>> /\ inbox' \in Seq(EventSet)
             /\ fetch' = [q \in View!Query |->
                    IF q \in View!Active /\ event.type # "HEARTBEAT" /\ View!Concerns(event, q)
                    THEN View!Refetched(q) ELSE fetch[q]]
             /\ promised' = [q \in View!Query |->
                    IF /\ q \in View!Active /\ event.type # "HEARTBEAT" /\ View!TellsOf(event, q)
                       /\ event.told[q] > promised[q]
                    THEN event.told[q] ELSE promised[q]]
<1>1. Head(inbox) \in EventSet /\ Tail(inbox) \in Seq(EventSet)
  BY DEF View!Handle, ViewInv
<1> QED
  BY <1>1 DEF View!Handle, View!server

LEMMA ViewStepKeeps == ASSUME ViewInv, View!Next PROVE ViewInv'
<1>1. ASSUME NEW q \in View!Query, View!Write(q) PROVE ViewInv'
  BY <1>1 DEF View!Write, ViewInv, View!queries, View!socket
<1>2. ASSUME NEW q \in View!Query, View!Serve(q) \/ View!Fail(q) \/ View!Poll(q) PROVE ViewInv'
  BY <1>2, ViewRests DEF View!Serve, View!Read, View!Arrive, View!Fail, View!Poll, View!server, View!socket
<1>3. ASSUME NEW a \in Viewers, NEW type \in {"STATUS_CHANGED", "HEARTBEAT"}, View!Publish(a, type)
      PROVE  ViewInv'
  <2>1. [agent |-> a, type |-> type, told |-> version] \in EventSet
    BY DEF ViewInv, EventSet
  <2>2. inbox' \in Seq(EventSet) /\ UNCHANGED <<version, promised>>
    BY <1>3, <2>1 DEF View!Publish, ViewInv, View!server, View!queries
  <2> QED
    BY <2>2 DEF ViewInv
<1>4. CASE View!Handle
  <2>1. PICK event \in EventSet :
           /\ version' = version /\ inbox' \in Seq(EventSet)
           /\ promised' = [q \in View!Query |->
                  IF /\ q \in View!Active /\ event.type # "HEARTBEAT" /\ View!TellsOf(event, q)
                     /\ event.told[q] > promised[q]
                  THEN event.told[q] ELSE promised[q]]
    BY <1>4, HandleIs
  <2>2. \A q \in View!Query : event.told[q] \in Nat
    BY DEF EventSet
  <2> QED
    BY <2>1, <2>2 DEF ViewInv
<1>5. ASSUME View!Subscribe \/ View!Open \/ View!Close \/ View!Reconnect \/ View!LateClose PROVE ViewInv'
  BY <1>5, ViewRests DEF View!Subscribe, View!Open, View!Close, View!Reconnect, View!LateClose,
                         View!server, View!queries
<1>6. ASSUME View!Drop \/ \E a \in Viewers : View!Select(a) PROVE ViewInv'
  <2>1. inbox' = <<>> /\ UNCHANGED <<version, promised>>
    BY <1>6 DEF View!Drop, View!Select, View!server, View!queries
  <2> QED
    BY <2>1 DEF ViewInv
<1> QED
  BY <1>1, <1>2, <1>3, <1>4, <1>5, <1>6 DEF View!Next, View!Deliver

LEMMA OnlyHandlingTells ==
    ASSUME ViewInv, View!Next, promised' # promised
    PROVE  View!Handle
BY DEF View!Next, View!Deliver, View!Serve, View!Write, View!Read, View!Arrive, View!Fail, View!Poll,
       View!Publish, View!Subscribe, View!Open, View!Close, View!Reconnect, View!LateClose, View!Drop,
       View!Select, View!queries

LEMMA ToldIsFetched ==
    ASSUME ViewInv, View!Next, NEW q \in View!Active, data[q] # View!Unloaded,
           promised'[q] > promised[q], q.agent \in {View!All, selected}
    PROVE  fetch'[q] = View!Sent
<1>1. q \in View!Query /\ promised[q] \in Nat
  BY DEF View!Active, ViewInv
<1>2. View!Handle
  BY <1>1, OnlyHandlingTells
<1>3. PICK event \in EventSet :
        /\ fetch' = [p \in View!Query |->
               IF p \in View!Active /\ event.type # "HEARTBEAT" /\ View!Concerns(event, p)
               THEN View!Refetched(p) ELSE fetch[p]]
        /\ promised' = [p \in View!Query |->
               IF /\ p \in View!Active /\ event.type # "HEARTBEAT" /\ View!TellsOf(event, p)
                  /\ event.told[p] > promised[p]
               THEN event.told[p] ELSE promised[p]]
  BY <1>2, HandleIs
<1>4. event.type # "HEARTBEAT" /\ View!TellsOf(event, q)
  BY <1>1, <1>3
<1>5. View!Concerns(event, q)
  <2>1. event.agent \in Viewers /\ event.agent # View!All
    BY Bounds DEF EventSet, View!All
  <2> QED
    BY <1>4, <2>1 DEF View!TellsOf, View!Concerns
<1>6. View!Refetched(q) = View!Sent
  BY DEF View!Refetched
<1> QED
  BY <1>1, <1>3, <1>4, <1>5, <1>6

(* handleMessage: whatever an event tells of the workspace or the selected    *)
(* agent is asked for anew when the event is handled, however events,         *)
(* selections and answers follow each other.                                  *)
THEOREM ToldIsAskedFor == SpecIn => ToldIsShown
<1>1. InitIn => ViewInv
  BY InitView DEF InitIn
<1>2. ViewInv /\ [NextIn]_all => ViewInv'
  BY ViewStepKeeps, ViewRests DEF NextIn, all, viewVars
<1> DEFINE Shows == \A q \in View!Active :
               (data[q] # View!Unloaded /\ promised'[q] > promised[q] /\ q.agent \in {View!All, selected}) =>
                 \/ data'[q] >= promised'[q]
                 \/ fetch'[q] = View!Sent
                 \/ fetch'[q].version >= promised'[q]
<1>3. ViewInv /\ [NextIn]_all => [Shows]_(View!vars)
  <2>1. [NextIn]_all => [View!Next]_(View!vars)
    BY DEF NextIn, all, viewVars, View!vars, View!server, View!queries, View!socket
  <2> QED
    BY <2>1, ToldIsFetched
<1> QED
  BY <1>1, <1>2, <1>3, PTL DEF SpecIn, ToldIsShown, View!ToldIsShown
=============================================================================
