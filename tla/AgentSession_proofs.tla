------------------------ MODULE AgentSession_proofs -------------------------
(***************************************************************************)
(* Theorems about AgentSession, for any number of callers, sessions,       *)
(* requests and crashes, every provider, and with or without failures and  *)
(* aborts.                                                                 *)
(*                                                                         *)
(* SessionServesOne is not inductive: that a session is free when its      *)
(* holder has gone must be known too.  Holding says of a chain and a       *)
(* session that they refer to each other; with it, and with the handle     *)
(* being live, what the row of the agent shows is true.                    *)
(*                                                                         *)
(* And about Delegation, for any limit on spawns and any numbers of agents,*)
(* handoffs and runs: the depth a spawned agent is given counts the spawns *)
(* before it (DepthsCount), so that the limit on depths is one on spawns   *)
(* in a row; that is an induction along a row, over sets of numbers        *)
(* (LeastNat), because the provers cannot instantiate one over predicates. *)
(***************************************************************************)
EXTENDS MCAgents, SequenceTheorems, WellFoundedInduction, TLAPS

USE DEF FindRuntime, StartSession, Recoverable

Holding ==
  /\ \A c \in Chains : pc[c] \in {"starting", "sending", "fetching", "streaming"} => session[c] \in Sessions
  /\ \A s \in Sessions : activeRun[s] # NoChain =>
        pc[activeRun[s]] \in {"fetching", "streaming"} /\ session[activeRun[s]] = s
  /\ \A c \in Chains : pc[c] = "starting" => runtimes # 0

IInv == TypeOK /\ Holding /\ HandleIsLive /\ SessionServesOne /\ StateIsTrue

LEMMA NatBounds ==
  MaxSessions \in Nat /\ MaxRequests \in Nat /\ MaxCrashes \in Nat /\ NoChain \notin Chains
BY AgentSessionAssumption

LEMMA InitIInv == Init => IInv
<1> SUFFICES ASSUME Init PROVE IInv
  OBVIOUS
<1>1. TypeOK
  <2>1. up \in BOOLEAN /\ owed \in BOOLEAN
    BY DEF Init
  <2>2. activeRun \in [Sessions -> Chains \cup {NoChain}] /\ history \in [Sessions -> {"closed", "open"}]
    BY DEF Init, Free
  <2>3. /\ pc \in [Chains -> Pcs] /\ session \in [Chains -> 0..MaxSessions]
        /\ wants \in [Chains -> Wants] /\ tries \in [Chains -> 0..1]
    BY NatBounds DEF Init, Each, Pcs, Wants
  <2> QED
    BY <2>1, <2>2, <2>3, NatBounds DEF Init, TypeOK, AgentStates
<1>2. Holding /\ HandleIsLive /\ SessionServesOne /\ StateIsTrue
  BY DEF Init, Holding, HandleIsLive, SessionServesOne, StateIsTrue, Free, Each
<1> QED
  BY <1>1, <1>2 DEF IInv

(* The flags of the process: booleans stay booleans.                       *)
FlagsOK == up \in BOOLEAN /\ owed \in BOOLEAN
TablesOK ==
  /\ state \in AgentStates
  /\ runtimes \in 0..MaxSessions /\ sessions \subseteq Sessions
  /\ activeRun \in [Sessions -> Chains \cup {NoChain}]
  /\ aborted \subseteq Chains
  /\ history \in [Sessions -> {"closed", "open"}]
  /\ pc \in [Chains -> Pcs] /\ session \in [Chains -> 0..MaxSessions] /\ wants \in [Chains -> Wants]
  /\ tries \in [Chains -> 0..1]
  /\ made \in 0..MaxSessions /\ requests \in 0..MaxRequests /\ crashes \in 0..MaxCrashes

LEMMA TypeParts == TypeOK <=> FlagsOK /\ TablesOK
BY DEF TypeOK, FlagsOK, TablesOK

LEMMA FlagsStep == FlagsOK /\ [Next]_vars => FlagsOK'
BY Zenon DEF FlagsOK, Next, Turn, vars, Recover, Crash, Stop, Interrupt, Interrupted, Fail, Cut, Finish, Stream,
   AnswerMock, Ask, RefuseBusy, Ready, CreateSession, Arrive

LEMMA TablesStep == TablesOK /\ Holding /\ [Next]_vars => TablesOK'
<1> USE NatBounds DEF Sessions, memory, chains, limits, TablesOK, Pcs, Wants, AgentStates
<1> SUFFICES ASSUME TablesOK, Holding, [Next]_vars PROVE TablesOK'
  OBVIOUS
<1>1. ASSUME NEW c \in Chains, NEW w \in Wants \ {"nothing"}, Arrive(c, w) PROVE TablesOK'
  <2>1. requests' \in 0..MaxRequests
    BY <1>1, Zenon, SMT DEF Arrive
  <2>2. pc' \in [Chains -> Pcs] /\ session' \in [Chains -> 0..MaxSessions] /\ wants' \in [Chains -> Wants]
    BY <1>1 DEF Arrive, Goto
  <2> QED
    BY <1>1, <2>1, <2>2 DEF Arrive
<1>2. ASSUME NEW c \in Chains, CreateSession(c) PROVE TablesOK'
  BY <1>2 DEF CreateSession, Goto
<1>3. ASSUME NEW c \in Chains, Ready(c) PROVE TablesOK'
  <2>1. pc' \in [Chains -> Pcs] /\ session' \in [Chains -> 0..MaxSessions] /\ wants' \in [Chains -> Wants]
        /\ tries' \in [Chains -> 0..1]
    <3>1. CASE Return(c)
      BY <3>1 DEF Return, Goto
    <3>2. CASE Goto(c, "sending") /\ UNCHANGED <<session, wants, tries>>
      BY <3>2 DEF Goto
    <3> QED
      BY <1>3, <3>1, <3>2 DEF Ready
  <2> QED
    BY <1>3, <2>1 DEF Ready
<1>4. ASSUME NEW c \in Chains, RefuseBusy(c) PROVE TablesOK'
  BY <1>4 DEF RefuseBusy, Goto, Return
<1>5. ASSUME NEW c \in Chains, Ask(c) PROVE TablesOK'
  BY <1>5 DEF Ask, Goto, Holding
<1>6. ASSUME NEW c \in Chains, NEW b \in BOOLEAN, AnswerMock(c, b) PROVE TablesOK'
  <2>1. history' \in [Sessions -> {"closed", "open"}]
    BY <1>6 DEF AnswerMock, Extend
  <2>2. pc' \in [Chains -> Pcs] /\ session' \in [Chains -> 0..MaxSessions] /\ wants' \in [Chains -> Wants]
        /\ tries' \in [Chains -> 0..1]
    BY <1>6 DEF AnswerMock, Return, Goto
  <2> QED
    BY <1>6, <2>1, <2>2 DEF AnswerMock
<1>7. ASSUME NEW c \in Chains, Stream(c) PROVE TablesOK'
  BY <1>7 DEF Stream, Goto
<1>8. ASSUME NEW c \in Chains, NEW b \in BOOLEAN, Finish(c, b) PROVE TablesOK'
  BY <1>8 DEF Finish, Extend, Release, Goto, Return, Holding
<1>9. ASSUME NEW c \in Chains, NEW b \in BOOLEAN, Cut(c, b) PROVE TablesOK'
  BY <1>9 DEF Cut, Extend, Release, Goto, Return, Holding
<1>10. ASSUME NEW c \in Chains, Fail(c) PROVE TablesOK'
  BY <1>10 DEF Fail, Release, Goto, Return, Holding
<1>11. ASSUME NEW c \in Chains, Interrupted(c) PROVE TablesOK'
  BY <1>11 DEF Interrupted, Release, Goto, Return, Holding
<1>12. ASSUME Interrupt PROVE TablesOK'
  BY <1>12 DEF Interrupt, Abort
<1>13. ASSUME Stop PROVE TablesOK'
  <2>1. ASSUME runtimes # 0, Abort(runtimes) PROVE aborted' \subseteq Chains
    <3>1. activeRun[runtimes] \in Chains \cup {NoChain}
      BY <2>1
    <3> QED
      BY <2>1, <3>1 DEF Abort
  <2>2. aborted' \subseteq Chains /\ sessions' \subseteq Sessions /\ runtimes' \in 0..MaxSessions
    <3>1. CASE runtimes # 0 /\ Abort(runtimes) /\ sessions' = sessions \ {runtimes} /\ runtimes' = 0
      <4>1. aborted' \subseteq Chains
        BY <2>1, <3>1
      <4> QED
        BY <3>1, <4>1
    <3>2. CASE UNCHANGED <<aborted, sessions, runtimes>>
      BY <3>2
    <3> QED
      BY <1>13, <3>1, <3>2 DEF Stop
  <2>3. state' = "STOPPED" /\ UNCHANGED <<activeRun, history, pc, session, wants, tries, made, requests, crashes>>
    BY <1>13 DEF Stop
  <2> QED
    BY <2>2, <2>3
<1>14. ASSUME Crash PROVE TablesOK'
  BY <1>14 DEF Crash, Free, Each
<1>15. ASSUME Recover PROVE TablesOK'
  BY <1>15 DEF Recover
<1>16. CASE UNCHANGED vars
  BY <1>16 DEF vars
<1> QED
  BY <1>1, <1>2, <1>3, <1>4, <1>5, <1>6, <1>7, <1>8, <1>9, <1>10, <1>11, <1>12, <1>13, <1>14, <1>15, <1>16 DEF Next, Turn

(* Chains and sessions refer to each other, the session that a chain uses is  *)
(* its own, and a chain that creates a session has a handle.                  *)
Pairs == Holding /\ SessionServesOne

LEMMA PairsStep == TypeOK /\ Pairs /\ [Next]_vars => Pairs'
<1> USE NatBounds DEF Sessions, memory, chains, limits, TablesOK, Pairs, Holding, SessionServesOne
<1> SUFFICES ASSUME TablesOK, Pairs, [Next]_vars PROVE Pairs'
  BY TypeParts
<1>1. ASSUME NEW c \in Chains, NEW w \in Wants \ {"nothing"}, Arrive(c, w) PROVE Pairs'
  <2>1. pc[c] = "idle" /\ UNCHANGED <<activeRun, runtimes>>
    BY <1>1 DEF Arrive
  <2>2. CASE runtimes # 0 /\ session' = [session EXCEPT ![c] = runtimes] /\ Goto(c, "sending")
    BY <2>1, <2>2, SMTT(30) DEF Goto
  <2>3. CASE UNCHANGED <<session, pc>>
    BY <2>1, <2>3
  <2>4. CASE Goto(c, "loading") /\ UNCHANGED session
    BY <2>1, <2>4, SMTT(30) DEF Goto
  <2> QED
    BY <1>1, <2>2, <2>3, <2>4 DEF Arrive
<1>2. ASSUME NEW c \in Chains, CreateSession(c) PROVE Pairs'
  BY <1>2, SMTT(30) DEF CreateSession, Goto
<1>3. ASSUME NEW c \in Chains, Ready(c) PROVE Pairs'
  <2>1. pc[c] = "starting" /\ UNCHANGED <<activeRun, runtimes>>
    BY <1>3 DEF Ready
  <2>2. CASE Return(c)
    BY <2>1, <2>2, SMTT(30) DEF Return, Goto
  <2>3. CASE Goto(c, "sending") /\ UNCHANGED session
    BY <2>1, <2>3, SMTT(30) DEF Goto
  <2> QED
    BY <1>3, <2>2, <2>3 DEF Ready
<1>4. ASSUME NEW c \in Chains, RefuseBusy(c) PROVE Pairs'
  BY <1>4, SMTT(30) DEF RefuseBusy, Goto, Return
<1>5. ASSUME NEW c \in Chains, Ask(c) PROVE Pairs'
  BY <1>5, SMTT(30) DEF Ask, Goto
<1>6. ASSUME NEW c \in Chains, NEW b \in BOOLEAN, AnswerMock(c, b) PROVE Pairs'
  BY <1>6, SMTT(30) DEF AnswerMock, Extend, Goto, Return
<1>7. ASSUME NEW c \in Chains, Stream(c) PROVE Pairs'
  BY <1>7, SMTT(30) DEF Stream, Goto
<1>8. ASSUME NEW c \in Chains, NEW b \in BOOLEAN, Finish(c, b) PROVE Pairs'
  BY <1>8, SMTT(30) DEF Finish, Extend, Release, Goto, Return
<1>9. ASSUME NEW c \in Chains, NEW b \in BOOLEAN, Cut(c, b) PROVE Pairs'
  BY <1>9, SMTT(30) DEF Cut, Extend, Release, Goto, Return
<1>10. ASSUME NEW c \in Chains, Fail(c) PROVE Pairs'
  BY <1>10, SMTT(30) DEF Fail, Release, Goto, Return
<1>11. ASSUME NEW c \in Chains, Interrupted(c) PROVE Pairs'
  BY <1>11, SMTT(30) DEF Interrupted, Release, Goto, Return
<1>12. ASSUME Interrupt PROVE Pairs'
  BY <1>12, SMTT(30) DEF Interrupt, Abort
<1>13. ASSUME Stop PROVE Pairs'
  <2>1. UNCHANGED <<activeRun, pc, session>> /\ \A c \in Chains : pc[c] # "starting"
    BY <1>13 DEF Stop, Idle
  <2> QED
    BY <2>1
<1>14. ASSUME Crash PROVE Pairs'
  BY <1>14, SMTT(30) DEF Crash, Free, Each
<1>15. ASSUME Recover PROVE Pairs'
  BY <1>15, SMTT(30) DEF Recover
<1>16. CASE UNCHANGED vars
  BY <1>16 DEF vars
<1> QED
  BY <1>1, <1>2, <1>3, <1>4, <1>5, <1>6, <1>7, <1>8, <1>9, <1>10, <1>11, <1>12, <1>13, <1>14, <1>15, <1>16 DEF Next, Turn

(* The handle leads to a live session.                                      *)
LEMMA HandleStep == TypeOK /\ HandleIsLive /\ [Next]_vars => HandleIsLive'
<1> SUFFICES ASSUME TypeOK, HandleIsLive, [Next]_vars PROVE HandleIsLive'
  OBVIOUS
<1>1. CASE UNCHANGED <<runtimes, sessions>>
  BY <1>1 DEF HandleIsLive
<1>2. ASSUME NEW c \in Chains, CreateSession(c) PROVE HandleIsLive'
  BY <1>2 DEF HandleIsLive, CreateSession
<1>3. CASE Stop
  BY <1>3 DEF HandleIsLive, Stop
<1>4. CASE Crash
  BY <1>4 DEF HandleIsLive, Crash
<1> QED
  BY <1>1, <1>2, <1>3, <1>4, Zenon DEF Next, Turn, vars, memory, Recover, Interrupt, Interrupted, Fail, Cut,
     Finish, Stream, AnswerMock, Ask, RefuseBusy, Ready, Arrive

(* The row of the agent says what the process does.                         *)
LEMMA StateStep == TypeOK /\ Pairs /\ StateIsTrue /\ [Next]_vars => StateIsTrue'
<1> USE NatBounds DEF Sessions, memory, chains, limits, TablesOK, Pairs, Holding, StateIsTrue, Sending
<1> SUFFICES ASSUME TablesOK, Pairs, StateIsTrue, [Next]_vars PROVE StateIsTrue'
  BY TypeParts
<1>1. ASSUME NEW c \in Chains, NEW w \in Wants \ {"nothing"}, Arrive(c, w) PROVE StateIsTrue'
  BY <1>1, SMTT(30) DEF Arrive, Goto
<1>2. ASSUME NEW c \in Chains, CreateSession(c) PROVE StateIsTrue'
  BY <1>2, SMTT(30) DEF CreateSession, Goto
<1>3. ASSUME NEW c \in Chains, Ready(c) PROVE StateIsTrue'
  BY <1>3, SMTT(30) DEF Ready, Goto, Return
<1>4. ASSUME NEW c \in Chains, RefuseBusy(c) PROVE StateIsTrue'
  BY <1>4, SMTT(30) DEF RefuseBusy, Goto, Return
<1>5. ASSUME NEW c \in Chains, Ask(c) PROVE StateIsTrue'
  BY <1>5, SMTT(30) DEF Ask, Goto
<1>6. ASSUME NEW c \in Chains, NEW b \in BOOLEAN, AnswerMock(c, b) PROVE StateIsTrue'
  BY <1>6, SMTT(30) DEF AnswerMock, Extend, Goto, Return
<1>7. ASSUME NEW c \in Chains, Stream(c) PROVE StateIsTrue'
  BY <1>7, SMTT(30) DEF Stream, Goto
<1>8. ASSUME NEW c \in Chains, NEW b \in BOOLEAN, Finish(c, b) PROVE StateIsTrue'
  BY <1>8, SMTT(30) DEF Finish, Extend, Release, Goto, Return
<1>9. ASSUME NEW c \in Chains, NEW b \in BOOLEAN, Cut(c, b) PROVE StateIsTrue'
  BY <1>9, SMTT(30) DEF Cut, Extend, Release, Goto, Return
<1>10. ASSUME NEW c \in Chains, Fail(c) PROVE StateIsTrue'
  BY <1>10, SMTT(30) DEF Fail, Release, Goto, Return
<1>11. ASSUME NEW c \in Chains, Interrupted(c) PROVE StateIsTrue'
  BY <1>11, SMTT(30) DEF Interrupted, Release, Goto, Return
<1>12. ASSUME Interrupt PROVE StateIsTrue'
  BY <1>12, SMTT(30) DEF Interrupt, Abort
<1>13. ASSUME Stop PROVE StateIsTrue'
  BY <1>13, SMTT(30) DEF Stop, Abort
<1>14. ASSUME Crash PROVE StateIsTrue'
  BY <1>14, SMTT(30) DEF Crash, Free, Each
<1>15. ASSUME Recover PROVE StateIsTrue'
  BY <1>15, SMTT(30) DEF Recover
<1>16. CASE UNCHANGED vars
  BY <1>16 DEF vars
<1> QED
  BY <1>1, <1>2, <1>3, <1>4, <1>5, <1>6, <1>7, <1>8, <1>9, <1>10, <1>11, <1>12, <1>13, <1>14, <1>15, <1>16 DEF Next, Turn

LEMMA IInvStep == IInv /\ [Next]_vars => IInv'
<1> SUFFICES ASSUME IInv, [Next]_vars PROVE IInv'
  OBVIOUS
<1>1. TypeOK'
  <2>1. FlagsOK' /\ TablesOK'
    BY TypeParts, FlagsStep, TablesStep DEF IInv
  <2> QED
    BY <2>1 DEF TypeOK, FlagsOK, TablesOK
<1>2. Pairs' /\ HandleIsLive' /\ StateIsTrue'
  BY PairsStep, HandleStep, StateStep DEF IInv, Pairs
<1> QED
  BY <1>1, <1>2 DEF IInv, Pairs

(* The variables of AgentSession keep their types.                          *)
THEOREM SessionTypes == Spec => []TypeOK
<1>1. IInv => TypeOK
  BY DEF IInv
<1> QED
  BY <1>1, InitIInv, IInvStep, PTL DEF Spec

(* The handle of an agent is a session its adapter knows, whatever requests,  *)
(* stops and crashes come in whatever order.                                  *)
THEOREM HandlesAreLive == Spec => []HandleIsLive
<1>1. IInv => HandleIsLive
  BY DEF IInv
<1> QED
  BY <1>1, InitIInv, IInvStep, PTL DEF Spec

(* The adapters' activeRun excludes: at most one request at a time extends a  *)
(* conversation, and a chain that asks or streams holds its session.          *)
THEOREM SessionsServeOne == Spec => []SessionServesOne
<1>1. IInv => SessionServesOne
  BY DEF IInv
<1> QED
  BY <1>1, InitIInv, IInvStep, PTL DEF Spec

(* RUNNING is shown only while a request is under way, READY only while there *)
(* is a session: no error, abort, busy session or crash leaves them behind.   *)
THEOREM StatesAreTrue == Spec => []StateIsTrue
<1>1. IInv => StateIsTrue
  BY DEF IInv
<1> QED
  BY <1>1, InitIInv, IInvStep, PTL DEF Spec

-----------------------------------------------------------------------------
(* How agents come to be, in both settings of Delegation.                  *)

Made ==
  [by : {"operator", "spawn", "handoff"}, parent : Nat, depth : 0..MaxSpawnDepth, autoStart : BOOLEAN]
Handed == [from : Nat, auto : BOOLEAN, status : {"OPEN", "ASSIGNED", "DONE", "DISMISSED"}, agent : Nat]

CrewTypes == agents \in Seq(Made) /\ handoffs \in Seq(Handed)

\* A spawned agent is one level deeper than the agent that spawned it.
DepthsCount ==
  \A a \in DOMAIN agents : agents[a].by = "spawn" =>
    agents[a].parent \in DOMAIN agents /\ agents[a].depth = agents[agents[a].parent].depth + 1

CrewInv == CrewTypes /\ DepthsCount

Entry(by, parent, depth) == [by |-> by, parent |-> parent, depth |-> depth, autoStart |-> FALSE]
Joins(entry) == agents' = agents \o <<entry>>

\* What a step does to the table of agents.
Grows ==
  \/ agents' = agents
  \/ \E by \in {"operator", "handoff"}, p \in Nat : Joins(Entry(by, p, 0))
  \/ \E a \in DOMAIN agents : agents[a].depth < MaxSpawnDepth /\ Joins(Entry("spawn", a, agents[a].depth + 1))
  \/ \E a \in DOMAIN agents : agents' = [agents EXCEPT ![a].autoStart = TRUE]

LEMMA DepthNat == MaxSpawnDepth \in Nat
BY CrewAssumption DEF Spawning!DelegationAssumption

LEMMA EntryMade ==
  ASSUME NEW by \in {"operator", "spawn", "handoff"}, NEW p \in Nat, NEW d \in 0..MaxSpawnDepth
  PROVE  Entry(by, p, d) \in Made
BY DEF Entry, Made

LEMMA DomainIsNat == ASSUME CrewTypes PROVE DOMAIN agents = 1..Len(agents) /\ Len(agents) \in Nat
BY DEF CrewTypes

LEMMA EntriesAreMade ==
  ASSUME CrewTypes
  PROVE  /\ \A a \in DOMAIN agents : a \in Nat /\ agents[a] \in Made /\ agents[a].depth \in 0..MaxSpawnDepth
         /\ \A h \in DOMAIN handoffs : handoffs[h].from \in Nat
<1>1. \A a \in DOMAIN agents : a \in Nat /\ agents[a] \in Made
  BY DomainIsNat, ElementOfSeq DEF CrewTypes
<1>2. \A h \in DOMAIN handoffs : handoffs[h] \in Handed
  BY ElementOfSeq DEF CrewTypes
<1>3. \A e \in Made : e.depth \in 0..MaxSpawnDepth
  BY DEF Made
<1>4. \A e \in Handed : e.from \in Nat
  BY DEF Handed
<1> QED
  BY <1>1, <1>2, <1>3, <1>4

LEMMA JoinKeeps ==
  ASSUME CrewInv, NEW e \in Made, Joins(e),
         e.by = "spawn" => e.parent \in DOMAIN agents /\ e.depth = agents[e.parent].depth + 1
  PROVE  agents' \in Seq(Made) /\ DepthsCount'
<1> DEFINE n == Len(agents)
<1>1. n \in Nat /\ DOMAIN agents = 1..n
  BY DomainIsNat DEF CrewInv
<1>2. agents' \in Seq(Made) /\ DOMAIN agents' = 1..(n + 1) /\ agents'[n + 1] = e
      /\ \A i \in 1..n : agents'[i] = agents[i]
  <2>1. <<e>> \in Seq(Made) /\ Len(<<e>>) = 1 /\ <<e>>[1] = e
    OBVIOUS
  <2>2. agents' \in Seq(Made) /\ Len(agents') = n + 1
        /\ \A i \in 1..(n + 1) : agents'[i] = IF i <= n THEN agents[i] ELSE <<e>>[i - n]
    BY <2>1, ConcatProperties DEF CrewInv, CrewTypes, Joins
  <2> QED
    BY <1>1, <2>1, <2>2
<1> HIDE DEF n
<1>3. DepthsCount'
  <2> SUFFICES ASSUME NEW a \in 1..(n + 1), agents'[a].by = "spawn"
               PROVE  agents'[a].parent \in 1..(n + 1)
                      /\ agents'[a].depth = agents'[agents'[a].parent].depth + 1
    BY <1>2 DEF DepthsCount
  <2>1. CASE a = n + 1
    BY <1>1, <1>2, <2>1
  <2>2. CASE a \in 1..n
    BY <1>1, <1>2, <2>2 DEF CrewInv, DepthsCount
  <2> QED
    BY <1>1, <2>1, <2>2
<1> QED
  BY <1>2, <1>3

LEMMA GrowKeeps == ASSUME CrewInv, Grows, handoffs' \in Seq(Handed) PROVE CrewInv'
<1>1. CASE agents' = agents
  BY <1>1 DEF CrewInv, CrewTypes, DepthsCount
<1>2. ASSUME NEW by \in {"operator", "handoff"}, NEW p \in Nat, Joins(Entry(by, p, 0))
      PROVE  CrewInv'
  <2>1. Entry(by, p, 0) \in Made /\ Entry(by, p, 0).by # "spawn"
    BY DepthNat, EntryMade DEF Entry
  <2> QED
    BY <1>2, <2>1, JoinKeeps DEF CrewInv, CrewTypes
<1>3. ASSUME NEW a \in DOMAIN agents, agents[a].depth < MaxSpawnDepth,
             Joins(Entry("spawn", a, agents[a].depth + 1))
      PROVE  CrewInv'
  <2> DEFINE e == Entry("spawn", a, agents[a].depth + 1)
  <2>1. a \in Nat /\ agents[a].depth \in 0..MaxSpawnDepth
    BY EntriesAreMade DEF CrewInv
  <2>2. e \in Made
    BY <1>3, <2>1, DepthNat, EntryMade
  <2>3. e.parent = a /\ e.depth = agents[a].depth + 1
    BY DEF Entry
  <2> HIDE DEF e
  <2>4. Joins(e)
    BY <1>3 DEF e
  <2> QED
    BY <2>2, <2>3, <2>4, JoinKeeps DEF CrewInv, CrewTypes
<1>4. ASSUME NEW a \in DOMAIN agents, agents' = [agents EXCEPT ![a].autoStart = TRUE]
      PROVE  CrewInv'
  <2> DEFINE e == [agents[a] EXCEPT !.autoStart = TRUE]
  <2>1. DOMAIN agents = 1..Len(agents) /\ agents[a] \in Made
    BY DomainIsNat DEF CrewInv, CrewTypes
  <2>2. e \in Made /\ e.by = agents[a].by /\ e.parent = agents[a].parent /\ e.depth = agents[a].depth
    BY <2>1 DEF Made
  <2> HIDE DEF e
  <2>3. agents' = [agents EXCEPT ![a] = e]
    BY <1>4 DEF e
  <2>4. agents' \in Seq(Made) /\ DOMAIN agents' = DOMAIN agents
        /\ \A i \in DOMAIN agents : agents'[i] = IF i = a THEN e ELSE agents[i]
    BY <2>1, <2>2, <2>3, ExceptSeq DEF CrewInv, CrewTypes
  <2>5. \A i \in DOMAIN agents : /\ agents'[i].by = agents[i].by /\ agents'[i].parent = agents[i].parent
                                 /\ agents'[i].depth = agents[i].depth
    BY <2>2, <2>4
  <2>6. DepthsCount'
    BY <2>4, <2>5 DEF CrewInv, DepthsCount
  <2> QED
    BY <2>4, <2>6 DEF CrewInv, CrewTypes
<1> QED
  BY <1>1, <1>2, <1>3, <1>4 DEF Grows

\* What becomes of the table of handoffs.
LEMMA HandoffsStay ==
  ASSUME CrewTypes, NEW h \in DOMAIN handoffs, NEW s \in {"OPEN", "ASSIGNED", "DONE", "DISMISSED"}, NEW a \in Nat,
         \/ handoffs' = [handoffs EXCEPT ![h].status = s]
         \/ handoffs' = [handoffs EXCEPT ![h].status = s, ![h].agent = a]
  PROVE  handoffs' \in Seq(Handed)
<1> DEFINE e == [handoffs[h] EXCEPT !.status = s]
           f == [e EXCEPT !.agent = a]
<1>1. DOMAIN handoffs = 1..Len(handoffs) /\ handoffs[h] \in Handed
  BY DEF CrewTypes
<1>2. e \in Handed
  BY <1>1 DEF Handed
<1>3. f \in Handed
  BY <1>2 DEF Handed
<1>4. handoffs' = [handoffs EXCEPT ![h] = e] \/ handoffs' = [handoffs EXCEPT ![h] = f]
  BY <1>1
<1> HIDE DEF e, f
<1> QED
  BY <1>1, <1>2, <1>3, <1>4, ExceptSeq DEF CrewTypes

LEMMA HandoffsGrow ==
  ASSUME CrewTypes, NEW a \in Nat, NEW auto \in BOOLEAN,
         handoffs' = handoffs \o <<[from |-> a, auto |-> auto, status |-> "OPEN", agent |-> 0]>>
  PROVE  handoffs' \in Seq(Handed)
<1> DEFINE e == [from |-> a, auto |-> auto, status |-> "OPEN", agent |-> 0]
<1>1. e \in Handed
  BY DEF Handed
<1> HIDE DEF e
<1>2. <<e>> \in Seq(Handed)
  BY <1>1
<1>3. handoffs' = handoffs \o <<e>>
  BY DEF e
<1> QED
  BY <1>2, <1>3, ConcatProperties DEF CrewTypes

LEMMA NewAgentSpawning ==
  ASSUME CrewTypes, NEW h \in DOMAIN handoffs, Spawning!TakeHandoff(h)
  PROVE  Grows /\ handoffs' \in Seq(Handed)
<1>1. handoffs[h].from \in Nat /\ Len(agents) + 1 \in Nat
  BY DomainIsNat, EntriesAreMade
<1>2. Joins(Entry("handoff", handoffs[h].from, 0))
  BY DEF Spawning!TakeHandoff, Spawning!NewAgent, Joins, Entry
<1>3. handoffs' \in Seq(Handed)
  BY <1>1, HandoffsStay DEF Spawning!TakeHandoff, Spawning!Newest
<1> QED
  BY <1>1, <1>2, <1>3 DEF Grows

LEMMA StepSpawning == ASSUME CrewTypes, Spawning!Next PROVE Grows /\ handoffs' \in Seq(Handed)
<1> USE DEF Spawning!Agents, Spawning!Handoffs
<1>1. ASSUME UNCHANGED <<agents, handoffs>> PROVE Grows /\ handoffs' \in Seq(Handed)
  BY <1>1 DEF Grows, CrewTypes
<1>2. CASE Spawning!Crash \/ \E a \in DOMAIN agents : Spawning!StartJob(a) \/ Spawning!AutoStartAgent(a) \/ Spawning!SubmitRun(a) \/ Spawning!FinishRun(a)
  BY <1>1, <1>2 DEF Spawning!Crash, Spawning!StartJob, Spawning!AutoStartAgent, Spawning!SubmitRun, Spawning!FinishRun
<1>3. CASE Spawning!CreateAgent
  <2>1. Joins(Entry("operator", 0, 0)) /\ handoffs' = handoffs
    BY <1>3 DEF Spawning!CreateAgent, Spawning!NewAgent, Joins, Entry
  <2> QED
    BY <2>1 DEF Grows, CrewTypes
<1>4. ASSUME NEW a \in DOMAIN agents, Spawning!SetAutoStart(a) PROVE Grows /\ handoffs' \in Seq(Handed)
  BY <1>4 DEF Spawning!SetAutoStart, Spawning!UpdateAgent, Grows, CrewTypes
<1>5. ASSUME NEW a \in DOMAIN agents, Spawning!Spawn(a) PROVE Grows /\ handoffs' \in Seq(Handed)
  <2>1. agents[a].depth < MaxSpawnDepth /\ Joins(Entry("spawn", a, agents[a].depth + 1)) /\ handoffs' = handoffs
    BY <1>5 DEF Spawning!Spawn, Spawning!NewAgent, Joins, Entry
  <2> QED
    BY <2>1 DEF Grows, CrewTypes
<1>6. ASSUME NEW a \in DOMAIN agents, NEW auto \in BOOLEAN, Spawning!CreateHandoff(a, auto)
      PROVE  Grows /\ handoffs' \in Seq(Handed)
  <2>1. a \in Nat /\ agents' = agents
    BY <1>6, DomainIsNat DEF Spawning!CreateHandoff
  <2> QED
    BY <1>6, <2>1, HandoffsGrow DEF Spawning!CreateHandoff, Grows
<1>7. ASSUME NEW h \in DOMAIN handoffs, Spawning!AutoTake(h) \/ Spawning!OperatorTake(h)
      PROVE  Grows /\ handoffs' \in Seq(Handed)
  BY <1>7, NewAgentSpawning DEF Spawning!AutoTake, Spawning!OperatorTake
<1>8. ASSUME NEW h \in DOMAIN handoffs, NEW a \in DOMAIN agents, Spawning!AssignHandoff(h, a)
      PROVE  Grows /\ handoffs' \in Seq(Handed)
  <2>1. a \in Nat /\ agents' = agents
    BY <1>8, DomainIsNat DEF Spawning!AssignHandoff
  <2> QED
    BY <1>8, <2>1, HandoffsStay DEF Spawning!AssignHandoff, Grows
<1>9. ASSUME NEW h \in DOMAIN handoffs, NEW s \in {"OPEN", "DONE", "DISMISSED"}, Spawning!PatchHandoff(h, s)
      PROVE  Grows /\ handoffs' \in Seq(Handed)
  <2>1. agents' = agents /\ handoffs' = [handoffs EXCEPT ![h].status = s]
    BY <1>9 DEF Spawning!PatchHandoff
  <2>2. handoffs' \in Seq(Handed)
    BY <2>1, HandoffsStay
  <2> QED
    BY <2>1, <2>2 DEF Grows
<1> QED
  BY <1>2, <1>3, <1>4, <1>5, <1>6, <1>7, <1>8, <1>9 DEF Spawning!Next, Spawning!Continue

LEMMA NewAgentRestart ==
  ASSUME CrewTypes, NEW h \in DOMAIN handoffs, Restart!TakeHandoff(h)
  PROVE  Grows /\ handoffs' \in Seq(Handed)
<1>1. handoffs[h].from \in Nat /\ Len(agents) + 1 \in Nat
  BY DomainIsNat, EntriesAreMade
<1>2. Joins(Entry("handoff", handoffs[h].from, 0))
  BY DEF Restart!TakeHandoff, Restart!NewAgent, Joins, Entry
<1>3. handoffs' \in Seq(Handed)
  BY <1>1, HandoffsStay DEF Restart!TakeHandoff, Restart!Newest
<1> QED
  BY <1>1, <1>2, <1>3 DEF Grows

LEMMA StepRestart == ASSUME CrewTypes, Restart!Next PROVE Grows /\ handoffs' \in Seq(Handed)
<1> USE DEF Restart!Agents, Restart!Handoffs
<1>1. ASSUME UNCHANGED <<agents, handoffs>> PROVE Grows /\ handoffs' \in Seq(Handed)
  BY <1>1 DEF Grows, CrewTypes
<1>2. CASE Restart!Crash \/ \E a \in DOMAIN agents : Restart!StartJob(a) \/ Restart!AutoStartAgent(a) \/ Restart!SubmitRun(a) \/ Restart!FinishRun(a)
  BY <1>1, <1>2 DEF Restart!Crash, Restart!StartJob, Restart!AutoStartAgent, Restart!SubmitRun, Restart!FinishRun
<1>3. CASE Restart!CreateAgent
  <2>1. Joins(Entry("operator", 0, 0)) /\ handoffs' = handoffs
    BY <1>3 DEF Restart!CreateAgent, Restart!NewAgent, Joins, Entry
  <2> QED
    BY <2>1 DEF Grows, CrewTypes
<1>4. ASSUME NEW a \in DOMAIN agents, Restart!SetAutoStart(a) PROVE Grows /\ handoffs' \in Seq(Handed)
  BY <1>4 DEF Restart!SetAutoStart, Restart!UpdateAgent, Grows, CrewTypes
<1>5. ASSUME NEW a \in DOMAIN agents, Restart!Spawn(a) PROVE Grows /\ handoffs' \in Seq(Handed)
  <2>1. agents[a].depth < MaxSpawnDepth /\ Joins(Entry("spawn", a, agents[a].depth + 1)) /\ handoffs' = handoffs
    BY <1>5 DEF Restart!Spawn, Restart!NewAgent, Joins, Entry
  <2> QED
    BY <2>1 DEF Grows, CrewTypes
<1>6. ASSUME NEW a \in DOMAIN agents, NEW auto \in BOOLEAN, Restart!CreateHandoff(a, auto)
      PROVE  Grows /\ handoffs' \in Seq(Handed)
  <2>1. a \in Nat /\ agents' = agents
    BY <1>6, DomainIsNat DEF Restart!CreateHandoff
  <2> QED
    BY <1>6, <2>1, HandoffsGrow DEF Restart!CreateHandoff, Grows
<1>7. ASSUME NEW h \in DOMAIN handoffs, Restart!AutoTake(h) \/ Restart!OperatorTake(h)
      PROVE  Grows /\ handoffs' \in Seq(Handed)
  BY <1>7, NewAgentRestart DEF Restart!AutoTake, Restart!OperatorTake
<1>8. ASSUME NEW h \in DOMAIN handoffs, NEW a \in DOMAIN agents, Restart!AssignHandoff(h, a)
      PROVE  Grows /\ handoffs' \in Seq(Handed)
  <2>1. a \in Nat /\ agents' = agents
    BY <1>8, DomainIsNat DEF Restart!AssignHandoff
  <2> QED
    BY <1>8, <2>1, HandoffsStay DEF Restart!AssignHandoff, Grows
<1>9. ASSUME NEW h \in DOMAIN handoffs, NEW s \in {"OPEN", "DONE", "DISMISSED"}, Restart!PatchHandoff(h, s)
      PROVE  Grows /\ handoffs' \in Seq(Handed)
  <2>1. agents' = agents /\ handoffs' = [handoffs EXCEPT ![h].status = s]
    BY <1>9 DEF Restart!PatchHandoff
  <2>2. handoffs' \in Seq(Handed)
    BY <2>1, HandoffsStay
  <2> QED
    BY <2>1, <2>2 DEF Grows
<1> QED
  BY <1>2, <1>3, <1>4, <1>5, <1>6, <1>7, <1>8, <1>9 DEF Restart!Next, Restart!Continue

\* Induction over the natural numbers, of sets.
Below == {p \in Nat \X Nat : p[1] < p[2]}

LEMMA LeastNat == ASSUME NEW T \in SUBSET Nat, T # {} PROVE \E n \in T : \A k \in T : ~(k < n)
<1>1. IsWellFoundedOn(Below, Nat)
  BY NatLessThanWellFounded DEF OpToRel, Below
<1>2. \A x, y \in Nat : x < y => <<x, y>> \in Below
  BY DEF Below
<1>3. \E x \in T : \A y \in T : <<y, x>> \notin Below
  BY <1>1, WFMin
<1> QED
  BY <1>2, <1>3

\* The n-th of spawned agents in a row is at least n levels deep: the first that was
\* not would be one level deeper than the one before it.
LEMMA RowsGoDown ==
  ASSUME CrewInv, NEW m \in Nat, NEW line \in [1..m -> DOMAIN agents], Spawning!SpawnedInARow(line)
  PROVE  \A n \in 1..m : agents[line[n]].depth >= n
<1> DEFINE Wrong == {n \in 1..m : ~(agents[line[n]].depth >= n)}
<1>1. \A n \in 1..m : line[n] \in DOMAIN agents /\ agents[line[n]].depth \in Nat
  BY EntriesAreMade, DepthNat DEF CrewInv
<1>2. ASSUME NEW n \in Wrong, \A k \in Wrong : ~(k < n) PROVE FALSE
  <2>1. n \in 1..m /\ agents[line[n]].by = "spawn" /\ ~(agents[line[n]].depth >= n)
    BY DEF Spawning!SpawnedInARow
  <2>2. /\ agents[line[n]].parent \in DOMAIN agents
        /\ agents[line[n]].depth = agents[agents[line[n]].parent].depth + 1
    BY <1>1, <2>1 DEF CrewInv, DepthsCount
  <2>3. agents[agents[line[n]].parent].depth \in Nat
    BY <2>2, EntriesAreMade, DepthNat DEF CrewInv
  <2>4. n > 1
    BY <2>1, <2>2, <2>3
  <2>5. n - 1 \in 1..m /\ agents[line[n]].parent = line[n - 1]
    BY <2>1, <2>4 DEF Spawning!SpawnedInARow
  <2>6. agents[line[n - 1]].depth >= n - 1
    BY <1>2, <2>5
  <2> QED
    BY <1>1, <2>1, <2>2, <2>5, <2>6
<1>3. Wrong \in SUBSET Nat
  OBVIOUS
<1> HIDE DEF Wrong
<1>4. Wrong = {}
  BY <1>2, <1>3, LeastNat
<1> QED
  BY <1>4 DEF Wrong

(* An agent at MAX_SPAWN_DEPTH spawns nobody (spawn_agent in tool-broker.ts), *)
(* and nothing else makes an agent deep: however spawns, handoffs, starts and *)
(* restarts interleave, no more than MAX_SPAWN_DEPTH spawns follow in a row.  *)
THEOREM SpawnsStayShallow == SpecIn => []SpawnsAreShallow
<1>1. InitIn => CrewInv
  <2>1. Spawning!Init => agents = <<>> /\ handoffs = <<>>
    BY DEF Spawning!Init
  <2> QED
    BY <2>1 DEF InitIn, CrewInv, CrewTypes, DepthsCount
<1>2. CrewInv /\ [SessionNext \/ CrewNext]_all => CrewInv'
  <2> SUFFICES ASSUME CrewInv, [SessionNext \/ CrewNext]_all PROVE CrewInv'
    OBVIOUS
  <2>1. CASE UNCHANGED crew
    BY <2>1 DEF crew, CrewInv, CrewTypes, DepthsCount
  <2>2. CASE Spawning!Next \/ Restart!Next
    BY <2>2, StepSpawning, StepRestart, GrowKeeps DEF CrewInv
  <2> QED
    BY <2>1, <2>2 DEF SessionNext, CrewNext, all
<1>3. CrewInv => SpawnsAreShallow
  <2> SUFFICES ASSUME CrewInv, NEW line \in [1..(MaxSpawnDepth + 1) -> DOMAIN agents], Spawning!SpawnedInARow(line)
               PROVE  FALSE
    BY DEF SpawnsAreShallow, Spawning!SpawnsAreShallow, Spawning!Agents
  <2>1. MaxSpawnDepth + 1 \in Nat /\ MaxSpawnDepth + 1 \in 1..(MaxSpawnDepth + 1)
    BY DepthNat
  <2>2. agents[line[MaxSpawnDepth + 1]].depth >= MaxSpawnDepth + 1
    BY <2>1, RowsGoDown
  <2>3. agents[line[MaxSpawnDepth + 1]].depth \in 0..MaxSpawnDepth
    BY <2>1, EntriesAreMade DEF CrewInv
  <2> QED
    BY <2>2, <2>3, DepthNat
<1> QED
  BY <1>1, <1>2, <1>3, PTL DEF SpecIn
=============================================================================
