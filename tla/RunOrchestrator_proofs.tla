---------------------- MODULE RunOrchestrator_proofs ----------------------
(***************************************************************************)
(* Theorems about RunOrchestrator, for every number of agents, calls and    *)
(* chains, every limit, and every setting of the environment.               *)
(*                                                                         *)
(* I. Whatever the operator does.  Typing, the type invariant with the      *)
(* facts that keep references between runs, calls and chains within their   *)
(* types, is inductive.  The other invariants are proved relative to it.    *)
(*                                                                         *)
(* II. What holds as long as the operator decides only approvals that are   *)
(* PENDING and stops no run: the life cycle of RunLifecycle and one run of  *)
(* an agent at a time; if besides no answer asks for two calls at once, no  *)
(* run is left behind; and if git does not fail and the process is started  *)
(* again once at most, the maps agree with the tables.  With a key for the  *)
(* synthesis model or without.                                              *)
(*                                                                         *)
(* The invariant of II has three layers.  Discipline says who works on a    *)
(* run: at most one chain drives it, in the state its program counter       *)
(* tells, and a run that waits belongs to the one call it waits for.        *)
(* WorkedOff adds that somebody does, and counts the calls.  Tracked adds   *)
(* what the maps hold.                                                      *)
(***************************************************************************)
EXTENDS RunOrchestrator, TLAPS, FiniteSetTheorems

(* The operations of the rows are one statement each, and always expanded. *)
USE DEF SetCallStatus, AskForApproval, ResolveApproval, ListedPending, QueuedForAgent

-----------------------------------------------------------------------------
(* I. Whatever the operator does                                            *)

Typing == TypeOK /\ ReferencesExist

RunRows  == RunsTyped /\ RunsHaveAgents
CallRows == CallsTyped /\ CallsHaveRuns
ChainsOK == ChainsTyped /\ ChainsHaveRuns

LEMMA NatBounds ==
  {MaxRuns, MaxToolSteps, MaxSendAttempts, MaxStops, MaxDecisions, MaxCrashes} \subseteq Nat
BY ConstantsAssumption

LEMMA TaskOnType == \A r \in Runs : TaskOn(r) \in Tasks /\ TaskOn(r).run = r /\ TaskOn(r).call = NoCall
BY DEF TaskOn, NoTask, Tasks

LEMMA NoTaskType == NoTask \in Tasks
BY DEF NoTask, Tasks

(* The ways a step may move one chain.  Grows: what the chains refer to stays. *)
Grows == /\ created \in Nat /\ created' \in Nat /\ created <= created'
         /\ \A k \in Calls : callRun[k] # 0 => callRun'[k] # 0

LEMMA ChainGoes ==
  ASSUME ChainsOK, Grows, NEW c \in Chains, NEW p \in Pcs \ {"idle"}, pc[c] # "idle",
         Goto(c, p), task' = task, p \in CallPcs => pc[c] \in CallPcs
  PROVE  ChainsOK'
BY SMTT(60) DEF ChainsOK, ChainsTyped, ChainsHaveRuns, Grows, Goto, RunOf

LEMMA ChainFinishes ==
  ASSUME ChainsOK, Grows, NEW c \in Chains, Finish(c)
  PROVE  ChainsOK'
<1>1. pc' \in [Chains -> Pcs]
  BY DEF ChainsOK, ChainsTyped, Finish, Goto, Pcs
<1>2. task' \in [Chains -> Tasks]
  BY NoTaskType DEF ChainsOK, ChainsTyped, Finish
<1>3. ChainsHaveRuns'
  BY SMTT(60) DEF ChainsOK, ChainsTyped, ChainsHaveRuns, Grows, Finish, Goto, RunOf,
     CallPcs
<1> QED
  BY <1>1, <1>2, <1>3 DEF ChainsOK, ChainsTyped

LEMMA ChainTakes ==
  ASSUME ChainsOK, Grows, NEW c \in Chains, NEW p \in Pcs \ {"idle"}, NEW t \in Tasks,
         Goto(c, p), task' = [task EXCEPT ![c] = t], t.run \in 1..created',
         p \in CallPcs => t.call \in Calls /\ callRun'[t.call] # 0
  PROVE  ChainsOK'
<1>1. pc' \in [Chains -> Pcs] /\ task' \in [Chains -> Tasks]
  BY DEF ChainsOK, ChainsTyped, Goto
<1>2. ChainsHaveRuns'
  BY SMTT(60) DEF ChainsOK, ChainsTyped, ChainsHaveRuns, Grows, Goto, RunOf
<1> QED
  BY <1>1, <1>2 DEF ChainsOK, ChainsTyped

LEMMA ChainStays ==
  ASSUME ChainsOK, Grows, pc' = pc, task' = task
  PROVE  ChainsOK'
BY SMTT(60) DEF ChainsOK, ChainsTyped, ChainsHaveRuns, Grows, RunOf

LEMMA ChainContinues ==
  ASSUME ChainsOK, Grows, MaxRuns \in Nat, created' \in 0..MaxRuns, NEW c \in Chains,
         NEW i \in Nat, NEW n \in BOOLEAN, NEW rs,
         pc[c] # "idle", ContinueRun(c, i, n, rs)
  PROVE  ChainsOK'
<1>1. CASE Finish(c)
  BY <1>1, ChainFinishes
<1>2. CASE Goto(c, "fail") /\ UNCHANGED task
  BY <1>2, ChainGoes DEF Pcs, RefreshPcs, CallPcs
<1>3. CASE /\ Goto(c, "prepare")
           /\ task' = [task EXCEPT ![c] = [TaskOn(RunOf(c)) EXCEPT !.iter = i, !.nested = n]]
  <2> DEFINE t == [TaskOn(RunOf(c)) EXCEPT !.iter = i, !.nested = n]
  <2>1. RunOf(c) \in 1..created' /\ RunOf(c) \in Runs
    BY SMTT(60) DEF ChainsOK, ChainsHaveRuns, Grows, Runs
  <2>2. t \in Tasks /\ t.run = RunOf(c)
    BY <2>1 DEF TaskOn, NoTask, Tasks
  <2>3. "prepare" \in Pcs \ {"idle"} /\ "prepare" \notin CallPcs
    BY DEF Pcs, CallPcs
  <2> HIDE DEF t
  <2> QED
    BY <1>3, <2>1, <2>2, <2>3, ChainTakes DEF t
<1> QED
  BY <1>1, <1>2, <1>3 DEF ContinueRun

LEMMA BusyChain ==
  ASSUME RunRows, ChainsOK, NEW c \in Chains, pc[c] # "idle"
  PROVE  RunOf(c) \in Runs /\ RunOf(c) # 0 /\ RunOf(c) <= created /\ AgentOf(c) \in Agents
BY NatBounds, SMTT(60) DEF RunRows, RunsTyped, RunsHaveAgents, ChainsOK, ChainsHaveRuns,
   Runs, AgentOf, RunOf

LEMMA StateWritten ==
  ASSUME NEW f \in [Runs -> ActiveStates \cup TerminalStates \cup {"NONE"}], NEW r,
         NEW s \in ActiveStates \cup TerminalStates
  PROVE  [f EXCEPT ![r] = s] \in [Runs -> ActiveStates \cup TerminalStates \cup {"NONE"}]
OBVIOUS

\* A step that writes runState and activeRuns only.
LEMMA RunRowsWritten ==
  ASSUME RunRows, UNCHANGED <<created, runAgent, held>>,
         runState' \in [Runs -> ActiveStates \cup TerminalStates \cup {"NONE"}],
         activeRuns' \in [Runs -> {"absent", "live", "stopped"}]
  PROVE  RunRows'
BY DEF RunRows, RunsTyped, RunsHaveAgents

LEMMA ReleaseTyped ==
  ASSUME ProcessTyped, NEW c \in Chains, Release(c)
  PROVE  gen' \in [Agents -> Chains \cup {NoChain}] /\ aborted' \subseteq Chains
BY DEF ProcessTyped, Release

LEMMA CallsCreated ==
  ASSUME RunRows, CallRows, ChainsOK, NEW c \in Chains, pc[c] # "idle",
         NEW K \in SUBSET Calls, CreateCalls(c, K)
  PROVE  CallRows' /\ Grows /\ \A k \in K : callRun'[k] = RunOf(c) /\ callRun'[k] # 0
<1>1. RunOf(c) \in Runs /\ RunOf(c) # 0 /\ RunOf(c) <= created
  BY BusyChain
<1> QED
  BY <1>1, NatBounds, SMTT(60) DEF RunRows, RunsTyped, CallRows, CallsTyped,
     CallsHaveRuns, CallStates, CreateCalls, Grows, Runs, runs, memory, history

LEMMA QueuedExists ==
  ASSUME RunRows, NEW q \in Runs, ResumeQueued(q)
  PROVE  q \in 1..created
BY NatBounds, SMTT(60) DEF RunRows, RunsTyped, RunsHaveAgents, ResumeQueued, Runs

LEMMA TypingInit == Init => Typing
BY ConstantsAssumption, SMTT(60) DEF Init, Typing, TypeOK, ReferencesExist, RunsTyped,
   CallsTyped, ChainsTyped, ProcessTyped, RunsHaveAgents, CallsHaveRuns, ChainsHaveRuns,
   NoTask, Runs, Tasks, Pcs, RefreshPcs, CallPcs, CallStates, RunOf

LEMMA TypingStep == Typing /\ [Next]_vars => Typing'
<1> USE NatBounds DEF runs, rows, memory, session, restart, history, budget, calls, Runs
<1> SUFFICES ASSUME RunRows, CallRows, ChainsOK, ProcessTyped, [Next]_vars
             PROVE  RunRows' /\ CallRows' /\ ChainsOK' /\ ProcessTyped'
  BY DEF Typing, TypeOK, ReferencesExist, RunRows, CallRows, ChainsOK
<1> DEFINE Goal == RunRows /\ CallRows /\ ChainsOK /\ ProcessTyped
<1>1. ASSUME NEW c \in Chains, NEW a \in Agents, StartRun(c, a)
      PROVE  Goal'
  <2> USE <1>1 DEF StartRun, RunRows, CallRows
  <2>a. /\ created \in Nat /\ created' = created + 1 /\ created' \in Runs
        /\ created' \in 0..MaxRuns
    BY SMTT(60) DEF RunsTyped
  <2>b. runAgent' = [runAgent EXCEPT ![created'] = a]
    BY <2>a
  <2>1. RunRows'
    <3>1. RunsTyped'
      BY <2>a, <2>b, SMTT(60) DEF RunsTyped, SetRunState, ActiveStates, TerminalStates
    <3>2. RunsHaveAgents'
      BY <2>a, <2>b, SMTT(60) DEF RunsTyped, RunsHaveAgents
    <3> QED
      BY <3>1, <3>2
  <2>2. CallRows'
    BY SMTT(60) DEF CallsTyped, CallsHaveRuns, RunsTyped
  <2>3. Grows
    BY SMTT(60) DEF Grows, RunsTyped, CallsTyped
  <2>4. ChainsOK'
    <3>1. TaskOn(created + 1) \in Tasks /\ TaskOn(created + 1).run \in 1..created'
      BY <2>1, TaskOnType, SMTT(60) DEF RunsTyped
    <3> QED
      BY <2>3, <3>1, ChainTakes DEF Pcs, RefreshPcs, CallPcs
  <2>5. ProcessTyped'
    BY SMTT(60) DEF ProcessTyped
  <2> QED
    BY <2>1, <2>2, <2>4, <2>5
<1>2. ASSUME NEW c \in Chains, GateOpen(c)
      PROVE  Goal'
  <2> USE <1>2 DEF GateOpen, RunRows, CallRows
  <2>1. RunRows'
    BY SMTT(60) DEF RunsTyped, RunsHaveAgents, ContinueRun, Finish, Goto, ActiveStates,
       TerminalStates
  <2>2. CallRows'
    BY SMTT(60) DEF CallsTyped, CallsHaveRuns
  <2>3. Grows
    BY SMTT(60) DEF Grows, RunsTyped, CallsTyped
  <2>4. ChainsOK'
    BY <2>1, <2>3, ChainContinues, NatBounds DEF At, RunsTyped
  <2>5. ProcessTyped'
    BY SMTT(60) DEF ProcessTyped
  <2> QED
    BY <2>1, <2>2, <2>4, <2>5
<1>3. ASSUME NEW c \in Chains, GateClosed(c)
      PROVE  Goal'
  <2> USE <1>3 DEF GateClosed, RunRows, CallRows
  <2>0. RunOf(c) \in Runs
    BY BusyChain DEF At
  <2>1. RunRows'
    <3>1. created' = created /\ runAgent' = runAgent /\ held' = held \cup {AgentOf(c)}
      OBVIOUS
    <3>2. AgentOf(c) \in Agents
      BY BusyChain DEF At
    <3>3. /\ runState' \in [Runs -> ActiveStates \cup TerminalStates \cup {"NONE"}]
          /\ activeRuns' \in [Runs -> {"absent", "live", "stopped"}]
      BY <2>0, SMTT(60) DEF RunsTyped, SetRunState, ActiveStates, TerminalStates
    <3> QED
      BY <3>1, <3>2, <3>3 DEF RunsTyped, RunsHaveAgents
  <2>2. CallRows'
    BY SMTT(60) DEF CallsTyped, CallsHaveRuns
  <2>3. Grows
    BY SMTT(60) DEF Grows, RunsTyped, CallsTyped
  <2>4. ChainsOK'
    BY <2>3, ChainFinishes
  <2>5. ProcessTyped'
    BY SMTT(60) DEF ProcessTyped
  <2> QED
    BY <2>1, <2>2, <2>4, <2>5
<1>4. ASSUME NEW c \in Chains, Send(c)
      PROVE  Goal'
  <2> USE <1>4 DEF Send, RunRows, CallRows
  <2>1. RunRows'
    <3>1. UNCHANGED <<created, runAgent, held, activeRuns>>
      OBVIOUS
    <3>2. runState' \in [Runs -> ActiveStates \cup TerminalStates \cup {"NONE"}]
      BY SMTT(60) DEF RunsTyped, SetRunState, ActiveStates, TerminalStates, Request, FailRun
    <3> QED
      BY <3>1, <3>2, RunRowsWritten DEF RunsTyped
  <2>2. CallRows'
    BY SMTT(60) DEF CallsTyped, CallsHaveRuns
  <2>3. Grows
    BY SMTT(60) DEF Grows, RunsTyped, CallsTyped
  <2>4. ChainsOK'
    BY <2>3, ChainGoes, SMTT(60) DEF At, Pcs, RefreshPcs, CallPcs, Request, FailRun
  <2>5. ProcessTyped'
    BY SMTT(60) DEF ProcessTyped, Request
  <2> QED
    BY <2>1, <2>2, <2>4, <2>5
<1>5. ASSUME NEW c \in Chains, PrepareFails(c)
      PROVE  Goal'
  <2> USE <1>5 DEF PrepareFails, RunRows, CallRows
  <2>0. RunOf(c) \in Runs
    BY BusyChain DEF At
  <2>1. RunRows'
    BY <2>0, SMTT(60) DEF RunsTyped, RunsHaveAgents, SetRunState, ActiveStates,
       TerminalStates
  <2>2. CallRows'
    BY SMTT(60) DEF CallsTyped, CallsHaveRuns
  <2>3. Grows
    BY SMTT(60) DEF Grows, RunsTyped, CallsTyped
  <2>4. ChainsOK'
    BY <2>3, ChainFinishes, ChainGoes DEF At, Pcs, RefreshPcs, CallPcs
  <2>5. ProcessTyped'
    BY SMTT(60) DEF ProcessTyped
  <2> QED
    BY <2>1, <2>2, <2>4, <2>5
<1>6. ASSUME NEW c \in Chains, SendRetryLater(c)
      PROVE  Goal'
  <2> USE <1>6 DEF SendRetryLater, RunRows, CallRows
  <2>1. RunRows'
    BY SMTT(60) DEF RunsTyped, RunsHaveAgents
  <2>2. CallRows'
    BY SMTT(60) DEF CallsTyped, CallsHaveRuns
  <2>3. Grows
    BY SMTT(60) DEF Grows, RunsTyped, CallsTyped
  <2>4. ChainsOK'
    <3> DEFINE t == [task[c] EXCEPT !.tries = @ + 1]
    <3>1. task[c] \in Tasks /\ pc[c] = "send"
      BY DEF ChainsOK, ChainsTyped, Responding, At
    <3>2. t \in Tasks /\ t.run = RunOf(c)
      BY <3>1 DEF Tasks, RunOf
    <3>3. task' = [task EXCEPT ![c] = t]
      BY <3>1 DEF Tasks
    <3>4. t.run \in 1..created'
      BY <2>3, <3>1, <3>2, SMTT(60) DEF ChainsOK, ChainsHaveRuns, Grows
    <3> HIDE DEF t
    <3> QED
      BY <2>3, <3>2, <3>3, <3>4, ChainTakes DEF Pcs, CallPcs
  <2>5. ProcessTyped'
    BY ReleaseTyped DEF ProcessTyped
  <2> QED
    BY <2>1, <2>2, <2>4, <2>5
<1>7. ASSUME NEW c \in Chains, Resend(c)
      PROVE  Goal'
  <2> USE <1>7 DEF Resend, RunRows, CallRows
  <2>1. RunRows'
    BY SMTT(60) DEF RunsTyped, RunsHaveAgents, SetRunState, ActiveStates,
       TerminalStates, FailRun
  <2>2. CallRows'
    BY SMTT(60) DEF CallsTyped, CallsHaveRuns
  <2>3. Grows
    BY SMTT(60) DEF Grows, RunsTyped, CallsTyped
  <2>4. ChainsOK'
    BY <2>3, ChainGoes, SMTT(60) DEF At, Pcs, RefreshPcs, CallPcs, FailRun
  <2>5. ProcessTyped'
    BY SMTT(60) DEF ProcessTyped
  <2> QED
    BY <2>1, <2>2, <2>4, <2>5
<1>8. ASSUME NEW c \in Chains, SendFails(c)
      PROVE  Goal'
  <2> USE <1>8 DEF SendFails, RunRows, CallRows
  <2>1. RunRows'
    BY BusyChain, SMTT(60) DEF RunsTyped, RunsHaveAgents, SetRunState, ActiveStates,
       TerminalStates, At, FailRun
  <2>2. CallRows'
    BY SMTT(60) DEF CallsTyped, CallsHaveRuns
  <2>3. Grows
    BY SMTT(60) DEF Grows, RunsTyped, CallsTyped
  <2>4. ChainsOK'
    BY <2>3, ChainGoes, SMTT(60) DEF At, Pcs, RefreshPcs, CallPcs, FailRun
  <2>5. ProcessTyped'
    BY ReleaseTyped DEF ProcessTyped
  <2> QED
    BY <2>1, <2>2, <2>4, <2>5
<1>9. ASSUME NEW c \in Chains, Answer(c)
      PROVE  Goal'
  <2> USE <1>9 DEF Answer, RunRows, CallRows
  <2>1. RunRows'
    BY SMTT(60) DEF RunsTyped, RunsHaveAgents
  <2>2. CallRows'
    BY SMTT(60) DEF CallsTyped, CallsHaveRuns
  <2>3. Grows
    BY SMTT(60) DEF Grows, RunsTyped, CallsTyped
  <2>4. ChainsOK'
    BY <2>3, ChainGoes, SMTT(60) DEF At, Pcs, RefreshPcs, CallPcs, Responding
  <2>5. ProcessTyped'
    BY ReleaseTyped DEF ProcessTyped
  <2> QED
    BY <2>1, <2>2, <2>4, <2>5
<1>10. ASSUME NEW c \in Chains, Complete(c)
      PROVE  Goal'
  <2> USE <1>10 DEF Complete, RunRows, CallRows
  <2>0. RunOf(c) \in Runs
    BY BusyChain DEF At
  <2>1. RunRows'
    BY <2>0, SMTT(60) DEF RunsTyped, RunsHaveAgents, SetRunState, ActiveStates,
       TerminalStates
  <2>2. CallRows'
    BY SMTT(60) DEF CallsTyped, CallsHaveRuns
  <2>3. Grows
    BY SMTT(60) DEF Grows, RunsTyped, CallsTyped
  <2>4. ChainsOK'
    BY <2>3, ChainGoes, SMTT(60) DEF At, Pcs, RefreshPcs, CallPcs
  <2>5. ProcessTyped'
    BY SMTT(60) DEF ProcessTyped
  <2> QED
    BY <2>1, <2>2, <2>4, <2>5
<1>11. ASSUME NEW c \in Chains, Completed(c)
      PROVE  Goal'
  <2> USE <1>11 DEF Completed, RunRows, CallRows
  <2>1. RunRows'
    BY SMTT(60) DEF RunsTyped, RunsHaveAgents, ResumeQueued, Finish, Goto
  <2>2. CallRows'
    BY SMTT(60) DEF CallsTyped, CallsHaveRuns
  <2>3. Grows
    BY SMTT(60) DEF Grows, RunsTyped, CallsTyped
  <2>4. ChainsOK'
    <3>1. CASE Finish(c)
      BY <2>3, <3>1, ChainFinishes
    <3>2. ASSUME NEW q \in Runs, ResumeQueued(q), Goto(c, "prepare"),
                 task' = [task EXCEPT ![c] = TaskOn(q)]
          PROVE  ChainsOK'
      BY <2>3, <3>2, QueuedExists, ChainTakes, TaskOnType DEF Pcs, CallPcs
    <3> QED
      BY <3>1, <3>2
  <2>5. ProcessTyped'
    BY SMTT(60) DEF ProcessTyped
  <2> QED
    BY <2>1, <2>2, <2>4, <2>5
<1>12. ASSUME NEW c \in Chains, NEW k \in Calls, RequestTool(c, k)
      PROVE  Goal'
  <2> USE <1>12 DEF RequestTool, RunRows, CallRows
  <2>1. RunRows'
    BY SMTT(60) DEF RunsTyped, RunsHaveAgents, CreateCalls
  <2>2. CallRows'
    BY CallsCreated DEF At
  <2>3. Grows
    BY CallsCreated DEF At
  <2>4. ChainsOK'
    <3> DEFINE t == [task[c] EXCEPT !.call = k]
    <3>1. task[c] \in Tasks /\ pc[c] = "answer"
      BY DEF ChainsOK, ChainsTyped, At
    <3>2. t \in Tasks /\ t.run = RunOf(c) /\ t.call = k
      BY <3>1 DEF Tasks, RunOf
    <3>3. task' = [task EXCEPT ![c] = t]
      BY <3>1 DEF Tasks
    <3>4. t.run \in 1..created' /\ callRun'[k] # 0
      BY <2>3, <3>1, <3>2, BusyChain, CallsCreated, SMTT(60) DEF ChainsOK,
         ChainsHaveRuns, Grows
    <3> HIDE DEF t
    <3> QED
      BY <2>3, <3>2, <3>3, <3>4, ChainTakes DEF Pcs, RefreshPcs, CallPcs
  <2>5. ProcessTyped'
    BY SMTT(60) DEF ProcessTyped, CreateCalls
  <2> QED
    BY <2>1, <2>2, <2>4, <2>5
<1>13. ASSUME NEW c \in Chains, NEW k1 \in Calls, NEW k2 \in Calls,
              RequestBatch(c, k1, k2)
      PROVE  Goal'
  <2> USE <1>13 DEF RequestBatch, RunRows, CallRows
  <2>1. RunRows'
    BY BusyChain, SMTT(60) DEF RunsTyped, RunsHaveAgents, SetRunState, ActiveStates,
       TerminalStates, At, FailRun, CreateCalls
  <2>2. CallRows'
    BY CallsCreated DEF At
  <2>3. Grows
    BY CallsCreated DEF At
  <2>4. ChainsOK'
    BY <2>3, ChainGoes, SMTT(60) DEF At, Pcs, RefreshPcs, CallPcs, FailRun
  <2>5. ProcessTyped'
    BY SMTT(60) DEF ProcessTyped, CreateCalls
  <2> QED
    BY <2>1, <2>2, <2>4, <2>5
<1>14. ASSUME NEW c \in Chains, Gate(c)
      PROVE  Goal'
  <2> USE <1>14 DEF Gate, RunRows, CallRows
  <2>0. RunOf(c) \in Runs
    BY BusyChain DEF At
  <2>1. RunRows'
    BY <2>0, SMTT(60) DEF RunsTyped, RunsHaveAgents, SetRunState, ActiveStates,
       TerminalStates
  <2>2. CallRows'
    BY SMTT(60) DEF CallsTyped, CallsHaveRuns, RunsTyped, CallStates, ChainsOK,
       ChainsHaveRuns, CallPcs, At
  <2>3. Grows
    BY SMTT(60) DEF Grows, RunsTyped, CallsTyped
  <2>4. ChainsOK'
    BY <2>3, ChainGoes, SMTT(60) DEF At, Pcs, RefreshPcs, CallPcs
  <2>5. ProcessTyped'
    BY SMTT(60) DEF ProcessTyped
  <2> QED
    BY <2>1, <2>2, <2>4, <2>5
<1>15. ASSUME NEW c \in Chains, Gated(c)
      PROVE  Goal'
  <2> USE <1>15 DEF Gated, RunRows, CallRows
  <2>1. RunRows'
    BY SMTT(60) DEF RunsTyped, RunsHaveAgents
  <2>2. CallRows'
    <3>1. task[c].call \in Calls /\ task[c].iter + 1 \in Nat
      BY SMTT(60) DEF ChainsOK, ChainsTyped, ChainsHaveRuns, Tasks, At, CallPcs
    <3> QED
      BY <3>1, SMTT(60) DEF CallsTyped, CallsHaveRuns
  <2>3. Grows
    BY SMTT(60) DEF Grows, RunsTyped, CallsTyped
  <2>4. ChainsOK'
    BY <2>3, ChainFinishes
  <2>5. ProcessTyped'
    BY SMTT(60) DEF ProcessTyped
  <2> QED
    BY <2>1, <2>2, <2>4, <2>5
<1>16. ASSUME NEW c \in Chains, AutoExecute(c)
      PROVE  Goal'
  <2> USE <1>16 DEF AutoExecute, RunRows, CallRows
  <2>1. RunRows'
    <3>1. UNCHANGED <<created, runAgent, held, runState, activeRuns>>
      OBVIOUS
    <3> QED
      BY <3>1, RunRowsWritten DEF RunsTyped
  <2>2. CallRows'
    <3>1. task[c].call \in Calls
      BY SMTT(60) DEF ChainsOK, ChainsHaveRuns, CallPcs, At
    <3>2. /\ callState' = [callState EXCEPT ![task[c].call] = "running"]
          /\ execs' = [execs EXCEPT ![task[c].call] = execs[task[c].call] + 1]
      BY DEF RunTool
    <3>3. callState' \in [Calls -> CallStates] /\ execs' \in [Calls -> Nat]
      BY <3>1, <3>2, SMTT(60) DEF CallsTyped, CallStates
    <3>4. CallsTyped'
      BY <3>1, <3>3, SMTT(60) DEF CallsTyped
    <3>5. UNCHANGED <<created, callRun, approval>>
      OBVIOUS
    <3> QED
      BY <3>4, <3>5 DEF CallsHaveRuns
  <2>3. Grows
    BY SMTT(60) DEF Grows, RunsTyped, CallsTyped, RunTool
  <2>4. ChainsOK'
    BY <2>3, ChainGoes, SMTT(60) DEF At, Pcs, RefreshPcs, CallPcs, RunTool
  <2>5. ProcessTyped'
    BY SMTT(60) DEF ProcessTyped, RunTool
  <2> QED
    BY <2>1, <2>2, <2>4, <2>5
<1>17. ASSUME NEW c \in Chains, ToolFinishes(c)
      PROVE  Goal'
  <2> USE <1>17 DEF ToolFinishes, RunRows, CallRows
  <2>1. RunRows'
    BY SMTT(60) DEF RunsTyped, RunsHaveAgents
  <2>2. CallRows'
    BY SMTT(60) DEF CallsTyped, CallsHaveRuns, RunsTyped, CallStates, ChainsOK,
       ChainsHaveRuns, CallPcs, At
  <2>3. Grows
    BY SMTT(60) DEF Grows, RunsTyped, CallsTyped
  <2>4. ChainsOK'
    BY <2>3, ChainGoes, SMTT(60) DEF At, Pcs, RefreshPcs, CallPcs
  <2>5. ProcessTyped'
    BY SMTT(60) DEF ProcessTyped
  <2> QED
    BY <2>1, <2>2, <2>4, <2>5
<1>18. ASSUME NEW c \in Chains, NextIteration(c)
      PROVE  Goal'
  <2> USE <1>18 DEF NextIteration, RunRows, CallRows
  <2>1. RunRows'
    <3>1. UNCHANGED <<created, runAgent, held, activeRuns>>
      OBVIOUS
    <3>2. runState' \in [Runs -> ActiveStates \cup TerminalStates \cup {"NONE"}]
      BY SMTT(60) DEF RunsTyped, ContinueRun, Finish, Goto, ActiveStates, TerminalStates
    <3> QED
      BY <3>1, <3>2, RunRowsWritten DEF RunsTyped
  <2>2. CallRows'
    BY SMTT(60) DEF CallsTyped, CallsHaveRuns
  <2>3. Grows
    BY SMTT(60) DEF Grows, RunsTyped, CallsTyped
  <2>4. ChainsOK'
    <3>1. task[c].iter + 1 \in Nat
      BY SMTT(60) DEF ChainsOK, ChainsTyped, Tasks
    <3> QED
      BY <2>1, <2>3, <3>1, ChainContinues, NatBounds DEF At, RunsTyped
  <2>5. ProcessTyped'
    BY SMTT(60) DEF ProcessTyped
  <2> QED
    BY <2>1, <2>2, <2>4, <2>5
<1>19. ASSUME NEW c \in Chains, Failed(c)
      PROVE  Goal'
  <2> USE <1>19 DEF Failed, RunRows, CallRows
  <2>1. RunRows'
    BY BusyChain, SMTT(60) DEF RunsTyped, RunsHaveAgents, At
  <2>2. CallRows'
    BY SMTT(60) DEF CallsTyped, CallsHaveRuns
  <2>3. Grows
    BY SMTT(60) DEF Grows, RunsTyped, CallsTyped
  <2>4. ChainsOK'
    BY <2>3, ChainFinishes
  <2>5. ProcessTyped'
    BY SMTT(60) DEF ProcessTyped
  <2> QED
    BY <2>1, <2>2, <2>4, <2>5
<1>20. ASSUME NEW c \in Chains, NEW k \in Calls, NEW verdict \in {"approve", "deny"},
              Decide(c, k, verdict)
      PROVE  Goal'
  <2> USE <1>20 DEF Decide, RunRows, CallRows
  <2>1. RunRows'
    BY SMTT(60) DEF RunsTyped, RunsHaveAgents
  <2>2. CallRows'
    BY SMTT(60) DEF CallsTyped, CallsHaveRuns
  <2>3. Grows
    BY SMTT(60) DEF Grows, RunsTyped, CallsTyped
  <2>4. ChainsOK'
    <3> DEFINE t == [TaskOn(callRun[k]) EXCEPT !.call = k, !.verdict = verdict]
    <3>1. callRun[k] \in Runs /\ callRun[k] # 0 /\ callRun[k] <= created
      BY SMTT(60) DEF CallsTyped, CallsHaveRuns
    <3>2. t \in Tasks /\ t.run = callRun[k] /\ t.call = k
      BY <3>1 DEF TaskOn, NoTask, Tasks
    <3>3. t.run \in 1..created'
      BY <2>3, <3>1, <3>2, SMTT(60) DEF Grows
    <3> HIDE DEF t
    <3> QED
      BY <2>3, <3>1, <3>2, <3>3, ChainTakes DEF Pcs, RefreshPcs, CallPcs, t
  <2>5. ProcessTyped'
    BY SMTT(60) DEF ProcessTyped
  <2> QED
    BY <2>1, <2>2, <2>4, <2>5
<1>21. ASSUME NEW c \in Chains, ResumeAfterApproval(c)
      PROVE  Goal'
  <2> USE <1>21 DEF ResumeAfterApproval, RunRows, CallRows
  <2>1. RunRows'
    <3>1. UNCHANGED <<created, runState, runAgent>>
      OBVIOUS
    <3>2. \/ UNCHANGED <<activeRuns, held>>
          \/ \E q \in Runs : /\ held' = held \ {runAgent[q]}
                            /\ activeRuns' = [activeRuns EXCEPT ![q] = "live"]
      BY DEF ResumeQueued
    <3> QED
      BY <3>1, <3>2, SMTT(60) DEF RunsTyped, RunsHaveAgents
  <2>2. CallRows'
    BY SMTT(60) DEF CallsTyped, CallsHaveRuns
  <2>3. Grows
    BY SMTT(60) DEF Grows, RunsTyped, CallsTyped
  <2>4. ChainsOK'
    <3> DEFINE next == pendingApprovals[task[c].call]
           pc1 == [pc EXCEPT ![c] = IF next = 0 THEN "idle" ELSE "regate"]
           task1 == [task EXCEPT ![c] = IF next = 0 THEN NoTask ELSE [@ EXCEPT !.iter = next]]
    <3>1. /\ pc[c] = "decide" /\ next \in Nat
          /\ task[c] \in Tasks /\ task[c].run \in 1..created' /\ task[c].call \in Calls
          /\ callRun'[task[c].call] # 0
      BY <2>3, SMTT(60) DEF ChainsOK, ChainsTyped, ChainsHaveRuns, CallsTyped, CallPcs,
         At, Grows, RunOf
    <3>2. /\ pc1 \in [Chains -> Pcs] /\ task1 \in [Chains -> Tasks]
          /\ \A d \in Chains :
               /\ IF pc1[d] = "idle" THEN task1[d] = NoTask ELSE task1[d].run \in 1..created'
               /\ pc1[d] \in CallPcs => task1[d].call \in Calls /\ callRun'[task1[d].call] # 0
      <4> DEFINE t == [task[c] EXCEPT !.iter = next]
      <4>1. t \in Tasks /\ t.run = task[c].run /\ t.call = task[c].call
        BY <3>1 DEF Tasks
      <4>2. task1 = [task EXCEPT ![c] = IF next = 0 THEN NoTask ELSE t]
        BY DEF ChainsOK, ChainsTyped
      <4> HIDE DEF next, t, task1
      <4>3. pc1 \in [Chains -> Pcs] /\ task1 \in [Chains -> Tasks]
        BY <4>1, <4>2, NoTaskType, SMTT(60) DEF ChainsOK, ChainsTyped, Pcs, RefreshPcs
      <4> QED
        BY <2>3, <3>1, <4>1, <4>2, <4>3, SMTT(60) DEF ChainsOK, ChainsTyped,
           ChainsHaveRuns, Grows, RunOf, CallPcs
    <3> HIDE DEF next, pc1, task1
    <3>3. CASE pc' = pc1 /\ task' = task1
      BY <3>2, <3>3 DEF ChainsOK, ChainsTyped, ChainsHaveRuns, RunOf
    <3>4. ASSUME NEW q \in Runs, NEW d \in Chains, ResumeQueued(q),
                 pc' = [pc1 EXCEPT ![d] = "prepare"], task' = [task1 EXCEPT ![d] = TaskOn(q)]
          PROVE  ChainsOK'
      BY <2>3, <3>2, <3>4, QueuedExists, TaskOnType, SMTT(60)
      DEF ChainsOK, ChainsTyped, ChainsHaveRuns, RunOf, CallPcs, Pcs, Grows
    <3> QED
      BY <3>3, <3>4 DEF next, pc1, task1
  <2>5. ProcessTyped'
    BY SMTT(60) DEF ProcessTyped
  <2> QED
    BY <2>1, <2>2, <2>4, <2>5
<1>22. ASSUME NEW c \in Chains, RegateFails(c)
      PROVE  Goal'
  <2> USE <1>22 DEF RegateFails, RunRows, CallRows
  <2>1. RunRows'
    BY SMTT(60) DEF RunsTyped, RunsHaveAgents
  <2>2. CallRows'
    BY SMTT(60) DEF CallsTyped, CallsHaveRuns
  <2>3. Grows
    BY SMTT(60) DEF Grows, RunsTyped, CallsTyped
  <2>4. ChainsOK'
    BY <2>3, ChainFinishes
  <2>5. ProcessTyped'
    BY SMTT(60) DEF ProcessTyped
  <2> QED
    BY <2>1, <2>2, <2>4, <2>5
<1>23. ASSUME NEW c \in Chains, ExecuteApproved(c)
      PROVE  Goal'
  <2> USE <1>23 DEF ExecuteApproved, RunRows, CallRows
  <2>1. RunRows'
    <3>1. UNCHANGED <<created, runAgent, held, runState, activeRuns>>
      OBVIOUS
    <3> QED
      BY <3>1, RunRowsWritten DEF RunsTyped
  <2>2. CallRows'
    <3>1. task[c].call \in Calls
      BY SMTT(60) DEF ChainsOK, ChainsHaveRuns, CallPcs, At
    <3>2. /\ callState' = [callState EXCEPT ![task[c].call] = "running"]
          /\ execs' = [execs EXCEPT ![task[c].call] = execs[task[c].call] + 1]
      BY DEF RunTool
    <3>3. callState' \in [Calls -> CallStates] /\ execs' \in [Calls -> Nat]
      BY <3>1, <3>2, SMTT(60) DEF CallsTyped, CallStates
    <3>p. pendingApprovals' \in [Calls -> Nat]
      BY <3>1, SMTT(60) DEF CallsTyped
    <3>g. UNCHANGED <<callRun, approval, grants, denials>>
      OBVIOUS
    <3>4. CallsTyped'
      BY <3>3, <3>p, <3>g DEF CallsTyped
    <3>5. UNCHANGED <<created, callRun, approval>>
      OBVIOUS
    <3> QED
      BY <3>4, <3>5 DEF CallsHaveRuns
  <2>3. Grows
    BY SMTT(60) DEF Grows, RunsTyped, CallsTyped, RunTool
  <2>4. ChainsOK'
    BY <2>3, ChainGoes, SMTT(60) DEF At, Pcs, RefreshPcs, CallPcs, RunTool
  <2>5. ProcessTyped'
    BY SMTT(60) DEF ProcessTyped, RunTool
  <2> QED
    BY <2>1, <2>2, <2>4, <2>5
<1>24. ASSUME NEW c \in Chains, RefuseDenied(c)
      PROVE  Goal'
  <2> USE <1>24 DEF RefuseDenied, RunRows, CallRows
  <2>1. RunRows'
    BY SMTT(60) DEF RunsTyped, RunsHaveAgents
  <2>2. CallRows'
    BY SMTT(60) DEF CallsTyped, CallsHaveRuns, RunsTyped, CallStates, ChainsOK,
       ChainsHaveRuns, CallPcs, At
  <2>3. Grows
    BY SMTT(60) DEF Grows, RunsTyped, CallsTyped
  <2>4. ChainsOK'
    BY <2>3, ChainGoes, SMTT(60) DEF At, Pcs, RefreshPcs, CallPcs
  <2>5. ProcessTyped'
    BY SMTT(60) DEF ProcessTyped
  <2> QED
    BY <2>1, <2>2, <2>4, <2>5
<1>25. ASSUME NEW c \in Chains, Resume(c)
      PROVE  Goal'
  <2> USE <1>25 DEF Resume, RunRows, CallRows
  <2>1. RunRows'
    <3>1. UNCHANGED <<created, runAgent, held, activeRuns>>
      OBVIOUS
    <3>2. runState' \in [Runs -> ActiveStates \cup TerminalStates \cup {"NONE"}]
      <4> DEFINE rs == [runState EXCEPT ![RunOf(c)] = "RUNNING"]
      <4>1. rs \in [Runs -> ActiveStates \cup TerminalStates \cup {"NONE"}]
        BY StateWritten DEF RunsTyped, ActiveStates
      <4>2. runState' = rs \/ runState' = [rs EXCEPT ![RunOf(c)] = "ERROR"]
        BY DEF ContinueRun
      <4> HIDE DEF rs
      <4> QED
        BY <4>1, <4>2, StateWritten DEF TerminalStates
    <3> QED
      BY <3>1, <3>2, RunRowsWritten DEF RunsTyped
  <2>2. CallRows'
    BY SMTT(60) DEF CallsTyped, CallsHaveRuns
  <2>3. Grows
    BY SMTT(60) DEF Grows, RunsTyped, CallsTyped
  <2>4. ChainsOK'
    <3>1. task[c].iter \in Nat
      BY DEF ChainsOK, ChainsTyped, Tasks
    <3> QED
      BY <2>1, <2>3, <3>1, ChainContinues, NatBounds DEF At, RunsTyped
  <2>5. ProcessTyped'
    BY SMTT(60) DEF ProcessTyped
  <2> QED
    BY <2>1, <2>2, <2>4, <2>5
<1>26. ASSUME NEW c \in Chains, NEW r \in Runs, StopRun(c, r)
      PROVE  Goal'
  <2> USE <1>26 DEF StopRun, RunRows, CallRows
  <2>1. RunRows'
    BY SMTT(60) DEF RunsTyped, RunsHaveAgents, SetRunState, ActiveStates, TerminalStates
  <2>2. CallRows'
    BY SMTT(60) DEF CallsTyped, CallsHaveRuns
  <2>3. Grows
    BY SMTT(60) DEF Grows, RunsTyped, CallsTyped
  <2>4. ChainsOK'
    <3>1. TaskOn(r) \in Tasks /\ TaskOn(r).run \in 1..created'
      BY <2>1, TaskOnType, SMTT(60) DEF RunsTyped
    <3> QED
      BY <2>3, <3>1, ChainTakes DEF Pcs, RefreshPcs, CallPcs
  <2>5. ProcessTyped'
    <3>1. runAgent[r] \in Agents
      BY SMTT(60) DEF RunsTyped, RunsHaveAgents
    <3> QED
      BY <3>1, SMTT(60) DEF ProcessTyped, Abort
  <2> QED
    BY <2>1, <2>2, <2>4, <2>5
<1>27. ASSUME NEW c \in Chains, Stopped(c)
      PROVE  Goal'
  <2> USE <1>27 DEF Stopped, RunRows, CallRows
  <2>1. RunRows'
    BY BusyChain, SMTT(60) DEF RunsTyped, RunsHaveAgents, At
  <2>2. CallRows'
    BY SMTT(60) DEF CallsTyped, CallsHaveRuns
  <2>3. Grows
    BY SMTT(60) DEF Grows, RunsTyped, CallsTyped
  <2>4. ChainsOK'
    BY <2>3, ChainFinishes
  <2>5. ProcessTyped'
    BY SMTT(60) DEF ProcessTyped
  <2> QED
    BY <2>1, <2>2, <2>4, <2>5
<1>28. ASSUME NEW a \in Agents, Interrupt(a)
      PROVE  Goal'
  <2> USE <1>28 DEF Interrupt, RunRows, CallRows
  <2>1. RunRows'
    BY SMTT(60) DEF RunsTyped, RunsHaveAgents
  <2>2. CallRows'
    BY SMTT(60) DEF CallsTyped, CallsHaveRuns
  <2>3. Grows
    BY SMTT(60) DEF Grows, RunsTyped, CallsTyped
  <2>4. ChainsOK'
    BY <2>3, ChainStays
  <2>5. ProcessTyped'
    BY SMTT(60) DEF ProcessTyped, Abort
  <2> QED
    BY <2>1, <2>2, <2>4, <2>5
<1>29. ASSUME NEW c \in Chains, NEW q \in Runs, AssignHandoff(c, q)
      PROVE  Goal'
  <2> USE <1>29 DEF AssignHandoff, RunRows, CallRows
  <2>1. RunRows'
    BY SMTT(60) DEF RunsTyped, RunsHaveAgents, ResumeQueued
  <2>2. CallRows'
    BY SMTT(60) DEF CallsTyped, CallsHaveRuns
  <2>3. Grows
    BY SMTT(60) DEF Grows, RunsTyped, CallsTyped
  <2>4. ChainsOK'
    BY <2>3, QueuedExists, ChainTakes, TaskOnType DEF Pcs, CallPcs
  <2>5. ProcessTyped'
    BY SMTT(60) DEF ProcessTyped
  <2> QED
    BY <2>1, <2>2, <2>4, <2>5
<1>30. ASSUME Crash
      PROVE  Goal'
  <2> USE <1>30 DEF Crash, RunRows, CallRows
  <2>1. RunRows'
    BY SMTT(60) DEF RunsTyped, RunsHaveAgents
  <2>2. CallRows'
    BY SMTT(60) DEF CallsTyped, CallsHaveRuns
  <2>3. Grows
    BY SMTT(60) DEF Grows, RunsTyped, CallsTyped
  <2>4. ChainsOK'
    BY NoTaskType, SMTT(60) DEF ChainsOK, ChainsTyped, ChainsHaveRuns, CallPcs, Pcs
  <2>5. ProcessTyped'
    BY ConstantsAssumption, SMTT(60) DEF ProcessTyped
  <2> QED
    BY <2>1, <2>2, <2>4, <2>5
<1>31. ASSUME NEW a \in Agents, RecoverRun(a)
      PROVE  Goal'
  <2> USE <1>31 DEF RecoverRun, RunRows, CallRows
  <2>1. RunRows'
    BY SMTT(60) DEF RunsTyped, RunsHaveAgents, SetRunState, ActiveStates, TerminalStates
  <2>2. CallRows'
    BY SMTT(60) DEF CallsTyped, CallsHaveRuns
  <2>3. Grows
    BY SMTT(60) DEF Grows, RunsTyped, CallsTyped
  <2>4. ChainsOK'
    BY <2>3, ChainStays
  <2>5. ProcessTyped'
    <3>1. errored' \subseteq Runs
      BY Zenon DEF ProcessTyped
    <3> QED
      BY <3>1, SMTT(60) DEF ProcessTyped
  <2> QED
    BY <2>1, <2>2, <2>4, <2>5
<1>32. ASSUME RecoverApprovals
      PROVE  Goal'
  <2> USE <1>32 DEF RecoverApprovals, RunRows, CallRows
  <2>1. RunRows'
    BY SMTT(60) DEF RunsTyped, RunsHaveAgents
  <2>2. CallRows'
    BY SMTT(60) DEF CallsTyped, CallsHaveRuns
  <2>3. Grows
    BY SMTT(60) DEF Grows, RunsTyped, CallsTyped
  <2>4. ChainsOK'
    BY <2>3, ChainStays
  <2>5. ProcessTyped'
    BY SMTT(60) DEF ProcessTyped
  <2> QED
    BY <2>1, <2>2, <2>4, <2>5
<1>33. ASSUME UNCHANGED vars
      PROVE  Goal'
  <2> USE <1>33 DEF vars, RunRows, CallRows
  <2>1. RunRows'
    BY SMTT(60) DEF RunsTyped, RunsHaveAgents
  <2>2. CallRows'
    BY SMTT(60) DEF CallsTyped, CallsHaveRuns
  <2>3. Grows
    BY SMTT(60) DEF Grows, RunsTyped, CallsTyped
  <2>4. ChainsOK'
    BY <2>3, ChainStays
  <2>5. ProcessTyped'
    BY SMTT(60) DEF ProcessTyped
  <2> QED
    BY <2>1, <2>2, <2>4, <2>5
<1> QED
  BY <1>1, <1>2, <1>3, <1>4, <1>5, <1>6, <1>7, <1>8, <1>9, <1>10, <1>11, <1>12, <1>13,
     <1>14, <1>15, <1>16, <1>17, <1>18, <1>19, <1>20, <1>21, <1>22, <1>23, <1>24, <1>25,
     <1>26, <1>27, <1>28, <1>29, <1>30, <1>31, <1>32, <1>33 DEF Next, Work, Recover,
     Environment

\* TypeOK holds in every reachable state: rows, in-memory maps, chains and sessions
\* keep their types, and references between them never dangle.
THEOREM TypeCorrect == Spec => []TypeOK
<1>1. Spec => []Typing
  BY TypingInit, TypingStep, PTL DEF Spec
<1>2. Typing => TypeOK
  BY DEF Typing
<1> QED
  BY <1>1, <1>2, PTL

-----------------------------------------------------------------------------
(* The adapter sessions.                                                    *)

\* A step that leaves the sessions and the chains waiting on them alone.
SessionKept ==
  /\ gen' = gen
  /\ \A d \in Chains :
       /\ pc'[d] = "send" <=> pc[d] = "send"
       /\ pc[d] = "send" => AgentOf(d)' = AgentOf(d)

LEMMA SessionFrame == SessionExclusive /\ SessionKept => SessionExclusive'
BY DEF SessionExclusive, SessionKept

LEMMA SessionReleased ==
  ASSUME Typing, SessionExclusive, NEW c \in Chains, pc[c] = "send", Release(c),
         NEW p \in Pcs, p # "send", Goto(c, p), runAgent' = runAgent,
         \A d \in Chains \ {c} : task'[d] = task[d]
  PROVE  SessionExclusive'
BY ConstantsAssumption, SMTT(60) DEF SessionExclusive, Typing, TypeOK, ChainsTyped,
   ProcessTyped, Release, Goto, AgentOf, RunOf

LEMMA SessionTaken ==
  ASSUME Typing, SessionExclusive, NEW c \in Chains, pc[c] \notin {"send", "idle"},
         gen[AgentOf(c)] = NoChain,
         gen' = [gen EXCEPT ![AgentOf(c)] = c], Goto(c, "send"), runAgent' = runAgent, task' = task
  PROVE  SessionExclusive'
<1>1. AgentOf(c) \in Agents
  BY BusyChain DEF Typing, TypeOK, ReferencesExist, RunRows, ChainsOK
<1> QED
  BY <1>1, ConstantsAssumption, SMTT(60) DEF SessionExclusive, Typing, TypeOK,
     ChainsTyped, ProcessTyped, Goto, AgentOf, RunOf

LEMMA SessionInit == Init => SessionExclusive
BY ConstantsAssumption DEF Init, SessionExclusive

LEMMA SessionStep == Typing /\ SessionExclusive /\ [Next]_vars => SessionExclusive'
<1> SUFFICES ASSUME Typing, SessionExclusive, [Next]_vars
             PROVE  SessionExclusive'
  OBVIOUS
<1>c. pc \in [Chains -> Pcs] /\ task \in [Chains -> Tasks]
  BY DEF Typing, TypeOK, ChainsTyped
<1>1. ASSUME NEW c \in Chains, NEW a \in Agents, StartRun(c, a)
      PROVE  SessionKept
  <2>1. \A d \in Chains : pc[d] = "send" => RunOf(d) # created + 1
    BY SMTT(60) DEF Typing, TypeOK, RunsTyped, ReferencesExist, ChainsHaveRuns
  <2> QED
    BY <1>1, <2>1, <1>c, SMTT(60) DEF SessionKept, StartRun, session, Goto, AgentOf,
       RunOf
<1>2. ASSUME NEW c \in Chains, GateOpen(c)
      PROVE  SessionKept
  BY <1>2, <1>c, SMTT(60) DEF SessionKept, GateOpen, ContinueRun, runs, rows, session,
     At, Goto, Finish, AgentOf, RunOf
<1>3. ASSUME NEW c \in Chains, GateClosed(c)
      PROVE  SessionKept
  BY <1>3, <1>c, SMTT(60) DEF SessionKept, GateClosed, runs, rows, session, At, Goto,
     Finish, AgentOf, RunOf
<1>4. ASSUME NEW c \in Chains, Send(c)
      PROVE  SessionExclusive'
  BY <1>4, <1>c, SessionTaken, SessionFrame, SMTT(60) DEF SessionKept, Send, Request,
     FailRun, runs, At, Goto, AgentOf, RunOf
<1>5. ASSUME NEW c \in Chains, PrepareFails(c)
      PROVE  SessionKept
  BY <1>5, <1>c, SMTT(60) DEF SessionKept, PrepareFails, runs, rows, session, At, Goto,
     Finish, AgentOf, RunOf
<1>6. ASSUME NEW c \in Chains, SendRetryLater(c)
      PROVE  SessionExclusive'
  BY <1>6, <1>c, SessionReleased, SMTT(60) DEF SendRetryLater, Responding, At, Pcs,
     rows, runs
<1>7. ASSUME NEW c \in Chains, Resend(c)
      PROVE  SessionExclusive'
  BY <1>7, <1>c, SessionTaken, SessionFrame, SMTT(60) DEF SessionKept, Resend, FailRun,
     runs, At, Goto, AgentOf, RunOf
<1>8. ASSUME NEW c \in Chains, SendFails(c)
      PROVE  SessionExclusive'
  BY <1>8, <1>c, SessionReleased, SMTT(60) DEF SendFails, FailRun, At, Pcs, RefreshPcs,
     runs
<1>9. ASSUME NEW c \in Chains, Answer(c)
      PROVE  SessionExclusive'
  BY <1>9, <1>c, SessionReleased, SMTT(60) DEF Answer, Responding, At, Pcs, RefreshPcs,
     rows, runs
<1>10. ASSUME NEW c \in Chains, Complete(c)
      PROVE  SessionKept
  BY <1>10, <1>c, SMTT(60) DEF SessionKept, Complete, runs, rows, session, At, Goto,
     Finish, AgentOf, RunOf
<1>11. ASSUME NEW c \in Chains, Completed(c)
      PROVE  SessionKept
  BY <1>11, <1>c, SMTT(60) DEF SessionKept, Completed, runs, rows, session, At, Goto,
     Finish, AgentOf, RunOf
<1>12. ASSUME NEW c \in Chains, NEW k \in Calls, RequestTool(c, k)
      PROVE  SessionKept
  BY <1>12, <1>c, SMTT(60) DEF SessionKept, RequestTool, CreateCalls, runs, rows,
     session, At, Goto, Finish, AgentOf, RunOf
<1>13. ASSUME NEW c \in Chains, NEW k1 \in Calls, NEW k2 \in Calls,
              RequestBatch(c, k1, k2)
      PROVE  SessionKept
  BY <1>13, <1>c, SMTT(60) DEF SessionKept, RequestBatch, CreateCalls, FailRun, runs,
     rows, session, At, Goto, Finish, AgentOf, RunOf
<1>14. ASSUME NEW c \in Chains, Gate(c)
      PROVE  SessionKept
  BY <1>14, <1>c, SMTT(60) DEF SessionKept, Gate, runs, rows, session, At, Goto, Finish,
     AgentOf, RunOf
<1>15. ASSUME NEW c \in Chains, Gated(c)
      PROVE  SessionKept
  BY <1>15, <1>c, SMTT(60) DEF SessionKept, Gated, runs, rows, session, At, Goto,
     Finish, AgentOf, RunOf
<1>16. ASSUME NEW c \in Chains, AutoExecute(c)
      PROVE  SessionKept
  BY <1>16, <1>c, SMTT(60) DEF SessionKept, AutoExecute, RunTool, runs, rows, session,
     At, Goto, Finish, AgentOf, RunOf
<1>17. ASSUME NEW c \in Chains, ToolFinishes(c)
      PROVE  SessionKept
  BY <1>17, <1>c, SMTT(60) DEF SessionKept, ToolFinishes, runs, rows, session, At, Goto,
     Finish, AgentOf, RunOf
<1>18. ASSUME NEW c \in Chains, NextIteration(c)
      PROVE  SessionKept
  BY <1>18, <1>c, SMTT(60) DEF SessionKept, NextIteration, ContinueRun, runs, rows,
     session, At, Goto, Finish, AgentOf, RunOf
<1>19. ASSUME NEW c \in Chains, Failed(c)
      PROVE  SessionKept
  BY <1>19, <1>c, SMTT(60) DEF SessionKept, Failed, runs, rows, session, At, Goto,
     Finish, AgentOf, RunOf
<1>20. ASSUME NEW c \in Chains, NEW k \in Calls, NEW verdict \in {"approve", "deny"},
              Decide(c, k, verdict)
      PROVE  SessionKept
  BY <1>20, <1>c, SMTT(60) DEF SessionKept, Decide, runs, rows, session, At, Goto,
     Finish, AgentOf, RunOf
<1>21. ASSUME NEW c \in Chains, ResumeAfterApproval(c)
      PROVE  SessionKept
  BY <1>21, <1>c, SMTT(60) DEF SessionKept, ResumeAfterApproval, runs, rows, session,
     At, Goto, Finish, AgentOf, RunOf
<1>22. ASSUME NEW c \in Chains, RegateFails(c)
      PROVE  SessionKept
  BY <1>22, <1>c, SMTT(60) DEF SessionKept, RegateFails, runs, rows, session, At, Goto,
     Finish, AgentOf, RunOf
<1>23. ASSUME NEW c \in Chains, ExecuteApproved(c)
      PROVE  SessionKept
  BY <1>23, <1>c, SMTT(60) DEF SessionKept, ExecuteApproved, RunTool, runs, rows,
     session, At, Goto, Finish, AgentOf, RunOf
<1>24. ASSUME NEW c \in Chains, RefuseDenied(c)
      PROVE  SessionKept
  BY <1>24, <1>c, SMTT(60) DEF SessionKept, RefuseDenied, runs, rows, session, At, Goto,
     Finish, AgentOf, RunOf
<1>25. ASSUME NEW c \in Chains, Resume(c)
      PROVE  SessionKept
  BY <1>25, <1>c, SMTT(60) DEF SessionKept, Resume, ContinueRun, runs, rows, session,
     At, Goto, Finish, AgentOf, RunOf
<1>26. ASSUME NEW c \in Chains, NEW r \in Runs, StopRun(c, r)
      PROVE  SessionKept
  BY <1>26, <1>c, SMTT(60) DEF SessionKept, StopRun, runs, rows, session, At, Goto,
     Finish, AgentOf, RunOf
<1>27. ASSUME NEW c \in Chains, Stopped(c)
      PROVE  SessionKept
  BY <1>27, <1>c, SMTT(60) DEF SessionKept, Stopped, runs, rows, session, At, Goto,
     Finish, AgentOf, RunOf
<1>28. ASSUME NEW a \in Agents, Interrupt(a)
      PROVE  SessionKept
  BY <1>28, <1>c, SMTT(60) DEF SessionKept, Interrupt, runs, rows, session, At, Goto,
     Finish, AgentOf, RunOf
<1>29. ASSUME NEW c \in Chains, NEW q \in Runs, AssignHandoff(c, q)
      PROVE  SessionKept
  BY <1>29, <1>c, SMTT(60) DEF SessionKept, AssignHandoff, runs, rows, session, At,
     Goto, Finish, AgentOf, RunOf
<1>30. ASSUME Crash
      PROVE  SessionExclusive'
  BY <1>30, ConstantsAssumption DEF Crash, SessionExclusive
<1>31. ASSUME NEW a \in Agents, RecoverRun(a)
      PROVE  SessionKept
  BY <1>31, <1>c, SMTT(60) DEF SessionKept, RecoverRun, runs, rows, session, At, Goto,
     Finish, AgentOf, RunOf
<1>32. ASSUME RecoverApprovals
      PROVE  SessionKept
  BY <1>32, <1>c, SMTT(60) DEF SessionKept, RecoverApprovals, runs, rows, session, At,
     Goto, Finish, AgentOf, RunOf
<1>33. ASSUME UNCHANGED vars
      PROVE  SessionKept
  BY <1>33, <1>c, SMTT(60) DEF SessionKept, vars, runs, rows, session, At, Goto, Finish,
     AgentOf, RunOf
<1> QED
  BY <1>1, <1>2, <1>3, <1>4, <1>5, <1>6, <1>7, <1>8, <1>9, <1>10, <1>11, <1>12, <1>13,
     <1>14, <1>15, <1>16, <1>17, <1>18, <1>19, <1>20, <1>21, <1>22, <1>23, <1>24, <1>25,
     <1>26, <1>27, <1>28, <1>29, <1>30, <1>31, <1>32, <1>33, SessionFrame DEF Next,
     Work, Recover, Environment

\* SessionExclusive: an agent's session belongs to the one chain that waits for its
\* answer, whatever is stopped, retried, interrupted, decided twice or restarted.
THEOREM SessionsAreExclusive == Spec => []SessionExclusive
<1>1. Typing /\ SessionExclusive /\ [Next]_vars => (Typing /\ SessionExclusive)'
  BY TypingStep, SessionStep
<1>2. Init => Typing /\ SessionExclusive
  BY TypingInit, SessionInit
<1> QED
  BY <1>1, <1>2, PTL DEF Spec

-----------------------------------------------------------------------------
(* Executions and grants.                                                   *)

LEMMA CarryingIsFinite ==
  \A k : IsFiniteSet(Carrying(k)) /\ Cardinality(Carrying(k)) \in Nat
<1> SUFFICES ASSUME NEW k
             PROVE  IsFiniteSet(Carrying(k)) /\ Cardinality(Carrying(k)) \in Nat
  OBVIOUS
<1>1. Carrying(k) \in SUBSET Chains
  BY DEF Carrying
<1> QED
  BY <1>1, ConstantsAssumption, FS_Subset, FS_CardinalityType

\* A step that executes and grants nothing, gives nobody a call, and asks nobody.
GrantsKept ==
  /\ execs' = execs /\ grants' = grants
  /\ \A k \in Calls :
       /\ callState'[k] = "none" => callState[k] = "none"
       /\ approval[k] = "none" => approval'[k] = "none"
  /\ \A d \in Chains :
       \/ task'[d].call = NoCall /\ pc'[d] \notin {"decide", "regate"}
       \/ /\ task'[d].call = task[d].call /\ task'[d].verdict = task[d].verdict
          /\ pc'[d] = "request" => pc[d] = "request"
          /\ pc'[d] \in {"decide", "regate"} => pc[d] \in {"decide", "regate"}

\* continueRun drops the call its chain was dealing with.
LEMMA ContinueDropsCall ==
  ASSUME pc \in [Chains -> Pcs], task \in [Chains -> Tasks],
         NEW c \in Chains, NEW i, NEW n, NEW rs, ContinueRun(c, i, n, rs), NEW d \in Chains
  PROVE  \/ task'[d].call = NoCall /\ pc'[d] \notin {"decide", "regate"}
         \/ /\ task'[d].call = task[d].call /\ task'[d].verdict = task[d].verdict
            /\ pc'[d] \notin {"decide", "regate", "request"} \/ pc'[d] = pc[d]
<1> DEFINE t == [TaskOn(RunOf(c)) EXCEPT !.iter = i, !.nested = n]
<1>1. t.call = NoCall /\ NoTask.call = NoCall
  BY DEF TaskOn, NoTask
<1>2. CASE Finish(c)
  BY <1>1, <1>2, SMTT(60) DEF Finish, Goto
<1>3. CASE Goto(c, "fail") /\ UNCHANGED task
  BY <1>3, SMTT(60) DEF Goto
<1>4. CASE Goto(c, "prepare") /\ task' = [task EXCEPT ![c] = t]
  <2> HIDE DEF t
  <2> QED
    BY <1>1, <1>4, SMTT(60) DEF Goto
<1> QED
  BY <1>2, <1>3, <1>4 DEF ContinueRun

LEMMA GrantsFrame == Typing /\ GrantsCoverExecutions /\ GrantsKept => GrantsCoverExecutions'
<1> SUFFICES ASSUME Typing, GrantsCoverExecutions, GrantsKept
             PROVE  GrantsCoverExecutions'
  OBVIOUS
<1>1. NoCall \notin Calls /\ RequiresApproval \subseteq Calls
  BY ConstantsAssumption
<1>2. ASSUME NEW k \in RequiresApproval
      PROVE  execs'[k] + Cardinality(Carrying(k))' <= grants'[k]
  <2>1. Carrying(k)' \in SUBSET Carrying(k)
    BY <1>1, SMTT(60) DEF Carrying, GrantsKept
  <2>2. Cardinality(Carrying(k)') \in Nat /\ Cardinality(Carrying(k)') <= Cardinality(Carrying(k))
    BY <2>1, CarryingIsFinite, FS_Subset, FS_CardinalityType
  <2>3. execs[k] \in Nat /\ grants[k] \in Nat /\ execs' = execs /\ grants' = grants
    BY <1>1 DEF Typing, TypeOK, CallsTyped, GrantsKept
  <2>4. execs[k] + Cardinality(Carrying(k)) <= grants[k]
    BY DEF GrantsCoverExecutions, GrantsCover
  <2> QED
    BY <2>2, <2>3, <2>4, CarryingIsFinite, SMTT(60)
<1>3. DecisionsAreGated'
  BY <1>1, SMTT(60) DEF GrantsCoverExecutions, DecisionsAreGated, GrantsKept
<1>4. AutoCallsAreOwned'
  BY <1>1, SMTT(60) DEF GrantsCoverExecutions, AutoCallsAreOwned, GrantsKept
<1>5. FreshCallsAreUnused'
  BY <1>1, SMTT(60) DEF GrantsCoverExecutions, FreshCallsAreUnused, GrantsKept
<1> QED
  BY <1>2, <1>3, <1>4, <1>5 DEF GrantsCoverExecutions, GrantsCover

LEMMA GrantsInit == Init => GrantsCoverExecutions
<1> SUFFICES ASSUME Init PROVE GrantsCoverExecutions
  OBVIOUS
<1>1. \A k \in Calls : Cardinality(Carrying(k)) = 0
  BY FS_EmptySet DEF Init, Carrying
<1> QED
  BY <1>1, ConstantsAssumption, SMTT(60) DEF Init, NoTask, GrantsCoverExecutions,
     GrantsCover, DecisionsAreGated, AutoCallsAreOwned, FreshCallsAreUnused

LEMMA GrantsStep == Typing /\ GrantsCoverExecutions /\ [Next]_vars => GrantsCoverExecutions'
<1> SUFFICES ASSUME Typing, GrantsCoverExecutions, [Next]_vars
             PROVE  GrantsCoverExecutions'
  OBVIOUS
<1>c. pc \in [Chains -> Pcs] /\ task \in [Chains -> Tasks] /\ CallsTyped
  BY DEF Typing, TypeOK, ChainsTyped
<1>r. NoCall \notin Calls /\ RequiresApproval \subseteq Calls
  BY ConstantsAssumption
<1>1. ASSUME NEW c \in Chains, NEW a \in Agents, StartRun(c, a)
      PROVE  GrantsKept
  BY <1>1, <1>c, SMTT(60) DEF GrantsKept, StartRun, runs, rows, calls, history, At,
     Goto, Finish, RunOf, TaskOn, NoTask
<1>2. ASSUME NEW c \in Chains, GateOpen(c)
      PROVE  GrantsKept
  <2>1. ContinueRun(c, 0, FALSE, runState)
    BY <1>2 DEF GateOpen
  <2>2. UNCHANGED calls
    BY <1>2 DEF GateOpen
  <2>3. ASSUME NEW d \in Chains
        PROVE  \/ task'[d].call = NoCall /\ pc'[d] \notin {"decide", "regate"}
               \/ /\ task'[d].call = task[d].call /\ task'[d].verdict = task[d].verdict
                  /\ pc'[d] \notin {"decide", "regate", "request"} \/ pc'[d] = pc[d]
    BY <2>1, <1>c, ContinueDropsCall
  <2> QED
    BY <2>2, <2>3, SMTT(60) DEF GrantsKept, calls, history
<1>3. ASSUME NEW c \in Chains, GateClosed(c)
      PROVE  GrantsKept
  BY <1>3, <1>c, SMTT(60) DEF GrantsKept, GateClosed, runs, rows, calls, history, At,
     Goto, Finish, RunOf, TaskOn, NoTask
<1>4. ASSUME NEW c \in Chains, Send(c)
      PROVE  GrantsKept
  BY <1>4, <1>c, SMTT(60) DEF GrantsKept, Send, Request, FailRun, runs, rows, calls,
     history, At, Goto, Finish, RunOf, TaskOn, NoTask
<1>5. ASSUME NEW c \in Chains, PrepareFails(c)
      PROVE  GrantsKept
  BY <1>5, <1>c, SMTT(60) DEF GrantsKept, PrepareFails, runs, rows, calls, history, At,
     Goto, Finish, RunOf, TaskOn, NoTask
<1>6. ASSUME NEW c \in Chains, SendRetryLater(c)
      PROVE  GrantsKept
  BY <1>6, <1>c, SMTT(60) DEF GrantsKept, SendRetryLater, Responding, Tasks, runs, rows,
     calls, history, At, Goto, Finish, RunOf, TaskOn, NoTask
<1>7. ASSUME NEW c \in Chains, Resend(c)
      PROVE  GrantsKept
  BY <1>7, <1>c, SMTT(60) DEF GrantsKept, Resend, FailRun, runs, rows, calls, history,
     At, Goto, Finish, RunOf, TaskOn, NoTask
<1>8. ASSUME NEW c \in Chains, SendFails(c)
      PROVE  GrantsKept
  BY <1>8, <1>c, SMTT(60) DEF GrantsKept, SendFails, FailRun, runs, rows, calls,
     history, At, Goto, Finish, RunOf, TaskOn, NoTask
<1>9. ASSUME NEW c \in Chains, Answer(c)
      PROVE  GrantsKept
  BY <1>9, <1>c, SMTT(60) DEF GrantsKept, Answer, Responding, runs, rows, calls,
     history, At, Goto, Finish, RunOf, TaskOn, NoTask
<1>10. ASSUME NEW c \in Chains, Complete(c)
      PROVE  GrantsKept
  BY <1>10, <1>c, SMTT(60) DEF GrantsKept, Complete, runs, rows, calls, history, At,
     Goto, Finish, RunOf, TaskOn, NoTask
<1>11. ASSUME NEW c \in Chains, Completed(c)
      PROVE  GrantsKept
  BY <1>11, <1>c, SMTT(60) DEF GrantsKept, Completed, runs, rows, calls, history, At,
     Goto, Finish, RunOf, TaskOn, NoTask
<1>12. ASSUME NEW c \in Chains, NEW k \in Calls, RequestTool(c, k)
      PROVE  GrantsCoverExecutions'
  <2>1. GrantsCover'
    <3> SUFFICES ASSUME NEW g \in RequiresApproval
                 PROVE  execs'[g] + Cardinality(Carrying(g)') <= grants'[g]
      BY DEF GrantsCover
    <3>1. Carrying(g)' = Carrying(g)
      BY <1>12, <1>c, <1>r, SMTT(60) DEF GrantsCoverExecutions, FreshCallsAreUnused,
         Carrying, RequestTool, CreateCalls, At, Goto
    <3>2. execs' = execs /\ grants' = grants
      BY <1>12 DEF RequestTool, CreateCalls, history
    <3> QED
      BY <3>1, <3>2 DEF GrantsCoverExecutions, GrantsCover
  <2>2. DecisionsAreGated'
    BY <1>12, <1>c, <1>r, SMTT(60) DEF GrantsCoverExecutions, DecisionsAreGated,
       RequestTool, At, Goto
  <2>3. AutoCallsAreOwned'
    BY <1>12, <1>c, <1>r, SMTT(60) DEF GrantsCoverExecutions, FreshCallsAreUnused,
       AutoCallsAreOwned, RequestTool, CreateCalls, At, Goto, history
  <2>4. FreshCallsAreUnused'
    BY <1>12, <1>c, <1>r, SMTT(60) DEF GrantsCoverExecutions, FreshCallsAreUnused,
       RequestTool, CreateCalls, At, Goto, history, CallsTyped
  <2> QED
    BY <2>1, <2>2, <2>3, <2>4 DEF GrantsCoverExecutions
<1>13. ASSUME NEW c \in Chains, NEW k1 \in Calls, NEW k2 \in Calls,
              RequestBatch(c, k1, k2)
      PROVE  GrantsKept
  BY <1>13, <1>c, SMTT(60) DEF GrantsKept, RequestBatch, CreateCalls, FailRun, runs,
     rows, calls, history, At, Goto, Finish, RunOf, TaskOn, NoTask
<1>14. ASSUME NEW c \in Chains, Gate(c)
      PROVE  GrantsCoverExecutions'
  <2>1. GrantsCover'
    <3> SUFFICES ASSUME NEW g \in RequiresApproval
                 PROVE  execs'[g] + Cardinality(Carrying(g)') <= grants'[g]
      BY DEF GrantsCover
    <3>1. Carrying(g)' = Carrying(g)
      BY <1>14, <1>c, <1>r, SMTT(60) DEF Carrying, Gate, At, Goto
    <3>2. execs' = execs /\ grants' = grants
      BY <1>14 DEF Gate, history
    <3> QED
      BY <3>1, <3>2 DEF GrantsCoverExecutions, GrantsCover
  <2>2. DecisionsAreGated'
    BY <1>14, <1>c, <1>r, SMTT(60) DEF GrantsCoverExecutions, DecisionsAreGated, Gate,
       At, Goto
  <2>3. AutoCallsAreOwned'
    BY <1>14, <1>c, <1>r, SMTT(60) DEF GrantsCoverExecutions, AutoCallsAreOwned, Gate,
       At, Goto, history, CallsTyped
  <2>4. FreshCallsAreUnused'
    BY <1>14, <1>c, <1>r, SMTT(60) DEF GrantsCoverExecutions, FreshCallsAreUnused, Gate,
       At, Goto, history, CallsTyped
  <2> QED
    BY <2>1, <2>2, <2>3, <2>4 DEF GrantsCoverExecutions
<1>15. ASSUME NEW c \in Chains, Gated(c)
      PROVE  GrantsKept
  BY <1>15, <1>c, SMTT(60) DEF GrantsKept, Gated, runs, rows, calls, history, At, Goto,
     Finish, RunOf, TaskOn, NoTask
<1>16. ASSUME NEW c \in Chains, AutoExecute(c)
      PROVE  GrantsCoverExecutions'
  <2>1. GrantsCover'
    <3> SUFFICES ASSUME NEW g \in RequiresApproval
                 PROVE  execs'[g] + Cardinality(Carrying(g)') <= grants'[g]
      BY DEF GrantsCover
    <3>1. Carrying(g)' = Carrying(g)
      BY <1>16, <1>c, <1>r, SMTT(60) DEF Carrying, AutoExecute, RunTool, At, Goto
    <3>2. execs'[g] = execs[g] /\ grants' = grants
      BY <1>16, <1>c, <1>r, SMTT(60) DEF AutoExecute, RunTool, CallsTyped
    <3> QED
      BY <3>1, <3>2 DEF GrantsCoverExecutions, GrantsCover
  <2>2. DecisionsAreGated'
    BY <1>16, <1>c, <1>r, SMTT(60) DEF GrantsCoverExecutions, DecisionsAreGated,
       AutoExecute, RunTool, At, Goto
  <2>3. AutoCallsAreOwned'
    BY <1>16, <1>c, <1>r, SMTT(60) DEF GrantsCoverExecutions, AutoCallsAreOwned,
       AutoExecute, RunTool, At, Goto, CallsTyped
  <2>4. FreshCallsAreUnused'
    BY <1>16, <1>c, <1>r, SMTT(60) DEF GrantsCoverExecutions, FreshCallsAreUnused,
       AutoExecute, RunTool, At, Goto, CallsTyped
  <2> QED
    BY <2>1, <2>2, <2>3, <2>4 DEF GrantsCoverExecutions
<1>17. ASSUME NEW c \in Chains, ToolFinishes(c)
      PROVE  GrantsKept
  BY <1>17, <1>c, SMTT(60) DEF GrantsKept, ToolFinishes, runs, rows, calls, history, At,
     Goto, Finish, RunOf, TaskOn, NoTask
<1>18. ASSUME NEW c \in Chains, NextIteration(c)
      PROVE  GrantsKept
  <2>1. ContinueRun(c, task[c].iter + 1, TRUE, runState)
    BY <1>18 DEF NextIteration
  <2>2. UNCHANGED calls
    BY <1>18 DEF NextIteration
  <2>3. ASSUME NEW d \in Chains
        PROVE  \/ task'[d].call = NoCall /\ pc'[d] \notin {"decide", "regate"}
               \/ /\ task'[d].call = task[d].call /\ task'[d].verdict = task[d].verdict
                  /\ pc'[d] \notin {"decide", "regate", "request"} \/ pc'[d] = pc[d]
    BY <2>1, <1>c, ContinueDropsCall
  <2> QED
    BY <2>2, <2>3, SMTT(60) DEF GrantsKept, calls, history
<1>19. ASSUME NEW c \in Chains, Failed(c)
      PROVE  GrantsKept
  BY <1>19, <1>c, SMTT(60) DEF GrantsKept, Failed, runs, rows, calls, history, At, Goto,
     Finish, RunOf, TaskOn, NoTask
<1>20. ASSUME NEW c \in Chains, NEW k \in Calls, NEW verdict \in {"approve", "deny"},
              Decide(c, k, verdict)
      PROVE  GrantsCoverExecutions'
  <2> DEFINE t == [TaskOn(callRun[k]) EXCEPT !.call = k, !.verdict = verdict]
  <2>t. t.call = k /\ t.verdict = verdict
    BY DEF TaskOn, NoTask
  <2>a. task' = [task EXCEPT ![c] = t] /\ pc' = [pc EXCEPT ![c] = "decide"] /\ pc[c] = "idle" /\ execs' = execs
    BY <1>20 DEF Decide, Goto
  <2>b. approval[k] # "none" /\ approval' \in [Calls -> {"none", "PENDING", "APPROVED", "DENIED"}]
        /\ \A g \in Calls : g # k => approval'[g] = approval[g]
    BY <1>20, <1>c, SMTT(60) DEF Decide, CallsTyped
  <2>k. k \in RequiresApproval /\ callState[k] # "none"
    BY <2>b DEF GrantsCoverExecutions, AutoCallsAreOwned, FreshCallsAreUnused
  <2> HIDE DEF t
  <2>1. GrantsCover'
    <3> SUFFICES ASSUME NEW g \in RequiresApproval
                 PROVE  execs'[g] + Cardinality(Carrying(g)') <= grants'[g]
      BY DEF GrantsCover
    <3>1. execs[g] + Cardinality(Carrying(g)) <= grants[g] /\ execs[g] \in Nat /\ grants[g] \in Nat
      BY <1>c, <1>r DEF GrantsCoverExecutions, GrantsCover, CallsTyped
    <3>2. CASE g = k /\ verdict = "approve"
      <4>1. c \notin Carrying(g) /\ Carrying(g)' = Carrying(g) \cup {c}
        BY <3>2, <2>t, <2>a, <1>c, SMTT(60) DEF Carrying
      <4>2. Cardinality(Carrying(g)') = Cardinality(Carrying(g)) + 1
        BY <4>1, CarryingIsFinite, FS_AddElement
      <4>3. grants'[g] = grants[g] + 1
        BY <1>20, <3>2, <1>c, SMTT(60) DEF Decide, CallsTyped
      <4> QED
        BY <4>2, <4>3, <3>1, <2>a, CarryingIsFinite, SMTT(60)
    <3>3. CASE ~(g = k /\ verdict = "approve")
      <4>1. Carrying(g)' = Carrying(g)
        BY <3>3, <2>t, <2>a, <1>c, SMTT(60) DEF Carrying
      <4>2. grants'[g] = grants[g]
        BY <1>20, <3>3, <1>c, <1>r, SMTT(60) DEF Decide, CallsTyped
      <4> QED
        BY <4>1, <4>2, <3>1, <2>a
    <3> QED
      BY <3>2, <3>3
  <2>2. DecisionsAreGated'
    BY <2>t, <2>a, <2>k, <1>c, SMTT(60) DEF GrantsCoverExecutions, DecisionsAreGated
  <2>3. AutoCallsAreOwned'
    BY <2>t, <2>a, <2>b, <2>k, <1>c, SMTT(60) DEF GrantsCoverExecutions,
       AutoCallsAreOwned
  <2>4. FreshCallsAreUnused'
    <3>1. callState' = callState
      BY <1>20 DEF Decide
    <3> QED
      BY <3>1, <2>t, <2>a, <2>b, <2>k, <1>c, SMTT(60) DEF GrantsCoverExecutions,
         FreshCallsAreUnused
  <2> QED
    BY <2>1, <2>2, <2>3, <2>4 DEF GrantsCoverExecutions
<1>21. ASSUME NEW c \in Chains, ResumeAfterApproval(c)
      PROVE  GrantsKept
  BY <1>21, <1>c, SMTT(60) DEF GrantsKept, ResumeAfterApproval, Tasks, runs, rows,
     calls, history, At, Goto, Finish, RunOf, TaskOn, NoTask
<1>22. ASSUME NEW c \in Chains, RegateFails(c)
      PROVE  GrantsKept
  BY <1>22, <1>c, SMTT(60) DEF GrantsKept, RegateFails, runs, rows, calls, history, At,
     Goto, Finish, RunOf, TaskOn, NoTask
<1>23. ASSUME NEW c \in Chains, ExecuteApproved(c)
      PROVE  GrantsCoverExecutions'
  <2>k. task[c].call \in RequiresApproval
    BY <1>23 DEF GrantsCoverExecutions, DecisionsAreGated, ExecuteApproved, At
  <2>a. pc' = [pc EXCEPT ![c] = "grantedTool"] /\ pc[c] = "regate" /\ task' = task /\ task[c].verdict = "approve"
        /\ execs' = [execs EXCEPT ![task[c].call] = execs[task[c].call] + 1] /\ grants' = grants
        /\ approval' = approval
    BY <1>23 DEF ExecuteApproved, RunTool, At, Goto
  <2>1. GrantsCover'
    <3> SUFFICES ASSUME NEW g \in RequiresApproval
                 PROVE  execs'[g] + Cardinality(Carrying(g)') <= grants'[g]
      BY DEF GrantsCover
    <3>1. execs[g] + Cardinality(Carrying(g)) <= grants[g] /\ execs[g] \in Nat /\ grants[g] \in Nat
      BY <1>c, <1>r DEF GrantsCoverExecutions, GrantsCover, CallsTyped
    <3>2. CASE g = task[c].call
      <4>1. c \in Carrying(g) /\ Carrying(g)' = Carrying(g) \ {c}
        BY <3>2, <2>a, <1>c, SMTT(60) DEF Carrying
      <4>2. Cardinality(Carrying(g)') = Cardinality(Carrying(g)) - 1
        BY <4>1, CarryingIsFinite, FS_RemoveElement
      <4>3. execs'[g] = execs[g] + 1
        BY <2>a, <3>2, <1>c, <1>r, SMTT(60) DEF CallsTyped
      <4> QED
        BY <4>2, <4>3, <3>1, <2>a, CarryingIsFinite, SMTT(60)
    <3>3. CASE g # task[c].call
      <4>1. Carrying(g)' = Carrying(g)
        BY <3>3, <2>a, <1>c, SMTT(60) DEF Carrying
      <4>2. execs'[g] = execs[g]
        BY <2>a, <3>3, <1>c, <1>r, SMTT(60) DEF CallsTyped
      <4> QED
        BY <4>1, <4>2, <3>1, <2>a
    <3> QED
      BY <3>2, <3>3
  <2>2. DecisionsAreGated'
    BY <2>a, <1>c, SMTT(60) DEF GrantsCoverExecutions, DecisionsAreGated
  <2>3. AutoCallsAreOwned'
    BY <2>a, <2>k, <1>c, <1>r, SMTT(60) DEF GrantsCoverExecutions, AutoCallsAreOwned,
       CallsTyped
  <2>4. FreshCallsAreUnused'
    BY <1>23, <2>a, <1>c, <1>r, SMTT(60) DEF GrantsCoverExecutions, FreshCallsAreUnused,
       ExecuteApproved, RunTool, CallsTyped
  <2> QED
    BY <2>1, <2>2, <2>3, <2>4 DEF GrantsCoverExecutions
<1>24. ASSUME NEW c \in Chains, RefuseDenied(c)
      PROVE  GrantsKept
  BY <1>24, <1>c, SMTT(60) DEF GrantsKept, RefuseDenied, runs, rows, calls, history, At,
     Goto, Finish, RunOf, TaskOn, NoTask
<1>25. ASSUME NEW c \in Chains, Resume(c)
      PROVE  GrantsKept
  <2>1. ContinueRun(c, task[c].iter, FALSE, [runState EXCEPT ![RunOf(c)] = "RUNNING"])
    BY <1>25 DEF Resume
  <2>2. UNCHANGED calls
    BY <1>25 DEF Resume
  <2>3. ASSUME NEW d \in Chains
        PROVE  \/ task'[d].call = NoCall /\ pc'[d] \notin {"decide", "regate"}
               \/ /\ task'[d].call = task[d].call /\ task'[d].verdict = task[d].verdict
                  /\ pc'[d] \notin {"decide", "regate", "request"} \/ pc'[d] = pc[d]
    BY <2>1, <1>c, ContinueDropsCall
  <2> QED
    BY <2>2, <2>3, SMTT(60) DEF GrantsKept, calls, history
<1>26. ASSUME NEW c \in Chains, NEW r \in Runs, StopRun(c, r)
      PROVE  GrantsKept
  BY <1>26, <1>c, SMTT(60) DEF GrantsKept, StopRun, runs, rows, calls, history, At,
     Goto, Finish, RunOf, TaskOn, NoTask
<1>27. ASSUME NEW c \in Chains, Stopped(c)
      PROVE  GrantsKept
  BY <1>27, <1>c, SMTT(60) DEF GrantsKept, Stopped, runs, rows, calls, history, At,
     Goto, Finish, RunOf, TaskOn, NoTask
<1>28. ASSUME NEW a \in Agents, Interrupt(a)
      PROVE  GrantsKept
  BY <1>28, <1>c, SMTT(60) DEF GrantsKept, Interrupt, runs, rows, calls, history, At,
     Goto, Finish, RunOf, TaskOn, NoTask
<1>29. ASSUME NEW c \in Chains, NEW q \in Runs, AssignHandoff(c, q)
      PROVE  GrantsKept
  BY <1>29, <1>c, SMTT(60) DEF GrantsKept, AssignHandoff, runs, rows, calls, history,
     At, Goto, Finish, RunOf, TaskOn, NoTask
<1>30. ASSUME Crash
      PROVE  GrantsKept
  BY <1>30, <1>c, SMTT(60) DEF GrantsKept, Crash, runs, rows, calls, history, At, Goto,
     Finish, RunOf, TaskOn, NoTask
<1>31. ASSUME NEW a \in Agents, RecoverRun(a)
      PROVE  GrantsKept
  BY <1>31, <1>c, SMTT(60) DEF GrantsKept, RecoverRun, runs, rows, calls, history, At,
     Goto, Finish, RunOf, TaskOn, NoTask
<1>32. ASSUME RecoverApprovals
      PROVE  GrantsKept
  BY <1>32, <1>c, SMTT(60) DEF GrantsKept, RecoverApprovals, runs, rows, calls, history,
     At, Goto, Finish, RunOf, TaskOn, NoTask
<1>33. ASSUME UNCHANGED vars
      PROVE  GrantsKept
  BY <1>33, <1>c, SMTT(60) DEF GrantsKept, vars, runs, rows, calls, history, At, Goto,
     Finish, RunOf, TaskOn, NoTask
<1> QED
  BY <1>1, <1>2, <1>3, <1>4, <1>5, <1>6, <1>7, <1>8, <1>9, <1>10, <1>11, <1>12, <1>13,
     <1>14, <1>15, <1>16, <1>17, <1>18, <1>19, <1>20, <1>21, <1>22, <1>23, <1>24, <1>25,
     <1>26, <1>27, <1>28, <1>29, <1>30, <1>31, <1>32, <1>33, GrantsFrame DEF Next, Work,
     Recover, Environment

LEMMA AlwaysCovered == Spec => [](Typing /\ GrantsCoverExecutions)
<1>1. Typing /\ GrantsCoverExecutions /\ [Next]_vars => (Typing /\ GrantsCoverExecutions)'
  BY TypingStep, GrantsStep
<1>2. Init => Typing /\ GrantsCoverExecutions
  BY TypingInit, GrantsInit
<1> QED
  BY <1>1, <1>2, PTL DEF Spec

(* The executions of a gated call and the decisions that still carry a grant *)
(* for it stay within the grants of the operator, a call that needs none is  *)
(* in the hands of one chain, and a call nobody made has done nothing        *)
(* (resumeAfterApproval, continueRun).                                       *)
THEOREM GrantsAreCovered == Spec => []GrantsCoverExecutions
BY AlwaysCovered, PTL

\* ExecutionsAreGranted: the tool of a gated call runs at most once per grant of the
\* operator and the tool of any other call at most once, in every environment.
THEOREM ExecutionsArePaid == Spec => []ExecutionsAreGranted
<1>1. Typing /\ GrantsCoverExecutions => ExecutionsAreGranted
  <2> SUFFICES ASSUME Typing, GrantsCoverExecutions, NEW k \in Calls
               PROVE  execs[k] <= IF k \in RequiresApproval THEN grants[k] ELSE 1
    BY DEF ExecutionsAreGranted
  <2>1. execs[k] \in Nat /\ grants[k] \in Nat
    BY DEF Typing, TypeOK, CallsTyped
  <2> QED
    BY <2>1, CarryingIsFinite, SMTT(60) DEF GrantsCoverExecutions, GrantsCover,
       AutoCallsAreOwned
<1> QED
  BY <1>1, AlwaysCovered, PTL

-----------------------------------------------------------------------------
(* II. A disciplined operator                                               *)

Busy(c) == pc[c] # "idle"

\* Awaits at which a chain has its run for itself, by the state of the run.
RunningPcs == {"send", "backoff", "answer", "request", "tool", "report"}
GrantedPcs == {"regate", "grantedTool", "decided"}
DriverPcs  == RunningPcs \cup GrantedPcs \cup {"gate", "prepare", "fail", "complete"}

Fits(p, s) ==
  /\ p # "stopping"
  /\ p = "gate" => s = "CREATED"
  /\ p = "prepare" => s \in {"CREATED", "QUEUED", "RUNNING"}
  /\ p \in RunningPcs => s = "RUNNING"
  /\ p \in GrantedPcs \cup {"gating"} => s = "WAITING_APPROVAL"
  /\ p = "decide" => s \in TerminalStates \cup {"WAITING_APPROVAL"}
  /\ p = "fail" => s = "ERROR"
  /\ p = "complete" => s = "COMPLETED"

StatesMatch == \A c \in Chains : Fits(pc[c], runState[RunOf(c)])

\* Two chains are on one run only while the approval of one call is decided before
\* its entry is in pendingApprovals, or when decisions come too late.
OneDriver ==
  \A c, d \in Chains :
    Busy(c) /\ Busy(d) /\ RunOf(c) = RunOf(d) /\ c # d =>
      \/ pc[c] = "gating" /\ pc[d] = "decide" /\ task[c].call = task[d].call
      \/ pc[d] = "gating" /\ pc[c] = "decide" /\ task[c].call = task[d].call
      \/ /\ runState[RunOf(c)] \in TerminalStates
         /\ "decide" \in {pc[c], pc[d]}

\* The call a chain deals with is one of its run, and not asked for before it is.
CallsMatch ==
  \A c \in Chains : pc[c] \in CallPcs =>
    /\ callRun[task[c].call] = RunOf(c)
    /\ pc[c] = "request" => approval[task[c].call] = "none"
    /\ pc[c] = "gating" => approval[task[c].call] # "none" /\ pendingApprovals[task[c].call] = 0
    /\ pc[c] = "decide" /\ runState[RunOf(c)] \in TerminalStates => pendingApprovals[task[c].call] = 0

\* A run with a PENDING approval waits for it, and only the chain that asked is
\* still on it; or the run has ended with a process and the approval can resume
\* nothing.
PendingWaits ==
  \A k \in Calls : approval[k] = "PENDING" =>
    \/ /\ runState[callRun[k]] = "WAITING_APPROVAL"
       /\ \A c \in Chains : Busy(c) /\ RunOf(c) = callRun[k] => pc[c] = "gating" /\ task[c].call = k
    \/ runState[callRun[k]] \in TerminalStates /\ pendingApprovals[k] = 0

EntriesWait ==
  \A k \in Calls : pendingApprovals[k] # 0 =>
    /\ approval[k] # "none" /\ runState[callRun[k]] = "WAITING_APPROVAL"
    /\ \A c \in Chains : Busy(c) /\ RunOf(c) = callRun[k] =>
         pc[c] \in {"decide", "regate"} /\ task[c].call = k

Awaited(k) == approval[k] = "PENDING" \/ pendingApprovals[k] # 0
OneAwaited ==
  \A k, l \in Calls :
    /\ Awaited(k) /\ Awaited(l) /\ callRun[k] = callRun[l]
    /\ runState[callRun[k]] = "WAITING_APPROVAL"
    => k = l

\* A run the coordinator holds has no chain.
HeldRests ==
  \A r \in Runs : runState[r] = "QUEUED" /\ runAgent[r] \in held =>
    \A c \in Chains : Busy(c) => RunOf(c) # r

RunsCreated == \A r \in Runs : r <= created <=> runState[r] # "NONE"

RecoveryRests ==
  mode = "recovering" =>
    /\ \A c \in Chains : pc[c] = "idle"
    /\ \A k \in Calls : pendingApprovals[k] = 0
    /\ \A r \in Runs : runState[r] \in ActiveStates => runAgent[r] \in unrecovered

Discipline ==
  /\ StatesMatch /\ OneDriver /\ CallsMatch /\ PendingWaits /\ EntriesWait /\ OneAwaited
  /\ HeldRests /\ RunsCreated /\ RecoveryRests /\ OneActiveRunPerAgent

-----------------------------------------------------------------------------
(* The steps of a chain that drives its run.                                *)

\* Such a step moves the chain, writes the state of its run, creates the calls K, and
\* may take the call it was granted out of pendingApprovals.
DriverStep(c, K) ==
  /\ mode = "up" /\ mode' = "up"
  /\ pc[c] \in DriverPcs /\ pc'[c] \in DriverPcs \cup {"idle"}
  /\ \A d \in Chains : d # c => pc'[d] = pc[d] /\ task'[d] = task[d]
  /\ pc'[c] # "idle" => task'[c].run = RunOf(c)
  /\ \A r \in Runs : r # RunOf(c) => runState'[r] = runState[r]
  /\ Fits(pc'[c], runState'[RunOf(c)])
  /\ runState'[RunOf(c)] # "NONE"
  /\ runState[RunOf(c)] \in TerminalStates => runState'[RunOf(c)] = runState[RunOf(c)]
  /\ runState'[RunOf(c)] = "QUEUED" => pc'[c] = "idle"
  /\ \A a \in held' : a \in held \/ (a = AgentOf(c) /\ runState[RunOf(c)] \in ActiveStates)
  /\ UNCHANGED <<created, runAgent, approval>>
  /\ \A k \in K : approval[k] = "none" /\ \A d \in Chains : task[d].call # k
  /\ \A k \in Calls : callRun'[k] = IF k \in K THEN RunOf(c) ELSE callRun[k]
  /\ pc'[c] \in CallPcs => \/ task'[c].call \in K
                           \/ pc[c] \in CallPcs /\ task'[c].call = task[c].call
  /\ pc'[c] = "request" => task'[c].call \in K
  /\ pc'[c] # "regate"
  /\ \A k \in Calls :
       \/ pendingApprovals'[k] = pendingApprovals[k]
       \/ pc[c] = "regate" /\ pendingApprovals'[k] = 0
  /\ pc[c] = "regate" => IF pc'[c] = "idle" THEN runState'[RunOf(c)] = runState[RunOf(c)]
                         ELSE pendingApprovals'[task[c].call] = 0

LEMMA DriverRun ==
  ASSUME Typing, Discipline, NEW c \in Chains, pc[c] \in DriverPcs
  PROVE  /\ RunOf(c) \in Runs /\ RunOf(c) <= created /\ Busy(c)
         /\ runState[RunOf(c)] \in ActiveStates \cup TerminalStates
         /\ \A d \in Chains : d # c /\ Busy(d) /\ RunOf(d) = RunOf(c) =>
              pc[d] = "decide" /\ runState[RunOf(c)] \in TerminalStates
<1>1. Busy(c)
  BY DEF Busy, DriverPcs, RunningPcs, GrantedPcs
<1>2. RunOf(c) \in Runs /\ RunOf(c) <= created
  BY <1>1, BusyChain DEF Busy, Typing, TypeOK, ReferencesExist, RunRows, ChainsOK
<1>3. runState[RunOf(c)] \in ActiveStates \cup TerminalStates
  BY <1>2 DEF Discipline, RunsCreated, Typing, TypeOK, RunsTyped
<1>4. ASSUME NEW d \in Chains, d # c, Busy(d), RunOf(d) = RunOf(c)
      PROVE  pc[d] = "decide" /\ runState[RunOf(c)] \in TerminalStates
  BY <1>1, <1>4 DEF Discipline, OneDriver, DriverPcs, RunningPcs, GrantedPcs
<1> QED
  BY <1>1, <1>2, <1>3, <1>4

LEMMA DriverStepKeeps ==
  ASSUME Typing, Typing', Discipline, NEW c \in Chains, NEW K \in SUBSET Calls, DriverStep(c, K)
  PROVE  Discipline'
<1> DEFINE r == RunOf(c)
<1>1. /\ r \in Runs /\ r <= created /\ Busy(c)
      /\ runState[r] \in ActiveStates \cup TerminalStates
      /\ \A d \in Chains : d # c /\ Busy(d) /\ RunOf(d) = r =>
           pc[d] = "decide" /\ runState[r] \in TerminalStates
  BY DriverRun DEF DriverStep
<1>2. \A d \in Chains : Busy(d)' =>
        Busy(d) /\ RunOf(d)' = RunOf(d) /\ RunOf(d) \in Runs /\ RunOf(d) <= created
  <2> SUFFICES ASSUME NEW d \in Chains, Busy(d)'
               PROVE  Busy(d) /\ RunOf(d)' = RunOf(d) /\ RunOf(d) \in Runs /\ RunOf(d) <= created
    OBVIOUS
  <2>1. Busy(d) /\ RunOf(d)' = RunOf(d)
    BY <1>1 DEF DriverStep, Busy, RunOf
  <2> QED
    BY <2>1, BusyChain DEF Busy, Typing, TypeOK, ReferencesExist, RunRows, ChainsOK
<1>3. /\ \A q \in Runs : q # r => runState'[q] = runState[q]
      /\ runState'[r] \in ActiveStates \cup TerminalStates
      /\ runState'[r] \in ActiveStates => runState[r] \in ActiveStates
  BY <1>1 DEF DriverStep, Typing, TypeOK, RunsTyped, ActiveStates, TerminalStates
<1>a. \A k \in Calls : approval[k] # "none" \/ pendingApprovals[k] # 0 =>
        approval[k] # "none" /\ callRun[k] \in Runs /\ callRun'[k] = callRun[k]
  BY DEF Discipline, EntriesWait, DriverStep, Typing, TypeOK, ReferencesExist, CallsHaveRuns, CallsTyped
<1>b. \A k \in Calls : pendingApprovals'[k] # 0 => pendingApprovals'[k] = pendingApprovals[k]
  BY DEF DriverStep
<1>c. ASSUME NEW k \in Calls, callRun[k] = r, approval[k] = "PENDING" \/ pendingApprovals'[k] # 0
      PROVE  \/ runState[r] \in TerminalStates /\ approval[k] = "PENDING" /\ pendingApprovals[k] = 0
             \/ pc[c] = "regate" /\ pc'[c] = "idle" /\ approval[k] # "PENDING" /\ pendingApprovals'[k] # 0
  <2>1. CASE approval[k] = "PENDING"
    BY <1>1, <1>c, <2>1 DEF Discipline, PendingWaits, DriverStep, Busy, DriverPcs, RunningPcs, GrantedPcs
  <2>2. CASE approval[k] # "PENDING" /\ pendingApprovals'[k] # 0
    BY <1>1, <1>b, <1>c, <2>2 DEF Discipline, EntriesWait, DriverStep, Busy, DriverPcs, RunningPcs, GrantedPcs
  <2> QED
    BY <1>c, <2>1, <2>2
<1>4. StatesMatch'
  BY <1>1, <1>2, <1>3 DEF Discipline, StatesMatch, DriverStep, Fits, Busy, RunningPcs, GrantedPcs,
     RunOf, ActiveStates, TerminalStates
<1>5. OneDriver'
  BY <1>1, <1>2, <1>3 DEF Discipline, OneDriver, DriverStep, Busy, DriverPcs, RunningPcs, GrantedPcs, RunOf
<1>6. CallsMatch'
  <2> SUFFICES ASSUME NEW d \in Chains, pc'[d] \in CallPcs
               PROVE  LET k == task'[d].call IN
                      /\ callRun'[k] = RunOf(d)'
                      /\ pc'[d] = "request" => approval'[k] = "none"
                      /\ pc'[d] = "gating" => approval'[k] # "none" /\ pendingApprovals'[k] = 0
                      /\ pc'[d] = "decide" /\ runState'[RunOf(d)'] \in TerminalStates =>
                           pendingApprovals'[k] = 0
    BY DEF CallsMatch
  <2> DEFINE k == task'[d].call
  <2>0. k \in Calls /\ Busy(d)' /\ RunOf(d)' = RunOf(d) /\ RunOf(d) \in Runs
    BY <1>2 DEF Typing, ReferencesExist, ChainsHaveRuns, CallPcs, Busy
  <2>1. CASE d # c
    <3>1. pc'[d] = pc[d] /\ task'[d] = task[d] /\ k \notin K
      BY <2>1 DEF DriverStep
    <3>2. pendingApprovals[k] = 0 => pendingApprovals'[k] = 0
      BY <1>b, <2>0
    <3>3. callRun'[k] = callRun[k] /\ approval'[k] = approval[k]
      BY <2>0, <3>1 DEF DriverStep
    <3>4. pc'[d] = "decide" /\ runState'[RunOf(d)] \in TerminalStates =>
            runState[RunOf(d)] \in TerminalStates \/ pendingApprovals[k] = 0
      BY <1>1, <1>3, <2>0, <2>1, <3>1 DEF Busy, Discipline, StatesMatch, Fits
    <3> HIDE DEF k
    <3> QED
      BY <2>0, <3>1, <3>2, <3>3, <3>4 DEF Discipline, CallsMatch, k
  <2>2. CASE d = c
    <3>1. /\ pc'[d] # "gating" /\ pc'[d] # "decide"
          /\ approval' = approval
      BY <2>2 DEF DriverStep, DriverPcs, RunningPcs, GrantedPcs
    <3>2. pc'[d] = "request" => k \in K
      BY <2>2 DEF DriverStep
    <3>3. k \in K \/ (pc[c] \in CallPcs /\ k = task[c].call)
      BY <2>2 DEF DriverStep
    <3>4. callRun'[k] = r
      BY <2>0, <3>3 DEF DriverStep, Discipline, CallsMatch
    <3>5. k \in K => approval[k] = "none"
      BY DEF DriverStep
    <3> HIDE DEF k
    <3> QED
      BY <2>0, <2>2, <3>1, <3>2, <3>4, <3>5 DEF k
  <2> QED
    BY <2>1, <2>2
<1>7. PendingWaits'
  <2> SUFFICES ASSUME NEW k \in Calls, approval[k] = "PENDING"
               PROVE  \/ /\ runState'[callRun[k]] = "WAITING_APPROVAL"
                         /\ \A d \in Chains : Busy(d)' /\ RunOf(d)' = callRun[k] =>
                              pc'[d] = "gating" /\ task'[d].call = k
                      \/ runState'[callRun[k]] \in TerminalStates /\ pendingApprovals'[k] = 0
    BY <1>a DEF PendingWaits, DriverStep
  <2>1. CASE callRun[k] = r
    BY <1>1, <1>b, <1>c, <2>1 DEF DriverStep
  <2>2. CASE callRun[k] # r
    <3>1. \A d \in Chains : Busy(d)' /\ RunOf(d)' = callRun[k] => d # c
      BY <1>2, <2>2
    <3> QED
      BY <1>2, <1>3, <1>a, <1>b, <2>2, <3>1 DEF Discipline, PendingWaits, DriverStep
  <2> QED
    BY <2>1, <2>2
<1>8. EntriesWait'
  <2> SUFFICES ASSUME NEW k \in Calls, pendingApprovals'[k] # 0
               PROVE  /\ approval[k] # "none" /\ runState'[callRun[k]] = "WAITING_APPROVAL"
                      /\ \A d \in Chains : Busy(d)' /\ RunOf(d)' = callRun[k] =>
                           pc'[d] \in {"decide", "regate"} /\ task'[d].call = k
    BY <1>a, <1>b DEF EntriesWait, DriverStep
  <2>0. pendingApprovals[k] # 0
    BY <1>b
  <2>1. CASE callRun[k] = r
    <3>1. pc[c] = "regate" /\ pc'[c] = "idle"
      BY <1>b, <1>c, <2>1
    <3>2. runState'[r] = "WAITING_APPROVAL"
      BY <2>0, <2>1, <3>1 DEF DriverStep, Discipline, EntriesWait
    <3> QED
      BY <1>1, <1>2, <2>0, <2>1, <3>1, <3>2 DEF Discipline, EntriesWait, DriverStep, Busy
  <2>2. CASE callRun[k] # r
    <3>1. \A d \in Chains : Busy(d)' /\ RunOf(d)' = callRun[k] => d # c
      BY <1>2, <2>2
    <3> QED
      BY <1>2, <1>3, <1>a, <2>0, <2>2, <3>1 DEF Discipline, EntriesWait, DriverStep
  <2> QED
    BY <2>1, <2>2
<1>9. OneAwaited'
  <2> SUFFICES ASSUME NEW k \in Calls, NEW l \in Calls, Awaited(k)', Awaited(l)',
                      callRun'[k] = callRun'[l], runState'[callRun'[k]] = "WAITING_APPROVAL"
               PROVE  k = l
    BY DEF OneAwaited
  <2>1. Awaited(k) /\ Awaited(l)
    BY <1>b DEF Awaited, DriverStep
  <2>2. callRun'[k] = callRun[k] /\ callRun'[l] = callRun[l] /\ callRun[k] \in Runs
    BY <1>a, <2>1 DEF Awaited
  <2>3. CASE callRun[k] = r
    <3>1. runState[r] \notin TerminalStates
      BY <2>2, <2>3 DEF DriverStep, TerminalStates
    <3>2. runState[r] = "WAITING_APPROVAL"
      BY <2>1, <2>3, <3>1 DEF Awaited, Discipline, PendingWaits, EntriesWait
    <3> QED
      BY <2>1, <2>2, <2>3, <3>2 DEF Discipline, OneAwaited
  <2>4. CASE callRun[k] # r
    BY <1>3, <2>1, <2>2, <2>4 DEF Discipline, OneAwaited
  <2> QED
    BY <2>3, <2>4
<1>10. HeldRests'
  <2> SUFFICES ASSUME NEW q \in Runs, runState'[q] = "QUEUED", runAgent[q] \in held',
                      NEW d \in Chains, Busy(d)', RunOf(d)' = q
               PROVE  FALSE
    BY DEF HeldRests, DriverStep
  <2>1. Busy(d) /\ RunOf(d) = q
    BY <1>2
  <2>2. CASE q = r
    BY <1>1, <2>1, <2>2 DEF DriverStep, Busy, TerminalStates
  <2>3. CASE q # r
    <3>1. runState[q] = "QUEUED"
      BY <1>3, <2>3
    <3>2. runAgent[q] \in held
      BY <1>1, <2>3, <3>1 DEF DriverStep, Discipline, OneActiveRunPerAgent, AgentOf, ActiveStates
    <3> QED
      BY <2>1, <3>1, <3>2 DEF Discipline, HeldRests
  <2> QED
    BY <2>2, <2>3
<1>11. RunsCreated'
  BY <1>1, <1>3 DEF Discipline, RunsCreated, DriverStep
<1>12. RecoveryRests'
  BY DEF RecoveryRests, DriverStep
<1>13. OneActiveRunPerAgent'
  BY <1>1, <1>3 DEF Discipline, OneActiveRunPerAgent, DriverStep
<1> QED
  BY <1>4, <1>5, <1>6, <1>7, <1>8, <1>9, <1>10, <1>11, <1>12, <1>13 DEF Discipline

\* The handlers that are such steps.
DriverAction(c) ==
  \/ GateOpen(c) \/ GateClosed(c) \/ Send(c) \/ PrepareFails(c) \/ SendRetryLater(c) \/ Resend(c)
  \/ SendFails(c) \/ Answer(c) \/ Complete(c) \/ AutoExecute(c) \/ ToolFinishes(c) \/ NextIteration(c)
  \/ Failed(c) \/ RegateFails(c) \/ ExecuteApproved(c) \/ RefuseDenied(c) \/ Resume(c)
  \/ At(c, "complete") /\ Completed(c) /\ held' = held
  \/ \E k \in Calls : RequestTool(c, k)
  \/ \E k1, k2 \in Calls : RequestBatch(c, k1, k2)

\* continueRun either gives up, or fails the run, or prepares a request.
LEMMA ContinueMoves ==
  ASSUME NEW c \in Chains, NEW i, NEW n, pc \in [Chains -> Pcs], task \in [Chains -> Tasks],
         NEW rs \in [Runs -> ActiveStates \cup TerminalStates \cup {"NONE"}], RunOf(c) \in Runs,
         ContinueRun(c, i, n, rs)
  PROVE  /\ pc'[c] \in {"idle", "fail", "prepare"}
         /\ \A d \in Chains : d # c => pc'[d] = pc[d] /\ task'[d] = task[d]
         /\ pc'[c] # "idle" => task'[c].run = RunOf(c)
         /\ \A q \in Runs : q # RunOf(c) => runState'[q] = rs[q]
         /\ runState'[RunOf(c)] = IF pc'[c] = "fail" THEN "ERROR" ELSE rs[RunOf(c)]
<1>1. CASE activeRuns[RunOf(c)] # "live" /\ runState' = rs /\ Finish(c)
  BY <1>1 DEF Finish, Goto
<1>2. CASE /\ runState' = [rs EXCEPT ![RunOf(c)] = "ERROR"] /\ Goto(c, "fail") /\ UNCHANGED task
  BY <1>2 DEF Goto, RunOf
<1>3. CASE /\ runState' = rs /\ Goto(c, "prepare")
           /\ task' = [task EXCEPT ![c] = [TaskOn(RunOf(c)) EXCEPT !.iter = i, !.nested = n]]
  BY <1>3 DEF Goto, TaskOn, NoTask
<1> QED
  BY <1>1, <1>2, <1>3 DEF ContinueRun

LEMMA DriverActions ==
  ASSUME Typing, GrantsCoverExecutions, Discipline, NEW c \in Chains, DriverAction(c)
  PROVE  \E K \in SUBSET Calls : DriverStep(c, K)
<1> DEFINE r == RunOf(c)
<1> USE DEF DriverStep, RunOf, ActiveStates, TerminalStates, At, Quiet, Goto, DriverPcs, RunningPcs,
   GrantedPcs, CallPcs, Fits,
        calls, runs, rows, memory, session, restart, history, budget
<1>a. /\ pc \in [Chains -> Pcs] /\ task \in [Chains -> Tasks] /\ pendingApprovals \in [Calls -> Nat]
      /\ runState \in [Runs -> ActiveStates \cup TerminalStates \cup {"NONE"}]
      /\ callRun \in [Calls -> Runs \cup {0}]
  BY DEF Typing, TypeOK, ChainsTyped, RunsTyped, CallsTyped
<1>b. pc[c] # "idle" => r \in Runs /\ runState[r] # "NONE"
  BY BusyChain DEF Typing, TypeOK, ReferencesExist, RunRows, ChainsOK, Discipline, RunsCreated
<1>c. Fits(pc[c], runState[r])
  BY DEF Discipline, StatesMatch
<1>d. pc[c] = "regate" => task[c].call \in Calls
  BY DEF Typing, ReferencesExist, ChainsHaveRuns
<1>0. {} \in SUBSET Calls
  OBVIOUS
<1>1. CASE GateOpen(c)
  <2>1. ContinueRun(c, 0, FALSE, runState) /\ pc[c] # "idle"
    BY <1>1 DEF GateOpen
  <2>2. /\ pc'[c] \in {"idle", "fail", "prepare"}
        /\ \A d \in Chains : d # c => pc'[d] = pc[d] /\ task'[d] = task[d]
        /\ pc'[c] # "idle" => task'[c].run = r
        /\ \A q \in Runs : q # r => runState'[q] = runState[q]
        /\ runState'[r] = IF pc'[c] = "fail" THEN "ERROR" ELSE runState[r]
    BY <1>a, <1>b, <2>1, ContinueMoves
  <2>3. DriverStep(c, {})
    BY <1>a, <1>b, <1>c, <1>1, <2>2, SMTT(60) DEF GateOpen
  <2> QED
    BY <1>0, <2>3
<1>2. CASE GateClosed(c)
  <2>1. DriverStep(c, {})
    BY <1>a, <1>b, <1>c, <1>d, <1>2, SMTT(60) DEF GateClosed, Finish, SetRunState, AgentOf
  <2> QED
    BY <1>0, <2>1
<1>3. CASE Send(c)
  <2>1. DriverStep(c, {})
    BY <1>a, <1>b, <1>c, <1>d, <1>3, SMTT(60) DEF Send, Request, FailRun, SetRunState
  <2> QED
    BY <1>0, <2>1
<1>4. CASE PrepareFails(c)
  <2>1. DriverStep(c, {})
    BY <1>a, <1>b, <1>c, <1>d, <1>4, SMTT(60) DEF PrepareFails, Finish, SetRunState
  <2> QED
    BY <1>0, <2>1
<1>5. CASE SendRetryLater(c)
  <2>1. DriverStep(c, {})
    BY <1>a, <1>b, <1>c, <1>d, <1>5, SMTT(60) DEF SendRetryLater, Responding, Release, Tasks
  <2> QED
    BY <1>0, <2>1
<1>6. CASE Resend(c)
  <2>1. DriverStep(c, {})
    BY <1>a, <1>b, <1>c, <1>d, <1>6, SMTT(60) DEF Resend, FailRun, SetRunState
  <2> QED
    BY <1>0, <2>1
<1>7. CASE SendFails(c)
  <2>1. DriverStep(c, {})
    BY <1>a, <1>b, <1>c, <1>d, <1>7, SMTT(60) DEF SendFails, FailRun, SetRunState, Release
  <2> QED
    BY <1>0, <2>1
<1>8. CASE Answer(c)
  <2>1. DriverStep(c, {})
    BY <1>a, <1>b, <1>c, <1>d, <1>8, SMTT(60) DEF Answer, Responding, Release
  <2> QED
    BY <1>0, <2>1
<1>9. CASE Complete(c)
  <2>1. DriverStep(c, {})
    BY <1>a, <1>b, <1>c, <1>d, <1>9, SMTT(60) DEF Complete, SetRunState
  <2> QED
    BY <1>0, <2>1
<1>10. CASE AutoExecute(c)
  <2>1. DriverStep(c, {})
    BY <1>a, <1>b, <1>c, <1>d, <1>10, SMTT(60) DEF AutoExecute, RunTool
  <2> QED
    BY <1>0, <2>1
<1>11. CASE ToolFinishes(c)
  <2>1. DriverStep(c, {})
    BY <1>a, <1>b, <1>c, <1>d, <1>11, SMTT(60) DEF ToolFinishes
  <2> QED
    BY <1>0, <2>1
<1>12. CASE NextIteration(c)
  <2>1. ContinueRun(c, task[c].iter + 1, TRUE, runState) /\ pc[c] # "idle"
    BY <1>12 DEF NextIteration
  <2>2. /\ pc'[c] \in {"idle", "fail", "prepare"}
        /\ \A d \in Chains : d # c => pc'[d] = pc[d] /\ task'[d] = task[d]
        /\ pc'[c] # "idle" => task'[c].run = r
        /\ \A q \in Runs : q # r => runState'[q] = runState[q]
        /\ runState'[r] = IF pc'[c] = "fail" THEN "ERROR" ELSE runState[r]
    BY <1>a, <1>b, <2>1, ContinueMoves
  <2>3. DriverStep(c, {})
    BY <1>a, <1>b, <1>c, <1>12, <2>2, SMTT(60) DEF NextIteration
  <2> QED
    BY <1>0, <2>3
<1>13. CASE Failed(c)
  <2>1. DriverStep(c, {})
    BY <1>a, <1>b, <1>c, <1>d, <1>13, SMTT(60) DEF Failed, Finish
  <2> QED
    BY <1>0, <2>1
<1>14. CASE RegateFails(c)
  <2>1. DriverStep(c, {})
    BY <1>a, <1>b, <1>c, <1>d, <1>14, SMTT(60) DEF RegateFails, Finish
  <2> QED
    BY <1>0, <2>1
<1>15. CASE ExecuteApproved(c)
  <2>1. DriverStep(c, {})
    BY <1>a, <1>b, <1>c, <1>d, <1>15, SMTT(60) DEF ExecuteApproved, RunTool
  <2> QED
    BY <1>0, <2>1
<1>16. CASE RefuseDenied(c)
  <2>1. DriverStep(c, {})
    BY <1>a, <1>b, <1>c, <1>d, <1>16, SMTT(60) DEF RefuseDenied
  <2> QED
    BY <1>0, <2>1
<1>17. CASE Resume(c)
  <2> DEFINE rs == [runState EXCEPT ![r] = "RUNNING"]
  <2>0. /\ rs \in [Runs -> ActiveStates \cup TerminalStates \cup {"NONE"}]
        /\ \A q \in Runs : rs[q] = IF q = r THEN "RUNNING" ELSE runState[q]
    BY <1>a, StateWritten DEF ActiveStates
  <2>1. ContinueRun(c, task[c].iter, FALSE, rs) /\ pc[c] = "decided"
    BY <1>17 DEF Resume
  <2> HIDE DEF rs
  <2>2. /\ pc'[c] \in {"idle", "fail", "prepare"}
        /\ \A d \in Chains : d # c => pc'[d] = pc[d] /\ task'[d] = task[d]
        /\ pc'[c] # "idle" => task'[c].run = r
        /\ \A q \in Runs : q # r => runState'[q] = runState[q]
        /\ runState'[r] = IF pc'[c] = "fail" THEN "ERROR" ELSE "RUNNING"
    <3>1. /\ pc'[c] \in {"idle", "fail", "prepare"}
          /\ \A d \in Chains : d # c => pc'[d] = pc[d] /\ task'[d] = task[d]
          /\ pc'[c] # "idle" => task'[c].run = r
          /\ \A q \in Runs : q # r => runState'[q] = rs[q]
          /\ runState'[r] = IF pc'[c] = "fail" THEN "ERROR" ELSE rs[r]
      BY <1>a, <1>b, <2>0, <2>1, ContinueMoves
    <3> QED
      BY <1>b, <2>0, <2>1, <3>1
  <2>3. DriverStep(c, {})
    BY <1>a, <1>b, <1>c, <1>17, <2>2, SMTT(60) DEF Resume
  <2> QED
    BY <1>0, <2>3
<1>30. CASE At(c, "complete") /\ Completed(c) /\ held' = held
  <2>1. DriverStep(c, {})
    BY <1>a, <1>b, <1>c, <1>30, SMTT(60) DEF Completed, ResumeQueued, Finish
  <2> QED
    BY <1>0, <2>1
<1>31. CASE \E k \in Calls : RequestTool(c, k)
  <2>1. PICK k \in Calls : RequestTool(c, k)
    BY <1>31
  <2>2. DriverStep(c, {k})
    BY <1>a, <1>b, <1>c, <2>1, SMTT(60) DEF RequestTool, CreateCalls, GrantsCoverExecutions, FreshCallsAreUnused,
       Tasks
  <2> QED
    BY <2>2
<1>32. CASE \E k1, k2 \in Calls : RequestBatch(c, k1, k2)
  <2>1. PICK k1 \in Calls, k2 \in Calls : RequestBatch(c, k1, k2)
    BY <1>32
  <2> DEFINE K == {k1, k2}
  <2>2. /\ \A k \in K : approval[k] = "none" /\ \A d \in Chains : task[d].call # k
        /\ \A k \in Calls : callRun'[k] = IF k \in K THEN r ELSE callRun[k]
        /\ UNCHANGED <<created, runAgent, held, approval, pendingApprovals, mode, task>>
        /\ mode = "up" /\ pc[c] = "answer"
        /\ runState' = [runState EXCEPT ![r] = "ERROR"] /\ pc' = [pc EXCEPT ![c] = "fail"]
    BY <2>1, SMTT(60) DEF RequestBatch, CreateCalls, FailRun, SetRunState, GrantsCoverExecutions,
       FreshCallsAreUnused
  <2> HIDE DEF K
  <2>3. DriverStep(c, K)
    BY <1>a, <1>b, <1>c, <2>2, SMTT(60)
  <2>4. K \in SUBSET Calls
    BY DEF K
  <2> QED
    BY <2>3, <2>4
<1> HIDE DEF DriverStep
<1> QED
  BY <1>1, <1>2, <1>3, <1>4, <1>5, <1>6, <1>7, <1>8, <1>9, <1>10, <1>11, <1>12, <1>13, <1>14, <1>15, <1>16,
     <1>17, <1>30, <1>31, <1>32 DEF DriverAction

\* Completed when the coordinator releases q: the chain goes on with q.
CompletedResuming(c, q) ==
  /\ At(c, "complete") /\ ResumeQueued(q)
  /\ activeRuns' = [activeRuns EXCEPT ![q] = "live", ![RunOf(c)] = "absent"]
  /\ task' = [task EXCEPT ![c] = TaskOn(q)] /\ Goto(c, "prepare")
  /\ UNCHANGED <<created, runState, runAgent, calls, session, restart, budget>>

LEMMA DisciplineStep ==
  ASSUME PendingOnly, MaxStops = 0, Typing, Typing', GrantsCoverExecutions, Discipline, [Next]_vars
  PROVE  Discipline'
<1> USE DEF Busy, RunOf, ActiveStates, TerminalStates, DriverPcs, RunningPcs, GrantedPcs, CallPcs,
        At, Quiet, Goto, SetRunState, calls, runs, rows, memory, session, restart, history, budget
<1>a. /\ pc \in [Chains -> Pcs] /\ task \in [Chains -> Tasks] /\ pendingApprovals \in [Calls -> Nat]
      /\ runState \in [Runs -> ActiveStates \cup TerminalStates \cup {"NONE"}]
      /\ callRun \in [Calls -> Runs \cup {0}]
      /\ approval \in [Calls -> {"none", "PENDING", "APPROVED", "DENIED"}]
      /\ runAgent \in [Runs -> Agents \cup {NoAgent}] /\ created \in 0..MaxRuns
  BY DEF Typing, TypeOK, ChainsTyped, RunsTyped, CallsTyped
<1>b. \A d \in Chains : pc[d] # "idle" => task[d].run \in Runs /\ task[d].run <= created /\ runState[task[d].run] # "NONE"
  BY BusyChain DEF Typing, TypeOK, ReferencesExist, RunRows, ChainsOK, Discipline, RunsCreated
<1>c. \A d \in Chains : pc[d] \in CallPcs => task[d].call \in Calls
  BY DEF Typing, ReferencesExist, ChainsHaveRuns
<1>d. \A k \in Calls : Awaited(k) => callRun[k] \in Runs /\ callRun[k] <= created /\ approval[k] # "none"
  BY DEF Awaited, Discipline, EntriesWait, Typing, TypeOK, ReferencesExist, CallsHaveRuns, CallsTyped
<1>e. MaxRuns \in Nat /\ Runs = 1..MaxRuns
  BY NatBounds DEF Runs
<1>1. ASSUME NEW c \in Chains, NEW a \in Agents, StartRun(c, a)
      PROVE  Discipline'
  <2> USE <1>1 DEF StartRun, TaskOn, NoTask
  <2>a. /\ created + 1 \in Runs /\ created' = created + 1
        /\ \A d \in Chains : pc[d] # "idle" => task[d].run # created'
        /\ \A k \in Calls : Awaited(k) => callRun[k] # created'
    BY <1>a, <1>b, <1>d, <1>e, SMTT(60)
  <2>b. \A d \in Chains : d # c => pc'[d] = pc[d] /\ task'[d] = task[d]
    BY <1>a
  <2>c. pc'[c] = "gate" /\ task'[c].run = created'
    BY <1>a
  <2>d. \A r \in Runs : r # created' => runState'[r] = runState[r]
    BY <1>a, <2>a
  <2>1. StatesMatch'
    BY <1>a, <1>b, <1>c, <1>d, <1>e, SMTT(60) DEF Discipline, StatesMatch, Fits, RunningPcs, GrantedPcs
  <2>2. OneDriver'
    BY <1>a, <1>b, <1>c, <1>d, <1>e, SMTT(60) DEF Discipline, OneDriver, StatesMatch, Fits
  <2>3. CallsMatch'
    BY <1>a, <1>b, <1>c, <1>d, <1>e, SMTT(60) DEF Discipline, CallsMatch, StatesMatch, Fits, OneDriver,
       EntriesWait
  <2>4. PendingWaits'
    BY <1>d, <2>a, <2>b, <2>c, <2>d DEF Discipline, PendingWaits, Awaited
  <2>5. EntriesWait'
    BY <1>d, <2>a, <2>b, <2>c, <2>d DEF Discipline, EntriesWait, Awaited
  <2>6. OneAwaited'
    BY <1>a, <1>b, <1>c, <1>d, <1>e, SMTT(60) DEF Discipline, OneAwaited, Awaited, PendingWaits, EntriesWait
  <2>7. HeldRests'
    BY <1>a, <1>b, <1>c, <1>d, <1>e, SMTT(60) DEF Discipline, HeldRests, OneActiveRunPerAgent, PendingWaits
  <2>8. RunsCreated'
    BY <1>a, <1>b, <1>c, <1>d, <1>e, SMTT(60) DEF Discipline, RunsCreated
  <2>9. RecoveryRests'
    BY <1>a, <1>b, <1>c, <1>d, <1>e, SMTT(60) DEF Discipline, RecoveryRests
  <2>10. OneActiveRunPerAgent'
    BY <1>a, <1>b, <1>c, <1>d, <1>e, SMTT(60) DEF Discipline, OneActiveRunPerAgent
  <2> QED
    BY <2>1, <2>2, <2>3, <2>4, <2>5, <2>6, <2>7, <2>8, <2>9, <2>10 DEF Discipline
<1>2. ASSUME NEW c \in Chains, Gate(c)
      PROVE  Discipline'
  <2> USE <1>2 DEF Gate
  <2> DEFINE r == task[c].run
  <2> DEFINE k == task[c].call
  <2>a. /\ r \in Runs /\ k \in Calls /\ callRun[k] = r /\ approval[k] = "none"
        /\ pendingApprovals[k] = 0 /\ runState[r] = "RUNNING"
    BY <1>b, <1>c, <1>d DEF Discipline, StatesMatch, Fits, CallsMatch, Awaited
  <2>b. \A d \in Chains : d # c /\ pc[d] # "idle" => task[d].run # r
    BY <2>a DEF Discipline, OneDriver
  <2>c. \A l \in Calls : Awaited(l) => callRun[l] # r
    BY <2>a DEF Discipline, PendingWaits, EntriesWait, Awaited
  <2>d. /\ \A q \in Runs : runState'[q] = IF q = r THEN "WAITING_APPROVAL" ELSE runState[q]
        /\ \A l \in Calls : approval'[l] = IF l = k THEN "PENDING" ELSE approval[l]
        /\ \A d \in Chains : pc'[d] = IF d = c THEN "gating" ELSE pc[d]
    BY <1>a
  <2> HIDE DEF r, k
  <2>1. StatesMatch'
    BY <1>b, <2>a, <2>b, <2>d DEF Discipline, StatesMatch, Fits, r
  <2>2. OneDriver'
    BY <1>a, <1>b, <1>c, <1>d, <1>e, SMTT(60) DEF Discipline, OneDriver, StatesMatch, Fits
  <2>3. CallsMatch'
    BY <1>a, <1>b, <1>c, <1>d, <1>e, SMTT(60) DEF Discipline, CallsMatch, StatesMatch, Fits, OneDriver,
       EntriesWait
  <2>4. PendingWaits'
    <3> SUFFICES ASSUME NEW l \in Calls, approval'[l] = "PENDING"
                 PROVE  \/ /\ runState'[callRun[l]] = "WAITING_APPROVAL"
                           /\ \A d \in Chains : pc'[d] # "idle" /\ task[d].run = callRun[l] =>
                                pc'[d] = "gating" /\ task[d].call = l
                        \/ runState'[callRun[l]] \in TerminalStates /\ pendingApprovals[l] = 0
      BY DEF PendingWaits
    <3>1. CASE l = k
      BY <2>a, <2>b, <2>d, <3>1 DEF k
    <3>2. CASE l # k
      BY <1>d, <2>a, <2>b, <2>c, <2>d, <3>2 DEF Discipline, PendingWaits, Awaited, r
    <3> QED
      BY <3>1, <3>2
  <2>5. EntriesWait'
    BY <1>a, <1>b, <1>c, <1>d, <1>e, SMTT(60) DEF Discipline, EntriesWait, PendingWaits
  <2>6. OneAwaited'
    BY <1>d, <2>a, <2>c, <2>d DEF Discipline, OneAwaited, Awaited
  <2>7. HeldRests'
    BY <1>a, <1>b, <1>c, <1>d, <1>e, SMTT(60) DEF Discipline, HeldRests, OneActiveRunPerAgent, PendingWaits
  <2>8. RunsCreated'
    BY <1>a, <1>b, <1>c, <1>d, <1>e, SMTT(60) DEF Discipline, RunsCreated
  <2>9. RecoveryRests'
    BY <1>a, <1>b, <1>c, <1>d, <1>e, SMTT(60) DEF Discipline, RecoveryRests
  <2>10. OneActiveRunPerAgent'
    BY <2>a, <2>d DEF Discipline, OneActiveRunPerAgent
  <2> QED
    BY <2>1, <2>2, <2>3, <2>4, <2>5, <2>6, <2>7, <2>8, <2>9, <2>10 DEF Discipline
<1>3. ASSUME NEW c \in Chains, Gated(c)
      PROVE  Discipline'
  <2> USE <1>3 DEF Gated, Finish, NoTask
  <2> DEFINE r == task[c].run
  <2> DEFINE k == task[c].call
  <2>a. /\ r \in Runs /\ k \in Calls /\ callRun[k] = r /\ approval[k] # "none"
        /\ pendingApprovals[k] = 0 /\ runState[r] = "WAITING_APPROVAL"
    BY <1>b, <1>c, <1>d DEF Discipline, StatesMatch, Fits, CallsMatch
  <2>b. \A d \in Chains : d # c /\ pc[d] # "idle" /\ task[d].run = r => pc[d] = "decide" /\ task[d].call = k
    BY <2>a DEF Discipline, OneDriver
  <2>c. \A l \in Calls : Awaited(l) /\ callRun[l] = r => l = k
    BY <2>a DEF Discipline, PendingWaits, EntriesWait, Awaited
  <2>d. /\ \A l \in Calls : l # k => pendingApprovals'[l] = pendingApprovals[l]
        /\ \A d \in Chains : d # c => pc'[d] = pc[d] /\ task'[d] = task[d]
        /\ pc'[c] = "idle"
    BY <1>a
  <2> HIDE DEF r, k
  <2>1. StatesMatch'
    BY <1>a, <1>b, <1>c, <1>d, <1>e, SMTT(60) DEF Discipline, StatesMatch, Fits, RunningPcs, GrantedPcs
  <2>2. OneDriver'
    BY <1>a, <1>b, <1>c, <1>d, <1>e, SMTT(60) DEF Discipline, OneDriver, StatesMatch, Fits
  <2>3. CallsMatch'
    BY <1>a, <1>b, <1>c, <1>d, <1>e, SMTT(60) DEF Discipline, CallsMatch, StatesMatch, Fits, OneDriver,
       EntriesWait
  <2>4. PendingWaits'
    BY <1>d, <2>a, <2>b, <2>c, <2>d DEF Discipline, PendingWaits, Awaited
  <2>5. EntriesWait'
    <3> SUFFICES ASSUME NEW l \in Calls, pendingApprovals'[l] # 0
                 PROVE  /\ approval[l] # "none" /\ runState[callRun[l]] = "WAITING_APPROVAL"
                        /\ \A d \in Chains : pc'[d] # "idle" /\ task'[d].run = callRun[l] =>
                             pc'[d] \in {"decide", "regate"} /\ task'[d].call = l
      BY DEF EntriesWait
    <3>1. CASE l = k
      BY <2>a, <2>b, <2>d, <3>1
    <3>2. CASE l # k
      BY <2>d, <3>2 DEF Discipline, EntriesWait
    <3> QED
      BY <3>1, <3>2
  <2>6. OneAwaited'
    BY <2>a, <2>c, <2>d DEF Discipline, OneAwaited, Awaited
  <2>7. HeldRests'
    BY <1>a, <1>b, <1>c, <1>d, <1>e, SMTT(60) DEF Discipline, HeldRests, OneActiveRunPerAgent, PendingWaits
  <2>8. RunsCreated'
    BY <1>a, <1>b, <1>c, <1>d, <1>e, SMTT(60) DEF Discipline, RunsCreated
  <2>9. RecoveryRests'
    BY <1>a, <1>b, <1>c, <1>d, <1>e, SMTT(60) DEF Discipline, RecoveryRests
  <2>10. OneActiveRunPerAgent'
    BY <1>a, <1>b, <1>c, <1>d, <1>e, SMTT(60) DEF Discipline, OneActiveRunPerAgent
  <2> QED
    BY <2>1, <2>2, <2>3, <2>4, <2>5, <2>6, <2>7, <2>8, <2>9, <2>10 DEF Discipline
<1>4. ASSUME NEW c \in Chains, NEW k \in Calls, NEW verdict, Decide(c, k, verdict)
      PROVE  Discipline'
  <2> USE <1>4 DEF Decide, TaskOn, NoTask
  <2> DEFINE r == callRun[k]
  <2>a. /\ r \in Runs /\ approval[k] = "PENDING"
        /\ \/ runState[r] = "WAITING_APPROVAL"
           \/ runState[r] \in TerminalStates /\ pendingApprovals[k] = 0
    BY <1>d DEF Discipline, PendingWaits, Awaited
  <2>b. \A d \in Chains : pc[d] # "idle" /\ task[d].run = r /\ runState[r] = "WAITING_APPROVAL" =>
          pc[d] = "gating" /\ task[d].call = k
    BY <2>a DEF Discipline, PendingWaits
  <2>c. \A l \in Calls : Awaited(l) /\ callRun[l] = r /\ runState[r] = "WAITING_APPROVAL" => l = k
    BY <2>a DEF Discipline, OneAwaited, Awaited
  <2>d. /\ \A l \in Calls : l # k => approval'[l] = approval[l]
        /\ approval'[k] \notin {"none", "PENDING"}
        /\ \A d \in Chains : d # c => pc'[d] = pc[d] /\ task'[d] = task[d]
        /\ pc'[c] = "decide" /\ task'[c].run = r /\ task'[c].call = k
    BY <1>a
  <2> HIDE DEF r
  <2>1. StatesMatch'
    BY <2>a, <2>d DEF Discipline, StatesMatch, Fits
  <2>2. OneDriver'
    BY <2>a, <2>b, <2>d DEF Discipline, OneDriver
  <2>3. CallsMatch'
    BY <1>a, <1>b, <1>c, <1>d, <1>e, SMTT(60) DEF Discipline, CallsMatch, StatesMatch, Fits, OneDriver,
       EntriesWait
  <2>4. PendingWaits'
    <3> SUFFICES ASSUME NEW l \in Calls, approval'[l] = "PENDING"
                 PROVE  \/ /\ runState[callRun[l]] = "WAITING_APPROVAL"
                           /\ \A d \in Chains : pc'[d] # "idle" /\ task'[d].run = callRun[l] =>
                                pc'[d] = "gating" /\ task'[d].call = l
                        \/ runState[callRun[l]] \in TerminalStates /\ pendingApprovals[l] = 0
      BY DEF PendingWaits
    <3>1. l # k /\ approval[l] = "PENDING"
      BY <2>d
    <3> QED
      BY <2>a, <2>c, <2>d, <3>1 DEF Discipline, PendingWaits, Awaited, r
  <2>5. EntriesWait'
    <3> SUFFICES ASSUME NEW l \in Calls, pendingApprovals[l] # 0
                 PROVE  /\ approval'[l] # "none" /\ runState[callRun[l]] = "WAITING_APPROVAL"
                        /\ \A d \in Chains : pc'[d] # "idle" /\ task'[d].run = callRun[l] =>
                             pc'[d] \in {"decide", "regate"} /\ task'[d].call = l
      BY DEF EntriesWait
    <3>1. /\ approval[l] # "none" /\ runState[callRun[l]] = "WAITING_APPROVAL"
          /\ \A d \in Chains : pc[d] # "idle" /\ task[d].run = callRun[l] =>
               pc[d] \in {"decide", "regate"} /\ task[d].call = l
      BY DEF Discipline, EntriesWait
    <3> QED
      BY <2>a, <2>c, <2>d, <3>1 DEF Awaited
  <2>6. OneAwaited'
    BY <1>a, <1>b, <1>c, <1>d, <1>e, SMTT(60) DEF Discipline, OneAwaited, Awaited, PendingWaits, EntriesWait
  <2>7. HeldRests'
    BY <1>a, <1>b, <1>c, <1>d, <1>e, SMTT(60) DEF Discipline, HeldRests, OneActiveRunPerAgent, PendingWaits
  <2>8. RunsCreated'
    BY <1>a, <1>b, <1>c, <1>d, <1>e, SMTT(60) DEF Discipline, RunsCreated
  <2>9. RecoveryRests'
    BY <1>a, <1>b, <1>c, <1>d, <1>e, SMTT(60) DEF Discipline, RecoveryRests
  <2>10. OneActiveRunPerAgent'
    BY <1>a, <1>b, <1>c, <1>d, <1>e, SMTT(60) DEF Discipline, OneActiveRunPerAgent
  <2> QED
    BY <2>1, <2>2, <2>3, <2>4, <2>5, <2>6, <2>7, <2>8, <2>9, <2>10 DEF Discipline
<1>5. ASSUME NEW c \in Chains, ResumeAfterApproval(c)
      PROVE  Discipline'
  <2> DEFINE r == task[c].run
  <2> DEFINE k == task[c].call
  <2> DEFINE next == pendingApprovals[k]
  <2>0. pc[c] = "decide" /\ mode = "up"
    BY <1>5 DEF ResumeAfterApproval
  <2>a. /\ r \in Runs /\ k \in Calls /\ callRun[k] = r
        /\ runState[r] \in TerminalStates => next = 0
        /\ runState[r] \in TerminalStates \cup {"WAITING_APPROVAL"}
    BY <1>b, <1>c, <2>0 DEF Discipline, StatesMatch, Fits, CallsMatch
  <2>b. next # 0 => \A d \in Chains : d # c /\ pc[d] # "idle" => task[d].run # r
    BY <2>0, <2>a DEF Discipline, OneDriver, CallsMatch
  <2>c. \E e \in Chains \cup {NoChain}, q \in Runs :
          /\ \A d \in Chains : d # c /\ d # e => pc'[d] = pc[d] /\ task'[d] = task[d]
          /\ e \in Chains =>
               /\ e # c /\ pc'[e] = "prepare" /\ task'[e].run = q
               /\ runState[q] = "QUEUED" /\ runAgent[q] \in held /\ runAgent[q] \notin held'
    <3> DEFINE pc1 == [pc EXCEPT ![c] = IF next = 0 THEN "idle" ELSE "regate"]
    <3> DEFINE task1 == [task EXCEPT ![c] = IF next = 0 THEN NoTask ELSE [@ EXCEPT !.iter = next]]
    <3>1. \A d \in Chains : d # c => pc1[d] = pc[d] /\ task1[d] = task[d]
      BY <1>a
    <3>2. pc1 \in [Chains -> Pcs] /\ DOMAIN task1 = Chains
      BY <1>a DEF Pcs
    <3>3. CASE pc' = pc1 /\ task' = task1
      <4>1. NoChain \notin Chains /\ r \in Runs
        BY <2>a, ConstantsAssumption
      <4> HIDE DEF pc1, task1
      <4> QED
        BY <3>1, <3>3, <4>1
    <3>4. CASE \E q \in Runs, d \in Chains \ {c} :
                 /\ ResumeQueued(q) /\ pc[d] = "idle"
                 /\ pc' = [pc1 EXCEPT ![d] = "prepare"]
                 /\ task' = [task1 EXCEPT ![d] = TaskOn(q)]
      <4> HIDE DEF pc1, task1
      <4>1. PICK q \in Runs, e \in Chains \ {c} :
                 /\ ResumeQueued(q)
                 /\ pc' = [pc1 EXCEPT ![e] = "prepare"]
                 /\ task' = [task1 EXCEPT ![e] = TaskOn(q)]
        BY <3>4
      <4>2. TaskOn(q).run = q
        BY TaskOnType
      <4>3. pc'[e] = "prepare" /\ task'[e].run = q
        BY <3>2, <4>1, <4>2
      <4>4. \A d \in Chains : d # c /\ d # e => pc'[d] = pc[d] /\ task'[d] = task[d]
        BY <3>1, <3>2, <4>1
      <4> QED
        BY <4>1, <4>3, <4>4 DEF ResumeQueued
    <3> HIDE DEF pc1, task1
    <3> QED
      BY <1>5, <3>3, <3>4 DEF ResumeAfterApproval, pc1, task1
  <2>d. /\ IF next = 0 THEN pc'[c] = "idle" ELSE pc'[c] = "regate" /\ task'[c].run = r /\ task'[c].call = k
        /\ held' \subseteq held
        /\ UNCHANGED <<created, runState, runAgent, approval, pendingApprovals, callRun, mode>>
    BY <1>5, <1>a, SMTT(60) DEF ResumeAfterApproval, ResumeQueued, Tasks
  <2>e. PICK e \in Chains \cup {NoChain}, q \in Runs :
          /\ \A d \in Chains : d # c /\ d # e => pc'[d] = pc[d] /\ task'[d] = task[d]
          /\ e \in Chains =>
               /\ e # c /\ pc'[e] = "prepare" /\ task'[e].run = q
               /\ runState[q] = "QUEUED" /\ runAgent[q] \in held /\ runAgent[q] \notin held'
    BY <2>c
  <2>f. e \in Chains => /\ q # r
                        /\ \A d \in Chains : pc[d] # "idle" => task[d].run # q
    BY <2>a, <2>e DEF Discipline, HeldRests
  <2>g. \A l \in Calls : Awaited(l) /\ next # 0 /\ callRun[l] = r => l = k /\ approval[l] # "PENDING"
    BY <2>0, <2>a DEF Discipline, OneAwaited, Awaited, PendingWaits, EntriesWait
  <2> HIDE DEF r, k, next
  <2>1. StatesMatch'
    BY <2>0, <2>a, <2>d, <2>e, <2>f DEF Discipline, StatesMatch, Fits, next
  <2>2. OneDriver'
    BY <2>a, <2>b, <2>d, <2>e, <2>f DEF Discipline, OneDriver
  <2>3. CallsMatch'
    BY <2>0, <2>a, <2>b, <2>d, <2>e, <2>f DEF Discipline, CallsMatch, next
  <2>4. PendingWaits'
    BY <1>d, <2>0, <2>a, <2>b, <2>d, <2>e, <2>f, <2>g DEF Discipline, PendingWaits, Awaited
  <2>5. EntriesWait'
    <3> SUFFICES ASSUME NEW l \in Calls, pendingApprovals[l] # 0
                 PROVE  /\ approval[l] # "none" /\ runState[callRun[l]] = "WAITING_APPROVAL"
                        /\ \A d \in Chains : pc'[d] # "idle" /\ task'[d].run = callRun[l] =>
                             pc'[d] \in {"decide", "regate"} /\ task'[d].call = l
      BY <2>d DEF EntriesWait
    <3>1. /\ approval[l] # "none" /\ runState[callRun[l]] = "WAITING_APPROVAL"
          /\ \A d \in Chains : pc[d] # "idle" /\ task[d].run = callRun[l] =>
               pc[d] \in {"decide", "regate"} /\ task[d].call = l
      BY DEF Discipline, EntriesWait
    <3>2. e \in Chains => callRun[l] # q
      BY <2>e, <3>1
    <3>3. callRun[l] = r => l = k
      BY <2>0, <3>1 DEF r, k
    <3> QED
      BY <2>d, <2>e, <3>1, <3>2, <3>3
  <2>6. OneAwaited'
    BY <2>d DEF Discipline, OneAwaited, Awaited
  <2>7. HeldRests'
    BY <2>a, <2>d, <2>e, <2>f DEF Discipline, HeldRests, r
  <2>8. RunsCreated'
    BY <2>d DEF Discipline, RunsCreated
  <2>9. RecoveryRests'
    BY <2>0, <2>d DEF RecoveryRests
  <2>10. OneActiveRunPerAgent'
    BY <2>d DEF Discipline, OneActiveRunPerAgent
  <2> QED
    BY <2>1, <2>2, <2>3, <2>4, <2>5, <2>6, <2>7, <2>8, <2>9, <2>10 DEF Discipline
<1>6. ASSUME NEW c \in Chains, NEW q \in Runs, CompletedResuming(c, q)
      PROVE  Discipline'
  <2> USE <1>6 DEF CompletedResuming, ResumeQueued, TaskOn, NoTask
  <2>a. /\ \A d \in Chains : pc[d] # "idle" => task[d].run # q
        /\ \A d \in Chains : d # c => pc'[d] = pc[d] /\ task'[d] = task[d]
        /\ pc'[c] = "prepare" /\ task'[c].run = q
    BY <1>a DEF Discipline, HeldRests
  <2>1. StatesMatch'
    BY <1>a, <1>b, <1>c, <1>d, <1>e, SMTT(60) DEF Discipline, StatesMatch, Fits, RunningPcs, GrantedPcs
  <2>2. OneDriver'
    BY <2>a DEF Discipline, OneDriver
  <2>3. CallsMatch'
    BY <1>a, <1>b, <1>c, <1>d, <1>e, SMTT(60) DEF Discipline, CallsMatch, StatesMatch, Fits, OneDriver,
       EntriesWait
  <2>4. PendingWaits'
    BY <1>a, <1>b, <1>c, <1>d, <1>e, SMTT(60) DEF Discipline, PendingWaits, EntriesWait
  <2>5. EntriesWait'
    BY <1>a, <1>b, <1>c, <1>d, <1>e, SMTT(60) DEF Discipline, EntriesWait, PendingWaits
  <2>6. OneAwaited'
    BY <1>a, <1>b, <1>c, <1>d, <1>e, SMTT(60) DEF Discipline, OneAwaited, Awaited, PendingWaits, EntriesWait
  <2>7. HeldRests'
    BY <1>a, <1>b, <1>c, <1>d, <1>e, SMTT(60) DEF Discipline, HeldRests, OneActiveRunPerAgent, PendingWaits
  <2>8. RunsCreated'
    BY <1>a, <1>b, <1>c, <1>d, <1>e, SMTT(60) DEF Discipline, RunsCreated
  <2>9. RecoveryRests'
    BY <1>a, <1>b, <1>c, <1>d, <1>e, SMTT(60) DEF Discipline, RecoveryRests
  <2>10. OneActiveRunPerAgent'
    BY <1>a, <1>b, <1>c, <1>d, <1>e, SMTT(60) DEF Discipline, OneActiveRunPerAgent
  <2> QED
    BY <2>1, <2>2, <2>3, <2>4, <2>5, <2>6, <2>7, <2>8, <2>9, <2>10 DEF Discipline
<1>7. ASSUME NEW c \in Chains, NEW q \in Runs, AssignHandoff(c, q)
      PROVE  Discipline'
  <2> USE <1>7 DEF AssignHandoff, ResumeQueued, TaskOn, NoTask
  <2>a. /\ \A d \in Chains : pc[d] # "idle" => task[d].run # q
        /\ \A d \in Chains : d # c => pc'[d] = pc[d] /\ task'[d] = task[d]
        /\ pc'[c] = "prepare" /\ task'[c].run = q
    BY <1>a DEF Discipline, HeldRests
  <2>1. StatesMatch'
    BY <1>a, <1>b, <1>c, <1>d, <1>e, SMTT(60) DEF Discipline, StatesMatch, Fits, RunningPcs, GrantedPcs
  <2>2. OneDriver'
    BY <2>a DEF Discipline, OneDriver
  <2>3. CallsMatch'
    BY <1>a, <1>b, <1>c, <1>d, <1>e, SMTT(60) DEF Discipline, CallsMatch, StatesMatch, Fits, OneDriver,
       EntriesWait
  <2>4. PendingWaits'
    BY <1>a, <1>b, <1>c, <1>d, <1>e, SMTT(60) DEF Discipline, PendingWaits, EntriesWait
  <2>5. EntriesWait'
    BY <1>a, <1>b, <1>c, <1>d, <1>e, SMTT(60) DEF Discipline, EntriesWait, PendingWaits
  <2>6. OneAwaited'
    BY <1>a, <1>b, <1>c, <1>d, <1>e, SMTT(60) DEF Discipline, OneAwaited, Awaited, PendingWaits, EntriesWait
  <2>7. HeldRests'
    BY <1>a, <1>b, <1>c, <1>d, <1>e, SMTT(60) DEF Discipline, HeldRests, OneActiveRunPerAgent, PendingWaits
  <2>8. RunsCreated'
    BY <1>a, <1>b, <1>c, <1>d, <1>e, SMTT(60) DEF Discipline, RunsCreated
  <2>9. RecoveryRests'
    BY <1>a, <1>b, <1>c, <1>d, <1>e, SMTT(60) DEF Discipline, RecoveryRests
  <2>10. OneActiveRunPerAgent'
    BY <1>a, <1>b, <1>c, <1>d, <1>e, SMTT(60) DEF Discipline, OneActiveRunPerAgent
  <2> QED
    BY <2>1, <2>2, <2>3, <2>4, <2>5, <2>6, <2>7, <2>8, <2>9, <2>10 DEF Discipline
<1>8. ASSUME NEW a \in Agents, RecoverRun(a)
      PROVE  Discipline'
  <2>0. /\ mode = "recovering" /\ unrecovered' = unrecovered \ {a}
        /\ UNCHANGED <<created, runAgent, held, approval, pendingApprovals, callRun, pc, task, mode>>
    BY <1>8 DEF RecoverRun
  <2>a. /\ \A d \in Chains : pc[d] = "idle"
        /\ \A k \in Calls : pendingApprovals[k] = 0
        /\ \A r \in Runs : runState[r] \in ActiveStates => runAgent[r] \in unrecovered
    BY <2>0 DEF Discipline, RecoveryRests
  <2> DEFINE active == {q \in Runs : runAgent[q] = a /\ runState[q] \in ActiveStates}
  <2>c. \/ active = {} /\ runState' = runState
        \/ \E r \in active : runState' = [runState EXCEPT ![r] = "ERROR"]
    BY <1>8 DEF RecoverRun
  <2>b. /\ \A r \in Runs : \/ runState'[r] = runState[r]
                           \/ runState[r] \in ActiveStates /\ runState'[r] = "ERROR"
        /\ \A q \in Runs : runAgent[q] = a => runState'[q] \notin ActiveStates
    <3>1. CASE active = {} /\ runState' = runState
      <4>1. \A q \in Runs : runAgent[q] = a => runState[q] \notin ActiveStates
        BY <3>1
      <4> HIDE DEF active
      <4> QED
        BY <3>1, <4>1
    <3>2. CASE \E r \in active : runState' = [runState EXCEPT ![r] = "ERROR"]
      <4>1. PICK r \in active : runState' = [runState EXCEPT ![r] = "ERROR"]
        BY <3>2
      <4>2. r \in Runs /\ runAgent[r] = a /\ runState[r] \in ActiveStates
        OBVIOUS
      <4>3. \A q \in Runs : runState'[q] = IF q = r THEN "ERROR" ELSE runState[q]
        BY <1>a, <4>1, <4>2
      <4>4. \A q \in Runs : runAgent[q] = a /\ runState[q] \in ActiveStates => q = r
        BY <4>2 DEF Discipline, OneActiveRunPerAgent
      <4> HIDE DEF active
      <4> QED
        BY <4>2, <4>3, <4>4
    <3> QED
      BY <2>c, <3>1, <3>2
  <2>1. StatesMatch'
    BY <2>0, <2>a DEF StatesMatch, Fits
  <2>2. OneDriver'
    BY <1>d, <2>0, <2>a, <2>b DEF Discipline, OneDriver, StatesMatch, Fits
  <2>3. CallsMatch'
    BY <2>0, <2>a DEF CallsMatch
  <2>4. PendingWaits'
    BY <1>d, <2>0, <2>a, <2>b DEF Discipline, PendingWaits, Awaited
  <2>5. EntriesWait'
    BY <2>0, <2>a DEF EntriesWait
  <2>6. OneAwaited'
    BY <1>d, <2>0, <2>a, <2>b DEF Discipline, OneAwaited, Awaited, PendingWaits, EntriesWait
  <2>7. HeldRests'
    BY <1>d, <2>0, <2>a, <2>b DEF Discipline, HeldRests, OneActiveRunPerAgent, PendingWaits
  <2>8. RunsCreated'
    BY <1>d, <2>0, <2>a, <2>b DEF Discipline, RunsCreated
  <2>9. RecoveryRests'
    <3> SUFFICES ASSUME NEW q \in Runs, runState'[q] \in ActiveStates
                 PROVE  runAgent[q] \in unrecovered'
      BY <2>0, <2>a DEF RecoveryRests
    <3>1. runState[q] \in ActiveStates /\ runAgent[q] \in unrecovered
      BY <2>a, <2>b
    <3>2. runAgent[q] # a
      BY <2>b
    <3> QED
      BY <2>0, <3>1, <3>2
  <2>10. OneActiveRunPerAgent'
    BY <1>d, <2>0, <2>a, <2>b DEF Discipline, OneActiveRunPerAgent
  <2> QED
    BY <2>1, <2>2, <2>3, <2>4, <2>5, <2>6, <2>7, <2>8, <2>9, <2>10 DEF Discipline
<1>9. ASSUME RecoverApprovals
      PROVE  Discipline'
  <2> USE <1>9 DEF RecoverApprovals
  <2>1. StatesMatch'
    BY <1>a, <1>b, <1>c, <1>d, <1>e, SMTT(60) DEF Discipline, StatesMatch, Fits, RunningPcs, GrantedPcs
  <2>2. OneDriver'
    BY <1>a, <1>b, <1>c, <1>d, <1>e, SMTT(60) DEF Discipline, OneDriver, StatesMatch, Fits
  <2>3. CallsMatch'
    BY <1>a, <1>b, <1>c, <1>d, <1>e, SMTT(60) DEF Discipline, CallsMatch, StatesMatch, Fits, OneDriver,
       EntriesWait
  <2>4. PendingWaits'
    BY <1>a, <1>b, <1>c, <1>d, <1>e, SMTT(60) DEF Discipline, PendingWaits, EntriesWait
  <2>5. EntriesWait'
    BY <1>a, <1>b, <1>c, <1>d, <1>e, SMTT(60) DEF Discipline, EntriesWait, PendingWaits
  <2>6. OneAwaited'
    BY <1>a, <1>b, <1>c, <1>d, <1>e, SMTT(60) DEF Discipline, OneAwaited, Awaited, PendingWaits, EntriesWait
  <2>7. HeldRests'
    BY <1>a, <1>b, <1>c, <1>d, <1>e, SMTT(60) DEF Discipline, HeldRests, OneActiveRunPerAgent, PendingWaits
  <2>8. RunsCreated'
    BY <1>a, <1>b, <1>c, <1>d, <1>e, SMTT(60) DEF Discipline, RunsCreated
  <2>9. RecoveryRests'
    BY <1>a, <1>b, <1>c, <1>d, <1>e, SMTT(60) DEF Discipline, RecoveryRests
  <2>10. OneActiveRunPerAgent'
    BY <1>a, <1>b, <1>c, <1>d, <1>e, SMTT(60) DEF Discipline, OneActiveRunPerAgent
  <2> QED
    BY <2>1, <2>2, <2>3, <2>4, <2>5, <2>6, <2>7, <2>8, <2>9, <2>10 DEF Discipline
<1>10. ASSUME Crash
      PROVE  Discipline'
  <2> USE <1>10 DEF Crash
  <2>1. StatesMatch'
    BY <1>a, <1>b, <1>c, <1>d, <1>e, SMTT(60) DEF Discipline, StatesMatch, Fits, RunningPcs, GrantedPcs
  <2>2. OneDriver'
    BY <1>a, <1>b, <1>c, <1>d, <1>e, SMTT(60) DEF Discipline, OneDriver, StatesMatch, Fits
  <2>3. CallsMatch'
    BY <1>a, <1>b, <1>c, <1>d, <1>e, SMTT(60) DEF Discipline, CallsMatch, StatesMatch, Fits, OneDriver,
       EntriesWait
  <2>4. PendingWaits'
    BY <1>a, <1>b, <1>c, <1>d, <1>e, SMTT(60) DEF Discipline, PendingWaits, EntriesWait
  <2>5. EntriesWait'
    BY <1>a, <1>b, <1>c, <1>d, <1>e, SMTT(60) DEF Discipline, EntriesWait, PendingWaits
  <2>6. OneAwaited'
    BY <1>a, <1>b, <1>c, <1>d, <1>e, SMTT(60) DEF Discipline, OneAwaited, Awaited, PendingWaits, EntriesWait
  <2>7. HeldRests'
    BY <1>a, <1>b, <1>c, <1>d, <1>e, SMTT(60) DEF Discipline, HeldRests, OneActiveRunPerAgent, PendingWaits
  <2>8. RunsCreated'
    BY <1>a, <1>b, <1>c, <1>d, <1>e, SMTT(60) DEF Discipline, RunsCreated
  <2>9. RecoveryRests'
    <3>1. \A r \in Runs : runState[r] \in ActiveStates => runAgent[r] \in Agents
      BY DEF Discipline, RunsCreated, Typing, ReferencesExist, RunsHaveAgents
    <3> QED
      BY <3>1 DEF RecoveryRests
  <2>10. OneActiveRunPerAgent'
    BY <1>a, <1>b, <1>c, <1>d, <1>e, SMTT(60) DEF Discipline, OneActiveRunPerAgent
  <2> QED
    BY <2>1, <2>2, <2>3, <2>4, <2>5, <2>6, <2>7, <2>8, <2>9, <2>10 DEF Discipline
<1>11. ASSUME UNCHANGED vars
      PROVE  Discipline'
  <2> USE <1>11 DEF vars
  <2>1. StatesMatch'
    BY <1>a, <1>b, <1>c, <1>d, <1>e, SMTT(60) DEF Discipline, StatesMatch, Fits, RunningPcs, GrantedPcs
  <2>2. OneDriver'
    BY <1>a, <1>b, <1>c, <1>d, <1>e, SMTT(60) DEF Discipline, OneDriver, StatesMatch, Fits
  <2>3. CallsMatch'
    BY <1>a, <1>b, <1>c, <1>d, <1>e, SMTT(60) DEF Discipline, CallsMatch, StatesMatch, Fits, OneDriver,
       EntriesWait
  <2>4. PendingWaits'
    BY <1>a, <1>b, <1>c, <1>d, <1>e, SMTT(60) DEF Discipline, PendingWaits, EntriesWait
  <2>5. EntriesWait'
    BY <1>a, <1>b, <1>c, <1>d, <1>e, SMTT(60) DEF Discipline, EntriesWait, PendingWaits
  <2>6. OneAwaited'
    BY <1>a, <1>b, <1>c, <1>d, <1>e, SMTT(60) DEF Discipline, OneAwaited, Awaited, PendingWaits, EntriesWait
  <2>7. HeldRests'
    BY <1>a, <1>b, <1>c, <1>d, <1>e, SMTT(60) DEF Discipline, HeldRests, OneActiveRunPerAgent, PendingWaits
  <2>8. RunsCreated'
    BY <1>a, <1>b, <1>c, <1>d, <1>e, SMTT(60) DEF Discipline, RunsCreated
  <2>9. RecoveryRests'
    BY <1>a, <1>b, <1>c, <1>d, <1>e, SMTT(60) DEF Discipline, RecoveryRests
  <2>10. OneActiveRunPerAgent'
    BY <1>a, <1>b, <1>c, <1>d, <1>e, SMTT(60) DEF Discipline, OneActiveRunPerAgent
  <2> QED
    BY <2>1, <2>2, <2>3, <2>4, <2>5, <2>6, <2>7, <2>8, <2>9, <2>10 DEF Discipline
<1>12. ASSUME NEW c \in Chains, DriverAction(c)
       PROVE  Discipline'
  <2>1. PICK K \in SUBSET Calls : DriverStep(c, K)
    BY <1>12, DriverActions
  <2> QED
    BY <2>1, DriverStepKeeps
<1>13. \A c \in Chains : ~Stopped(c)
  BY DEF Stopped, Discipline, StatesMatch, Fits
<1>14. ~(stops < MaxStops)
  BY NatBounds, SMTT(60) DEF Typing, TypeOK, ProcessTyped
<1>15. ASSUME NEW c \in Chains, Work(c)
       PROVE  \/ DriverAction(c) \/ Gate(c) \/ Gated(c) \/ ResumeAfterApproval(c)
              \/ \E q \in Runs : CompletedResuming(c, q)
  <2>1. CASE Completed(c)
    BY <2>1 DEF Completed, CompletedResuming, DriverAction
  <2> QED
    BY <1>13, <1>15, <2>1 DEF Work, DriverAction
<1>16. ASSUME Environment
       PROVE  \/ \E c \in Chains : \/ \E a \in Agents : StartRun(c, a)
                                   \/ \E k \in Calls, verdict \in {"approve", "deny"} : Decide(c, k, verdict)
                                   \/ \E q \in Runs : AssignHandoff(c, q)
              \/ Crash
  BY <1>14, <1>16 DEF Environment, StopRun, Interrupt
<1> QED
  BY <1>1, <1>2, <1>3, <1>4, <1>5, <1>6, <1>7, <1>8, <1>9, <1>10, <1>11, <1>12, <1>15, <1>16
     DEF Next, Recover

LEMMA DisciplineInit == Init => Discipline
BY ConstantsAssumption DEF Init, Discipline, StatesMatch, Fits, OneDriver, CallsMatch, PendingWaits, EntriesWait,
   OneAwaited, Awaited, HeldRests, RunsCreated, RecoveryRests, OneActiveRunPerAgent, Busy, RunningPcs,
   GrantedPcs, CallPcs, ActiveStates, TerminalStates, Runs

LEMMA AlwaysDisciplined ==
  ASSUME PendingOnly, MaxStops = 0
  PROVE  Spec => [](Typing /\ GrantsCoverExecutions /\ Discipline)
<1>1. Init => Typing /\ GrantsCoverExecutions /\ Discipline
  BY TypingInit, GrantsInit, DisciplineInit
<1>2. Typing /\ GrantsCoverExecutions /\ Discipline /\ [Next]_vars
        => (Typing /\ GrantsCoverExecutions /\ Discipline)'
  BY TypingStep, GrantsStep, DisciplineStep
<1> QED
  BY <1>1, <1>2, PTL DEF Spec

\* As long as the operator decides PENDING approvals only and stops no run, an agent
\* never has two runs in progress, and after a restart no run is left in progress.
THEOREM OneRunOfEachAgent ==
  ASSUME PendingOnly, MaxStops = 0
  PROVE  Spec => []OneRunAtATime
<1>1. Discipline => OneRunAtATime
  BY DEF Discipline, RecoveryRests, OneRunAtATime, RecoveryLeavesNoActiveRun
<1> QED
  BY <1>1, AlwaysDisciplined, PTL

-----------------------------------------------------------------------------
(* The life cycle of RunLifecycle is kept.                                  *)

\* A decision stands, a call is granted at most once, and only after it was decided,
\* and a call that nobody made has no run.
DecisionsStand ==
  /\ \A c \in Chains : pc[c] \in {"decide", "regate"} =>
       approval[task[c].call] = IF task[c].verdict = "approve" THEN "APPROVED" ELSE "DENIED"
  /\ \A k \in Calls : grants[k] <= IF approval[k] \in {"none", "PENDING"} THEN 0 ELSE 1
  /\ \A k \in Calls : callState[k] = "none" => callRun[k] = 0

\* Most steps decide nothing.
DecisionsKept ==
  /\ \A c \in Chains : pc'[c] \in {"decide", "regate"} =>
       pc[c] \in {"decide", "regate"} /\ task'[c].call = task[c].call /\ task'[c].verdict = task[c].verdict
  /\ UNCHANGED <<approval, grants>>
  /\ \A k \in Calls : callState'[k] = "none" => callState[k] = "none" /\ callRun'[k] = callRun[k]

LEMMA DecisionsFrame == DecisionsStand /\ DecisionsKept => DecisionsStand'
BY DEF DecisionsStand, DecisionsKept

LEMMA DecisionsStep ==
  ASSUME PendingOnly, MaxStops = 0, Typing, Discipline, DecisionsStand, [Next]_vars
  PROVE  DecisionsStand'
<1> USE DEF RunOf, At, Quiet, Goto, Finish, SetRunState, calls, runs, rows, memory, session, restart, history,
   budget
<1>a. /\ pc \in [Chains -> Pcs] /\ task \in [Chains -> Tasks]
      /\ callState \in [Calls -> CallStates] /\ grants \in [Calls -> Nat] /\ denials \in [Calls -> Nat]
      /\ callRun \in [Calls -> Runs \cup {0}]
      /\ approval \in [Calls -> {"none", "PENDING", "APPROVED", "DENIED"}]
  BY DEF Typing, TypeOK, ChainsTyped, CallsTyped
<1>c. \A d \in Chains : pc[d] \in CallPcs => task[d].call \in Calls
  BY DEF Typing, ReferencesExist, ChainsHaveRuns
<1>d. \A r \in Runs : TaskOn(r).run = r
  BY TaskOnType
<1>1. ASSUME NEW c \in Chains, NEW a \in Agents, StartRun(c, a)
      PROVE  DecisionsKept
  BY <1>a, <1>c, <1>1, SMTT(60) DEF StartRun, DecisionsKept, CallPcs, TaskOn, NoTask
<1>2. ASSUME NEW c \in Chains, GateOpen(c)
      PROVE  DecisionsKept
  BY <1>a, <1>c, <1>2, SMTT(60) DEF GateOpen, ContinueRun, DecisionsKept, CallPcs, TaskOn, NoTask
<1>3. ASSUME NEW c \in Chains, GateClosed(c)
      PROVE  DecisionsKept
  BY <1>a, <1>c, <1>3, SMTT(60) DEF GateClosed, DecisionsKept, CallPcs, TaskOn, NoTask
<1>4. ASSUME NEW c \in Chains, Send(c)
      PROVE  DecisionsKept
  BY <1>a, <1>c, <1>4, SMTT(60) DEF Send, Request, FailRun, DecisionsKept, CallPcs, TaskOn, NoTask
<1>5. ASSUME NEW c \in Chains, PrepareFails(c)
      PROVE  DecisionsKept
  BY <1>a, <1>c, <1>5, SMTT(60) DEF PrepareFails, DecisionsKept, CallPcs, TaskOn, NoTask
<1>6. ASSUME NEW c \in Chains, SendRetryLater(c)
      PROVE  DecisionsKept
  BY <1>a, <1>c, <1>6, SMTT(60) DEF SendRetryLater, Responding, Release, Tasks, DecisionsKept, CallPcs, TaskOn,
     NoTask
<1>7. ASSUME NEW c \in Chains, Resend(c)
      PROVE  DecisionsKept
  BY <1>a, <1>c, <1>7, SMTT(60) DEF Resend, FailRun, DecisionsKept, CallPcs, TaskOn, NoTask
<1>8. ASSUME NEW c \in Chains, SendFails(c)
      PROVE  DecisionsKept
  BY <1>a, <1>c, <1>8, SMTT(60) DEF SendFails, FailRun, DecisionsKept, CallPcs, TaskOn, NoTask
<1>9. ASSUME NEW c \in Chains, Answer(c)
      PROVE  DecisionsKept
  BY <1>a, <1>c, <1>9, SMTT(60) DEF Answer, Responding, DecisionsKept, CallPcs, TaskOn, NoTask
<1>10. ASSUME NEW c \in Chains, Complete(c)
      PROVE  DecisionsKept
  BY <1>a, <1>c, <1>10, SMTT(60) DEF Complete, DecisionsKept, CallPcs, TaskOn, NoTask
<1>11. ASSUME NEW c \in Chains, Completed(c)
      PROVE  DecisionsKept
  BY <1>a, <1>c, <1>11, SMTT(60) DEF Completed, DecisionsKept, CallPcs, TaskOn, NoTask
<1>12. ASSUME NEW c \in Chains, NEW k \in Calls, RequestTool(c, k)
      PROVE  DecisionsKept
  BY <1>a, <1>c, <1>12, SMTT(60) DEF RequestTool, CreateCalls, Tasks, DecisionsKept, CallPcs, TaskOn, NoTask
<1>13. ASSUME NEW c \in Chains, NEW k1 \in Calls, NEW k2 \in Calls, RequestBatch(c, k1, k2)
      PROVE  DecisionsKept
  BY <1>a, <1>c, <1>13, SMTT(60) DEF RequestBatch, CreateCalls, FailRun, DecisionsKept, CallPcs, TaskOn, NoTask
<1>14. ASSUME NEW c \in Chains, Gate(c)
      PROVE  DecisionsStand'
  BY <1>a, <1>c, <1>14, SMTT(60) DEF Gate, Discipline, CallsMatch, DecisionsStand, CallPcs, TaskOn, NoTask
<1>15. ASSUME NEW c \in Chains, Gated(c)
      PROVE  DecisionsKept
  BY <1>a, <1>c, <1>15, SMTT(60) DEF Gated, DecisionsKept, CallPcs, TaskOn, NoTask
<1>16. ASSUME NEW c \in Chains, AutoExecute(c)
      PROVE  DecisionsKept
  BY <1>a, <1>c, <1>16, SMTT(60) DEF AutoExecute, RunTool, DecisionsKept, CallPcs, TaskOn, NoTask
<1>17. ASSUME NEW c \in Chains, ToolFinishes(c)
      PROVE  DecisionsKept
  BY <1>a, <1>c, <1>17, SMTT(60) DEF ToolFinishes, DecisionsKept, CallPcs, TaskOn, NoTask
<1>18. ASSUME NEW c \in Chains, NextIteration(c)
      PROVE  DecisionsKept
  BY <1>a, <1>c, <1>18, SMTT(60) DEF NextIteration, ContinueRun, DecisionsKept, CallPcs, TaskOn, NoTask
<1>19. ASSUME NEW c \in Chains, Failed(c)
      PROVE  DecisionsKept
  BY <1>a, <1>c, <1>19, SMTT(60) DEF Failed, DecisionsKept, CallPcs, TaskOn, NoTask
<1>20. ASSUME NEW c \in Chains, NEW k \in Calls, NEW v \in {"approve", "deny"}, Decide(c, k, v)
      PROVE  DecisionsStand'
  BY <1>a, <1>c, <1>20, SMTT(60) DEF Decide, Discipline, CallsMatch, DecisionsStand, CallPcs, TaskOn, NoTask
<1>21. ASSUME NEW c \in Chains, ResumeAfterApproval(c)
      PROVE  DecisionsKept
  BY <1>a, <1>c, <1>21, SMTT(60) DEF ResumeAfterApproval, ResumeQueued, Tasks, DecisionsKept, CallPcs, TaskOn,
     NoTask
<1>22. ASSUME NEW c \in Chains, RegateFails(c)
      PROVE  DecisionsKept
  BY <1>a, <1>c, <1>22, SMTT(60) DEF RegateFails, DecisionsKept, CallPcs, TaskOn, NoTask
<1>23. ASSUME NEW c \in Chains, ExecuteApproved(c)
      PROVE  DecisionsKept
  BY <1>a, <1>c, <1>23, SMTT(60) DEF ExecuteApproved, RunTool, DecisionsKept, CallPcs, TaskOn, NoTask
<1>24. ASSUME NEW c \in Chains, RefuseDenied(c)
      PROVE  DecisionsKept
  BY <1>a, <1>c, <1>24, SMTT(60) DEF RefuseDenied, DecisionsKept, CallPcs, TaskOn, NoTask
<1>25. ASSUME NEW c \in Chains, Resume(c)
      PROVE  DecisionsKept
  BY <1>a, <1>c, <1>25, SMTT(60) DEF Resume, ContinueRun, DecisionsKept, CallPcs, TaskOn, NoTask
<1>26. ASSUME NEW c \in Chains, NEW q \in Runs, AssignHandoff(c, q)
      PROVE  DecisionsKept
  BY <1>a, <1>c, <1>26, SMTT(60) DEF AssignHandoff, DecisionsKept, CallPcs, TaskOn, NoTask
<1>27. ASSUME NEW a \in Agents, RecoverRun(a)
      PROVE  DecisionsKept
  BY <1>a, <1>c, <1>27, SMTT(60) DEF RecoverRun, DecisionsKept, CallPcs, TaskOn, NoTask
<1>28. ASSUME RecoverApprovals
      PROVE  DecisionsStand'
  BY <1>a, <1>c, <1>28, SMTT(60) DEF RecoverApprovals, Discipline, CallsMatch, DecisionsStand, CallPcs, TaskOn,
     NoTask
<1>29. ASSUME Crash
      PROVE  DecisionsKept
  BY <1>a, <1>c, <1>29, SMTT(60) DEF Crash, DecisionsKept, CallPcs, TaskOn, NoTask
<1>30. CASE UNCHANGED vars
  BY <1>30, DecisionsFrame DEF DecisionsKept, vars
<1>31. \A c \in Chains : ~Stopped(c)
  BY DEF Stopped, Discipline, StatesMatch, Fits
<1>32. ~(stops < MaxStops)
  BY NatBounds, SMTT(60) DEF Typing, TypeOK, ProcessTyped
<1>33. ASSUME NEW c \in Chains, Work(c)
      PROVE  DecisionsStand'
  BY <1>2, <1>3, <1>4, <1>5, <1>6, <1>7, <1>8, <1>9, <1>10, <1>11, <1>12, <1>13, <1>14, <1>15,
     <1>16, <1>17, <1>18, <1>19, <1>21, <1>22, <1>23, <1>24, <1>25, <1>31, <1>33, DecisionsFrame DEF Work
<1>34. ASSUME Environment
      PROVE  DecisionsStand'
  BY <1>1, <1>20, <1>26, <1>29, <1>32, <1>34, DecisionsFrame DEF Environment, StopRun, Interrupt
<1>35. ASSUME Recover
      PROVE  DecisionsStand'
  BY <1>27, <1>28, <1>35, DecisionsFrame DEF Recover
<1> QED
  BY <1>30, <1>33, <1>34, <1>35 DEF Next

\* Every step is one of RunLifecycle, or changes nothing it speaks of.
LEMMA LifecycleStep ==
  ASSUME PendingOnly, MaxStops = 0, Typing, GrantsCoverExecutions, Discipline, DecisionsStand, [Next]_vars
  PROVE  [Lifecycle!Next]_(Lifecycle!lifeVars)
<1> DEFINE Step == Lifecycle!Next \/ UNCHANGED Lifecycle!lifeVars
<1> DEFINE Rest == UNCHANGED <<runAgent, approval, callRun, execs>>
<1> USE DEF RunOf, At, Quiet, Goto, Finish, SetRunState, calls, runs, rows, memory, session, restart, history,
   budget
<1>a. /\ pc \in [Chains -> Pcs] /\ task \in [Chains -> Tasks]
      /\ runState \in [Runs -> ActiveStates \cup TerminalStates \cup {"NONE"}]
      /\ callState \in [Calls -> CallStates] /\ grants \in [Calls -> Nat] /\ execs \in [Calls -> Nat]
      /\ callRun \in [Calls -> Runs \cup {0}] /\ runAgent \in [Runs -> Agents \cup {NoAgent}]
      /\ approval \in [Calls -> {"none", "PENDING", "APPROVED", "DENIED"}]
  BY DEF Typing, TypeOK, ChainsTyped, CallsTyped, RunsTyped
<1>b. \A d \in Chains : pc[d] # "idle" => task[d].run \in Runs /\ runState[task[d].run] # "NONE"
  BY BusyChain DEF Typing, TypeOK, ReferencesExist, RunRows, ChainsOK, Discipline, RunsCreated, RunOf
<1>c. \A d \in Chains : pc[d] \in CallPcs => task[d].call \in Calls /\ callRun[task[d].call] = task[d].run
  BY DEF Typing, ReferencesExist, ChainsHaveRuns, Discipline, CallsMatch
<1>d. \A d \in Chains : Fits(pc[d], runState[task[d].run])
  BY DEF Discipline, StatesMatch
<1>e. \A k \in Calls : approval[k] = "PENDING" => callRun[k] \in Runs
  BY <1>a DEF Typing, ReferencesExist, CallsHaveRuns
<1>f. ASSUME NEW r \in Runs, runState[r] \in ActiveStates, runState' = [runState EXCEPT ![r] = "ERROR"], Rest
      PROVE  Step
  <2>1. Lifecycle!Fail(r)
    BY <1>f DEF Lifecycle!Fail, Lifecycle!Move, Lifecycle!ActiveStates, ActiveStates
  <2> QED
    BY <2>1 DEF Lifecycle!Next
<1>g. ASSUME runState' = runState, Rest
      PROVE  Step
  BY <1>g DEF Lifecycle!lifeVars
<1> HIDE DEF Step
<1>1. ASSUME NEW c \in Chains, NEW a \in Agents, StartRun(c, a)
      PROVE  Step
  <2>1. created + 1 \in Runs /\ runState[created + 1] = "NONE"
    BY <1>1, NatBounds, <1>a, SMTT(60) DEF StartRun, Typing, TypeOK, RunsTyped, Runs, Discipline, RunsCreated
  <2>2. Lifecycle!Create(created + 1, a)
    BY <1>1, <2>1 DEF StartRun, Lifecycle!Create, Lifecycle!Move, Lifecycle!ActiveStates, ActiveStates
  <2> QED
    BY <2>1, <2>2 DEF Step, Lifecycle!Next
<1>2. ASSUME NEW c \in Chains, GateOpen(c)
      PROVE  Step
  <2>1. RunOf(c) \in Runs /\ runState[RunOf(c)] \in ActiveStates
    BY <1>2, <1>b, <1>d DEF GateOpen, Fits, ActiveStates
  <2>2. CASE runState' = runState
    BY <1>2, <2>2, <1>g DEF GateOpen
  <2>3. CASE runState' = [runState EXCEPT ![RunOf(c)] = "ERROR"]
    BY <1>2, <2>1, <2>3, <1>f DEF GateOpen
  <2> QED
    BY <1>2, <2>2, <2>3 DEF GateOpen, ContinueRun
<1>3. ASSUME NEW c \in Chains, GateClosed(c)
      PROVE  Step
  <2>1. RunOf(c) \in Runs /\ runState[RunOf(c)] = "CREATED"
    BY <1>3, <1>b, <1>d DEF GateClosed, Fits
  <2>2. Lifecycle!Queue(RunOf(c))
    BY <1>3, <2>1 DEF GateClosed, Lifecycle!Queue, Lifecycle!Move
  <2> QED
    BY <2>1, <2>2 DEF Step, Lifecycle!Next
<1>4. ASSUME NEW c \in Chains, Send(c)
      PROVE  Step
  <2>1. RunOf(c) \in Runs /\ runState[RunOf(c)] \in {"CREATED", "QUEUED", "RUNNING"} /\ Rest
    BY <1>4, <1>b, <1>d DEF Send, Fits
  <2>2. CASE runState' = [runState EXCEPT ![RunOf(c)] = "ERROR"]
    BY <2>1, <2>2, <1>f DEF ActiveStates
  <2>3. CASE runState' = [runState EXCEPT ![RunOf(c)] = "RUNNING"] /\ runState[RunOf(c)] = "RUNNING"
    BY <1>a, <2>1, <2>3, <1>g
  <2>4. CASE runState' = [runState EXCEPT ![RunOf(c)] = "RUNNING"] /\ runState[RunOf(c)] # "RUNNING"
    <3>1. Lifecycle!Begin(RunOf(c))
      BY <2>1, <2>4 DEF Lifecycle!Begin, Lifecycle!Move
    <3> QED
      BY <2>1, <3>1 DEF Step, Lifecycle!Next
  <2> QED
    BY <1>4, <2>2, <2>3, <2>4 DEF Send, Request, FailRun
<1>5. ASSUME NEW c \in Chains, PrepareFails(c)
      PROVE  Step
  <2>1. RunOf(c) \in Runs /\ runState[RunOf(c)] \in ActiveStates
    BY <1>5, <1>b, <1>d DEF PrepareFails, Fits, ActiveStates
  <2> QED
    BY <1>5, <2>1, <1>f DEF PrepareFails
<1>6. ASSUME NEW c \in Chains, SendRetryLater(c)
      PROVE  Step
  BY <1>6, <1>g DEF SendRetryLater
<1>7. ASSUME NEW c \in Chains, Resend(c)
      PROVE  Step
  <2>1. RunOf(c) \in Runs /\ runState[RunOf(c)] \in ActiveStates
    BY <1>7, <1>b, <1>d DEF Resend, Fits, RunningPcs, ActiveStates
  <2> QED
    BY <1>7, <2>1, <1>f, <1>g DEF Resend, FailRun
<1>8. ASSUME NEW c \in Chains, SendFails(c)
      PROVE  Step
  <2>1. RunOf(c) \in Runs /\ runState[RunOf(c)] \in ActiveStates
    BY <1>8, <1>b, <1>d DEF SendFails, Fits, RunningPcs, ActiveStates
  <2> QED
    BY <1>8, <2>1, <1>f DEF SendFails, FailRun
<1>9. ASSUME NEW c \in Chains, Answer(c)
      PROVE  Step
  BY <1>9, <1>g DEF Answer
<1>10. ASSUME NEW c \in Chains, Complete(c)
      PROVE  Step
  <2>1. RunOf(c) \in Runs /\ runState[RunOf(c)] = "RUNNING"
    BY <1>10, <1>b, <1>d DEF Complete, Fits, RunningPcs
  <2>2. Lifecycle!Complete(RunOf(c))
    BY <1>10, <2>1 DEF Complete, Lifecycle!Complete, Lifecycle!Move
  <2> QED
    BY <2>1, <2>2 DEF Step, Lifecycle!Next
<1>11. ASSUME NEW c \in Chains, Completed(c)
      PROVE  Step
  BY <1>11, <1>g DEF Completed
<1>12. ASSUME NEW c \in Chains, NEW k \in Calls, RequestTool(c, k)
      PROVE  Step
  <2>1. RunOf(c) \in Runs /\ runState[RunOf(c)] = "RUNNING" /\ callRun[k] = 0
    BY <1>12, <1>b, <1>d DEF RequestTool, CreateCalls, Fits, RunningPcs, DecisionsStand
  <2>2. Lifecycle!RequestCalls(RunOf(c), {k})
    BY <1>12, <2>1 DEF RequestTool, CreateCalls, Lifecycle!RequestCalls
  <2>3. {k} \in SUBSET Calls
    OBVIOUS
  <2> QED
    BY <2>1, <2>2, <2>3 DEF Step, Lifecycle!Next
<1>13. ASSUME NEW c \in Chains, NEW k1 \in Calls, NEW k2 \in Calls, RequestBatch(c, k1, k2)
      PROVE  Step
  <2>1. RunOf(c) \in Runs /\ runState[RunOf(c)] = "RUNNING" /\ callRun[k1] = 0 /\ callRun[k2] = 0
    BY <1>13, <1>b, <1>d DEF RequestBatch, CreateCalls, Fits, RunningPcs, DecisionsStand
  <2>2. Lifecycle!RequestCalls(RunOf(c), {k1, k2})
    BY <1>13, <2>1 DEF RequestBatch, CreateCalls, FailRun, Lifecycle!RequestCalls
  <2>3. {k1, k2} \in SUBSET Calls
    OBVIOUS
  <2> QED
    BY <2>1, <2>2, <2>3 DEF Step, Lifecycle!Next
<1>14. ASSUME NEW c \in Chains, Gate(c)
      PROVE  Step
  <2> DEFINE k == task[c].call
  <2>1. /\ k \in Calls /\ callRun[k] = RunOf(c) /\ RunOf(c) \in Runs
        /\ runState[RunOf(c)] = "RUNNING" /\ approval[k] = "none" /\ k \in RequiresApproval
    BY <1>14, <1>b, <1>c, <1>d DEF Gate, Fits, RunningPcs, CallPcs, Discipline, CallsMatch
  <2>2. Lifecycle!AskOperator(k)
    BY <1>14, <2>1 DEF Gate, Lifecycle!AskOperator, Lifecycle!Move
  <2> QED
    BY <2>1, <2>2 DEF Step, Lifecycle!Next
<1>15. ASSUME NEW c \in Chains, Gated(c)
      PROVE  Step
  BY <1>15, <1>g DEF Gated
<1>16. ASSUME NEW c \in Chains, AutoExecute(c)
      PROVE  Step
  <2> DEFINE k == task[c].call
  <2>1. /\ k \in Calls /\ callRun[k] = RunOf(c) /\ RunOf(c) \in Runs
        /\ runState[RunOf(c)] = "RUNNING" /\ k \notin RequiresApproval
    BY <1>16, <1>b, <1>c, <1>d DEF AutoExecute, Fits, RunningPcs, CallPcs
  <2>2. execs[k] = 0
    BY <1>16, <2>1 DEF AutoExecute, GrantsCoverExecutions, AutoCallsAreOwned
  <2>3. Lifecycle!Execute(k)
    BY <1>a, <1>16, <2>1, <2>2 DEF AutoExecute, RunTool, Lifecycle!Execute
  <2> QED
    BY <2>1, <2>3 DEF Step, Lifecycle!Next
<1>17. ASSUME NEW c \in Chains, ToolFinishes(c)
      PROVE  Step
  BY <1>17, <1>g DEF ToolFinishes
<1>18. ASSUME NEW c \in Chains, NextIteration(c)
      PROVE  Step
  <2>1. RunOf(c) \in Runs /\ runState[RunOf(c)] \in ActiveStates
    BY <1>18, <1>b, <1>d DEF NextIteration, Fits, RunningPcs, ActiveStates
  <2>2. CASE runState' = runState
    BY <1>18, <2>2, <1>g DEF NextIteration
  <2>3. CASE runState' = [runState EXCEPT ![RunOf(c)] = "ERROR"]
    BY <1>18, <2>1, <2>3, <1>f DEF NextIteration
  <2> QED
    BY <1>18, <2>2, <2>3 DEF NextIteration, ContinueRun
<1>19. ASSUME NEW c \in Chains, Failed(c)
      PROVE  Step
  BY <1>19, <1>g DEF Failed
<1>20. ASSUME NEW c \in Chains, NEW k \in Calls, NEW v \in {"approve", "deny"}, Decide(c, k, v)
      PROVE  Step
  <2>1. \E verdict \in {"APPROVED", "DENIED"} : Lifecycle!Decide(k, verdict)
    BY <1>20 DEF Decide, Lifecycle!Decide
  <2> QED
    BY <2>1 DEF Step, Lifecycle!Next
<1>21. ASSUME NEW c \in Chains, ResumeAfterApproval(c)
      PROVE  Step
  BY <1>21, <1>g DEF ResumeAfterApproval
<1>22. ASSUME NEW c \in Chains, RegateFails(c)
      PROVE  Step
  BY <1>22, <1>g DEF RegateFails
<1>23. ASSUME NEW c \in Chains, ExecuteApproved(c)
      PROVE  Step
  <2> DEFINE k == task[c].call
  <2>1. /\ k \in Calls /\ callRun[k] = RunOf(c) /\ RunOf(c) \in Runs
        /\ runState[RunOf(c)] = "WAITING_APPROVAL"
        /\ k \in RequiresApproval /\ approval[k] = "APPROVED"
    BY <1>23, <1>b, <1>c, <1>d DEF ExecuteApproved, Fits, GrantedPcs, CallPcs, GrantsCoverExecutions,
       DecisionsAreGated, DecisionsStand
  <2>2. execs[k] = 0
    <3>1. c \in Carrying(k)
      BY <1>23 DEF ExecuteApproved, Carrying
    <3>2. Cardinality(Carrying(k)) \in Nat /\ Cardinality(Carrying(k)) # 0
      BY <3>1, CarryingIsFinite, FS_CardinalityType, FS_EmptySet
    <3>3. execs[k] + Cardinality(Carrying(k)) <= grants[k] /\ grants[k] <= 1
      BY <2>1 DEF GrantsCoverExecutions, GrantsCover, DecisionsStand
    <3> QED
      BY <1>a, <2>1, <3>2, <3>3
  <2>3. Lifecycle!Execute(k)
    BY <1>a, <1>23, <2>1, <2>2 DEF ExecuteApproved, RunTool, Lifecycle!Execute
  <2> QED
    BY <2>1, <2>3 DEF Step, Lifecycle!Next
<1>24. ASSUME NEW c \in Chains, RefuseDenied(c)
      PROVE  Step
  BY <1>24, <1>g DEF RefuseDenied
<1>25. ASSUME NEW c \in Chains, Resume(c)
      PROVE  Step
  <2> DEFINE r == RunOf(c)
  <2>1. r \in Runs /\ runState[r] = "WAITING_APPROVAL" /\ Rest
    BY <1>25, <1>b, <1>d DEF Resume, Fits, GrantedPcs
  <2>2. \A k \in Calls : callRun[k] = r => approval[k] # "PENDING"
    BY <1>25, <2>1 DEF Resume, Discipline, PendingWaits, TerminalStates, Busy
  <2>3. CASE runState' = [runState EXCEPT ![r] = "RUNNING"]
    <3>1. Lifecycle!Resume(r)
      BY <2>1, <2>2, <2>3 DEF Lifecycle!Resume, Lifecycle!Move
    <3> QED
      BY <2>1, <3>1 DEF Step, Lifecycle!Next
  <2>4. CASE runState' = [runState EXCEPT ![r] = "ERROR"]
    BY <2>1, <2>4, <1>f DEF ActiveStates
  <2> QED
    BY <1>a, <1>25, <2>1, <2>3, <2>4 DEF Resume, ContinueRun
<1>26. ASSUME NEW c \in Chains, NEW q \in Runs, AssignHandoff(c, q)
      PROVE  Step
  BY <1>26, <1>g DEF AssignHandoff
<1>27. ASSUME NEW a \in Agents, RecoverRun(a)
      PROVE  Step
  <2>1. CASE runState' = runState
    BY <1>27, <2>1, <1>g DEF RecoverRun
  <2>2. CASE \E r \in Runs : runState[r] \in ActiveStates /\ runState' = [runState EXCEPT ![r] = "ERROR"]
    BY <1>27, <2>2, <1>f DEF RecoverRun
  <2> QED
    BY <1>27, <2>1, <2>2 DEF RecoverRun
<1>28. ASSUME RecoverApprovals
      PROVE  Step
  <2>1. PICK old \in SUBSET {k \in Calls : approval[k] = "PENDING"} :
          approval' = [k \in Calls |->
            IF approval[k] = "PENDING" /\ (callRun[k] \in errored \/ k \in old) THEN "DENIED" ELSE approval[k]]
    BY <1>28 DEF RecoverApprovals
  <2> DEFINE K == {k \in Calls : approval[k] = "PENDING" /\ (callRun[k] \in errored \/ k \in old)}
  <2>2. \A k \in K : runState[callRun[k]] \in TerminalStates
    BY <1>28, <1>e DEF RecoverApprovals, Discipline, PendingWaits, RecoveryRests, ActiveStates
  <2>3. Lifecycle!CloseApprovals(K)
    BY <1>28, <1>e, <2>1, <2>2 DEF RecoverApprovals, Lifecycle!CloseApprovals, Lifecycle!TerminalStates,
       TerminalStates
  <2> QED
    BY <2>3 DEF Step, Lifecycle!Next
<1>29. ASSUME Crash
      PROVE  Step
  BY <1>29, <1>g DEF Crash
<1>30. CASE UNCHANGED vars
  <2>1. runState' = runState /\ Rest
    BY <1>30 DEF vars
  <2> QED
    BY <2>1, <1>g DEF Step
<1>31. \A c \in Chains : ~Stopped(c)
  BY DEF Stopped, Discipline, StatesMatch, Fits
<1>32. ~(stops < MaxStops)
  BY NatBounds, SMTT(60) DEF Typing, TypeOK, ProcessTyped
<1>33. ASSUME NEW c \in Chains, Work(c)
      PROVE  Step
  BY <1>2, <1>3, <1>4, <1>5, <1>6, <1>7, <1>8, <1>9, <1>10, <1>11, <1>12, <1>13, <1>14, <1>15, <1>16, <1>17,
     <1>18, <1>19, <1>21, <1>22, <1>23, <1>24, <1>25, <1>31, <1>33 DEF Work
<1>34. ASSUME Environment
      PROVE  Step
  BY <1>1, <1>20, <1>26, <1>29, <1>32, <1>34 DEF Environment, StopRun, Interrupt
<1>35. ASSUME Recover
      PROVE  Step
  BY <1>27, <1>28, <1>35 DEF Recover
<1> QED
  BY <1>30, <1>33, <1>34, <1>35 DEF Next, Step

LEMMA LifecycleInit == Init => DecisionsStand /\ Lifecycle!Init
BY DEF Init, DecisionsStand, Lifecycle!Init

\* As long as the operator decides PENDING approvals only and stops no run, the
\* orchestrator does nothing that RunLifecycle does not allow: no run moves out of a
\* terminal state or past the operator, and no tool is executed twice.
THEOREM LifecycleKept ==
  ASSUME PendingOnly, MaxStops = 0
  PROVE  Spec => LifecyclePromise
<1> DEFINE IInv == Typing /\ GrantsCoverExecutions /\ Discipline /\ DecisionsStand
<1>1. Init => IInv /\ Lifecycle!Init
  BY TypingInit, GrantsInit, DisciplineInit, LifecycleInit
<1>2. IInv /\ [Next]_vars => IInv'
  BY TypingStep, GrantsStep, DisciplineStep, DecisionsStep
<1>3. IInv /\ [Next]_vars => [Lifecycle!Next]_(Lifecycle!lifeVars)
  BY LifecycleStep
<1> QED
  BY <1>1, <1>2, <1>3, PTL DEF Spec, LifecyclePromise, Lifecycle!Spec

-----------------------------------------------------------------------------
(* Somebody works on every run that is CREATED or RUNNING.                  *)

\* A chain that goes on with a run, and a run that waits, find the entry of
\* activeRuns live.
ChainsLive ==
  /\ \A c \in Chains : pc[c] \in DriverPcs \cup {"gating"} => activeRuns[RunOf(c)] = "live"
  /\ \A r \in Runs : mode = "up" /\ runState[r] = "WAITING_APPROVAL" => activeRuns[r] = "live"

LEMMA StepCases ==
  ASSUME MaxStops = 0, Typing, Discipline, [Next]_vars
  PROVE  \/ \E c \in Chains : DriverAction(c)
         \/ \E c \in Chains : Gate(c) \/ Gated(c) \/ ResumeAfterApproval(c)
         \/ \E c \in Chains, q \in Runs : CompletedResuming(c, q) \/ AssignHandoff(c, q)
         \/ \E c \in Chains, a \in Agents : StartRun(c, a)
         \/ \E c \in Chains, k \in Calls, v \in {"approve", "deny"} : Decide(c, k, v)
         \/ \E a \in Agents : RecoverRun(a)
         \/ RecoverApprovals \/ Crash \/ UNCHANGED vars
<1>1. \A c \in Chains : ~Stopped(c)
  BY DEF Stopped, At, Discipline, StatesMatch, Fits
<1>2. ~(stops < MaxStops)
  BY NatBounds, SMTT(60) DEF Typing, TypeOK, ProcessTyped
<1>3. ASSUME NEW c \in Chains, Work(c)
      PROVE  \/ DriverAction(c) \/ Gate(c) \/ Gated(c) \/ ResumeAfterApproval(c)
             \/ \E q \in Runs : CompletedResuming(c, q)
  <2>1. CASE Completed(c)
    BY <2>1 DEF Completed, CompletedResuming, DriverAction
  <2> QED
    BY <1>1, <1>3, <2>1 DEF Work, DriverAction
<1> QED
  BY <1>2, <1>3 DEF Next, Recover, Environment, StopRun, Interrupt

\* What a driver's step does to activeRuns, and that it leaves its run only in a
\* state that needs no chain.
DriverLeaves(c) ==
  /\ pc'[c] = "idle" =>
       /\ runState'[RunOf(c)] \notin {"CREATED", "RUNNING"}
       /\ GitMayFail \/ (runState'[RunOf(c)] # "WAITING_APPROVAL" /\ activeRuns'[RunOf(c)] = "absent")
  /\ \A r \in Runs : \/ activeRuns'[r] = activeRuns[r]
                     \/ r = RunOf(c) /\ pc'[c] = "idle" /\ runState'[r] # "WAITING_APPROVAL"

LEMMA DriversLeave ==
  ASSUME Typing, Discipline, ChainsLive, NEW c \in Chains, DriverAction(c)
  PROVE  DriverLeaves(c)
<1> USE DEF RunOf, At, Quiet, Goto, SetRunState, calls, runs, rows, memory, session, restart, history, budget,
        DriverPcs, RunningPcs, GrantedPcs
<1>a. /\ pc \in [Chains -> Pcs] /\ task \in [Chains -> Tasks]
      /\ runState \in [Runs -> ActiveStates \cup TerminalStates \cup {"NONE"}]
      /\ activeRuns \in [Runs -> {"absent", "live", "stopped"}]
  BY DEF Typing, TypeOK, ChainsTyped, RunsTyped
<1>b. pc[c] # "idle" => RunOf(c) \in Runs
  BY BusyChain DEF Typing, TypeOK, ReferencesExist, RunRows, ChainsOK
<1>c. Fits(pc[c], runState[RunOf(c)])
  BY DEF Discipline, StatesMatch
<1>d. pc[c] \in DriverPcs => activeRuns[RunOf(c)] = "live"
  BY DEF ChainsLive
<1> DEFINE Same == pc'[c] # "idle" /\ activeRuns' = activeRuns
<1>e. Same => DriverLeaves(c)
  BY DEF DriverLeaves
<1> DEFINE Left == /\ activeRuns' = [activeRuns EXCEPT ![RunOf(c)] = "absent"]
                   /\ runState'[RunOf(c)] \in {"COMPLETED", "ERROR", "QUEUED"} /\ pc'[c] = "idle"
<1>f. RunOf(c) \in Runs /\ Left => DriverLeaves(c)
  BY <1>a DEF DriverLeaves
<1> HIDE DEF Same, Left
<1>1. CASE GateOpen(c)
  BY <1>a, <1>d, <1>e, <1>1 DEF GateOpen, ContinueRun, Same
<1>2. CASE GateClosed(c)
  BY <1>a, <1>b, <1>f, <1>2 DEF GateClosed, Finish, Left
<1>3. CASE Send(c)
  BY <1>a, <1>e, <1>3 DEF Send, Request, FailRun, Same
<1>4. CASE PrepareFails(c)
  <2>1. GitMayFail
    BY <1>4 DEF PrepareFails
  <2>2. activeRuns' = activeRuns /\ runState'[RunOf(c)] \notin {"CREATED", "RUNNING"}
    BY <1>a, <1>b, <1>4 DEF PrepareFails
  <2>3. GitMayFail \/ (runState'[RunOf(c)] # "WAITING_APPROVAL" /\ activeRuns'[RunOf(c)] = "absent")
    BY <2>1
  <2> QED
    BY <2>2, <2>3, Zenon DEF DriverLeaves
<1>5. CASE SendRetryLater(c)
  BY <1>a, <1>e, <1>5 DEF SendRetryLater, Same
<1>6. CASE Resend(c)
  BY <1>a, <1>e, <1>6 DEF Resend, FailRun, Same
<1>7. CASE SendFails(c)
  BY <1>a, <1>e, <1>7 DEF SendFails, FailRun, Same
<1>8. CASE Answer(c)
  BY <1>a, <1>e, <1>8 DEF Answer, Same
<1>9. CASE Complete(c)
  BY <1>a, <1>e, <1>9 DEF Complete, Same
<1>10. CASE AutoExecute(c)
  BY <1>a, <1>e, <1>10 DEF AutoExecute, RunTool, Same
<1>11. CASE ToolFinishes(c)
  BY <1>a, <1>e, <1>11 DEF ToolFinishes, Same
<1>12. CASE NextIteration(c)
  BY <1>a, <1>d, <1>e, <1>12 DEF NextIteration, ContinueRun, Same
<1>13. CASE Failed(c)
  BY <1>a, <1>b, <1>c, <1>f, <1>13 DEF Failed, Finish, Fits, Left
<1>14. CASE RegateFails(c)
  <2>1. GitMayFail
    BY <1>14 DEF RegateFails
  <2>2. activeRuns' = activeRuns /\ runState'[RunOf(c)] \notin {"CREATED", "RUNNING"}
    BY <1>a, <1>c, <1>14 DEF RegateFails, Fits
  <2>3. GitMayFail \/ (runState'[RunOf(c)] # "WAITING_APPROVAL" /\ activeRuns'[RunOf(c)] = "absent")
    BY <2>1
  <2> QED
    BY <2>2, <2>3, Zenon DEF DriverLeaves
<1>15. CASE ExecuteApproved(c)
  BY <1>a, <1>e, <1>15 DEF ExecuteApproved, RunTool, Same
<1>16. CASE RefuseDenied(c)
  BY <1>a, <1>e, <1>16 DEF RefuseDenied, Same
<1>17. CASE Resume(c)
  BY <1>a, <1>d, <1>e, <1>17 DEF Resume, ContinueRun, Same
<1>18. CASE At(c, "complete") /\ Completed(c) /\ held' = held
  <2>1. UNCHANGED runState
    BY <1>18 DEF Completed
  <2>2. ~\E q \in Runs : ResumeQueued(q)
    BY <1>18 DEF ResumeQueued
  <2> QED
    BY <1>a, <1>b, <1>c, <1>f, <1>18, <2>1, <2>2 DEF Completed, Finish, Fits, Left
<1>19. CASE \E k \in Calls : RequestTool(c, k)
  BY <1>a, <1>e, <1>19 DEF RequestTool, CreateCalls, Same
<1>20. CASE \E k1, k2 \in Calls : RequestBatch(c, k1, k2)
  BY <1>a, <1>e, <1>20 DEF RequestBatch, CreateCalls, FailRun, Same
<1> QED
  BY <1>1, <1>2, <1>3, <1>4, <1>5, <1>6, <1>7, <1>8, <1>9, <1>10, <1>11, <1>12, <1>13, <1>14, <1>15, <1>16,
     <1>17, <1>18, <1>19, <1>20 DEF DriverAction

\* A step of chain c leaves every other run to the chain that is on it.
LEMMA OthersServed ==
  ASSUME RunningIsServed, mode = "up", NEW c \in Chains,
         \A d \in Chains \ {c} : pc[d] # "idle" => pc'[d] # "idle" /\ task'[d].run = RunOf(d),
         \A q \in Runs : runState'[q] \in {"CREATED", "RUNNING"} =>
           \/ pc'[c] # "idle" /\ task'[c].run = q
           \/ runState[q] \in {"CREATED", "RUNNING"} /\ (pc[c] # "idle" => RunOf(c) # q)
  PROVE  RunningIsServed'
<1> SUFFICES ASSUME NEW q \in Runs, runState'[q] \in {"CREATED", "RUNNING"}
             PROVE  \E d \in Chains : pc'[d] # "idle" /\ task'[d].run = q
  BY DEF RunningIsServed, OnRun, RunOf
<1>1. CASE pc'[c] # "idle" /\ task'[c].run = q
  BY <1>1
<1>2. CASE runState[q] \in {"CREATED", "RUNNING"} /\ (pc[c] # "idle" => RunOf(c) # q)
  <2>1. PICK d \in Chains : pc[d] # "idle" /\ RunOf(d) = q
    BY <1>2 DEF RunningIsServed, OnRun
  <2> QED
    BY <1>2, <2>1
<1> QED
  BY <1>1, <1>2

LEMMA ServedStep ==
  ASSUME PendingOnly, MaxStops = 0, Typing, GrantsCoverExecutions, Discipline, ChainsLive, RunningIsServed,
         [Next]_vars
  PROVE  ChainsLive' /\ RunningIsServed'
<1> USE DEF RunOf, At, Quiet, Goto, SetRunState, calls, runs, rows, memory, session, restart, history, budget,
        DriverPcs, RunningPcs, GrantedPcs
<1>a. /\ pc \in [Chains -> Pcs] /\ task \in [Chains -> Tasks]
      /\ runState \in [Runs -> ActiveStates \cup TerminalStates \cup {"NONE"}]
      /\ activeRuns \in [Runs -> {"absent", "live", "stopped"}]
  BY DEF Typing, TypeOK, ChainsTyped, RunsTyped
<1>b. \A d \in Chains : pc[d] # "idle" => RunOf(d) \in Runs /\ RunOf(d) <= created
  BY BusyChain DEF Typing, TypeOK, ReferencesExist, RunRows, ChainsOK
<1>c. \A d \in Chains : Fits(pc[d], runState[RunOf(d)])
  BY DEF Discipline, StatesMatch
<1>1. ASSUME NEW c \in Chains, DriverAction(c)
      PROVE  ChainsLive' /\ RunningIsServed'
  <2>1. PICK K \in SUBSET Calls : DriverStep(c, K)
    BY <1>1, DriverActions
  <2>2. DriverLeaves(c)
    BY <1>1, DriversLeave
  <2>3. /\ RunOf(c) \in Runs
        /\ \A d \in Chains : d # c /\ pc[d] # "idle" /\ RunOf(d) = RunOf(c) => pc[d] = "decide"
    BY <2>1, DriverRun DEF DriverStep, Busy
  <2>4. ASSUME NEW d \in Chains, pc'[d] \in DriverPcs \cup {"gating"}
        PROVE  activeRuns'[task'[d].run] = "live"
    BY <1>b, <2>1, <2>2, <2>3, <2>4 DEF DriverStep, DriverLeaves, ChainsLive
  <2>5. ASSUME NEW r \in Runs, runState'[r] = "WAITING_APPROVAL"
        PROVE  activeRuns'[r] = "live"
    BY <2>1, <2>2, <2>3, <2>5 DEF DriverStep, DriverLeaves, ChainsLive
  <2>6. RunningIsServed'
    BY <2>1, <2>2, <2>3, OthersServed DEF DriverStep, DriverLeaves
  <2> QED
    BY <2>4, <2>5, <2>6 DEF ChainsLive
<1>2. ASSUME NEW c \in Chains, Gate(c)
      PROVE  ChainsLive' /\ RunningIsServed'
  <2>1. ChainsLive'
    BY <1>a, <1>b, <1>2 DEF Gate, ChainsLive
  <2>2. RunningIsServed'
    BY <1>a, <1>b, <1>2, OthersServed DEF Gate
  <2> QED
    BY <2>1, <2>2
<1>3. ASSUME NEW c \in Chains, Gated(c)
      PROVE  ChainsLive' /\ RunningIsServed'
  <2>1. ChainsLive'
    BY <1>a, <1>b, <1>3 DEF Gated, Finish, ChainsLive
  <2>2. RunningIsServed'
    BY <1>a, <1>b, <1>c, <1>3, OthersServed DEF Gated, Finish, Fits
  <2> QED
    BY <2>1, <2>2
<1>4. ASSUME NEW c \in Chains, ResumeAfterApproval(c)
      PROVE  ChainsLive' /\ RunningIsServed'
  <2> DEFINE next == pendingApprovals[task[c].call]
  <2>0. task[c].call \in Calls /\ callRun[task[c].call] = RunOf(c) /\ RunOf(c) \in Runs
    BY <1>b, <1>4 DEF ResumeAfterApproval, Discipline, CallsMatch, CallPcs, Typing, ReferencesExist,
       ChainsHaveRuns
  <2>1. next # 0 => activeRuns[RunOf(c)] = "live"
    BY <1>4, <2>0 DEF ResumeAfterApproval, ChainsLive, Discipline, EntriesWait
  <2>2. /\ pc'[c] = IF next = 0 THEN "idle" ELSE "regate"
        /\ next # 0 => task'[c].run = RunOf(c)
        /\ \A d \in Chains \ {c} : \/ pc'[d] = pc[d] /\ task'[d] = task[d]
                                   \/ /\ pc[d] = "idle" /\ pc'[d] = "prepare"
                                      /\ task'[d].run \in Runs /\ activeRuns'[task'[d].run] = "live"
        /\ \A r \in Runs : activeRuns[r] = "live" => activeRuns'[r] = "live"
        /\ UNCHANGED <<runState, mode>> /\ mode = "up"
    <3>1. CASE UNCHANGED activeRuns
      BY <1>a, <1>4, <3>1, TaskOnType DEF ResumeAfterApproval, Tasks
    <3>2. CASE \E q \in Runs, d \in Chains \ {c} :
             /\ pc[d] = "idle"
             /\ pc' = [pc EXCEPT ![c] = IF next = 0 THEN "idle" ELSE "regate", ![d] = "prepare"]

             /\ task' = [task EXCEPT ![c] = IF next = 0 THEN NoTask ELSE [@ EXCEPT !.iter = next], ![d] = TaskOn(q)]
             /\ activeRuns' = [activeRuns EXCEPT ![q] = "live"]
      BY <1>a, <1>4, <3>2, TaskOnType DEF ResumeAfterApproval, Tasks
    <3> QED
      BY <1>4, <3>1, <3>2 DEF ResumeAfterApproval
  <2> HIDE DEF next
  <2>3. ChainsLive'
    <3>1. ASSUME NEW d \in Chains, pc'[d] \in DriverPcs \cup {"gating"}
          PROVE  activeRuns'[task'[d].run] = "live"
      <4>1. CASE d = c
        BY <2>0, <2>1, <2>2, <3>1, <4>1
      <4>2. CASE d # c
        BY <1>b, <2>2, <3>1, <4>2 DEF ChainsLive
      <4> QED
        BY <4>1, <4>2
    <3> QED
      BY <2>2, <3>1 DEF ChainsLive
  <2>4. RunningIsServed'
    BY <1>c, <1>4, <2>2, OthersServed DEF ResumeAfterApproval, Fits, TerminalStates
  <2> QED
    BY <2>3, <2>4
<1>5. ASSUME NEW c \in Chains, NEW q \in Runs, CompletedResuming(c, q)
      PROVE  ChainsLive' /\ RunningIsServed'
  <2>1. /\ RunOf(c) \in Runs /\ runState[RunOf(c)] = "COMPLETED"
        /\ \A d \in Chains : d # c /\ pc[d] # "idle" /\ RunOf(d) = RunOf(c) => pc[d] = "decide"
    BY <1>c, <1>5, DriverRun DEF CompletedResuming, Fits, Busy
  <2>2. /\ pc'[c] = "prepare" /\ task'[c].run = q
        /\ \A d \in Chains \ {c} : pc'[d] = pc[d] /\ task'[d] = task[d]
    BY <1>a, <1>5, TaskOnType DEF CompletedResuming
  <2>3. \A r \in Runs : activeRuns'[r] = IF r = RunOf(c) THEN "absent" ELSE IF r = q THEN "live" ELSE activeRuns[r]
    BY <1>a, <1>5, <2>1 DEF CompletedResuming
  <2>4. q # RunOf(c) /\ mode = "up" /\ UNCHANGED <<mode, runState>>
    BY <1>5, <2>1 DEF CompletedResuming, ResumeQueued
  <2>5. ChainsLive'
    BY <1>b, <2>1, <2>2, <2>3, <2>4 DEF ChainsLive
  <2>6. RunningIsServed'
    BY <2>1, <2>2, <2>4, OthersServed
  <2> QED
    BY <2>5, <2>6
<1>6. ASSUME NEW c \in Chains, NEW q \in Runs, AssignHandoff(c, q)
      PROVE  ChainsLive' /\ RunningIsServed'
  <2>1. /\ pc'[c] = "prepare" /\ task'[c].run = q /\ mode = "up" /\ UNCHANGED <<mode, runState>>
        /\ \A d \in Chains \ {c} : pc'[d] = pc[d] /\ task'[d] = task[d]
    BY <1>a, <1>6, TaskOnType DEF AssignHandoff
  <2>2. \A r \in Runs : activeRuns'[r] = IF r = q THEN "live" ELSE activeRuns[r]
    BY <1>a, <1>6 DEF AssignHandoff
  <2>3. ChainsLive'
    BY <1>b, <2>1, <2>2 DEF ChainsLive
  <2>4. RunningIsServed'
    BY <1>6, <2>1, OthersServed DEF AssignHandoff
  <2> QED
    BY <2>3, <2>4
<1>7. ASSUME NEW c \in Chains, NEW a \in Agents, StartRun(c, a)
      PROVE  ChainsLive' /\ RunningIsServed'
  <2> DEFINE r == created + 1
  <2>1. r \in Runs /\ \A d \in Chains : pc[d] # "idle" => RunOf(d) # r
    BY <1>b, <1>7, NatBounds, SMTT(60) DEF StartRun, Typing, TypeOK, RunsTyped, Runs
  <2>2. /\ pc'[c] = "gate" /\ task'[c].run = r /\ mode = "up" /\ mode' = mode
        /\ \A d \in Chains \ {c} : pc'[d] = pc[d] /\ task'[d] = task[d]
    BY <1>a, <1>7, <2>1, TaskOnType DEF StartRun
  <2>3. \A q \in Runs : /\ activeRuns'[q] = IF q = r THEN "live" ELSE activeRuns[q]
                        /\ runState'[q] = IF q = r THEN "CREATED" ELSE runState[q]
    BY <1>a, <1>7, <2>1 DEF StartRun
  <2> HIDE DEF r
  <2>4. ChainsLive'
    BY <1>b, <2>1, <2>2, <2>3 DEF ChainsLive
  <2>5. RunningIsServed'
    BY <1>7, <2>1, <2>2, <2>3, OthersServed DEF StartRun
  <2> QED
    BY <2>4, <2>5
<1>8. ASSUME NEW c \in Chains, NEW k \in Calls, NEW v, Decide(c, k, v)
      PROVE  ChainsLive' /\ RunningIsServed'
  <2>1. ChainsLive'
    BY <1>a, <1>8 DEF Decide, ChainsLive
  <2>2. RunningIsServed'
    BY <1>a, <1>8, OthersServed DEF Decide
  <2> QED
    BY <2>1, <2>2
<1>9. ASSUME NEW a \in Agents, RecoverRun(a)
      PROVE  ChainsLive' /\ RunningIsServed'
  BY <1>9 DEF RecoverRun, ChainsLive, RunningIsServed
<1>10. ASSUME RecoverApprovals
       PROVE  ChainsLive' /\ RunningIsServed'
  BY <1>10 DEF RecoverApprovals, ChainsLive, RunningIsServed, Discipline, RecoveryRests, ActiveStates
<1>11. ASSUME Crash
       PROVE  ChainsLive' /\ RunningIsServed'
  BY <1>11 DEF Crash, ChainsLive, RunningIsServed
<1>12. ASSUME UNCHANGED vars
       PROVE  ChainsLive' /\ RunningIsServed'
  BY <1>12 DEF vars, ChainsLive, RunningIsServed, OnRun
<1> QED
  BY <1>1, <1>2, <1>3, <1>4, <1>5, <1>6, <1>7, <1>8, <1>9, <1>10, <1>11, <1>12, StepCases

-----------------------------------------------------------------------------
(* The calls of a run stay within one of the iterations its chain counts.   *)

CallsOf(f, r) == {k \in Calls : f[k] = r}
Asked(f, r) == Cardinality(CallsOf(f, r))

\* n calls are what a chain at p in iteration i can have asked for.
Counted(p, i, n) ==
  /\ p = "gate" => n = 0
  /\ p \in {"prepare", "send", "backoff", "answer"} => n <= i /\ i <= MaxToolSteps
  /\ p \in {"request", "tool", "report", "gating"} => n <= i + 1
  /\ p \in GrantedPcs => n <= i

StepsCounted ==
  /\ \A r \in Runs : /\ IsFiniteSet(CallsOf(callRun, r)) /\ Asked(callRun, r) <= MaxToolSteps + 1
                     /\ runState[r] = "QUEUED" => Asked(callRun, r) = 0
  /\ \A c \in Chains : Counted(pc[c], task[c].iter, Asked(callRun, RunOf(c)))
  /\ \A k \in Calls : pendingApprovals[k] # 0 => Asked(callRun, callRun[k]) <= pendingApprovals[k]

\* A step that asks for no call.
LEMMA CountKept ==
  ASSUME StepsCounted, callRun' = callRun,
         \A r \in Runs : runState'[r] = "QUEUED" => runState[r] = "QUEUED" \/ Asked(callRun, r) = 0,
         \A c \in Chains : \/ pc'[c] = pc[c] /\ task'[c] = task[c]
                           \/ Counted(pc'[c], task'[c].iter, Asked(callRun, task'[c].run)),
         \A k \in Calls : \/ pendingApprovals'[k] \in {0, pendingApprovals[k]}
                          \/ Asked(callRun, callRun[k]) <= pendingApprovals'[k]
  PROVE  StepsCounted'
<1>1. \A r \in Runs : /\ IsFiniteSet(CallsOf(callRun', r)) /\ Asked(callRun', r) <= MaxToolSteps + 1
                      /\ runState'[r] = "QUEUED" => Asked(callRun', r) = 0
  BY DEF StepsCounted
<1>2. \A c \in Chains : Counted(pc'[c], task'[c].iter, Asked(callRun', task'[c].run))
  BY DEF StepsCounted, RunOf
<1>3. \A k \in Calls : pendingApprovals'[k] # 0 => Asked(callRun', callRun'[k]) <= pendingApprovals'[k]
  BY DEF StepsCounted
<1> QED
  BY <1>1, <1>2, <1>3 DEF StepsCounted, RunOf

LEMMA ContinueCounts ==
  ASSUME task \in [Chains -> Tasks], pc \in [Chains -> Pcs], NEW c \in Chains, NEW i \in Nat, NEW n, NEW rs,
         Asked(callRun, RunOf(c)) <= i, ContinueRun(c, i, n, rs)
  PROVE  \A d \in Chains : \/ pc'[d] = pc[d] /\ task'[d] = task[d]
                           \/ Counted(pc'[d], task'[d].iter, Asked(callRun, task'[d].run))
<1>1. /\ \A d \in Chains \ {c} : pc'[d] = pc[d] /\ task'[d] = task[d]
      /\ pc'[c] \in {"idle", "fail", "prepare"}
  BY DEF ContinueRun, Finish, Goto
<1>2. CASE pc'[c] # "prepare"
  BY <1>1, <1>2 DEF Counted, GrantedPcs
<1>3. CASE pc'[c] = "prepare"
  <2>1. i <= MaxToolSteps /\ task'[c] = [TaskOn(RunOf(c)) EXCEPT !.iter = i, !.nested = n]
    BY <1>3 DEF ContinueRun, Finish, Goto
  <2>2. task'[c].iter = i /\ task'[c].run = RunOf(c)
    BY <2>1 DEF TaskOn, NoTask
  <2> QED
    BY <1>1, <1>3, <2>1, <2>2 DEF Counted, GrantedPcs
<1> QED
  BY <1>2, <1>3

LEMMA CountStep ==
  ASSUME PendingOnly, MaxStops = 0, ~Batches, Typing, Discipline, DecisionsStand, ChainsLive, StepsCounted,
         [Next]_vars
  PROVE  StepsCounted'
<1> USE DEF RunOf, At, Quiet, Goto, Finish, SetRunState, calls, runs, rows, memory, session, restart, history,
   budget,
        Counted, GrantedPcs
<1>a. /\ pc \in [Chains -> Pcs] /\ task \in [Chains -> Tasks] /\ pendingApprovals \in [Calls -> Nat]
      /\ runState \in [Runs -> ActiveStates \cup TerminalStates \cup {"NONE"}]
      /\ callRun \in [Calls -> Runs \cup {0}] /\ MaxToolSteps \in Nat
  BY NatBounds DEF Typing, TypeOK, ChainsTyped, RunsTyped, CallsTyped
<1>b. \A d \in Chains : pc[d] # "idle" => RunOf(d) \in Runs /\ Asked(callRun, RunOf(d)) \in Nat /\ task[d].iter \in Nat
  BY <1>a, BusyChain, FS_CardinalityType DEF Typing, TypeOK, ReferencesExist, RunRows, ChainsOK, StepsCounted,
     Asked, Tasks
<1>c. \A d \in Chains : Counted(pc[d], task[d].iter, Asked(callRun, RunOf(d)))
  BY DEF StepsCounted
<1>d. \A r \in Runs : TaskOn(r).run = r /\ TaskOn(r).iter = 0
  BY DEF TaskOn, NoTask
<1>e. \A c \in Chains : pc[c] \in DriverPcs => activeRuns[RunOf(c)] = "live"
  BY DEF ChainsLive
<1>f. \A d \in Chains : pc[d] \in CallPcs => task[d].call \in Calls /\ callRun[task[d].call] = RunOf(d)
  BY DEF Typing, ReferencesExist, ChainsHaveRuns, Discipline, CallsMatch
<1>1. ASSUME NEW c \in Chains, NEW a \in Agents, StartRun(c, a)
      PROVE  StepsCounted'
  <2>1. created + 1 \in Runs /\ \A k \in Calls : callRun[k] # created + 1
    BY <1>1, NatBounds, SMTT(60) DEF StartRun, Typing, TypeOK, RunsTyped, CallsTyped, Runs, ReferencesExist,
       CallsHaveRuns
  <2>2. Asked(callRun, created + 1) = 0
    <3>1. CallsOf(callRun, created + 1) = {}
      BY <2>1 DEF CallsOf
    <3> QED
      BY <3>1, FS_EmptySet DEF Asked
  <2> QED
    BY <1>a, <1>1, <1>d, <2>1, <2>2, CountKept DEF StartRun
<1>2. ASSUME NEW c \in Chains, GateOpen(c)
      PROVE  StepsCounted'
  <2>0. pc[c] # "idle" /\ ContinueRun(c, 0, FALSE, runState)
    BY <1>2 DEF GateOpen
  <2>1. 0 \in Nat /\ Asked(callRun, RunOf(c)) <= 0
    BY <1>b, <1>c, <1>2, <2>0 DEF GateOpen
  <2>2. \A r \in Runs : runState'[r] = "QUEUED" => runState[r] = "QUEUED"
    BY <1>a, <1>2 DEF GateOpen, ContinueRun
  <2>3. callRun' = callRun /\ pendingApprovals' = pendingApprovals
    BY <1>2 DEF GateOpen
  <2> HIDE DEF Counted
  <2> QED
    BY <1>a, <2>0, <2>1, <2>2, <2>3, ContinueCounts, CountKept
<1>3. ASSUME NEW c \in Chains, GateClosed(c)
      PROVE  StepsCounted'
  BY <1>a, <1>b, <1>c, <1>3, CountKept DEF GateClosed
<1>4. ASSUME NEW c \in Chains, Send(c)
      PROVE  StepsCounted'
  BY <1>a, <1>b, <1>c, <1>4, CountKept DEF Send, Request, FailRun
<1>5. ASSUME NEW c \in Chains, PrepareFails(c)
      PROVE  StepsCounted'
  BY <1>a, <1>b, <1>c, <1>5, CountKept DEF PrepareFails
<1>6. ASSUME NEW c \in Chains, SendRetryLater(c)
      PROVE  StepsCounted'
  BY <1>a, <1>b, <1>c, <1>6, CountKept DEF SendRetryLater, Responding, Tasks
<1>7. ASSUME NEW c \in Chains, Resend(c)
      PROVE  StepsCounted'
  BY <1>a, <1>b, <1>c, <1>7, CountKept DEF Resend, FailRun
<1>8. ASSUME NEW c \in Chains, SendFails(c)
      PROVE  StepsCounted'
  BY <1>a, <1>b, <1>c, <1>8, CountKept DEF SendFails, FailRun
<1>9. ASSUME NEW c \in Chains, Answer(c)
      PROVE  StepsCounted'
  BY <1>a, <1>b, <1>c, <1>9, CountKept DEF Answer, Responding
<1>10. ASSUME NEW c \in Chains, Complete(c)
      PROVE  StepsCounted'
  BY <1>a, <1>b, <1>c, <1>10, CountKept DEF Complete
<1>11. ASSUME NEW c \in Chains, Completed(c)
      PROVE  StepsCounted'
  BY <1>a, <1>b, <1>c, <1>d, <1>11, CountKept DEF Completed, ResumeQueued, StepsCounted
<1>12. ASSUME NEW c \in Chains, NEW k \in Calls, RequestTool(c, k)
      PROVE  StepsCounted'
  <2> DEFINE r == RunOf(c)
  <2>1. r \in Runs /\ callRun[k] = 0 /\ Asked(callRun, r) <= task[c].iter /\ task[c].iter <= MaxToolSteps
    BY <1>b, <1>c, <1>12 DEF RequestTool, CreateCalls, DecisionsStand
  <2>2. CallsOf(callRun', r) = CallsOf(callRun, r) \cup {k} /\ k \notin CallsOf(callRun, r)
    BY <1>a, <1>12, <2>1 DEF RequestTool, CreateCalls, CallsOf, Runs
  <2>3. IsFiniteSet(CallsOf(callRun', r)) /\ Asked(callRun', r) = Asked(callRun, r) + 1
    BY <2>1, <2>2, FS_AddElement DEF Asked, StepsCounted
  <2>4. \A q : q # r /\ q # 0 => CallsOf(callRun', q) = CallsOf(callRun, q) /\ Asked(callRun', q) = Asked(callRun, q)
    <3> SUFFICES ASSUME NEW q, q # r, q # 0
                 PROVE  CallsOf(callRun', q) = CallsOf(callRun, q)
      BY DEF Asked
    <3> QED
      BY <1>a, <1>12, <2>1 DEF RequestTool, CreateCalls, CallsOf
  <2>5. /\ runState' = runState /\ pendingApprovals' = pendingApprovals
        /\ pc'[c] = "request" /\ task'[c].iter = task[c].iter /\ task'[c].run = r
        /\ \A d \in Chains \ {c} : pc'[d] = pc[d] /\ task'[d] = task[d]
        /\ \A l \in Calls : pendingApprovals[l] # 0 => callRun'[l] = callRun[l] /\ callRun[l] # r /\ callRun[l] # 0
    <3>1. runState[r] = "RUNNING"
      BY <1>12 DEF RequestTool, Discipline, StatesMatch, Fits, RunningPcs
    <3>2. \A l \in Calls : pendingApprovals[l] # 0 => l # k /\ callRun[l] # r /\ callRun[l] # 0
      BY <1>a, <2>1, <3>1 DEF Discipline, EntriesWait, Typing, ReferencesExist, CallsHaveRuns
    <3> QED
      BY <1>a, <1>12, <3>2 DEF RequestTool, CreateCalls, Tasks
  <2> HIDE DEF r
  <2>6. \A q \in Runs : /\ IsFiniteSet(CallsOf(callRun', q)) /\ Asked(callRun', q) <= MaxToolSteps + 1
                        /\ runState'[q] = "QUEUED" => Asked(callRun', q) = 0
    <3>1. \A q \in Runs : q # 0
      BY DEF Runs
    <3>2. runState[r] # "QUEUED"
      BY <1>12 DEF r, RequestTool, Discipline, StatesMatch, Fits, RunningPcs
    <3>3. Asked(callRun, r) \in Nat /\ task[c].iter \in Nat
      BY <1>b, <1>12 DEF r, RequestTool
    <3> QED
      BY <1>a, <2>1, <2>3, <2>4, <2>5, <3>1, <3>2, <3>3 DEF StepsCounted
  <2>7. ASSUME NEW d \in Chains, pc'[d] # "idle"
        PROVE  Counted(pc'[d], task'[d].iter, Asked(callRun', task'[d].run))
    <3>1. CASE d = c
      BY <1>b, <1>12, <2>1, <2>3, <2>5, <3>1 DEF r, RequestTool
    <3>2. CASE d # c
      <4>1. RunOf(d) # 0 /\ (RunOf(d) = r => pc[d] = "decide")
        BY <1>b, <1>12, <2>5, <2>7, <3>2, DriverRun DEF r, RequestTool, Runs, DriverPcs, RunningPcs, Busy
      <4> QED
        BY <1>c, <2>4, <2>5, <3>2, <4>1
    <3> QED
      BY <3>1, <3>2
  <2>8. \A l \in Calls : pendingApprovals'[l] # 0 => Asked(callRun', callRun'[l]) <= pendingApprovals'[l]
    BY <2>4, <2>5 DEF StepsCounted
  <2> QED
    BY <2>6, <2>7, <2>8 DEF StepsCounted
<1>13. \A c \in Chains, k1, k2 \in Calls : ~RequestBatch(c, k1, k2)
  BY DEF RequestBatch
<1>14. ASSUME NEW c \in Chains, Gate(c)
      PROVE  StepsCounted'
  BY <1>a, <1>b, <1>c, <1>14, CountKept DEF Gate
<1>15. ASSUME NEW c \in Chains, Gated(c)
      PROVE  StepsCounted'
  BY <1>a, <1>b, <1>c, <1>f, <1>15, CountKept DEF Gated, CallPcs
<1>16. ASSUME NEW c \in Chains, AutoExecute(c)
      PROVE  StepsCounted'
  BY <1>a, <1>b, <1>c, <1>16, CountKept DEF AutoExecute, RunTool
<1>17. ASSUME NEW c \in Chains, ToolFinishes(c)
      PROVE  StepsCounted'
  BY <1>a, <1>b, <1>c, <1>17, CountKept DEF ToolFinishes
<1>18. ASSUME NEW c \in Chains, NextIteration(c)
      PROVE  StepsCounted'
  <2>0. pc[c] # "idle" /\ ContinueRun(c, task[c].iter + 1, TRUE, runState)
    BY <1>18 DEF NextIteration
  <2>1. task[c].iter + 1 \in Nat /\ Asked(callRun, RunOf(c)) <= task[c].iter + 1
    BY <1>b, <1>c, <1>18, <2>0 DEF NextIteration
  <2>2. \A r \in Runs : runState'[r] = "QUEUED" => runState[r] = "QUEUED"
    BY <1>a, <1>18 DEF NextIteration, ContinueRun
  <2>3. callRun' = callRun /\ pendingApprovals' = pendingApprovals
    BY <1>18 DEF NextIteration
  <2> HIDE DEF Counted
  <2> QED
    BY <1>a, <2>0, <2>1, <2>2, <2>3, ContinueCounts, CountKept
<1>19. ASSUME NEW c \in Chains, Failed(c)
      PROVE  StepsCounted'
  BY <1>a, <1>b, <1>c, <1>19, CountKept DEF Failed
<1>20. ASSUME NEW c \in Chains, NEW k \in Calls, NEW v, Decide(c, k, v)
      PROVE  StepsCounted'
  BY <1>a, <1>b, <1>c, <1>20, CountKept DEF Decide
<1>21. ASSUME NEW c \in Chains, ResumeAfterApproval(c)
      PROVE  StepsCounted'
  BY <1>a, <1>b, <1>c, <1>d, <1>f, <1>21, CountKept DEF ResumeAfterApproval, ResumeQueued, StepsCounted,
     CallPcs, Tasks
<1>22. ASSUME NEW c \in Chains, RegateFails(c)
      PROVE  StepsCounted'
  BY <1>a, <1>b, <1>c, <1>22, CountKept DEF RegateFails
<1>23. ASSUME NEW c \in Chains, ExecuteApproved(c)
      PROVE  StepsCounted'
  BY <1>a, <1>b, <1>c, <1>23, CountKept DEF ExecuteApproved, RunTool
<1>24. ASSUME NEW c \in Chains, RefuseDenied(c)
      PROVE  StepsCounted'
  BY <1>a, <1>b, <1>c, <1>24, CountKept DEF RefuseDenied
<1>25. ASSUME NEW c \in Chains, Resume(c)
      PROVE  StepsCounted'
  <2>1. /\ ContinueRun(c, task[c].iter, FALSE, [runState EXCEPT ![RunOf(c)] = "RUNNING"])
        /\ task[c].iter \in Nat /\ Asked(callRun, RunOf(c)) <= task[c].iter
    BY <1>b, <1>c, <1>25 DEF Resume
  <2>2. \A r \in Runs : runState'[r] = "QUEUED" => runState[r] = "QUEUED"
    BY <1>a, <1>25 DEF Resume, ContinueRun
  <2>3. callRun' = callRun /\ pendingApprovals' = pendingApprovals
    BY <1>25 DEF Resume
  <2> HIDE DEF Counted
  <2> QED
    BY <1>a, <2>1, <2>2, <2>3, ContinueCounts, CountKept
<1>26. ASSUME NEW c \in Chains, NEW q \in Runs, AssignHandoff(c, q)
      PROVE  StepsCounted'
  BY <1>a, <1>b, <1>c, <1>d, <1>26, CountKept DEF AssignHandoff, ResumeQueued, StepsCounted
<1>27. ASSUME NEW a \in Agents, RecoverRun(a)
      PROVE  StepsCounted'
  BY <1>a, <1>27, CountKept DEF RecoverRun
<1>28. ASSUME RecoverApprovals
      PROVE  StepsCounted'
  BY <1>28, CountKept DEF RecoverApprovals
<1>29. ASSUME Crash
      PROVE  StepsCounted'
  BY <1>29, CountKept DEF Crash
<1>30. ASSUME UNCHANGED vars
       PROVE  StepsCounted'
  BY <1>30, CountKept DEF vars
<1> HIDE DEF RunOf, At, Quiet, Goto, Finish, SetRunState, Counted
<1> QED
  BY <1>1, <1>2, <1>3, <1>4, <1>5, <1>6, <1>7, <1>8, <1>9, <1>10, <1>11, <1>12, <1>13, <1>14, <1>15, <1>16, <1>17,
     <1>18, <1>19, <1>20, <1>21, <1>22, <1>23, <1>24, <1>25, <1>26, <1>27, <1>28, <1>29, <1>30, StepCases
     DEF DriverAction, CompletedResuming, Completed

-----------------------------------------------------------------------------
(* Without a crash, every call is executed or refused before its run ends.  *)

Open(k) == callState[k] \in {"requested", "pending_approval", "running"}

\* A call that is neither executed nor refused waits for the operator with its run,
\* or its chain is about to execute it; and it is the only one of its run.
OpenCallsServed ==
  /\ mode = "up"
  /\ \A k \in Calls : callState[k] # "none" => callRun[k] \in Runs
  /\ \A k \in Calls : Open(k) =>
       \/ runState[callRun[k]] = "WAITING_APPROVAL"
       \/ \E c \in Chains : pc[c] \in {"request", "tool"} /\ RunOf(c) = callRun[k] /\ task[c].call = k
  /\ \A c \in Chains, k \in Calls :
       /\ Open(k) /\ pc[c] \in CallPcs /\ RunOf(c) = callRun[k]
       /\ runState[callRun[k]] = "WAITING_APPROVAL"
       => task[c].call = k /\ pc[c] # "decided"
  /\ \A k, l \in Calls :
       /\ Awaited(k) /\ Open(l) /\ callRun[k] = callRun[l]
       /\ runState[callRun[k]] = "WAITING_APPROVAL"
       => k = l

\* The run of a chain at p has no open call.
NoOpenCall(c) == \A k \in Calls : Open(k) => callRun[k] # RunOf(c)

LEMMA DriversNoOpenCall ==
  ASSUME Typing, Discipline, OpenCallsServed, NEW c \in Chains,
         pc[c] \in DriverPcs \ {"request", "tool", "regate", "grantedTool"}
  PROVE  NoOpenCall(c)
<1>1. Fits(pc[c], runState[RunOf(c)])
  BY DEF Discipline, StatesMatch
<1>2. \A d \in Chains : d # c /\ Busy(d) /\ RunOf(d) = RunOf(c) => pc[d] = "decide"
  BY DriverRun
<1> QED
  BY <1>1, <1>2 DEF NoOpenCall, OpenCallsServed, Fits, Busy, DriverPcs, RunningPcs, GrantedPcs, CallPcs

\* A step of a driver that has no open call and makes or decides none.
LEMMA OpenKept ==
  ASSUME Typing, Discipline, OpenCallsServed, NEW c \in Chains, NEW K, DriverStep(c, K), NoOpenCall(c),
         UNCHANGED <<callState, callRun, pendingApprovals>>
  PROVE  OpenCallsServed'
<1>1. /\ mode' = "up" /\ callRun' = callRun /\ approval' = approval
      /\ \A d \in Chains : d # c => pc'[d] = pc[d] /\ task'[d] = task[d]
      /\ \A r \in Runs : r # RunOf(c) => runState'[r] = runState[r]
      /\ pc'[c] # "idle" => task'[c].run = RunOf(c)
  BY DEF DriverStep
<1>2. \A k \in Calls : Open(k) => callRun[k] \in Runs /\ callRun[k] # RunOf(c)
  BY DEF OpenCallsServed, NoOpenCall, Open
<1> QED
  BY <1>1, <1>2 DEF OpenCallsServed, Open, Awaited, RunOf, CallPcs

\* The driver's steps that leave the calls alone.
RestingAction(c) ==
  \/ GateOpen(c) \/ GateClosed(c) \/ Send(c) \/ PrepareFails(c) \/ SendRetryLater(c) \/ Resend(c)
  \/ SendFails(c) \/ Answer(c) \/ Complete(c) \/ NextIteration(c) \/ Failed(c) \/ Resume(c)
  \/ At(c, "complete") /\ Completed(c) /\ held' = held

LEMMA RestingStep ==
  ASSUME Typing, GrantsCoverExecutions, Discipline, OpenCallsServed, NEW c \in Chains, RestingAction(c)
  PROVE  OpenCallsServed'
<1>1. /\ pc[c] \in DriverPcs \ {"request", "tool", "regate", "grantedTool"}
      /\ UNCHANGED <<callState, callRun, approval, pendingApprovals>>
  BY DEF RestingAction, DriverPcs, RunningPcs, GrantedPcs, At, calls, rows, memory, GateOpen, GateClosed, Send,
     PrepareFails, SendRetryLater, Responding, Resend, SendFails, Answer, Complete, Completed, NextIteration,
     Failed, Resume
<1>2. PICK K \in SUBSET Calls : DriverStep(c, K)
  BY DriverActions DEF RestingAction, DriverAction
<1> QED
  BY <1>1, <1>2, DriversNoOpenCall, OpenKept

LEMMA OpenStep ==
  ASSUME PendingOnly, MaxStops = 0, ~Batches, Typing, GrantsCoverExecutions, Discipline, DecisionsStand,
         OpenCallsServed, [Next]_vars, crashes' = 0
  PROVE  OpenCallsServed'
<1> USE DEF RunOf, At, Quiet, Goto, Finish, SetRunState, calls, runs, rows, memory, session, restart, history,
   budget,
        Open
<1>a. /\ pc \in [Chains -> Pcs] /\ task \in [Chains -> Tasks] /\ pendingApprovals \in [Calls -> Nat]
      /\ runState \in [Runs -> ActiveStates \cup TerminalStates \cup {"NONE"}]
      /\ callRun \in [Calls -> Runs \cup {0}] /\ callState \in [Calls -> CallStates]
      /\ approval \in [Calls -> {"none", "PENDING", "APPROVED", "DENIED"}]
  BY DEF Typing, TypeOK, ChainsTyped, RunsTyped, CallsTyped
<1>b. \A d \in Chains : pc[d] # "idle" => RunOf(d) \in Runs
  BY BusyChain DEF Typing, TypeOK, ReferencesExist, RunRows, ChainsOK
<1>c. \A d \in Chains : Fits(pc[d], runState[RunOf(d)])
  BY DEF Discipline, StatesMatch
<1>d. \A d \in Chains : pc[d] \in CallPcs => task[d].call \in Calls /\ callRun[task[d].call] = RunOf(d)
  BY DEF Typing, ReferencesExist, ChainsHaveRuns, Discipline, CallsMatch
\* A driver whose run has not ended has it for itself.
<1>e. ASSUME NEW c \in Chains, pc[c] \in DriverPcs, runState[RunOf(c)] \notin TerminalStates
      PROVE  \A d \in Chains : pc[d] # "idle" /\ RunOf(d) = RunOf(c) => d = c
  BY <1>e, DriverRun DEF Busy
\* A running chain's only open call is the one it is about to execute.
<1>f. ASSUME NEW c \in Chains, pc[c] \in {"request", "tool"}
      PROVE  \A l \in Calls : Open(l) /\ callRun[l] = RunOf(c) => l = task[c].call
  BY <1>c, <1>e, <1>f DEF OpenCallsServed, Fits, DriverPcs, RunningPcs, TerminalStates
<1>g. ASSUME NEW c \in Chains, pc[c] \in GrantedPcs
      PROVE  \A l \in Calls : Open(l) /\ callRun[l] = RunOf(c) => l = task[c].call /\ pc[c] # "decided"
  BY <1>c, <1>g DEF OpenCallsServed, Fits, GrantedPcs, CallPcs
<1>h. ASSUME NEW c \in Chains, pc[c] \in GrantedPcs
      PROVE  \A k \in Calls : Awaited(k) /\ callRun[k] = RunOf(c) => k = task[c].call /\ pc[c] = "regate"
  BY <1>c, <1>h DEF Awaited, Discipline, PendingWaits, EntriesWait, Busy, Fits, GrantedPcs, TerminalStates
<1>1. ASSUME NEW c \in Chains, RestingAction(c)
      PROVE  OpenCallsServed'
  BY <1>1, RestingStep
<1>2. ASSUME NEW c \in Chains, NEW k \in Calls, RequestTool(c, k)
      PROVE  OpenCallsServed'
  <2>1. NoOpenCall(c) /\ runState[RunOf(c)] = "RUNNING" /\ RunOf(c) \in Runs /\ callRun[k] = 0
        /\ callState[k] = "none"
    BY <1>b, <1>c, <1>2, DriversNoOpenCall DEF RequestTool, CreateCalls, DriverPcs, RunningPcs, GrantedPcs, Fits,
       DecisionsStand
  <2>2. /\ \A l \in Calls : l # k => callState'[l] = callState[l] /\ callRun'[l] = callRun[l]
        /\ callState'[k] = "requested" /\ callRun'[k] = RunOf(c)
        /\ UNCHANGED <<mode, runState, approval, pendingApprovals>> /\ mode = "up"
        /\ \A d \in Chains : d # c => pc'[d] = pc[d] /\ task'[d] = task[d]
        /\ pc'[c] = "request" /\ task'[c].run = RunOf(c) /\ task'[c].call = k /\ pc[c] = "answer"
    BY <1>a, <1>2 DEF RequestTool, CreateCalls, Tasks
  <2>3. \A d \in Chains : pc[d] # "idle" /\ RunOf(d) = RunOf(c) => d = c
    BY <1>e, <2>1, <2>2 DEF DriverPcs, RunningPcs, TerminalStates
  <2>4. \A l \in Calls : Open(l) => callRun[l] # RunOf(c) /\ callRun[l] \in Runs
    BY <2>1 DEF NoOpenCall, OpenCallsServed
  <2> QED
    BY <1>b, <2>1, <2>2, <2>3, <2>4 DEF OpenCallsServed, Awaited, CallPcs
<1>3. ASSUME NEW c \in Chains, AutoExecute(c)
      PROVE  OpenCallsServed'
  <2>1. runState[RunOf(c)] = "RUNNING" /\ RunOf(c) \in Runs /\ task[c].call \in Calls
        /\ callRun[task[c].call] = RunOf(c)
    BY <1>b, <1>c, <1>d, <1>3 DEF AutoExecute, Fits, RunningPcs, CallPcs
  <2> QED
    BY <1>a, <1>3, <2>1 DEF AutoExecute, RunTool, OpenCallsServed, Awaited, CallPcs
<1>4. ASSUME NEW c \in Chains, ToolFinishes(c)
      PROVE  OpenCallsServed'
  <2>1. task[c].call \in Calls /\ callRun[task[c].call] = RunOf(c) /\ RunOf(c) \in Runs
    BY <1>b, <1>d, <1>4 DEF ToolFinishes, CallPcs
  <2>2. /\ \A l \in Calls : Open(l)' => Open(l) /\ callRun[l] # RunOf(c)
        /\ \A l \in Calls : callState'[l] = "none" => callState[l] = "none"
    <3>1. \A l \in Calls : Open(l) /\ callRun[l] = RunOf(c) => l = task[c].call
      BY <1>f, <1>g, <1>4 DEF ToolFinishes, GrantedPcs
    <3> QED
      BY <1>a, <1>4, <2>1, <3>1 DEF ToolFinishes
  <2>3. /\ UNCHANGED <<mode, runState, approval, pendingApprovals, callRun, task>> /\ mode = "up"
        /\ \A d \in Chains : d # c => pc'[d] = pc[d]
        /\ \A l \in Calls : callState'[l] # "none" => callState[l] # "none" \/ callRun[l] = RunOf(c)
    BY <1>a, <1>4, <2>1 DEF ToolFinishes
  <2> QED
    BY <1>b, <2>1, <2>2, <2>3 DEF OpenCallsServed, Awaited
<1>5. ASSUME NEW c \in Chains, RegateFails(c)
      PROVE  OpenCallsServed'
  BY <1>a, <1>5 DEF RegateFails, OpenCallsServed, Awaited, CallPcs
<1>6. ASSUME NEW c \in Chains, ExecuteApproved(c)
      PROVE  OpenCallsServed'
  <2> DEFINE k == task[c].call
  <2>1. /\ k \in Calls /\ callRun[k] = RunOf(c) /\ RunOf(c) \in Runs /\ runState[RunOf(c)] = "WAITING_APPROVAL"
        /\ \A l \in Calls : Awaited(l) /\ callRun[l] = RunOf(c) => l = k
        /\ \A l \in Calls : Open(l) /\ callRun[l] = RunOf(c) => l = k
        /\ \A d \in Chains : pc[d] # "idle" /\ RunOf(d) = RunOf(c) => d = c
        /\ approval[k] # "PENDING"
    BY <1>b, <1>c, <1>d, <1>e, <1>g, <1>h, <1>6 DEF ExecuteApproved, Fits, GrantedPcs, CallPcs, DriverPcs,
       TerminalStates, DecisionsStand
  <2>2. /\ \A l \in Calls : l # k => callState'[l] = callState[l] /\ pendingApprovals'[l] = pendingApprovals[l]
        /\ callState'[k] = "running" /\ pendingApprovals'[k] = 0
        /\ UNCHANGED <<mode, runState, approval, callRun, task>> /\ mode = "up"
        /\ \A d \in Chains : d # c => pc'[d] = pc[d]
        /\ pc[c] = "regate" /\ pc'[c] = "grantedTool"
    BY <1>a, <1>6, <2>1 DEF ExecuteApproved, RunTool
  <2> HIDE DEF k
  <2>3. \A l \in Calls : Awaited(l)' => Awaited(l) /\ l # k
    BY <2>1, <2>2 DEF Awaited
  <2> QED
    BY <1>b, <2>1, <2>2, <2>3 DEF k, OpenCallsServed, CallPcs
<1>7. ASSUME NEW c \in Chains, RefuseDenied(c)
      PROVE  OpenCallsServed'
  <2> DEFINE k == task[c].call
  <2>1. /\ k \in Calls /\ callRun[k] = RunOf(c) /\ RunOf(c) \in Runs
        /\ \A l \in Calls : Open(l) /\ callRun[l] = RunOf(c) => l = k
    BY <1>b, <1>d, <1>g, <1>7 DEF RefuseDenied, GrantedPcs, CallPcs
  <2>2. /\ \A l \in Calls : l # k => callState'[l] = callState[l] /\ pendingApprovals'[l] = pendingApprovals[l]
        /\ callState'[k] = "denied" /\ pendingApprovals'[k] = 0
        /\ UNCHANGED <<mode, runState, approval, callRun, task>> /\ mode = "up"
        /\ \A d \in Chains : d # c => pc'[d] = pc[d]
        /\ pc[c] = "regate" /\ pc'[c] = "decided"
    BY <1>a, <1>7, <2>1 DEF RefuseDenied
  <2> HIDE DEF k
  <2>3. \A l \in Calls : /\ Awaited(l)' => Awaited(l)
                         /\ Open(l)' => Open(l) /\ callRun[l] # RunOf(c)
    BY <2>1, <2>2 DEF Awaited
  <2> QED
    BY <1>b, <2>1, <2>2, <2>3 DEF k, OpenCallsServed, CallPcs
<1>8. ASSUME NEW c \in Chains, Gate(c)
      PROVE  OpenCallsServed'
  <2> DEFINE k == task[c].call
  <2>1. /\ k \in Calls /\ callRun[k] = RunOf(c) /\ RunOf(c) \in Runs /\ runState[RunOf(c)] = "RUNNING"
        /\ \A l \in Calls : Open(l) /\ callRun[l] = RunOf(c) => l = k
        /\ \A d \in Chains : pc[d] # "idle" /\ RunOf(d) = RunOf(c) => d = c
        /\ \A l \in Calls : Awaited(l) => callRun[l] # RunOf(c)
    BY <1>b, <1>c, <1>d, <1>e, <1>f, <1>8 DEF Gate, Fits, RunningPcs, CallPcs, DriverPcs, TerminalStates,
       Awaited, Discipline, PendingWaits, EntriesWait
  <2>2. /\ \A l \in Calls : l # k => callState'[l] = callState[l] /\ approval'[l] = approval[l]
        /\ callState'[k] = "pending_approval" /\ approval'[k] = "PENDING"
        /\ \A r \in Runs : runState'[r] = IF r = RunOf(c) THEN "WAITING_APPROVAL" ELSE runState[r]
        /\ UNCHANGED <<mode, pendingApprovals, callRun, task>> /\ mode = "up"
        /\ \A d \in Chains : d # c => pc'[d] = pc[d]
        /\ pc[c] = "request" /\ pc'[c] = "gating"
    BY <1>a, <1>8, <2>1 DEF Gate
  <2> HIDE DEF k
  <2>3. \A l \in Calls : /\ Awaited(l)' => Awaited(l) \/ l = k
                         /\ Open(l)' => Open(l) \/ l = k
    BY <2>1, <2>2 DEF Awaited
  <2>4. \A l \in Calls : Open(l)' => callRun[l] \in Runs
    BY <2>1, <2>3 DEF OpenCallsServed
  <2> QED
    BY <1>b, <2>1, <2>2, <2>3, <2>4 DEF k, OpenCallsServed, CallPcs
<1>9. ASSUME NEW c \in Chains, Gated(c)
      PROVE  OpenCallsServed'
  <2> DEFINE k == task[c].call
  <2>1. /\ k \in Calls /\ callRun[k] = RunOf(c) /\ RunOf(c) \in Runs /\ runState[RunOf(c)] = "WAITING_APPROVAL"
        /\ \A l \in Calls : Open(l) /\ callRun[l] = RunOf(c) => l = k
    BY <1>b, <1>c, <1>d, <1>9 DEF Gated, Fits, CallPcs, OpenCallsServed
  <2>2. /\ \A l \in Calls : l # k => pendingApprovals'[l] = pendingApprovals[l]
        /\ UNCHANGED <<mode, approval, callState, runState, callRun>> /\ mode = "up"
        /\ \A d \in Chains : d # c => pc'[d] = pc[d] /\ task'[d] = task[d]
        /\ pc[c] = "gating" /\ pc'[c] = "idle"
    BY <1>a, <1>9, <2>1 DEF Gated
  <2> HIDE DEF k
  <2>3. \A l \in Calls : Awaited(l)' => Awaited(l) \/ l = k
    BY <2>1, <2>2 DEF Awaited
  <2> QED
    BY <1>b, <2>1, <2>2, <2>3 DEF OpenCallsServed, CallPcs
<1>10. ASSUME NEW c \in Chains, NEW k \in Calls, NEW v \in {"approve", "deny"}, Decide(c, k, v)
       PROVE  OpenCallsServed'
  <2>1. /\ Awaited(k) /\ callRun[k] \in Runs /\ mode = "up" /\ pc[c] = "idle"
        /\ \A l \in Calls : approval'[l] = "PENDING" => approval[l] = "PENDING"
        /\ UNCHANGED <<mode, callState, runState, callRun, pendingApprovals>>
        /\ \A d \in Chains : d # c => pc'[d] = pc[d] /\ task'[d] = task[d]
        /\ pc'[c] = "decide" /\ task'[c].run = callRun[k] /\ task'[c].call = k
    BY <1>a, <1>10, SMTT(60) DEF Decide, Awaited, Typing, ReferencesExist, CallsHaveRuns, TaskOn, NoTask
  <2>2. \A l \in Calls : Awaited(l)' => Awaited(l)
    BY <2>1 DEF Awaited
  <2> QED
    BY <2>1, <2>2 DEF OpenCallsServed, CallPcs
<1>11. ASSUME NEW c \in Chains, ResumeAfterApproval(c)
       PROVE  OpenCallsServed'
  <2>1. /\ pc'[c] \in {"idle", "regate"} /\ pc[c] = "decide"
        /\ pc'[c] = "regate" => task'[c].run = RunOf(c) /\ task'[c].call = task[c].call
        /\ \A d \in Chains \ {c} : \/ pc'[d] = pc[d] /\ task'[d] = task[d]
                                   \/ pc[d] = "idle" /\ pc'[d] = "prepare"
        /\ UNCHANGED <<runState, mode, callState, callRun, approval, pendingApprovals>>
    BY <1>a, <1>11, SMTT(60) DEF ResumeAfterApproval, ResumeQueued, Tasks
  <2> QED
    BY <2>1 DEF OpenCallsServed, CallPcs, Awaited
<1>12. ASSUME NEW c \in Chains, NEW q \in Runs, CompletedResuming(c, q) \/ AssignHandoff(c, q)
       PROVE  OpenCallsServed'
  <2>1. /\ pc'[c] = "prepare" /\ pc[c] \in {"idle", "complete"}
        /\ \A d \in Chains \ {c} : pc'[d] = pc[d] /\ task'[d] = task[d]
        /\ UNCHANGED <<runState, mode, callState, callRun, approval, pendingApprovals>>
    BY <1>a, <1>12 DEF CompletedResuming, AssignHandoff
  <2> QED
    BY <2>1 DEF OpenCallsServed, CallPcs, Awaited
<1>13. ASSUME NEW c \in Chains, NEW a \in Agents, StartRun(c, a)
       PROVE  OpenCallsServed'
  <2>1. created + 1 \in Runs /\ \A k \in Calls : callRun[k] # created + 1
    BY <1>13, NatBounds, SMTT(60) DEF StartRun, Typing, TypeOK, RunsTyped, CallsTyped, Runs, ReferencesExist,
       CallsHaveRuns
  <2>2. /\ pc'[c] = "gate" /\ pc[c] = "idle"
        /\ \A d \in Chains \ {c} : pc'[d] = pc[d] /\ task'[d] = task[d]
        /\ \A r \in Runs : r # created + 1 => runState'[r] = runState[r]
        /\ UNCHANGED <<mode, callState, callRun, approval, pendingApprovals>>
    BY <1>a, <1>13, <2>1 DEF StartRun
  <2>3. \A k \in Calls : Open(k) => callRun[k] \in Runs /\ runState'[callRun[k]] = runState[callRun[k]]
    BY <2>1, <2>2 DEF OpenCallsServed
  <2> QED
    BY <2>2, <2>3 DEF OpenCallsServed, CallPcs, Awaited
<1>14. \A a \in Agents : ~RecoverRun(a)
  BY DEF RecoverRun, OpenCallsServed
<1>15. ~RecoverApprovals
  BY DEF RecoverApprovals, OpenCallsServed
<1>16. ~Crash
  BY NatBounds, SMTT(60) DEF Crash, Typing, TypeOK, ProcessTyped
<1>17. ASSUME UNCHANGED vars
       PROVE  OpenCallsServed'
  BY <1>17 DEF vars, OpenCallsServed, Awaited
<1>18. \A c \in Chains, k1, k2 \in Calls : ~RequestBatch(c, k1, k2)
  BY DEF RequestBatch
<1> HIDE DEF RunOf, At, Quiet, Goto, Finish, SetRunState
<1> QED
  BY <1>1, <1>2, <1>3, <1>4, <1>5, <1>6, <1>7, <1>8, <1>9, <1>10, <1>11, <1>12, <1>13, <1>14, <1>15, <1>16,
     <1>17, <1>18,
     StepCases DEF DriverAction, RestingAction

\* The invariant of the second layer.
WorkedOff ==
  /\ ChainsLive /\ RunningIsServed /\ StepsCounted
  /\ mode = "recovering" => crashes # 0
  /\ crashes = 0 => OpenCallsServed

LEMMA WorkedOffInit == Init => WorkedOff
<1> SUFFICES ASSUME Init
             PROVE  WorkedOff
  OBVIOUS
<1>1. ChainsLive /\ RunningIsServed /\ OpenCallsServed
  BY DEF Init, ChainsLive, RunningIsServed, OpenCallsServed, Open, DriverPcs, RunningPcs, GrantedPcs, CallPcs,
     Awaited
<1>2. \A r \in Runs : CallsOf(callRun, r) = {}
  BY DEF Init, CallsOf, Runs
<1>3. StepsCounted
  BY <1>2, NatBounds, FS_EmptySet DEF Init, StepsCounted, Asked, Counted, GrantedPcs
<1> QED
  BY <1>1, <1>3 DEF Init, WorkedOff

LEMMA WorkedOffStep ==
  ASSUME PendingOnly, MaxStops = 0, ~Batches, Typing, GrantsCoverExecutions, Discipline, DecisionsStand, WorkedOff,
         [Next]_vars
  PROVE  WorkedOff'
<1>1. ChainsLive' /\ RunningIsServed' /\ StepsCounted'
  BY ServedStep, CountStep DEF WorkedOff
<1>2. crashes \in Nat
  BY NatBounds, SMTT(60) DEF Typing, TypeOK, ProcessTyped
<1>3. crashes' = crashes \/ Crash
  <2>1. ASSUME UNCHANGED vars
        PROVE  crashes' = crashes
    BY <2>1 DEF vars, budget
  <2>2. ASSUME NEW c \in Chains, Work(c)
        PROVE  crashes' = crashes
    BY <2>2 DEF Work, GateOpen, GateClosed, Send, PrepareFails, SendRetryLater, Resend, SendFails, Answer,
       Complete,
       Completed, RequestTool, RequestBatch, CreateCalls, Gate, Gated, AutoExecute, ToolFinishes, NextIteration,
       Failed, ResumeAfterApproval, RegateFails, ExecuteApproved, RefuseDenied, Resume, Stopped, budget
  <2>3. ASSUME Recover
        PROVE  crashes' = crashes
    BY <2>3 DEF Recover, RecoverRun, RecoverApprovals, budget
  <2>4. ASSUME Environment, ~Crash
        PROVE  crashes' = crashes
    BY <2>4 DEF Environment, StartRun, Decide, StopRun, AssignHandoff, Interrupt, budget
  <2> QED
    BY <2>1, <2>2, <2>3, <2>4 DEF Next
<1>4. crashes' = 0 => OpenCallsServed'
  <2>1. Crash => crashes' # 0
    BY <1>2 DEF Crash
  <2> QED
    BY <1>3, <2>1, OpenStep DEF WorkedOff
<1>5. mode' = "recovering" => crashes' # 0
  <2>1. CASE Crash
    BY <1>2, <2>1 DEF Crash
  <2>2. CASE ~Crash /\ crashes # 0
    BY <1>3, <2>2
  <2>3. CASE ~Crash /\ crashes = 0
    BY <1>3, <1>4, <2>3 DEF OpenCallsServed
  <2> QED
    BY <2>1, <2>2, <2>3
<1> QED
  BY <1>1, <1>4, <1>5 DEF WorkedOff

LEMMA AlwaysWorkedOff ==
  ASSUME PendingOnly, MaxStops = 0, ~Batches
  PROVE  Spec => [](Typing /\ GrantsCoverExecutions /\ Discipline /\ DecisionsStand /\ WorkedOff)
<1> DEFINE IInv == Typing /\ GrantsCoverExecutions /\ Discipline /\ DecisionsStand /\ WorkedOff
<1>1. Init => IInv
  BY TypingInit, GrantsInit, DisciplineInit, LifecycleInit, WorkedOffInit
<1>2. IInv /\ [Next]_vars => IInv'
  BY TypingStep, GrantsStep, DisciplineStep, DecisionsStep, WorkedOffStep
<1> QED
  BY <1>1, <1>2, PTL DEF Spec

\* With providers that ask for one call at a time, no run is left RUNNING without a
\* chain, none asks for more calls than one above its limit, and unless the process
\* crashes every call is executed or refused before its run has ended.
THEOREM RunsGetWorkedOff ==
  ASSUME PendingOnly, MaxStops = 0, ~Batches
  PROVE  Spec => []RunsAreWorkedOff
<1>1. Typing /\ Discipline /\ WorkedOff => RunsAreWorkedOff
  <2> SUFFICES ASSUME Typing, Discipline, WorkedOff
               PROVE  RunsAreWorkedOff
    OBVIOUS
  <2>1. AtMostOneMoreToolStep
    BY DEF WorkedOff, StepsCounted, Asked, CallsOf, AtMostOneMoreToolStep
  <2>2. ASSUME crashes = 0
        PROVE  NoCallLeftBehind
    <3>1. \A c \in Chains : pc[c] \in {"request", "tool"} => runState[RunOf(c)] = "RUNNING"
      BY DEF Discipline, StatesMatch, Fits, RunningPcs
    <3> QED
      BY <2>2, <3>1 DEF WorkedOff, OpenCallsServed, Open, NoCallLeftBehind
  <2> QED
    BY <2>1, <2>2 DEF WorkedOff, RunsAreWorkedOff
<1> QED
  BY <1>1, AlwaysWorkedOff, PTL

-----------------------------------------------------------------------------
(* What the maps hold.                                                      *)

\* Without a key for the synthesis model refreshes let nothing in.
OneRefresh ==
  mode = "up" /\ ~synthesizes => \A c, d \in Chains : {pc[c], pc[d]} \subseteq RefreshPcs => c = d

\* A decision that comes in time finds the entry it resumes, or the chain that is
\* about to write it.
DecisionsFindEntry ==
  \A d \in Chains : pc[d] = "decide" /\ runState[RunOf(d)] = "WAITING_APPROVAL" =>
    \/ pendingApprovals[task[d].call] # 0
    \/ \E c \in Chains : pc[c] = "gating" /\ task[c].call = task[d].call

\* The approvals still PENDING after a crash are those recovery will deny.
RecoveryCloses ==
  mode = "recovering" =>
    \A k \in Calls : approval[k] = "PENDING" =>
      callRun[k] \in errored \/ runState[callRun[k]] = "WAITING_APPROVAL"

\* Of the chains on a run, decisions that come too late do not count.
EntriesOwned ==
  \A r \in Runs :
    /\ activeRuns[r] # "stopped"
    /\ activeRuns[r] = "live" =>
         \/ \E c \in Chains : OnRun(c, r) /\ ~(pc[c] = "decide" /\ runState[r] \in TerminalStates)
         \/ \E k \in Calls : callRun[k] = r /\ pendingApprovals[k] # 0

\* The invariant of the third layer.
Tracked ==
  /\ OneRefresh /\ DecisionsFindEntry /\ PendingIsResumable /\ RecoveryCloses /\ EntriesOwned
  /\ ~synthesizes => WaitingIsDecidable

LEMMA DriversTrack ==
  ASSUME ~GitMayFail, Typing, GrantsCoverExecutions, Discipline, DecisionsStand, ChainsLive, Tracked,
         NEW c \in Chains, DriverAction(c)
  PROVE  Tracked'
<1>1. PICK K \in SUBSET Calls : DriverStep(c, K)
  BY DriverActions
<1>2. DriverLeaves(c)
  BY DriversLeave
<1>3. /\ RunOf(c) \in Runs /\ pc[c] # "idle" /\ pc[c] \notin {"gating", "decide"}
      /\ \A d \in Chains : d # c /\ pc[d] # "idle" /\ RunOf(d) = RunOf(c) =>
           pc[d] = "decide" /\ runState[RunOf(c)] \in TerminalStates
  BY <1>1, DriverRun DEF DriverStep, Busy, DriverPcs, RunningPcs, GrantedPcs
<1>4. Quiet({c}) /\ synthesizes' = synthesizes
  BY DEF DriverAction, At, restart, session, GateOpen, GateClosed, Send, PrepareFails, SendRetryLater, Responding,
     Resend, SendFails, Answer, Complete, Completed, RequestTool, RequestBatch, CreateCalls, AutoExecute,
     ToolFinishes,
     NextIteration, Failed, RegateFails, ExecuteApproved, RefuseDenied, Resume
<1>5. \A k \in Calls : pendingApprovals[k] # 0 =>
        \/ pendingApprovals'[k] # 0
        \/ pc[c] = "regate" /\ k = task[c].call /\ callRun[k] = RunOf(c) /\ approval[k] # "PENDING"
  <2>1. ASSUME pc[c] = "regate"
        PROVE  callRun[task[c].call] = RunOf(c) /\ approval[task[c].call] # "PENDING"
    BY <2>1 DEF Discipline, CallsMatch, CallPcs, DecisionsStand
  <2>2. CASE ExecuteApproved(c) \/ RefuseDenied(c)
    BY <2>1, <2>2 DEF ExecuteApproved, RefuseDenied, At, Typing, TypeOK, CallsTyped
  <2>3. CASE UNCHANGED pendingApprovals
    BY <2>3
  <2> QED
    BY <2>2, <2>3 DEF DriverAction, calls, memory, GateOpen, GateClosed, Send, PrepareFails, SendRetryLater,
       Responding,
     Resend, SendFails, Answer, Complete, Completed, RequestTool, RequestBatch, CreateCalls, AutoExecute,
     ToolFinishes,
     NextIteration, Failed, RegateFails, Resume
<1>6. \A k \in Calls : approval[k] # "none" => callRun'[k] = callRun[k]
  BY <1>1 DEF DriverStep
<1>7. /\ \A d \in Chains : d # c => pc'[d] = pc[d] /\ task'[d] = task[d]
      /\ \A r \in Runs : r # RunOf(c) => runState'[r] = runState[r]
      /\ pc'[c] \in DriverPcs \cup {"idle"} /\ pc'[c] \notin {"gating", "decide"}
      /\ pc'[c] # "idle" => task'[c].run = RunOf(c)
      /\ runState[RunOf(c)] \in TerminalStates => runState'[RunOf(c)] = runState[RunOf(c)]
      /\ Fits(pc'[c], runState'[RunOf(c)]) /\ approval' = approval /\ mode = "up" /\ mode' = "up"
  BY <1>1 DEF DriverStep, DriverPcs, RunningPcs, GrantedPcs
<1>8. \A d \in Chains : pc[d] # "idle" => RunOf(d) \in Runs
  BY BusyChain DEF Typing, TypeOK, ReferencesExist, RunRows, ChainsOK
<1>9. OneRefresh'
  BY <1>4, <1>7 DEF OneRefresh, Quiet
<1>10. DecisionsFindEntry'
  <2> SUFFICES ASSUME NEW d \in Chains, pc'[d] = "decide", runState'[task'[d].run] = "WAITING_APPROVAL"
               PROVE  \/ pendingApprovals'[task'[d].call] # 0
                      \/ \E e \in Chains : pc'[e] = "gating" /\ task'[e].call = task'[d].call
    BY DEF DecisionsFindEntry, RunOf
  <2>1. d # c /\ pc[d] = "decide" /\ task'[d] = task[d] /\ RunOf(d) # RunOf(c)
        /\ runState[RunOf(d)] = "WAITING_APPROVAL"
    BY <1>3, <1>7, <1>8 DEF RunOf, TerminalStates
  <2>2. task[d].call \in Calls /\ callRun[task[d].call] = RunOf(d)
    BY <2>1 DEF Typing, ReferencesExist, ChainsHaveRuns, CallPcs, Discipline, CallsMatch
  <2> QED
    BY <1>3, <1>5, <1>7, <2>1, <2>2 DEF Tracked, DecisionsFindEntry
<1>11. PendingIsResumable'
  BY <1>3, <1>5, <1>7 DEF Tracked, PendingIsResumable
<1>12. RecoveryCloses'
  BY <1>7 DEF RecoveryCloses
<1>13. EntriesOwned'
  <2> SUFFICES ASSUME NEW r \in Runs
               PROVE  /\ activeRuns'[r] # "stopped"
                      /\ activeRuns'[r] = "live" =>
                           \/ \E d \in Chains : /\ pc'[d] # "idle" /\ task'[d].run = r
                                                /\ ~(pc'[d] = "decide" /\ runState'[r] \in TerminalStates)
                           \/ \E k \in Calls : callRun'[k] = r /\ pendingApprovals'[k] # 0
    BY DEF EntriesOwned, OnRun, RunOf
  <2>1. CASE r = RunOf(c)
    BY <1>2, <1>3, <1>7, <2>1 DEF DriverLeaves, Tracked, EntriesOwned
  <2>2. CASE r # RunOf(c)
    <3>1. activeRuns'[r] = activeRuns[r] /\ runState'[r] = runState[r]
      BY <1>2, <1>7, <2>2 DEF DriverLeaves
    <3>2. \A k \in Calls : callRun[k] = r /\ pendingApprovals[k] # 0 => callRun'[k] = r /\ pendingApprovals'[k] # 0
      BY <1>5, <1>6, <2>2 DEF Discipline, EntriesWait
    <3> QED
      BY <1>7, <2>2, <3>1, <3>2 DEF Tracked, EntriesOwned, OnRun, RunOf
  <2> QED
    BY <2>1, <2>2
<1>14. ASSUME ~synthesizes'
       PROVE  WaitingIsDecidable'
  <2> SUFFICES ASSUME NEW r \in Runs, runState'[r] = "WAITING_APPROVAL"
               PROVE  \/ \E k \in Calls : callRun'[k] = r /\ approval'[k] = "PENDING"
                      \/ \E d \in Chains : /\ pc'[d] # "idle" /\ task'[d].run = r
                                           /\ pc'[d] \in {"decide", "regate", "grantedTool", "decided"}
    BY DEF WaitingIsDecidable, OnRun, RunOf
  <2>1. CASE r = RunOf(c)
    BY <1>2, <1>7, <2>1 DEF DriverLeaves, Fits, DriverPcs, RunningPcs, GrantedPcs
  <2>2. CASE r # RunOf(c)
    BY <1>4, <1>6, <1>7, <1>14, <2>2 DEF Tracked, WaitingIsDecidable, OnRun, RunOf
  <2> QED
    BY <2>1, <2>2
<1> QED
  BY <1>9, <1>10, <1>11, <1>12, <1>13, <1>14 DEF Tracked

LEMMA TrackedStep ==
  ASSUME PendingOnly, MaxStops = 0, ~GitMayFail, MaxCrashes <= 1, Typing, GrantsCoverExecutions, Discipline,
         DecisionsStand, ChainsLive, mode = "recovering" => crashes # 0, Tracked, [Next]_vars
  PROVE  Tracked'
<1> USE DEF RunOf, At, Goto, Finish, SetRunState, calls, runs, rows, memory, session, restart, history, budget
<1>a. /\ pc \in [Chains -> Pcs] /\ task \in [Chains -> Tasks] /\ pendingApprovals \in [Calls -> Nat]
      /\ runState \in [Runs -> ActiveStates \cup TerminalStates \cup {"NONE"}]
      /\ callRun \in [Calls -> Runs \cup {0}] /\ activeRuns \in [Runs -> {"absent", "live", "stopped"}]
      /\ approval \in [Calls -> {"none", "PENDING", "APPROVED", "DENIED"}]
  BY DEF Typing, TypeOK, ChainsTyped, RunsTyped, CallsTyped
<1>b. \A d \in Chains : pc[d] # "idle" => RunOf(d) \in Runs
  BY BusyChain DEF Typing, TypeOK, ReferencesExist, RunRows, ChainsOK
<1>c. \A d \in Chains : Fits(pc[d], runState[RunOf(d)])
  BY DEF Discipline, StatesMatch
<1>d. \A d \in Chains : pc[d] \in CallPcs => task[d].call \in Calls /\ callRun[task[d].call] = RunOf(d)
  BY DEF Typing, ReferencesExist, ChainsHaveRuns, Discipline, CallsMatch
<1>e. /\ DecisionsFindEntry /\ PendingIsResumable /\ RecoveryCloses /\ EntriesOwned
      /\ ~synthesizes => WaitingIsDecidable
  BY DEF Tracked
<1>1. ASSUME NEW c \in Chains, DriverAction(c)
      PROVE  Tracked'
  BY <1>1, DriversTrack
<1>2. ASSUME NEW c \in Chains, Gate(c)
      PROVE  Tracked'
  <2> DEFINE k == task[c].call
  <2>1. /\ k \in Calls /\ callRun[k] = RunOf(c) /\ RunOf(c) \in Runs /\ runState[RunOf(c)] = "RUNNING"
        /\ \A d \in Chains : pc[d] # "idle" /\ RunOf(d) = RunOf(c) => d = c
    BY <1>b, <1>c, <1>d, <1>2, DriverRun DEF Gate, Fits, RunningPcs, CallPcs, DriverPcs, TerminalStates, Busy
  <2>2. /\ \A l \in Calls : l # k => approval'[l] = approval[l]
        /\ approval'[k] = "PENDING"
        /\ \A r \in Runs : runState'[r] = IF r = RunOf(c) THEN "WAITING_APPROVAL" ELSE runState[r]
        /\ UNCHANGED <<mode, pendingApprovals, callRun, activeRuns, task, synthesizes>> /\ mode = "up"
        /\ Quiet({c})
        /\ \A d \in Chains : d # c => pc'[d] = pc[d]
        /\ pc[c] = "request" /\ pc'[c] = "gating"
    BY <1>a, <1>2, <2>1 DEF Gate, Quiet
  <2> HIDE DEF k
  <2>3. OneRefresh'
    BY <2>2 DEF OneRefresh, Quiet
  <2>4. DecisionsFindEntry'
    BY <1>b, <1>e, <2>1, <2>2 DEF DecisionsFindEntry
  <2>5. PendingIsResumable'
    BY <1>e, <2>2 DEF k, PendingIsResumable
  <2>6. RecoveryCloses'
    BY <2>2 DEF RecoveryCloses
  <2>7. EntriesOwned'
    BY <1>b, <1>e, <2>1, <2>2 DEF EntriesOwned, OnRun, TerminalStates
  <2>8. ~synthesizes' => WaitingIsDecidable'
    BY <1>b, <1>e, <2>1, <2>2 DEF WaitingIsDecidable, OnRun
  <2> QED
    BY <2>3, <2>4, <2>5, <2>6, <2>7, <2>8 DEF Tracked
<1>3. ASSUME NEW c \in Chains, Gated(c)
      PROVE  Tracked'
  <2> DEFINE k == task[c].call
  <2>1. /\ k \in Calls /\ callRun[k] = RunOf(c) /\ RunOf(c) \in Runs
    BY <1>b, <1>d, <1>3 DEF Gated, CallPcs
  <2>2. /\ \A l \in Calls : l # k => pendingApprovals'[l] = pendingApprovals[l]
        /\ pendingApprovals'[k] # 0
        /\ UNCHANGED <<mode, approval, runState, callRun, activeRuns, synthesizes>> /\ mode = "up" /\ Quiet({c})
        /\ \A d \in Chains : d # c => pc'[d] = pc[d] /\ task'[d] = task[d]
        /\ pc[c] = "gating" /\ pc'[c] = "idle"
    <3>1. task[c].iter \in Nat
      BY <1>a DEF Tasks
    <3> QED
      BY <1>a, <1>3, <2>1, <3>1 DEF Gated, Quiet
  <2>3. OneRefresh'
    BY <2>2 DEF OneRefresh, Quiet
  <2>4. DecisionsFindEntry'
    BY <1>d, <1>e, <2>1, <2>2 DEF DecisionsFindEntry, CallPcs
  <2>5. PendingIsResumable'
    BY <1>e, <2>2 DEF PendingIsResumable
  <2>6. RecoveryCloses'
    BY <2>2 DEF RecoveryCloses
  <2>7. EntriesOwned'
    BY <1>e, <2>1, <2>2 DEF EntriesOwned, OnRun
  <2>8. ~synthesizes' => WaitingIsDecidable'
    BY <1>e, <2>2 DEF WaitingIsDecidable, OnRun
  <2> QED
    BY <2>3, <2>4, <2>5, <2>6, <2>7, <2>8 DEF Tracked
<1>4. ASSUME NEW c \in Chains, NEW k \in Calls, NEW v \in {"approve", "deny"}, Decide(c, k, v)
      PROVE  Tracked'
  <2>1. /\ approval[k] = "PENDING" /\ callRun[k] \in Runs /\ mode = "up" /\ pc[c] = "idle" /\ Quiet({})
        /\ approval'[k] # "PENDING" /\ \A l \in Calls : l # k => approval'[l] = approval[l]
        /\ UNCHANGED <<mode, runState, callRun, pendingApprovals, activeRuns, synthesizes>>
        /\ \A d \in Chains : d # c => pc'[d] = pc[d] /\ task'[d] = task[d]
        /\ pc'[c] = "decide" /\ task'[c].run = callRun[k] /\ task'[c].call = k
    BY <1>a, <1>4, SMTT(60) DEF Decide, Quiet, Typing, ReferencesExist, CallsHaveRuns, TaskOn, NoTask
  <2>2. OneRefresh'
    BY <2>1 DEF OneRefresh, Quiet
  <2>3. DecisionsFindEntry'
    BY <1>e, <2>1 DEF DecisionsFindEntry, PendingIsResumable
  <2>4. PendingIsResumable'
    BY <1>e, <2>1 DEF PendingIsResumable
  <2>5. RecoveryCloses'
    BY <2>1 DEF RecoveryCloses
  <2>6. EntriesOwned'
    BY <1>e, <2>1 DEF EntriesOwned, OnRun
  <2>7. ~synthesizes' => WaitingIsDecidable'
    BY <1>e, <2>1 DEF WaitingIsDecidable, OnRun
  <2> QED
    BY <2>2, <2>3, <2>4, <2>5, <2>6, <2>7 DEF Tracked
<1>5. ASSUME NEW c \in Chains, ResumeAfterApproval(c)
      PROVE  Tracked'
  <2> DEFINE k == task[c].call
  <2>1. /\ k \in Calls /\ callRun[k] = RunOf(c) /\ RunOf(c) \in Runs
        /\ runState[RunOf(c)] \in TerminalStates \cup {"WAITING_APPROVAL"}
        /\ runState[RunOf(c)] \in TerminalStates => pendingApprovals[k] = 0
    BY <1>b, <1>c, <1>d, <1>5 DEF ResumeAfterApproval, CallPcs, Fits, Discipline, CallsMatch
  <2>2. /\ pc[c] = "decide" /\ pc'[c] = IF pendingApprovals[k] = 0 THEN "idle" ELSE "regate"
        /\ pendingApprovals[k] # 0 => task'[c].run = RunOf(c) /\ task'[c].call = k
        /\ \A d \in Chains \ {c} : \/ pc'[d] = pc[d] /\ task'[d] = task[d]
                                   \/ pc[d] = "idle" /\ pc'[d] = "prepare" /\ task'[d].run \in Runs
        /\ \A r \in Runs : \/ activeRuns'[r] = activeRuns[r]
                           \/ /\ activeRuns'[r] = "live"
                              /\ \E d \in Chains \ {c} : pc'[d] = "prepare" /\ task'[d].run = r
        /\ UNCHANGED <<runState, mode, callRun, approval, pendingApprovals, synthesizes>>
        /\ mode = "up" /\ Quiet({c})
    <3>0. /\ pc[c] = "decide" /\ mode = "up" /\ Quiet({c})
          /\ UNCHANGED <<runState, mode, callRun, approval, pendingApprovals, synthesizes>>
      BY <1>5 DEF ResumeAfterApproval, Quiet
    <3>1. CASE /\ pc' = [pc EXCEPT ![c] = IF pendingApprovals[k] = 0 THEN "idle" ELSE "regate"]
               /\ task' = [task EXCEPT ![c] = IF pendingApprovals[k] = 0 THEN NoTask
                                              ELSE [@ EXCEPT !.iter = pendingApprovals[k]]]
               /\ UNCHANGED activeRuns
      BY <1>a, <3>0, <3>1, SMTT(60) DEF Tasks
    <3>2. ASSUME NEW q \in Runs, NEW d \in Chains \ {c}, pc[d] = "idle",
                 pc' = [pc EXCEPT ![c] = IF pendingApprovals[k] = 0 THEN "idle" ELSE "regate", ![d] = "prepare"],
                 task' = [task EXCEPT ![c] = IF pendingApprovals[k] = 0 THEN NoTask
                                             ELSE [@ EXCEPT !.iter = pendingApprovals[k]], ![d] = TaskOn(q)],
                 activeRuns' = [activeRuns EXCEPT ![q] = "live"]
          PROVE  /\ pc'[c] = IF pendingApprovals[k] = 0 THEN "idle" ELSE "regate"
                 /\ pendingApprovals[k] # 0 => task'[c].run = RunOf(c) /\ task'[c].call = k
                 /\ \A e \in Chains \ {c, d} : pc'[e] = pc[e] /\ task'[e] = task[e]
                 /\ pc'[d] = "prepare" /\ task'[d].run = q
                 /\ \A r \in Runs : r # q => activeRuns'[r] = activeRuns[r]
                 /\ activeRuns'[q] = "live"
      BY <1>a, <3>2, TaskOnType, SMTT(60) DEF Tasks
    <3>3. CASE \E q \in Runs, d \in Chains \ {c} :
                 /\ pc[d] = "idle"

                 /\ pc' = [pc EXCEPT ![c] = IF pendingApprovals[k] = 0 THEN "idle" ELSE "regate", ![d] = "prepare"]
                 /\ task' = [task EXCEPT ![c] = IF pendingApprovals[k] = 0 THEN NoTask
                                                ELSE [@ EXCEPT !.iter = pendingApprovals[k]], ![d] = TaskOn(q)]
                 /\ activeRuns' = [activeRuns EXCEPT ![q] = "live"]
      <4>1. PICK q \in Runs, d \in Chains \ {c} :
              /\ pc[d] = "idle"
              /\ pc' = [pc EXCEPT ![c] = IF pendingApprovals[k] = 0 THEN "idle" ELSE "regate", ![d] = "prepare"]
              /\ task' = [task EXCEPT ![c] = IF pendingApprovals[k] = 0 THEN NoTask
                                             ELSE [@ EXCEPT !.iter = pendingApprovals[k]], ![d] = TaskOn(q)]
              /\ activeRuns' = [activeRuns EXCEPT ![q] = "live"]
        BY <3>3
      <4>2. /\ pc'[c] = IF pendingApprovals[k] = 0 THEN "idle" ELSE "regate"
            /\ pendingApprovals[k] # 0 => task'[c].run = RunOf(c) /\ task'[c].call = k
            /\ \A e \in Chains \ {c, d} : pc'[e] = pc[e] /\ task'[e] = task[e]
            /\ pc'[d] = "prepare" /\ task'[d].run = q
            /\ \A r \in Runs : r # q => activeRuns'[r] = activeRuns[r]
            /\ activeRuns'[q] = "live"
        BY <3>2, <4>1
      <4> HIDE DEF k
      <4> QED
        BY <3>0, <4>1, <4>2
    <3> QED
      BY <1>5, <3>1, <3>3 DEF ResumeAfterApproval
  <2> HIDE DEF k
  \* An entry is missing only when the chain that writes it is on its way, which a
  \* process that refreshes in one go rules out.
  <2>3. ASSUME pendingApprovals[k] = 0, runState[RunOf(c)] = "WAITING_APPROVAL"
        PROVE  /\ synthesizes
               /\ \E d \in Chains \ {c} : pc[d] = "gating" /\ RunOf(d) = RunOf(c)
    <3>1. PICK d \in Chains : pc[d] = "gating" /\ task[d].call = k
      BY <1>e, <2>2, <2>3 DEF k, DecisionsFindEntry
    <3>2. d # c /\ RunOf(d) = RunOf(c)
      BY <1>d, <2>1, <2>2, <3>1 DEF CallPcs
    <3> QED
      BY <2>2, <3>1, <3>2 DEF Quiet, RefreshPcs
  <2>4. OneRefresh'
    BY <2>2 DEF OneRefresh, Quiet, RefreshPcs
  <2>5. DecisionsFindEntry'
    BY <1>b, <1>e, <2>2 DEF DecisionsFindEntry
  <2>6. PendingIsResumable'
    BY <1>e, <2>2 DEF PendingIsResumable
  <2>7. RecoveryCloses'
    BY <2>2 DEF RecoveryCloses
  <2>8. EntriesOwned'
    <3> SUFFICES ASSUME NEW r \in Runs
                 PROVE  /\ activeRuns'[r] # "stopped"
                        /\ activeRuns'[r] = "live" =>
                             \/ \E d \in Chains : /\ pc'[d] # "idle" /\ task'[d].run = r
                                                  /\ ~(pc'[d] = "decide" /\ runState'[r] \in TerminalStates)
                             \/ \E l \in Calls : callRun'[l] = r /\ pendingApprovals'[l] # 0
      BY DEF EntriesOwned, OnRun
    <3>1. CASE activeRuns'[r] # activeRuns[r]
      BY <2>2, <3>1
    <3>2. CASE activeRuns'[r] = activeRuns[r] /\ r = RunOf(c) /\ runState[r] = "WAITING_APPROVAL"
      BY <1>e, <2>1, <2>2, <2>3, <3>2 DEF EntriesOwned, TerminalStates
    <3>3. CASE activeRuns'[r] = activeRuns[r] /\ (r # RunOf(c) \/ runState[r] # "WAITING_APPROVAL")
      BY <1>e, <2>1, <2>2, <3>3 DEF EntriesOwned, OnRun
    <3> QED
      BY <2>1, <3>1, <3>2, <3>3
  <2>9. ~synthesizes' => WaitingIsDecidable'
    <3> SUFFICES ASSUME ~synthesizes, NEW r \in Runs, runState[r] = "WAITING_APPROVAL"
                 PROVE  \/ \E l \in Calls : callRun'[l] = r /\ approval'[l] = "PENDING"
                        \/ \E d \in Chains : /\ pc'[d] # "idle" /\ task'[d].run = r
                                             /\ pc'[d] \in {"decide", "regate", "grantedTool", "decided"}
      BY <2>2 DEF WaitingIsDecidable, OnRun
    <3>1. CASE r = RunOf(c)
      BY <2>2, <2>3, <3>1
    <3>2. CASE r # RunOf(c)
      BY <1>e, <2>2, <3>2 DEF WaitingIsDecidable, OnRun
    <3> QED
      BY <3>1, <3>2
  <2> QED
    BY <2>4, <2>5, <2>6, <2>7, <2>8, <2>9 DEF Tracked
<1>6. ASSUME NEW c \in Chains, NEW q \in Runs, CompletedResuming(c, q)
      PROVE  Tracked'
  <2>1. /\ RunOf(c) \in Runs /\ runState[RunOf(c)] = "COMPLETED" /\ q # RunOf(c) /\ runState[q] = "QUEUED"
        /\ \A d \in Chains : d # c /\ pc[d] # "idle" /\ RunOf(d) = RunOf(c) => pc[d] = "decide"
    BY <1>c, <1>6, DriverRun DEF CompletedResuming, ResumeQueued, Fits, Busy, DriverPcs
  <2>2. /\ pc[c] = "complete" /\ pc'[c] = "prepare" /\ task'[c].run = q
        /\ \A d \in Chains : d # c => pc'[d] = pc[d] /\ task'[d] = task[d]
        /\ UNCHANGED <<runState, mode, callRun, approval, pendingApprovals, synthesizes>>
        /\ mode = "up" /\ Quiet({c})
    BY <1>a, <1>6, TaskOnType DEF CompletedResuming, Quiet
  <2>3. \A r \in Runs : activeRuns'[r] = IF r = RunOf(c) THEN "absent" ELSE IF r = q THEN "live" ELSE activeRuns[r]
    BY <1>a, <1>6, <2>1 DEF CompletedResuming
  <2>4. OneRefresh'
    BY <2>2 DEF OneRefresh, Quiet, RefreshPcs
  <2>5. DecisionsFindEntry' /\ PendingIsResumable' /\ RecoveryCloses'
    BY <1>e, <2>2 DEF DecisionsFindEntry, PendingIsResumable, RecoveryCloses
  <2>6. EntriesOwned'
    BY <1>e, <2>1, <2>2, <2>3 DEF EntriesOwned, OnRun
  <2>7. ~synthesizes' => WaitingIsDecidable'
    BY <1>e, <2>2 DEF WaitingIsDecidable, OnRun
  <2> QED
    BY <2>4, <2>5, <2>6, <2>7 DEF Tracked
<1>7. ASSUME NEW c \in Chains, NEW q \in Runs, AssignHandoff(c, q)
      PROVE  Tracked'
  <2>1. /\ pc[c] = "idle" /\ pc'[c] = "prepare" /\ task'[c].run = q
        /\ \A d \in Chains : d # c => pc'[d] = pc[d] /\ task'[d] = task[d]
        /\ UNCHANGED <<runState, mode, callRun, approval, pendingApprovals, synthesizes>>
        /\ mode = "up" /\ Quiet({})
    BY <1>a, <1>7, TaskOnType DEF AssignHandoff, Quiet
  <2>2. \A r \in Runs : activeRuns'[r] = IF r = q THEN "live" ELSE activeRuns[r]
    BY <1>a, <1>7 DEF AssignHandoff
  <2>3. OneRefresh'
    BY <2>1 DEF OneRefresh, Quiet, RefreshPcs
  <2>4. DecisionsFindEntry' /\ PendingIsResumable' /\ RecoveryCloses'
    BY <1>e, <2>1 DEF DecisionsFindEntry, PendingIsResumable, RecoveryCloses
  <2>5. EntriesOwned'
    BY <1>e, <2>1, <2>2 DEF EntriesOwned, OnRun
  <2>6. ~synthesizes' => WaitingIsDecidable'
    BY <1>e, <2>1 DEF WaitingIsDecidable, OnRun
  <2> QED
    BY <2>3, <2>4, <2>5, <2>6 DEF Tracked
<1>8. ASSUME NEW c \in Chains, NEW a \in Agents, StartRun(c, a)
      PROVE  Tracked'
  <2> DEFINE r == created + 1
  <2>1. /\ r \in Runs
        /\ \A d \in Chains : pc[d] # "idle" => RunOf(d) # r
        /\ \A k \in Calls : callRun[k] # r
    BY <1>8, BusyChain, NatBounds, SMTT(60) DEF StartRun, Typing, TypeOK, RunsTyped, CallsTyped, Runs,
       ReferencesExist,
       RunRows, ChainsOK, CallsHaveRuns
  <2>2. /\ pc[c] = "idle" /\ pc'[c] = "gate" /\ task'[c].run = r
        /\ \A d \in Chains : d # c => pc'[d] = pc[d] /\ task'[d] = task[d]
        /\ UNCHANGED <<mode, callRun, approval, pendingApprovals, synthesizes>>
        /\ mode = "up" /\ Quiet({})
    BY <1>a, <1>8, <2>1, TaskOnType DEF StartRun, Quiet
  <2>3. \A q \in Runs : /\ activeRuns'[q] = IF q = r THEN "live" ELSE activeRuns[q]
                        /\ runState'[q] = IF q = r THEN "CREATED" ELSE runState[q]
    BY <1>a, <1>8, <2>1 DEF StartRun
  <2> HIDE DEF r
  <2>4. OneRefresh'
    BY <2>2 DEF OneRefresh, Quiet
  <2>5. DecisionsFindEntry' /\ PendingIsResumable' /\ RecoveryCloses'
    BY <1>b, <1>e, <2>1, <2>2, <2>3 DEF DecisionsFindEntry, PendingIsResumable, RecoveryCloses
  <2>6. EntriesOwned'
    BY <1>e, <2>2, <2>3 DEF EntriesOwned, OnRun
  <2>7. ~synthesizes' => WaitingIsDecidable'
    BY <1>e, <2>2, <2>3 DEF WaitingIsDecidable, OnRun
  <2> QED
    BY <2>4, <2>5, <2>6, <2>7 DEF Tracked
<1>9. ASSUME NEW a \in Agents, RecoverRun(a)
      PROVE  Tracked'
  <2>1. /\ mode = "recovering" /\ UNCHANGED <<mode, pc, task, pendingApprovals, callRun, approval, activeRuns>>
        /\ \/ UNCHANGED <<runState, errored>>
           \/ \E r \in Runs : runState' = [runState EXCEPT ![r] = "ERROR"] /\ errored' = errored \cup {r}
    BY <1>9 DEF RecoverRun
  <2>2. \A c \in Chains : pc[c] = "idle"
    BY <2>1 DEF Discipline, RecoveryRests
  <2>3. OneRefresh' /\ DecisionsFindEntry' /\ PendingIsResumable' /\ WaitingIsDecidable'
    BY <2>1, <2>2 DEF OneRefresh, DecisionsFindEntry, PendingIsResumable, WaitingIsDecidable
  <2>4. RecoveryCloses'
    <3>1. CASE UNCHANGED <<runState, errored>>
      BY <1>e, <2>1, <3>1 DEF RecoveryCloses
    <3>2. ASSUME NEW r \in Runs, runState' = [runState EXCEPT ![r] = "ERROR"], errored' = errored \cup {r}
          PROVE  RecoveryCloses'
      BY <1>a, <1>e, <2>1, <3>2 DEF RecoveryCloses
    <3> QED
      BY <2>1, <3>1, <3>2
  <2>5. EntriesOwned'
    BY <1>e, <2>1, <2>2 DEF EntriesOwned, OnRun
  <2> QED
    BY <2>3, <2>4, <2>5 DEF Tracked
<1>10. ASSUME RecoverApprovals
       PROVE  Tracked'
  <2>1. /\ mode = "recovering" /\ mode' = "up"
        /\ UNCHANGED <<pc, task, pendingApprovals, callRun, runState, activeRuns>>
        /\ \A c \in Chains : pc[c] = "idle"
        /\ \A r \in Runs : runState[r] \notin ActiveStates
    BY <1>10 DEF RecoverApprovals, Discipline, RecoveryRests
  <2>2. \A k \in Calls : approval'[k] # "PENDING"
    <3>1. \A k \in Calls : approval[k] = "PENDING" => callRun[k] \in errored
      BY <1>a, <1>e, <2>1 DEF RecoveryCloses, ActiveStates, Typing, ReferencesExist, CallsHaveRuns
    <3> QED
      BY <1>10, <3>1 DEF RecoverApprovals
  <2>3. OneRefresh' /\ DecisionsFindEntry' /\ PendingIsResumable' /\ RecoveryCloses'
    BY <2>1, <2>2 DEF OneRefresh, DecisionsFindEntry, PendingIsResumable, RecoveryCloses, RefreshPcs
  <2>4. EntriesOwned'
    BY <1>e, <2>1 DEF EntriesOwned, OnRun
  <2>5. WaitingIsDecidable'
    BY <2>1 DEF WaitingIsDecidable, ActiveStates
  <2> QED
    BY <2>3, <2>4, <2>5 DEF Tracked
<1>11. ASSUME Crash
       PROVE  Tracked'
  <2>1. /\ mode' = "recovering" /\ UNCHANGED <<callRun, approval, runState>>
        /\ \A c \in Chains : pc'[c] = "idle"
        /\ \A r \in Runs : activeRuns'[r] = "absent"
    BY <1>11 DEF Crash
  <2>2. mode = "up"
    BY <1>11, NatBounds, SMTT(60) DEF Crash, Typing, TypeOK, ProcessTyped
  <2>3. RecoveryCloses'
    BY <1>c, <1>d, <1>e, <2>1, <2>2 DEF RecoveryCloses, PendingIsResumable, Discipline, EntriesWait, Fits, CallPcs
  <2>4. OneRefresh' /\ DecisionsFindEntry' /\ PendingIsResumable' /\ WaitingIsDecidable' /\ EntriesOwned'
    BY <2>1 DEF OneRefresh, DecisionsFindEntry, PendingIsResumable, WaitingIsDecidable, EntriesOwned
  <2> QED
    BY <2>3, <2>4 DEF Tracked
<1>12. ASSUME UNCHANGED vars
       PROVE  Tracked'
  <2>1. UNCHANGED <<pc, task, mode, synthesizes, runState, activeRuns, callRun, approval, pendingApprovals, errored>>
    BY <1>12 DEF vars
  <2> QED
    BY <2>1 DEF Tracked, OneRefresh, DecisionsFindEntry, PendingIsResumable, RecoveryCloses, EntriesOwned,
       WaitingIsDecidable, OnRun
<1> HIDE DEF RunOf, At, Goto, Finish, SetRunState
<1> QED
  BY <1>1, <1>2, <1>3, <1>4, <1>5, <1>6, <1>7, <1>8, <1>9, <1>10, <1>11, <1>12, StepCases

LEMMA TrackedInit == Init => Tracked
BY DEF Init, Tracked, OneRefresh, DecisionsFindEntry, PendingIsResumable, RecoveryCloses, EntriesOwned,
   WaitingIsDecidable, RefreshPcs

\* As long as git does not fail and the process crashes at most once, its maps agree
\* with the tables: every PENDING approval can be acted on, no run waits for nothing,
\* and nothing leaks from activeRuns.
THEOREM MapsStayTrue ==
  ASSUME PendingOnly, MaxStops = 0, ~Batches, ~GitMayFail, MaxCrashes <= 1
  PROVE  Spec => []MapsAgree
<1> DEFINE IInv == Typing /\ GrantsCoverExecutions /\ Discipline /\ DecisionsStand /\ WorkedOff
<1>1. Init => IInv /\ Tracked
  BY TypingInit, GrantsInit, DisciplineInit, LifecycleInit, WorkedOffInit, TrackedInit
<1>2. IInv /\ [Next]_vars => IInv'
  BY TypingStep, GrantsStep, DisciplineStep, DecisionsStep, WorkedOffStep
<1>3. IInv /\ Tracked /\ [Next]_vars => Tracked'
  BY TrackedStep DEF WorkedOff
<1>4. IInv /\ Tracked => MapsAgree
  <2> SUFFICES ASSUME Typing, Tracked, ~synthesizes
               PROVE  PendingIsResumable /\ WaitingIsDecidable /\ ActiveRunIsOwned
    BY DEF MapsAgree
  <2>1. ActiveRunIsOwned
    BY DEF Typing, TypeOK, RunsTyped, Tracked, EntriesOwned, ActiveRunIsOwned
  <2> QED
    BY <2>1 DEF Tracked
<1> QED
  BY <1>1, <1>2, <1>3, <1>4, PTL DEF Spec
=============================================================================
