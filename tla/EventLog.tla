------------------------------ MODULE EventLog -------------------------------
(***************************************************************************)
(* The event log of the control plane (lib/events/service.ts) on the one    *)
(* SQLite connection of the process (lib/database.ts), and the bus that     *)
(* announces events to the websockets (lib/events/bus.ts).                  *)
(*                                                                         *)
(* The database calls are synchronous but wrapped in async functions, so    *)
(* every await of one gives the other promise chains OF THE SAME MACROTASK  *)
(* a turn, in the order of the microtask queue; no new macrotask (request,  *)
(* timer, socket) starts before that queue is empty.  A macrotask starts    *)
(* one chain; a second one appears when a chain is not awaited (the run     *)
(* started by spawn_agent) or by Promise.all (the events of a batch of tool *)
(* calls).  MaxFork bounds how many share a macrotask.                      *)
(*                                                                         *)
(* `ready' is the microtask queue.  An action is one turn of the chain at    *)
(* its head: what it does until its next await.                             *)
(*                                                                         *)
(* Left out: event payloads and types (the side effect of an event is that  *)
(* the row of its agent shows it), and the rows of other tables, which are  *)
(* `notes': anything a chain writes outside a transaction.                  *)
(***************************************************************************)
EXTENDS Naturals, Sequences, FiniteSets

CONSTANTS
  Agents, Chains,
  NoChain,
  MaxFork,         \* chains of one macrotask
  MayFail,         \* may events be malformed and agents be deleted?
  MaxEvents, MaxNotes, MaxClock, MaxCrashes, \* bounds of the environment
  Page             \* limit of a reader's page

ASSUME EventLogAssumption ==
  /\ IsFiniteSet(Chains) /\ NoChain \notin Chains
  /\ {MaxFork, MaxEvents, MaxNotes, MaxClock, MaxCrashes} \subseteq Nat /\ Page \in Nat \ {0}
  /\ MayFail \in BOOLEAN

VARIABLES
  log,       \* the agent_events rows of each agent: records of seq and ts
  shown,     \* seq of the event the row of each agent shows
  notes,     \* other rows
  agents,    \* the agent_sessions rows that exist
  owner,     \* the chain whose transaction is open
  before,    \* what a rollback restores
  ready,     \* the microtask queue
  pc, event, \* the await each chain is suspended at, the event it appends
  announced, \* seq of the last event published to the bus
  kept,      \* history: rows whose writer was told they are written
  clock, tries, crashes, \* time in ms, events appended or tried, crashes
  page       \* what a reader that pages through the log of an agent got

rows  == <<log, shown, notes, agents>>
txn   == <<owner, before>>
sched == <<ready, pc>>
vars  == <<rows, txn, sched, event, announced, kept, clock, tries, crashes, page>>

Pcs == {"idle", "awake", "selected", "insert", "malformed", "inserted", "effects", "touched",
        "returned", "commit", "abort", "publish"}
Rows == [log : [Agents -> SUBSET [seq : 1..MaxEvents, ts : 0..MaxClock]],
         shown : [Agents -> 0..MaxEvents], notes : SUBSET (1..MaxNotes), agents : SUBSET Agents]
NoEvent == [agent |-> CHOOSE a \in Agents : TRUE, seq |-> 0, ts |-> 0]

TypeOK ==
  /\ [log |-> log, shown |-> shown, notes |-> notes, agents |-> agents] \in Rows
  /\ owner \in Chains \cup {NoChain} /\ before \in Rows
  /\ ready \in Seq(Chains) /\ pc \in [Chains -> Pcs]
  /\ event \in [Chains -> [agent : Agents, seq : 0..MaxEvents, ts : 0..MaxClock]]
  /\ announced \in [Agents -> 0..MaxEvents]
  /\ kept \subseteq 1..MaxNotes
  /\ clock \in 0..MaxClock /\ tries \in 0..MaxEvents /\ crashes \in 0..MaxCrashes
  /\ page \in [Agents -> SUBSET (1..MaxEvents)]

Seqs(rowsOf) == {e.seq : e \in rowsOf}
Greatest(S) == IF S = {} THEN 0 ELSE CHOOSE m \in S : \A s \in S : s <= m
MaxSeq(rowsOf) == Greatest(Seqs(rowsOf))

Tables == [log |-> log, shown |-> shown, notes |-> notes, agents |-> agents]
Restore(t) == log' = t.log /\ shown' = t.shown /\ notes' = t.notes /\ agents' = t.agents

Init ==
  /\ log = [a \in Agents |-> {}] /\ shown = [a \in Agents |-> 0] /\ notes = {} /\ agents = Agents
  /\ owner = NoChain /\ before = Tables
  /\ ready = <<>> /\ pc = [c \in Chains |-> "idle"] /\ event = [c \in Chains |-> NoEvent]
  /\ announced = [a \in Agents |-> 0]
  /\ kept = {}
  /\ clock = 0 /\ tries = 0 /\ crashes = 0
  /\ page = [a \in Agents |-> {}]

-----------------------------------------------------------------------------
(* The event loop                                                           *)

At(c, p) == ready # <<>> /\ Head(ready) = c /\ pc[c] = p
\* The chain awaits a promise that is already settled: it goes to the end.
Await(c, p) == ready' = Append(Tail(ready), c) /\ pc' = [pc EXCEPT ![c] = p]
Goto(c, p, q) == At(c, p) /\ Await(c, q)

\* A macrotask: a request, a timer or a socket wakes the chains of S.
Wake(S) ==
  /\ ready = <<>> /\ Cardinality(S) \in 1..MaxFork
  /\ ready' \in {s \in [1..Cardinality(S) -> S] : \A c \in S : \E i \in DOMAIN s : s[i] = c}
  /\ pc' = [c \in Chains |-> IF c \in S THEN "awake" ELSE pc[c]]
  /\ clock' \in clock..MaxClock
  /\ UNCHANGED <<rows, txn, event, announced, kept, tries, crashes, page>>

\* The chain ends, or waits for something outside.
Rest(c) ==
  /\ At(c, "awake")
  /\ ready' = Tail(ready) /\ pc' = [pc EXCEPT ![c] = "idle"]
  /\ UNCHANGED <<rows, txn, event, announced, kept, clock, tries, crashes, page>>

-----------------------------------------------------------------------------
(* EventService.append                                                      *)

\* Fault: the numbers come from one counter of the process.
Begin_Counter(c, a) ==
  /\ At(c, "awake") /\ owner = NoChain /\ tries < MaxEvents /\ tries' = tries + 1
  /\ owner' = c /\ before' = Tables
  /\ event' = [event EXCEPT ![c] = [agent |-> a, seq |-> tries + 1, ts |-> clock]]
  /\ Await(c, "selected")
  /\ UNCHANGED <<rows, announced, kept, clock, crashes, page>>

\* "begin immediate" and the select of the next number, without an await in between.
Begin(c, a) ==
  /\ At(c, "awake") /\ owner = NoChain /\ tries < MaxEvents /\ tries' = tries + 1
  /\ owner' = c /\ before' = Tables
  /\ event' = [event EXCEPT ![c] = [agent |-> a, seq |-> MaxSeq(log[a]) + 1, ts |-> clock]]
  /\ Await(c, "selected")
  /\ UNCHANGED <<rows, announced, kept, clock, crashes, page>>

\* SQLite refuses a transaction within a transaction.  That is thrown before
\* the try block: nothing is rolled back, the caller gets the error.
Refused(c) ==
  /\ At(c, "awake") /\ owner # NoChain /\ tries < MaxEvents /\ tries' = tries + 1
  /\ Await(c, "awake")
  /\ UNCHANGED <<rows, txn, event, announced, kept, clock, crashes, page>>

\* getNextSequence returns.
Selected(c) ==
  /\ Goto(c, "selected", "insert")
  /\ UNCHANGED <<rows, txn, event, announced, kept, clock, tries, crashes, page>>

\* Fault: the promise of a failed insert is never settled.
InsertFails_Hangs(c) ==
  /\ \/ MayFail /\ At(c, "insert") /\ ready' = Tail(ready) /\ UNCHANGED pc
     \/ Goto(c, "malformed", "abort")
  /\ UNCHANGED <<rows, txn, event, announced, kept, clock, tries, crashes, page>>

\* createAgentEvent refuses the event, or the insert violates a foreign key.
InsertFails(c) ==
  /\ \/ MayFail /\ Goto(c, "insert", "abort")
     \/ event[c].agent \notin agents /\ Goto(c, "insert", "malformed")
     \/ Goto(c, "malformed", "abort")
  /\ UNCHANGED <<rows, txn, event, announced, kept, clock, tries, crashes, page>>

Insert(c) ==
  LET e == event[c] IN
  /\ e.agent \in agents
  /\ Goto(c, "insert", "inserted")
  /\ log' = [log EXCEPT ![e.agent] = @ \cup {[seq |-> e.seq, ts |-> e.ts]}]
  /\ UNCHANGED <<shown, notes, agents, txn, event, announced, kept, clock, tries, crashes, page>>

\* Fault: the side effects are left to after the commit.
ApplySideEffects_Late(c) ==
  /\ \/ Goto(c, "inserted", "effects") /\ UNCHANGED shown
     \/ Goto(c, "effects", "touched") /\ UNCHANGED shown
     \/ Goto(c, "touched", "returned") /\ UNCHANGED shown
  /\ UNCHANGED <<log, notes, agents, txn, event, announced, kept, clock, tries, crashes, page>>

\* applySideEffects: the update of the agent's row, and the returns from it.
ApplySideEffects(c) ==
  /\ \/ Goto(c, "inserted", "effects") /\ shown' = [shown EXCEPT ![event[c].agent] = event[c].seq]
     \/ Goto(c, "effects", "touched") /\ UNCHANGED shown
     \/ Goto(c, "touched", "returned") /\ UNCHANGED shown
  /\ UNCHANGED <<log, notes, agents, txn, event, announced, kept, clock, tries, crashes, page>>

\* Fault: the event is published before the transaction has committed.
Returned_Publishes(c) ==
  /\ Goto(c, "returned", "commit")
  /\ announced' = [announced EXCEPT ![event[c].agent] = event[c].seq]
  /\ UNCHANGED <<rows, txn, event, kept, clock, tries, crashes, page>>

\* The operation returns to the transaction.
Returned(c) ==
  /\ Goto(c, "returned", "commit")
  /\ UNCHANGED <<rows, txn, event, announced, kept, clock, tries, crashes, page>>

\* Fault: success does not commit.
Commit_Forgotten(c) ==
  /\ Goto(c, "commit", "publish")
  /\ UNCHANGED <<rows, txn, event, announced, kept, clock, tries, crashes, page>>

Commit(c) ==
  /\ Goto(c, "commit", "publish")
  /\ owner' = NoChain /\ UNCHANGED before
  /\ UNCHANGED <<rows, event, announced, kept, clock, tries, crashes, page>>

Rollback(c) ==
  /\ Goto(c, "abort", "awake")
  /\ Restore(before)
  /\ owner' = NoChain /\ UNCHANGED before
  /\ UNCHANGED <<event, announced, kept, clock, tries, crashes, page>>

Publish(c) ==
  /\ Goto(c, "publish", "awake")
  /\ announced' = [announced EXCEPT ![event[c].agent] = event[c].seq]
  /\ UNCHANGED <<rows, txn, event, kept, clock, tries, crashes, page>>

-----------------------------------------------------------------------------
(* What else chains do with the connection                                  *)

\* Any statement outside a transaction: its writer goes on as if it was kept.
Write(c, n) ==
  /\ At(c, "awake") /\ n \notin notes \cup kept
  /\ Await(c, "awake")
  /\ notes' = notes \cup {n} /\ kept' = kept \cup {n}
  /\ UNCHANGED <<log, shown, agents, txn, event, announced, clock, tries, crashes, page>>

\* listAgentEvents: a client asks for the page after the last number it has.
\* Its request is alone in its macrotask.
ListAgentEvents(c, a) ==
  /\ At(c, "awake") /\ Len(ready) = 1 /\ Await(c, "awake")
  /\ LET after == {s \in Seqs(log[a]) : s > Greatest(page[a])} IN
       page' = [page EXCEPT ![a] = @ \cup {s \in after : Cardinality({q \in after : q < s}) < Page}]
  /\ UNCHANGED <<rows, txn, event, announced, kept, clock, tries, crashes>>

\* DELETE /workspaces/:id and its cascades, also alone; the sessions of the agents go on.
DeleteAgent(c, a) ==
  /\ At(c, "awake") /\ Len(ready) = 1 /\ MayFail
  /\ Await(c, "awake")
  /\ agents' = agents \ {a} /\ log' = [log EXCEPT ![a] = {}] /\ shown' = [shown EXCEPT ![a] = 0]
  /\ page' = [page EXCEPT ![a] = {}]
  /\ UNCHANGED <<notes, txn, event, announced, kept, clock, tries, crashes>>

\* The open transaction is undone when the database is opened again.
Crash ==
  /\ crashes < MaxCrashes /\ crashes' = crashes + 1
  /\ IF owner = NoChain THEN UNCHANGED rows ELSE Restore(before)
  /\ owner' = NoChain /\ before' = before
  /\ ready' = <<>> /\ pc' = [c \in Chains |-> "idle"] /\ event' = [c \in Chains |-> NoEvent]
  /\ announced' = [a \in Agents |-> MaxSeq(log'[a])]
  /\ page' = [a \in Agents |-> {}]
  /\ UNCHANGED <<kept, clock, tries>>

Turn(c) ==
  \/ \E a \in Agents : Begin(c, a) \/ ListAgentEvents(c, a) \/ DeleteAgent(c, a)
  \/ Refused(c) \/ Selected(c) \/ InsertFails(c) \/ Insert(c) \/ ApplySideEffects(c) \/ Returned(c)
  \/ Commit(c) \/ Rollback(c) \/ Publish(c)
  \/ \E n \in 1..MaxNotes : Write(c, n)
  \/ Rest(c)

Next == (\E c \in Chains : Turn(c)) \/ (\E S \in SUBSET Chains : Wake(S)) \/ Crash

Spec == Init /\ [][Next]_vars

\* The event loop takes every microtask.
FairSpec == Spec /\ \A c \in Chains : WF_vars(Turn(c))

-----------------------------------------------------------------------------
(* Properties                                                               *)

\* What is committed: an open transaction does not count.
Committed(a) == IF owner = NoChain THEN log[a] ELSE before.log[a]

Feed == INSTANCE EventFeed WITH
          stored <- [a \in Agents |-> MaxSeq(Committed(a))],
          agents <- IF owner = NoChain THEN agents ELSE before.agents

\* Sequence numbers are 1, 2, 3, ... for each agent, without a gap and without a
\* number given twice, inside a transaction and after a failed one (getNextSequence).
Gapless ==
  \A a \in Agents :
    /\ Seqs(log[a]) = 1..MaxSeq(log[a])
    /\ \A e, f \in log[a] : e.seq = f.seq => e = f

\* An event is announced once, after it is committed, and in the order of its number
\* (append publishes after the transaction; EVT-001).
FeedPromise == Feed!Spec

\* The row of an agent shows its latest event: an event and its side effect are
\* kept or undone together (applySideEffects runs inside the transaction).
RowShowsLatestEvent ==
  owner = NoChain => \A a \in Agents : shown[a] = MaxSeq(log[a])

\* A row is never lost once its writer was told that it is written: no rollback
\* undoes the statements of another chain.
AcknowledgedRowsStay == kept \subseteq notes

\* The transaction that is open belongs to a chain that is about to end it, so
\* begin is refused only while another event is appended in the same macrotask.
TransactionIsOwned ==
  /\ owner # NoChain => pc[owner] \in Pcs \ {"idle", "awake", "publish"}
  /\ ready = <<>> => owner = NoChain

\* Reading page after page with the last number as the cursor skips nothing
\* (listAgentEvents; "complete across page boundaries").
PagesAreComplete ==
  \A a \in Agents : \A s \in page[a] : 1..s \subseteq page[a]

\* The order in which listWorkspaceEvents returns the events of an agent is that
\* of their numbers: it sorts by ts and then by the random id.
WorkspaceOrder ==
  \A a \in Agents : \A e, f \in log[a] : e.seq < f.seq => e.ts < f.ts

\* An open transaction ends, and every event that was begun is over, whatever fails.
TransactionsEnd == \A c \in Chains : owner = c ~> owner # c
=============================================================================
