-------------------------- MODULE EventLog_proofs ---------------------------
(***************************************************************************)
(* Theorems about EventLog, for any agents and chains, any number of them  *)
(* in a macrotask, and with or without failures: the numbers of events are *)
(* gapless, the row of an agent shows its latest event, a transaction is   *)
(* owned, and the log implements EventFeed.                                *)
(*                                                                         *)
(* The argument.  An open transaction belongs to one chain (TxnOK), whose  *)
(* place in its code says what it has written since it began (WriterOK),   *)
(* so what is committed is always a gapless log (CommittedOK).  A chain    *)
(* that has committed publishes at its next turn, and whoever begins in    *)
(* between stands behind it in the microtask queue (PublisherOK): so no    *)
(* second event is committed before the first is announced.                *)
(*                                                                         *)
(* Rows of other writers stay only where no two chains share a macrotask   *)
(* (MaxFork <= 1): then nobody writes while a transaction that may be      *)
(* rolled back is open.                                                    *)
(***************************************************************************)
EXTENDS EventLog, TLAPS, FiniteSetTheorems

LEMMA Bounds ==
  /\ MaxFork \in Nat /\ MaxEvents \in Nat /\ MaxNotes \in Nat /\ MaxClock \in Nat /\ MaxCrashes \in Nat
  /\ Page \in Nat \ {0} /\ IsFiniteSet(Chains) /\ NoChain \notin Chains
BY EventLogAssumption

-----------------------------------------------------------------------------
(* Logs                                                                     *)

Events == [seq : Nat, ts : Nat]
Good(R) ==
  /\ R \subseteq Events /\ MaxSeq(R) \in Nat /\ Seqs(R) = 1..MaxSeq(R)
  /\ \A e, f \in R : e.seq = f.seq => e = f

LEMMA GreatestOfInterval == ASSUME NEW n \in Nat PROVE Greatest(1..n) = n
<1>1. CASE n = 0
  BY <1>1 DEF Greatest
<1>2. CASE n > 0
  <2>1. 1..n # {} /\ n \in 1..n /\ \A s \in 1..n : s <= n
    BY <1>2
  <2>2. \A m \in 1..n : (\A s \in 1..n : s <= m) => m = n
    BY <2>1
  <2> DEFINE g == CHOOSE m \in 1..n : \A s \in 1..n : s <= m
  <2>3. g \in 1..n /\ \A s \in 1..n : s <= g
    BY <2>1
  <2> QED
    BY <2>1, <2>2, <2>3 DEF Greatest
<1> QED
  BY <1>1, <1>2

LEMMA EmptyIsGood == Good({}) /\ MaxSeq({}) = 0
<1>1. Seqs({}) = {} /\ Greatest({}) = 0
  BY DEF Seqs, Greatest
<1> QED
  BY <1>1 DEF Good, MaxSeq

LEMMA NextIsGood ==
  ASSUME NEW R, Good(R), NEW t \in Nat
  PROVE  LET N == R \cup {[seq |-> MaxSeq(R) + 1, ts |-> t]}
         IN Good(N) /\ MaxSeq(N) = MaxSeq(R) + 1
<1> DEFINE n == MaxSeq(R)
           new == [seq |-> n + 1, ts |-> t]
           N == R \cup {new}
<1>1. n \in Nat /\ Seqs(R) = 1..n /\ R \subseteq Events
  BY DEF Good
<1>2. new \in Events /\ new.seq = n + 1
  BY <1>1 DEF Events
<1>3. Seqs(N) = Seqs(R) \cup {n + 1}
  BY <1>2 DEF Seqs
<1>4. Seqs(N) = 1..(n + 1)
  <2>1. \A x : x \in 1..(n + 1) <=> x \in 1..n \/ x = n + 1
    BY <1>1
  <2> QED
    BY <1>1, <1>3, <2>1
<1>5. MaxSeq(N) = n + 1
  BY <1>1, <1>4, GreatestOfInterval DEF MaxSeq
<1>6. \A e \in R : e.seq # n + 1
  BY <1>1 DEF Seqs
<1>7. \A e, f \in N : e.seq = f.seq => e = f
  BY <1>2, <1>6 DEF Good
<1> QED
  BY <1>1, <1>2, <1>4, <1>5, <1>7 DEF Good
-----------------------------------------------------------------------------
(* The microtask queue                                                      *)

Queued(q, c) == \E i \in 1..Len(q) : q[i] = c
Before(q, c, d) == \E i, j \in 1..Len(q) : i < j /\ q[i] = c /\ q[j] = d
NoneTwice(q) == \A i, j \in 1..Len(q) : q[i] = q[j] => i = j

QueueOK ==
  /\ ready \in Seq(Chains) /\ NoneTwice(ready)
  /\ pc \in [Chains -> Pcs]
  /\ \A c \in Chains : pc[c] # "idle" => Queued(ready, c)

LEMMA Requeued ==
  ASSUME NEW S, NEW q \in Seq(S), q # <<>>, NEW c \in S, c = Head(q)
  PROVE  LET r == Append(Tail(q), c) IN
         /\ r \in Seq(S) /\ Len(r) = Len(q) /\ r[Len(q)] = c
         /\ \A i \in 1..Len(q) : i < Len(q) => r[i] = q[i + 1]
<1> DEFINE t == Tail(q)
           r == Append(t, c)
<1>1. t \in Seq(S) /\ Len(t) = Len(q) - 1 /\ Len(q) \in Nat \ {0}
  OBVIOUS
<1>2. \A i \in 1..Len(t) : t[i] = q[i + 1]
  OBVIOUS
<1> HIDE DEF t
<1>3. r \in Seq(S) /\ Len(r) = Len(t) + 1 /\ r[Len(t) + 1] = c
  BY <1>1
<1>4. \A i \in 1..Len(t) : r[i] = t[i]
  BY <1>1
<1> HIDE DEF r
<1>5. \A i \in 1..Len(q) : i < Len(q) => r[i] = q[i + 1]
  BY <1>1, <1>2, <1>4
<1>6. r \in Seq(S) /\ Len(r) = Len(q) /\ r[Len(q)] = c
  BY <1>1, <1>3
<1> QED
  BY <1>5, <1>6, Zenon DEF r, t

(* The chain at the head goes to the end: it is behind every other, and the *)
(* others keep their order.                                                 *)
LEMMA AwaitQueue ==
  ASSUME ready \in Seq(Chains), NoneTwice(ready), NEW c \in Chains, NEW p, At(c, p), NEW q, Await(c, q)
  PROVE  /\ ready' \in Seq(Chains) /\ NoneTwice(ready') /\ Len(ready') = Len(ready)
         /\ \A d \in Chains : Queued(ready, d) => Queued(ready', d)
         /\ Queued(ready', c)
         /\ \A d, e \in Chains \ {c} : Before(ready, d, e) => Before(ready', d, e)
         /\ \A d \in Chains \ {c} : Queued(ready, d) => Before(ready', d, c)
         /\ \A d \in Chains : ~Before(ready, d, c)
<1> DEFINE n == Len(ready)
<1>1. /\ ready # <<>> /\ c = Head(ready) /\ ready' = Append(Tail(ready), c)
      /\ n \in Nat \ {0} /\ ready[1] = c
  BY DEF At, Await
<1>2. /\ ready' \in Seq(Chains) /\ Len(ready') = n /\ ready'[n] = c
      /\ \A i \in 1..n : i < n => ready'[i] = ready[i + 1]
  BY <1>1, Requeued
<1>3. NoneTwice(ready')
  <2>1. SUFFICES ASSUME NEW i \in 1..n, NEW j \in 1..n, ready'[i] = ready'[j] PROVE i = j
    BY <1>2 DEF NoneTwice
  <2>2. \A k \in 1..n : k < n => k + 1 \in 1..n /\ ready[k + 1] # c
    BY <1>1 DEF NoneTwice
  <2>3. CASE i < n /\ j < n
    <3>1. i + 1 \in 1..n /\ j + 1 \in 1..n /\ ready[i + 1] = ready[j + 1]
      BY <1>2, <2>1, <2>2, <2>3
    <3> QED
      BY <1>1, <3>1 DEF NoneTwice
  <2>4. \A k \in 1..n : k < n => ready'[k] # ready'[n]
    BY <1>2, <2>2
  <2>5. CASE i = n \/ j = n
    BY <1>1, <2>1, <2>4, <2>5
  <2> QED
    BY <1>1, <2>3, <2>5
<1>4. ASSUME NEW d \in Chains, NEW i \in 1..n, ready[i] = d, d # c
      PROVE  i > 1 /\ i - 1 \in 1..n /\ ready'[i - 1] = d
  <2>1. i > 1 /\ i - 1 \in 1..n /\ i - 1 < n /\ (i - 1) + 1 = i
    BY <1>1, <1>4
  <2> QED
    BY <1>2, <1>4, <2>1
<1>5. n \in 1..n /\ Queued(ready', c)
  <2>1. n \in 1..n
    BY <1>1
  <2>2. Len(ready') = n /\ ready'[n] = c
    BY <1>2
  <2> QED
    BY <2>1, <2>2 DEF Queued
<1>6. \A d \in Chains : Queued(ready, d) => Queued(ready', d)
  BY <1>2, <1>4, <1>5 DEF Queued
<1>7. ASSUME NEW d \in Chains \ {c}, NEW e \in Chains \ {c}, Before(ready, d, e)
      PROVE  Before(ready', d, e)
  <2>1. PICK i \in 1..n, j \in 1..n : i < j /\ ready[i] = d /\ ready[j] = e
    BY <1>7 DEF Before
  <2>2. i - 1 \in 1..n /\ j - 1 \in 1..n /\ i - 1 < j - 1 /\ ready'[i - 1] = d /\ ready'[j - 1] = e
    BY <1>4, <2>1
  <2> QED
    BY <1>2, <2>2 DEF Before
<1>8. ASSUME NEW d \in Chains \ {c}, Queued(ready, d) PROVE Before(ready', d, c)
  <2>1. PICK i \in 1..n : ready[i] = d
    BY <1>8 DEF Queued
  <2>2. i - 1 \in 1..n /\ i - 1 < n /\ ready'[i - 1] = d
    BY <1>1, <1>4, <2>1
  <2> QED
    BY <1>2, <1>5, <2>2 DEF Before
<1>9. \A d \in Chains : ~Before(ready, d, c)
  BY <1>1 DEF Before, NoneTwice
<1> QED
  BY <1>2, <1>3, <1>5, <1>6, <1>7, <1>8, <1>9

(* The chain at the head leaves the queue.                                  *)
LEMMA RestQueue ==
  ASSUME ready \in Seq(Chains), NoneTwice(ready), NEW c \in Chains, At(c, "awake"), ready' = Tail(ready)
  PROVE  /\ ready' \in Seq(Chains) /\ NoneTwice(ready')
         /\ \A d \in Chains \ {c} : Queued(ready, d) => Queued(ready', d)
         /\ \A d, e \in Chains \ {c} : Before(ready, d, e) => Before(ready', d, e)
<1> DEFINE n == Len(ready)
<1>1. /\ ready # <<>> /\ c = Head(ready) /\ n \in Nat \ {0} /\ ready[1] = c
  BY DEF At
<1>2. ready' \in Seq(Chains) /\ Len(ready') = n - 1 /\ \A i \in 1..(n - 1) : ready'[i] = ready[i + 1]
  BY <1>1
<1>3. NoneTwice(ready')
  BY <1>1, <1>2 DEF NoneTwice
<1>4. \A d \in Chains, i \in 1..n : ready[i] = d /\ d # c => i > 1 /\ i - 1 \in 1..(n - 1) /\ ready'[i - 1] = d
  BY <1>1, <1>2
<1>5. \A d \in Chains \ {c} : Queued(ready, d) => Queued(ready', d)
  BY <1>2, <1>4 DEF Queued
<1>6. ASSUME NEW d \in Chains \ {c}, NEW e \in Chains \ {c}, Before(ready, d, e)
      PROVE  Before(ready', d, e)
  <2>1. PICK i \in 1..n, j \in 1..n : i < j /\ ready[i] = d /\ ready[j] = e
    BY <1>6 DEF Before
  <2>2. i - 1 \in 1..(n - 1) /\ j - 1 \in 1..(n - 1) /\ i - 1 < j - 1 /\ ready'[i - 1] = d /\ ready'[j - 1] = e
    BY <1>4, <2>1
  <2> QED
    BY <1>2, <2>2 DEF Before
<1> QED
  BY <1>2, <1>3, <1>5, <1>6

(* A macrotask wakes each of its chains once.                               *)
LEMMA WakeQueue ==
  ASSUME NEW S \in SUBSET Chains, Wake(S)
  PROVE  /\ ready' \in Seq(Chains) /\ NoneTwice(ready')
         /\ \A c \in S : Queued(ready', c)
<1> DEFINE n == Cardinality(S)
<1>1. IsFiniteSet(S) /\ n \in Nat
  BY Bounds, FS_Subset, FS_CardinalityType
<1>2. ready' \in [1..n -> S] /\ \A c \in S : \E i \in DOMAIN ready' : ready'[i] = c
  BY DEF Wake
<1>3. ready' \in Seq(Chains) /\ Len(ready') = n /\ DOMAIN ready' = 1..n
  BY <1>1, <1>2
<1>4. ready' \in Surjection(1..n, S)
  BY <1>2, <1>3 DEF Surjection
<1>5. IsFiniteSet(1..n) /\ Cardinality(1..n) = n
  BY <1>1, FS_Interval
<1>6. ready' \in Injection(1..n, S)
  BY <1>4, <1>5, FS_SurjSameCardinalityImpliesInj
<1>7. NoneTwice(ready')
  BY <1>3, <1>6 DEF Injection, IsInjective, NoneTwice
<1> QED
  BY <1>2, <1>3, <1>7 DEF Queued
-----------------------------------------------------------------------------
(* Who holds the transaction, and what it has written                       *)

InTxn == {"selected", "insert", "malformed", "inserted", "effects", "touched", "returned", "commit", "abort"}
BeforeInsert == {"selected", "insert", "malformed", "abort"}
AfterInsert == {"inserted", "effects", "touched", "returned", "commit"}
AfterEffects == {"effects", "touched", "returned", "commit"}

TablesTyped(t) ==
  /\ t.log \in [Agents -> SUBSET Events] /\ t.shown \in [Agents -> Nat] /\ t.agents \subseteq Agents

\* Numbers are gapless, and each row shows the latest event.
GoodTables(t) ==
  TablesTyped(t) /\ \A a \in Agents : Good(t.log[a]) /\ t.shown[a] = MaxSeq(t.log[a])

CommittedTables == IF owner = NoChain THEN Tables ELSE before

\* The open transaction is that of one chain, which is in the middle of append.
TxnOK ==
  /\ owner \in Chains \cup {NoChain}
  /\ \A c \in Chains : owner = c <=> pc[c] \in InTxn

\* What that chain has written since it began.
Written(e) ==
  /\ e.agent \in Agents /\ e.ts \in Nat /\ e.seq = MaxSeq(before.log[e.agent]) + 1
  /\ agents = before.agents
  /\ pc[owner] \in BeforeInsert => log = before.log
  /\ pc[owner] \in AfterInsert =>
        /\ e.agent \in agents
        /\ log = [before.log EXCEPT ![e.agent] = @ \cup {[seq |-> e.seq, ts |-> e.ts]}]
  /\ shown = IF pc[owner] \in AfterEffects THEN [before.shown EXCEPT ![e.agent] = e.seq] ELSE before.shown

WriterOK == owner # NoChain => Written(event[owner])

\* A committed event is announced before the next one is committed.
PublisherOK ==
  /\ announced \in [Agents -> Nat]
  /\ \A c \in Chains : pc[c] = "publish" =>
        /\ event[c].agent \in CommittedTables.agents
        /\ event[c].seq = MaxSeq(CommittedTables.log[event[c].agent])
        /\ announced[event[c].agent] + 1 = event[c].seq
        /\ \A d \in Chains : pc[d] = "publish" => d = c
        /\ owner # NoChain => pc[owner] = "selected" /\ Before(ready, c, owner)
  /\ \A a \in CommittedTables.agents :
        (\A c \in Chains : pc[c] = "publish" => event[c].agent # a) =>
          announced[a] = MaxSeq(CommittedTables.log[a])

EventsOK == event \in [Chains -> [agent : {NoEvent.agent} \cup Agents, seq : Nat, ts : Nat]] /\ clock \in Nat

IInv == QueueOK /\ EventsOK /\ TxnOK /\ WriterOK /\ GoodTables(CommittedTables) /\ PublisherOK

LEMMA InitIInv == Init => IInv
<1> SUFFICES ASSUME Init PROVE IInv
  OBVIOUS
<1>1. QueueOK
  BY DEF Init, QueueOK, NoneTwice, Pcs
<1>2. EventsOK
  BY DEF Init, EventsOK, NoEvent
<1>3. TxnOK /\ WriterOK
  BY Bounds DEF Init, TxnOK, WriterOK, InTxn
<1>4. CommittedTables = [log |-> log, shown |-> shown, notes |-> notes, agents |-> agents]
  BY DEF Init, CommittedTables, Tables
<1>5. GoodTables(CommittedTables)
  BY <1>4, EmptyIsGood DEF Init, GoodTables, TablesTyped
<1>6. PublisherOK
  BY <1>4, EmptyIsGood DEF Init, PublisherOK
<1> QED
  BY <1>1, <1>2, <1>3, <1>5, <1>6 DEF IInv
-----------------------------------------------------------------------------
(* Turns                                                                    *)

LEMMA AwaitKeepsQueue ==
  ASSUME QueueOK, NEW c \in Chains, NEW p, At(c, p), NEW q \in Pcs, Await(c, q)
  PROVE  QueueOK'
<1>1. /\ ready' \in Seq(Chains) /\ NoneTwice(ready') /\ Queued(ready', c)
      /\ \A d \in Chains : Queued(ready, d) => Queued(ready', d)
  BY AwaitQueue DEF QueueOK
<1>2. pc' \in [Chains -> Pcs] /\ \A d \in Chains : d # c => pc'[d] = pc[d]
  BY DEF QueueOK, Await
<1> QED
  BY <1>1, <1>2 DEF QueueOK

LEMMA TurnAwaits ==
  ASSUME NEW c \in Chains, Turn(c)
  PROVE  Rest(c) \/ \E p, q \in Pcs : At(c, p) /\ Await(c, q)
BY Zenon DEF Turn, Begin, ListAgentEvents, DeleteAgent, Refused, Selected, InsertFails, Insert, ApplySideEffects,
   Returned, Commit, Rollback, Publish, Write, Goto, Pcs

LEMMA EmptyQueue == ASSUME QueueOK, ready = <<>>, NEW c \in Chains PROVE pc[c] = "idle"
BY DEF QueueOK, Queued

LEMMA QueueStep == QueueOK /\ [Next]_vars => QueueOK'
<1> SUFFICES ASSUME QueueOK, [Next]_vars PROVE QueueOK'
  OBVIOUS
<1>1. ASSUME NEW c \in Chains, Rest(c) PROVE QueueOK'
  <2>1. /\ ready' \in Seq(Chains) /\ NoneTwice(ready')
        /\ \A d \in Chains \ {c} : Queued(ready, d) => Queued(ready', d)
    BY <1>1, RestQueue DEF Rest, QueueOK
  <2>2. pc' = [pc EXCEPT ![c] = "idle"] /\ pc' \in [Chains -> Pcs]
    BY <1>1 DEF Rest, QueueOK, Pcs
  <2> QED
    BY <2>1, <2>2 DEF QueueOK
<1>2. ASSUME NEW c \in Chains, Turn(c) PROVE QueueOK'
  BY <1>1, <1>2, TurnAwaits, AwaitKeepsQueue
<1>3. ASSUME NEW S \in SUBSET Chains, Wake(S) PROVE QueueOK'
  <2>1. pc' = [c \in Chains |-> IF c \in S THEN "awake" ELSE pc[c]] /\ ready = <<>>
    BY <1>3 DEF Wake
  <2>2. \A c \in Chains : pc[c] = "idle"
    BY <2>1, EmptyQueue
  <2> QED
    BY <1>3, <2>1, <2>2, WakeQueue DEF QueueOK, Pcs
<1>4. CASE Crash
  BY <1>4 DEF Crash, QueueOK, NoneTwice, Pcs
<1>5. CASE UNCHANGED vars
  BY <1>5 DEF vars, sched, QueueOK
<1> QED
  BY <1>2, <1>3, <1>4, <1>5 DEF Next

\* The tables that are committed, without the notes, which nothing is said of.
SameTables ==
  /\ CommittedTables'.log = CommittedTables.log /\ CommittedTables'.shown = CommittedTables.shown
  /\ CommittedTables'.agents = CommittedTables.agents

LEMMA SameIsGood == ASSUME GoodTables(CommittedTables), SameTables PROVE GoodTables(CommittedTables')
BY DEF GoodTables, TablesTyped, SameTables

(* When the owner of the transaction has its turn, everything committed is   *)
(* announced.                                                                *)
LEMMA OwnersTurn ==
  ASSUME QueueOK, PublisherOK, NEW c \in Chains, NEW p, At(c, p), owner = c, NEW q, Await(c, q),
         NEW d \in Chains, pc[d] = "publish"
  PROVE  FALSE
<1>1. owner # NoChain
  BY Bounds
<1>2. Before(ready, d, c)
  BY <1>1 DEF PublisherOK
<1>3. ~Before(ready, d, c)
  BY AwaitQueue DEF QueueOK
<1> QED
  BY <1>2, <1>3

(* A turn that neither begins nor ends a transaction nor publishes.         *)
LEMMA InnerTurn ==
  ASSUME QueueOK, TxnOK, PublisherOK, GoodTables(CommittedTables),
         NEW c \in Chains, NEW p, At(c, p), NEW q \in Pcs, Await(c, q),
         p # "publish", q # "publish", p \in InTxn <=> q \in InTxn,
         UNCHANGED <<owner, before, event, announced>>,
         owner = NoChain => UNCHANGED <<log, shown, agents>>
  PROVE  TxnOK' /\ GoodTables(CommittedTables') /\ PublisherOK'
<1>1. pc' = [pc EXCEPT ![c] = q] /\ pc[c] = p /\ pc \in [Chains -> Pcs]
  BY DEF At, Await, QueueOK
<1>2. TxnOK'
  BY <1>1 DEF TxnOK
<1>3. SameTables
  BY DEF SameTables, CommittedTables, Tables
<1>4. \A d \in Chains : pc'[d] = "publish" <=> pc[d] = "publish"
  BY <1>1
<1>5. ASSUME NEW d \in Chains, pc[d] = "publish", owner # NoChain
      PROVE  pc'[owner] = "selected" /\ Before(ready', d, owner)
  <2>1. owner \in Chains /\ owner # c
    BY <1>5, OwnersTurn DEF TxnOK
  <2>2. pc[owner] = "selected" /\ Before(ready, d, owner) /\ d # c
    BY <1>1, <1>5 DEF PublisherOK
  <2>3. Before(ready', d, owner)
    BY <2>1, <2>2, AwaitQueue DEF QueueOK
  <2> QED
    BY <1>1, <2>1, <2>2, <2>3
<1>6. PublisherOK'
  BY <1>3, <1>4, <1>5 DEF PublisherOK, SameTables
<1> QED
  BY <1>2, <1>3, <1>6, SameIsGood
-----------------------------------------------------------------------------
(* Each step keeps the invariant                                            *)

Kept == TxnOK' /\ WriterOK' /\ GoodTables(CommittedTables') /\ PublisherOK'

LEMMA WriterStays ==
  ASSUME QueueOK, TxnOK, WriterOK, NEW c \in Chains, NEW p, At(c, p), NEW q \in Pcs, Await(c, q),
         UNCHANGED <<owner, before, event, log, shown, agents>>,
         p \in InTxn <=> q \in InTxn,
         p \in BeforeInsert => q \in BeforeInsert, p \in AfterInsert <=> q \in AfterInsert,
         p \in AfterEffects <=> q \in AfterEffects
  PROVE  WriterOK'
<1>1. pc' = [pc EXCEPT ![c] = q] /\ pc[c] = p /\ pc \in [Chains -> Pcs]
  BY DEF At, Await, QueueOK
<1> SUFFICES ASSUME owner # NoChain PROVE Written(event[owner])'
  BY DEF WriterOK
<1>2. owner \in Chains /\ pc[owner] \in InTxn
  BY DEF TxnOK
<1>3. pc'[owner] \in BeforeInsert => pc[owner] \in BeforeInsert
  BY <1>1, <1>2 DEF BeforeInsert, AfterInsert, InTxn
<1>4. (pc'[owner] \in AfterInsert <=> pc[owner] \in AfterInsert)
      /\ (pc'[owner] \in AfterEffects <=> pc[owner] \in AfterEffects)
  BY <1>1, <1>2
<1> QED
  BY <1>3, <1>4 DEF WriterOK, Written

LEMMA QuietTurn ==
  ASSUME IInv, NEW c \in Chains,
         \/ Refused(c) \/ Selected(c) \/ InsertFails(c) \/ Returned(c)
         \/ \E n \in 1..MaxNotes : Write(c, n)
         \/ \E a \in Agents : ListAgentEvents(c, a)
  PROVE  Kept
<1>1. PICK p \in Pcs, q \in Pcs :
        /\ At(c, p) /\ Await(c, q) /\ p # "publish" /\ q # "publish" /\ (p \in InTxn <=> q \in InTxn)
        /\ (p \in BeforeInsert => q \in BeforeInsert) /\ (p \in AfterInsert <=> q \in AfterInsert)
        /\ (p \in AfterEffects <=> q \in AfterEffects)
  BY Zenon DEF Refused, Selected, InsertFails, Returned, Write, ListAgentEvents, Goto, Pcs, InTxn, BeforeInsert,
     AfterInsert, AfterEffects
<1>2. UNCHANGED <<owner, before, event, announced, log, shown, agents>>
  BY DEF Refused, Selected, InsertFails, Returned, Write, ListAgentEvents, rows, txn
<1>3. TxnOK' /\ GoodTables(CommittedTables') /\ PublisherOK'
  BY <1>1, <1>2, InnerTurn DEF IInv
<1>4. WriterOK'
  BY <1>1, <1>2, WriterStays DEF IInv
<1> QED
  BY <1>3, <1>4 DEF Kept

(* The row of the event, and then that of its agent, are written inside the *)
(* transaction.                                                             *)
LEMMA WritingTurn ==
  ASSUME IInv, NEW c \in Chains, Insert(c) \/ ApplySideEffects(c)
  PROVE  Kept
<1> DEFINE e == event[c]
<1>1. /\ pc \in [Chains -> Pcs] /\ owner = c /\ owner # NoChain /\ Written(e)
      /\ UNCHANGED <<owner, before, event, announced, agents>>
  <2>1. UNCHANGED <<owner, before, event, announced, agents>> /\ pc[c] \in InTxn
    BY DEF Insert, ApplySideEffects, Goto, At, rows, txn, InTxn
  <2> QED
    BY <2>1, Bounds DEF IInv, TxnOK, WriterOK, QueueOK
<1>2. \E p, q \in Pcs : At(c, p) /\ Await(c, q) /\ p # "publish" /\ q # "publish" /\ p \in InTxn /\ q \in InTxn
  BY Zenon DEF Insert, ApplySideEffects, Goto, Pcs, InTxn
<1>3. TxnOK' /\ GoodTables(CommittedTables') /\ PublisherOK'
  BY <1>1, <1>2, InnerTurn DEF IInv
<1>4. WriterOK'
  <2>1. ASSUME Insert(c) PROVE Written(e)'
    <3>1. pc[c] = "insert" /\ pc'[c] = "inserted" /\ e.agent \in agents /\ shown' = shown
          /\ log' = [log EXCEPT ![e.agent] = @ \cup {[seq |-> e.seq, ts |-> e.ts]}]
      BY <1>1, <2>1 DEF Insert, Goto, At, Await
    <3>2. log = before.log /\ shown = before.shown
      BY <1>1, <3>1 DEF Written, BeforeInsert, AfterEffects
    <3> QED
      BY <1>1, <3>1, <3>2 DEF Written, BeforeInsert, AfterInsert, AfterEffects
  <2>2. ASSUME ApplySideEffects(c) PROVE Written(e)'
    <3>1. log' = log
      BY <2>2 DEF ApplySideEffects
    <3>2. CASE pc[c] = "inserted" /\ pc'[c] = "effects" /\ shown' = [shown EXCEPT ![e.agent] = e.seq]
      BY <1>1, <3>1, <3>2 DEF Written, BeforeInsert, AfterInsert, AfterEffects
    <3>3. CASE pc[c] \in {"effects", "touched"} /\ pc'[c] \in {"touched", "returned"} /\ shown' = shown
      BY <1>1, <3>1, <3>3 DEF Written, BeforeInsert, AfterInsert, AfterEffects
    <3> QED
      BY <1>1, <2>2, <3>2, <3>3 DEF ApplySideEffects, Goto, At, Await
  <2> QED
    BY <1>1, <2>1, <2>2 DEF WriterOK
<1> QED
  BY <1>3, <1>4 DEF Kept
(* The next number is that after the last one committed; whoever publishes   *)
(* stands before the new owner.                                              *)
LEMMA BeginTurn ==
  ASSUME IInv, NEW c \in Chains, NEW a \in Agents, Begin(c, a)
  PROVE  Kept
<1> DEFINE e == [agent |-> a, seq |-> MaxSeq(log[a]) + 1, ts |-> clock]
<1>1. /\ owner = NoChain /\ owner' = c /\ owner' # NoChain /\ before' = Tables
      /\ UNCHANGED <<log, shown, notes, agents, announced>>
      /\ At(c, "awake") /\ Await(c, "selected") /\ event' = [event EXCEPT ![c] = e]
  BY Bounds DEF Begin, rows
<1>2. /\ pc' = [pc EXCEPT ![c] = "selected"] /\ pc[c] = "awake" /\ pc \in [Chains -> Pcs]
      /\ event'[c] = e /\ \A d \in Chains : d # c => event'[d] = event[d]
  BY <1>1 DEF At, Await, IInv, QueueOK, EventsOK
<1>3. CommittedTables = Tables /\ CommittedTables' = Tables
  BY <1>1 DEF CommittedTables
<1>4. TxnOK'
  BY <1>1, <1>2, Bounds DEF IInv, TxnOK, InTxn
<1>5. WriterOK'
  <2>1. before'.log = log /\ before'.shown = shown /\ before'.agents = agents
    BY <1>1 DEF Tables
  <2>2. clock \in Nat
    BY DEF IInv, EventsOK
  <2> QED
    BY <1>1, <1>2, <2>1, <2>2 DEF WriterOK, Written, BeforeInsert, AfterInsert, AfterEffects
<1>6. SameTables
  BY <1>3 DEF SameTables
<1>7. ASSUME NEW d \in Chains, pc'[d] = "publish" PROVE pc[d] = "publish" /\ d # c /\ Before(ready', d, c)
  <2>1. pc[d] = "publish" /\ d # c
    BY <1>2, <1>7
  <2>2. Queued(ready, d)
    BY <2>1 DEF IInv, QueueOK
  <2> QED
    BY <1>1, <2>1, <2>2, AwaitQueue DEF IInv, QueueOK
<1>8. \A d \in Chains : pc[d] = "publish" => pc'[d] = "publish" /\ d # c
  BY <1>2
<1>9. PublisherOK'
  BY <1>1, <1>2, <1>6, <1>7, <1>8 DEF IInv, PublisherOK, SameTables
<1> QED
  BY <1>4, <1>5, <1>6, <1>9, SameIsGood DEF IInv, Kept

(* The event is the next of its agent, and nobody else is about to publish.  *)
LEMMA CommitTurn ==
  ASSUME IInv, NEW c \in Chains, Commit(c)
  PROVE  /\ Kept
         /\ LET a == event[c].agent IN
              /\ a \in agents /\ owner = c /\ owner' = NoChain
              /\ MaxSeq(log[a]) = MaxSeq(before.log[a]) + 1
              /\ \A b \in Agents \ {a} : log[b] = before.log[b]
<1> DEFINE e == event[c]
           a == e.agent
<1>1. /\ At(c, "commit") /\ Await(c, "publish") /\ owner' = NoChain
      /\ UNCHANGED <<before, log, shown, notes, agents, event, announced>>
  BY DEF Commit, Goto, rows
<1>2. pc' = [pc EXCEPT ![c] = "publish"] /\ pc[c] = "commit" /\ pc \in [Chains -> Pcs]
  BY <1>1 DEF At, Await, IInv, QueueOK
<1>3. owner = c /\ owner # NoChain
  BY <1>2, Bounds DEF IInv, TxnOK, InTxn
<1>4. CommittedTables = before /\ CommittedTables' = Tables
  BY <1>1, <1>3 DEF CommittedTables, Tables
<1>5. /\ a \in agents /\ a \in Agents /\ e.ts \in Nat /\ e.seq = MaxSeq(before.log[a]) + 1
      /\ agents = before.agents /\ shown = [before.shown EXCEPT ![a] = e.seq]
      /\ log = [before.log EXCEPT ![a] = @ \cup {[seq |-> e.seq, ts |-> e.ts]}]
  BY <1>2, <1>3 DEF IInv, WriterOK, Written, AfterInsert, AfterEffects
<1>6. TablesTyped(before) /\ \A b \in Agents : Good(before.log[b]) /\ before.shown[b] = MaxSeq(before.log[b])
  BY <1>4 DEF IInv, GoodTables
<1>7. /\ log[a] = before.log[a] \cup {[seq |-> MaxSeq(before.log[a]) + 1, ts |-> e.ts]} /\ shown[a] = e.seq
      /\ \A b \in Agents \ {a} : log[b] = before.log[b] /\ shown[b] = before.shown[b]
  BY <1>5, <1>6 DEF TablesTyped
<1>8. Good(log[a]) /\ MaxSeq(log[a]) = MaxSeq(before.log[a]) + 1 /\ MaxSeq(before.log[a]) \in Nat
  <2> DEFINE R == before.log[a]
  <2>1. Good(R) /\ e.ts \in Nat /\ log[a] = R \cup {[seq |-> MaxSeq(R) + 1, ts |-> e.ts]}
    BY <1>5, <1>6, <1>7
  <2>2. MaxSeq(R) \in Nat
    BY <2>1 DEF Good
  <2> HIDE DEF R, e
  <2>3. Good(log[a]) /\ MaxSeq(log[a]) = MaxSeq(R) + 1
    BY <2>1, NextIsGood
  <2> QED
    BY <2>2, <2>3 DEF R
<1>9. GoodTables(Tables)
  <2>1. \A b \in Agents : Good(log[b]) /\ shown[b] = MaxSeq(log[b])
    BY <1>5, <1>6, <1>7, <1>8
  <2>2. log \in [Agents -> SUBSET Events] /\ shown \in [Agents -> Nat] /\ agents \subseteq Agents
    <3>1. \A b \in Agents : log[b] \subseteq Events /\ shown[b] \in Nat
      BY <2>1 DEF Good
    <3> QED
      BY <1>5, <1>6, <3>1 DEF TablesTyped
  <2> QED
    BY <2>1, <2>2 DEF GoodTables, TablesTyped, Tables
<1>10. TxnOK' /\ WriterOK'
  BY <1>1, <1>2, <1>3, Bounds DEF IInv, TxnOK, WriterOK, InTxn
<1>11. \A d \in Chains : pc[d] # "publish"
  BY <1>1, <1>3, OwnersTurn DEF IInv
<1>12. \A d \in Chains : pc'[d] = "publish" <=> d = c
  BY <1>2, <1>11
<1>13. \A b \in agents : announced[b] = MaxSeq(before.log[b])
  BY <1>4, <1>5, <1>11 DEF IInv, PublisherOK
<1>14. PublisherOK'
  <2>1. announced' \in [Agents -> Nat] /\ announced' = announced
    BY <1>1 DEF IInv, PublisherOK
  <2>2. CommittedTables'.agents = agents /\ CommittedTables'.log = log
    BY <1>4 DEF Tables
  <2>3. \A b \in agents \ {a} : b \in Agents /\ announced[b] = MaxSeq(log[b])
    BY <1>5, <1>6, <1>7, <1>13 DEF TablesTyped
  <2> QED
    BY <1>1, <1>5, <1>8, <1>12, <1>13, <2>1, <2>2, <2>3 DEF PublisherOK
<1> QED
  BY <1>1, <1>3, <1>4, <1>5, <1>7, <1>8, <1>9, <1>10, <1>14 DEF Kept, Tables
LEMMA RollbackTurn ==
  ASSUME IInv, NEW c \in Chains, Rollback(c)
  PROVE  Kept /\ owner = c /\ owner' = NoChain /\ log' = before.log /\ agents' = before.agents
<1>1. /\ At(c, "abort") /\ Await(c, "awake") /\ owner' = NoChain
      /\ log' = before.log /\ shown' = before.shown /\ agents' = before.agents
      /\ UNCHANGED <<before, event, announced>>
  BY DEF Rollback, Goto, Restore
<1>2. pc' = [pc EXCEPT ![c] = "awake"] /\ pc[c] = "abort" /\ pc \in [Chains -> Pcs]
  BY <1>1 DEF At, Await, IInv, QueueOK
<1>3. owner = c /\ owner # NoChain
  BY <1>2, Bounds DEF IInv, TxnOK, InTxn
<1>4. SameTables
  BY <1>1, <1>3 DEF SameTables, CommittedTables, Tables
<1>5. TxnOK' /\ WriterOK'
  BY <1>1, <1>2, <1>3, Bounds DEF IInv, TxnOK, WriterOK, InTxn
<1>6. \A d \in Chains : pc[d] # "publish" /\ pc'[d] # "publish"
  BY <1>1, <1>2, <1>3, OwnersTurn DEF IInv
<1>7. PublisherOK'
  BY <1>1, <1>4, <1>6 DEF IInv, PublisherOK, SameTables
<1> QED
  BY <1>1, <1>3, <1>4, <1>5, <1>7, SameIsGood DEF IInv, Kept

(* The event announced is the latest committed, and the next after the one   *)
(* announced before.                                                         *)
LEMMA PublishTurn ==
  ASSUME IInv, NEW c \in Chains, Publish(c)
  PROVE  /\ Kept /\ SameTables
         /\ LET a == event[c].agent IN
              /\ a \in Agents /\ announced[a] < MaxSeq(CommittedTables.log[a])
              /\ announced' = [announced EXCEPT ![a] = @ + 1]
<1> DEFINE a == event[c].agent
           n == MaxSeq(CommittedTables.log[a])
<1>1. /\ At(c, "publish") /\ Await(c, "awake")
      /\ announced' = [announced EXCEPT ![a] = event[c].seq]
      /\ UNCHANGED <<owner, before, event, log, shown, notes, agents>>
  BY DEF Publish, Goto, rows, txn
<1>2. pc' = [pc EXCEPT ![c] = "awake"] /\ pc[c] = "publish" /\ pc \in [Chains -> Pcs]
  BY <1>1 DEF At, Await, IInv, QueueOK
<1>3. SameTables
  BY <1>1 DEF SameTables, CommittedTables, Tables
<1>4. /\ a \in CommittedTables.agents /\ event[c].seq = n /\ announced[a] + 1 = n
      /\ \A d \in Chains : pc[d] = "publish" => d = c
      /\ announced \in [Agents -> Nat]
  BY <1>2 DEF IInv, PublisherOK
<1>5. CommittedTables.agents \subseteq Agents
  BY DEF IInv, GoodTables, TablesTyped
<1>6. announced[a] \in Nat /\ n \in Nat /\ announced[a] < n
  BY <1>4, <1>5
<1>7. announced' = [announced EXCEPT ![a] = @ + 1] /\ announced' \in [Agents -> Nat]
  BY <1>1, <1>4, <1>5, <1>6
<1>8. TxnOK' /\ WriterOK'
  <2>1. owner # c
    BY <1>2 DEF IInv, TxnOK, InTxn
  <2>2. owner # NoChain => pc'[owner] = pc[owner]
    BY <1>2, <2>1 DEF IInv, TxnOK
  <2> QED
    BY <1>1, <1>2, <2>1, <2>2 DEF IInv, TxnOK, WriterOK, Written, InTxn
<1>9. \A d \in Chains : pc'[d] # "publish"
  BY <1>2, <1>4
<1>10. ASSUME NEW b \in CommittedTables.agents PROVE announced'[b] = MaxSeq(CommittedTables.log[b])
  <2>1. CASE b = a
    BY <1>1, <1>4, <1>5, <2>1
  <2>2. CASE b # a
    <3>1. \A d \in Chains : pc[d] = "publish" => event[d].agent # b
      BY <1>4, <2>2
    <3>2. announced[b] = MaxSeq(CommittedTables.log[b])
      BY <3>1 DEF IInv, PublisherOK
    <3> QED
      BY <1>1, <1>4, <1>5, <2>2, <3>2
  <2> QED
    BY <2>1, <2>2
<1>11. PublisherOK'
  BY <1>3, <1>7, <1>9, <1>10 DEF PublisherOK, SameTables
<1> QED
  BY <1>3, <1>4, <1>5, <1>6, <1>7, <1>8, <1>11, SameIsGood DEF IInv, Kept

(* A chain that is alone in the queue has no other to wait for.             *)
LEMMA Alone ==
  ASSUME QueueOK, TxnOK, NEW c \in Chains, At(c, "awake"), Len(ready) = 1
  PROVE  owner = NoChain /\ \A d \in Chains : d # c => pc[d] = "idle"
<1>1. ready[1] = c /\ pc[c] = "awake"
  BY DEF At, QueueOK
<1>2. ASSUME NEW d \in Chains, d # c PROVE pc[d] = "idle"
  BY <1>1, <1>2 DEF QueueOK, Queued
<1>3. owner = NoChain
  BY <1>1, <1>2 DEF TxnOK, InTxn
<1> QED
  BY <1>2, <1>3

LEMMA DeleteTurn ==
  ASSUME IInv, NEW c \in Chains, NEW a \in Agents, DeleteAgent(c, a)
  PROVE  Kept /\ owner = NoChain /\ owner' = NoChain
<1>1. /\ At(c, "awake") /\ Len(ready) = 1 /\ Await(c, "awake")
      /\ agents' = agents \ {a} /\ log' = [log EXCEPT ![a] = {}] /\ shown' = [shown EXCEPT ![a] = 0]
      /\ UNCHANGED <<owner, before, event, announced>>
  BY DEF DeleteAgent, txn
<1>2. owner = NoChain /\ owner' = NoChain /\ \A d \in Chains : d # c => pc[d] = "idle"
  BY <1>1, Alone DEF IInv
<1>3. pc' = [pc EXCEPT ![c] = "awake"] /\ pc[c] = "awake" /\ pc \in [Chains -> Pcs]
  BY <1>1 DEF At, Await, IInv, QueueOK
<1>4. CommittedTables = Tables /\ CommittedTables' = Tables'
  BY <1>2 DEF CommittedTables
<1>5. /\ log \in [Agents -> SUBSET Events] /\ shown \in [Agents -> Nat] /\ agents \subseteq Agents
      /\ \A b \in Agents : Good(log[b]) /\ shown[b] = MaxSeq(log[b])
  BY <1>4 DEF IInv, GoodTables, TablesTyped, Tables
<1>6. GoodTables(Tables')
  <2>1. \A b \in Agents : Good(log'[b]) /\ shown'[b] = MaxSeq(log'[b])
    BY <1>1, <1>5, EmptyIsGood
  <2>2. log' \in [Agents -> SUBSET Events] /\ shown' \in [Agents -> Nat] /\ agents' \subseteq Agents
    BY <1>1, <1>5
  <2> QED
    BY <2>1, <2>2 DEF GoodTables, TablesTyped, Tables
<1>7. TxnOK' /\ WriterOK'
  BY <1>2, <1>3 DEF IInv, TxnOK, WriterOK, InTxn
<1>8. \A d \in Chains : pc[d] # "publish" /\ pc'[d] # "publish"
  BY <1>2, <1>3
<1>9. \A b \in agents : announced[b] = MaxSeq(log[b])
  BY <1>4, <1>8 DEF IInv, PublisherOK, Tables
<1>10. PublisherOK'
  <2>1. announced' = announced /\ announced' \in [Agents -> Nat]
    BY <1>1 DEF IInv, PublisherOK
  <2>2. \A b \in agents' : announced'[b] = MaxSeq(log'[b])
    BY <1>1, <1>5, <1>9
  <2>3. CommittedTables'.agents = agents' /\ CommittedTables'.log = log'
    BY <1>4 DEF Tables
  <2> QED
    BY <1>8, <2>1, <2>2, <2>3 DEF PublisherOK
<1> QED
  BY <1>2, <1>4, <1>6, <1>7, <1>10 DEF Kept

LEMMA RestTurn ==
  ASSUME IInv, NEW c \in Chains, Rest(c)
  PROVE  Kept
<1>1. /\ At(c, "awake") /\ ready' = Tail(ready) /\ pc' = [pc EXCEPT ![c] = "idle"] /\ pc[c] = "awake"
      /\ pc \in [Chains -> Pcs]
      /\ UNCHANGED <<owner, before, event, log, shown, notes, agents, announced>>
  BY DEF Rest, rows, txn, At, IInv, QueueOK
<1>2. SameTables
  BY <1>1 DEF SameTables, CommittedTables, Tables
<1>3. owner # c
  BY <1>1 DEF IInv, TxnOK, InTxn
<1>4. TxnOK' /\ WriterOK'
  <2>1. owner # NoChain => pc'[owner] = pc[owner]
    BY <1>1, <1>3 DEF IInv, TxnOK
  <2> QED
    BY <1>1, <1>3, <2>1 DEF IInv, TxnOK, WriterOK, Written, InTxn
<1>5. \A d \in Chains : pc'[d] = "publish" <=> pc[d] = "publish" /\ d # c
  BY <1>1
<1>6. ASSUME NEW d \in Chains, pc[d] = "publish", owner # NoChain
      PROVE  pc'[owner] = "selected" /\ Before(ready', d, owner)
  <2>1. owner \in Chains /\ pc[owner] = "selected" /\ Before(ready, d, owner) /\ d # c
    BY <1>1, <1>6 DEF IInv, TxnOK, PublisherOK
  <2>2. Before(ready', d, owner)
    BY <1>1, <1>3, <2>1, RestQueue DEF IInv, QueueOK
  <2> QED
    BY <1>1, <1>3, <2>1, <2>2
<1>7. \A d \in Chains : pc[d] = "publish" => d # c
  BY <1>1
<1>8. PublisherOK'
  BY <1>1, <1>2, <1>5, <1>6, <1>7 DEF IInv, PublisherOK, SameTables
<1> QED
  BY <1>2, <1>4, <1>8, SameIsGood DEF IInv, Kept

LEMMA WakeKeeps ==
  ASSUME IInv, NEW S \in SUBSET Chains, Wake(S)
  PROVE  Kept
<1>1. /\ ready = <<>> /\ pc' = [c \in Chains |-> IF c \in S THEN "awake" ELSE pc[c]]
      /\ UNCHANGED <<owner, before, event, log, shown, notes, agents, announced>>
  BY DEF Wake, rows, txn
<1>2. \A c \in Chains : pc[c] = "idle" /\ pc'[c] \in {"idle", "awake"}
  BY <1>1, EmptyQueue DEF IInv
<1>3. SameTables
  BY <1>1 DEF SameTables, CommittedTables, Tables
<1>4. owner = NoChain
  BY <1>2 DEF IInv, TxnOK, InTxn
<1>5. TxnOK' /\ WriterOK'
  BY <1>1, <1>2, <1>4, Bounds DEF IInv, TxnOK, WriterOK, InTxn
<1>6. \A c \in Chains : pc[c] # "publish" /\ pc'[c] # "publish"
  BY <1>2
<1>7. PublisherOK'
  BY <1>1, <1>3, <1>6 DEF IInv, PublisherOK, SameTables
<1> QED
  BY <1>3, <1>5, <1>7, SameIsGood DEF IInv, Kept

(* What is there after a restart is what was committed.                     *)
LEMMA CrashKeeps ==
  ASSUME IInv, Crash
  PROVE  Kept /\ SameTables /\ owner' = NoChain /\ announced' = [a \in Agents |-> MaxSeq(log'[a])]
<1>1. /\ owner' = NoChain /\ pc' = [c \in Chains |-> "idle"]
      /\ announced' = [a \in Agents |-> MaxSeq(log'[a])]
      /\ log' = CommittedTables.log /\ shown' = CommittedTables.shown /\ agents' = CommittedTables.agents
  BY DEF Crash, Restore, CommittedTables, Tables, rows
<1>2. SameTables
  BY <1>1 DEF SameTables, CommittedTables, Tables
<1>3. TxnOK' /\ WriterOK'
  BY <1>1, Bounds DEF TxnOK, WriterOK, InTxn
<1>4. \A a \in Agents : MaxSeq(log'[a]) \in Nat
  BY <1>1 DEF IInv, GoodTables, Good
<1>5. CommittedTables.agents \subseteq Agents
  BY DEF IInv, GoodTables, TablesTyped
<1>6. PublisherOK'
  <2>1. \A c \in Chains : pc'[c] # "publish"
    BY <1>1
  <2>2. announced' \in [Agents -> Nat]
    BY <1>1, <1>4
  <2>3. \A a \in CommittedTables'.agents : announced'[a] = MaxSeq(CommittedTables'.log[a])
    BY <1>1, <1>2, <1>5 DEF SameTables
  <2> QED
    BY <2>1, <2>2, <2>3 DEF PublisherOK
<1> QED
  BY <1>1, <1>2, <1>3, <1>6, SameIsGood DEF IInv, Kept

LEMMA EventsStep == ASSUME IInv, Next PROVE EventsOK'
<1>1. EventsOK
  BY DEF IInv
<1>2. ASSUME NEW c \in Chains, NEW a \in Agents, Begin(c, a) PROVE EventsOK'
  <2>1. clock' = clock /\ event' = [event EXCEPT ![c] = [agent |-> a, seq |-> MaxSeq(log[a]) + 1, ts |-> clock]]
    BY <1>2 DEF Begin
  <2>2. MaxSeq(log[a]) \in Nat
    <3>1. owner = NoChain /\ CommittedTables.log = log
      BY <1>2 DEF Begin, CommittedTables, Tables
    <3> QED
      BY <3>1 DEF IInv, GoodTables, Good
  <2>3. [agent |-> a, seq |-> MaxSeq(log[a]) + 1, ts |-> clock]
          \in [agent : {NoEvent.agent} \cup Agents, seq : Nat, ts : Nat]
    BY <1>1, <2>2 DEF EventsOK
  <2> QED
    BY <1>1, <2>1, <2>3 DEF EventsOK
<1>3. ASSUME NEW S \in SUBSET Chains, Wake(S) PROVE EventsOK'
  BY <1>1, <1>3, Bounds DEF EventsOK, Wake
<1>4. CASE Crash
  <2>1. NoEvent \in [agent : {NoEvent.agent} \cup Agents, seq : Nat, ts : Nat]
    BY DEF NoEvent
  <2> QED
    BY <1>1, <1>4, <2>1 DEF EventsOK, Crash
<1>5. ASSUME NEW c \in Chains, Turn(c), \A a \in Agents : ~Begin(c, a) PROVE event' = event /\ clock' = clock
  BY <1>5, Zenon DEF Turn, ListAgentEvents, DeleteAgent, Refused, Selected, InsertFails, Insert, ApplySideEffects,
     Returned, Commit, Rollback, Publish, Write, Rest
<1>6. ASSUME NEW c \in Chains, Turn(c) PROVE EventsOK'
  <2>1. CASE \E a \in Agents : Begin(c, a)
    BY <1>2, <2>1
  <2>2. CASE \A a \in Agents : ~Begin(c, a)
    BY <1>1, <1>5, <1>6, <2>2 DEF EventsOK
  <2> QED
    BY <2>1, <2>2
<1> QED
  BY <1>3, <1>4, <1>6 DEF Next

(* The turns, by what they do to the transaction.                            *)
LEMMA TurnKeeps == ASSUME IInv, NEW c \in Chains, Turn(c) PROVE Kept
<1>1. CASE \/ Refused(c) \/ Selected(c) \/ InsertFails(c) \/ Returned(c)
           \/ \E n \in 1..MaxNotes : Write(c, n)
           \/ \E a \in Agents : ListAgentEvents(c, a)
  BY <1>1, QuietTurn
<1>2. CASE Insert(c) \/ ApplySideEffects(c)
  BY <1>2, WritingTurn
<1>3. CASE Commit(c)
  BY <1>3, CommitTurn
<1>4. CASE Publish(c)
  BY <1>4, PublishTurn
<1>5. CASE Rollback(c) \/ Rest(c) \/ \E a \in Agents : Begin(c, a) \/ DeleteAgent(c, a)
  BY <1>5, RollbackTurn, RestTurn, BeginTurn, DeleteTurn
<1> QED
  BY <1>1, <1>2, <1>3, <1>4, <1>5 DEF Turn

LEMMA IInvStep == IInv /\ [Next]_vars => IInv'
<1> SUFFICES ASSUME IInv, [Next]_vars PROVE IInv'
  OBVIOUS
<1>1. QueueOK'
  BY QueueStep DEF IInv
<1>2. CASE Next
  <2>1. Kept
    BY <1>2, TurnKeeps, WakeKeeps, CrashKeeps DEF Next
  <2> QED
    BY <1>1, <1>2, <2>1, EventsStep DEF IInv, Kept
<1>3. CASE UNCHANGED vars
  <2>1. UNCHANGED <<log, shown, notes, agents, owner, before, ready, pc, event, announced, clock>>
    BY <1>3 DEF vars, rows, txn, sched
  <2>2. SameTables
    BY <2>1 DEF SameTables, CommittedTables, Tables
  <2>3. EventsOK' /\ TxnOK' /\ WriterOK'
    BY <2>1 DEF IInv, EventsOK, TxnOK, WriterOK, Written
  <2>4. PublisherOK'
    BY <2>1, <2>2 DEF IInv, PublisherOK, SameTables
  <2> QED
    BY <1>1, <2>2, <2>3, <2>4, SameIsGood DEF IInv
<1> QED
  BY <1>2, <1>3

LEMMA AlwaysIInv == Spec => []IInv
BY InitIInv, IInvStep, PTL DEF Spec
-----------------------------------------------------------------------------
(* Theorems                                                                 *)

LEMMA IInvGapless == IInv => Gapless
<1> SUFFICES ASSUME IInv, NEW a \in Agents PROVE Good(log[a])
  BY DEF Gapless, Good
<1>1. CASE owner = NoChain
  BY <1>1 DEF IInv, GoodTables, CommittedTables, Tables
<1>2. CASE owner # NoChain
  <2> DEFINE e == event[owner]
             R == before.log[a]
  <2>1. Good(R) /\ before.log \in [Agents -> SUBSET Events]
    BY <1>2 DEF IInv, GoodTables, TablesTyped, CommittedTables
  <2>2. Written(e) /\ pc[owner] \in BeforeInsert \cup AfterInsert
    BY <1>2 DEF IInv, WriterOK, TxnOK, InTxn, BeforeInsert, AfterInsert
  <2>3. CASE pc[owner] \in BeforeInsert
    BY <2>1, <2>2, <2>3 DEF Written
  <2>4. CASE pc[owner] \in AfterInsert
    <3>1. e.ts \in Nat /\ log[a] \in {R, R \cup {[seq |-> MaxSeq(R) + 1, ts |-> e.ts]}}
      BY <2>1, <2>2, <2>4 DEF Written
    <3> HIDE DEF R, e
    <3> QED
      BY <2>1, <3>1, NextIsGood
  <2> QED
    BY <2>2, <2>3, <2>4
<1> QED
  BY <1>1, <1>2

(* The sequence numbers of each agent are 1, 2, 3, ... without a gap and     *)
(* without a number given twice, at every await of every chain, after any    *)
(* failure and after a crash (getNextSequence, withTransaction).             *)
THEOREM NumbersAreGapless == Spec => []Gapless
BY AlwaysIInv, IInvGapless, PTL

(* Outside a transaction the row of an agent shows its latest event: the     *)
(* event and its side effect are kept or undone together (append).           *)
THEOREM RowsShowLatest == Spec => []RowShowsLatestEvent
<1>1. IInv => RowShowsLatestEvent
  BY DEF IInv, GoodTables, CommittedTables, Tables, RowShowsLatestEvent
<1> QED
  BY <1>1, AlwaysIInv, PTL

(* An open transaction belongs to a chain that is about to end it, and none  *)
(* is open when a request starts: begin is refused only within a macrotask.  *)
THEOREM TransactionsAreOwned == Spec => []TransactionIsOwned
<1>1. ASSUME IInv PROVE TransactionIsOwned
  <2>1. owner # NoChain => owner \in Chains /\ pc[owner] \in InTxn
    BY <1>1 DEF IInv, TxnOK
  <2>2. ready = <<>> => owner = NoChain
    BY <1>1, <2>1, EmptyQueue DEF IInv, InTxn
  <2>3. InTxn \subseteq Pcs \ {"idle", "awake", "publish"}
    BY DEF InTxn, Pcs
  <2> QED
    BY <2>1, <2>2, <2>3 DEF TransactionIsOwned
<1> QED
  BY <1>1, AlwaysIInv, PTL

-----------------------------------------------------------------------------
(* Writers outside a transaction                                            *)

\* What is written while a transaction is open is undone with it.  A chain that
\* has its macrotask to itself never writes into the transaction of another.
NotesOK ==
  /\ Len(ready) <= 1
  /\ kept \subseteq notes
  /\ owner # NoChain => notes = before.notes

LEMMA TurnKeepsNotes ==
  ASSUME IInv, NotesOK, NEW c \in Chains, Turn(c)
  PROVE  NotesOK'
<1>1. ready \in Seq(Chains) /\ Len(ready) = 1 /\ Len(ready') <= 1
  <2>1. ready \in Seq(Chains) /\ Len(ready) <= 1 /\ NoneTwice(ready)
    BY DEF IInv, QueueOK, NotesOK
  <2>2. ready # <<>>
    BY TurnAwaits DEF Rest, At
  <2>3. Len(ready) = 1
    <3> DEFINE n == Len(ready)
    <3>1. n \in Nat
      BY <2>1
    <3>2. n # 0
      BY <2>1, <2>2
    <3>3. n <= 1
      BY DEF NotesOK
    <3> HIDE DEF n
    <3>4. n = 1
      BY <3>1, <3>2, <3>3
    <3> QED
      BY <3>4 DEF n
  <2>4. CASE Rest(c)
    <3>1. ready' = Tail(ready)
      BY <2>4 DEF Rest
    <3> QED
      BY <2>1, <2>2, <2>3, <3>1
  <2>5. CASE \E p, q \in Pcs : At(c, p) /\ Await(c, q)
    BY <2>1, <2>3, <2>5, AwaitQueue
  <2> QED
    BY <2>1, <2>3, <2>4, <2>5, TurnAwaits
<1>2. CASE \E n \in 1..MaxNotes : Write(c, n)
  <2>1. owner = NoChain
    BY <1>1, <1>2, Alone DEF IInv, Write
  <2> QED
    BY <1>1, <1>2, <2>1 DEF Write, NotesOK, txn
<1>3. CASE \E a \in Agents : Begin(c, a)
  BY <1>1, <1>3 DEF Begin, NotesOK, Tables, rows
<1>4. CASE Rollback(c)
  <2>1. owner = c /\ owner # NoChain
    BY <1>4, RollbackTurn, Bounds
  <2> QED
    BY <1>1, <1>4, <2>1 DEF Rollback, Restore, NotesOK
<1>5. CASE Commit(c)
  BY <1>1, <1>5 DEF Commit, NotesOK, rows
<1>6. CASE \/ \E a \in Agents : ListAgentEvents(c, a) \/ DeleteAgent(c, a)
           \/ Refused(c) \/ Selected(c) \/ InsertFails(c) \/ Insert(c) \/ ApplySideEffects(c)
           \/ Returned(c) \/ Publish(c) \/ Rest(c)
  <2>1. UNCHANGED <<notes, kept, owner, before>>
    BY <1>6 DEF ListAgentEvents, DeleteAgent, Refused, Selected, InsertFails, Insert, ApplySideEffects,
       Returned, Publish, Rest, rows, txn
  <2> QED
    BY <1>1, <2>1 DEF NotesOK
<1> QED
  BY <1>2, <1>3, <1>4, <1>5, <1>6 DEF Turn

(* No row is lost once its writer was told that it is written, while every   *)
(* macrotask has one chain: no rollback and no restart undoes the statement  *)
(* of another chain (withTransaction on the one connection of the process).  *)
(* The hypothesis is needed: in a macrotask of two chains one of them writes *)
(* into the transaction of the other, which a failed event takes along.      *)
THEOREM WritersAloneKeepRows ==
  ASSUME MaxFork <= 1
  PROVE  Spec => []AcknowledgedRowsStay
<1>1. Init => NotesOK
  BY DEF Init, NotesOK
<1>2. IInv /\ NotesOK /\ [Next]_vars => NotesOK'
  <2> SUFFICES ASSUME IInv, NotesOK, [Next]_vars PROVE NotesOK'
    OBVIOUS
  <2>1. ASSUME NEW S \in SUBSET Chains, Wake(S) PROVE NotesOK'
    <3>1. IsFiniteSet(S) /\ Cardinality(S) = 1
      BY <2>1, Bounds, FS_Subset, FS_CardinalityType DEF Wake
    <3>2. ready' \in [1..1 -> S] /\ UNCHANGED <<notes, kept, owner, before>>
      BY <2>1, <3>1 DEF Wake, rows, txn
    <3>3. Len(ready') = 1
      BY <3>2
    <3> QED
      BY <3>2, <3>3 DEF NotesOK
  <2>2. CASE Crash
    <3>1. owner' = NoChain /\ Len(ready') = 0 /\ kept' = kept /\ notes' = notes
      BY <2>2 DEF Crash, Restore, NotesOK, rows
    <3> QED
      BY <3>1 DEF NotesOK
  <2>3. CASE UNCHANGED vars
    BY <2>3 DEF NotesOK, vars, rows, txn, sched
  <2> QED
    BY <2>1, <2>2, <2>3, TurnKeepsNotes DEF Next
<1>3. NotesOK => AcknowledgedRowsStay
  BY DEF NotesOK, AcknowledgedRowsStay
<1> QED
  BY <1>1, <1>2, <1>3, AlwaysIInv, PTL DEF Spec

-----------------------------------------------------------------------------
(* The log implements EventFeed                                             *)

Stored == [a \in Agents |-> MaxSeq(CommittedTables.log[a])]

\* What the variables of EventFeed stand for, now and after a step.
Mapped ==
  /\ [a \in Agents |-> MaxSeq(Committed(a))] = Stored
  /\ (IF owner = NoChain THEN agents ELSE before.agents) = CommittedTables.agents

LEMMA Mapping == Mapped /\ Mapped'
<1>1. Mapped
  BY DEF Mapped, Stored, Committed, CommittedTables, Tables
<1>2. Mapped'
  BY DEF Mapped, Stored, Committed, CommittedTables, Tables
<1> QED
  BY <1>1, <1>2

\* A step of EventFeed, in the terms of the log.
FeedStep ==
  \/ SameTables /\ announced' = announced
  \/ \E a \in CommittedTables.agents \cap Agents :
       /\ Stored' = [Stored EXCEPT ![a] = @ + 1]
       /\ announced' = announced /\ CommittedTables'.agents = CommittedTables.agents
  \/ \E a \in Agents :
       /\ announced[a] < Stored[a] /\ announced' = [announced EXCEPT ![a] = @ + 1]
       /\ SameTables
  \/ \E a \in Agents :
       /\ CommittedTables'.agents = CommittedTables.agents \ {a}
       /\ Stored' = [Stored EXCEPT ![a] = 0] /\ announced' = announced
  \/ announced' = Stored /\ SameTables

LEMMA SameIsStored == SameTables => Stored' = Stored
BY DEF SameTables, Stored

LEMMA FeedStepIsStep == FeedStep => [Feed!Next]_(Feed!feedVars)
<1> SUFFICES ASSUME FeedStep PROVE [Feed!Next]_(Feed!feedVars)
  OBVIOUS
<1>1. Mapped /\ Mapped'
  BY Mapping
<1> QED
  BY <1>1, SameIsStored DEF FeedStep, Mapped, SameTables, Feed!Next, Feed!feedVars, Feed!Store, Feed!Announce, Feed!Delete,
     Feed!Restart

LEMMA TurnIsFeedStep == ASSUME IInv, NEW c \in Chains, Turn(c) PROVE FeedStep
<1>1. CASE \/ Refused(c) \/ Selected(c) \/ InsertFails(c) \/ Returned(c) \/ Rest(c)
           \/ \E n \in 1..MaxNotes : Write(c, n)
           \/ \E a \in Agents : ListAgentEvents(c, a)
  <2>1. UNCHANGED <<owner, before, announced, log, shown, agents>>
    BY <1>1 DEF Refused, Selected, InsertFails, Returned, Rest, Write, ListAgentEvents, rows, txn
  <2> QED
    BY <2>1 DEF FeedStep, SameTables, CommittedTables, Tables
<1>2. CASE \E a \in Agents : Begin(c, a)
  BY <1>2, Bounds DEF Begin, rows, FeedStep, SameTables, CommittedTables, Tables
<1>3. CASE Insert(c) \/ ApplySideEffects(c)
  <2>1. UNCHANGED <<owner, before, announced>> /\ pc[c] \in InTxn
    BY <1>3 DEF Insert, ApplySideEffects, Goto, At, txn, InTxn
  <2>2. owner # NoChain
    BY <2>1, Bounds DEF IInv, TxnOK
  <2> QED
    BY <2>1, <2>2 DEF FeedStep, SameTables, CommittedTables
<1>4. CASE Commit(c)
  <2> DEFINE a == event[c].agent
  <2>1. /\ a \in agents /\ owner = c /\ owner' = NoChain
        /\ MaxSeq(log[a]) = MaxSeq(before.log[a]) + 1
        /\ \A b \in Agents \ {a} : log[b] = before.log[b]
    BY <1>4, CommitTurn
  <2>2. owner # NoChain /\ a \in Agents /\ agents = before.agents
    BY <2>1, Bounds DEF IInv, WriterOK, Written
  <2>3. log' = log /\ agents' = agents /\ announced' = announced
    BY <1>4 DEF Commit, rows
  <2>4. /\ CommittedTables = before /\ CommittedTables'.log = log /\ CommittedTables'.agents = agents
    BY <2>1, <2>2, <2>3 DEF CommittedTables, Tables
  <2>5. Stored' = [Stored EXCEPT ![a] = @ + 1]
    BY <2>1, <2>2, <2>4 DEF Stored
  <2> QED
    BY <2>1, <2>2, <2>3, <2>4, <2>5 DEF FeedStep
<1>5. CASE Rollback(c)
  <2>1. owner = c /\ owner' = NoChain /\ log' = before.log /\ agents' = before.agents
    BY <1>5, RollbackTurn
  <2>2. shown' = before.shown /\ announced' = announced
    BY <1>5 DEF Rollback, Restore
  <2> QED
    BY <2>1, <2>2, Bounds DEF FeedStep, SameTables, CommittedTables, Tables
<1>6. CASE Publish(c)
  <2>1. PICK a \in Agents : /\ SameTables /\ announced[a] < MaxSeq(CommittedTables.log[a])
                            /\ announced' = [announced EXCEPT ![a] = @ + 1]
    BY <1>6, PublishTurn
  <2>2. announced[a] < Stored[a]
    BY <2>1 DEF Stored
  <2> QED
    BY <2>1, <2>2 DEF FeedStep
<1>7. ASSUME NEW a \in Agents, DeleteAgent(c, a) PROVE FeedStep
  <2>1. owner = NoChain /\ owner' = NoChain
    BY <1>7, DeleteTurn
  <2>2. log' = [log EXCEPT ![a] = {}] /\ agents' = agents \ {a} /\ announced' = announced
    BY <1>7 DEF DeleteAgent
  <2>3. /\ CommittedTables.log = log /\ CommittedTables'.log = log'
        /\ CommittedTables.agents = agents /\ CommittedTables'.agents = agents'
    BY <2>1 DEF CommittedTables, Tables
  <2>4. log \in [Agents -> SUBSET Events]
    BY <2>3 DEF IInv, GoodTables, TablesTyped
  <2>5. Stored' = [Stored EXCEPT ![a] = 0]
    BY <2>2, <2>3, <2>4, EmptyIsGood DEF Stored
  <2> QED
    BY <2>2, <2>3, <2>5 DEF FeedStep
<1> QED
  BY <1>1, <1>2, <1>3, <1>4, <1>5, <1>6, <1>7 DEF Turn

LEMMA StepIsFeedStep == IInv /\ [Next]_vars => [Feed!Next]_(Feed!feedVars)
<1> SUFFICES ASSUME IInv, [Next]_vars PROVE FeedStep
  BY FeedStepIsStep
<1>1. ASSUME NEW S \in SUBSET Chains, Wake(S) PROVE FeedStep
  BY <1>1 DEF Wake, rows, txn, FeedStep, SameTables, CommittedTables, Tables
<1>2. CASE Crash
  <2>1. SameTables /\ owner' = NoChain /\ announced' = [a \in Agents |-> MaxSeq(log'[a])]
    BY <1>2, CrashKeeps
  <2>2. CommittedTables'.log = log' /\ CommittedTables'.log = CommittedTables.log
    BY <2>1 DEF SameTables, CommittedTables, Tables
  <2>3. announced' = Stored
    BY <2>1, <2>2 DEF Stored
  <2> QED
    BY <2>1, <2>3 DEF FeedStep
<1>3. CASE UNCHANGED vars
  BY <1>3 DEF vars, rows, txn, FeedStep, SameTables, CommittedTables, Tables
<1> QED
  BY <1>1, <1>2, <1>3, TurnIsFeedStep DEF Next

(* Every event is announced once, after it is committed, in the order of its *)
(* number: the connection, its transactions and the bus together implement   *)
(* EventFeed, through failures, deletions and crashes (append publishes after *)
(* withTransaction returns).                                                 *)
THEOREM LogKeepsPromise == Spec => FeedPromise
<1>1. Init => Feed!Init
  <2> SUFFICES ASSUME Init PROVE Feed!Init
    OBVIOUS
  <2>1. owner = NoChain /\ log = [a \in Agents |-> {}] /\ agents = Agents /\ announced = [a \in Agents |-> 0]
    BY DEF Init
  <2>2. \A a \in Agents : MaxSeq(Committed(a)) = 0
    BY <2>1, EmptyIsGood DEF Committed
  <2> QED
    BY <2>1, <2>2 DEF Feed!Init
<1> QED
  BY <1>1, AlwaysIInv, StepIsFeedStep, PTL DEF Spec, FeedPromise, Feed!Spec
=============================================================================
