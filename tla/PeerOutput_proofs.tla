------------------------- MODULE PeerOutput_proofs --------------------------
(***************************************************************************)
(* Theorems about what agents learn of each other.                         *)
(*                                                                         *)
(* PeerOutput, for an agent that follows one run of a peer, any timeout     *)
(* and number of calls: it is shown every entry after its first reply, with *)
(* watches and any limit, or with both tools when the run fits in a reply   *)
(* (a read skips entries otherwise, ReadOn); and a watch answers before the *)
(* orchestrator gives up on it.  The argument: a watch starts at the cursor *)
(* and changes it only at its end: to the last entry it shows, or, when     *)
(* there is nothing to show, to the length of the transcript, which is then *)
(* not beyond where it began; and a read of a short run shows all of it.    *)
(*                                                                         *)
(* AgentMemory, for any number of agents, messages, versions and runs and  *)
(* any sizes: MemoryOK.  A summary that is still to be written is one of a *)
(* later run than what its agent has (SummariesOK), which takes that only  *)
(* one is in flight; of the items that are dropped none comes after one    *)
(* that is kept, because the first beginning of DropOrder that makes room  *)
(* is the one that is dropped (TellingCuts, SummingCuts).                  *)
(***************************************************************************)
EXTENDS MCPeers, FiniteSetTheorems, SequenceTheorems, WellFoundedInduction, TLAPS

Follows == NamesRun /\ (Tools = {"watch"} \/ MaxEntries <= Limit)

LEMMA Bounds == /\ Limit \in Nat \ {0} /\ MaxTimeout \in Nat \ {0} /\ ToolTimeout \in Nat \ {0}
                /\ MaxRuns \in Nat \ {0} /\ 1 \in Runs /\ MaxEntries \in Nat
BY PeerOutputAssumption DEF Runs

Start == IF cursor = -1 THEN 0 ELSE cursor

TranscriptOK ==
  /\ transcript \in Seq(Seq(Kinds)) /\ Len(transcript) >= 1
  /\ \A r \in DOMAIN transcript : Len(transcript[r]) <= MaxEntries

WatchOK ==
  /\ clock \in Nat
  /\ Watching => /\ watch.run = 1 /\ watch.since = Start
                 /\ watch.deadline \in 1..MaxTimeout /\ clock <= watch.deadline

ShownOK == /\ cursor \in Nat \cup {-1} /\ first \in Nat /\ seen \in [Runs -> SUBSET Nat]
           /\ (first + 1)..Start \subseteq seen[1]

IInv == TranscriptOK /\ WatchOK /\ ShownOK

LEMMA InitIInv == Init => IInv
BY Bounds DEF Init, IInv, TranscriptOK, WatchOK, ShownOK, Watching, Start

LEMMA NewsIs ==
  ASSUME IInv, Watching
  PROVE  /\ News = {q \in 1..Len(transcript[1]) : q > Start /\ q <= Start + Limit}
         /\ Start \in Nat /\ Len(transcript[1]) \in Nat
<1>1. transcript[1] \in Seq(Kinds) /\ watch.run = 1 /\ watch.since = Start /\ Start \in Nat
  BY DEF IInv, TranscriptOK, WatchOK, ShownOK, Start
<1> QED
  BY <1>1 DEF News, EntriesSince

LEMMA Writes ==
  ASSUME TranscriptOK, (\E r \in Existing, k \in Kinds : PeerWrites(r, k)) \/ NewRun
  PROVE  TranscriptOK'
<1>1. ASSUME NEW r \in Existing, NEW k \in Kinds, PeerWrites(r, k) PROVE TranscriptOK'
  <2>1. r \in DOMAIN transcript /\ transcript[r] \in Seq(Kinds) /\ Len(transcript[r]) < MaxEntries
    BY <1>1 DEF Existing, TranscriptOK, PeerWrites
  <2>2. transcript[r] \o <<k>> \in Seq(Kinds) /\ transcript' = [transcript EXCEPT ![r] = transcript[r] \o <<k>>]
    BY <1>1, <2>1 DEF PeerWrites
  <2>3. Len(transcript[r] \o <<k>>) = Len(transcript[r]) + 1 /\ Len(transcript[r]) \in Nat
    BY <2>1
  <2> QED
    BY <2>1, <2>2, <2>3, Bounds DEF TranscriptOK
<1>2. CASE NewRun
  <2>1. transcript' = transcript \o <<<<>>>> /\ <<>> \in Seq(Kinds)
    BY <1>2 DEF NewRun
  <2> QED
    BY <2>1, Bounds DEF TranscriptOK
<1> QED
  BY <1>1, <1>2

(* The watch shows what lies between its start and the new cursor.           *)
LEMMA FoundStep == ASSUME IInv, Found PROVE IInv'
<1> DEFINE n == Len(transcript[1])
           m == Max(News)
<1>1. Watching /\ News # {} /\ watch.run = 1 /\ seen' = [seen EXCEPT ![1] = @ \cup News] /\ cursor' = m
      /\ watch' = NoWatch /\ clock' = 0 /\ UNCHANGED <<transcript, first>>
  BY DEF Found, Show, IInv, WatchOK
<1>2. /\ News = {q \in 1..n : q > Start /\ q <= Start + Limit} /\ Start \in Nat /\ n \in Nat
  BY <1>1, NewsIs
<1>3. m \in News /\ \A q \in News : q <= m
  <2> DEFINE hi == IF n < Start + Limit THEN n ELSE Start + Limit
  <2>1. hi \in News /\ \A q \in News : hi >= q
    BY <1>1, <1>2, Bounds
  <2> QED
    BY <2>1 DEF Max
<1>4. m \in Nat /\ m > Start /\ cursor' = m
  BY <1>1, <1>2, <1>3
<1>5. ASSUME NEW q \in (first + 1)..m, q > Start PROVE q \in News
  <2>1. m \in 1..n /\ m <= Start + Limit
    BY <1>2, <1>3
  <2> HIDE DEF m, n
  <2>2. q \in 1..n /\ q <= Start + Limit
    BY <1>2, <1>4, <1>5, <2>1, Bounds DEF IInv, ShownOK
  <2> QED
    BY <1>2, <1>5, <2>2
<1>6. Start' = m
  BY <1>4 DEF Start
<1>7. ShownOK'
  <2>1. News \subseteq Nat
    BY <1>2
  <2>2. seen' \in [Runs -> SUBSET Nat] /\ seen'[1] = seen[1] \cup News
    BY <1>1, <2>1, Bounds DEF IInv, ShownOK
  <2>3. ASSUME NEW q \in (first + 1)..m PROVE q \in seen'[1]
    <3>1. CASE q <= Start
      BY <1>2, <1>4, <2>2, <3>1 DEF IInv, ShownOK
    <3>2. CASE q > Start
      BY <1>5, <2>2, <3>2
    <3> QED
      BY <1>2, <1>4, <2>3, <3>1, <3>2 DEF IInv, ShownOK
  <2> QED
    BY <1>1, <1>4, <1>6, <2>2, <2>3 DEF IInv, ShownOK
<1>8. TranscriptOK' /\ WatchOK'
  BY <1>1 DEF IInv, TranscriptOK, WatchOK, Watching
<1> QED
  BY <1>7, <1>8 DEF IInv

(* Nothing to show means that the transcript ends where the watch began.     *)
LEMMA TimedOutStep == ASSUME IInv, TimedOut PROVE IInv'
<1> DEFINE n == Len(transcript[1])
<1>1. Watching /\ News = {} /\ watch.run = 1 /\ cursor' = n
      /\ watch' = NoWatch /\ clock' = 0 /\ UNCHANGED <<transcript, first, seen>>
  BY DEF TimedOut, MaxSeq, IInv, WatchOK
<1>2. /\ News = {q \in 1..n : q > Start /\ q <= Start + Limit} /\ Start \in Nat /\ n \in Nat
  BY <1>1, NewsIs
<1>3. n <= Start
  <2>1. Start + 1 \notin News
    BY <1>1
  <2> QED
    BY <1>2, <2>1, Bounds
<1>4. cursor' \in Nat /\ Start' = n
  BY <1>1, <1>2 DEF Start
<1>5. ShownOK'
  BY <1>1, <1>2, <1>3, <1>4 DEF IInv, ShownOK
<1>6. TranscriptOK' /\ WatchOK'
  BY <1>1 DEF IInv, TranscriptOK, WatchOK, Watching
<1> QED
  BY <1>5, <1>6 DEF IInv

(* A first read begins at the end of the run, and shows what it shows.       *)
LEMMA ReadFirstStep == ASSUME IInv, NamesRun, ReadFirst PROVE IInv'
<1>1. /\ seen' = [seen EXCEPT ![1] = @ \cup LastEntries(1, LastN)] /\ watch = NoWatch
      /\ cursor' = Len(transcript[1]) /\ first' = Len(transcript[1])
      /\ UNCHANGED <<transcript, watch, clock>>
  BY DEF ReadFirst, Calls, Show, Target, MaxSeq
<1>2. transcript[1] \in Seq(Kinds) /\ Len(transcript[1]) \in Nat
  BY DEF IInv, TranscriptOK
<1>3. LastEntries(1, LastN) \subseteq Nat
  BY <1>2 DEF LastEntries
<1>4. Start' = first'
  BY <1>1, <1>2 DEF Start
<1>5. ShownOK'
  BY <1>1, <1>2, <1>3, <1>4, Bounds DEF IInv, ShownOK
<1> QED
  BY <1>1, <1>5 DEF IInv, TranscriptOK, WatchOK, Watching

(* A read that goes on shows everything, of a run that fits in a reply.      *)
LEMMA ReadOnStep == ASSUME IInv, NamesRun, MaxEntries <= Limit, ReadOn PROVE IInv'
<1> DEFINE n == Len(transcript[1])
           shown == EntriesSince(1, cursor, Limit)
<1>1. /\ seen' = [seen EXCEPT ![1] = @ \cup shown] /\ watch = NoWatch
      /\ cursor >= 0 /\ cursor' = n /\ UNCHANGED <<transcript, first, watch, clock>>
  BY DEF ReadOn, Calls, Show, Target, MaxSeq
<1>2. transcript[1] \in Seq(Kinds) /\ n \in Nat /\ n <= Limit
  BY Bounds DEF IInv, TranscriptOK
<1>3. shown = {q \in 1..n : q > cursor} /\ cursor \in Nat /\ Start = cursor
  <2>1. cursor \in Nat /\ Start = cursor
    BY <1>1 DEF IInv, ShownOK, Start
  <2>2. shown = {q \in 1..n : q > cursor /\ q <= cursor + Limit}
    BY <1>2 DEF EntriesSince
  <2> QED
    BY <1>2, <2>1, <2>2, Bounds
<1>4. Start' = n
  BY <1>1, <1>2 DEF Start
<1>5. ShownOK'
  <2>1. seen' \in [Runs -> SUBSET Nat] /\ seen'[1] = seen[1] \cup shown
    BY <1>1, <1>3, Bounds DEF IInv, ShownOK
  <2>2. ASSUME NEW q \in (first + 1)..n PROVE q \in seen'[1]
    <3>1. q \in 1..n
      BY <1>2, <2>2 DEF IInv, ShownOK
    <3>2. CASE q <= cursor
      BY <1>3, <2>1, <2>2, <3>2 DEF IInv, ShownOK
    <3>3. CASE q > cursor
      BY <1>3, <2>1, <3>1, <3>3
    <3> QED
      BY <1>3, <3>1, <3>2, <3>3
  <2> QED
    BY <1>1, <1>2, <1>4, <2>1, <2>2 DEF IInv, ShownOK
<1> QED
  BY <1>1, <1>5 DEF IInv, TranscriptOK, WatchOK, Watching

LEMMA IInvStep == ASSUME IInv, Follows, [Next]_vars PROVE IInv'
<1>1. CASE (\E r \in Existing, k \in Kinds : PeerWrites(r, k)) \/ NewRun
  <2>1. TranscriptOK' /\ UNCHANGED <<cursor, first, seen, watch, clock>>
    BY <1>1, Writes DEF PeerWrites, NewRun, IInv
  <2> QED
    BY <2>1 DEF IInv, WatchOK, ShownOK, Watching, Start
<1>2. ASSUME NEW t \in 1..MaxTimeout, Watch(t) PROVE IInv'
  <2>1. /\ watch' = [run |-> Target, since |-> Start, deadline |-> t] /\ clock' = 0
        /\ UNCHANGED <<transcript, cursor, first, seen>> /\ Target = 1
    BY <1>2 DEF Watch, Follows, Target, Start
  <2> QED
    BY <2>1, Bounds DEF IInv, TranscriptOK, WatchOK, ShownOK, Start
<1>3. CASE Sleep
  <2>1. /\ Watching /\ clock < watch.deadline /\ clock' = clock + 1
        /\ UNCHANGED <<transcript, cursor, first, seen, watch>>
    BY <1>3 DEF Sleep
  <2> QED
    BY <2>1 DEF IInv, TranscriptOK, WatchOK, ShownOK, Watching, Start
<1>4. CASE UNCHANGED vars
  BY <1>4 DEF vars, IInv, TranscriptOK, WatchOK, ShownOK, Watching, Start
<1>5. CASE ReadOn
  BY <1>5, ReadOnStep DEF ReadOn, Follows
<1> QED
  BY <1>1, <1>2, <1>3, <1>4, <1>5, FoundStep, TimedOutStep, ReadFirstStep DEF Next, Follows

LEMMA AlwaysIInv == ASSUME Follows PROVE Spec => []IInv
<1>1. IInv /\ [Next]_vars => IInv'
  BY IInvStep
<1> QED
  BY <1>1, InitIInv, PTL DEF Spec

(* Whoever hands nextSeq on is shown every entry of the run between its first *)
(* reply and the last, however the peer's writes fall between the calls and  *)
(* the polls: with watches only, which return the seq of the last entry they *)
(* show, or when no run is longer than a reply (read_peer_output's 100).     *)
THEOREM FollowersSkipNothing == ASSUME Follows PROVE Spec => []NothingSkipped
<1>1. IInv => NothingSkipped
  BY DEF IInv, ShownOK, NothingSkipped, Start, Target, Follows
<1> QED
  BY <1>1, AlwaysIInv, PTL

(* A watch in progress, whatever else the agent calls.                       *)
DeadlineOK ==
  /\ clock \in Nat
  /\ Watching => watch.deadline \in 1..MaxTimeout /\ clock <= watch.deadline

(* A watch ends before the orchestrator's timeout of the tool call, as long  *)
(* as its longest timeout is below it (30 s against 60 s).                   *)
THEOREM WatchesAnswerInTime ==
  ASSUME MaxTimeout < ToolTimeout PROVE Spec => []WatchBeatsToolTimeout
<1>1. Init => DeadlineOK
  BY DEF Init, DeadlineOK, Watching
<1>2. ASSUME DeadlineOK, [Next]_vars PROVE DeadlineOK'
  <2>1. CASE UNCHANGED <<watch, clock>>
    BY <1>2, <2>1 DEF DeadlineOK, Watching
  <2>2. CASE Found \/ TimedOut
    BY <2>2 DEF Found, TimedOut, DeadlineOK, Watching
  <2>3. CASE Sleep
    <3>1. Watching /\ clock < watch.deadline /\ clock' = clock + 1 /\ UNCHANGED watch
      BY <2>3 DEF Sleep
    <3> QED
      BY <1>2, <3>1, Bounds DEF DeadlineOK, Watching
  <2>4. ASSUME NEW t \in 1..MaxTimeout, Watch(t) PROVE DeadlineOK'
    BY <2>4 DEF Watch, DeadlineOK
  <2>5. CASE \/ \E r \in Existing, k \in Kinds : PeerWrites(r, k)
             \/ NewRun \/ ReadFirst \/ ReadOn \/ UNCHANGED vars
    <3>1. UNCHANGED <<watch, clock>>
      BY <2>5 DEF PeerWrites, NewRun, ReadFirst, ReadOn, vars
    <3> QED
      BY <2>1, <3>1
  <2> QED
    BY <1>2, <2>2, <2>3, <2>4, <2>5 DEF Next
<1>3. DeadlineOK => WatchBeatsToolTimeout
  BY Bounds DEF DeadlineOK, WatchBeatsToolTimeout
<1> QED
  BY <1>1, <1>2, <1>3, PTL DEF Spec

-----------------------------------------------------------------------------
(* What agents tell each other.                                            *)

Message == [to : Agents, from : Agents, read : SUBSET Agents]

MessagesOK ==
    /\ messages \in Seq(Message)
    /\ \A m \in DOMAIN messages : messages[m].read \subseteq {messages[m].to}

\* A summary is one of a run that has finished, and what is still to be written of
\* an agent is later than what it has.
Summaries == {b \in blocks : b.key = "run_summary"}
SummariesOK ==
    /\ runs \in [IF setting = "summing" THEN Summarised ELSE Agents -> Nat]
    /\ \A b \in Summaries : b.agent \in DOMAIN runs /\ b.value \in 0..runs[b.agent]
    /\ \A b, c \in Summaries : b.agent = c.agent => b.value = c.value
    /\ \A p \in pending :
          /\ p[1] \in DOMAIN runs /\ p[2] \in 0..runs[p[1]]
          /\ \A b \in Summaries : b.agent = p[1] => b.value <= p[2]
    /\ pending = {} \/ \E p \in pending : pending = {p}

ContextOK ==
    /\ context.size <= Window \/ context.kept \subseteq {"mounted"}
    /\ \A i, j \in DOMAIN Telling!DropOrder :
          (i < j /\ Telling!DropOrder[j] \in context.dropped) => Telling!DropOrder[i] \notin context.kept

MemoryOK == MessagesOK /\ SummariesOK /\ ContextOK

Living(b) == b.expires = 0 \/ b.expires > now

\* The three things no step may do.
ShowsNoSecret ==
    context'.agent \in Agents =>
        \A b \in context'.shown :
            b \in blocks /\ Living(b) /\ (b.agent = context'.agent \/ b.scope = "workspace")
KeepsLiving ==
    \A b \in blocks : Living(b) => \E c \in blocks' : c.agent = b.agent /\ c.key = b.key
GoesForward ==
    \A b \in blocks, c \in blocks' :
        (b.key = "run_summary" /\ c.key = "run_summary" /\ b.agent = c.agent) => b.value <= c.value

\* A step that leaves the blocks, or takes some away.
LEMMA FewerBlocks ==
    ASSUME SummariesOK, setting' = setting, blocks' \subseteq blocks, runs' = runs, pending' \subseteq pending
    PROVE  SummariesOK' /\ GoesForward
<1>1. Summaries' \subseteq Summaries
  BY DEF Summaries
<1>2. GoesForward
  BY DEF GoesForward, SummariesOK, Summaries
<1> QED
  BY <1>1, <1>2 DEF SummariesOK

\* A step that writes a block of one agent.
LEMMA NewBlock ==
    ASSUME SummariesOK, setting' = setting, runs' = runs, pending' \subseteq pending,
           NEW agent, NEW key, NEW value,
           \A c \in blocks' : IF c.agent = agent /\ c.key = key THEN c.value = value ELSE c \in blocks,
           key = "run_summary" =>
               \E p \in pending : p[1] = agent /\ p[2] = value /\ pending' = pending \ {p}
    PROVE  SummariesOK' /\ GoesForward
<1>1. CASE key # "run_summary"
  <2>1. \A c \in blocks' : c.key = "run_summary" => c \in blocks
    BY <1>1
  <2>2. Summaries' \subseteq Summaries
    BY <2>1 DEF Summaries
  <2>3. GoesForward
    BY <2>1 DEF GoesForward, SummariesOK, Summaries
  <2> QED
    BY <2>2, <2>3 DEF SummariesOK
<1>2. CASE key = "run_summary"
  <2>1. PICK p \in pending : p[1] = agent /\ p[2] = value /\ pending' = pending \ {p}
    BY <1>2
  <2>2. /\ pending' = {} /\ agent \in DOMAIN runs /\ value \in 0..runs[agent]
        /\ \A b \in Summaries : b.agent = agent => b.value <= value
    BY <2>1 DEF SummariesOK
  <2>3. \A c \in Summaries' : IF c.agent = agent THEN c.value = value ELSE c \in Summaries
    BY <1>2 DEF Summaries
  <2>4. GoesForward
    <3> SUFFICES ASSUME NEW b \in Summaries, NEW c \in Summaries', b.agent = c.agent
                 PROVE  b.value <= c.value
      BY DEF GoesForward, Summaries
    <3>1. CASE c.agent = agent
      BY <2>2, <2>3, <3>1
    <3>2. CASE c.agent # agent
      BY <2>3, <3>2 DEF SummariesOK
    <3> QED
      BY <3>1, <3>2
  <2>5. \A b \in Summaries' : b.agent \in DOMAIN runs' /\ b.value \in 0..runs'[b.agent]
    BY <2>2, <2>3 DEF SummariesOK
  <2>6. \A b, c \in Summaries' : b.agent = c.agent => b.value = c.value
    BY <2>3 DEF SummariesOK
  <2> QED
    BY <2>2, <2>4, <2>5, <2>6 DEF SummariesOK
<1> QED
  BY <1>1, <1>2

\* Induction over the natural numbers, of sets.
Below == {p \in Nat \X Nat : p[1] < p[2]}

LEMMA LeastNat == ASSUME NEW T \in SUBSET Nat, T # {} PROVE \E n \in T : \A k \in T : ~(k < n)
<1>1. IsWellFoundedOn(Below, Nat)
  BY NatLessThanWellFounded DEF OpToRel, Below
<1>2. \A x, y \in Nat : x < y => <<x, y>> \in Below
  BY DEF Below
<1>3. \E x \in T : \A y \in T : <<y, x>> \notin Below
  BY <1>1, WFMin
<1> QED
  BY <1>2, <1>3

-----------------------------------------------------------------------------
(* The steps of Telling.                                                   *)

LEMMA TellingKeys == \A key \in Keys : Telling!Stored(key) # "run_summary"
BY MemoryAssumption DEF Telling!AgentMemoryAssumption, Telling!Stored

LEMMA TellingUpserts ==
    ASSUME NEW agent, NEW key, NEW scope, NEW expires, NEW value,
           blocks' = Telling!Upsert(agent, key, scope, expires, value)
    PROVE  /\ \A c \in blocks' : IF c.agent = agent /\ c.key = key THEN c.value = value ELSE c \in blocks
           /\ KeepsLiving
<1> DEFINE old == {b \in blocks : b.agent = agent /\ b.key = key}
           v == IF old = {} THEN 1 ELSE (CHOOSE b \in old : TRUE).version + 1
           new == [agent |-> agent, key |-> key, scope |-> scope, expires |-> expires,
                   value |-> value, version |-> v]
<1>1. blocks' = (blocks \ old) \cup {new}
  BY DEF Telling!Upsert, Telling!At
<1>2. new.agent = agent /\ new.key = key /\ new.value = value
  OBVIOUS
<1> HIDE DEF new
<1>3. \A c \in blocks' : IF c.agent = agent /\ c.key = key THEN c.value = value ELSE c \in blocks
  BY <1>1, <1>2
<1>4. KeepsLiving
  BY <1>1, <1>2 DEF KeepsLiving
<1> QED
  BY <1>3, <1>4

\* Nothing is shown.
LEMMA TellingSilent ==
    ASSUME Telling!Silent \/ context' = Telling!NoContext
    PROVE  ShowsNoSecret /\ ContextOK'
<1>1. Window \in Nat
  BY MemoryAssumption DEF Telling!AgentMemoryAssumption
<1>2. context' = [agent |-> "none", kept |-> {}, dropped |-> {}, size |-> 0, shown |-> {}]
  BY DEF Telling!Silent, Telling!NoContext
<1>3. context'.kept = {} /\ context'.dropped = {} /\ context'.size = 0 /\ context'.shown = {}
  BY <1>2
<1> QED
  BY <1>1, <1>3 DEF ShowsNoSecret, ContextOK

\* A step that touches no block and no run.
LEMMA TellingLeaves ==
    ASSUME MemoryOK, setting' = setting, UNCHANGED <<blocks, runs, pending>>
    PROVE  SummariesOK' /\ GoesForward /\ KeepsLiving
BY FewerBlocks DEF MemoryOK, KeepsLiving

LEMMA TellingWrites ==
    ASSUME MemoryOK, setting' = setting, NEW agent, NEW key \in Keys, NEW scope, NEW ttl,
           Telling!WriteMemory(agent, key, scope, ttl)
    PROVE  MemoryOK' /\ ShowsNoSecret /\ KeepsLiving /\ GoesForward
<1>1. /\ blocks' = Telling!Upsert(agent, Telling!Stored(key), scope, IF ttl = 0 THEN 0 ELSE now + ttl, 0)
      /\ UNCHANGED <<messages, runs, pending>> /\ Telling!Silent
  BY DEF Telling!WriteMemory
<1>2. Telling!Stored(key) # "run_summary"
  BY TellingKeys
<1> DEFINE stored == Telling!Stored(key)
           until == IF ttl = 0 THEN 0 ELSE now + ttl
<1>3. blocks' = Telling!Upsert(agent, stored, scope, until, 0) /\ stored # "run_summary"
  BY <1>1, <1>2
<1> HIDE DEF stored, until
<1>4. /\ \A c \in blocks' : IF c.agent = agent /\ c.key = stored THEN c.value = 0 ELSE c \in blocks
      /\ KeepsLiving
  BY <1>3, TellingUpserts
<1>5. SummariesOK' /\ GoesForward
  BY <1>1, <1>3, <1>4, NewBlock DEF MemoryOK
<1> QED
  BY <1>1, <1>4, <1>5, TellingSilent DEF MemoryOK, MessagesOK

LEMMA TellingDeletes ==
    ASSUME MemoryOK, setting' = setting, NEW agent, NEW key, Telling!DeleteMemory(agent, key)
    PROVE  MemoryOK' /\ ShowsNoSecret /\ GoesForward
<1>1. blocks' \subseteq blocks /\ UNCHANGED <<messages, runs, pending>> /\ context' = Telling!NoContext
  BY DEF Telling!DeleteMemory
<1> QED
  BY <1>1, TellingSilent, FewerBlocks DEF MemoryOK, MessagesOK

LEMMA TellingReads ==
    ASSUME MemoryOK, setting' = setting, NEW agent, NEW scope \in Telling!Scopes \cup {"any"},
           Telling!ReadMemory(agent, scope)
    PROVE  MemoryOK' /\ ShowsNoSecret /\ KeepsLiving /\ GoesForward
<1> DEFINE r == [Telling!NoContext EXCEPT !.agent = agent]
<1>1. /\ context' = [r EXCEPT !.shown = Telling!Readable(agent, scope)]
      /\ UNCHANGED <<blocks, messages, runs, pending>>
  BY DEF Telling!ReadMemory
<1>2. "shown" \in DOMAIN r /\ r.agent = agent /\ r.kept = {} /\ r.dropped = {} /\ r.size = 0
  BY DEF Telling!NoContext
<1> HIDE DEF r
<1>3. /\ context'.shown = Telling!Readable(agent, scope) /\ context'.agent = agent
      /\ context'.kept = {} /\ context'.dropped = {} /\ context'.size = 0
  BY <1>1, <1>2
<1>6. ContextOK'
  BY <1>3, MemoryAssumption DEF ContextOK, Telling!AgentMemoryAssumption
<1>4. \A b \in Telling!Readable(agent, scope) :
          b \in blocks /\ Living(b) /\ (b.agent = agent \/ b.scope = "workspace")
  BY DEF Telling!Readable, Telling!Scopes, Telling!OwnBlocks, Telling!WorkspaceBlocks, Telling!Alive, Living
<1>5. ShowsNoSecret
  BY <1>3, <1>4 DEF ShowsNoSecret
<1> QED
  BY <1>1, <1>5, <1>6, TellingLeaves DEF MemoryOK, MessagesOK

\* The cut: all that can be dropped has been, or what was dropped is the shortest
\* beginning of DropOrder after which the rest fits.
LEMMA TellingCuts ==
    ASSUME NEW sizes
    PROVE  LET kept == Telling!Cut(sizes) dropped == Telling!Items(sizes) \ kept IN
           /\ Telling!Total(sizes, kept) <= Window \/ kept \subseteq {"mounted"}
           /\ \A i, j \in DOMAIN Telling!DropOrder :
                 (i < j /\ Telling!DropOrder[j] \in dropped) => Telling!DropOrder[i] \notin kept
<1> DEFINE order == Telling!DropOrder
           items == Telling!Items(sizes)
           After(n) == items \ {order[j] : j \in 1..n}
           Fits(n) == Telling!Total(sizes, After(n)) <= Window
           kept == Telling!Cut(sizes)
<1>1. /\ DOMAIN order = 1..7
      /\ \A i, j \in 1..7 : order[i] = order[j] => i = j
      /\ items \subseteq {order[i] : i \in 1..7} \cup {"mounted"}
  <2>1. DOMAIN order = 1..7 /\ \A i, j \in 1..7 : order[i] = order[j] => i = j
    BY DEF Telling!DropOrder
  <2>2. items \subseteq Telling!ToSet(order) \cup {"mounted"}
    BY DEF Telling!Items, Telling!ItemNames
  <2> QED
    BY <2>1, <2>2 DEF Telling!ToSet
<1>2. kept = {i \in items : \A n \in 1..7 : i = order[n] => \E k \in 0..(n - 1) : Fits(k)}
  BY <1>1 DEF Telling!Cut
<1> HIDE DEF order, items, kept, Fits
<1>3. \A i, j \in 1..7 : (i < j /\ order[j] \in items \ kept) => order[i] \notin kept
  <2> SUFFICES ASSUME NEW i \in 1..7, NEW j \in 1..7, i < j, order[j] \in items \ kept
               PROVE  order[i] \notin kept
    OBVIOUS
  <2>1. PICK n \in 1..7 : order[j] = order[n] /\ \A k \in 0..(n - 1) : ~Fits(k)
    BY <1>2
  <2>2. \A k \in 0..(i - 1) : ~Fits(k)
    BY <1>1, <2>1
  <2> QED
    BY <1>2, <2>2
<1>4. CASE \A k \in 0..6 : ~Fits(k)
  <2>1. \A n \in 1..7 : order[n] \notin kept
    BY <1>2, <1>4
  <2>2. kept \subseteq {"mounted"}
    BY <1>1, <1>2, <2>1
  <2> QED
    BY <1>1, <1>3, <2>2 DEF order, items, kept
<1>5. CASE \E k \in 0..6 : Fits(k)
  <2>1. PICK least \in 0..6 : Fits(least) /\ \A k \in 0..6 : Fits(k) => ~(k < least)
    <3> DEFINE T == {k \in 0..6 : Fits(k)}
    <3>1. T \in SUBSET Nat /\ T # {}
      BY <1>5
    <3> QED
      BY <3>1, LeastNat
  <2>2. \A n \in 1..7 : order[n] \in kept <=> order[n] \in items /\ least < n
    <3> SUFFICES ASSUME NEW n \in 1..7, order[n] \in items
                 PROVE  order[n] \in kept <=> least < n
      BY <1>2
    <3>1. order[n] \in kept <=> \E k \in 0..(n - 1) : Fits(k)
      BY <1>1, <1>2
    <3> QED
      BY <2>1, <3>1
  <2>3. kept = After(least)
    <3>1. \A i \in items : i \in kept <=> i \in After(least)
      <4> SUFFICES ASSUME NEW i \in items PROVE i \in kept <=> i \in After(least)
        OBVIOUS
      <4>1. CASE \E n \in 1..7 : i = order[n]
        BY <1>1, <2>1, <2>2, <4>1
      <4>2. CASE ~\E n \in 1..7 : i = order[n]
        BY <1>2, <2>1, <4>2
      <4> QED
        BY <4>1, <4>2
    <3> QED
      BY <1>2, <3>1
  <2>4. Telling!Total(sizes, kept) <= Window
    BY <2>1, <2>3 DEF Fits
  <2> QED
    BY <1>1, <1>3, <2>4 DEF order, items, kept
<1> QED
  BY <1>4, <1>5

LEMMA TellingLoads ==
    ASSUME MemoryOK, setting' = setting, NEW agent, Telling!LoadContext(agent)
    PROVE  MemoryOK' /\ ShowsNoSecret /\ KeepsLiving /\ GoesForward
<1> DEFINE kept == Telling!Cut(Telling!Sizes(agent))
           shown == (IF "workspace-memory" \in kept THEN Telling!WorkspaceBlocks ELSE {})
                    \cup (IF "private-memory" \in kept
                          THEN {b \in Telling!OwnBlocks(agent) : b.scope = "private"} ELSE {})
<1>4. ContextOK'
  <2> DEFINE sizes == Telling!Sizes(agent)
             cut == Telling!Cut(sizes)
  <2>1. /\ context'.kept = cut /\ context'.dropped = Telling!Items(sizes) \ cut
        /\ context'.size = Telling!Total(sizes, cut)
    BY DEF Telling!LoadContext
  <2> HIDE DEF sizes
  <2>2. Telling!DropOrder = Telling!DropOrder
    BY DEF Telling!DropOrder, Telling!DropOrder
  <2> QED
    BY <2>1, <2>2, TellingCuts DEF ContextOK
<1> HIDE DEF kept
<1>1. /\ context'.agent = agent /\ context'.shown = shown
      /\ UNCHANGED <<blocks, messages, runs, pending>>
  BY DEF Telling!LoadContext, kept
<1>2. \A b \in shown : b \in blocks /\ Living(b) /\ (b.agent = agent \/ b.scope = "workspace")
  BY DEF Telling!OwnBlocks, Telling!WorkspaceBlocks, Telling!Alive, Living
<1>3. ShowsNoSecret
  BY <1>1, <1>2 DEF ShowsNoSecret
<1> QED
  BY <1>1, <1>3, <1>4, TellingLeaves DEF MemoryOK, MessagesOK

LEMMA TellingSends ==
    ASSUME MemoryOK, setting' = setting, NEW agent \in Agents, NEW other \in Agents, Telling!Send(agent, other)
    PROVE  MemoryOK' /\ ShowsNoSecret /\ KeepsLiving /\ GoesForward
<1> DEFINE new == [to |-> other, from |-> agent, read |-> {}]
<1>1. UNCHANGED <<blocks, runs, pending>> /\ Telling!Silent /\ messages' = messages \o <<new>>
  BY DEF Telling!Send
<1>2. new \in Message /\ new.read = {}
  BY DEF Message
<1> HIDE DEF new
<1>3. messages \in Seq(Message) /\ messages' = Append(messages, new)
  BY <1>1, <1>2 DEF MemoryOK, MessagesOK
<1>4. MessagesOK'
  BY <1>2, <1>3 DEF MemoryOK, MessagesOK
<1> QED
  BY <1>1, <1>4, TellingSilent, TellingLeaves DEF MemoryOK

LEMMA TellingMarks ==
    ASSUME MemoryOK, setting' = setting, NEW agent \in Agents, NEW m \in DOMAIN messages, Telling!MarkRead(agent, m)
    PROVE  MemoryOK' /\ ShowsNoSecret /\ KeepsLiving /\ GoesForward
<1>1. UNCHANGED <<blocks, runs, pending>> /\ Telling!Silent
  BY DEF Telling!MarkRead
<1>2. /\ messages \in Seq(Message) /\ messages[m] \in Message /\ messages[m].read \subseteq {messages[m].to}
      /\ m \in 1..Len(messages)
  BY ElementOfSeq DEF MemoryOK, MessagesOK
<1>3. CASE messages[m].to # agent
  BY <1>1, <1>3, TellingSilent, TellingLeaves DEF Telling!MarkRead, MemoryOK, MessagesOK
<1>4. CASE messages[m].to = agent
  <2> DEFINE new == [messages[m] EXCEPT !.read = messages[m].read \cup {agent}]
  <2>1. messages' = [messages EXCEPT ![m] = new]
    BY <1>4 DEF Telling!MarkRead
  <2>2. new \in Message /\ new.read \subseteq {new.to}
    BY <1>2, <1>4 DEF Message
  <2> HIDE DEF new
  <2>3. messages' \in Seq(Message) /\ DOMAIN messages' = DOMAIN messages
        /\ \A n \in DOMAIN messages : messages'[n] = IF n = m THEN new ELSE messages[n]
    BY <1>2, <2>1, <2>2, ExceptSeq
  <2>4. MessagesOK'
    BY <2>2, <2>3 DEF MemoryOK, MessagesOK
  <2> QED
    BY <1>1, <2>4, TellingSilent, TellingLeaves DEF MemoryOK
<1> QED
  BY <1>3, <1>4

LEMMA TellingFinishes ==
    ASSUME MemoryOK, setting' = setting, NEW agent \in DOMAIN runs, Telling!FinishRun(agent)
    PROVE  MemoryOK' /\ ShowsNoSecret /\ KeepsLiving /\ GoesForward
<1>1. UNCHANGED <<blocks, messages>> /\ Telling!Silent /\ runs' = [runs EXCEPT ![agent] = runs[agent] + 1]
  BY DEF Telling!FinishRun
<1>2. /\ runs[agent] \in Nat /\ DOMAIN runs' = DOMAIN runs
      /\ runs' \in [IF setting = "summing" THEN Summarised ELSE Agents -> Nat]
      /\ \A a \in DOMAIN runs : runs[a] <= runs'[a] /\ runs[a] \in Nat
      /\ runs'[agent] = runs[agent] + 1
  BY <1>1 DEF MemoryOK, SummariesOK
<1>3. Summaries' = Summaries /\ KeepsLiving /\ GoesForward
  BY <1>1, FewerBlocks DEF Summaries, KeepsLiving, GoesForward, MemoryOK, SummariesOK
<1>4. CASE pending' = pending
  BY <1>1, <1>2, <1>3, <1>4, TellingSilent DEF MemoryOK, MessagesOK, SummariesOK
<1>5. CASE pending' = pending \cup {<<agent, runs'[agent]>>} /\ Telling!Cardinality(pending) < 1
  <2>1. pending = {}
    <3>1. \A p : Telling!Cardinality({p}) = 1
      BY FS_Singleton DEF Telling!Cardinality, Cardinality
    <3> QED
      <4>1. ASSUME NEW p \in pending, pending = {p} PROVE FALSE
        <5>1. Telling!Cardinality(pending) = 1
          BY <3>1, <4>1
        <5> QED
          BY <1>5, <5>1
      <4> QED
        BY <4>1 DEF MemoryOK, SummariesOK
  <2> DEFINE p == <<agent, runs'[agent]>>
  <2>2. p[1] = agent /\ p[2] = runs'[agent]
    OBVIOUS
  <2>3. pending' = {p}
    BY <1>5, <2>1
  <2> HIDE DEF p
  <2> QED
    BY <1>1, <1>2, <1>3, <2>2, <2>3, TellingSilent DEF MemoryOK, MessagesOK, SummariesOK
<1> QED
  BY <1>4, <1>5 DEF Telling!FinishRun

LEMMA TellingSummarises ==
    ASSUME MemoryOK, setting' = setting, NEW agent, NEW run,
           Telling!SummaryArrives(agent, run) \/ Telling!SummaryFails(agent, run)
    PROVE  MemoryOK' /\ ShowsNoSecret /\ KeepsLiving /\ GoesForward
<1> DEFINE p == <<agent, run>>
<1>1. p \in pending /\ pending' = pending \ {p} /\ UNCHANGED <<messages, runs>> /\ Telling!Silent
  BY DEF Telling!SummaryArrives, Telling!SummaryFails
<1>2. p[1] = agent /\ p[2] = run
  OBVIOUS
<1> HIDE DEF p
<1>3. CASE Telling!SummaryFails(agent, run)
  <2>1. blocks' = blocks
    BY <1>3 DEF Telling!SummaryFails
  <2> QED
    BY <1>1, <2>1, TellingSilent, FewerBlocks DEF MemoryOK, MessagesOK, KeepsLiving
<1>4. CASE Telling!SummaryArrives(agent, run)
  <2>1. blocks' = Telling!Upsert(agent, "run_summary", "private", 0, run)
    BY <1>4 DEF Telling!SummaryArrives
  <2>2. /\ KeepsLiving
        /\ \A c \in blocks' : IF c.agent = agent /\ c.key = "run_summary" THEN c.value = run ELSE c \in blocks
    BY <2>1, TellingUpserts
  <2>3. SummariesOK' /\ GoesForward
    <3>1. \E q \in pending : q[1] = agent /\ q[2] = run /\ pending' = pending \ {q}
      BY <1>1, <1>2
    <3>2. SummariesOK /\ setting' = setting /\ runs' = runs /\ pending' \subseteq pending
      BY <1>1 DEF MemoryOK
    <3> DEFINE key == "run_summary"
    <3>3. \A c \in blocks' : IF c.agent = agent /\ c.key = key THEN c.value = run ELSE c \in blocks
      BY <2>2
    <3> HIDE DEF key
    <3> QED
      BY <3>1, <3>2, <3>3, NewBlock
  <2> QED
    BY <1>1, <2>2, <2>3, TellingSilent DEF MemoryOK, MessagesOK
<1> QED
  BY <1>3, <1>4

LEMMA TellingStep ==
    ASSUME MemoryOK, setting' = setting, DOMAIN runs = Agents, Telling!Next
    PROVE  /\ MemoryOK' /\ ShowsNoSecret /\ GoesForward
           /\ KeepsLiving \/ \E a \in Agents, k \in Keys : Telling!DeleteMemory(a, k)
<1>0. Agents \subseteq Agents
  BY MemoryAssumption
<1>1. CASE \E a \in Agents, k \in Keys : \E scope \in Telling!Scopes, ttl \in 0..1 : Telling!WriteMemory(a, k, scope, ttl)
  BY <1>1, TellingWrites
<1>2. CASE \E a \in Agents, k \in Keys : Telling!DeleteMemory(a, k)
  <2>1. PICK a \in Agents, k \in Keys : Telling!DeleteMemory(a, k)
    BY <1>2
  <2>2. Telling!DeleteMemory(a, k)
    BY <2>1 DEF Telling!DeleteMemory, Telling!DeleteMemory, Telling!At, Telling!At, Telling!Trimmed,
       Telling!Trimmed,
                Telling!Stored, Telling!Stored, Telling!NoContext, Telling!NoContext
  <2> QED
    BY <1>0, <2>1, <2>2, TellingDeletes
<1>3. CASE \E a \in Agents, scope \in Telling!Scopes \cup {"any"} : Telling!ReadMemory(a, scope)
  BY <1>3, TellingReads
<1>4. CASE \E a, b \in Agents : Telling!Send(a, b)
  BY <1>0, <1>4, TellingSends
<1>5. CASE \E a \in Agents, m \in DOMAIN messages : Telling!MarkRead(a, m)
  BY <1>0, <1>5, TellingMarks
<1>6. CASE \E k \in Keys : Telling!UpdateShared(k)
  <2>1. UNCHANGED <<blocks, messages, runs, pending>> /\ Telling!Silent
    BY <1>6 DEF Telling!UpdateShared
  <2> QED
    BY <2>1, TellingSilent, TellingLeaves DEF MemoryOK, MessagesOK
<1>7. CASE \E a \in Agents : Telling!FinishRun(a) \/ Telling!LoadContext(a)
  BY <1>7, TellingFinishes, TellingLoads
<1>8. CASE \E a \in Agents, r \in 1..0 : Telling!SummaryArrives(a, r) \/ Telling!SummaryFails(a, r)
  BY <1>8, TellingSummarises
<1>9. CASE Telling!Purge
  <2>1. /\ blocks' = {b \in blocks : Living(b)} /\ Telling!Silent
        /\ UNCHANGED <<messages, runs, pending>>
    BY <1>9 DEF Telling!Purge, Telling!Alive, Living
  <2>2. blocks' \subseteq blocks /\ KeepsLiving
    BY <2>1 DEF KeepsLiving
  <2> QED
    BY <2>1, <2>2, TellingSilent, FewerBlocks DEF MemoryOK, MessagesOK
<1>10. CASE Telling!Tick
  <2>1. UNCHANGED <<blocks, messages, runs, pending>> /\ Telling!Silent
    BY <1>10 DEF Telling!Tick
  <2> QED
    BY <2>1, TellingSilent, TellingLeaves DEF MemoryOK, MessagesOK
<1> QED
  BY <1>1, <1>2, <1>3, <1>4, <1>5, <1>6, <1>7, <1>8, <1>9, <1>10 DEF Telling!Next

-----------------------------------------------------------------------------
(* The steps of Summing.                                                   *)

LEMMA SummingKeys == \A key \in Keys : Summing!Stored(key) # "run_summary"
BY MemoryAssumption DEF Summing!AgentMemoryAssumption, Summing!Stored

LEMMA SummingUpserts ==
    ASSUME NEW agent, NEW key, NEW scope, NEW expires, NEW value,
           blocks' = Summing!Upsert(agent, key, scope, expires, value)
    PROVE  /\ \A c \in blocks' : IF c.agent = agent /\ c.key = key THEN c.value = value ELSE c \in blocks
           /\ KeepsLiving
<1> DEFINE old == {b \in blocks : b.agent = agent /\ b.key = key}
           v == IF old = {} THEN 1 ELSE (CHOOSE b \in old : TRUE).version + 1
           new == [agent |-> agent, key |-> key, scope |-> scope, expires |-> expires,
                   value |-> value, version |-> v]
<1>1. blocks' = (blocks \ old) \cup {new}
  BY DEF Summing!Upsert, Summing!At
<1>2. new.agent = agent /\ new.key = key /\ new.value = value
  OBVIOUS
<1> HIDE DEF new
<1>3. \A c \in blocks' : IF c.agent = agent /\ c.key = key THEN c.value = value ELSE c \in blocks
  BY <1>1, <1>2
<1>4. KeepsLiving
  BY <1>1, <1>2 DEF KeepsLiving
<1> QED
  BY <1>3, <1>4

\* Nothing is shown.
LEMMA SummingSilent ==
    ASSUME Summing!Silent \/ context' = Summing!NoContext
    PROVE  ShowsNoSecret /\ ContextOK'
<1>1. Window \in Nat
  BY MemoryAssumption DEF Summing!AgentMemoryAssumption
<1>2. context' = [agent |-> "none", kept |-> {}, dropped |-> {}, size |-> 0, shown |-> {}]
  BY DEF Summing!Silent, Summing!NoContext
<1>3. context'.kept = {} /\ context'.dropped = {} /\ context'.size = 0 /\ context'.shown = {}
  BY <1>2
<1> QED
  BY <1>1, <1>3 DEF ShowsNoSecret, ContextOK

\* A step that touches no block and no run.
LEMMA SummingLeaves ==
    ASSUME MemoryOK, setting' = setting, UNCHANGED <<blocks, runs, pending>>
    PROVE  SummariesOK' /\ GoesForward /\ KeepsLiving
BY FewerBlocks DEF MemoryOK, KeepsLiving

LEMMA SummingWrites ==
    ASSUME MemoryOK, setting' = setting, NEW agent, NEW key \in Keys, NEW scope, NEW ttl,
           Summing!WriteMemory(agent, key, scope, ttl)
    PROVE  MemoryOK' /\ ShowsNoSecret /\ KeepsLiving /\ GoesForward
<1>1. /\ blocks' = Summing!Upsert(agent, Summing!Stored(key), scope, IF ttl = 0 THEN 0 ELSE now + ttl, 0)
      /\ UNCHANGED <<messages, runs, pending>> /\ Summing!Silent
  BY DEF Summing!WriteMemory
<1>2. Summing!Stored(key) # "run_summary"
  BY SummingKeys
<1> DEFINE stored == Summing!Stored(key)
           until == IF ttl = 0 THEN 0 ELSE now + ttl
<1>3. blocks' = Summing!Upsert(agent, stored, scope, until, 0) /\ stored # "run_summary"
  BY <1>1, <1>2
<1> HIDE DEF stored, until
<1>4. /\ \A c \in blocks' : IF c.agent = agent /\ c.key = stored THEN c.value = 0 ELSE c \in blocks
      /\ KeepsLiving
  BY <1>3, SummingUpserts
<1>5. SummariesOK' /\ GoesForward
  BY <1>1, <1>3, <1>4, NewBlock DEF MemoryOK
<1> QED
  BY <1>1, <1>4, <1>5, SummingSilent DEF MemoryOK, MessagesOK

LEMMA SummingDeletes ==
    ASSUME MemoryOK, setting' = setting, NEW agent, NEW key, Summing!DeleteMemory(agent, key)
    PROVE  MemoryOK' /\ ShowsNoSecret /\ GoesForward
<1>1. blocks' \subseteq blocks /\ UNCHANGED <<messages, runs, pending>> /\ context' = Summing!NoContext
  BY DEF Summing!DeleteMemory
<1> QED
  BY <1>1, SummingSilent, FewerBlocks DEF MemoryOK, MessagesOK

LEMMA SummingReads ==
    ASSUME MemoryOK, setting' = setting, NEW agent, NEW scope \in Summing!Scopes \cup {"any"},
           Summing!ReadMemory(agent, scope)
    PROVE  MemoryOK' /\ ShowsNoSecret /\ KeepsLiving /\ GoesForward
<1> DEFINE r == [Summing!NoContext EXCEPT !.agent = agent]
<1>1. /\ context' = [r EXCEPT !.shown = Summing!Readable(agent, scope)]
      /\ UNCHANGED <<blocks, messages, runs, pending>>
  BY DEF Summing!ReadMemory
<1>2. "shown" \in DOMAIN r /\ r.agent = agent /\ r.kept = {} /\ r.dropped = {} /\ r.size = 0
  BY DEF Summing!NoContext
<1> HIDE DEF r
<1>3. /\ context'.shown = Summing!Readable(agent, scope) /\ context'.agent = agent
      /\ context'.kept = {} /\ context'.dropped = {} /\ context'.size = 0
  BY <1>1, <1>2
<1>6. ContextOK'
  BY <1>3, MemoryAssumption DEF ContextOK, Summing!AgentMemoryAssumption
<1>4. \A b \in Summing!Readable(agent, scope) :
          b \in blocks /\ Living(b) /\ (b.agent = agent \/ b.scope = "workspace")
  BY DEF Summing!Readable, Summing!Scopes, Summing!OwnBlocks, Summing!WorkspaceBlocks, Summing!Alive, Living
<1>5. ShowsNoSecret
  BY <1>3, <1>4 DEF ShowsNoSecret
<1> QED
  BY <1>1, <1>5, <1>6, SummingLeaves DEF MemoryOK, MessagesOK

\* The cut: all that can be dropped has been, or what was dropped is the shortest
\* beginning of DropOrder after which the rest fits.
LEMMA SummingCuts ==
    ASSUME NEW sizes
    PROVE  LET kept == Summing!Cut(sizes) dropped == Summing!Items(sizes) \ kept IN
           /\ Summing!Total(sizes, kept) <= Window \/ kept \subseteq {"mounted"}
           /\ \A i, j \in DOMAIN Summing!DropOrder :
                 (i < j /\ Summing!DropOrder[j] \in dropped) => Summing!DropOrder[i] \notin kept
<1> DEFINE order == Summing!DropOrder
           items == Summing!Items(sizes)
           After(n) == items \ {order[j] : j \in 1..n}
           Fits(n) == Summing!Total(sizes, After(n)) <= Window
           kept == Summing!Cut(sizes)
<1>1. /\ DOMAIN order = 1..7
      /\ \A i, j \in 1..7 : order[i] = order[j] => i = j
      /\ items \subseteq {order[i] : i \in 1..7} \cup {"mounted"}
  <2>1. DOMAIN order = 1..7 /\ \A i, j \in 1..7 : order[i] = order[j] => i = j
    BY DEF Summing!DropOrder
  <2>2. items \subseteq Summing!ToSet(order) \cup {"mounted"}
    BY DEF Summing!Items, Summing!ItemNames
  <2> QED
    BY <2>1, <2>2 DEF Summing!ToSet
<1>2. kept = {i \in items : \A n \in 1..7 : i = order[n] => \E k \in 0..(n - 1) : Fits(k)}
  BY <1>1 DEF Summing!Cut
<1> HIDE DEF order, items, kept, Fits
<1>3. \A i, j \in 1..7 : (i < j /\ order[j] \in items \ kept) => order[i] \notin kept
  <2> SUFFICES ASSUME NEW i \in 1..7, NEW j \in 1..7, i < j, order[j] \in items \ kept
               PROVE  order[i] \notin kept
    OBVIOUS
  <2>1. PICK n \in 1..7 : order[j] = order[n] /\ \A k \in 0..(n - 1) : ~Fits(k)
    BY <1>2
  <2>2. \A k \in 0..(i - 1) : ~Fits(k)
    BY <1>1, <2>1
  <2> QED
    BY <1>2, <2>2
<1>4. CASE \A k \in 0..6 : ~Fits(k)
  <2>1. \A n \in 1..7 : order[n] \notin kept
    BY <1>2, <1>4
  <2>2. kept \subseteq {"mounted"}
    BY <1>1, <1>2, <2>1
  <2> QED
    BY <1>1, <1>3, <2>2 DEF order, items, kept
<1>5. CASE \E k \in 0..6 : Fits(k)
  <2>1. PICK least \in 0..6 : Fits(least) /\ \A k \in 0..6 : Fits(k) => ~(k < least)
    <3> DEFINE T == {k \in 0..6 : Fits(k)}
    <3>1. T \in SUBSET Nat /\ T # {}
      BY <1>5
    <3> QED
      BY <3>1, LeastNat
  <2>2. \A n \in 1..7 : order[n] \in kept <=> order[n] \in items /\ least < n
    <3> SUFFICES ASSUME NEW n \in 1..7, order[n] \in items
                 PROVE  order[n] \in kept <=> least < n
      BY <1>2
    <3>1. order[n] \in kept <=> \E k \in 0..(n - 1) : Fits(k)
      BY <1>1, <1>2
    <3> QED
      BY <2>1, <3>1
  <2>3. kept = After(least)
    <3>1. \A i \in items : i \in kept <=> i \in After(least)
      <4> SUFFICES ASSUME NEW i \in items PROVE i \in kept <=> i \in After(least)
        OBVIOUS
      <4>1. CASE \E n \in 1..7 : i = order[n]
        BY <1>1, <2>1, <2>2, <4>1
      <4>2. CASE ~\E n \in 1..7 : i = order[n]
        BY <1>2, <2>1, <4>2
      <4> QED
        BY <4>1, <4>2
    <3> QED
      BY <1>2, <3>1
  <2>4. Summing!Total(sizes, kept) <= Window
    BY <2>1, <2>3 DEF Fits
  <2> QED
    BY <1>1, <1>3, <2>4 DEF order, items, kept
<1> QED
  BY <1>4, <1>5

LEMMA SummingLoads ==
    ASSUME MemoryOK, setting' = setting, NEW agent, Summing!LoadContext(agent)
    PROVE  MemoryOK' /\ ShowsNoSecret /\ KeepsLiving /\ GoesForward
<1> DEFINE kept == Summing!Cut(Summing!Sizes(agent))
           shown == (IF "workspace-memory" \in kept THEN Summing!WorkspaceBlocks ELSE {})
                    \cup (IF "private-memory" \in kept
                          THEN {b \in Summing!OwnBlocks(agent) : b.scope = "private"} ELSE {})
<1>4. ContextOK'
  <2> DEFINE sizes == Summing!Sizes(agent)
             cut == Summing!Cut(sizes)
  <2>1. /\ context'.kept = cut /\ context'.dropped = Summing!Items(sizes) \ cut
        /\ context'.size = Summing!Total(sizes, cut)
    BY DEF Summing!LoadContext
  <2> HIDE DEF sizes
  <2>2. Summing!DropOrder = Telling!DropOrder
    BY DEF Summing!DropOrder, Telling!DropOrder
  <2> QED
    BY <2>1, <2>2, SummingCuts DEF ContextOK
<1> HIDE DEF kept
<1>1. /\ context'.agent = agent /\ context'.shown = shown
      /\ UNCHANGED <<blocks, messages, runs, pending>>
  BY DEF Summing!LoadContext, kept
<1>2. \A b \in shown : b \in blocks /\ Living(b) /\ (b.agent = agent \/ b.scope = "workspace")
  BY DEF Summing!OwnBlocks, Summing!WorkspaceBlocks, Summing!Alive, Living
<1>3. ShowsNoSecret
  BY <1>1, <1>2 DEF ShowsNoSecret
<1> QED
  BY <1>1, <1>3, <1>4, SummingLeaves DEF MemoryOK, MessagesOK

LEMMA SummingSends ==
    ASSUME MemoryOK, setting' = setting, NEW agent \in Agents, NEW other \in Agents, Summing!Send(agent, other)
    PROVE  MemoryOK' /\ ShowsNoSecret /\ KeepsLiving /\ GoesForward
<1> DEFINE new == [to |-> other, from |-> agent, read |-> {}]
<1>1. UNCHANGED <<blocks, runs, pending>> /\ Summing!Silent /\ messages' = messages \o <<new>>
  BY DEF Summing!Send
<1>2. new \in Message /\ new.read = {}
  BY DEF Message
<1> HIDE DEF new
<1>3. messages \in Seq(Message) /\ messages' = Append(messages, new)
  BY <1>1, <1>2 DEF MemoryOK, MessagesOK
<1>4. MessagesOK'
  BY <1>2, <1>3 DEF MemoryOK, MessagesOK
<1> QED
  BY <1>1, <1>4, SummingSilent, SummingLeaves DEF MemoryOK

LEMMA SummingMarks ==
    ASSUME MemoryOK, setting' = setting, NEW agent \in Agents, NEW m \in DOMAIN messages, Summing!MarkRead(agent, m)
    PROVE  MemoryOK' /\ ShowsNoSecret /\ KeepsLiving /\ GoesForward
<1>1. UNCHANGED <<blocks, runs, pending>> /\ Summing!Silent
  BY DEF Summing!MarkRead
<1>2. /\ messages \in Seq(Message) /\ messages[m] \in Message /\ messages[m].read \subseteq {messages[m].to}
      /\ m \in 1..Len(messages)
  BY ElementOfSeq DEF MemoryOK, MessagesOK
<1>3. CASE messages[m].to # agent
  BY <1>1, <1>3, SummingSilent, SummingLeaves DEF Summing!MarkRead, MemoryOK, MessagesOK
<1>4. CASE messages[m].to = agent
  <2> DEFINE new == [messages[m] EXCEPT !.read = messages[m].read \cup {agent}]
  <2>1. messages' = [messages EXCEPT ![m] = new]
    BY <1>4 DEF Summing!MarkRead
  <2>2. new \in Message /\ new.read \subseteq {new.to}
    BY <1>2, <1>4 DEF Message
  <2> HIDE DEF new
  <2>3. messages' \in Seq(Message) /\ DOMAIN messages' = DOMAIN messages
        /\ \A n \in DOMAIN messages : messages'[n] = IF n = m THEN new ELSE messages[n]
    BY <1>2, <2>1, <2>2, ExceptSeq
  <2>4. MessagesOK'
    BY <2>2, <2>3 DEF MemoryOK, MessagesOK
  <2> QED
    BY <1>1, <2>4, SummingSilent, SummingLeaves DEF MemoryOK
<1> QED
  BY <1>3, <1>4

LEMMA SummingFinishes ==
    ASSUME MemoryOK, setting' = setting, NEW agent \in DOMAIN runs, Summing!FinishRun(agent)
    PROVE  MemoryOK' /\ ShowsNoSecret /\ KeepsLiving /\ GoesForward
<1>1. UNCHANGED <<blocks, messages>> /\ Summing!Silent /\ runs' = [runs EXCEPT ![agent] = runs[agent] + 1]
  BY DEF Summing!FinishRun
<1>2. /\ runs[agent] \in Nat /\ DOMAIN runs' = DOMAIN runs
      /\ runs' \in [IF setting = "summing" THEN Summarised ELSE Agents -> Nat]
      /\ \A a \in DOMAIN runs : runs[a] <= runs'[a] /\ runs[a] \in Nat
      /\ runs'[agent] = runs[agent] + 1
  BY <1>1 DEF MemoryOK, SummariesOK
<1>3. Summaries' = Summaries /\ KeepsLiving /\ GoesForward
  BY <1>1, FewerBlocks DEF Summaries, KeepsLiving, GoesForward, MemoryOK, SummariesOK
<1>4. CASE pending' = pending
  BY <1>1, <1>2, <1>3, <1>4, SummingSilent DEF MemoryOK, MessagesOK, SummariesOK
<1>5. CASE pending' = pending \cup {<<agent, runs'[agent]>>} /\ Summing!Cardinality(pending) < 1
  <2>1. pending = {}
    <3>1. \A p : Summing!Cardinality({p}) = 1
      BY FS_Singleton DEF Summing!Cardinality, Cardinality
    <3> QED
      <4>1. ASSUME NEW p \in pending, pending = {p} PROVE FALSE
        <5>1. Summing!Cardinality(pending) = 1
          BY <3>1, <4>1
        <5> QED
          BY <1>5, <5>1
      <4> QED
        BY <4>1 DEF MemoryOK, SummariesOK
  <2> DEFINE p == <<agent, runs'[agent]>>
  <2>2. p[1] = agent /\ p[2] = runs'[agent]
    OBVIOUS
  <2>3. pending' = {p}
    BY <1>5, <2>1
  <2> HIDE DEF p
  <2> QED
    BY <1>1, <1>2, <1>3, <2>2, <2>3, SummingSilent DEF MemoryOK, MessagesOK, SummariesOK
<1> QED
  BY <1>4, <1>5 DEF Summing!FinishRun

LEMMA SummingSummarises ==
    ASSUME MemoryOK, setting' = setting, NEW agent, NEW run,
           Summing!SummaryArrives(agent, run) \/ Summing!SummaryFails(agent, run)
    PROVE  MemoryOK' /\ ShowsNoSecret /\ KeepsLiving /\ GoesForward
<1> DEFINE p == <<agent, run>>
<1>1. p \in pending /\ pending' = pending \ {p} /\ UNCHANGED <<messages, runs>> /\ Summing!Silent
  BY DEF Summing!SummaryArrives, Summing!SummaryFails
<1>2. p[1] = agent /\ p[2] = run
  OBVIOUS
<1> HIDE DEF p
<1>3. CASE Summing!SummaryFails(agent, run)
  <2>1. blocks' = blocks
    BY <1>3 DEF Summing!SummaryFails
  <2> QED
    BY <1>1, <2>1, SummingSilent, FewerBlocks DEF MemoryOK, MessagesOK, KeepsLiving
<1>4. CASE Summing!SummaryArrives(agent, run)
  <2>1. blocks' = Summing!Upsert(agent, "run_summary", "private", 0, run)
    BY <1>4 DEF Summing!SummaryArrives
  <2>2. /\ KeepsLiving
        /\ \A c \in blocks' : IF c.agent = agent /\ c.key = "run_summary" THEN c.value = run ELSE c \in blocks
    BY <2>1, SummingUpserts
  <2>3. SummariesOK' /\ GoesForward
    <3>1. \E q \in pending : q[1] = agent /\ q[2] = run /\ pending' = pending \ {q}
      BY <1>1, <1>2
    <3>2. SummariesOK /\ setting' = setting /\ runs' = runs /\ pending' \subseteq pending
      BY <1>1 DEF MemoryOK
    <3> DEFINE key == "run_summary"
    <3>3. \A c \in blocks' : IF c.agent = agent /\ c.key = key THEN c.value = run ELSE c \in blocks
      BY <2>2
    <3> HIDE DEF key
    <3> QED
      BY <3>1, <3>2, <3>3, NewBlock
  <2> QED
    BY <1>1, <2>2, <2>3, SummingSilent DEF MemoryOK, MessagesOK
<1> QED
  BY <1>3, <1>4

LEMMA SummingStep ==
    ASSUME MemoryOK, setting' = setting, DOMAIN runs = Summarised, Summing!Next
    PROVE  /\ MemoryOK' /\ ShowsNoSecret /\ GoesForward
           /\ KeepsLiving \/ \E a \in Agents, k \in Keys : Telling!DeleteMemory(a, k)
<1>0. Summarised \subseteq Agents
  BY MemoryAssumption
<1>1. CASE \E a \in Summarised, k \in Keys : \E scope \in Summing!Scopes, ttl \in 0..1 : Summing!WriteMemory(a, k, scope, ttl)
  BY <1>1, SummingWrites
<1>2. CASE \E a \in Summarised, k \in Keys : Summing!DeleteMemory(a, k)
  <2>1. PICK a \in Summarised, k \in Keys : Summing!DeleteMemory(a, k)
    BY <1>2
  <2>2. Telling!DeleteMemory(a, k)
    BY <2>1 DEF Summing!DeleteMemory, Telling!DeleteMemory, Summing!At, Telling!At, Summing!Trimmed,
       Telling!Trimmed,
                Summing!Stored, Telling!Stored, Summing!NoContext, Telling!NoContext
  <2> QED
    BY <1>0, <2>1, <2>2, SummingDeletes
<1>3. CASE \E a \in Summarised, scope \in Summing!Scopes \cup {"any"} : Summing!ReadMemory(a, scope)
  BY <1>3, SummingReads
<1>4. CASE \E a, b \in Summarised : Summing!Send(a, b)
  BY <1>0, <1>4, SummingSends
<1>5. CASE \E a \in Summarised, m \in DOMAIN messages : Summing!MarkRead(a, m)
  BY <1>0, <1>5, SummingMarks
<1>6. CASE \E k \in Keys : Summing!UpdateShared(k)
  <2>1. UNCHANGED <<blocks, messages, runs, pending>> /\ Summing!Silent
    BY <1>6 DEF Summing!UpdateShared
  <2> QED
    BY <2>1, SummingSilent, SummingLeaves DEF MemoryOK, MessagesOK
<1>7. CASE \E a \in Summarised : Summing!FinishRun(a) \/ Summing!LoadContext(a)
  BY <1>7, SummingFinishes, SummingLoads
<1>8. CASE \E a \in Summarised, r \in 1..MaxFinished : Summing!SummaryArrives(a, r) \/ Summing!SummaryFails(a, r)
  BY <1>8, SummingSummarises
<1>9. CASE Summing!Purge
  <2>1. /\ blocks' = {b \in blocks : Living(b)} /\ Summing!Silent
        /\ UNCHANGED <<messages, runs, pending>>
    BY <1>9 DEF Summing!Purge, Summing!Alive, Living
  <2>2. blocks' \subseteq blocks /\ KeepsLiving
    BY <2>1 DEF KeepsLiving
  <2> QED
    BY <2>1, <2>2, SummingSilent, FewerBlocks DEF MemoryOK, MessagesOK
<1>10. CASE Summing!Tick
  <2>1. UNCHANGED <<blocks, messages, runs, pending>> /\ Summing!Silent
    BY <1>10 DEF Summing!Tick
  <2> QED
    BY <2>1, SummingSilent, SummingLeaves DEF MemoryOK, MessagesOK
<1> QED
  BY <1>1, <1>2, <1>3, <1>4, <1>5, <1>6, <1>7, <1>8, <1>9, <1>10 DEF Summing!Next

-----------------------------------------------------------------------------
(* Memory and messages of agents in both settings.                         *)

LEMMA MemoryStarts == InitIn => MemoryOK
<1> SUFFICES ASSUME InitIn PROVE MemoryOK
  OBVIOUS
<1>1. /\ blocks = {} /\ messages = <<>> /\ pending = {}
      /\ runs = [a \in (IF setting = "summing" THEN Summarised ELSE Agents) |-> 0]
  BY DEF InitIn, Telling!Init, Summing!Init
<1> QED
  <2>1. context = [agent |-> "none", kept |-> {}, dropped |-> {}, size |-> 0, shown |-> {}]
    BY DEF InitIn, Telling!Init, Summing!Init, Telling!NoContext, Summing!NoContext
  <2>2. ContextOK
    BY <2>1, MemoryAssumption DEF ContextOK, Telling!AgentMemoryAssumption
  <2> QED
    BY <1>1, <2>2 DEF MemoryOK, MessagesOK, SummariesOK, Summaries

LEMMA MemoryGoesOn ==
    ASSUME MemoryOK, [NextIn]_all
    PROVE  /\ MemoryOK'
           /\ \/ UNCHANGED memory
              \/ /\ ShowsNoSecret /\ GoesForward
                 /\ KeepsLiving \/ \E a \in Agents, k \in Keys : Telling!DeleteMemory(a, k)
<1>1. CASE UNCHANGED <<memory, setting>>
  BY <1>1 DEF MemoryOK, MessagesOK, SummariesOK, Summaries, ContextOK, memory
<1>2. CASE setting' = setting /\ setting = "telling" /\ Telling!Next
  <2>1. DOMAIN runs = Agents
    BY <1>2 DEF MemoryOK, SummariesOK
  <2> QED
    BY <1>2, <2>1, TellingStep
<1>3. CASE setting' = setting /\ setting = "summing" /\ Summing!Next
  <2>1. DOMAIN runs = Summarised
    BY <1>3 DEF MemoryOK, SummariesOK
  <2> QED
    BY <1>3, <2>1, SummingStep
<1> QED
  BY <1>1, <1>2, <1>3 DEF NextIn, all

\* Messages, blocks and summaries are safe (tool-broker.ts, run-orchestrator.ts
\* summarizeRunToMemory, runtime-manager.ts loadRuntimeContext, app.ts purgeMemory), for any
\* number of agents, messages and versions and any sizes: only its addressee acknowledges a
\* message, reading shows no block of another agent that is private or has expired, a block
\* that lives goes only when its agent deletes it, and with one summary in flight a
\* run_summary never goes back to an earlier run.
THEOREM MemoryStaysGuarded == SpecIn => MemoryIsGuarded
<1>1. MemoryOK => Telling!UnreadUntilAcknowledged
  BY DEF MemoryOK, MessagesOK, Telling!UnreadUntilAcknowledged
<1>2. MemoryOK /\ [NextIn]_all => MemoryOK'
  BY MemoryGoesOn
<1> DEFINE Shows == context'.agent \in Agents =>
                      \A b \in context'.shown :
                        b \in blocks /\ Telling!Alive(b)
                        /\ (b.agent = context'.agent \/ b.scope = "workspace")
           Keeps == \/ \E a \in Agents, k \in Keys : Telling!DeleteMemory(a, k)
                    \/ \A b \in blocks : Telling!Alive(b) =>
                          \E c \in blocks' : c.agent = b.agent /\ c.key = b.key
<1>3. MemoryOK /\ [NextIn]_all => [Shows]_(Telling!vars) /\ [Keeps]_(Telling!vars) /\ [GoesForward]_(Summing!vars)
  <2> SUFFICES ASSUME MemoryOK, [NextIn]_all
               PROVE  [Shows]_(Telling!vars) /\ [Keeps]_(Telling!vars) /\ [GoesForward]_(Summing!vars)
    OBVIOUS
  <2>1. CASE UNCHANGED memory
    BY <2>1 DEF memory, Telling!vars, Summing!vars
  <2>2. CASE /\ ShowsNoSecret /\ GoesForward
             /\ KeepsLiving \/ \E a \in Agents, k \in Keys : Telling!DeleteMemory(a, k)
    BY <2>2 DEF ShowsNoSecret, KeepsLiving, Living, Telling!Alive
  <2> QED
    BY <2>1, <2>2, MemoryGoesOn
<1>4. SpecIn => [][Shows]_(Telling!vars) /\ [][Keeps]_(Telling!vars) /\ [][GoesForward]_(Summing!vars)
                /\ []Telling!UnreadUntilAcknowledged
  BY MemoryStarts, <1>1, <1>2, <1>3, PTL DEF SpecIn
<1> QED
  BY <1>4 DEF MemoryIsGuarded, Telling!NoForeignSecret, Telling!BlocksOutlivePurges,
              Summing!SummariesGoForward, GoesForward

\* Whatever the sizes: a session's context fits the window unless only the mounted items
\* are left, and an item is given up only after all that matter less (truncateContextItems).
THEOREM ContextsAreCutRight == SpecIn => []ContextIsCutRight
<1>1. MemoryOK => ContextIsCutRight
  BY DEF MemoryOK, ContextOK, ContextIsCutRight, Telling!ContextFits, Telling!DropsInOrder
<1>2. MemoryOK /\ [NextIn]_all => MemoryOK'
  BY MemoryGoesOn
<1> QED
  BY MemoryStarts, <1>1, <1>2, PTL DEF SpecIn
=============================================================================
