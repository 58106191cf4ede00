----------------------------- MODULE PeerOutput -----------------------------
(***************************************************************************)
(* An agent follows the transcript of a peer with read_peer_output and     *)
(* watch_peer_output (tool-broker.ts), handing each reply's nextSeq to the *)
(* next call, as the descriptions of the two tools tell it to.             *)
(*                                                                         *)
(* Entries of a run are numbered from 1.  A reply of read_peer_output is   *)
(* made of database reads only, between which no other request runs; a     *)
(* watch polls, sleeps and polls again.  One tick of `clock` is a poll     *)
(* interval (2 s).  Artifacts and the text of entries are left out.        *)
(*                                                                         *)
(* Bounds: MaxRuns, MaxEntries per run, MaxCalls, and the limits of the    *)
(* code (100 and 50 entries, 30 s, 60 s) scaled down to constants.         *)
(***************************************************************************)
EXTENDS Integers, Sequences, FiniteSets, FiniteSetsExt

CONSTANTS
    Tools,          \* which of "read" and "watch" the agent calls
    NamesRun,       \* does it name the run, or take the peer's latest one?
    Limit,          \* entries in a reply that continues
    LastN,          \* entries in a first reply
    MaxTimeout,     \* longest watch, in ticks
    ToolTimeout,    \* TOOL_EXECUTION_TIMEOUT_MS in ticks
    MaxRuns, MaxEntries, MaxCalls

ASSUME PeerOutputAssumption ==
    /\ Tools \subseteq {"read", "watch"} /\ NamesRun \in BOOLEAN
    /\ Limit \in Nat \ {0} /\ LastN \in Nat \ {0}
    /\ MaxTimeout \in Nat \ {0} /\ ToolTimeout \in Nat \ {0}
    /\ MaxRuns \in Nat \ {0} /\ MaxEntries \in Nat /\ MaxCalls \in Nat

VARIABLES
    transcript,  \* transcript[r] : the entries of run r, a sequence of kinds
    cursor,      \* nextSeq of the last reply, or -1 before the first one
    first,       \* where the reader began: nextSeq of a first read, else 0
    seen,        \* seen[r] : what replies have shown of run r
    watch,       \* the watch in progress: its run, where it started, its deadline
    clock,       \* ticks since the watch began
    calls

vars == <<transcript, cursor, first, seen, watch, clock, calls>>

Runs == 1..MaxRuns
Kinds == {"output", "other"}        \* assistant and tool entries; the other types
NoWatch == [run |-> 0, since |-> 0, deadline |-> 0]
Existing == {r \in Runs : r \in DOMAIN transcript}
Latest == Max(Existing)
Target == IF NamesRun THEN 1 ELSE Latest

Init ==
    /\ transcript = <<<<>>>>
    /\ cursor = -1 /\ first = 0 /\ seen = [r \in Runs |-> {}]
    /\ watch = NoWatch /\ clock = 0 /\ calls = 0

\* listByRunSince: the first `limit` entries after `since`.
EntriesSince(r, since, limit) ==
    {q \in DOMAIN transcript[r] : q > since /\ q <= since + limit}

\* listByRunLimited: the last n assistant and tool entries.
LastEntries(r, n) ==
    {q \in DOMAIN transcript[r] :
        /\ transcript[r][q] = "output"
        /\ Cardinality({p \in DOMAIN transcript[r] :
               p > q /\ transcript[r][p] = "output"}) < n}

MaxSeq(r) == Len(transcript[r])

Show(r, entries) == seen' = [seen EXCEPT ![r] = @ \cup entries]

-----------------------------------------------------------------------------
(* The peer.                                                               *)

PeerWrites(r, kind) ==
    /\ Len(transcript[r]) < MaxEntries
    /\ transcript' = [transcript EXCEPT ![r] = @ \o <<kind>>]
    /\ UNCHANGED <<cursor, first, seen, watch, clock, calls>>

NewRun ==
    /\ Len(transcript) < MaxRuns
    /\ transcript' = transcript \o <<<<>>>>
    /\ UNCHANGED <<cursor, first, seen, watch, clock, calls>>

-----------------------------------------------------------------------------
(* The reader: one call at a time.                                         *)

Calls == watch = NoWatch /\ calls < MaxCalls /\ calls' = calls + 1

\* read_peer_output without a cursor.
ReadFirst ==
    /\ "read" \in Tools /\ Calls /\ cursor = -1
    /\ Show(Target, LastEntries(Target, LastN))
    /\ cursor' = MaxSeq(Target) /\ first' = MaxSeq(Target)
    /\ UNCHANGED <<transcript, watch, clock>>

\* read_peer_output with the cursor of the reply before.
ReadOn ==
    /\ "read" \in Tools /\ Calls /\ cursor >= 0
    /\ Show(Target, EntriesSince(Target, cursor, Limit))
    /\ cursor' = MaxSeq(Target)
    /\ UNCHANGED <<transcript, first, watch, clock>>

\* watch_peer_output: the run is chosen once, then the polling begins.
Watch(timeout) ==
    /\ "watch" \in Tools /\ Calls
    /\ watch' = [run |-> Target, since |-> IF cursor = -1 THEN 0 ELSE cursor,
                 deadline |-> timeout]
    /\ clock' = 0
    /\ UNCHANGED <<transcript, cursor, first, seen>>

Watching == watch # NoWatch
News == EntriesSince(watch.run, watch.since, Limit)

\* The reply skips to the end of the transcript, as that of a read does.
Found_SkipsToEnd ==
    /\ Watching /\ News # {}
    /\ Show(watch.run, News)
    /\ cursor' = MaxSeq(watch.run)
    /\ watch' = NoWatch /\ clock' = 0
    /\ UNCHANGED <<transcript, first, calls>>

\* A poll that finds entries ends the watch behind the last one it returns.
Found ==
    /\ Watching /\ News # {}
    /\ Show(watch.run, News)
    /\ cursor' = Max(News)
    /\ watch' = NoWatch /\ clock' = 0
    /\ UNCHANGED <<transcript, first, calls>>

Sleep ==
    /\ Watching /\ News = {} /\ clock < watch.deadline
    /\ clock' = clock + 1
    /\ UNCHANGED <<transcript, cursor, first, seen, watch, calls>>

TimedOut ==
    /\ Watching /\ News = {} /\ clock >= watch.deadline
    /\ cursor' = MaxSeq(watch.run)
    /\ watch' = NoWatch /\ clock' = 0
    /\ UNCHANGED <<transcript, first, seen, calls>>

Next ==
    \/ \E r \in Existing, k \in Kinds : PeerWrites(r, k)
    \/ NewRun
    \/ ReadFirst \/ ReadOn
    \/ \E t \in 1..MaxTimeout : Watch(t)
    \/ Found \/ Sleep \/ TimedOut

Spec == Init /\ [][Next]_vars

\* Timers fire and the poll that follows is made.
FairSpec == Spec /\ WF_vars(Found \/ Sleep \/ TimedOut)

-----------------------------------------------------------------------------
(* Every variable has its type.                                            *)
TypeOK ==
    /\ transcript \in UNION {[1..n -> UNION {[1..m -> Kinds] : m \in 0..MaxEntries}] : n \in Runs}
    /\ cursor \in -1..MaxEntries /\ first \in 0..MaxEntries
    /\ \A r \in Runs : seen[r] \subseteq 1..MaxEntries
    /\ watch \in [run : 0..MaxRuns, since : Nat, deadline : 0..MaxTimeout]
    /\ clock \in 0..MaxTimeout /\ calls \in 0..MaxCalls

(* Whoever hands nextSeq on has been shown every entry of the run it follows *)
(* from its first reply up to nextSeq, however the peer's writes fall        *)
(* between the calls and the polls.                                          *)
NothingSkipped == cursor >= 0 => (first + 1)..cursor \subseteq seen[Target]

(* A watch answers before the orchestrator gives up on the tool call.        *)
WatchBeatsToolTimeout == Watching => clock <= watch.deadline /\ clock < ToolTimeout

(* A watch ends, found or timed out, also when the peer has gone silent.     *)
WatchEnds == Watching ~> ~Watching
=============================================================================
