---------------------------- MODULE AgentMemory -----------------------------
(***************************************************************************)
(* What agents of a workspace tell each other and themselves: memory       *)
(* blocks with scopes and expiry, messages, the shared key-value context,  *)
(* the summary of a finished run, and the context an agent's session is    *)
(* given, cut to the model's window (tool-broker.ts, run-orchestrator.ts   *)
(* summarizeRunToMemory, runtime-manager.ts loadRuntimeContext and         *)
(* truncateContextItems, app.ts purgeMemory).                              *)
(*                                                                         *)
(* A tool touches the database only, so each is one step; a summary waits  *)
(* for a model between the end of its run and the block it writes.  Time   *)
(* is a number of ticks.  The text of values and messages is left out: a   *)
(* block's value is the run it summarises, or 0.  A key is "plan", the     *)
(* same with spaces around it, or one that is too long.  Every block,      *)
(* message and brief counts one unit of the context window.                *)
(*                                                                         *)
(* Bounds: MaxTime, MaxMessages, MaxRuns, MaxVersion, MaxPending summaries *)
(* in flight.                                                              *)
(***************************************************************************)
EXTENDS Naturals, FiniteSets, Sequences, SequencesExt

CONSTANTS
    Agents, Keys,
    Mounted,        \* units of the context items mounted on an agent
    Shared,         \* units of the workspace's shared context
    Window,         \* 80 % of the model's context window, in units
    MaxTime, MaxMessages, MaxRuns, MaxVersion, MaxPending

AgentMemoryAssumption ==
    /\ Keys \subseteq {"plan", " plan ", "long"}
    /\ {Mounted, Shared, Window, MaxTime, MaxMessages, MaxRuns, MaxVersion, MaxPending} \subseteq Nat

VARIABLES
    blocks,      \* rows of agent_memory_blocks
    messages,    \* rows of agent_messages, in the order they were sent
    kv,          \* keys of the shared context
    runs,        \* [Agents -> runs finished so far]
    pending,     \* runs whose summary the model is writing, <<agent, run>>
    context,     \* the context or the blocks the last step has read, if it has
    deleted,     \* the block the last step was asked to delete, if it is still there
    now

vars == <<blocks, messages, kv, runs, pending, context, deleted, now>>

Scopes == {"private", "workspace"}
NoContext == [agent |-> "none", kept |-> {}, dropped |-> {}, size |-> 0, shown |-> {}]

Init ==
    /\ blocks = {} /\ messages = <<>> /\ kv = {}
    /\ runs = [a \in Agents |-> 0] /\ pending = {}
    /\ context = NoContext /\ deleted = {} /\ now = 0

Silent == context' = NoContext /\ deleted' = {}

-----------------------------------------------------------------------------
(* Blocks.                                                                 *)

\* write_memory cuts a key to 128 characters, delete_memory trims it.
Stored(key) == IF key = "long" THEN "cut" ELSE key
Trimmed(key) == IF key = " plan " THEN "plan" ELSE key

At(agent, key) == {b \in blocks : b.agent = agent /\ b.key = key}
Alive(b) == b.expires = 0 \/ b.expires > now

\* An insert without the conflict clause.
Upsert_Adds(agent, key, scope, expires, value) ==
    blocks \cup {[agent |-> agent, key |-> key, scope |-> scope, expires |-> expires,
                  value |-> value, version |-> 1]}

Upsert(agent, key, scope, expires, value) ==
    LET old == At(agent, key) IN
    (blocks \ old) \cup
        {[agent |-> agent, key |-> key, scope |-> scope, expires |-> expires, value |-> value,
          version |-> IF old = {} THEN 1 ELSE (CHOOSE b \in old : TRUE).version + 1]}

CanWrite(agent, key) == \A b \in At(agent, key) : b.version < MaxVersion

WriteMemory(agent, key, scope, ttl) ==
    /\ CanWrite(agent, Stored(key))
    /\ blocks' = Upsert(agent, Stored(key), scope, IF ttl = 0 THEN 0 ELSE now + ttl, 0)
    /\ Silent /\ UNCHANGED <<messages, kv, runs, pending, now>>

\* `deleted` holds the block the key was written under that is still there.
DeleteMemory(agent, key) ==
    /\ blocks' = blocks \ At(agent, Trimmed(key))
    /\ deleted' = At(agent, Stored(key)) \cap blocks'
    /\ context' = NoContext /\ UNCHANGED <<messages, kv, runs, pending, now>>

\* The purge drops whatever has an expiry.
Purge_All ==
    /\ blocks' = {b \in blocks : b.expires = 0}
    /\ Silent /\ UNCHANGED <<messages, kv, runs, pending, now>>

\* purgeExpired, at startup and every 30 minutes
Purge ==
    /\ blocks' = {b \in blocks : Alive(b)}
    /\ Silent /\ UNCHANGED <<messages, kv, runs, pending, now>>

Tick ==
    /\ now < MaxTime /\ now' = now + 1
    /\ Silent /\ UNCHANGED <<blocks, messages, kv, runs, pending>>

-----------------------------------------------------------------------------
(* read_memory, by the scope that is asked for.                            *)

OwnBlocks(agent) == {b \in blocks : b.agent = agent /\ Alive(b)}
WorkspaceBlocks == {b \in blocks : b.scope = "workspace" /\ Alive(b)}

Readable(agent, scope) ==
    CASE scope = "workspace" -> WorkspaceBlocks
      [] scope = "private" -> {b \in OwnBlocks(agent) : b.scope = "private"}
      [] scope = "any" -> OwnBlocks(agent) \cup WorkspaceBlocks

\* Without a scope every block of the workspace is read.
ReadMemory_Everything(agent, scope) ==
    /\ context' = [NoContext EXCEPT !.agent = agent,
                       !.shown = IF scope = "any" THEN blocks ELSE Readable(agent, scope)]
    /\ deleted' = {} /\ UNCHANGED <<blocks, messages, kv, runs, pending, now>>

ReadMemory(agent, scope) ==
    /\ context' = [NoContext EXCEPT !.agent = agent, !.shown = Readable(agent, scope)]
    /\ deleted' = {} /\ UNCHANGED <<blocks, messages, kv, runs, pending, now>>

-----------------------------------------------------------------------------
(* Messages and the shared context.                                        *)

Send(from, to) ==
    /\ from # to /\ Len(messages) < MaxMessages
    /\ messages' = messages \o <<[to |-> to, from |-> from, read |-> {}]>>
    /\ Silent /\ UNCHANGED <<blocks, kv, runs, pending, now>>

\* Anyone may acknowledge.
MarkRead_Anyone(agent, m) ==
    /\ messages' = [messages EXCEPT ![m].read = @ \cup {agent}]
    /\ Silent /\ UNCHANGED <<blocks, kv, runs, pending, now>>

\* mark_message_read: only the addressee's own request sets read_at.
MarkRead(agent, m) ==
    /\ IF messages[m].to = agent
       THEN messages' = [messages EXCEPT ![m].read = @ \cup {agent}]
       ELSE UNCHANGED messages
    /\ Silent /\ UNCHANGED <<blocks, kv, runs, pending, now>>

UpdateShared(key) ==
    /\ kv' = kv \cup {Stored(key)}
    /\ Silent /\ UNCHANGED <<blocks, messages, runs, pending, now>>

Unread(agent) == {m \in DOMAIN messages : messages[m].to = agent /\ messages[m].read = {}}

-----------------------------------------------------------------------------
(* The summary of a run: asked for when the run ends, written when the     *)
(* model answers, under one key for all runs of the agent.                 *)

FinishRun(agent) ==
    /\ runs[agent] < MaxRuns
    /\ runs' = [runs EXCEPT ![agent] = @ + 1]
    /\ \/ pending' = pending \cup {<<agent, runs'[agent]>>}
          /\ Cardinality(pending) < MaxPending
       \/ UNCHANGED pending              \* no key, or fewer than three entries
    /\ Silent /\ UNCHANGED <<blocks, messages, kv, now>>

SummaryArrives(agent, run) ==
    /\ <<agent, run>> \in pending /\ CanWrite(agent, "run_summary")
    /\ pending' = pending \ {<<agent, run>>}
    /\ blocks' = Upsert(agent, "run_summary", "private", 0, run)
    /\ Silent /\ UNCHANGED <<messages, kv, runs, now>>

SummaryFails(agent, run) ==
    /\ <<agent, run>> \in pending
    /\ pending' = pending \ {<<agent, run>>}
    /\ Silent /\ UNCHANGED <<blocks, messages, kv, runs, now>>

-----------------------------------------------------------------------------
(* loadRuntimeContext: the items of a session's context and what is cut.   *)

DropOrder == <<"workspace-memory", "shared-context-kv", "coordination-brief",
               "coordination-agent-brief", "private-memory", "unread-messages",
               "shared-context">>
ItemNames == ToSet(DropOrder) \cup {"mounted"}

Sizes(agent) ==
    [i \in ItemNames |->
        CASE i = "workspace-memory" -> Cardinality(WorkspaceBlocks)
          [] i = "private-memory" -> Cardinality({b \in OwnBlocks(agent) : b.scope = "private"})
          [] i = "unread-messages" -> Cardinality(Unread(agent))
          [] i = "shared-context-kv" -> Cardinality(kv)
          [] i \in {"coordination-brief", "coordination-agent-brief"} -> 1
          [] i = "shared-context" -> Shared
          [] i = "mounted" -> Mounted]

Total(sizes, items) == MapThenSumSet(LAMBDA i : sizes[i], items)

Items(sizes) == {i \in ItemNames : sizes[i] > 0}

\* Drops the first item that does not fit, and no other.
Cut_Once(sizes) ==
    IF Total(sizes, Items(sizes)) <= Window THEN Items(sizes)
    ELSE Items(sizes) \ {DropOrder[1]}

\* Drops from the other end of the list.
Cut_Reversed(sizes) ==
    FoldRight(LAMBDA item, kept : IF Total(sizes, kept) <= Window THEN kept ELSE kept \ {item},
              DropOrder, Items(sizes))

\* truncateContextItems: whole items go, in DropOrder, until the rest fits.  The n-th is
\* kept when dropping k before it was enough.
Cut(sizes) ==
    LET Fits(k) == Total(sizes, Items(sizes) \ {DropOrder[j] : j \in 1..k}) <= Window
    IN  {i \in Items(sizes) : \A n \in DOMAIN DropOrder : i = DropOrder[n] => \E k \in 0..(n - 1) : Fits(k)}

LoadContext(agent) ==
    LET sizes == Sizes(agent)
        kept == Cut(sizes)
        shown == (IF "workspace-memory" \in kept THEN WorkspaceBlocks ELSE {})
                 \cup (IF "private-memory" \in kept
                       THEN {b \in OwnBlocks(agent) : b.scope = "private"} ELSE {})
    IN  /\ context' = [agent |-> agent, kept |-> kept, dropped |-> Items(sizes) \ kept,
                       size |-> Total(sizes, kept), shown |-> shown]
        /\ deleted' = {} /\ UNCHANGED <<blocks, messages, kv, runs, pending, now>>

-----------------------------------------------------------------------------
Next ==
    \/ \E a \in Agents, k \in Keys :
          \/ \E scope \in Scopes, ttl \in 0..1 : WriteMemory(a, k, scope, ttl)
          \/ DeleteMemory(a, k)
    \/ \E a \in Agents, scope \in Scopes \cup {"any"} : ReadMemory(a, scope)
    \/ \E a, b \in Agents : Send(a, b)
    \/ \E a \in Agents, m \in DOMAIN messages : MarkRead(a, m)
    \/ \E k \in Keys : UpdateShared(k)
    \/ \E a \in Agents : FinishRun(a) \/ LoadContext(a)
    \/ \E a \in Agents, r \in 1..MaxRuns : SummaryArrives(a, r) \/ SummaryFails(a, r)
    \/ Purge \/ Tick

Spec == Init /\ [][Next]_vars

-----------------------------------------------------------------------------
(* Every variable has its type.                                            *)
StoredKeys == {Stored(k) : k \in Keys} \cup {"run_summary"}
Block == [agent : Agents, key : StoredKeys, scope : Scopes, expires : 0..(MaxTime + 1),
          value : 0..MaxRuns, version : 1..MaxVersion]
TypeOK ==
    /\ \A b \in blocks : b \in Block
    /\ \A b, c \in blocks : (b.agent = c.agent /\ b.key = c.key) => b = c
    /\ \A m \in DOMAIN messages : messages[m] \in [to : Agents, from : Agents, read : SUBSET Agents]
    /\ kv \subseteq StoredKeys /\ runs \in [Agents -> 0..MaxRuns]
    /\ pending \subseteq Agents \X (1..MaxRuns)
    /\ context.kept \subseteq ItemNames /\ context.dropped \subseteq ItemNames
    /\ now \in 0..MaxTime

(* Reading, by a tool or into a session's context, shows an agent a block of *)
(* another one only if that agent wrote it last for the whole workspace, and *)
(* never one that has expired, whether the purge has run or not.             *)
NoForeignSecret ==
    [][context'.agent \in Agents =>
        \A b \in context'.shown :
            b \in blocks /\ Alive(b)
            /\ (b.agent = context'.agent \/ b.scope = "workspace")]_vars

(* Only the agent a message is addressed to can make it disappear from its   *)
(* context: a message stays unread until its addressee has acknowledged it.  *)
UnreadUntilAcknowledged ==
    \A m \in DOMAIN messages : messages[m].read \subseteq {messages[m].to}

(* Until it expires a block goes away only when its agent deletes it: writes *)
(* of others, summaries and purges leave it.                                 *)
BlocksOutlivePurges ==
    [][\/ \E a \in Agents, k \in Keys : DeleteMemory(a, k)
       \/ \A b \in blocks : Alive(b) =>
              \E c \in blocks' : c.agent = b.agent /\ c.key = b.key]_vars

(* A session's context fits its window unless the mounted items alone do     *)
(* not, because nothing but those is beyond the reach of the cut.            *)
ContextFits == context.size <= Window \/ context.kept \subseteq {"mounted"}

(* What matters more is given up later: an item is dropped only together     *)
(* with everything the list names before it.                                 *)
DropsInOrder ==
    \A i, j \in DOMAIN DropOrder :
        (i < j /\ DropOrder[j] \in context.dropped) => DropOrder[i] \notin context.kept

(* With one summary in flight at a time an agent's run_summary never goes    *)
(* back to an earlier run.                                                   *)
SummariesGoForward ==
    [][\A b \in blocks, c \in blocks' :
          (b.key = "run_summary" /\ c.key = "run_summary" /\ b.agent = c.agent)
          => b.value <= c.value]_vars

(* delete_memory deletes: the block written under the same key is gone.      *)
DeleteDeletes == deleted = {}
=============================================================================
