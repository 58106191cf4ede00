----------------------------- MODULE Migrations -----------------------------
(***************************************************************************)
(* The migrations of the database (migrations.ts), applied by every        *)
(* control plane that starts: each unrecorded one in a transaction of its  *)
(* own, which also records it.  Two control planes may start at once, and  *)
(* each may end at any step.                                               *)
(*                                                                         *)
(* A table is what migrations tell apart: its columns, without those that  *)
(* every version has; the ones of them that an alter table has put last;   *)
(* the tables its foreign keys name; the states its CHECK adds to those of *)
(* the first release; and whether it has rows.  SQLite renames a table as  *)
(* it does by default: the foreign keys of the other tables follow,        *)
(* whether they are enforced or not.  Indexes are left out.  A database of *)
(* an earlier release is made by that release, before the planes start.    *)
(* Bounds: Prefixes, MaxCrashes.                                           *)
(***************************************************************************)
EXTENDS Naturals, FiniteSets

CONSTANTS
    Planes,         \* control planes on one database
    Origins,        \* how the database began: a subset of {"empty", "initial", "unnamed calls"}
    Prefixes,       \* numbers of migrations that earlier releases had
    MaxCrashes

MigrationsAssumption ==
    /\ IsFiniteSet(Planes) /\ MaxCrashes \in Nat /\ "nobody" \notin Planes
    /\ Origins \subseteq {"empty", "initial", "unnamed calls"} /\ Prefixes \subseteq 0..16

VARIABLES
    schema,         \* the tables by name
    recorded,       \* schema_migrations
    history,        \* team_ask_history: none, copied by 0009, or written by a control plane
    release,        \* how many migrations the release had that the database is from
    pc,             \* of each control plane
    applied,        \* the recorded migrations, as it read them
    lock,           \* the control plane in a write transaction, or nobody
    crashes

vars == <<schema, recorded, history, release, pc, applied, lock, crashes>>

Nobody == "nobody"
Count == 16

-----------------------------------------------------------------------------
(* The tables, as they are created today                                   *)

FirstNames == {"workspaces", "agent_sessions", "agent_events", "context_packs", "context_items",
               "agent_context_mounts", "usage_ticks"}
RunNames == {"agent_worktrees", "agent_runs", "transcript_entries", "tool_calls",
             "approval_requests", "handoff_items"}
MemoryNames == {"agent_memory_blocks", "agent_messages"}
Coordination == "workspace_coordination_states"
Names == FirstNames \cup RunNames \cup MemoryNames \cup {"artifacts", Coordination}

Columns(t) ==
    CASE t = "workspaces" -> {"project_root", "shared_context"}
      [] t = "tool_calls" -> {"provider_call_id"}
      [] t = "artifacts" -> {"run_id"}
      [] t = Coordination -> {"finding_summaries", "action_requests", "team_ask"}
      [] OTHER -> {}

\* Foreign keys that delete the row, ...
Cascades(t) ==
    CASE t \in {"agent_sessions", "context_packs", Coordination} -> {"workspaces"}
      [] t = "workspaces" -> {}
      [] t = "context_items" -> {"context_packs"}
      [] t = "agent_context_mounts" -> {"agent_sessions", "context_packs"}
      [] t \in {"transcript_entries", "tool_calls", "handoff_items"} ->
            {"agent_sessions", "workspaces", "agent_runs"}
      [] t = "approval_requests" -> {"agent_sessions", "workspaces", "agent_runs", "tool_calls"}
      [] OTHER -> {"agent_sessions", "workspaces"}

\* ... and those that are set to null.
Nulls(t) ==
    CASE t = "artifacts" -> {"agent_runs"} [] t = "handoff_items" -> {"agent_sessions"} [] OTHER -> {}

Fresh(t) ==
    [cols |-> Columns(t), late |-> {}, cascade |-> Cascades(t), setNull |-> Nulls(t),
     states |-> IF t = "agent_sessions" THEN {"WAITING_APPROVAL"} ELSE {}, full |-> FALSE]

References(table) == table.cascade \cup table.setNull

-----------------------------------------------------------------------------
(* Statements                                                              *)

\* create table if not exists.
Create(s, names) == [t \in DOMAIN s \cup names |-> IF t \in DOMAIN s THEN s[t] ELSE Fresh(t)]

\* ensureColumn, for several columns: a new column comes last.
AddColumns(s, t, cols) ==
    [s EXCEPT ![t].cols = @ \cup cols, ![t].late = @ \cup (cols \ s[t].cols)]

Renamed(from, to, tables) == IF from \in tables THEN (tables \ {from}) \cup {to} ELSE tables

\* alter table rename.
Rename(s, from, to) ==
    LET renamed(old) == [old EXCEPT !.cascade = Renamed(from, to, @), !.setNull = Renamed(from, to, @)]
    IN [t \in (DOMAIN s \ {from}) \cup {to} |-> renamed(s[IF t = to THEN from ELSE t])]

\* Foreign keys are enforced while a migration runs.
Enforced_Always == TRUE

\* pragma foreign_keys = off, around every migration.
Enforced == FALSE

\* drop table: where foreign keys are enforced, its rows are deleted first.
Drop(s, t) ==
    [u \in DOMAIN s \ {t} |->
        IF Enforced /\ t \in s[u].cascade THEN [s[u] EXCEPT !.full = FALSE] ELSE s[u]]

\* Rename a table, create it anew, copy the rows and drop the old one.
Recreate(s, t, temp, table) ==
    LET r == Rename(s, t, temp)
    IN Drop([u \in DOMAIN r \cup {t} |-> IF u = t THEN [table EXCEPT !.full = r[temp].full] ELSE r[u]], temp)

-----------------------------------------------------------------------------
(* The migrations                                                          *)

\* 0001: the baseline.
M1(s) == Create(s, FirstNames \cup RunNames \cup {"artifacts", Coordination})

\* 0001 of the first release, as db/migrations/0001_initial.sql has it.
InitialTables ==
    [t \in FirstNames \cup {"artifacts"} |->
        CASE t \in {"workspaces", "artifacts"} -> [Fresh(t) EXCEPT !.cols = {}, !.setNull = {}]
          [] t = "agent_sessions" -> [Fresh(t) EXCEPT !.states = {}]
          [] OTHER -> Fresh(t)]

\* rebuildAgentSessionsForApprovalState.
SessionsRebuilt(s) ==
    IF "WAITING_APPROVAL" \in s["agent_sessions"].states THEN s
    ELSE Recreate(s, "agent_sessions", "agent_sessions_old", Fresh("agent_sessions"))

\* 0003: also the tables of runs, where they are missing.
M3(s) == Create(SessionsRebuilt(s), RunNames)

\* rebuildAgentSessionDependentTable.
Repair(s, t, temp, force) ==
    IF "agent_sessions_old" \in References(s[t]) \/ force THEN Recreate(s, t, temp, Fresh(t)) ELSE s

\* A table of the first release is repaired, but gets no new column.
RepairSessionKeys_NotForced(s) ==
    LET events == Repair(s, "agent_events", "agent_events_repair_old", FALSE)
        mounts == Repair(events, "agent_context_mounts", "agent_context_mounts_repair_old", FALSE)
    IN Repair(mounts, "usage_ticks", "usage_ticks_repair_old", FALSE)

\* 0005, repairAgentSessionForeignKeys.
RepairSessionKeys(s) ==
    LET events == Repair(s, "agent_events", "agent_events_repair_old", FALSE)
        mounts == Repair(events, "agent_context_mounts", "agent_context_mounts_repair_old", FALSE)
        ticks == Repair(mounts, "usage_ticks", "usage_ticks_repair_old", FALSE)
    IN Repair(ticks, "artifacts", "artifacts_repair_old", "run_id" \notin ticks["artifacts"].cols)

M7(s) == AddColumns(s, Coordination, {"finding_summaries", "action_requests"})
M9(s) ==
    AddColumns(
        AddColumns(s, Coordination,
                   {"dependency_graph", "execution_plan", "blocked_agents", "coordinator_decisions",
                    "reply_packets", "team_ask_history", "current_prompt_id"}),
        "workspaces", {"coordination_brief"})
M10(s) ==
    AddColumns(AddColumns(Create(s, MemoryNames), "workspaces", {"shared_context_kv"}),
               "handoff_items", {"auto_assign"})

\* 0014: the new states of a run.
M14(s) ==
    Recreate(s, "agent_runs", "agent_runs_old",
             [Fresh("agent_runs") EXCEPT !.states = {"QUEUED", "WAITING_INPUT"}])

\* handoff_items is not among the repaired tables.
RepairRunKeys_NoHandoffs(s) ==
    LET entries == Recreate(s, "transcript_entries", "transcript_entries_v14", Fresh("transcript_entries"))
        calls == Recreate(entries, "tool_calls", "tool_calls_v14", Fresh("tool_calls"))
    IN Recreate(calls, "approval_requests", "approval_requests_v14", Fresh("approval_requests"))

\* 0015: the tables whose foreign keys 0014 has turned to agent_runs_old.
RepairRunKeys(s) ==
    LET entries == Recreate(s, "transcript_entries", "transcript_entries_v14", Fresh("transcript_entries"))
        calls == Recreate(entries, "tool_calls", "tool_calls_v14", Fresh("tool_calls"))
        approvals == Recreate(calls, "approval_requests", "approval_requests_v14", Fresh("approval_requests"))
    IN Recreate(approvals, "handoff_items", "handoff_items_v14",
                [Fresh("handoff_items") EXCEPT !.cols = {"auto_assign"}])

M16(s) ==
    AddColumns([AddColumns(s, "artifacts", {"version", "parent_artifact_id"})
                    EXCEPT !["artifacts"].setNull = @ \cup {"artifacts"}],
               "approval_requests", {"modified_payload"})

Apply(n, s) ==
    CASE n = 1 -> M1(s)
      [] n = 2 -> AddColumns(s, "workspaces", {"project_root", "shared_context"})
      [] n = 3 -> M3(s)
      [] n = 4 -> AddColumns(s, "tool_calls", {"provider_call_id"})
      [] n = 5 -> RepairSessionKeys(s)
      [] n = 6 -> Create(s, {Coordination})
      [] n = 7 -> M7(s)
      [] n = 8 -> AddColumns(s, Coordination, {"team_ask"})
      [] n = 9 -> M9(s)
      [] n = 10 -> M10(s)
      [] n = 12 -> AddColumns(s, Coordination, {"coordinator_usage"})
      [] n = 13 -> AddColumns(s, "agent_memory_blocks", {"expires_at", "version"})
      [] n = 14 -> M14(s)
      [] n = 15 -> RepairRunKeys(s)
      [] n = 16 -> M16(s)
      [] OTHER -> s    \* 0011 makes indexes

\* Would a statement of it fail?  A name is taken; or 0015, which copies by
\* position, would put a value where the table refuses it.
Fails(n, s) ==
    \/ n = 14 /\ "agent_runs_old" \in DOMAIN s
    \/ n = 15 /\ s["tool_calls"].full /\ s["tool_calls"].late # {}

-----------------------------------------------------------------------------
(* Databases of earlier releases, in use                                   *)

InUse(s) == [t \in DOMAIN s |-> [s[t] EXCEPT !.full = TRUE]]

\* The release in which tool_calls had no provider_call_id, the reason for 0004.
UnnamedCalls == [Apply(3, Apply(2, InitialTables)) EXCEPT !["tool_calls"].cols = {}]

Init ==
    /\ release \in Prefixes
    /\ \/ "empty" \in Origins /\ schema = [t \in {} |-> Fresh(t)] /\ recorded = {}
       \/ "initial" \in Origins /\ release >= 1 /\ schema = InUse(InitialTables) /\ recorded = {1}
       \/ "unnamed calls" \in Origins /\ release >= 3 /\ schema = InUse(UnnamedCalls) /\ recorded = 1..3
    /\ history = "none"
    /\ pc = [p \in Planes |-> "down"] /\ applied = [p \in Planes |-> {}]
    /\ lock = Nobody /\ crashes = 0

Least(ns) == CHOOSE n \in ns : \A m \in ns : n <= m
Missing == (1..release) \ recorded

\* The earlier release applies its migrations and is used.
Upgrade ==
    /\ Missing # {} /\ ~Fails(Least(Missing), schema)
    /\ schema' = InUse(Apply(Least(Missing), schema))
    /\ recorded' = recorded \cup {Least(Missing)}
    /\ history' = IF Least(Missing) >= 9 THEN "live" ELSE history
    /\ UNCHANGED <<release, pc, applied, lock, crashes>>

Pending(p) == (1..Count) \ applied[p]
NextMigration(p) == Least(Pending(p))
Goes(p, to) == pc' = [pc EXCEPT ![p] = to]

\* A plane starts, creates schema_migrations and reads it.
Start(p) ==
    /\ pc[p] \in {"down", "failed"} /\ Missing = {}
    /\ applied' = [applied EXCEPT ![p] = recorded]
    /\ Goes(p, "migrate")
    /\ UNCHANGED <<schema, recorded, history, release, lock, crashes>>

\* begin immediate: if another has begun, this start fails.
Begin(p) ==
    /\ pc[p] = "migrate" /\ Pending(p) # {}
    /\ IF lock = Nobody THEN Goes(p, "within") /\ lock' = p ELSE Goes(p, "failed") /\ UNCHANGED lock
    /\ UNCHANGED <<schema, recorded, history, release, applied, crashes>>

\* The copy of the team asks in 0009.
Backfill(n) ==
    history' = IF n = 9 /\ schema[Coordination].full THEN "copied" ELSE history

\* A migration that is recorded already is applied again.
Commit_Again(p) ==
    /\ pc[p] = "within" /\ ~Fails(NextMigration(p), schema)
    /\ schema' = Apply(NextMigration(p), schema) /\ Backfill(NextMigration(p))
    /\ recorded' = recorded \cup {NextMigration(p)}
    /\ applied' = [applied EXCEPT ![p] = @ \cup {NextMigration(p)}]
    /\ Goes(p, "migrate") /\ lock' = Nobody
    /\ UNCHANGED <<release, crashes>>

\* The migration is applied and recorded.
Commit(p) ==
    /\ pc[p] = "within" /\ ~Fails(NextMigration(p), schema) /\ NextMigration(p) \notin recorded
    /\ schema' = Apply(NextMigration(p), schema) /\ Backfill(NextMigration(p))
    /\ recorded' = recorded \cup {NextMigration(p)}
    /\ applied' = [applied EXCEPT ![p] = @ \cup {NextMigration(p)}]
    /\ Goes(p, "migrate") /\ lock' = Nobody
    /\ UNCHANGED <<release, crashes>>

\* A statement fails, the record too if there is one already: the start fails.
Rollback(p) ==
    /\ pc[p] = "within" /\ (Fails(NextMigration(p), schema) \/ NextMigration(p) \in recorded)
    /\ Goes(p, "failed") /\ lock' = Nobody
    /\ UNCHANGED <<schema, recorded, history, release, applied, crashes>>

\* assertCoreSchema.
AssertCoreSchema(p) ==
    /\ pc[p] = "migrate" /\ Pending(p) = {}
    /\ Goes(p, IF Names \subseteq DOMAIN schema THEN "serve" ELSE "failed")
    /\ UNCHANGED <<schema, recorded, history, release, applied, lock, crashes>>

\* A control plane at work writes rows, and its own history of asks.  A row of
\* a table whose foreign keys name no table is refused.
Serve(p) ==
    /\ pc[p] = "serve"
    /\ schema' = [t \in DOMAIN schema |->
                    IF References(schema[t]) \subseteq DOMAIN schema
                    THEN [schema[t] EXCEPT !.full = TRUE] ELSE schema[t]]
    /\ history' = "live"
    /\ UNCHANGED <<recorded, release, pc, applied, lock, crashes>>

\* A process that ends within a migration leaves half of 0014.
Crash_HalfDone(p) ==
    /\ pc[p] \notin {"down", "failed"} /\ crashes < MaxCrashes /\ crashes' = crashes + 1
    /\ Goes(p, "down") /\ lock' = IF lock = p THEN Nobody ELSE lock
    /\ schema' = IF pc[p] = "within" /\ NextMigration(p) = 14
                 THEN Create(Rename(schema, "agent_runs", "agent_runs_old"), RunNames) ELSE schema
    /\ UNCHANGED <<recorded, history, release, applied>>

\* A process ends; its transaction leaves nothing behind.
Crash(p) ==
    /\ pc[p] \notin {"down", "failed"} /\ crashes < MaxCrashes /\ crashes' = crashes + 1
    /\ Goes(p, "down") /\ lock' = IF lock = p THEN Nobody ELSE lock
    /\ UNCHANGED <<schema, recorded, history, release, applied>>

Step(p) == Begin(p) \/ Commit(p) \/ Rollback(p) \/ AssertCoreSchema(p)

Next == Upgrade \/ \E p \in Planes : Start(p) \/ Step(p) \/ Serve(p) \/ Crash(p)

Spec == Init /\ [][Next]_vars

\* A start goes on, and a plane that went down is started again (said of pc
\* alone: every step that changes it but a crash).
GoesOn(p) ==
    \/ pc[p] \in {"migrate", "within"} /\ \E to \in {"migrate", "within", "serve", "failed"} : Goes(p, to)
    \/ pc[p] \in {"down", "failed"} /\ Missing = {} /\ Goes(p, "migrate")
FairSpec == Spec /\ WF_vars(Upgrade) /\ \A p \in Planes : WF_pc(GoesOn(p))

-----------------------------------------------------------------------------
(* What the statements of a control plane use                              *)

\* The columns they name, besides those every version has, ...
Named(t) ==
    CASE t = "workspaces" -> {"project_root", "shared_context", "coordination_brief", "shared_context_kv"}
      [] t = "tool_calls" -> {"provider_call_id"}
      [] t = "approval_requests" -> {"modified_payload"}
      [] t = "handoff_items" -> {"auto_assign"}
      [] t = "artifacts" -> {"run_id", "version", "parent_artifact_id"}
      [] t = "agent_memory_blocks" -> {"expires_at", "version"}
      [] t = Coordination ->
            {"finding_summaries", "action_requests", "team_ask", "dependency_graph", "execution_plan",
             "blocked_agents", "coordinator_decisions", "reply_packets", "team_ask_history",
             "current_prompt_id", "coordinator_usage"}
      [] OTHER -> {}

\* ... and the states they set, besides those of the first release.
Set(t) ==
    CASE t = "agent_sessions" -> {"WAITING_APPROVAL"}
      [] t = "agent_runs" -> {"QUEUED"}
      [] OTHER -> {}

-----------------------------------------------------------------------------
(* The variables have their types, and only the plane that has begun a     *)
(* transaction holds the lock.                                             *)
TypeOK ==
    /\ recorded \subseteq 1..Count /\ history \in {"none", "copied", "live"}
    /\ pc \in [Planes -> {"down", "migrate", "within", "serve", "failed"}]
    /\ applied \in [Planes -> SUBSET (1..Count)]
    /\ \A p \in Planes : pc[p] = "within" <=> lock = p
    /\ \A t \in DOMAIN schema : schema[t].full \in BOOLEAN

(* No step of a migration loses the rows of a table, whatever it renames,  *)
(* recreates or drops, also when it was interrupted before.                *)
RowsAreKept ==
    [][\A t \in DOMAIN schema :
          schema[t].full => t \in DOMAIN schema' /\ schema'[t].full]_vars

(* A control plane serves requests only with every column and every state  *)
(* that its statements use, whatever release the database comes from and   *)
(* however the migrations of two planes and their crashes interleaved.     *)
ServedSchemaIsCurrent ==
    (\E p \in Planes : pc[p] = "serve") =>
        \A t \in Names : /\ t \in DOMAIN schema
                         /\ Named(t) \subseteq schema[t].cols /\ Set(t) \subseteq schema[t].states

(* What 0005 and 0015 repair stays repaired: while a plane serves, no      *)
(* foreign key of these tables names a table that was renamed away.        *)
RepairedKeysResolve ==
    (\E p \in Planes : pc[p] = "serve") =>
        \A t \in DOMAIN schema \ {"artifacts"} : References(schema[t]) \subseteq DOMAIN schema

(* 0009 copies the current ask into the history; a plane that migrates     *)
(* beside one that serves never does it again, over the history written    *)
(* since.                                                                  *)
HistoryStays == [][history = "live" => history' = "live"]_vars

(* However often a start is interrupted or loses against another, the      *)
(* database is migrated and some plane serves at last.                     *)
ServesAtLast == <>(\E p \in Planes : pc[p] = "serve")

(* The note at 0014 and the comment of 0015: foreign keys are off while    *)
(* migrations run, so that the renaming of agent_runs turns no foreign key *)
(* to agent_runs_old.                                                      *)
RenamingLeavesKeys ==
    (\E p \in Planes : pc[p] = "serve") =>
        \A t \in DOMAIN schema : "agent_runs_old" \notin References(schema[t])

(* The coordinator plan: existing workspaces survive the migration without *)
(* data loss or startup errors.                                            *)
NoStartupError ==
    \A p \in Planes : pc[p] = "within" => ~Fails(NextMigration(p), schema)

(* The coordinator plan: a run that is held back sets its agent to         *)
(* WAITING_DEPENDENCY, as startRun does; the table must have that state.   *)
HeldAgentIsStored ==
    (\E p \in Planes : pc[p] = "serve") => "WAITING_DEPENDENCY" \in schema["agent_sessions"].states
=============================================================================
