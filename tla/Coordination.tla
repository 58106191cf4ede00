---------------------------- MODULE Coordination -----------------------------
(***************************************************************************)
(* The coordination row of a workspace (lib/coordination-state.ts): what    *)
(* the operator is asked, which agents may run, the packets of a reply.     *)
(*                                                                         *)
(* A refresh reads the row and the tables, may wait for a model that words  *)
(* the ask (coordination-synthesizer.ts), and writes the WHOLE row back.    *)
(* The database calls in between give no other macrotask a turn; the call   *)
(* of the model does.  A refresh is therefore one action, or two: Refresh   *)
(* and Return.  `pending' holds the row such a refresh is going to write.   *)
(*                                                                         *)
(* Left out: findings and texts (they do not decide anything), who is told  *)
(* what in a packet, token counts.  Edges of other kinds than handoffs are  *)
(* never made: the kinds are parsed from metadata that no agent writes.     *)
(* An edge leads to the id of a handoff where agents are looked up, so the  *)
(* plan never says "wait".                                                  *)
(***************************************************************************)
EXTENDS Naturals, Sequences, FiniteSets

CONSTANTS
  Agents, Handoffs, Chains,
  Synthesis,            \* may there be a key for the model that words the asks?
  AskCap, PacketCap,    \* 20 and 10 in the code
  MaxPrompts, MaxStarts, MaxBriefs, MaxDecisions, MaxCrashes \* bounds of the environment

ASSUME CoordinationAssumption ==
  /\ IsFiniteSet(Agents)
  /\ Synthesis \subseteq BOOLEAN
  /\ {AskCap, PacketCap} \subseteq Nat \ {0}
  /\ {MaxPrompts, MaxStarts, MaxBriefs, MaxDecisions, MaxCrashes} \subseteq Nat

VARIABLES
  world,   \* the tables a refresh reads: state, latest run and pending approval of
           \* each agent, status of each handoff
  row,     \* the row of workspace_coordination_states
  fresh,   \* was it written less than refreshWindowMs ago?
  planned, \* the brief in workspaces.layout_config
  pending, \* what each chain that waits for the model will write
  cached,  \* synthesisCache: prompt round -> agents whose summary is kept
  synthesizes, \* has this process the key (in its environment)?
  prompts, starts, decisions, crashes \* how often the environment acted

env  == <<prompts, starts, decisions, crashes>>
vars == <<world, row, fresh, planned, pending, cached, synthesizes, env>>

NoRow == [kind |-> "none"]
NoAsk == [id |-> 0, prompt |-> 0, requests |-> {}, dismissed |-> FALSE]
Idle  == [step |-> "idle"]

\* Numbers for ids made from the clock: more than can be in use at once.
AskIds   == 1..(AskCap + Cardinality(Chains) + 1)
Runs     == 0..(MaxStarts + MaxPrompts)
Requests == [agent : Agents, run : Runs, failed : BOOLEAN]
Asks     == [id : AskIds, prompt : 0..MaxPrompts, requests : SUBSET Requests, dismissed : BOOLEAN]
Rows     == [kind : {"row"}, brief : 0..MaxBriefs, ask : Asks \cup {NoAsk}, history : Seq(Asks),
             edge : [Handoffs -> {"none", "unresolved", "resolved"}],
             plan : [Agents -> {"run_now", "ask_user"}],
             packets : Seq([agent : Agents, prompt : 1..MaxPrompts]), prompt : 0..MaxPrompts]
Nexts == [op : {"done", "packets"}] \cup [op : {"edge", "resolve"}, handoff : Handoffs]

TypeOK ==
  /\ world \in [state : [Agents -> {"IDLE", "RUNNING", "WAITING_INPUT", "ERROR"}],
                run : [Agents -> Runs], approval : [Agents -> BOOLEAN],
                handoff : [Handoffs -> {"NONE", "OPEN", "ASSIGNED", "DONE", "DISMISSED"}]]
  /\ row \in Rows \cup {NoRow}
  /\ row # NoRow => Len(row.history) <= AskCap /\ Len(row.packets) <= PacketCap
  /\ fresh \in BOOLEAN /\ planned \in 0..MaxBriefs
  /\ pending \in [Chains -> {Idle} \cup [step : {"asking"}, draft : Rows, key : 0..MaxPrompts,
                                         agents : SUBSET Agents, next : Nexts]]
  /\ cached \in [0..MaxPrompts -> SUBSET Agents] /\ synthesizes \in Synthesis
  /\ prompts \in 0..MaxPrompts /\ starts \in 0..MaxStarts /\ decisions \in 0..MaxDecisions /\ crashes \in 0..MaxCrashes

Init ==
  /\ world = [state |-> [a \in Agents |-> "IDLE"], run |-> [a \in Agents |-> 0],
              approval |-> [a \in Agents |-> FALSE], handoff |-> [h \in Handoffs |-> "NONE"]]
  /\ row = NoRow /\ fresh = FALSE /\ planned = 0
  /\ pending = [c \in Chains |-> Idle]
  /\ cached = [p \in 0..MaxPrompts |-> {}] /\ synthesizes \in Synthesis
  /\ prompts = 0 /\ starts = 0 /\ decisions = 0 /\ crashes = 0

Active(c) == pending[c] # Idle
Cut(s, n) == SubSeq(s, 1, IF Len(s) < n THEN Len(s) ELSE n)

-----------------------------------------------------------------------------
(* What a refresh computes                                                  *)

\* The options of a refresh: a brief or none, a prompt or none (0).
NoOptions == [brief |-> {}, prompt |-> 0]

\* loadLatestRunContextBatch: the run that an agent's request is about.
LatestRun(w, a) == w.run[a]

\* Fault: an agent that failed asks for nothing.
NeedsInput_NotFailed(w) ==
  {[agent |-> a, run |-> LatestRun(w, a), failed |-> FALSE] :
     a \in {b \in Agents : w.state[b] = "WAITING_INPUT"}}

\* The needs_input requests of collectCoordinationSignals.
NeedsInput(w) ==
  {[agent |-> a, run |-> LatestRun(w, a), failed |-> w.state[a] = "ERROR"] :
     a \in {b \in Agents : w.state[b] \in {"WAITING_INPUT", "ERROR"}}}

\* buildExecutionPlan: the approvals decide, no edge ever leads to an agent.
\* Fault: the approvals are overlooked.
PlanOf_NoApprovals(w) == [a \in Agents |-> "run_now"]
PlanOf(w) == [a \in Agents |-> IF w.approval[a] THEN "ask_user" ELSE "run_now"]

UsedIds(r) ==
  (IF r = NoRow THEN {} ELSE {r.ask.id} \cup {r.history[i].id : i \in DOMAIN r.history})
  \cup UNION {IF Active(c) THEN {pending[c].draft.ask.id} ELSE {} : c \in Chains}
NewId(r) == CHOOSE i \in AskIds : i \notin UsedIds(r)

History(r) == IF r = NoRow THEN <<>> ELSE r.history
Prompt(r, opts) == IF opts.prompt # 0 THEN opts.prompt ELSE IF r = NoRow THEN 0 ELSE r.prompt

\* Fault: the id of an ask is made anew by every refresh.
TeamAsk_NewId(r, w, opts) ==
  IF NeedsInput(w) = {} THEN NoAsk
  ELSE [id |-> NewId(r), prompt |-> Prompt(r, opts), requests |-> NeedsInput(w), dismissed |-> FALSE]

\* summarizeTeamAsk: the id of the last ask is used again when the round and the
\* requests are the same.
TeamAsk(r, w, opts) ==
  LET p == Prompt(r, opts)
      h == History(r)
      same == p # 0 /\ h # <<>> /\ h[1].prompt = p /\ h[1].requests = NeedsInput(w)
  IN IF NeedsInput(w) = {} THEN NoAsk
     ELSE [id |-> IF same THEN h[1].id ELSE NewId(r), prompt |-> p,
           requests |-> NeedsInput(w), dismissed |-> FALSE]

\* The carry-forward of refreshWorkspaceState: the last ask stays on display unless
\* it was dismissed or this very refresh starts a new round.
Carried(r, opts) ==
  LET from == IF r = NoRow THEN NoAsk
              ELSE IF r.ask # NoAsk THEN r.ask
              ELSE IF r.history # <<>> THEN r.history[1] ELSE NoAsk
      newRound == opts.prompt # 0 /\ from.prompt # 0 /\ from.prompt # opts.prompt
  IN IF from.dismissed \/ newRound THEN NoAsk ELSE from

\* Fault: an ask that was made anew is not put into the history.
HistoryWith_NotNew(h, ask) ==
  IF h # <<>> /\ h[1].id = ask.id THEN <<ask>> \o Tail(h) ELSE h

HistoryWith(h, ask) ==
  IF ask = NoAsk THEN h
  ELSE IF h # <<>> /\ h[1].id = ask.id THEN <<ask>> \o Tail(h)
  ELSE Cut(<<ask>> \o h, AskCap)

\* Fault: the brief is taken from the workspace first.
BriefOf_Workspace(r, opts) ==
  IF opts.brief # {} THEN CHOOSE b \in opts.brief : TRUE ELSE planned

BriefOf(r, opts) ==
  IF opts.brief # {} THEN CHOOSE b \in opts.brief : TRUE
  ELSE IF r # NoRow /\ r.brief # 0 THEN r.brief ELSE planned

\* buildCoordinationState; the plan is replaced by its caller.
Built(r, w, opts) ==
  [kind |-> "row", brief |-> BriefOf(r, opts), ask |-> TeamAsk(r, w, opts),
   history |-> HistoryWith(History(r), TeamAsk(r, w, opts)),
   edge |-> IF r = NoRow THEN [x \in Handoffs |-> "none"] ELSE r.edge,
   plan |-> PlanOf(w),
   packets |-> IF r = NoRow THEN <<>> ELSE r.packets,
   prompt |-> Prompt(r, opts)]

\* What refreshWorkspaceState makes of it: the ask is carried forward, and the
\* head of the history kept in step with it.
Refreshed(r, w, opts) ==
  LET b   == Built(r, w, opts)
      ask == IF b.ask = NoAsk THEN Carried(r, opts) ELSE b.ask
      h   == b.history
  IN [b EXCEPT !.ask = ask,
        !.history = IF ask # NoAsk /\ h # <<>> /\ h[1].id = ask.id THEN HistoryWith(h, ask) ELSE h]

Waiting(w) == {a \in Agents : w.state[a] = "WAITING_INPUT"}

\* The model is asked once for a round and a set of agents, when all have settled.
MustAsk(r, w, opts, kept) ==
  /\ synthesizes /\ Waiting(w) # {}
  /\ \A a \in Agents : w.state[a] # "RUNNING"
  /\ kept[Prompt(r, opts)] # Waiting(w)

-----------------------------------------------------------------------------
(* The steps of a refresh                                                   *)

Keep(c, r) ==
  row' = r /\ fresh' = TRUE /\ pending' = [pending EXCEPT ![c] = Idle]

\* r is what is written so far; the refresh writes the rest when the model has answered.
AskModel(c, r, w, opts, next) ==
  /\ row' = r /\ fresh' = (IF r = row THEN fresh ELSE TRUE)
  /\ pending' = [pending EXCEPT ![c] =
       [step |-> "asking", draft |-> Refreshed(r, w, opts), key |-> Prompt(r, opts),
        agents |-> Waiting(w), next |-> next]]
  /\ world' = w

RefreshLast(c, r, w, kept) ==
  IF MustAsk(r, w, NoOptions, kept)
  THEN AskModel(c, r, w, NoOptions, [op |-> "done"])
  ELSE Keep(c, Refreshed(r, w, NoOptions)) /\ world' = w

WithEdge(r, h) == [r EXCEPT !.edge[h] = "unresolved"]
\* Fault: the resolved edge is taken out of the graph.
WithoutEdge_Removed(r, h) == [r EXCEPT !.edge[h] = "none"]
WithoutEdge(r, h) == [r EXCEPT !.edge[h] = IF @ = "unresolved" THEN "resolved" ELSE @]

Ready(r) == {a \in Agents : r.plan[a] = "run_now"}
InOrder(S) == CHOOSE s \in [1..Cardinality(S) -> S] : \A a \in S : \E i \in DOMAIN s : s[i] = a

\* Fault: the packets of the round replace those of earlier rounds.
WithPackets_Only(r) ==
  [r EXCEPT !.packets = Cut([i \in 1..Cardinality(Ready(r)) |->
                             [agent |-> InOrder(Ready(r))[i], prompt |-> r.prompt]], PacketCap)]

\* decomposeWorkspaceReply, steps 5 and 6.
WithPackets(r) ==
  [r EXCEPT !.packets = Cut([i \in 1..Cardinality(Ready(r)) |->
                             [agent |-> InOrder(Ready(r))[i], prompt |-> r.prompt]] \o @, PacketCap)]

\* The row is written; then comes what the caller of the refresh does with it.
\* A dispatch starts a run of each agent that got a packet.  resumeBlockedAgents
\* finds a fresh row and no blocked agent.
Store(c, r, w, next, kept) ==
  \/ next.op = "done" /\ Keep(c, r) /\ world' = w
  \/ /\ next.op = "packets"
     /\ Keep(c, IF Ready(r) = {} THEN r ELSE WithPackets(r))
     /\ world' = [w EXCEPT !.run = [a \in Agents |-> IF a \in Ready(r) THEN @[a] + 1 ELSE @[a]],
                           !.state = [a \in Agents |-> IF a \in Ready(r) THEN "RUNNING" ELSE @[a]]]
  \/ next.op = "edge" /\ RefreshLast(c, WithEdge(r, next.handoff), w, kept)
  \/ next.op = "resolve" /\ RefreshLast(c, WithoutEdge(r, next.handoff), w, kept)

\* refreshWorkspaceState in chain c, w being the tables it reads.
Refresh(c, w, opts, next) ==
  /\ ~Active(c)
  /\ cached' = cached
  /\ IF MustAsk(row, w, opts, cached)
     THEN AskModel(c, row, w, opts, next)
     ELSE Store(c, Refreshed(row, w, opts), w, next, cached)

\* The model answers, or does not (synthesizeTeamStatus returns null).
Return(c, answered) ==
  /\ Active(c)
  /\ cached' = IF answered THEN [cached EXCEPT ![pending[c].key] = pending[c].agents] ELSE cached
  /\ Store(c, pending[c].draft, world, pending[c].next, cached')
  /\ UNCHANGED <<planned, synthesizes, env>>

-----------------------------------------------------------------------------
(* Who refreshes                                                            *)

\* getWorkspaceState: the desktop polls it, and every run asks before it starts.
Poll(c) ==
  /\ ~fresh /\ Refresh(c, world, NoOptions, [op |-> "done"])
  /\ UNCHANGED <<planned, synthesizes, env>>

\* The three seconds of a fresh row are over.
Age == fresh /\ fresh' = FALSE /\ UNCHANGED <<world, row, planned, pending, cached, synthesizes, env>>

\* PUT /workspaces/:id/coordination.  0 is null.
PutBrief(c, b) ==
  /\ decisions < MaxDecisions /\ decisions' = decisions + 1
  /\ Refresh(c, world, [brief |-> {b}, prompt |-> 0], [op |-> "done"])
  /\ UNCHANGED <<planned, synthesizes, starts, crashes, prompts>>

\* PATCH /workspaces/:id with a brief.
PatchBrief(c, b) ==
  /\ decisions < MaxDecisions /\ decisions' = decisions + 1
  /\ planned' = b
  /\ Refresh(c, world, [brief |-> {b}, prompt |-> 0], [op |-> "done"])
  /\ UNCHANGED <<synthesizes, starts, crashes, prompts>>

\* POST /workspaces/:id/coordination/dispatch: the operator replies to the team.
Dispatch(c) ==
  /\ row # NoRow /\ prompts < MaxPrompts /\ prompts' = prompts + 1
  /\ Refresh(c, world, [brief |-> {}, prompt |-> prompts + 1], [op |-> "packets"])
  /\ UNCHANGED <<planned, synthesizes, starts, decisions, crashes>>

\* DELETE /workspaces/:id/team-ask (repositories.coordination.dismissTeamAsk).
Dismiss ==
  /\ row # NoRow /\ row.ask # NoAsk /\ decisions < MaxDecisions /\ decisions' = decisions + 1
  /\ row' = [row EXCEPT !.ask.dismissed = TRUE] /\ fresh' = TRUE
  /\ UNCHANGED <<world, planned, pending, cached, synthesizes, starts, crashes, prompts>>

-----------------------------------------------------------------------------
(* The agents                                                               *)

\* A run is started for one agent, or its run goes on by a reply.
Start(a) ==
  /\ world.state[a] # "RUNNING" /\ ~world.approval[a]
  /\ starts < MaxStarts /\ starts' = starts + 1
  /\ world' = [world EXCEPT !.state[a] = "RUNNING", !.run[a] = @ + 1]
  /\ UNCHANGED <<row, fresh, planned, pending, cached, synthesizes, decisions, crashes, prompts>>

\* The turn is over: runs that complete and runs that fail refresh (onRunCompleted).
Settle(c, a) ==
  /\ world.state[a] = "RUNNING"
  /\ \E s \in {"WAITING_INPUT", "ERROR"} :
       Refresh(c, [world EXCEPT !.state[a] = s], NoOptions, [op |-> "done"])
  /\ UNCHANGED <<planned, synthesizes, env>>

\* The turn ends with a tool call that needs an approval.
AskApproval(c, a) ==
  /\ world.state[a] = "RUNNING" /\ decisions < MaxDecisions /\ decisions' = decisions + 1
  /\ world' = [world EXCEPT !.state[a] = "WAITING_INPUT", !.approval[a] = TRUE]
  /\ UNCHANGED <<row, fresh, planned, pending, cached, synthesizes, starts, crashes, prompts>>

\* The operator decides, the run goes on.
Decide(c, a) ==
  /\ world.approval[a]
  /\ Refresh(c, [world EXCEPT !.state[a] = "RUNNING", !.approval[a] = FALSE], NoOptions, [op |-> "done"])
  /\ UNCHANGED <<planned, synthesizes, env>>

-----------------------------------------------------------------------------
(* Handoffs                                                                 *)

\* create_handoff: a refresh, then onHandoffCreated.
CreateHandoff(c, h) ==
  /\ world.handoff[h] = "NONE"
  /\ Refresh(c, [world EXCEPT !.handoff[h] = "OPEN"], NoOptions, [op |-> "edge", handoff |-> h])
  /\ UNCHANGED <<planned, synthesizes, env>>

\* POST /handoffs/:id/assign and /create-agent.
AssignHandoff(c, h) ==
  /\ world.handoff[h] = "OPEN"
  /\ Refresh(c, [world EXCEPT !.handoff[h] = "ASSIGNED"], NoOptions, [op |-> "done"])
  /\ UNCHANGED <<planned, synthesizes, env>>

\* PATCH /handoffs/:id: a refresh, then onHandoffResolved.
PatchHandoff(c, h) ==
  /\ world.handoff[h] \in {"OPEN", "ASSIGNED"}
  /\ \E s \in {"DONE", "DISMISSED"} :
       Refresh(c, [world EXCEPT !.handoff[h] = s], NoOptions, [op |-> "resolve", handoff |-> h])
  /\ UNCHANGED <<planned, synthesizes, env>>

\* The process is started again: the calls of the model and its answers are gone.
Crash ==
  /\ crashes < MaxCrashes /\ crashes' = crashes + 1
  /\ pending' = [c \in Chains |-> Idle] /\ cached' = [p \in 0..MaxPrompts |-> {}]
  /\ synthesizes' \in Synthesis
  /\ UNCHANGED <<world, row, fresh, planned, starts, decisions, prompts>>

Next ==
  \/ \E c \in Chains :
       \/ Poll(c) \/ Dispatch(c) \/ (\E answered \in BOOLEAN : Return(c, answered))
       \/ \E b \in 0..MaxBriefs : PutBrief(c, b) \/ PatchBrief(c, b)
       \/ \E a \in Agents : Settle(c, a) \/ AskApproval(c, a) \/ Decide(c, a)
       \/ \E h \in Handoffs : CreateHandoff(c, h) \/ AssignHandoff(c, h) \/ PatchHandoff(c, h)
  \/ (\E a \in Agents : Start(a)) \/ Age \/ Dismiss \/ Crash

Spec == Init /\ [][Next]_vars

\* The desktop polls, time passes, and the call of the model ends.
FairSpec ==
  /\ Spec /\ WF_vars(Age)
  /\ \A c \in Chains : WF_vars(Poll(c)) /\ WF_vars(\E answered \in BOOLEAN : Return(c, answered))

-----------------------------------------------------------------------------
(* Properties                                                               *)

\* The ask on display is the newest of the history, word for word except for the mark
\* of a dismissal: what is carried forward comes from there (teamAskHistory in sync).
AskHeadsHistory ==
  row # NoRow /\ row.ask # NoAsk =>
    /\ row.history # <<>>
    /\ [row.ask EXCEPT !.dismissed = FALSE] = [row.history[1] EXCEPT !.dismissed = FALSE]

\* Within a round the same requests keep the id of their ask ("Stable ID"), so the
\* desktop does not show the same question as a new one.
KeepsAskId ==
  row # NoRow /\ row.ask # NoAsk /\ row.prompt # 0 /\ row'.prompt = row.prompt
    /\ row.ask.prompt = row.prompt /\ row'.ask.requests = row.ask.requests
  => row'.ask.id = row.ask.id

\* The ask on display heads the history, whatever refreshes; without the model, within
\* a round, the same requests keep the id of their ask.
AskIsSteady == []AskHeadsHistory /\ [][~synthesizes => KeepsAskId]_vars

\* A reply packet, once persisted, is only pushed out by newer ones.
KeepsPackets ==
  row # NoRow /\ row'.packets # row.packets =>
    \E n \in 0..Len(row'.packets) :
      SubSeq(row'.packets, n + 1, Len(row'.packets)) = Cut(row.packets, PacketCap - n)

\* A reply is not sent to an agent whose approval is still to be decided.
PassesUndecided ==
  row # NoRow /\ row'.packets # row.packets =>
    \A i \in DOMAIN row'.packets :
      row'.packets[i].prompt > row.prompt => ~world.approval[row'.packets[i].agent]

\* Without the model, no reply goes to an agent whose approval is undecided.
UndecidedArePassed == [][~synthesizes => PassesUndecided]_vars

\* A brief that is set is replaced by the operator only, not by a refresh.
KeepsBrief == row # NoRow /\ row.brief # 0 /\ row'.brief # row.brief => decisions' = decisions + 1

\* An edge that was resolved is never unresolved again, and none disappears.
KeepsEdges ==
  row # NoRow => \A h \in Handoffs :
    /\ row.edge[h] = "resolved" => row'.edge[h] = "resolved"
    /\ row.edge[h] = "unresolved" => row'.edge[h] # "none"

\* Without the model, whatever refreshes, a persisted packet is only pushed out by
\* newer ones, a brief is replaced by the operator only, and edges stay, resolved
\* ones resolved (the row that sync writes back).
RefreshesLoseNothing == [][~synthesizes => KeepsPackets /\ KeepsBrief /\ KeepsEdges]_vars

\* An agent that waits for the operator, or failed, appears in the ask.
WaitingIsAsked ==
  \A a \in Agents :
    world.state[a] \in {"WAITING_INPUT", "ERROR"}
      ~> \/ world.state[a] \notin {"WAITING_INPUT", "ERROR"}
         \/ row # NoRow /\ \E q \in row.ask.requests : q.agent = a /\ q.run = world.run[a]

\* "The active teamAsk field only surfaces the ask for the current currentPromptId."
AskIsOfThisRound ==
  row # NoRow /\ row.ask # NoAsk => row.ask.prompt = row.prompt

\* "Only discard when ... the operator explicitly dismissed it": a dismissed ask, the
\* same requests of the same round, does not come back.
DismissedIsDiscarded ==
  [][row # NoRow /\ row.ask.dismissed /\ row'.ask # NoAsk
       /\ row'.ask.requests = row.ask.requests /\ row'.ask.prompt = row.ask.prompt
     => row'.ask.dismissed]_vars

\* "Resolving a handoff ... automatically unblocks": its edge gets resolved.
HandoffsResolve ==
  \A h \in Handoffs :
    world.handoff[h] \in {"DONE", "DISMISSED"} ~> row # NoRow /\ row.edge[h] # "unresolved"
=============================================================================
