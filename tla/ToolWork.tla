------------------------------ MODULE ToolWork ------------------------------
(***************************************************************************)
(* The tools by which an agent changes and checks its worktree, and the    *)
(* catalogue they are offered in (tool-broker.ts): what listTools offers,  *)
(* what requiresApproval puts before the operator, and what execute does   *)
(* for git_status, git_diff, run_verification_command, write_file,         *)
(* apply_patch, run_command and spawn_agent's choice of a model.  The      *)
(* other tools appear by name: they have modules of their own.             *)
(*                                                                         *)
(* A worktree is a version number: a tool that changes files makes the     *)
(* next one.  Calls are well formed, and disk errors are left out.         *)
(* `scripts` are the verification commands that the repository has; they   *)
(* are looked up when tools are listed and again when one is run, and may  *)
(* change in between.  One call is served at a time (see RunOrchestrator), *)
(* and the process may end between any two of its steps.                   *)
(* Bounds: MaxCalls, MaxEdits of the scripts, MaxCrashes.                  *)
(***************************************************************************)
EXTENDS Naturals, FiniteSets, Sequences

CONSTANTS
    Labels,         \* verification commands: "pnpm test", "cargo check", ...
    MaxCalls, MaxEdits, MaxCrashes

ToolWorkAssumption ==
    /\ IsFiniteSet(Labels) /\ {MaxCalls, MaxEdits, MaxCrashes} \subseteq Nat

VARIABLES
    hasWorktree,    \* is the workspace's project a repository?
    scripts,        \* the verification commands of the repository
    offered,        \* the tools of the last request to the provider, with the
                    \* commands named in them
    call,           \* the call being served
    files,          \* version of the worktree
    stored,         \* calls that have a file in the artifact directory
    rows,           \* artifact rows: the call, and where the row says the content is
    calls, edits, crashes

repo == <<hasWorktree, scripts>>
bounds == <<calls, edits, crashes>>
vars == <<repo, offered, call, files, stored, rows, bounds>>

AutoApproved ==
    {"list_tree", "read_file", "search_files", "git_status", "git_diff",
     "run_verification_command", "create_handoff", "list_tools", "write_memory", "read_memory",
     "delete_memory", "read_peer_output", "watch_peer_output", "send_agent_message",
     "mark_message_read", "update_shared_context", "list_providers", "suggest_model"}
ApprovalRequired == {"write_file", "apply_patch", "run_command", "spawn_agent"}

\* What listTools offers everywhere, and what only where there is a worktree.
Everywhere ==
    {"list_tools", "spawn_agent", "create_handoff", "write_memory", "read_memory",
     "delete_memory", "read_peer_output", "watch_peer_output", "send_agent_message",
     "mark_message_read", "update_shared_context", "list_providers", "suggest_model"}
InWorktree ==
    {"list_tree", "read_file", "search_files", "git_status", "git_diff", "write_file",
     "apply_patch", "run_command"}
\* What a provider may ask for: also what it has not been offered.
Names == Everywhere \cup InWorktree \cup {"run_verification_command", "a tool nobody knows"}

NoLabel == "none"
NoCall == [id |-> 0, tool |-> "none", label |-> NoLabel, step |-> "none", asked |-> FALSE, result |-> "none"]
NoOffer == [tools |-> {}, labels |-> {}]

Init ==
    /\ hasWorktree \in BOOLEAN
    /\ scripts \in IF hasWorktree THEN SUBSET Labels ELSE {{}}
    /\ offered = NoOffer /\ call = NoCall
    /\ files = 0 /\ stored = {} /\ rows = {}
    /\ calls = 0 /\ edits = 0 /\ crashes = 0

-----------------------------------------------------------------------------
\* discoverVerificationCommands is part of it.
ListTools ==
    /\ call.step = "none"
    /\ offered' =
        IF ~hasWorktree THEN [tools |-> Everywhere, labels |-> {}]
        ELSE [tools |-> Everywhere \cup InWorktree
                        \cup (IF scripts # {} THEN {"run_verification_command"} ELSE {}),
              labels |-> scripts]
    /\ UNCHANGED <<repo, call, files, stored, rows, bounds>>

\* The operator, or a command of an agent, edits package.json or Cargo.toml.
EditScripts ==
    /\ hasWorktree /\ edits < MaxEdits /\ edits' = edits + 1
    /\ \E s \in SUBSET Labels : scripts' = s
    /\ UNCHANGED <<hasWorktree, offered, call, files, stored, rows, calls, crashes>>

\* Only what runs something is put before the operator.
RequiresApproval_Commands(tool) == tool \in {"run_command", "spawn_agent"}

\* What is not known to be harmless is asked about.
RequiresApproval(tool) == tool \in ApprovalRequired \/ tool \notin AutoApproved

Request(tool, label) ==
    /\ offered # NoOffer /\ call.step = "none" /\ calls < MaxCalls /\ calls' = calls + 1
    /\ label \in IF tool = "run_verification_command" THEN Labels ELSE {NoLabel}
    /\ call' = [id |-> calls + 1, tool |-> tool, label |-> label, asked |-> RequiresApproval(tool),
                step |-> IF RequiresApproval(tool) THEN "waits" ELSE "execute", result |-> "none"]
    /\ UNCHANGED <<repo, offered, files, stored, rows, edits, crashes>>

\* The operator decides; a refusal is told to the provider as an error.
Decide ==
    /\ call.step = "waits"
    /\ \/ call' = [call EXCEPT !.step = "execute"]
       \/ call' = [call EXCEPT !.step = "done", !.result = "denied"]
    /\ UNCHANGED <<repo, offered, files, stored, rows, bounds>>

-----------------------------------------------------------------------------
(* execute                                                                 *)

Goes(step) == call' = [call EXCEPT !.step = step]
Row == [id |-> call.id, at |-> IF call.tool = "write_file" THEN "worktree" ELSE "artifacts"]
Ends(result) == call' = [call EXCEPT !.step = "done", !.result = result]

\* artifacts.create: the versions of one uri are chained, no row is changed.
CreateArtifact == rows' = rows \cup {Row}

\* How a command of the system ends (runCommand): exit code zero, or not, or
\* killed after thirty seconds.
Outcome == {"completed", "error"}

\* A tool of the worktree without one, an unknown tool, a command that is not allowed.
Refused ==
    /\ call.step = "execute"
    /\ \/ call.tool \in InWorktree \cup {"run_verification_command"} /\ ~hasWorktree
       \/ call.tool \notin AutoApproved \cup ApprovalRequired
       \/ call.tool = "run_verification_command" /\ call.label \notin scripts
    /\ Ends("refused")
    /\ UNCHANGED <<repo, offered, files, stored, rows, bounds>>

\* A tool that leaves worktree and artifacts alone.
Answer ==
    /\ call.step = "execute"
    /\ \/ call.tool \in Everywhere
       \/ call.tool \in {"list_tree", "read_file", "search_files", "git_status"} /\ hasWorktree
    /\ \E result \in Outcome : Ends(result)
    /\ UNCHANGED <<repo, offered, files, stored, rows, bounds>>

\* Writing a file; what it writes is the artifact.
WriteFile ==
    /\ call.step = "execute" /\ call.tool = "write_file" /\ hasWorktree
    /\ files' = files + 1 /\ Goes("row")
    /\ UNCHANGED <<repo, offered, stored, rows, bounds>>

\* A command may change files, whether it fails or not; then its output becomes
\* an artifact.
RunCommand ==
    /\ call.step = "execute" /\ call.tool = "run_command" /\ hasWorktree
    /\ files' \in {files, files + 1}
    /\ \E result \in Outcome : call' = [call EXCEPT !.step = "store", !.result = result]
    /\ UNCHANGED <<repo, offered, stored, rows, bounds>>

\* The same for a command of the repository, if the repository still has it.
RunVerification ==
    /\ call.step = "execute" /\ call.tool = "run_verification_command" /\ hasWorktree
    /\ call.label \in scripts
    /\ files' \in {files, files + 1}
    /\ \E result \in Outcome : call' = [call EXCEPT !.step = "store", !.result = result]
    /\ UNCHANGED <<repo, offered, stored, rows, bounds>>

\* git diff changes nothing; without a difference there is no artifact.
GitDiff ==
    /\ call.step = "execute" /\ call.tool = "git_diff" /\ hasWorktree
    /\ \E result \in Outcome :
          \/ Ends(result)
          \/ call' = [call EXCEPT !.step = "store", !.result = result]
    /\ UNCHANGED <<repo, offered, files, stored, rows, bounds>>

\* The patch is stored, then applied, wholly or not at all.
ApplyPatch ==
    /\ call.tool = "apply_patch" /\ hasWorktree
    /\ \/ call.step = "execute" /\ Goes("store") /\ UNCHANGED files
       \/ call.step = "apply" /\ Ends("completed") /\ files' = files + 1
       \/ call.step = "apply" /\ Ends("error") /\ UNCHANGED files
    /\ UNCHANGED <<repo, offered, stored, rows, bounds>>

\* writeArtifact: first the file, then its row.
Store ==
    /\ call.step = "store"
    /\ stored' = stored \cup {call.id} /\ Goes("row")
    /\ UNCHANGED <<repo, offered, files, rows, bounds>>

StoreRow ==
    /\ call.step = "row"
    /\ CreateArtifact
    /\ CASE call.tool = "apply_patch" -> Goes("apply")
         [] call.tool = "write_file" -> Ends("completed")
         [] OTHER -> Ends(call.result)
    /\ UNCHANGED <<repo, offered, files, stored, bounds>>

NextCall ==
    /\ call.step = "done" /\ call' = NoCall
    /\ UNCHANGED <<repo, offered, files, stored, rows, bounds>>

Crash ==
    /\ crashes < MaxCrashes /\ crashes' = crashes + 1
    /\ call' = NoCall /\ offered' = NoOffer
    /\ UNCHANGED <<repo, files, stored, rows, calls, edits>>

Execute == Refused \/ Answer \/ WriteFile \/ RunCommand \/ RunVerification \/ GitDiff \/ ApplyPatch \/ Store \/ StoreRow

Next ==
    \/ ListTools \/ EditScripts \/ Decide \/ Execute \/ NextCall \/ Crash
    \/ \E tool \in Names, label \in Labels \cup {NoLabel} : Request(tool, label)

Spec == Init /\ [][Next]_vars

-----------------------------------------------------------------------------
(* suggest_model and the choice of a model in spawn_agent.                 *)

Catalog ==
    [claude |-> <<"claude-sonnet-4-6", "claude-opus-4-6", "claude-haiku-4-5-20251001",
                  "claude-3-5-sonnet-20241022", "claude-3-5-haiku-20241022">>,
     codex |-> <<"codex-mini-latest", "o4-mini", "gpt-4.1", "gpt-4.1-mini", "gpt-4o", "gpt-4o-mini">>]
Tasks == [vision : BOOLEAN, large : BOOLEAN, cheap : BOOLEAN, code : BOOLEAN, analysis : BOOLEAN]
CodexMini == <<"codex", "codex-mini-latest">>
Opus == <<"claude", "claude-opus-4-6">>
Sonnet == <<"claude", "claude-sonnet-4-6">>
Haiku == <<"claude", "claude-haiku-4-5-20251001">>

Suggest(t) ==
    IF t.vision THEN <<IF t.cheap THEN Haiku ELSE Opus>>
    ELSE IF t.large THEN <<Opus, Sonnet>>
    ELSE IF t.cheap THEN (IF t.code THEN <<CodexMini>> ELSE <<>>) \o <<Haiku>>
    ELSE (IF t.code /\ ~t.analysis THEN <<CodexMini>> ELSE <<>>) \o <<Sonnet, Opus>>

\* The model of a new agent when the call names none (the first of the catalogue
\* is the provider's default).
SpawnModel(provider) ==
    IF provider \in DOMAIN Catalog THEN Catalog[provider][1] ELSE "claude-sonnet-4-6"

-----------------------------------------------------------------------------
(* The variables have their types; the models suggested for a task are those *)
(* of the catalogue, under their own providers.                              *)
TypeOK ==
    /\ hasWorktree \in BOOLEAN /\ scripts \subseteq Labels
    /\ offered.tools \subseteq Names /\ offered.labels \subseteq Labels
    /\ call.id \in 0..MaxCalls /\ call.tool \in Names \cup {"none"}
    /\ call.step \in {"none", "waits", "execute", "store", "row", "apply", "done"}
    /\ files \in 0..MaxCalls /\ stored \subseteq 1..MaxCalls /\ rows \subseteq [id : 1..MaxCalls, at : {"worktree", "artifacts"}]
    /\ \A t \in Tasks : \A n \in DOMAIN Suggest(t) :
          \E k \in DOMAIN Catalog[Suggest(t)[n][1]] : Catalog[Suggest(t)[n][1]][k] = Suggest(t)[n][2]

(* Files of a worktree change only by a call that the operator has seen, or  *)
(* by a verification command of the repository.                              *)
ChangesWereSeen ==
    [][files' # files => call.asked \/ call.tool = "run_verification_command"]_vars

(* What was offered is served: a call of it is refused only when the         *)
(* repository has lost the command since.                                    *)
OfferedIsServed ==
    [][(call.step = "execute" /\ call'.result = "refused" /\ call.tool \in offered.tools
          /\ (call.tool = "run_verification_command" => call.label \in offered.labels))
       => call.tool = "run_verification_command" /\ edits > 0]_vars

(* An artifact row of a command, a diff or a patch has its file, also when   *)
(* the process ended in between.                                             *)
RowsHaveFiles == \A r \in rows : r.at = "artifacts" => r.id \in stored

(* A command that has run, well or badly, has left its output as an artifact *)
(* by the time the agent is told.                                            *)
CommandsLeaveOutput ==
    (call.step = "done" /\ call.result \in {"completed", "error"}
       /\ call.tool \in {"run_command", "run_verification_command", "write_file", "apply_patch"})
    => Row \in rows

(* ARCHITECTURE.md lists run_verification_command as requiring approval.     *)
VerificationIsApproved ==
    [][(files' # files /\ call.tool = "run_verification_command") => call.asked]_vars
=============================================================================
