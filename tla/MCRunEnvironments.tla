-------------------------- MODULE MCRunEnvironments --------------------------
(***************************************************************************)
(* RunOrchestrator with a disciplined operator, who decides an approval     *)
(* once and stops nothing.  A process without the key for the synthesis     *)
(* model may restart; one with it lets other requests in while a refresh    *)
(* asks the model, and keeps running.                                       *)
(***************************************************************************)
EXTENDS RunOrchestrator

NextIn == Next /\ (synthesizes \/ synthesizes' => UNCHANGED crashes)

\* Without the model, every chain gets on (FairSpec).
WorkIn(c) == ~synthesizes /\ Work(c)

SpecIn ==
  /\ Init /\ [][NextIn]_vars
  /\ \A c \in Chains : WF_vars(WorkIn(c))
  /\ WF_vars(Recover)

-----------------------------------------------------------------------------
\* A run in CREATED or RUNNING gets out of it: it completes, fails or asks the operator,
\* whatever the provider answers; and once nothing it asked is undecided it leaves
\* WAITING_APPROVAL (continueRun, resumeAfterApproval).
RunsGetOn == synthesizes \/ (RunsSettle /\ DecisionsTakeEffect)
===============================================================================
