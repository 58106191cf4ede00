------------------------------ MODULE EventFeed ------------------------------
(***************************************************************************)
(* What the event pipeline promises to those who watch an agent            *)
(* (docs/tickets/EVT-001.md): each agent has a log whose events are        *)
(* numbered 1, 2, 3, ..., every event is announced once, after it is        *)
(* stored and in the order of its number.  An event stored just before the  *)
(* process dies is not announced.  EventLog is the program's version.       *)
(***************************************************************************)
EXTENDS Naturals

CONSTANT Agents

VARIABLES stored,    \* Agents -> number of events stored
          announced, \* Agents -> number of the last event announced, or known
                     \* when the process started
          agents     \* the agents that exist

feedVars == <<stored, announced, agents>>

Init ==
  /\ stored = [a \in Agents |-> 0]
  /\ announced = [a \in Agents |-> 0]
  /\ agents = Agents

Store(a) ==
  /\ a \in agents
  /\ stored' = [stored EXCEPT ![a] = @ + 1]
  /\ UNCHANGED <<announced, agents>>

Announce(a) ==
  /\ announced[a] < stored[a]
  /\ announced' = [announced EXCEPT ![a] = @ + 1]
  /\ UNCHANGED <<stored, agents>>

Delete(a) ==
  /\ agents' = agents \ {a}
  /\ stored' = [stored EXCEPT ![a] = 0]
  /\ UNCHANGED announced

Restart == announced' = stored /\ UNCHANGED <<stored, agents>>

Next == (\E a \in Agents : Store(a) \/ Announce(a) \/ Delete(a)) \/ Restart

Spec == Init /\ [][Next]_feedVars
=============================================================================
