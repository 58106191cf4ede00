------------------------------- MODULE MCShell -------------------------------
(***************************************************************************)
(* The desktop's native side, its key store (ProviderKeys) and the control  *)
(* planes it supervises (Supervisor), in five settings; in a behaviour one  *)
(* of the two modules moves:                                                *)
(*   fresh      ProviderKeys without a legacy file, planes read the keys;   *)
(*   imported   ProviderKeys with a legacy file to import;                  *)
(*   dying      Supervisor: planes die and starts fail;                     *)
(*   settings   Supervisor: keys are saved, beside a plane that the app has *)
(*              not started;                                                *)
(*   racing     Supervisor: a start races the one a save asks for.          *)
(* The constants of ProviderKeys in the .cfg are the largest of the two.    *)
(***************************************************************************)
EXTENDS ProviderKeys

CONSTANTS MaxDeaths, MaxLaunchFailures, MaxApplications
VARIABLES setting,
          alive, listener, given, made, keys, applied, managed, thread, deaths, launchFailures, applications

Fresh    == INSTANCE ProviderKeys WITH Imports <- FALSE, MaxFailures <- 1
Imported == INSTANCE ProviderKeys WITH Unreadable <- FALSE, MaxStarts <- 0

Dying ==
  INSTANCE Supervisor WITH
    Foreign <- FALSE, Quits <- TRUE, MaxFailures <- MaxLaunchFailures, MaxSaves <- 0,
    failures <- launchFailures, saves <- applications

Settled ==
  INSTANCE Supervisor WITH
    Foreign <- TRUE, Quits <- TRUE, MaxDeaths <- 0, MaxFailures <- 0, MaxSaves <- MaxApplications,
    failures <- launchFailures, saves <- applications

Racing ==
  INSTANCE Supervisor WITH
    Foreign <- FALSE, Quits <- TRUE, MaxDeaths <- 1, MaxFailures <- 1, MaxSaves <- 2,
    failures <- launchFailures, saves <- applications

ASSUME ShellAssumption ==
  Dying!SupervisorAssumption /\ Settled!SupervisorAssumption /\ Racing!SupervisorAssumption

supervisor ==
  <<alive, listener, given, made, keys, applied, managed, thread, deaths, launchFailures, applications>>
all == <<vars, supervisor, setting>>

InitIn ==
  \/ setting = "fresh" /\ Fresh!Init /\ Dying!Init
  \/ setting = "imported" /\ Imported!Init /\ Dying!Init
  \/ setting \in {"dying", "racing"} /\ Fresh!Init /\ Dying!Init
  \/ setting = "settings" /\ Fresh!Init /\ Settled!Init

KeysNext ==
  /\ UNCHANGED <<supervisor, setting>>
  /\ \/ setting = "fresh" /\ Fresh!Next
     \/ setting = "imported" /\ Imported!Next

SupervisorNext ==
  /\ UNCHANGED <<vars, setting>>
  /\ \/ setting = "dying" /\ Dying!Next
     \/ setting = "settings" /\ Settled!Next
     \/ setting = "racing" /\ Racing!Next

-----------------------------------------------------------------------------
(* Threads and planes get on (the fairness of Supervisor; nothing is asked  *)
(* of the settings whose properties are invariants).                        *)

StartIn(t) ==
  /\ UNCHANGED <<vars, setting>>
  /\ \/ setting = "dying" /\ Dying!Running /\ Dying!Start(t)
     \/ setting = "racing" /\ Racing!Running /\ Racing!Start(t)

LookIn ==
  /\ UNCHANGED <<vars, setting>>
  /\ \/ setting = "dying" /\ Dying!Look
     \/ setting = "racing" /\ Racing!Look

MainIn ==
  /\ UNCHANGED <<vars, setting>>
  /\ \/ setting = "dying" /\ Dying!Main
     \/ setting = "racing" /\ Racing!Main

ListenIn(p) ==
  /\ UNCHANGED <<vars, setting>>
  /\ \/ setting = "dying" /\ Dying!Listen(p)
     \/ setting = "racing" /\ Racing!Listen(p)

LosePortIn(p) ==
  /\ UNCHANGED <<vars, setting>>
  /\ \/ setting = "dying" /\ Dying!LosePort(p)
     \/ setting = "racing" /\ Racing!LosePort(p)

SpecIn ==
  /\ InitIn /\ [][KeysNext \/ SupervisorNext]_all
  /\ \A t \in {"main", "supervisor"} : WF_all(StartIn(t))
  /\ WF_all(LookIn) /\ WF_all(MainIn)
  /\ \A p \in Dying!Planes \cup Racing!Planes : WF_all(ListenIn(p)) /\ WF_all(LosePortIn(p))

-----------------------------------------------------------------------------
\* The plane that serves is the app's: the one in its hand after deaths and failed
\* starts; while keys are saved the only one, and the one that was given the keys of
\* the save that was told to be applied; and gone with the app.
AppHasItsPlane ==
  /\ setting = "dying" => Dying!ListenerIsChild
  /\ setting = "settings" => Settled!OnePlane /\ Settled!KeysApplied /\ Settled!ExitLeavesNothing

\* As long as the app runs it has a plane again after deaths and failed starts, and
\* of two planes started side by side one goes.
PlanesComeBack ==
  /\ setting # "dying" \/ Dying!PlaneComesBack
  /\ setting # "racing" \/ Racing!PlanesSettle
==============================================================================
