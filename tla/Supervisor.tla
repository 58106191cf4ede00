----------------------------- MODULE Supervisor -----------------------------
(***************************************************************************)
(* The desktop shell (apps/desktop/src-tauri/src/main.rs) and the control  *)
(* planes it starts: the main thread sets up, saves provider keys (which   *)
(* restarts the plane) and quits; a second thread looks after the plane    *)
(* every two seconds.  They share ManagedControlPlane behind a lock, and   *)
(* hold the lock only to read or write it, never while a plane starts.     *)
(*                                                                         *)
(* A plane is a process.  It recovers the database and then listens on     *)
(* port 7711; when another process has the port it exits.  Whether a plane *)
(* is there is asked by connecting to the port, so any listener will do.   *)
(*                                                                         *)
(* Keys are a version number: how they are kept is ProviderKeys.  Bounds:  *)
(* MaxDeaths of planes, MaxFailures of starts, MaxSaves.                   *)
(***************************************************************************)
EXTENDS Naturals

CONSTANTS
    Foreign,     \* may a plane be listening that the app has not started?
    Quits,       \* may the operator quit the app?
    MaxDeaths, MaxFailures, MaxSaves

SupervisorAssumption ==
    /\ Foreign \in BOOLEAN /\ Quits \in BOOLEAN
    /\ MaxDeaths \in Nat /\ MaxFailures \in Nat /\ MaxSaves \in Nat

VARIABLES
    alive,      \* planes that run
    listener,   \* the plane that has the port, NoPlane if none
    given,      \* given[p] : the keys plane p was started with
    made,       \* planes started so far
    keys,       \* the keys in the keychain
    applied,    \* the keys the last save said to have applied
    managed,    \* ManagedControlPlane
    thread,     \* what each thread does, and the plane it has in hand
    deaths, failures, saves

planes == <<alive, listener, given, made>>
vars == <<planes, keys, applied, managed, thread, deaths, failures, saves>>

\* Every start but the first follows a death, a failure, a save, or a race for
\* the port that one of them has begun.
MaxPlanes == 2 + 2 * (MaxDeaths + MaxFailures + MaxSaves)
NoPlane == MaxPlanes + 1
ForeignPlane == 0
Planes == 0..MaxPlanes
Threads == {"main", "supervisor"}
Steps == {"none", "idle", "probe", "spawn", "wait", "launched", "failed", "take", "kill",
          "leave", "kill at exit", "exit", "gone"}

Managed == [child : Planes \cup {NoPlane}, owned : BOOLEAN, down : BOOLEAN, error : BOOLEAN]
Doing(step, plane, owned) == [step |-> step, plane |-> plane, owned |-> owned, saving |-> FALSE]

Init ==
    /\ listener \in {NoPlane} \cup (IF Foreign THEN {ForeignPlane} ELSE {})
    /\ alive = {listener} \ {NoPlane}
    /\ given = [p \in Planes |-> 0] /\ made = 0
    /\ keys = 0 /\ applied = 0
    /\ managed = [child |-> NoPlane, owned |-> FALSE, down |-> FALSE, error |-> FALSE]
    /\ thread = [t \in Threads |-> Doing(IF t = "main" THEN "probe" ELSE "none", NoPlane, FALSE)]
    /\ deaths = 0 /\ failures = 0 /\ saves = 0

At(t, step) == thread[t].step = step
Goes(t, step) == thread' = [thread EXCEPT ![t].step = step]
Running == ~At("main", "gone")
Without(p) == alive' = alive \ {p} /\ listener' = IF listener = p THEN NoPlane ELSE listener

-----------------------------------------------------------------------------
(* Planes.                                                                 *)

\* The database is recovered and the port is free.
Listen(p) ==
    /\ p \in alive /\ listener = NoPlane /\ listener' = p
    /\ UNCHANGED <<alive, given, made, keys, applied, managed, thread, deaths, failures, saves>>

\* A plane that finds the port taken goes on with what it has recovered.
LosePort_Stays(p) ==
    /\ p \in alive /\ listener \notin {NoPlane, p} /\ UNCHANGED vars

\* listen rejects: the server is closed and the process ends.
LosePort(p) ==
    /\ p \in alive /\ listener \notin {NoPlane, p} /\ alive' = alive \ {p}
    /\ UNCHANGED <<listener, given, made, keys, applied, managed, thread, deaths, failures, saves>>

Die(p) ==
    /\ listener = p /\ deaths < MaxDeaths /\ deaths' = deaths + 1
    /\ Without(p)
    /\ UNCHANGED <<given, made, keys, applied, managed, thread, failures, saves>>

\* A plane that cannot start: a migration fails, the binary is broken.
FailToStart(p) ==
    /\ p \in alive /\ listener # p /\ failures < MaxFailures /\ failures' = failures + 1
    /\ Without(p)
    /\ UNCHANGED <<given, made, keys, applied, managed, thread, deaths, saves>>

-----------------------------------------------------------------------------
(* start_control_plane.                                                    *)

\* Nobody asks whether the port is taken.
Probe_Not(t) ==
    /\ At(t, "probe") /\ Goes(t, "spawn")
    /\ UNCHANGED <<planes, keys, applied, managed, deaths, failures, saves>>

Probe(t) ==
    /\ At(t, "probe")
    /\ thread' = [thread EXCEPT ![t] =
           IF listener # NoPlane THEN [@ EXCEPT !.step = "launched", !.plane = NoPlane, !.owned = FALSE]
           ELSE [@ EXCEPT !.step = "spawn"]]
    /\ UNCHANGED <<planes, keys, applied, managed, deaths, failures, saves>>

Spawn(t) ==
    /\ At(t, "spawn")
    /\ made' = made + 1 /\ alive' = alive \cup {made + 1}
    /\ given' = [given EXCEPT ![made + 1] = keys]
    /\ thread' = [thread EXCEPT ![t] = [@ EXCEPT !.step = "wait", !.plane = made + 1]]
    /\ UNCHANGED <<listener, keys, applied, managed, deaths, failures, saves>>

\* wait_for_control_plane_startup: a listener is looked for first, the child then.
Wait(t) ==
    /\ At(t, "wait")
    /\ \/ /\ listener # NoPlane
          /\ thread' = [thread EXCEPT ![t] = [@ EXCEPT !.step = "launched", !.owned = TRUE]]
       \/ listener = NoPlane /\ thread[t].plane \notin alive /\ Goes(t, "failed")
    /\ UNCHANGED <<planes, keys, applied, managed, deaths, failures, saves>>

\* Five seconds are over; the child is killed.
TimeOut(t) ==
    /\ At(t, "wait") /\ listener = NoPlane /\ thread[t].plane \in alive
    /\ failures < MaxFailures /\ failures' = failures + 1
    /\ Without(thread[t].plane) /\ Goes(t, "failed")
    /\ UNCHANGED <<given, made, keys, applied, managed, deaths, saves>>

\* The child that was there stays in place.
Launched_KeepsChild(t) ==
    /\ At(t, "launched")
    /\ managed' = [managed EXCEPT !.owned = thread[t].owned, !.error = FALSE]
    /\ thread' = [x \in Threads |->
           IF x = t \/ thread[x].step = "none" THEN Doing("idle", NoPlane, FALSE) ELSE thread[x]]
    /\ applied' = IF thread[t].saving THEN keys ELSE applied
    /\ UNCHANGED <<planes, keys, deaths, failures, saves>>

\* update_control_plane_state; a save then answers that its keys are applied.
Launched(t) ==
    /\ At(t, "launched")
    /\ managed' = [child |-> thread[t].plane, owned |-> thread[t].owned, down |-> FALSE, error |-> FALSE]
    /\ thread' = [x \in Threads |->
           IF x = t \/ thread[x].step = "none" THEN Doing("idle", NoPlane, FALSE) ELSE thread[x]]
    /\ applied' = IF thread[t].saving THEN keys ELSE applied
    /\ UNCHANGED <<planes, keys, deaths, failures, saves>>

\* The failure leaves the app without a plane of its own.
Failed_NotOwned(t) ==
    /\ At(t, "failed")
    /\ managed' = [child |-> NoPlane, owned |-> FALSE, down |-> FALSE, error |-> TRUE]
    /\ thread' = [x \in Threads |->
           IF x = t \/ thread[x].step = "none" THEN Doing("idle", NoPlane, FALSE) ELSE thread[x]]
    /\ UNCHANGED <<planes, keys, applied, deaths, failures, saves>>

\* record_control_plane_error; the error of a save goes to the operator only.
Failed(t) ==
    /\ At(t, "failed")
    /\ managed' = IF thread[t].saving THEN managed
                  ELSE [child |-> NoPlane, owned |-> TRUE, down |-> FALSE, error |-> TRUE]
    /\ thread' = [x \in Threads |->
           IF x = t \/ thread[x].step = "none" THEN Doing("idle", NoPlane, FALSE) ELSE thread[x]]
    /\ UNCHANGED <<planes, keys, applied, deaths, failures, saves>>

-----------------------------------------------------------------------------
(* The supervisor thread.                                                  *)

Look ==
    /\ At("supervisor", "idle") /\ ~managed.down /\ managed.owned
    /\ managed.child \notin alive
    /\ managed' = [managed EXCEPT !.child = NoPlane]
    /\ Goes("supervisor", "probe")
    /\ UNCHANGED <<planes, keys, applied, deaths, failures, saves>>

LookAtExit ==
    /\ At("supervisor", "idle") /\ managed.down
    /\ Goes("supervisor", "gone")
    /\ UNCHANGED <<planes, keys, applied, managed, deaths, failures, saves>>

-----------------------------------------------------------------------------
(* save_provider_settings and the end, on the main thread.                 *)

Save ==
    /\ At("main", "idle") /\ saves < MaxSaves /\ saves' = saves + 1
    /\ keys' = keys + 1 /\ Goes("main", "take")
    /\ UNCHANGED <<planes, applied, managed, deaths, failures>>

\* The plane is not asked to leave; the start that follows finds it.
Take_NoKill ==
    /\ At("main", "take")
    /\ managed' = [managed EXCEPT !.child = NoPlane, !.owned = FALSE]
    /\ thread' = [thread EXCEPT !["main"] = [step |-> IF managed.owned THEN "probe" ELSE "idle",
           plane |-> NoPlane, owned |-> managed.owned, saving |-> managed.owned]]
    /\ UNCHANGED <<planes, keys, applied, deaths, failures, saves>>

\* restart_managed_control_plane: under the lock the child is taken out.
Take ==
    /\ At("main", "take")
    /\ managed' = [managed EXCEPT !.child = NoPlane, !.owned = FALSE]
    /\ thread' = [thread EXCEPT !["main"] =
           [step |-> "kill", plane |-> managed.child, owned |-> managed.owned, saving |-> TRUE]]
    /\ UNCHANGED <<planes, keys, applied, deaths, failures, saves>>

\* kill_child waits until the plane has gone.  A plane of somebody else is left alone.
Kill ==
    /\ At("main", "kill")
    /\ Without(thread["main"].plane)
    /\ thread' = [thread EXCEPT !["main"] =
           IF @.owned THEN [@ EXCEPT !.step = "probe", !.plane = NoPlane]
           ELSE Doing("idle", NoPlane, FALSE)]
    /\ UNCHANGED <<given, made, keys, applied, managed, deaths, failures, saves>>

\* The child is not taken out to be killed.
Leave_NoChild(step) ==
    /\ At("main", step)
    /\ managed' = [managed EXCEPT !.child = NoPlane, !.owned = FALSE, !.down = TRUE]
    /\ thread' = [thread EXCEPT !["main"] = Doing("kill at exit", NoPlane, step = "idle")]
    /\ UNCHANGED <<planes, keys, applied, deaths, failures, saves>>

\* stop_control_plane, once when the exit is requested and once when it happens.
Leave(step) ==
    /\ At("main", step)
    /\ managed' = [managed EXCEPT !.child = NoPlane, !.owned = FALSE, !.down = TRUE]
    /\ thread' = [thread EXCEPT !["main"] = Doing("kill at exit", managed.child, step = "idle")]
    /\ UNCHANGED <<planes, keys, applied, deaths, failures, saves>>

\* With the main thread ends the process, whatever the supervisor was doing.
KillAtExit ==
    /\ At("main", "kill at exit")
    /\ Without(thread["main"].plane)
    /\ thread' = IF thread["main"].owned THEN [thread EXCEPT !["main"] = Doing("leave", NoPlane, FALSE)]
                 ELSE [t \in Threads |-> Doing("gone", NoPlane, FALSE)]
    /\ UNCHANGED <<given, made, keys, applied, managed, deaths, failures, saves>>

Quit == Quits /\ Leave("idle")

-----------------------------------------------------------------------------
Start(t) == Probe(t) \/ Spawn(t) \/ Wait(t) \/ Launched(t) \/ Failed(t)
Main == Take \/ Kill \/ Leave("leave") \/ KillAtExit

Next ==
    \/ \E p \in Planes : Listen(p) \/ LosePort(p) \/ Die(p) \/ FailToStart(p)
    \/ \E t \in Threads : Running /\ (Start(t) \/ TimeOut(t))
    \/ Look \/ LookAtExit \/ Save \/ Main \/ Quit

Spec == Init /\ [][Next]_vars

\* Threads and planes get on, up to the limits of failures.
FairSpec ==
    /\ Spec
    /\ \A t \in Threads : WF_vars(Running /\ Start(t))
    /\ WF_vars(Look) /\ WF_vars(Main)
    /\ \A p \in Planes : WF_vars(Listen(p)) /\ WF_vars(LosePort(p))

-----------------------------------------------------------------------------
(* Every variable has its type; a plane is started only for one that died,   *)
(* failed or was restarted, so that restarts do not breed restarts.          *)
TypeOK ==
    /\ alive \subseteq Planes /\ listener \in alive \cup {NoPlane}
    /\ made \in 0..MaxPlanes /\ given \in [Planes -> 0..MaxSaves]
    /\ keys \in 0..MaxSaves /\ applied \in 0..MaxSaves
    /\ managed \in Managed
    /\ thread \in [Threads -> [step : Steps, plane : Planes \cup {NoPlane}, owned : BOOLEAN, saving : BOOLEAN]]
    /\ deaths \in 0..MaxDeaths /\ failures \in 0..MaxFailures /\ saves \in 0..MaxSaves

(* One plane at a time has the database: the next one, which fails every run *)
(* it finds in progress before it listens, starts when the last has gone.    *)
OnePlane == \A p, q \in alive : p = q

(* The plane that answers is the one in the app's hand, to be watched and    *)
(* killed, whenever the app takes it for its own.                            *)
ListenerIsChild ==
    (At("main", "idle") /\ At("supervisor", "idle") /\ managed.owned /\ listener # NoPlane)
        => managed.child = listener

(* A save that was told to be applied is: the plane that serves afterwards   *)
(* was given those keys.                                                     *)
KeysApplied ==
    (At("main", "idle") /\ applied = keys /\ keys # 0 /\ listener # NoPlane)
        => given[listener] = keys

(* Two planes that were started side by side do not stay so: one gets the    *)
(* port, and the other one leaves the database alone.                        *)
PlanesSettle == []<>OnePlane

(* When the app has gone, the planes it started have gone with it.           *)
ExitLeavesNothing == ~Running => alive \subseteq {ForeignPlane}

(* As long as the app runs it has a plane again: planes that die, and starts *)
(* that fail, are made up for ("auto-restarts it if it exits unexpectedly"). *)
PlaneComesBack == []<>(listener # NoPlane \/ ~Running)
=============================================================================
