---------------------------- MODULE ProviderKeys ----------------------------
(***************************************************************************)
(* How the desktop shell keeps provider keys (main.rs): in the macOS       *)
(* keychain, one command per key and access, after importing what an older *)
(* version left in a JSON file.  The main thread sets up, answers          *)
(* get_provider_settings and save_provider_settings; the supervisor thread *)
(* loads the settings whenever it starts a plane.  There is no lock.       *)
(*                                                                         *)
(* A job goes through numbered steps: 1..3 read a key, 4 reads the file,   *)
(* 5..6 write an imported key, 7 deletes the file (the end of a load);     *)
(* 8..10 write or delete a key and 11 deletes the file (a save).  Every    *)
(* step is a command or a file operation of its own, which may fail.  Keys *)
(* are version numbers.  Bounds: MaxSaves, MaxStarts of a plane after the  *)
(* set-up, MaxFailures and MaxCrashes.                                     *)
(***************************************************************************)
EXTENDS Naturals

CONSTANTS
    Imports,        \* may an older version have left a file?
    Unreadable,     \* may the file fail to be read?
    MaxSaves, MaxStarts, MaxFailures, MaxCrashes

ASSUME ProviderKeysAssumption ==
    /\ Imports \in BOOLEAN /\ Unreadable \in BOOLEAN 
    /\ {MaxSaves, MaxStarts, MaxFailures, MaxCrashes} \subseteq Nat

VARIABLES
    keychain,   \* keychain[p] : the stored key, NoKey if none
    legacy,     \* the keys in the JSON file; it is gone when it has none
    job,        \* job[t] : what thread t does
    told,       \* the settings of the last save that succeeded, until the next save
    started,    \* has the app been set up since it last ended?
    saves, starts, failures, crashes

store == <<keychain, legacy>>
bounds == <<saves, starts, failures, crashes>>
vars == <<store, job, told, started, bounds>>

\* 1 is openai, 2 anthropic, 3 coordination.
Providers == 1..3
NoKey == 0
Keys == 0..(MaxSaves + 1)
Settings == [Providers -> Keys]
Empty == [p \in Providers |-> NoKey]
Threads == {"main", "supervisor"}
NoJob == [for |-> "nothing", step |-> 0, read |-> Empty, import |-> Empty, want |-> Empty]
\* What a save may ask for: clear a key, keep it, or store the next version.
Requests == [Providers -> {"clear", "keep", "set"}]

\* The older version knew two providers and no keychain.
Init ==
    /\ keychain = Empty
    /\ legacy \in IF Imports THEN {[Empty EXCEPT ![1] = a, ![2] = b] : a, b \in {NoKey, 1}} ELSE {Empty}
    /\ job = [t \in Threads |-> NoJob]
    /\ told = <<>> /\ started = FALSE
    /\ saves = 0 /\ starts = 0 /\ failures = 0 /\ crashes = 0

Busy(t) == job[t].for # "nothing"
At(t, steps) == job[t].step \in steps
Goes(t, step) == job' = [job EXCEPT ![t].step = step]
Ends(t) == job' = [job EXCEPT ![t] = NoJob]
\* The file stays while it has a key.
Effective == [p \in Providers |-> IF keychain[p] # NoKey THEN keychain[p]
                                  ELSE legacy[p]]

-----------------------------------------------------------------------------
(* load_provider_settings                                                  *)

Load(t, what) == job' = [job EXCEPT ![t] = [NoJob EXCEPT !.for = what, !.step = 1]]

Read(t) ==
    /\ At(t, 1..3)
    /\ LET p == job[t].step
       IN  job' = [job EXCEPT ![t] = [@ EXCEPT !.read[p] = keychain[p], !.step = p + 1]]
    /\ UNCHANGED <<store, told, started, bounds>>

\* A key of the file counts where the keychain has none.
ReadLegacy(t) ==
    /\ At(t, {4})
    /\ LET old == [p \in Providers |-> IF p # 3 /\ job[t].read[p] = NoKey THEN legacy[p] ELSE NoKey]
           all == [p \in Providers |-> IF old[p] # NoKey THEN old[p] ELSE job[t].read[p]]
       IN  job' = [job EXCEPT ![t] = [@ EXCEPT !.import = old, !.read = all,
                                         !.step = IF old = Empty THEN 8 ELSE 5]]
    /\ UNCHANGED <<store, told, started, bounds>>

\* A file that cannot be read counts as empty.
LegacyFails(t) ==
    /\ Unreadable /\ At(t, {4}) /\ failures < MaxFailures /\ failures' = failures + 1
    /\ Goes(t, 8)
    /\ UNCHANGED <<store, told, started, saves, starts, crashes>>

\* The file is deleted first.
Import_DeletesFirst(t) ==
    /\ At(t, {5, 6})
    /\ legacy' = Empty
    /\ LET p == job[t].step - 4
       IN  keychain' = [keychain EXCEPT ![p] = IF job[t].read[p] = NoKey THEN @ ELSE job[t].read[p]]
    /\ Goes(t, job[t].step + 1)
    /\ UNCHANGED <<told, started, bounds>>

\* Both keys are written, whether they come from the file or not.
Import(t) ==
    /\ At(t, {5, 6})
    /\ LET p == job[t].step - 4
       IN  keychain' = [keychain EXCEPT ![p] = IF job[t].read[p] = NoKey THEN @ ELSE job[t].read[p]]
    /\ Goes(t, job[t].step + 1)
    /\ UNCHANGED <<legacy, told, started, bounds>>

DeleteLegacy(t) ==
    /\ At(t, {7})
    /\ legacy' = Empty /\ Goes(t, 8)
    /\ UNCHANGED <<keychain, told, started, bounds>>

\* The set-up is over when its load is; a plane or the operator has the settings.
Loaded(t) ==
    /\ At(t, {8}) /\ job[t].for = "load"
    /\ Ends(t) /\ started' = TRUE
    /\ UNCHANGED <<store, told, bounds>>

-----------------------------------------------------------------------------
(* save_provider_settings                                                  *)

Apply(request) ==
    /\ At("main", {8}) /\ job["main"].for = "save"
    /\ job' = [job EXCEPT !["main"] = [@ EXCEPT !.step = 9, !.want =
           [p \in Providers |-> CASE request[p] = "clear" -> NoKey
                                  [] request[p] = "keep" -> job["main"].read[p]
                                  [] request[p] = "set" -> saves + 1]]]
    /\ UNCHANGED <<store, told, started, bounds>>

\* A key that is to be cleared is left where it is.
Persist_OnlyWrites(t) ==
    /\ At(t, 9..11)
    /\ LET p == job[t].step - 8
       IN  keychain' = [keychain EXCEPT ![p] = IF job[t].want[p] = NoKey THEN @ ELSE job[t].want[p]]
    /\ Goes(t, job[t].step + 1)
    /\ UNCHANGED <<legacy, told, started, bounds>>

Persist(t) ==
    /\ At(t, 9..11)
    /\ LET p == job[t].step - 8 IN keychain' = [keychain EXCEPT ![p] = job[t].want[p]]
    /\ Goes(t, job[t].step + 1)
    /\ UNCHANGED <<legacy, told, started, bounds>>

\* The save succeeds; what follows is the restart of Supervisor.
Saved(t) ==
    /\ At(t, {12})
    /\ legacy' = Empty /\ told' = job[t].want /\ Ends(t)
    /\ UNCHANGED <<keychain, started, bounds>>

-----------------------------------------------------------------------------
\* A command fails: a save and the settings panel say so, a start goes on
\* without any key.
Fails(t) ==
    /\ Busy(t) /\ At(t, {1, 2, 3, 5, 6, 7, 9, 10, 11, 12})
    /\ failures < MaxFailures /\ failures' = failures + 1
    /\ Ends(t) /\ started' = TRUE
    /\ UNCHANGED <<store, told, saves, starts, crashes>>

SetUp ==
    /\ ~started /\ ~Busy("main") /\ Load("main", "load")
    /\ UNCHANGED <<store, told, started, bounds>>

GetSettings ==
    /\ started /\ ~Busy("main") /\ Load("main", "load")
    /\ UNCHANGED <<store, told, started, bounds>>

Save ==
    /\ started /\ ~Busy("main") /\ saves < MaxSaves /\ saves' = saves + 1
    /\ Load("main", "save") /\ told' = <<>>
    /\ UNCHANGED <<store, started, starts, failures, crashes>>

StartPlane ==
    /\ started /\ ~Busy("supervisor") /\ starts < MaxStarts /\ starts' = starts + 1
    /\ Load("supervisor", "load")
    /\ UNCHANGED <<store, told, started, saves, failures, crashes>>

Crash ==
    /\ crashes < MaxCrashes /\ crashes' = crashes + 1
    /\ job' = [t \in Threads |-> NoJob] /\ started' = FALSE
    /\ UNCHANGED <<store, told, saves, starts, failures>>

Next ==
    \/ SetUp \/ GetSettings \/ Save \/ StartPlane \/ Crash
    \/ \E t \in Threads :
          \/ Read(t) \/ ReadLegacy(t) \/ LegacyFails(t) \/ Import(t) \/ DeleteLegacy(t)
          \/ Loaded(t) \/ Persist(t) \/ Saved(t) \/ Fails(t)
    \/ \E request \in Requests : Apply(request)

Spec == Init /\ [][Next]_vars

-----------------------------------------------------------------------------
(* The variables have their types, and only a save gets beyond a load.       *)
TypeOK ==
    /\ keychain \in Settings /\ legacy \in Settings /\ legacy[3] = NoKey
    /\ \A t \in Threads : /\ job[t].for \in {"nothing", "load", "save"}
                          /\ job[t].step \in 0..(IF job[t].for = "save" THEN 12 ELSE 8)
                          /\ job[t].read \in Settings /\ job[t].import \in Settings
                          /\ job[t].want \in Settings
    /\ told \in Settings \cup {<<>>} /\ started \in BOOLEAN
    /\ saves \in 0..MaxSaves /\ starts \in 0..MaxStarts
    /\ failures \in 0..MaxFailures /\ crashes \in 0..MaxCrashes

(* What a save that succeeded has stored is what every later load finds,     *)
(* whatever the other thread was doing, until the next save.                 *)
AcknowledgedSaveHolds == told # <<>> => Effective = told

(* Keys get lost by no failure and no end of the app: a key that a load      *)
(* would find is found until a save puts another in its place or clears it,  *)
(* when it gets to that key or, last, to the file.  (Until then an older key *)
(* of the file shows through.)                                               *)
KeysAreKept ==
    [][\A p \in Providers : Effective'[p] # Effective[p] =>
          /\ job["main"].for = "save" /\ job["main"].step \in {p + 8, 12}
          /\ Effective'[p] \in {job["main"].want[p], legacy[p]}]_vars

(* A load that succeeded has imported what there was to import and deleted   *)
(* the file: "one-time migration from the legacy app-local JSON file".       *)
ImportedOnce == [][\A t \in Threads : Loaded(t) => legacy = Empty]_vars
=============================================================================
