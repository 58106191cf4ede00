------------------------ MODULE ProviderKeys_proofs -------------------------
(***************************************************************************)
(* Theorems about the desktop's native side.                               *)
(*                                                                         *)
(* ProviderKeys, for any number of saves, starts, failures and crashes:    *)
(* keys are kept, and a save that was acknowledged holds, provided that    *)
(* the supervisor starts no plane while there may be a file to import      *)
(* (OneWriter).  Without that, two imports and a save race.  The argument: *)
(* then only the main thread ever writes, one job at a time.  What a load  *)
(* has read is what is there (ReadIsTrue), so an import changes nothing    *)
(* that can be seen; what a save has written is what it was to write       *)
(* (WrittenIsWanted), and after its end nothing is left that could change  *)
(* it (ToldIsStored).                                                      *)
(*                                                                         *)
(* Supervisor, for any number of deaths and failed starts without saves    *)
(* (DyingInv) and of saves without either (SettledInv): the plane is the   *)
(* app's.  The argument: while the app runs one of its threads may start a *)
(* plane, the main thread until the first start is over and the supervisor *)
(* when the main thread rests; it starts one only when none is left, and   *)
(* what it has in hand is what runs.  A plane that is not the app's        *)
(* (Stranger) keeps the app from ever starting one.                        *)
(***************************************************************************)
EXTENDS MCShell, TLAPS

OneWriter == ~Imports \/ MaxStarts = 0

LEMMA Bounds == /\ MaxSaves \in Nat /\ MaxStarts \in Nat /\ Providers = {1, 2, 3}
                /\ NoKey \in Keys /\ (MaxSaves > 0 => 1 \in Keys)
BY ProviderKeysAssumption DEF Providers, NoKey, Keys

Job == [for : {"nothing", "load", "save"}, step : 0..12, read : [Providers -> Nat],
        import : [Providers -> Nat], want : [Providers -> Nat]]

Typed ==
    /\ keychain \in [Providers -> Nat] /\ legacy \in [Providers -> Nat] /\ legacy[3] = NoKey
    /\ job \in [Threads -> Job]
    /\ saves \in Nat /\ starts \in 0..MaxStarts

\* Only the main thread writes.
SupervisorReads ==
    /\ job["supervisor"].for # "save" /\ job["supervisor"].step \in 0..4 \cup {8}
    /\ job["main"].step \in 9..12 => job["main"].for = "save"
    /\ ~Imports => legacy = Empty /\ job["main"].step \notin 5..7
    /\ MaxStarts = 0 => job["supervisor"].step = 0

\* What the main thread has read so far, and then what it has to import.
ReadIsTrue ==
    LET j == job["main"] IN
    /\ \A p \in Providers : (j.step \in 1..4 /\ p < j.step) => j.read[p] = keychain[p]
    /\ \A p \in {1, 2} : j.step \in {5, 6, 7} => j.read[p] = Effective[p]
    /\ \A p \in {1, 2} : (j.step \in {6, 7} /\ p < j.step - 4 /\ j.read[p] # NoKey) => keychain[p] = j.read[p]

WrittenIsWanted ==
    LET j == job["main"] IN
    \A p \in Providers : (j.step \in 9..12 /\ p < j.step - 8) => keychain[p] = j.want[p]

ToldIsStored ==
    told # <<>> =>
        /\ keychain = told /\ legacy = Empty
        /\ job["main"].for # "save" /\ job["main"].step \in 0..4 \cup {8}

IInv == Typed /\ SupervisorReads /\ ReadIsTrue /\ WrittenIsWanted /\ ToldIsStored

LEMMA InitIInv == Init => IInv
BY Bounds, ProviderKeysAssumption DEF Init, IInv, Typed, SupervisorReads, ReadIsTrue, WrittenIsWanted,
   ToldIsStored, Job, NoJob, Threads,
   Empty, Keys, NoKey

-----------------------------------------------------------------------------
(* Jobs                                                                     *)

LEMMA NoJobIsJob == NoJob \in Job /\ NoJob.for = "nothing" /\ NoJob.step = 0
BY DEF NoJob, Job, Empty, NoKey

LEMMA StepOfJob ==
    ASSUME NEW j \in Job, NEW n \in 0..12
    PROVE  LET k == [j EXCEPT !.step = n]
           IN  /\ k \in Job /\ k.step = n /\ k.for = j.for
               /\ k.read = j.read /\ k.import = j.import /\ k.want = j.want
BY DEF Job

LEMMA LoadIsJob ==
    ASSUME NEW what \in {"load", "save"}
    PROVE  LET j == [NoJob EXCEPT !.for = what, !.step = 1]
           IN  j \in Job /\ j.for = what /\ j.step = 1
<1>1. 1 \in 0..12
  OBVIOUS
<1> QED
  BY <1>1, NoJobIsJob DEF Job

\* A thread that has no more to write, or has not begun to.
LEMMA Begins ==
    ASSUME IInv, NEW t \in Threads, NEW j \in Job, job' = [job EXCEPT ![t] = j],
           j.step \in {0, 1}, t = "supervisor" => j.for # "save" /\ (MaxStarts = 0 => j.step = 0),
           t = "main" /\ j.for = "save" => told' = <<>>,
           told' \in {told, <<>>}, UNCHANGED store, saves' \in Nat, starts' \in 0..MaxStarts
    PROVE  IInv'
<1>1. job \in [Threads -> Job] /\ job'[t] = j /\ \A x \in Threads : x # t => job'[x] = job[x]
  BY DEF IInv, Typed
<1>2. Typed'
  BY <1>1 DEF IInv, Typed, store
<1>3. CASE t = "main"
  <2>1. job'["main"] = j /\ job'["supervisor"] = job["supervisor"]
    BY <1>1, <1>3 DEF Threads
  <2>2. SupervisorReads'
    BY <2>1 DEF IInv, SupervisorReads, store
  <2>3. ReadIsTrue' /\ WrittenIsWanted'
    BY <2>1, Bounds DEF IInv, ReadIsTrue, WrittenIsWanted, store
  <2>4. ToldIsStored'
    BY <1>3, <2>1 DEF IInv, ToldIsStored, store
  <2> QED
    BY <1>2, <2>2, <2>3, <2>4 DEF IInv
<1>4. CASE t = "supervisor"
  <2>1. job'["supervisor"] = j /\ job'["main"] = job["main"]
    BY <1>1, <1>4 DEF Threads
  <2>2. SupervisorReads'
    BY <1>4, <2>1 DEF IInv, SupervisorReads, store
  <2>3. ReadIsTrue' /\ WrittenIsWanted'
    BY <2>1 DEF IInv, ReadIsTrue, WrittenIsWanted, store, Effective
  <2>4. ToldIsStored'
    BY <2>1 DEF IInv, ToldIsStored, store
  <2> QED
    BY <1>2, <2>2, <2>3, <2>4 DEF IInv
<1> QED
  BY <1>3, <1>4 DEF Threads

-----------------------------------------------------------------------------
(* The steps of a load                                                      *)

LEMMA ReadStep == ASSUME IInv, NEW t \in Threads, Read(t) PROVE IInv'
<1> DEFINE p == job[t].step
           j == [job[t] EXCEPT !.read[p] = keychain[p], !.step = p + 1]
<1>1. /\ p \in 1..3 /\ job' = [job EXCEPT ![t] = j]
      /\ UNCHANGED <<keychain, legacy, told, saves, starts>>
  BY DEF Read, At, store, bounds
<1>2. job \in [Threads -> Job] /\ job[t] \in Job /\ keychain \in [Providers -> Nat] /\ p \in Providers
  BY <1>1 DEF IInv, Typed, Providers
<1>3. /\ j \in Job /\ j.for = job[t].for /\ j.step = p + 1
      /\ \A q \in Providers : j.read[q] = IF q = p THEN keychain[p] ELSE job[t].read[q]
  <2> DEFINE r == [job[t].read EXCEPT ![p] = keychain[p]]
  <2>1. j = [job[t] EXCEPT !.read = r, !.step = p + 1] /\ r \in [Providers -> Nat] /\ p + 1 \in 0..12
    BY <1>1, <1>2 DEF Job
  <2>2. \A q \in Providers : r[q] = IF q = p THEN keychain[p] ELSE job[t].read[q]
    BY <1>2 DEF Job
  <2> HIDE DEF r, p, j
  <2> QED
    BY <1>2, <2>1, <2>2 DEF Job
<1> HIDE DEF j
<1>4. job'[t] = j /\ \A x \in Threads : x # t => job'[x] = job[x]
  BY <1>1, <1>2
<1>5. Typed'
  BY <1>1, <1>2, <1>3 DEF IInv, Typed
<1>6. SupervisorReads' /\ WrittenIsWanted' /\ ToldIsStored'
  BY <1>1, <1>3, <1>4 DEF IInv, SupervisorReads, WrittenIsWanted, ToldIsStored, Threads
<1>7. ReadIsTrue'
  BY <1>1, <1>3, <1>4 DEF IInv, ReadIsTrue, Effective, Threads, Providers
<1> QED
  BY <1>5, <1>6, <1>7 DEF IInv

LEMMA ReadLegacyStep == ASSUME IInv, NEW t \in Threads, ReadLegacy(t), OneWriter PROVE IInv'
<1> DEFINE old == [p \in Providers |-> IF p # 3 /\ job[t].read[p] = NoKey THEN legacy[p] ELSE NoKey]
           effective == [p \in Providers |-> IF old[p] # NoKey THEN old[p] ELSE job[t].read[p]]
           s == IF old = Empty THEN 8 ELSE 5
           j == [job[t] EXCEPT !.import = old, !.read = effective, !.step = s]
<1>1. /\ job[t].step = 4 /\ job' = [job EXCEPT ![t] = j]
      /\ UNCHANGED <<keychain, legacy, told, saves, starts>>
  BY DEF ReadLegacy, At, store, bounds
<1>2. job \in [Threads -> Job] /\ job[t] \in Job /\ legacy \in [Providers -> Nat]
  BY DEF IInv, Typed
<1>3. old \in [Providers -> Nat] /\ effective \in [Providers -> Nat] /\ s \in {5, 8}
  BY <1>2 DEF Job, NoKey
<1>4. j \in Job /\ j.for = job[t].for /\ j.step = s /\ j.read = effective
  <2>1. j = [job[t] EXCEPT !.import = old, !.read = effective, !.step = s] /\ s \in 0..12
    BY <1>3
  <2> HIDE DEF old, effective, s, j
  <2> QED
    BY <1>2, <1>3, <2>1 DEF Job
<1>5. legacy = Empty => s = 8
  BY DEF Empty
<1>6. \A p \in {1, 2} : effective[p] = IF job[t].read[p] = NoKey THEN legacy[p] ELSE job[t].read[p]
  BY DEF Providers
<1> HIDE DEF j, s, effective, old
<1>7. job'[t] = j /\ \A x \in Threads : x # t => job'[x] = job[x]
  BY <1>1, <1>2
<1>8. Typed'
  BY <1>1, <1>2, <1>4 DEF IInv, Typed
<1>9. CASE t = "main"
  <2>1. job'["main"] = j /\ job'["supervisor"] = job["supervisor"]
    BY <1>7, <1>9 DEF Threads
  <2>2. SupervisorReads' /\ WrittenIsWanted' /\ ToldIsStored'
    BY <1>1, <1>3, <1>4, <1>5, <1>9, <2>1 DEF IInv, SupervisorReads, WrittenIsWanted, ToldIsStored
  <2>3. \A p \in {1, 2} : job["main"].read[p] = keychain[p]
    BY <1>1, <1>9 DEF IInv, ReadIsTrue, Providers
  <2>4. ReadIsTrue'
    BY <1>1, <1>3, <1>4, <1>6, <1>9, <2>1, <2>3 DEF ReadIsTrue, Effective, Providers
  <2> QED
    BY <1>8, <2>2, <2>4 DEF IInv
<1>10. CASE t = "supervisor"
  <2>1. job'["supervisor"] = j /\ job'["main"] = job["main"]
    BY <1>7, <1>10 DEF Threads
  <2>2. s = 8 /\ MaxStarts # 0
    BY <1>1, <1>5, <1>10 DEF IInv, SupervisorReads, OneWriter
  <2>3. SupervisorReads' /\ WrittenIsWanted' /\ ToldIsStored' /\ ReadIsTrue'
    BY <1>1, <1>4, <1>10, <2>1, <2>2 DEF IInv, SupervisorReads, WrittenIsWanted, ToldIsStored, ReadIsTrue,
       Effective
  <2> QED
    BY <1>8, <2>3 DEF IInv
<1> QED
  BY <1>9, <1>10 DEF Threads

\* Only the step of a job changes, and not to one that writes.
LEMMA GoesOn ==
    ASSUME IInv, NEW t \in Threads, job[t].step \in 1..12, Goes(t, 8) \/ Ends(t), told' = told,
           UNCHANGED <<keychain, legacy, saves, starts>>
    PROVE  IInv'
<1>1. job \in [Threads -> Job] /\ job[t] \in Job
  BY DEF IInv, Typed
<1>2. PICK j \in Job : job' = [job EXCEPT ![t] = j] /\ (j = NoJob \/ (j.for = job[t].for /\ j.step = 8))
  <2>1. CASE Ends(t)
    BY <2>1, NoJobIsJob DEF Ends
  <2>2. CASE Goes(t, 8)
    <3>1. job' = [job EXCEPT ![t] = [job[t] EXCEPT !.step = 8]] /\ 8 \in 0..12
      BY <1>1, <2>2 DEF Goes
    <3> QED
      BY <1>1, <3>1, StepOfJob
  <2> QED
    BY <2>1, <2>2
<1>3. job'[t] = j /\ (\A x \in Threads : x # t => job'[x] = job[x]) /\ j.step \in {0, 8}
      /\ j.for \in {"nothing", job[t].for}
  BY <1>1, <1>2, NoJobIsJob
<1>4. Typed'
  BY <1>2 DEF IInv, Typed
<1>5. SupervisorReads' /\ ToldIsStored'
  BY <1>3 DEF IInv, SupervisorReads, ToldIsStored, Threads
<1>6. ReadIsTrue' /\ WrittenIsWanted'
  BY <1>3 DEF IInv, ReadIsTrue, WrittenIsWanted, Effective, Threads
<1> QED
  BY <1>4, <1>5, <1>6 DEF IInv

(* What an import writes is what could be seen before.                       *)
LEMMA ImportStep ==
    ASSUME IInv, NEW t \in Threads, Import(t)
    PROVE  IInv' /\ \A p \in Providers : Effective'[p] = Effective[p]
<1> DEFINE p == job[t].step - 4
           r == job["main"].read
           j == [job["main"] EXCEPT !.step = job["main"].step + 1]
<1>1. t = "main" /\ job["main"].step \in {5, 6} /\ p \in {1, 2} /\ p \in Providers
  BY DEF IInv, SupervisorReads, Import, At, Threads, Providers
<1>2. /\ keychain' = [keychain EXCEPT ![p] = IF r[p] = NoKey THEN @ ELSE r[p]]
      /\ job' = [job EXCEPT !["main"] = j]
      /\ UNCHANGED <<legacy, told, saves, starts>>
  BY <1>1 DEF Import, Goes, bounds
<1>3. /\ job \in [Threads -> Job] /\ job["main"] \in Job /\ "main" \in Threads /\ "supervisor" \in Threads
      /\ keychain \in [Providers -> Nat] /\ legacy \in [Providers -> Nat] /\ r \in [Providers -> Nat]
  BY DEF IInv, Typed, Job, Threads
<1>4. /\ j \in Job /\ j.step = p + 5 /\ j.for = job["main"].for /\ j.read = r
      /\ job["main"].step + 1 \in 0..12
  <2>1. job["main"].step + 1 \in 0..12 /\ job["main"].step + 1 = p + 5
    BY <1>1
  <2> QED
    BY <1>3, <2>1, StepOfJob
<1> HIDE DEF j
<1>5. job'["main"] = j /\ job'["supervisor"] = job["supervisor"]
  BY <1>2, <1>3
<1>6. told = <<>>
  BY <1>1 DEF IInv, ToldIsStored
<1>7. \A q \in {1, 2} : r[q] = Effective[q]
  BY <1>1 DEF IInv, ReadIsTrue
<1>8. /\ keychain' \in [Providers -> Nat] /\ \A q \in Providers : q # p => keychain'[q] = keychain[q]
      /\ keychain'[p] = IF r[p] = NoKey THEN keychain[p] ELSE r[p]
  BY <1>1, <1>2, <1>3
<1>9. \A q \in Providers : Effective'[q] = Effective[q]
  BY <1>1, <1>2, <1>3, <1>7, <1>8 DEF Effective
<1>10. Typed'
  BY <1>2, <1>3, <1>4, <1>8 DEF IInv, Typed
<1>11. SupervisorReads'
  BY <1>1, <1>2, <1>4, <1>5 DEF IInv, SupervisorReads
<1>12. ReadIsTrue'
  <2>1. \A q \in {1, 2} : r[q] = Effective'[q]
    BY <1>7, <1>9 DEF Providers
  <2>2. \A q \in {1, 2} : q < p /\ r[q] # NoKey => keychain[q] = r[q]
    BY <1>1 DEF IInv, ReadIsTrue
  <2>3. \A q \in {1, 2} : q < p + 1 /\ r[q] # NoKey => keychain'[q] = r[q]
    BY <1>1, <1>8, <2>2 DEF Providers
  <2> QED
    BY <1>1, <1>4, <1>5, <2>1, <2>3 DEF ReadIsTrue
<1>13. WrittenIsWanted' /\ ToldIsStored'
  BY <1>1, <1>2, <1>4, <1>5, <1>6 DEF WrittenIsWanted, ToldIsStored
<1> QED
  BY <1>9, <1>10, <1>11, <1>12, <1>13 DEF IInv

(* The file goes when the keychain has all of it.                            *)
LEMMA DeleteLegacyStep ==
    ASSUME IInv, NEW t \in Threads, DeleteLegacy(t)
    PROVE  IInv' /\ \A p \in Providers : Effective'[p] = Effective[p]
<1> DEFINE r == job["main"].read
           j == [job["main"] EXCEPT !.step = 8]
<1>1. t = "main" /\ job["main"].step = 7
  BY DEF IInv, SupervisorReads, DeleteLegacy, At, Threads
<1>2. /\ legacy' = Empty /\ job' = [job EXCEPT !["main"] = j]
      /\ UNCHANGED <<keychain, told, saves, starts>>
  BY <1>1 DEF DeleteLegacy, Goes, bounds
<1>3. /\ job \in [Threads -> Job] /\ job["main"] \in Job /\ "main" \in Threads /\ "supervisor" \in Threads
      /\ keychain \in [Providers -> Nat] /\ legacy \in [Providers -> Nat] /\ legacy[3] = NoKey
      /\ Empty \in [Providers -> Nat] /\ \A p \in Providers : Empty[p] = NoKey
  BY DEF IInv, Typed, Job, Threads, Empty, NoKey, Providers
<1>4. j \in Job /\ j.step = 8 /\ j.for = job["main"].for
  <2>1. 8 \in 0..12
    OBVIOUS
  <2> QED
    BY <1>3, <2>1, StepOfJob
<1> HIDE DEF j
<1>5. job'["main"] = j /\ job'["supervisor"] = job["supervisor"]
  BY <1>2, <1>3
<1>6. told = <<>>
  BY <1>1 DEF IInv, ToldIsStored
<1>7. \A q \in {1, 2} : r[q] = Effective[q] /\ (r[q] # NoKey => keychain[q] = r[q])
  BY <1>1 DEF IInv, ReadIsTrue
<1>8. \A q \in Providers : Effective'[q] = Effective[q]
  BY <1>2, <1>3, <1>7 DEF Effective, Providers
<1>9. Typed'
  BY <1>2, <1>3, <1>4, Bounds DEF IInv, Typed
<1>10. SupervisorReads'
  BY <1>2, <1>4, <1>5 DEF IInv, SupervisorReads
<1>11. ReadIsTrue' /\ WrittenIsWanted' /\ ToldIsStored'
  BY <1>2, <1>4, <1>5, <1>6 DEF ReadIsTrue, WrittenIsWanted, ToldIsStored
<1> QED
  BY <1>8, <1>9, <1>10, <1>11 DEF IInv

-----------------------------------------------------------------------------
(* The steps of a save                                                      *)

LEMMA ApplyStep == ASSUME IInv, NEW request \in Requests, Apply(request) PROVE IInv'
<1> DEFINE want == [p \in Providers |-> CASE request[p] = "clear" -> NoKey
                                  [] request[p] = "keep" -> job["main"].read[p]
                                  [] request[p] = "set" -> saves + 1]
           j == [job["main"] EXCEPT !.step = 9, !.want = want]
<1>1. /\ job["main"].step = 8 /\ job["main"].for = "save" /\ job' = [job EXCEPT !["main"] = j]
      /\ UNCHANGED <<keychain, legacy, told, saves, starts>>
  BY DEF Apply, At, store, bounds
<1>2. /\ job \in [Threads -> Job] /\ job["main"] \in Job /\ "main" \in Threads /\ "supervisor" \in Threads
      /\ saves + 1 \in Nat
  BY DEF IInv, Typed, Threads
<1>3. want \in [Providers -> Nat]
  BY <1>2 DEF Job, NoKey, Requests
<1> HIDE DEF want
<1>4. j \in Job /\ j.step = 9 /\ j.for = "save"
  <2>1. 9 \in 0..12
    OBVIOUS
  <2> QED
    BY <1>1, <1>2, <1>3, <2>1 DEF Job
<1> HIDE DEF j
<1>5. job'["main"] = j /\ job'["supervisor"] = job["supervisor"]
  BY <1>1, <1>2
<1>6. told = <<>>
  BY <1>1 DEF IInv, ToldIsStored
<1>7. Typed'
  BY <1>1, <1>2, <1>4 DEF IInv, Typed
<1>8. SupervisorReads' /\ ReadIsTrue' /\ ToldIsStored'
  BY <1>1, <1>4, <1>5, <1>6 DEF IInv, SupervisorReads, ReadIsTrue, ToldIsStored
<1>9. WrittenIsWanted'
  BY <1>4, <1>5 DEF WrittenIsWanted, Providers
<1> QED
  BY <1>7, <1>8, <1>9 DEF IInv

(* A save writes one key at a time.                                          *)
LEMMA PersistStep ==
    ASSUME IInv, NEW t \in Threads, Persist(t)
    PROVE  /\ IInv' /\ job["main"].for = "save" /\ job["main"].step - 8 \in Providers
           /\ LET p == job["main"].step - 8 IN
                /\ \A q \in Providers \ {p} : Effective'[q] = Effective[q]
                /\ Effective'[p] \in {job["main"].want[p], legacy[p]}
<1> DEFINE p == job["main"].step - 8
           w == job["main"].want
           j == [job["main"] EXCEPT !.step = job["main"].step + 1]
<1>1. t = "main" /\ job["main"].step \in 9..11 /\ job["main"].for = "save" /\ p \in Providers
  BY DEF IInv, SupervisorReads, Persist, At, Threads, Providers
<1>2. /\ keychain' = [keychain EXCEPT ![p] = w[p]] /\ job' = [job EXCEPT !["main"] = j]
      /\ UNCHANGED <<legacy, told, saves, starts>>
  BY <1>1 DEF Persist, Goes, bounds
<1>3. /\ job \in [Threads -> Job] /\ job["main"] \in Job /\ "main" \in Threads /\ "supervisor" \in Threads
      /\ keychain \in [Providers -> Nat] /\ legacy \in [Providers -> Nat] /\ w \in [Providers -> Nat]
  BY DEF IInv, Typed, Job, Threads
<1>4. /\ j \in Job /\ j.step = p + 9 /\ j.for = "save" /\ j.want = w
      /\ job["main"].step + 1 \in 0..12
  BY <1>1, <1>3 DEF Job
<1> HIDE DEF j
<1>5. job'["main"] = j /\ job'["supervisor"] = job["supervisor"]
  BY <1>2, <1>3
<1>6. told = <<>>
  BY <1>1 DEF IInv, ToldIsStored
<1>7. /\ keychain' \in [Providers -> Nat] /\ keychain'[p] = w[p]
      /\ \A q \in Providers : q # p => keychain'[q] = keychain[q]
  BY <1>1, <1>2, <1>3
<1>8. /\ \A q \in Providers \ {p} : Effective'[q] = Effective[q]
      /\ Effective'[p] \in {w[p], legacy[p]}
  BY <1>1, <1>2, <1>7 DEF Effective
<1>9. Typed'
  BY <1>2, <1>3, <1>4, <1>7 DEF IInv, Typed
<1>10. SupervisorReads' /\ ReadIsTrue' /\ ToldIsStored'
  BY <1>1, <1>2, <1>4, <1>5, <1>6 DEF IInv, SupervisorReads, ReadIsTrue, ToldIsStored
<1>11. WrittenIsWanted'
  <2>1. \A q \in Providers : q < p => keychain[q] = w[q]
    BY <1>1 DEF IInv, WrittenIsWanted
  <2>2. \A q \in Providers : q < p + 1 => keychain'[q] = w[q]
    BY <1>1, <1>7, <2>1 DEF Providers
  <2> QED
    BY <1>1, <1>4, <1>5, <2>2 DEF WrittenIsWanted
<1> QED
  BY <1>1, <1>8, <1>9, <1>10, <1>11 DEF IInv

(* At the end of a save the keychain has what the save was to write.         *)
LEMMA SavedStep ==
    ASSUME IInv, NEW t \in Threads, Saved(t)
    PROVE  /\ IInv' /\ job["main"].for = "save" /\ job["main"].step = 12
           /\ \A p \in Providers : Effective'[p] = job["main"].want[p]
<1> DEFINE w == job["main"].want
<1>1. t = "main" /\ job["main"].step = 12 /\ job["main"].for = "save"
  BY DEF IInv, SupervisorReads, Saved, At, Threads
<1>2. /\ legacy' = Empty /\ told' = w /\ job' = [job EXCEPT !["main"] = NoJob]
      /\ UNCHANGED <<keychain, saves, starts>>
  BY <1>1 DEF Saved, Ends, bounds
<1>3. /\ job \in [Threads -> Job] /\ job["main"] \in Job /\ "main" \in Threads /\ "supervisor" \in Threads
      /\ keychain \in [Providers -> Nat] /\ w \in [Providers -> Nat]
      /\ Empty \in [Providers -> Nat] /\ \A p \in Providers : Empty[p] = NoKey
  BY DEF IInv, Typed, Job, Threads, Empty, NoKey
<1>4. job'["main"] = NoJob /\ job'["supervisor"] = job["supervisor"]
  BY <1>2, <1>3
<1>5. \A p \in Providers : keychain[p] = w[p]
  BY <1>1 DEF IInv, WrittenIsWanted, Providers
<1>6. keychain = w
  BY <1>3, <1>5
<1>7. \A p \in Providers : Effective'[p] = w[p]
  BY <1>2, <1>3, <1>5 DEF Effective
<1>8. Typed'
  BY <1>2, <1>3, NoJobIsJob, Bounds DEF IInv, Typed, Providers
<1>9. SupervisorReads' /\ ReadIsTrue' /\ WrittenIsWanted'
  BY <1>2, <1>4, NoJobIsJob DEF IInv, SupervisorReads, ReadIsTrue, WrittenIsWanted
<1>10. ToldIsStored'
  BY <1>2, <1>4, <1>6, NoJobIsJob DEF ToldIsStored
<1> QED
  BY <1>1, <1>7, <1>8, <1>9, <1>10 DEF IInv

-----------------------------------------------------------------------------
(* All steps                                                                *)

\* What a step may do to the keys that can be seen.
KeysStay ==
    \A p \in Providers : Effective'[p] # Effective[p] =>
        /\ job["main"].for = "save" /\ job["main"].step \in {p + 8, 12}
        /\ Effective'[p] \in {job["main"].want[p], legacy[p]}

LEMMA QuietStep ==
    ASSUME IInv, OneWriter, NEW t \in Threads, Read(t) \/ ReadLegacy(t) \/ LegacyFails(t) \/ Loaded(t) \/ Fails(t)
    PROVE  IInv' /\ UNCHANGED store
<1>1. CASE Read(t)
  BY <1>1, ReadStep DEF Read
<1>2. CASE ReadLegacy(t)
  BY <1>2, ReadLegacyStep DEF ReadLegacy
<1>3. CASE LegacyFails(t)
  <2>1. job[t].step \in 1..12 /\ Goes(t, 8) /\ UNCHANGED <<keychain, legacy, told, saves, starts>>
    BY <1>3 DEF LegacyFails, At, store
  <2> QED
    BY <2>1, GoesOn DEF store
<1>4. CASE Loaded(t) \/ Fails(t)
  <2>1. job[t].step \in 1..12 /\ Ends(t) /\ UNCHANGED <<keychain, legacy, told, saves, starts>>
    BY <1>4 DEF Loaded, Fails, At, store, bounds
  <2> QED
    BY <2>1, GoesOn DEF store
<1> QED
  BY <1>1, <1>2, <1>3, <1>4

LEMMA BeginStep ==
    ASSUME IInv, SetUp \/ GetSettings \/ Save \/ StartPlane
    PROVE  IInv' /\ UNCHANGED store
<1>1. CASE Save
  <2> DEFINE k == [NoJob EXCEPT !.for = "save", !.step = 1]
  <2>1. /\ job' = [job EXCEPT !["main"] = k] /\ told' = <<>> /\ UNCHANGED store
        /\ saves' = saves + 1 /\ starts' = starts /\ saves \in Nat /\ starts \in 0..MaxStarts
    BY <1>1 DEF Save, Load, IInv, Typed
  <2>2. k \in Job /\ k.step = 1 /\ "main" \in Threads
    BY LoadIsJob DEF Threads
  <2> HIDE DEF k
  <2>3. told' \in {told, <<>>} /\ saves' \in Nat /\ starts' \in 0..MaxStarts
    BY <2>1
  <2> QED
    BY <2>1, <2>2, <2>3, Begins
<1>2. CASE SetUp \/ GetSettings \/ StartPlane
  <2> DEFINE k == [NoJob EXCEPT !.for = "load", !.step = 1]
  <2>1. k \in Job /\ k.step = 1 /\ k.for = "load"
    BY LoadIsJob
  <2>2. /\ \/ job' = [job EXCEPT !["main"] = k]
           \/ job' = [job EXCEPT !["supervisor"] = k] /\ MaxStarts # 0
        /\ told' = told /\ UNCHANGED store
        /\ saves' = saves /\ starts' \in 0..MaxStarts /\ saves \in Nat
    BY <1>2, Bounds DEF SetUp, GetSettings, StartPlane, Load, IInv, Typed, bounds
  <2> HIDE DEF k
  <2>3. "main" \in Threads /\ "supervisor" \in Threads
    BY DEF Threads
  <2>4. starts' \in 0..MaxStarts /\ saves' \in Nat
    BY <2>2
  <2>5. CASE job' = [job EXCEPT !["main"] = k]
    BY <2>1, <2>2, <2>3, <2>4, <2>5, Begins
  <2>6. CASE job' = [job EXCEPT !["supervisor"] = k] /\ MaxStarts # 0
    BY <2>1, <2>2, <2>3, <2>4, <2>6, Begins
  <2> QED
    BY <2>2, <2>5, <2>6
<1> QED
  BY <1>1, <1>2

LEMMA CrashStep == ASSUME IInv, Crash PROVE IInv' /\ UNCHANGED store
<1>1. /\ job' = [t \in Threads |-> NoJob] /\ UNCHANGED <<keychain, legacy, told, saves, starts>>
  BY DEF Crash, store
<1>2. job' \in [Threads -> Job] /\ job'["main"] = NoJob /\ job'["supervisor"] = NoJob
  BY <1>1, NoJobIsJob DEF Threads
<1> QED
  <2>1. Typed' /\ SupervisorReads' /\ WrittenIsWanted' /\ ToldIsStored'
    BY <1>1, <1>2, NoJobIsJob DEF IInv, Typed, SupervisorReads, WrittenIsWanted, ToldIsStored
  <2>2. ReadIsTrue'
    BY <1>2, NoJobIsJob DEF ReadIsTrue
  <2> QED
    BY <1>1, <2>1, <2>2 DEF IInv, store

LEMMA SameStore == UNCHANGED store => KeysStay
BY DEF store, KeysStay, Effective

LEMMA IInvStep == ASSUME IInv, OneWriter, [Next]_vars PROVE IInv' /\ KeysStay
<1>1. ASSUME NEW t \in Threads, Read(t) \/ ReadLegacy(t) \/ LegacyFails(t) \/ Loaded(t) \/ Fails(t)
      PROVE  IInv' /\ KeysStay
  BY <1>1, QuietStep, SameStore
<1>2. ASSUME NEW t \in Threads, Import(t) \/ DeleteLegacy(t) PROVE IInv' /\ KeysStay
  BY <1>2, ImportStep, DeleteLegacyStep DEF KeysStay
<1>3. ASSUME NEW t \in Threads, Persist(t) PROVE IInv' /\ KeysStay
  <2> DEFINE p == job["main"].step - 8
  <2>1. /\ IInv' /\ job["main"].for = "save" /\ p \in Providers
        /\ \A q \in Providers \ {p} : Effective'[q] = Effective[q]
        /\ Effective'[p] \in {job["main"].want[p], legacy[p]}
    BY <1>3, PersistStep
  <2>2. job["main"].step = p + 8
    BY <1>3 DEF Persist, At, IInv, Typed, Job, Threads
  <2> QED
    BY <2>1, <2>2 DEF KeysStay
<1>4. ASSUME NEW t \in Threads, Saved(t) PROVE IInv' /\ KeysStay
  BY <1>4, SavedStep DEF KeysStay
<1>5. CASE SetUp \/ GetSettings \/ Save \/ StartPlane \/ Crash
  BY <1>5, BeginStep, CrashStep, SameStore
<1>6. ASSUME NEW request \in Requests, Apply(request) PROVE IInv' /\ KeysStay
  BY <1>6, ApplyStep, SameStore DEF Apply
<1>7. CASE UNCHANGED vars
  BY <1>7, SameStore DEF vars, store, bounds, IInv, Typed, SupervisorReads, ReadIsTrue, WrittenIsWanted,
     ToldIsStored, Effective
<1> QED
  BY <1>1, <1>2, <1>3, <1>4, <1>5, <1>6, <1>7 DEF Next

LEMMA AlwaysIInv == ASSUME OneWriter PROVE Spec => []IInv
<1>1. IInv /\ [Next]_vars => IInv'
  BY IInvStep
<1> QED
  BY <1>1, InitIInv, PTL DEF Spec

-----------------------------------------------------------------------------
(* Theorems                                                                 *)

(* What a save that succeeded has stored is what every later load finds,     *)
(* until the next save, through any failures of the keychain and ends of the *)
(* app (save_provider_settings, persist_provider_settings).                  *)
THEOREM SavesHold == ASSUME OneWriter PROVE Spec => []AcknowledgedSaveHolds
<1>1. ASSUME IInv PROVE AcknowledgedSaveHolds
  <2> SUFFICES ASSUME told # <<>> PROVE Effective = told
    BY DEF AcknowledgedSaveHolds
  <2>1. keychain = told /\ legacy = Empty /\ keychain \in [Providers -> Nat]
    BY <1>1 DEF IInv, ToldIsStored, Typed
  <2>2. Effective = [p \in Providers |-> keychain[p]]
    BY <2>1 DEF Effective, Empty
  <2> QED
    BY <2>1, <2>2
<1> QED
  BY <1>1, AlwaysIInv, PTL

(* A key that can be seen stays until a save puts another in its place or    *)
(* clears it: an import interrupted anywhere loses none (migrate of the      *)
(* legacy file in load_provider_settings).                                   *)
THEOREM KeysAreNotLost == ASSUME OneWriter PROVE Spec => KeysAreKept
<1>1. IInv /\ [Next]_vars => [KeysStay]_vars
  BY IInvStep
<1>2. [KeysStay]_vars <=> [\A p \in Providers : Effective'[p] # Effective[p] =>
          /\ job["main"].for = "save" /\ job["main"].step \in {p + 8, 12}
          /\ Effective'[p] \in {job["main"].want[p], legacy[p]}]_vars
  BY DEF KeysStay
<1> QED
  BY <1>1, <1>2, AlwaysIInv, PTL DEF Spec, KeysAreKept

-----------------------------------------------------------------------------
(* The supervisor.                                                         *)

Hand == [step : Dying!Steps, plane : Nat, owned : BOOLEAN, saving : BOOLEAN]

\* Types that do not depend on the limits, and the one port.
ShellTyped ==
    /\ thread \in [{"main", "supervisor"} -> Hand]
    /\ managed \in [child : Nat, owned : BOOLEAN, down : BOOLEAN, error : BOOLEAN]
    /\ made \in Nat

Main == thread["main"]
Other == thread["supervisor"]
Exiting == {"kill at exit", "leave", "gone"}

\* The thread that may start a plane while the app runs.
Starter == IF Main.step = "idle" THEN Other ELSE Main

\* Deaths and failures, no saves: the planes that run are what the starter has in hand.
DyingInv ==
    /\ ShellTyped /\ applications = 0 /\ listener \in alive \cup {Dying!NoPlane}
    /\ Main.step \in {"probe", "spawn", "wait", "launched", "failed", "idle"} \cup Exiting
    /\ Main.step \notin Exiting =>
          /\ ~managed.down
          /\ Main.step = "idle" => Other.step \in {"idle", "probe", "spawn", "wait", "launched", "failed"}
          /\ Main.step # "idle" => Other.step = "none"
          /\ Starter.step \in {"probe", "spawn", "failed"} => alive = {}
          /\ Starter.step \in {"wait", "launched"} => alive \subseteq {Starter.plane}
          /\ Starter.step = "idle" => alive \subseteq {managed.child}

\* Saves, no deaths and no failures.  Beside a foreign plane none is ever started.
Stranger ==
    /\ alive = {0} /\ listener = 0 /\ applied = 0
    /\ managed.child = Settled!NoPlane /\ ~managed.owned
    /\ Main.plane = Settled!NoPlane
    /\ Main.step \in {"probe", "launched", "idle", "take", "kill"} \cup Exiting
    /\ Main.step \in {"probe", "launched"} => ~Main.saving
    /\ Main.step \in {"launched", "kill"} => ~Main.owned

\* Otherwise the last plane that was started is the only one, and has the keys.
Owner ==
    /\ listener \in alive \cup {Settled!NoPlane}
    /\ Main.step \in {"probe", "spawn", "wait", "launched", "idle", "take", "kill"} \cup Exiting
    /\ Main.step \in {"probe", "spawn", "leave", "gone"} => alive = {}
    /\ Main.step \in {"wait", "launched", "idle", "take", "kill"} => alive = {made} /\ made # 0
    /\ Main.step \in {"wait", "launched", "kill"} => Main.plane = made
    /\ Main.step \in {"launched", "kill"} => Main.owned
    /\ Main.step \in {"wait", "launched", "idle"} => given[made] = keys
    /\ Main.step \in {"idle", "take"} => managed.owned /\ managed.child = made
    /\ Main.step \notin {"idle", "take"} => ~managed.owned
    /\ Main.step = "kill at exit" => alive \subseteq {Main.plane} \ {0}

SettledInv ==
    /\ ShellTyped /\ deaths = 0 /\ launchFailures = 0
    /\ given \in [Settled!Planes -> Nat]
    /\ keys = applications /\ applications \in 0..MaxApplications
    /\ made <= applications + 1
    /\ Main.step \in {"probe", "spawn", "take", "kill"} => made <= applications
    /\ Other.step \in {"none", "idle", "gone"}
    /\ Stranger \/ Owner

ShellInv == (setting = "dying" => DyingInv) /\ (setting = "settings" => SettledInv)

TwoThreads == {"main", "supervisor"}

LEMMA ShellBounds == {MaxDeaths, MaxLaunchFailures, MaxApplications} \subseteq Nat
BY ShellAssumption DEF Dying!SupervisorAssumption, Settled!SupervisorAssumption

\* What becomes of the hands when one thread takes a step.
LEMMA OneHand ==
    ASSUME ShellTyped, NEW t \in TwoThreads, NEW h \in Hand, thread' = [thread EXCEPT ![t] = h]
    PROVE  thread' \in [TwoThreads -> Hand] /\ thread'[t] = h
    /\ \A x \in TwoThreads \ {t} : thread'[x] = thread[x]
BY DEF ShellTyped, TwoThreads

LEMMA HandGoes ==
    ASSUME NEW h \in Hand, NEW s \in Dying!Steps
    PROVE  /\ [h EXCEPT !.step = s] \in Hand /\ [h EXCEPT !.step = s].step = s
           /\ [h EXCEPT !.step = s].plane = h.plane /\ [h EXCEPT !.step = s].owned = h.owned
           /\ [h EXCEPT !.step = s].saving = h.saving
BY DEF Hand

LEMMA HandTakes ==
    ASSUME NEW h \in Hand, NEW p \in Nat
    PROVE  /\ [h EXCEPT !.plane = p] \in Hand /\ [h EXCEPT !.plane = p].plane = p
           /\ [h EXCEPT !.plane = p].step = h.step /\ [h EXCEPT !.plane = p].owned = h.owned
           /\ [h EXCEPT !.plane = p].saving = h.saving
BY DEF Hand

LEMMA HandOwns ==
    ASSUME NEW h \in Hand, NEW b \in BOOLEAN
    PROVE  /\ [h EXCEPT !.owned = b] \in Hand /\ [h EXCEPT !.owned = b].owned = b
           /\ [h EXCEPT !.owned = b].step = h.step /\ [h EXCEPT !.owned = b].plane = h.plane
           /\ [h EXCEPT !.owned = b].saving = h.saving
BY DEF Hand

LEMMA HandsExist ==
    \A s \in Dying!Steps, p \in Nat, b, c \in BOOLEAN :
        [step |-> s, plane |-> p, owned |-> b, saving |-> c] \in Hand
BY DEF Hand

\* One thread is in a new step, with a hand like before but for what it took.
Moves(t, s, p, o, v) ==
    /\ thread' \in [TwoThreads -> Hand] /\ \A x \in TwoThreads \ {t} : thread'[x] = thread[x]
    /\ thread'[t].step = s /\ thread'[t].plane = p /\ thread'[t].owned = o /\ thread'[t].saving = v

\* A start has ended: its thread is idle, and so is one that had not begun.
Rests(t) ==
    /\ thread' \in [TwoThreads -> Hand] /\ thread'[t].step = "idle"
    /\ \A x \in TwoThreads \ {t} :
          IF thread[x].step = "none" THEN thread'[x].step = "idle" ELSE thread'[x] = thread[x]

-----------------------------------------------------------------------------
(* What the steps of the threads in Dying do to the hands.            *)

LEMMA DyingNoPlane == Dying!NoPlane \in Nat \ {0} /\ Dying!Planes = 0..(Dying!NoPlane - 1)
BY ShellBounds DEF Dying!NoPlane, Dying!MaxPlanes, Dying!Planes

LEMMA DyingGoes ==
    ASSUME ShellTyped, NEW t \in TwoThreads, NEW s \in Dying!Steps, Dying!Goes(t, s)
    PROVE  Moves(t, s, thread[t].plane, thread[t].owned, thread[t].saving)
<1> DEFINE h == [thread[t] EXCEPT !.step = s]
<1>1. thread[t] \in Hand
  BY DEF ShellTyped, TwoThreads
<1>2. h \in Hand /\ h.step = s /\ h.plane = thread[t].plane /\ h.owned = thread[t].owned
      /\ h.saving = thread[t].saving
  BY <1>1, HandGoes
<1>3. thread' = [thread EXCEPT ![t] = h]
  BY DEF Dying!Goes
<1> HIDE DEF h
<1> QED
  BY <1>2, <1>3, OneHand DEF Moves

LEMMA DyingProbes ==
    ASSUME ShellTyped, NEW t \in TwoThreads, Dying!Probe(t)
    PROVE  /\ thread[t].step = "probe"

           /\ UNCHANGED <<alive, listener, given, made, keys, applied, managed, deaths, launchFailures, applications>>
           /\ IF listener # Dying!NoPlane THEN Moves(t, "launched", Dying!NoPlane, FALSE, thread[t].saving)
              ELSE Moves(t, "spawn", thread[t].plane, thread[t].owned, thread[t].saving)
<1> DEFINE h == [thread[t] EXCEPT !.step = "launched"]
           k == [h EXCEPT !.plane = Dying!NoPlane]
           l == [k EXCEPT !.owned = FALSE]
<1>1. thread[t] \in Hand /\ "launched" \in Dying!Steps /\ "spawn" \in Dying!Steps
  BY DEF ShellTyped, TwoThreads, Dying!Steps
<1>2. h \in Hand /\ h.step = "launched" /\ h.saving = thread[t].saving
  BY <1>1, HandGoes
<1>3. /\ thread[t].step = "probe"
      /\ UNCHANGED <<alive, listener, given, made, keys, applied, managed, deaths, launchFailures, applications>>
  BY DEF Dying!Probe, Dying!At, Dying!planes
<1>4. CASE listener # Dying!NoPlane
  <2>1. thread' = [thread EXCEPT ![t] = l]
    BY <1>4 DEF Dying!Probe
  <2> HIDE DEF h
  <2>2. k \in Hand /\ k.step = "launched" /\ k.plane = Dying!NoPlane /\ k.saving = thread[t].saving
    BY <1>2, DyingNoPlane, HandTakes
  <2> HIDE DEF k
  <2>3. l \in Hand /\ l.step = "launched" /\ l.plane = Dying!NoPlane /\ l.owned = FALSE
        /\ l.saving = thread[t].saving
    BY <2>2, HandOwns
  <2> HIDE DEF l
  <2> QED
    BY <1>3, <1>4, <2>1, <2>3, OneHand DEF Moves
<1>5. CASE listener = Dying!NoPlane
  <2>1. Dying!Goes(t, "spawn")
    BY <1>5 DEF Dying!Probe, Dying!Goes
  <2> QED
    BY <1>1, <1>3, <1>5, <2>1, DyingGoes
<1> QED
  BY <1>4, <1>5

LEMMA DyingSpawns ==
    ASSUME ShellTyped, NEW t \in TwoThreads, Dying!Spawn(t)
    PROVE  /\ thread[t].step = "spawn" /\ made' = made + 1 /\ alive' = alive \cup {made + 1}
           /\ given' = [given EXCEPT ![made + 1] = keys]
           /\ UNCHANGED <<listener, keys, applied, managed, deaths, launchFailures, applications>>
           /\ Moves(t, "wait", made + 1, thread[t].owned, thread[t].saving)
<1> DEFINE h == [thread[t] EXCEPT !.step = "wait"]
           k == [h EXCEPT !.plane = made + 1]
<1>1. thread[t] \in Hand /\ made + 1 \in Nat /\ "wait" \in Dying!Steps
  BY DEF ShellTyped, TwoThreads, Dying!Steps
<1>2. h \in Hand /\ h.step = "wait" /\ h.owned = thread[t].owned /\ h.saving = thread[t].saving
  BY <1>1, HandGoes
<1>3. thread' = [thread EXCEPT ![t] = k]
  BY DEF Dying!Spawn
<1> HIDE DEF h
<1>4. k \in Hand /\ k.step = "wait" /\ k.plane = made + 1 /\ k.owned = thread[t].owned
      /\ k.saving = thread[t].saving
  BY <1>1, <1>2, HandTakes
<1> HIDE DEF k
<1>5. Moves(t, "wait", made + 1, thread[t].owned, thread[t].saving)
  BY <1>3, <1>4, OneHand DEF Moves
<1> QED
  BY <1>5 DEF Dying!Spawn, Dying!At

LEMMA DyingWaits ==
    ASSUME ShellTyped, NEW t \in TwoThreads, Dying!Wait(t)
    PROVE  /\ thread[t].step = "wait"

           /\ UNCHANGED <<alive, listener, given, made, keys, applied, managed, deaths, launchFailures, applications>>
           /\ \/ /\ listener # Dying!NoPlane
                 /\ Moves(t, "launched", thread[t].plane, TRUE, thread[t].saving)
              \/ /\ listener = Dying!NoPlane /\ thread[t].plane \notin alive
                 /\ Moves(t, "failed", thread[t].plane, thread[t].owned, thread[t].saving)
<1> DEFINE h == [thread[t] EXCEPT !.step = "launched"]
           k == [h EXCEPT !.owned = TRUE]
<1>1. thread[t] \in Hand /\ "launched" \in Dying!Steps /\ "failed" \in Dying!Steps
  BY DEF ShellTyped, TwoThreads, Dying!Steps
<1>2. h \in Hand /\ h.step = "launched" /\ h.plane = thread[t].plane /\ h.saving = thread[t].saving
  BY <1>1, HandGoes
<1>3. /\ thread[t].step = "wait"
      /\ UNCHANGED <<alive, listener, given, made, keys, applied, managed, deaths, launchFailures, applications>>
  BY DEF Dying!Wait, Dying!At, Dying!planes
<1>4. CASE listener # Dying!NoPlane /\ thread' = [thread EXCEPT ![t] = k]
  <2> HIDE DEF h
  <2>1. k \in Hand /\ k.step = "launched" /\ k.plane = thread[t].plane /\ k.owned = TRUE
        /\ k.saving = thread[t].saving
    BY <1>2, HandOwns
  <2> HIDE DEF k
  <2> QED
    BY <1>3, <1>4, <2>1, OneHand DEF Moves
<1>5. CASE listener = Dying!NoPlane /\ thread[t].plane \notin alive /\ Dying!Goes(t, "failed")
  BY <1>1, <1>3, <1>5, DyingGoes
<1> QED
  BY <1>4, <1>5 DEF Dying!Wait

LEMMA DyingRested ==
    ASSUME ShellTyped, NEW t \in TwoThreads, Dying!Launched(t) \/ Dying!Failed(t)
    PROVE  /\ Rests(t) /\ thread'[t].plane = Dying!NoPlane
           /\ UNCHANGED <<alive, listener, given, made, keys, deaths, launchFailures, applications>>
           /\ Dying!Launched(t) =>
                /\ thread[t].step = "launched" /\ applied' = IF thread[t].saving THEN keys ELSE applied

                /\ managed' = [child |-> thread[t].plane, owned |-> thread[t].owned, down |-> FALSE, error |-> FALSE]
           /\ Dying!Failed(t) =>
                /\ thread[t].step = "failed" /\ applied' = applied
                /\ managed' = managed
                   \/ managed' = [child |-> Dying!NoPlane, owned |-> TRUE, down |-> FALSE, error |-> TRUE]
<1> DEFINE h == Dying!Doing("idle", Dying!NoPlane, FALSE)
<1>1. h \in Hand /\ h.step = "idle" /\ h.plane = Dying!NoPlane
  <2>1. "idle" \in Dying!Steps
    BY DEF Dying!Steps
  <2> QED
    BY <2>1, DyingNoPlane, HandsExist DEF Dying!Doing
<1>2. thread' = [x \in TwoThreads |-> IF x = t \/ thread[x].step = "none" THEN h ELSE thread[x]]
  BY DEF Dying!Launched, Dying!Failed, Dying!Threads, TwoThreads
<1> HIDE DEF h
<1>3. Rests(t) /\ thread'[t].plane = Dying!NoPlane
  BY <1>1, <1>2 DEF Rests, ShellTyped, TwoThreads
<1> QED
  BY <1>3 DEF Dying!Launched, Dying!Failed, Dying!At, Dying!planes

LEMMA DyingTimesOut ==
    ASSUME ShellTyped, NEW t \in TwoThreads, Dying!TimeOut(t)
    PROVE  /\ thread[t].step = "wait" /\ Dying!Without(thread[t].plane)
           /\ UNCHANGED <<given, made, keys, applied, managed, deaths, applications>>
           /\ Moves(t, "failed", thread[t].plane, thread[t].owned, thread[t].saving)
<1>1. Dying!Goes(t, "failed") /\ "failed" \in Dying!Steps
  BY DEF Dying!TimeOut, Dying!Steps
<1> QED
  BY <1>1, DyingGoes DEF Dying!TimeOut, Dying!At

LEMMA DyingLooks ==
    ASSUME ShellTyped, Dying!Look \/ Dying!LookAtExit
    PROVE  /\ thread["supervisor"].step = "idle"
           /\ UNCHANGED <<alive, listener, given, made, keys, applied, deaths, launchFailures, applications>>
           /\ Dying!Look =>
                /\ managed.owned /\ ~managed.down /\ managed.child \notin alive
                /\ managed' = [managed EXCEPT !.child = Dying!NoPlane]

                /\ Moves("supervisor", "probe", thread["supervisor"].plane, thread["supervisor"].owned,
                         thread["supervisor"].saving)
           /\ Dying!LookAtExit =>
                /\ managed.down /\ managed' = managed

                /\ Moves("supervisor", "gone", thread["supervisor"].plane, thread["supervisor"].owned,
                         thread["supervisor"].saving)
<1>1. "supervisor" \in TwoThreads /\ "probe" \in Dying!Steps /\ "gone" \in Dying!Steps
  BY DEF TwoThreads, Dying!Steps
<1>2. Dying!Look => Dying!Goes("supervisor", "probe")
  BY DEF Dying!Look
<1>3. Dying!LookAtExit => Dying!Goes("supervisor", "gone")
  BY DEF Dying!LookAtExit
<1> QED
  BY <1>1, <1>2, <1>3, DyingGoes DEF Dying!Look, Dying!LookAtExit, Dying!At, Dying!planes

LEMMA DyingLeaves ==
    ASSUME ShellTyped, NEW s \in {"idle", "leave"}, Dying!Leave(s)
    PROVE  /\ thread["main"].step = s
           /\ UNCHANGED <<alive, listener, given, made, keys, applied, deaths, launchFailures, applications>>
           /\ Moves("main", "kill at exit", managed.child, s = "idle", FALSE)
           /\ managed' = [[[managed EXCEPT !.child = Dying!NoPlane] EXCEPT !.owned = FALSE] EXCEPT !.down = TRUE]
<1> DEFINE h == Dying!Doing("kill at exit", managed.child, s = "idle")
<1>1. h \in Hand /\ h.step = "kill at exit" /\ h.plane = managed.child /\ h.owned = (s = "idle")
      /\ h.saving = FALSE
  <2>1. "kill at exit" \in Dying!Steps /\ managed.child \in Nat
    BY DEF Dying!Steps, ShellTyped
  <2> QED
    BY <2>1, HandsExist DEF Dying!Doing
<1>2. thread' = [thread EXCEPT !["main"] = h]
  BY DEF Dying!Leave
<1> HIDE DEF h
<1>3. Moves("main", "kill at exit", managed.child, s = "idle", FALSE)
  BY <1>1, <1>2, OneHand DEF Moves, TwoThreads
<1> QED
  BY <1>3 DEF Dying!Leave, Dying!At, Dying!planes

LEMMA DyingKillsAtExit ==
    ASSUME ShellTyped, Dying!KillAtExit
    PROVE  /\ thread["main"].step = "kill at exit" /\ Dying!Without(thread["main"].plane)
           /\ UNCHANGED <<given, made, keys, applied, managed, deaths, launchFailures, applications>>
           /\ thread' \in [TwoThreads -> Hand] /\ thread'["main"].step \in {"leave", "gone"}
           /\ thread'["main"].plane = Dying!NoPlane
           /\ thread'["supervisor"].step \in {"gone", thread["supervisor"].step}
<1> DEFINE h == Dying!Doing("leave", Dying!NoPlane, FALSE)
           k == Dying!Doing("gone", Dying!NoPlane, FALSE)
<1>1. h \in Hand /\ h.step = "leave" /\ h.plane = Dying!NoPlane /\ k \in Hand /\ k.step = "gone"
      /\ k.plane = Dying!NoPlane
  <2>1. "leave" \in Dying!Steps /\ "gone" \in Dying!Steps
    BY DEF Dying!Steps
  <2> QED
    BY <2>1, DyingNoPlane, HandsExist DEF Dying!Doing
<1>2. thread' = [thread EXCEPT !["main"] = h] \/ thread' = [x \in TwoThreads |-> k]
  BY DEF Dying!KillAtExit, Dying!Threads, TwoThreads
<1> HIDE DEF h, k
<1>3. CASE thread' = [thread EXCEPT !["main"] = h]
  BY <1>1, <1>3, OneHand DEF Dying!KillAtExit, Dying!At, TwoThreads
<1>4. CASE thread' = [x \in TwoThreads |-> k]
  BY <1>1, <1>4 DEF Dying!KillAtExit, Dying!At, TwoThreads
<1> QED
  BY <1>2, <1>3, <1>4

-----------------------------------------------------------------------------
(* What the steps of the threads in Settled do to the hands.            *)

LEMMA SettledNoPlane == Settled!NoPlane \in Nat \ {0} /\ Settled!Planes = 0..(Settled!NoPlane - 1)
BY ShellBounds DEF Settled!NoPlane, Settled!MaxPlanes, Settled!Planes

LEMMA SettledGoes ==
    ASSUME ShellTyped, NEW t \in TwoThreads, NEW s \in Dying!Steps, Settled!Goes(t, s)
    PROVE  Moves(t, s, thread[t].plane, thread[t].owned, thread[t].saving)
<1> DEFINE h == [thread[t] EXCEPT !.step = s]
<1>1. thread[t] \in Hand
  BY DEF ShellTyped, TwoThreads
<1>2. h \in Hand /\ h.step = s /\ h.plane = thread[t].plane /\ h.owned = thread[t].owned
      /\ h.saving = thread[t].saving
  BY <1>1, HandGoes
<1>3. thread' = [thread EXCEPT ![t] = h]
  BY DEF Settled!Goes
<1> HIDE DEF h
<1> QED
  BY <1>2, <1>3, OneHand DEF Moves

LEMMA SettledProbes ==
    ASSUME ShellTyped, NEW t \in TwoThreads, Settled!Probe(t)
    PROVE  /\ thread[t].step = "probe"

           /\ UNCHANGED <<alive, listener, given, made, keys, applied, managed, deaths, launchFailures, applications>>
           /\ IF listener # Settled!NoPlane THEN Moves(t, "launched", Settled!NoPlane, FALSE, thread[t].saving)
              ELSE Moves(t, "spawn", thread[t].plane, thread[t].owned, thread[t].saving)
<1> DEFINE h == [thread[t] EXCEPT !.step = "launched"]
           k == [h EXCEPT !.plane = Settled!NoPlane]
           l == [k EXCEPT !.owned = FALSE]
<1>1. thread[t] \in Hand /\ "launched" \in Dying!Steps /\ "spawn" \in Dying!Steps
  BY DEF ShellTyped, TwoThreads, Dying!Steps
<1>2. h \in Hand /\ h.step = "launched" /\ h.saving = thread[t].saving
  BY <1>1, HandGoes
<1>3. /\ thread[t].step = "probe"
      /\ UNCHANGED <<alive, listener, given, made, keys, applied, managed, deaths, launchFailures, applications>>
  BY DEF Settled!Probe, Settled!At, Settled!planes
<1>4. CASE listener # Settled!NoPlane
  <2>1. thread' = [thread EXCEPT ![t] = l]
    BY <1>4 DEF Settled!Probe
  <2> HIDE DEF h
  <2>2. k \in Hand /\ k.step = "launched" /\ k.plane = Settled!NoPlane /\ k.saving = thread[t].saving
    BY <1>2, SettledNoPlane, HandTakes
  <2> HIDE DEF k
  <2>3. l \in Hand /\ l.step = "launched" /\ l.plane = Settled!NoPlane /\ l.owned = FALSE
        /\ l.saving = thread[t].saving
    BY <2>2, HandOwns
  <2> HIDE DEF l
  <2> QED
    BY <1>3, <1>4, <2>1, <2>3, OneHand DEF Moves
<1>5. CASE listener = Settled!NoPlane
  <2>1. Settled!Goes(t, "spawn")
    BY <1>5 DEF Settled!Probe, Settled!Goes
  <2> QED
    BY <1>1, <1>3, <1>5, <2>1, SettledGoes
<1> QED
  BY <1>4, <1>5

LEMMA SettledSpawns ==
    ASSUME ShellTyped, NEW t \in TwoThreads, Settled!Spawn(t)
    PROVE  /\ thread[t].step = "spawn" /\ made' = made + 1 /\ alive' = alive \cup {made + 1}
           /\ given' = [given EXCEPT ![made + 1] = keys]
           /\ UNCHANGED <<listener, keys, applied, managed, deaths, launchFailures, applications>>
           /\ Moves(t, "wait", made + 1, thread[t].owned, thread[t].saving)
<1> DEFINE h == [thread[t] EXCEPT !.step = "wait"]
           k == [h EXCEPT !.plane = made + 1]
<1>1. thread[t] \in Hand /\ made + 1 \in Nat /\ "wait" \in Dying!Steps
  BY DEF ShellTyped, TwoThreads, Dying!Steps
<1>2. h \in Hand /\ h.step = "wait" /\ h.owned = thread[t].owned /\ h.saving = thread[t].saving
  BY <1>1, HandGoes
<1>3. thread' = [thread EXCEPT ![t] = k]
  BY DEF Settled!Spawn
<1> HIDE DEF h
<1>4. k \in Hand /\ k.step = "wait" /\ k.plane = made + 1 /\ k.owned = thread[t].owned
      /\ k.saving = thread[t].saving
  BY <1>1, <1>2, HandTakes
<1> HIDE DEF k
<1>5. Moves(t, "wait", made + 1, thread[t].owned, thread[t].saving)
  BY <1>3, <1>4, OneHand DEF Moves
<1> QED
  BY <1>5 DEF Settled!Spawn, Settled!At

LEMMA SettledWaits ==
    ASSUME ShellTyped, NEW t \in TwoThreads, Settled!Wait(t)
    PROVE  /\ thread[t].step = "wait"

           /\ UNCHANGED <<alive, listener, given, made, keys, applied, managed, deaths, launchFailures, applications>>
           /\ \/ /\ listener # Settled!NoPlane
                 /\ Moves(t, "launched", thread[t].plane, TRUE, thread[t].saving)
              \/ /\ listener = Settled!NoPlane /\ thread[t].plane \notin alive
                 /\ Moves(t, "failed", thread[t].plane, thread[t].owned, thread[t].saving)
<1> DEFINE h == [thread[t] EXCEPT !.step = "launched"]
           k == [h EXCEPT !.owned = TRUE]
<1>1. thread[t] \in Hand /\ "launched" \in Dying!Steps /\ "failed" \in Dying!Steps
  BY DEF ShellTyped, TwoThreads, Dying!Steps
<1>2. h \in Hand /\ h.step = "launched" /\ h.plane = thread[t].plane /\ h.saving = thread[t].saving
  BY <1>1, HandGoes
<1>3. /\ thread[t].step = "wait"
      /\ UNCHANGED <<alive, listener, given, made, keys, applied, managed, deaths, launchFailures, applications>>
  BY DEF Settled!Wait, Settled!At, Settled!planes
<1>4. CASE listener # Settled!NoPlane /\ thread' = [thread EXCEPT ![t] = k]
  <2> HIDE DEF h
  <2>1. k \in Hand /\ k.step = "launched" /\ k.plane = thread[t].plane /\ k.owned = TRUE
        /\ k.saving = thread[t].saving
    BY <1>2, HandOwns
  <2> HIDE DEF k
  <2> QED
    BY <1>3, <1>4, <2>1, OneHand DEF Moves
<1>5. CASE listener = Settled!NoPlane /\ thread[t].plane \notin alive /\ Settled!Goes(t, "failed")
  BY <1>1, <1>3, <1>5, SettledGoes
<1> QED
  BY <1>4, <1>5 DEF Settled!Wait

LEMMA SettledRested ==
    ASSUME ShellTyped, NEW t \in TwoThreads, Settled!Launched(t) \/ Settled!Failed(t)
    PROVE  /\ Rests(t) /\ thread'[t].plane = Settled!NoPlane
           /\ UNCHANGED <<alive, listener, given, made, keys, deaths, launchFailures, applications>>
           /\ Settled!Launched(t) =>
                /\ thread[t].step = "launched" /\ applied' = IF thread[t].saving THEN keys ELSE applied

                /\ managed' = [child |-> thread[t].plane, owned |-> thread[t].owned, down |-> FALSE, error |-> FALSE]
           /\ Settled!Failed(t) =>
                /\ thread[t].step = "failed" /\ applied' = applied
                /\ managed' = managed
                   \/ managed' = [child |-> Settled!NoPlane, owned |-> TRUE, down |-> FALSE, error |-> TRUE]
<1> DEFINE h == Settled!Doing("idle", Settled!NoPlane, FALSE)
<1>1. h \in Hand /\ h.step = "idle" /\ h.plane = Settled!NoPlane
  <2>1. "idle" \in Dying!Steps
    BY DEF Dying!Steps
  <2> QED
    BY <2>1, SettledNoPlane, HandsExist DEF Settled!Doing
<1>2. thread' = [x \in TwoThreads |-> IF x = t \/ thread[x].step = "none" THEN h ELSE thread[x]]
  BY DEF Settled!Launched, Settled!Failed, Settled!Threads, TwoThreads
<1> HIDE DEF h
<1>3. Rests(t) /\ thread'[t].plane = Settled!NoPlane
  BY <1>1, <1>2 DEF Rests, ShellTyped, TwoThreads
<1> QED
  BY <1>3 DEF Settled!Launched, Settled!Failed, Settled!At, Settled!planes

LEMMA SettledTimesOut ==
    ASSUME ShellTyped, NEW t \in TwoThreads, Settled!TimeOut(t)
    PROVE  /\ thread[t].step = "wait" /\ Settled!Without(thread[t].plane)
           /\ UNCHANGED <<given, made, keys, applied, managed, deaths, applications>>
           /\ Moves(t, "failed", thread[t].plane, thread[t].owned, thread[t].saving)
<1>1. Settled!Goes(t, "failed") /\ "failed" \in Dying!Steps
  BY DEF Settled!TimeOut, Dying!Steps
<1> QED
  BY <1>1, SettledGoes DEF Settled!TimeOut, Settled!At

LEMMA SettledLooks ==
    ASSUME ShellTyped, Settled!Look \/ Settled!LookAtExit
    PROVE  /\ thread["supervisor"].step = "idle"
           /\ UNCHANGED <<alive, listener, given, made, keys, applied, deaths, launchFailures, applications>>
           /\ Settled!Look =>
                /\ managed.owned /\ ~managed.down /\ managed.child \notin alive
                /\ managed' = [managed EXCEPT !.child = Settled!NoPlane]

                /\ Moves("supervisor", "probe", thread["supervisor"].plane, thread["supervisor"].owned,
                         thread["supervisor"].saving)
           /\ Settled!LookAtExit =>
                /\ managed.down /\ managed' = managed

                /\ Moves("supervisor", "gone", thread["supervisor"].plane, thread["supervisor"].owned,
                         thread["supervisor"].saving)
<1>1. "supervisor" \in TwoThreads /\ "probe" \in Dying!Steps /\ "gone" \in Dying!Steps
  BY DEF TwoThreads, Dying!Steps
<1>2. Settled!Look => Settled!Goes("supervisor", "probe")
  BY DEF Settled!Look
<1>3. Settled!LookAtExit => Settled!Goes("supervisor", "gone")
  BY DEF Settled!LookAtExit
<1> QED
  BY <1>1, <1>2, <1>3, SettledGoes DEF Settled!Look, Settled!LookAtExit, Settled!At, Settled!planes

LEMMA SettledLeaves ==
    ASSUME ShellTyped, NEW s \in {"idle", "leave"}, Settled!Leave(s)
    PROVE  /\ thread["main"].step = s
           /\ UNCHANGED <<alive, listener, given, made, keys, applied, deaths, launchFailures, applications>>
           /\ Moves("main", "kill at exit", managed.child, s = "idle", FALSE)

           /\ managed' = [[[managed EXCEPT !.child = Settled!NoPlane] EXCEPT !.owned = FALSE] EXCEPT !.down = TRUE]
<1> DEFINE h == Settled!Doing("kill at exit", managed.child, s = "idle")
<1>1. h \in Hand /\ h.step = "kill at exit" /\ h.plane = managed.child /\ h.owned = (s = "idle")
      /\ h.saving = FALSE
  <2>1. "kill at exit" \in Dying!Steps /\ managed.child \in Nat
    BY DEF Dying!Steps, ShellTyped
  <2> QED
    BY <2>1, HandsExist DEF Settled!Doing
<1>2. thread' = [thread EXCEPT !["main"] = h]
  BY DEF Settled!Leave
<1> HIDE DEF h
<1>3. Moves("main", "kill at exit", managed.child, s = "idle", FALSE)
  BY <1>1, <1>2, OneHand DEF Moves, TwoThreads
<1> QED
  BY <1>3 DEF Settled!Leave, Settled!At, Settled!planes

LEMMA SettledKillsAtExit ==
    ASSUME ShellTyped, Settled!KillAtExit
    PROVE  /\ thread["main"].step = "kill at exit" /\ Settled!Without(thread["main"].plane)
           /\ UNCHANGED <<given, made, keys, applied, managed, deaths, launchFailures, applications>>
           /\ thread' \in [TwoThreads -> Hand] /\ thread'["main"].step \in {"leave", "gone"}
           /\ thread'["main"].plane = Settled!NoPlane
           /\ thread'["supervisor"].step \in {"gone", thread["supervisor"].step}
<1> DEFINE h == Settled!Doing("leave", Settled!NoPlane, FALSE)
           k == Settled!Doing("gone", Settled!NoPlane, FALSE)
<1>1. h \in Hand /\ h.step = "leave" /\ h.plane = Settled!NoPlane /\ k \in Hand /\ k.step = "gone"
      /\ k.plane = Settled!NoPlane
  <2>1. "leave" \in Dying!Steps /\ "gone" \in Dying!Steps
    BY DEF Dying!Steps
  <2> QED
    BY <2>1, SettledNoPlane, HandsExist DEF Settled!Doing
<1>2. thread' = [thread EXCEPT !["main"] = h] \/ thread' = [x \in TwoThreads |-> k]
  BY DEF Settled!KillAtExit, Settled!Threads, TwoThreads
<1> HIDE DEF h, k
<1>3. CASE thread' = [thread EXCEPT !["main"] = h]
  BY <1>1, <1>3, OneHand DEF Settled!KillAtExit, Settled!At, TwoThreads
<1>4. CASE thread' = [x \in TwoThreads |-> k]
  BY <1>1, <1>4 DEF Settled!KillAtExit, Settled!At, TwoThreads
<1> QED
  BY <1>2, <1>3, <1>4

-----------------------------------------------------------------------------
(* Deaths and failed starts.                                               *)

\* Once the app has begun to leave there is nothing more to keep.
LEMMA DyingExits ==
    ASSUME ShellTyped, ShellTyped', Main.step \in Exiting, Main'.step \in Exiting,
           applications' = 0, listener' \in alive' \cup {Dying!NoPlane}
    PROVE  DyingInv'
BY DEF DyingInv, Exiting

LEMMA DyingPlanes ==
    ASSUME DyingInv, NEW p \in Dying!Planes,
           Dying!Listen(p) \/ Dying!LosePort(p) \/ Dying!Die(p) \/ Dying!FailToStart(p)
    PROVE  DyingInv'
<1>1. UNCHANGED <<thread, managed, made, applications>>
  BY DEF Dying!Listen, Dying!LosePort, Dying!Die, Dying!FailToStart
<1>2. alive' \subseteq alive /\ listener' \in alive' \cup {Dying!NoPlane}
  BY DEF DyingInv, Dying!Listen, Dying!LosePort, Dying!Die, Dying!FailToStart, Dying!Without
<1> QED
  BY <1>1, <1>2 DEF DyingInv, ShellTyped, Main, Other, Starter

LEMMA DyingStart ==
    ASSUME DyingInv, NEW t \in TwoThreads, Dying!Start(t) \/ Dying!TimeOut(t)
    PROVE  DyingInv'
<1>1. ShellTyped /\ ShellTyped' /\ thread' \in [TwoThreads -> Hand]
  <2>1. ShellTyped
    BY DEF DyingInv
  <2>2. CASE Dying!Probe(t)
    BY <2>1, <2>2, DyingProbes DEF ShellTyped, Moves, TwoThreads
  <2>3. CASE Dying!Spawn(t)
    BY <2>1, <2>3, DyingSpawns DEF ShellTyped, Moves, TwoThreads
  <2>4. CASE Dying!Wait(t)
    BY <2>1, <2>4, DyingWaits DEF ShellTyped, Moves, TwoThreads
  <2>5. CASE Dying!Launched(t) \/ Dying!Failed(t)
    <3>1. thread[t].plane \in Nat /\ thread[t].owned \in BOOLEAN
      BY <2>1 DEF ShellTyped, Hand, TwoThreads
    <3>2. UNCHANGED made /\ thread' \in [TwoThreads -> Hand]
      BY <2>1, <2>5, DyingRested DEF Rests
    <3>3. managed' \in [child : Nat, owned : BOOLEAN, down : BOOLEAN, error : BOOLEAN]
      <4>1. CASE Dying!Launched(t)
        <5>1. managed' = [child |-> thread[t].plane, owned |-> thread[t].owned, down |-> FALSE, error |-> FALSE]
          BY <2>1, <4>1, DyingRested
        <5> QED
          BY <3>1, <5>1
      <4>2. CASE Dying!Failed(t)
        <5>1. \/ managed' = managed
              \/ managed' = [child |-> Dying!NoPlane, owned |-> TRUE, down |-> FALSE, error |-> TRUE]
          BY <2>1, <4>2, DyingRested
        <5> QED
          <6>1. Dying!NoPlane \in Nat
            BY DyingNoPlane
          <6>2. [child |-> Dying!NoPlane, owned |-> TRUE, down |-> FALSE, error |-> TRUE]
                   \in [child : Nat, owned : BOOLEAN, down : BOOLEAN, error : BOOLEAN]
            BY <6>1
          <6> QED
            BY <2>1, <5>1, <6>2 DEF ShellTyped
      <4> QED
        BY <2>5, <4>1, <4>2
    <3> QED
      BY <2>1, <3>2, <3>3 DEF ShellTyped, TwoThreads
  <2>6. CASE Dying!TimeOut(t)
    BY <2>1, <2>6, DyingTimesOut DEF ShellTyped, Moves, TwoThreads
  <2> QED
    BY <2>2, <2>3, <2>4, <2>5, <2>6 DEF Dying!Start
<1>2. applications' = 0 /\ listener' \in alive' \cup {Dying!NoPlane}
  BY <1>1, DyingProbes, DyingSpawns, DyingWaits, DyingRested, DyingTimesOut
     DEF DyingInv, Dying!Start, Dying!Without
<1>3. CASE Main.step \in Exiting
  <2>1. thread[t].step \in {"probe", "spawn", "wait", "launched", "failed"}
    BY <1>1, DyingProbes, DyingSpawns, DyingWaits, DyingRested, DyingTimesOut DEF Dying!Start
  <2>2. t = "supervisor"
    BY <1>3, <2>1 DEF Main, Exiting, TwoThreads
  <2>3. "main" \in TwoThreads \ {t} /\ thread["main"].step # "none"
    BY <1>3, <2>2 DEF Main, Exiting, TwoThreads
  <2>4. thread'["main"] = thread["main"]
    <3>1. CASE Dying!Launched(t) \/ Dying!Failed(t)
      BY <1>1, <2>3, <3>1, DyingRested DEF Rests
    <3>2. CASE Dying!Probe(t)
      <4>1. \E s, q, b, v : Moves(t, s, q, b, v)
        BY <1>1, <3>2, DyingProbes
      <4> QED
        BY <2>3, <4>1 DEF Moves
    <3>3. CASE Dying!Spawn(t)
      BY <1>1, <2>3, <3>3, DyingSpawns DEF Moves
    <3>4. CASE Dying!Wait(t)
      <4>1. \E s, q, b, v : Moves(t, s, q, b, v)
        BY <1>1, <3>4, DyingWaits
      <4> QED
        BY <2>3, <4>1 DEF Moves
    <3>5. CASE Dying!TimeOut(t)
      BY <1>1, <2>3, <3>5, DyingTimesOut DEF Moves
    <3> QED
      BY <3>1, <3>2, <3>3, <3>4, <3>5 DEF Dying!Start
  <2> QED
    BY <1>1, <1>2, <1>3, <2>4, DyingExits DEF Main
<1>4. CASE Main.step \notin Exiting
  <2> DEFINE o == IF t = "main" THEN "supervisor" ELSE "main"
  <2>1. thread[t].step \in {"probe", "spawn", "wait", "launched", "failed"}
    BY <1>1, DyingProbes, DyingSpawns, DyingWaits, DyingRested, DyingTimesOut DEF Dying!Start
  <2>2. /\ o \in TwoThreads \ {t} /\ thread[t] = Starter
        /\ t = "main" => thread[o].step = "none"
        /\ t = "supervisor" => thread[o].step = "idle"
    BY <1>4, <2>1 DEF DyingInv, Main, Other, Starter, TwoThreads
  <2>0. ASSUME managed' = managed, thread'[o] = thread[o],
               thread'[t].step \in {"probe", "spawn", "wait", "launched", "failed"},
               thread'[t].step \in {"probe", "spawn", "failed"} => alive' = {},
               alive' \subseteq {thread'[t].plane}
        PROVE  DyingInv'
    <3>1. CASE t = "main"
      BY <1>1, <1>2, <1>4, <2>0, <2>2, <3>1 DEF DyingInv, Main, Other, Starter, Exiting
    <3>2. CASE t = "supervisor"
      BY <1>1, <1>2, <1>4, <2>0, <2>1, <2>2, <3>2 DEF DyingInv, Main, Other, Starter, Exiting
    <3> QED
      BY <3>1, <3>2 DEF TwoThreads
  <2>3. CASE Dying!Probe(t)
    <3>1. alive = {} /\ listener = Dying!NoPlane
      BY <1>4, <2>2, <2>3, <1>1, DyingProbes DEF DyingInv
    <3>2. Moves(t, "spawn", thread[t].plane, thread[t].owned, thread[t].saving) /\ alive' = {}
          /\ managed' = managed
      BY <1>1, <2>3, <3>1, DyingProbes
    <3>3. thread'[t].step = "spawn" /\ thread'[o] = thread[o]
      BY <2>2, <3>2 DEF Moves
    <3> QED
      BY <2>0, <3>2, <3>3
  <2>4. CASE Dying!Spawn(t)
    <3>1. /\ Moves(t, "wait", made + 1, thread[t].owned, thread[t].saving) /\ managed' = managed
          /\ alive' = {made + 1}
      BY <1>1, <1>4, <2>2, <2>4, DyingSpawns DEF DyingInv
    <3>3. thread'[t].step = "wait" /\ thread'[t].plane = made + 1 /\ thread'[o] = thread[o]
      BY <2>2, <3>1 DEF Moves
    <3> QED
      BY <2>0, <3>1, <3>3
  <2>5. CASE Dying!Wait(t)
    <3>1. alive \subseteq {thread[t].plane} /\ alive' = alive /\ managed' = managed
      BY <1>1, <1>4, <2>2, <2>5, DyingWaits DEF DyingInv
    <3>2. /\ thread'[t].plane = thread[t].plane /\ thread'[o] = thread[o]
          /\ thread'[t].step = "launched" \/ (thread'[t].step = "failed" /\ alive = {})
      <4>1. CASE Moves(t, "launched", thread[t].plane, TRUE, thread[t].saving)
        BY <2>2, <4>1 DEF Moves
      <4>2. CASE /\ thread[t].plane \notin alive
                 /\ Moves(t, "failed", thread[t].plane, thread[t].owned, thread[t].saving)
        BY <2>2, <3>1, <4>2 DEF Moves
      <4> QED
        BY <1>1, <2>5, <4>1, <4>2, DyingWaits
    <3> QED
      BY <2>0, <3>1, <3>2
  <2>6. CASE Dying!Launched(t) \/ Dying!Failed(t)
    <3>1. Rests(t) /\ alive' = alive
      BY <1>1, <2>6, DyingRested
    <3>2. thread'[t].step = "idle" /\ thread'[o].step = "idle"
      BY <2>2, <3>1 DEF Rests, TwoThreads
    <3>3. ~managed'.down /\ alive' \subseteq {managed'.child}
      <4>1. CASE Dying!Launched(t)
        BY <1>1, <1>4, <2>2, <4>1, DyingRested DEF DyingInv
      <4>2. CASE Dying!Failed(t)
        BY <1>1, <1>4, <2>2, <4>2, DyingRested DEF DyingInv
      <4> QED
        BY <2>6, <4>1, <4>2
    <3> QED
      <4>1. Main'.step = "idle" /\ Other'.step = "idle"
        BY <2>2, <3>2 DEF Main, Other, TwoThreads
      <4> QED
        BY <1>1, <1>2, <3>3, <4>1 DEF DyingInv, Starter, Exiting
  <2>7. CASE Dying!TimeOut(t)
    <3>1. alive \subseteq {thread[t].plane} /\ alive' = {} /\ managed' = managed
      BY <1>1, <1>4, <2>2, <2>7, DyingTimesOut DEF DyingInv, Dying!Without
    <3>2. thread'[t].step = "failed" /\ thread'[o] = thread[o]
      BY <1>1, <2>2, <2>7, DyingTimesOut DEF Moves
    <3> QED
      BY <2>0, <3>1, <3>2
  <2> QED
    BY <2>3, <2>4, <2>5, <2>6, <2>7 DEF Dying!Start
<1> QED
  BY <1>3, <1>4

LEMMA DyingEnds ==
    ASSUME DyingInv, Dying!Leave("idle") \/ Dying!Leave("leave") \/ Dying!KillAtExit
    PROVE  DyingInv'
<1>1. ShellTyped
  BY DEF DyingInv
<1>2. CASE Dying!Leave("idle") \/ Dying!Leave("leave")
  <2>1. PICK s \in {"idle", "leave"} : Dying!Leave(s)
    BY <1>2
  <2>2. /\ UNCHANGED <<alive, listener, made, applications>>
        /\ Moves("main", "kill at exit", managed.child, s = "idle", FALSE)
        /\ managed' = [[[managed EXCEPT !.child = Dying!NoPlane] EXCEPT !.owned = FALSE] EXCEPT !.down = TRUE]
    BY <1>1, <2>1, DyingLeaves
  <2>3. ShellTyped' /\ Main'.step = "kill at exit"
    BY <1>1, <2>2, DyingNoPlane DEF ShellTyped, Moves, Main, TwoThreads
  <2> QED
    BY <1>1, <2>2, <2>3 DEF DyingInv, Exiting
<1>3. CASE Dying!KillAtExit
  <2>1. ShellTyped' /\ Main'.step \in Exiting
    BY <1>1, <1>3, DyingKillsAtExit DEF ShellTyped, Main, TwoThreads, Exiting
  <2> QED
    BY <1>1, <1>3, <2>1, DyingKillsAtExit DEF DyingInv, Dying!Without, Exiting
<1> QED
  BY <1>2, <1>3

LEMMA DyingWatch ==
    ASSUME DyingInv, Dying!Look \/ Dying!LookAtExit
    PROVE  DyingInv'
<1>1. ShellTyped /\ "main" \in TwoThreads \ {"supervisor"} /\ "supervisor" \in TwoThreads
  BY DEF DyingInv, TwoThreads
<1>2. /\ thread["supervisor"].step = "idle"
      /\ UNCHANGED <<alive, listener, made, applications>>
      /\ thread' \in [TwoThreads -> Hand] /\ thread'["main"] = thread["main"]
  BY <1>1, DyingLooks DEF Moves
<1>3. ShellTyped'
  BY <1>1, <1>2, DyingLooks, DyingNoPlane DEF ShellTyped, TwoThreads
<1>4. CASE Main.step \in Exiting
  BY <1>1, <1>2, <1>3, <1>4, DyingExits DEF DyingInv, Main
<1>5. CASE Main.step \notin Exiting
  <2>1. Main.step = "idle" /\ Dying!Look
    BY <1>1, <1>2, <1>5, DyingLooks DEF DyingInv, Other, Main
  <2>2. /\ managed.child \notin alive /\ thread'["supervisor"].step = "probe"
        /\ managed' = [managed EXCEPT !.child = Dying!NoPlane]
    BY <1>1, <2>1, DyingLooks DEF Moves
  <2>3. alive = {} /\ ~managed'.down
    BY <1>1, <1>2, <1>5, <2>1, <2>2 DEF DyingInv, Starter, Other, ShellTyped
  <2> QED
    BY <1>2, <1>3, <1>5, <2>1, <2>2, <2>3 DEF DyingInv, Main, Other, Starter, Exiting
<1> QED
  BY <1>4, <1>5

LEMMA DyingStep ==
    ASSUME DyingInv, Dying!Next
    PROVE  DyingInv'
<1>1. CASE \E p \in Dying!Planes : Dying!Listen(p) \/ Dying!LosePort(p) \/ Dying!Die(p) \/ Dying!FailToStart(p)
  BY <1>1, DyingPlanes
<1>2. CASE \E t \in Dying!Threads : Dying!Running /\ (Dying!Start(t) \/ Dying!TimeOut(t))
  BY <1>2, DyingStart DEF Dying!Threads, TwoThreads
<1>3. CASE Dying!Look \/ Dying!LookAtExit
  BY <1>3, DyingWatch
<1>4. CASE Dying!Save
  BY <1>4 DEF DyingInv, Dying!Save
<1>5. CASE Dying!Take \/ Dying!Kill
  BY <1>5 DEF DyingInv, Dying!Take, Dying!Kill, Dying!At, Main, Exiting
<1>6. CASE Dying!Leave("leave") \/ Dying!KillAtExit \/ Dying!Quit
  BY <1>6, DyingEnds DEF Dying!Quit
<1> QED
  BY <1>1, <1>2, <1>3, <1>4, <1>5, <1>6 DEF Dying!Next, Dying!Main

-----------------------------------------------------------------------------
(* Keys that are saved.                                                    *)

\* What is said of the planes depends on what the main thread does and holds.
LEMMA SettledStays ==
    ASSUME SettledInv,
           UNCHANGED <<alive, listener, given, made, keys, applied, deaths, launchFailures, applications>>,
           ShellTyped', managed'.child = managed.child, managed'.owned = managed.owned,
           Main' = Main, Other'.step \in {"none", "idle", "gone"}
    PROVE  SettledInv'
<1>1. Stranger => Stranger'
  BY DEF Stranger
<1>2. Owner => Owner'
  BY DEF Owner
<1> QED
  BY <1>1, <1>2 DEF SettledInv

LEMMA SettledPlanes ==
    ASSUME SettledInv, NEW p \in Settled!Planes,
           Settled!Listen(p) \/ Settled!LosePort(p) \/ Settled!Die(p) \/ Settled!FailToStart(p)
    PROVE  SettledInv'
<1>1. ~Settled!Die(p) /\ ~Settled!FailToStart(p)
  BY DEF SettledInv, Settled!Die, Settled!FailToStart
<1>2. ~Settled!LosePort(p)
  BY DEF SettledInv, Stranger, Owner, Exiting, Settled!LosePort
<1>3. Settled!Listen(p)
  BY <1>1, <1>2
<1>4. /\ UNCHANGED <<alive, given, made, keys, applied, managed, thread, deaths, launchFailures, applications>>
      /\ p \in alive /\ listener = Settled!NoPlane /\ listener' = p
  BY <1>3 DEF Settled!Listen
<1>5. Owner
  BY <1>4, SettledNoPlane DEF SettledInv, Stranger
<1>6. Owner'
  BY <1>4, <1>5 DEF Owner, Main
<1> QED
  BY <1>4, <1>6 DEF SettledInv, ShellTyped, Main, Other

LEMMA SettledStart ==
    ASSUME SettledInv, NEW t \in TwoThreads, Settled!Start(t) \/ Settled!TimeOut(t)
    PROVE  SettledInv'
<1>1. ShellTyped /\ launchFailures = 0 /\ "main" \in TwoThreads /\ "supervisor" \in TwoThreads \ {"main"}
  BY DEF SettledInv, TwoThreads
<1>2. ~Settled!TimeOut(t)
  BY <1>1 DEF Settled!TimeOut
<1>3. thread[t].step \in {"probe", "spawn", "wait", "launched", "failed"}
  BY <1>1, <1>2, SettledProbes, SettledSpawns, SettledWaits, SettledRested DEF Settled!Start
<1>4. t = "main"
  BY <1>3 DEF SettledInv, Other, TwoThreads
<1>5. CASE Settled!Probe("main")
  <2>1. Main.step = "probe"
    BY <1>1, <1>5, SettledProbes DEF Main
  <2>2. UNCHANGED <<alive, listener, given, made, keys, applied, managed, deaths, launchFailures, applications>>
    BY <1>1, <1>5, SettledProbes
  <2>3. CASE Stranger
    <3>1. Moves("main", "launched", Settled!NoPlane, FALSE, Main.saving)
      BY <1>1, <1>5, <2>3, SettledProbes, SettledNoPlane DEF Stranger, Main
    <3>2. ShellTyped' /\ Main'.step = "launched" /\ Main'.plane = Settled!NoPlane /\ ~Main'.owned
          /\ Main'.saving = Main.saving /\ Other' = Other
      BY <1>1, <2>2, <3>1 DEF ShellTyped, Moves, Main, Other, TwoThreads
    <3>3. Stranger'
      BY <2>1, <2>2, <2>3, <3>2 DEF Stranger
    <3> QED
      BY <2>1, <2>2, <3>2, <3>3 DEF SettledInv
  <2>4. CASE Owner
    <3>1. Moves("main", "spawn", Main.plane, Main.owned, Main.saving)
      BY <1>1, <1>5, <2>1, <2>4, SettledProbes, SettledNoPlane DEF Owner, Main
    <3>2. ShellTyped' /\ Main'.step = "spawn" /\ Other' = Other
      BY <1>1, <2>2, <3>1 DEF ShellTyped, Moves, Main, Other, TwoThreads
    <3>3. Owner'
      BY <2>1, <2>2, <2>4, <3>2 DEF Owner
    <3> QED
      BY <2>1, <2>2, <3>2, <3>3 DEF SettledInv
  <2> QED
    BY <2>3, <2>4 DEF SettledInv
<1>6. CASE Settled!Spawn("main")
  <2>1. /\ Main.step = "spawn" /\ made' = made + 1 /\ alive' = alive \cup {made + 1}
        /\ given' = [given EXCEPT ![made + 1] = keys]
        /\ UNCHANGED <<listener, keys, applied, managed, deaths, launchFailures, applications>>
        /\ Moves("main", "wait", made + 1, Main.owned, Main.saving)
    BY <1>1, <1>6, SettledSpawns DEF Main
  <2>2. ShellTyped' /\ Main'.step = "wait" /\ Main'.plane = made + 1 /\ Other' = Other
    BY <1>1, <2>1 DEF ShellTyped, Moves, Main, Other, TwoThreads
  <2>3. Owner /\ made \in Nat /\ made + 1 # 0 /\ made <= applications /\ alive = {}
    BY <2>1, SettledNoPlane DEF SettledInv, Stranger, Owner, Exiting, ShellTyped
  <2>4. made + 1 \in Settled!Planes
    BY <2>3, ShellBounds DEF SettledInv, Settled!Planes, Settled!MaxPlanes
  <2>5. given' \in [Settled!Planes -> Nat] /\ given'[made + 1] = keys
    BY <2>1, <2>4 DEF SettledInv
  <2>6. Owner'
    BY <2>1, <2>2, <2>3, <2>5 DEF Owner, Exiting
  <2> QED
    BY <2>1, <2>2, <2>3, <2>5, <2>6 DEF SettledInv
<1>7. CASE Settled!Wait("main")
  <2>1. /\ Main.step = "wait"

        /\ UNCHANGED <<alive, listener, given, made, keys, applied, managed, deaths, launchFailures, applications>>
    BY <1>1, <1>7, SettledWaits DEF Main
  <2>2. Owner /\ Main.plane \in alive
    BY <2>1 DEF SettledInv, Stranger, Owner, Exiting
  <2>3. Moves("main", "launched", Main.plane, TRUE, Main.saving)
    BY <1>1, <1>7, <2>2, SettledWaits DEF Main
  <2>4. ShellTyped' /\ Main'.step = "launched" /\ Main'.plane = Main.plane /\ Main'.owned /\ Other' = Other
    BY <1>1, <2>1, <2>3 DEF ShellTyped, Moves, Main, Other, TwoThreads
  <2>5. Owner'
    BY <2>1, <2>2, <2>4 DEF Owner, Exiting
  <2> QED
    BY <2>1, <2>4, <2>5 DEF SettledInv
<1>8. CASE Settled!Launched("main")
  <2>1. /\ Main.step = "launched" /\ Rests("main") /\ Main'.plane = Settled!NoPlane
        /\ UNCHANGED <<alive, listener, given, made, keys, deaths, launchFailures, applications>>
        /\ applied' = IF Main.saving THEN keys ELSE applied
    BY <1>1, <1>8, SettledRested DEF Main
  <2>2. managed' = [child |-> Main.plane, owned |-> Main.owned, down |-> FALSE, error |-> FALSE]
    BY <1>1, <1>8, SettledRested DEF Main
  <2>3. Main \in Hand
    BY <1>1 DEF ShellTyped, Main
  <2>4. managed' \in [child : Nat, owned : BOOLEAN, down : BOOLEAN, error : BOOLEAN]
        /\ managed'.child = Main.plane /\ managed'.owned = Main.owned
    BY <2>2, <2>3 DEF Hand
  <2>5. ShellTyped'
    BY <1>1, <2>1, <2>4 DEF ShellTyped, Rests, TwoThreads
  <2>6. Main'.step = "idle" /\ Other'.step \in {"none", "idle", "gone"}
    BY <1>1, <2>1 DEF Rests, Main, Other, TwoThreads, SettledInv
  <2>7. Stranger => Stranger'
    BY <2>1, <2>4, <2>6 DEF Stranger
  <2>8. Owner => Owner'
    BY <2>1, <2>4, <2>6 DEF Owner, Exiting
  <2> QED
    BY <2>1, <2>5, <2>6, <2>7, <2>8 DEF SettledInv
<1>9. ~Settled!Failed("main")
  <2>1. Main.step # "failed"
    BY DEF SettledInv, Stranger, Owner, Exiting
  <2> QED
    BY <2>1 DEF Settled!Failed, Settled!At, Main
<1> QED
  BY <1>2, <1>4, <1>5, <1>6, <1>7, <1>8, <1>9 DEF Settled!Start

LEMMA SettledWatch ==
    ASSUME SettledInv, Settled!Look \/ Settled!LookAtExit
    PROVE  SettledInv'
<1>1. ShellTyped
  BY DEF SettledInv
<1>2. ~Settled!Look
  <2>1. managed.owned => managed.child \in alive
    BY DEF SettledInv, Stranger, Owner
  <2> QED
    BY <1>1, <2>1, SettledLooks
<1>3. /\ UNCHANGED <<alive, listener, given, made, keys, applied, deaths, launchFailures, applications, managed>>
      /\ Moves("supervisor", "gone", Other.plane, Other.owned, Other.saving)
  BY <1>1, <1>2, SettledLooks DEF Other
<1>4. ShellTyped' /\ Main' = Main /\ Other'.step = "gone"
  BY <1>1, <1>3 DEF ShellTyped, Moves, Main, Other, TwoThreads
<1> QED
  BY <1>3, <1>4, SettledStays

LEMMA SettledSave ==
    ASSUME SettledInv, Settled!Save
    PROVE  SettledInv'
<1>1. ShellTyped /\ "main" \in TwoThreads /\ "take" \in Dying!Steps
  BY DEF SettledInv, TwoThreads, Dying!Steps
<1>2. /\ Main.step = "idle" /\ keys' = keys + 1 /\ applications' = applications + 1
      /\ applications < MaxApplications
      /\ UNCHANGED <<alive, listener, given, made, applied, managed, deaths, launchFailures>>
  BY DEF Settled!Save, Settled!At, Settled!planes, Main
<1>3. Settled!Goes("main", "take")
  BY DEF Settled!Save
<1>4. Moves("main", "take", Main.plane, Main.owned, Main.saving)
  BY <1>1, <1>3, SettledGoes DEF Main
<1>5. ShellTyped' /\ Main'.step = "take" /\ Main'.plane = Main.plane /\ Other' = Other
  BY <1>1, <1>2, <1>4 DEF ShellTyped, Moves, Main, Other, TwoThreads
<1>6. Stranger => Stranger'
  BY <1>2, <1>5 DEF Stranger
<1>7. Owner => Owner'
  BY <1>2, <1>5 DEF Owner, Exiting
<1>8. keys' = applications' /\ applications' \in 0..MaxApplications /\ made <= applications'
  BY <1>2, ShellBounds DEF SettledInv
<1>9. made' <= applications' + 1
  BY <1>1, <1>2, <1>8, ShellBounds DEF ShellTyped
<1> QED
  BY <1>2, <1>5, <1>6, <1>7, <1>8, <1>9 DEF SettledInv

LEMMA SettledTake ==
    ASSUME SettledInv, Settled!Take
    PROVE  SettledInv'
<1> DEFINE h == [step |-> "kill", plane |-> managed.child, owned |-> managed.owned, saving |-> TRUE]
<1>1. ShellTyped /\ "main" \in TwoThreads /\ "kill" \in Dying!Steps /\ managed.child \in Nat
      /\ managed.owned \in BOOLEAN
  BY DEF SettledInv, TwoThreads, Dying!Steps, ShellTyped
<1>2. h \in Hand /\ h.step = "kill" /\ h.plane = managed.child /\ h.owned = managed.owned
  BY <1>1, HandsExist
<1>3. /\ Main.step = "take" /\ thread' = [thread EXCEPT !["main"] = h]
      /\ UNCHANGED <<alive, listener, given, made, keys, applied, deaths, launchFailures, applications>>
  BY DEF Settled!Take, Settled!At, Settled!planes, Main
<1>4. managed' = [[managed EXCEPT !.child = Settled!NoPlane] EXCEPT !.owned = FALSE]
  BY DEF Settled!Take
<1> HIDE DEF h
<1>5. thread' \in [TwoThreads -> Hand] /\ Main' = h /\ Other' = Other
  BY <1>1, <1>2, <1>3, OneHand DEF Main, Other, TwoThreads
<1>6. /\ managed' \in [child : Nat, owned : BOOLEAN, down : BOOLEAN, error : BOOLEAN]
      /\ managed'.child = Settled!NoPlane /\ managed'.owned = FALSE
  BY <1>1, <1>4, SettledNoPlane DEF ShellTyped
<1>7. ShellTyped'
  BY <1>1, <1>3, <1>5, <1>6 DEF ShellTyped, TwoThreads
<1>8. Stranger => Stranger'
  BY <1>2, <1>3, <1>5, <1>6 DEF Stranger
<1>9. Owner => Owner'
  BY <1>2, <1>3, <1>5, <1>6 DEF Owner, Exiting
<1> QED
  BY <1>2, <1>3, <1>5, <1>7, <1>8, <1>9 DEF SettledInv

LEMMA SettledKill ==
    ASSUME SettledInv, Settled!Kill
    PROVE  SettledInv'
<1> DEFINE h == [[thread["main"] EXCEPT !.step = "probe"] EXCEPT !.plane = Settled!NoPlane]
           k == Settled!Doing("idle", Settled!NoPlane, FALSE)
<1>1. ShellTyped /\ "main" \in TwoThreads /\ "idle" \in Dying!Steps /\ "probe" \in Dying!Steps /\ Main \in Hand
  BY DEF SettledInv, TwoThreads, Dying!Steps, ShellTyped, Main
<1>2. h \in Hand /\ h.step = "probe"
  <2> DEFINE g == [thread["main"] EXCEPT !.step = "probe"]
  <2>1. g \in Hand /\ g.step = "probe"
    BY <1>1, HandGoes DEF Main
  <2> HIDE DEF g
  <2> QED
    <3>1. Settled!NoPlane \in Nat
      BY SettledNoPlane
    <3>2. h = [g EXCEPT !.plane = Settled!NoPlane]
      BY DEF g
    <3> QED
      BY <2>1, <3>1, <3>2, HandTakes
<1>3. k \in Hand /\ k.step = "idle" /\ k.plane = Settled!NoPlane
  BY <1>1, HandsExist, SettledNoPlane DEF Settled!Doing
<1>4. /\ Main.step = "kill" /\ Settled!Without(Main.plane)
      /\ UNCHANGED <<given, made, keys, applied, managed, deaths, launchFailures, applications>>
      /\ thread' = [thread EXCEPT !["main"] = IF Main.owned THEN h ELSE k]
  BY DEF Settled!Kill, Settled!At, Settled!planes, Main
<1> HIDE DEF h, k
<1>5. thread' \in [TwoThreads -> Hand] /\ Main' = (IF Main.owned THEN h ELSE k) /\ Other' = Other
  BY <1>1, <1>2, <1>3, <1>4, OneHand DEF Main, Other, TwoThreads
<1>6. ShellTyped'
  BY <1>1, <1>4, <1>5 DEF ShellTyped, TwoThreads
<1>7. CASE Stranger
  <2>1. Main' = k /\ alive' = alive /\ listener' = listener
    BY <1>4, <1>5, <1>7, SettledNoPlane DEF Stranger, Settled!Without
  <2>2. Stranger'
    BY <1>3, <1>4, <1>7, <2>1 DEF Stranger
  <2> QED
    BY <1>3, <1>4, <1>5, <1>6, <2>1, <2>2 DEF SettledInv
<1>8. CASE Owner
  <2>1. Main' = h /\ alive' = {} /\ listener' = Settled!NoPlane
    BY <1>4, <1>5, <1>8 DEF Owner, Settled!Without
  <2>2. Owner'
    BY <1>2, <1>4, <1>8, <2>1 DEF Owner, Exiting
  <2> QED
    BY <1>2, <1>4, <1>5, <1>6, <2>1, <2>2 DEF SettledInv
<1> QED
  BY <1>7, <1>8 DEF SettledInv

LEMMA SettledEnds ==
    ASSUME SettledInv, Settled!Leave("idle") \/ Settled!Leave("leave") \/ Settled!KillAtExit
    PROVE  SettledInv'
<1>1. ShellTyped
  BY DEF SettledInv
<1>2. CASE Settled!Leave("idle") \/ Settled!Leave("leave")
  <2>1. PICK s \in {"idle", "leave"} : Settled!Leave(s)
    BY <1>2
  <2>2. /\ Main.step = s
        /\ UNCHANGED <<alive, listener, given, made, keys, applied, deaths, launchFailures, applications>>
        /\ Moves("main", "kill at exit", managed.child, s = "idle", FALSE)
        /\ managed' = [[[managed EXCEPT !.child = Settled!NoPlane] EXCEPT !.owned = FALSE] EXCEPT !.down = TRUE]
    BY <1>1, <2>1, SettledLeaves DEF Main
  <2>3. /\ managed' \in [child : Nat, owned : BOOLEAN, down : BOOLEAN, error : BOOLEAN]
        /\ managed'.child = Settled!NoPlane /\ managed'.owned = FALSE
    BY <1>1, <2>2, SettledNoPlane DEF ShellTyped
  <2>4. ShellTyped' /\ Main'.step = "kill at exit" /\ Main'.plane = managed.child /\ Other' = Other
    BY <1>1, <2>2, <2>3 DEF ShellTyped, Moves, Main, Other, TwoThreads
  <2>5. Stranger => Stranger'
    BY <2>2, <2>3, <2>4 DEF Stranger, Exiting
  <2>6. Owner => Owner'
    BY <2>1, <2>2, <2>3, <2>4 DEF Owner, Exiting
  <2> QED
    BY <2>2, <2>4, <2>5, <2>6 DEF SettledInv
<1>3. CASE Settled!KillAtExit
  <2>1. /\ Main.step = "kill at exit" /\ Settled!Without(Main.plane)
        /\ UNCHANGED <<given, made, keys, applied, managed, deaths, launchFailures, applications>>
        /\ thread' \in [TwoThreads -> Hand] /\ Main'.step \in {"leave", "gone"} /\ Main'.plane = Settled!NoPlane
        /\ Other'.step \in {"gone", Other.step}
    BY <1>1, <1>3, SettledKillsAtExit DEF Main, Other
  <2>2. ShellTyped'
    BY <1>1, <2>1 DEF ShellTyped, TwoThreads
  <2>3. Stranger => Stranger'
    BY <2>1, SettledNoPlane DEF Stranger, Exiting, Settled!Without
  <2>4. Owner => Owner'
    <3>1. Owner => alive' = {} /\ listener' = Settled!NoPlane
      BY <2>1 DEF Owner, Settled!Without
    <3> QED
      BY <2>1, <3>1 DEF Owner, Exiting
  <2> QED
    BY <2>1, <2>2, <2>3, <2>4 DEF SettledInv
<1> QED
  BY <1>2, <1>3

LEMMA SettledStep ==
    ASSUME SettledInv, Settled!Next
    PROVE  SettledInv'
<1>1. CASE \E p \in Settled!Planes :
              Settled!Listen(p) \/ Settled!LosePort(p) \/ Settled!Die(p) \/ Settled!FailToStart(p)
  BY <1>1, SettledPlanes
<1>2. CASE \E t \in Settled!Threads : Settled!Running /\ (Settled!Start(t) \/ Settled!TimeOut(t))
  BY <1>2, SettledStart DEF Settled!Threads, TwoThreads
<1>3. CASE Settled!Look \/ Settled!LookAtExit
  BY <1>3, SettledWatch
<1>4. CASE Settled!Leave("leave") \/ Settled!KillAtExit \/ Settled!Quit
  BY <1>4, SettledEnds DEF Settled!Quit
<1> QED
  BY <1>1, <1>2, <1>3, <1>4, SettledSave, SettledTake, SettledKill DEF Settled!Next, Settled!Main

-----------------------------------------------------------------------------
(* The app and its plane.                                                  *)

LEMMA ShellStarts == InitIn => ShellInv
<1> SUFFICES ASSUME InitIn PROVE ShellInv
  OBVIOUS
<1>1. Dying!NoPlane \in Nat \ {0} /\ Settled!NoPlane \in Nat \ {0} /\ 0 \in Settled!Planes
  BY DyingNoPlane, SettledNoPlane
<1>2. "probe" \in Dying!Steps /\ "none" \in Dying!Steps
  BY DEF Dying!Steps
<1>3. ASSUME setting = "dying" PROVE DyingInv
  <2>1. Dying!Init
    BY <1>3 DEF InitIn
  <2>2. thread \in [TwoThreads -> Hand] /\ Main.step = "probe" /\ Other.step = "none"
    BY <1>1, <1>2, <2>1, HandsExist DEF Dying!Init, Dying!Threads, Dying!Doing, TwoThreads, Main, Other
  <2>3. alive = {} /\ listener = Dying!NoPlane /\ made = 0 /\ applications = 0 /\ ~managed.down
        /\ managed \in [child : Nat, owned : BOOLEAN, down : BOOLEAN, error : BOOLEAN]
    BY <1>1, <2>1 DEF Dying!Init
  <2> QED
    BY <2>2, <2>3 DEF DyingInv, ShellTyped, Starter, TwoThreads
<1>4. ASSUME setting = "settings" PROVE SettledInv
  <2>1. Settled!Init
    BY <1>4 DEF InitIn
  <2>2. /\ thread \in [TwoThreads -> Hand] /\ Other.step = "none"
        /\ Main.step = "probe" /\ Main.plane = Settled!NoPlane /\ ~Main.saving
    BY <1>1, <1>2, <2>1, HandsExist DEF Settled!Init, Settled!Threads, Settled!Doing, TwoThreads, Main, Other
  <2>3. /\ made = 0 /\ keys = 0 /\ applied = 0 /\ applications = 0 /\ deaths = 0 /\ launchFailures = 0
        /\ given \in [Settled!Planes -> Nat]
        /\ managed \in [child : Nat, owned : BOOLEAN, down : BOOLEAN, error : BOOLEAN]
        /\ managed.child = Settled!NoPlane /\ ~managed.owned
    BY <1>1, <2>1 DEF Settled!Init
  <2>4. listener \in {Settled!NoPlane, 0} /\ alive = {listener} \ {Settled!NoPlane}
    BY <2>1 DEF Settled!Init, Settled!ForeignPlane
  <2>5. ASSUME listener = 0 PROVE Stranger
    <3>1. alive = {0}
      BY <1>1, <2>4, <2>5
    <3> QED
      BY <2>2, <2>3, <2>5, <3>1 DEF Stranger
  <2>6. ASSUME listener = Settled!NoPlane PROVE Owner
    <3>1. alive = {}
      BY <2>4, <2>6
    <3> QED
      BY <2>2, <2>3, <2>6, <3>1 DEF Owner, Exiting
  <2>7. 0 \in 0..MaxApplications
    BY ShellBounds
  <2> QED
    BY <2>2, <2>3, <2>4, <2>5, <2>6, <2>7 DEF SettledInv, ShellTyped, TwoThreads
<1> QED
  BY <1>3, <1>4 DEF ShellInv

LEMMA ShellGoesOn == ShellInv /\ [KeysNext \/ SupervisorNext]_all => ShellInv'
<1> SUFFICES ASSUME ShellInv, [KeysNext \/ SupervisorNext]_all PROVE ShellInv'
  OBVIOUS
<1>1. setting' = setting
  BY DEF KeysNext, SupervisorNext, all
<1>2. CASE UNCHANGED supervisor
  <2>1. DyingInv => DyingInv'
    BY <1>2 DEF DyingInv, ShellTyped, Main, Other, Starter, supervisor
  <2>2. SettledInv => SettledInv'
    <3>1. UNCHANGED <<alive, listener, given, made, keys, applied, managed, thread, deaths, launchFailures,
                      applications>>
      BY <1>2 DEF supervisor
    <3>2. ShellTyped => ShellTyped'
      BY <3>1 DEF ShellTyped
    <3> QED
      BY <3>1, <3>2, SettledStays DEF SettledInv, Main, Other
  <2> QED
    BY <1>1, <2>1, <2>2 DEF ShellInv
<1>3. CASE SupervisorNext
  <2>1. setting = "dying" => DyingInv'
    BY <1>3, DyingStep DEF SupervisorNext, ShellInv
  <2>2. setting = "settings" => SettledInv'
    BY <1>3, SettledStep DEF SupervisorNext, ShellInv
  <2> QED
    BY <1>1, <2>1, <2>2 DEF ShellInv
<1> QED
  BY <1>2, <1>3 DEF KeysNext, all

\* The plane that serves is the app's (start_control_plane, supervise_control_plane,
\* restart_managed_control_plane and stop_control_plane of main.rs): after any number
\* of deaths and failed starts the listener is the child that the app watches; under
\* any number of saves, beside a foreign plane or not, there is one plane, it has the
\* keys that were told to be applied, and it is gone when the app is.
THEOREM PlaneIsTheApps == SpecIn => []AppHasItsPlane
<1>1. ShellInv => AppHasItsPlane
  <2> SUFFICES ASSUME ShellInv PROVE AppHasItsPlane
    OBVIOUS
  <2>1. ASSUME setting = "dying" PROVE Dying!ListenerIsChild
    BY <2>1 DEF ShellInv, DyingInv, Starter, Main, Other, Exiting, Dying!ListenerIsChild, Dying!At
  <2>2. ASSUME setting = "settings"
        PROVE  Settled!OnePlane /\ Settled!KeysApplied /\ Settled!ExitLeavesNothing
    <3>1. SettledInv
      BY <2>2 DEF ShellInv
    <3>2. CASE Stranger
      BY <3>1, <3>2
         DEF Stranger, SettledInv, Settled!OnePlane, Settled!KeysApplied, Settled!ExitLeavesNothing,
             Settled!ForeignPlane
    <3>3. CASE Owner
      <4>1. alive \subseteq {made} \/ alive \subseteq {Main.plane}
        BY <3>3 DEF Owner, Exiting
      <4>2. Settled!OnePlane
        BY <4>1 DEF Settled!OnePlane
      <4>3. Settled!KeysApplied
        BY <3>3 DEF Owner, Main, Settled!KeysApplied, Settled!At
      <4>4. Settled!ExitLeavesNothing
        BY <3>3 DEF Owner, Main, Settled!ExitLeavesNothing, Settled!Running, Settled!At
      <4> QED
        BY <4>2, <4>3, <4>4
    <3> QED
      BY <3>1, <3>2, <3>3 DEF SettledInv
  <2> QED
    BY <2>1, <2>2 DEF AppHasItsPlane
<1> QED
  BY ShellStarts, ShellGoesOn, <1>1, PTL DEF SpecIn
=============================================================================
