----------------------------- MODULE GilProofs -----------------------------
(***************************************************************************)
(* Theorems about Gil, for any number of OS threads and VM threads: the    *)
(* park list is exact, every live stack is marked by a collection, and no  *)
(* OS thread changes the VM thread another one executes.                   *)
(***************************************************************************)
EXTENDS Gil, FiniteSetTheorems, TLAPS

\* Who can be where: the holder of the GIL is live and in no bracket, whoever is
\* in a bracket is live, and a live thread that does not hold the GIL is in one.
Places ==
  /\ gil # NoThread => life[gil] = "live" /\ saved[gil] = NoVm
  /\ \A t \in Threads : saved[t] # NoVm => life[t] = "live"
  /\ \A t \in Threads : life[t] = "live" /\ gil # t => saved[t] # NoVm
  /\ \A t \in spawning : saved[t] # NoVm

\* Until TLS is switched on, the main thread is the only one there is.
OneThreadBeforeTls ==
  ~useTls => spawning = {} /\ \A t \in Threads \ {Main} : life[t] = "unborn"

BInv == TypeOK /\ Places /\ OneThreadBeforeTls /\ ParkedExactly

\* In a bracket the current VM thread is still the one that was saved.
SavedIsCurrent ==
  \A t \in Threads : saved[t] # NoVm => CurrentOf(t) = saved[t]

IInv == BInv /\ SavedIsCurrent

LEMMA CurrentType ==
  ASSUME TypeOK, NEW t \in Threads
  PROVE  CurrentOf(t) \in VmThreads
BY DEF TypeOK, CurrentOf

LEMMA InitBInv == Init => BInv
<1> SUFFICES ASSUME Init PROVE BInv
  OBVIOUS
<1> USE GilAssumption
<1>1. TypeOK
  BY DEF Init, TypeOK, Lives
<1>2. Places /\ OneThreadBeforeTls
  BY DEF Init, Places, OneThreadBeforeTls
<1>3. ParkedExactly
  <2>1. \A v \in VmThreads : SavedIn(v) = {}
    BY DEF Init, SavedIn
  <2>2. QED
    BY <2>1, FS_EmptySet DEF Init, ParkedExactly
<1>4. QED
  BY <1>1, <1>2, <1>3 DEF BInv

----------------------------------------------------------------------------
(* Parking and unparking keep the list exact, whatever else the step does. *)

LEMMA SavedInFinite == \A v : IsFiniteSet(SavedIn(v))
<1>1. \A v : SavedIn(v) \in SUBSET Threads
  BY DEF SavedIn
<1>2. QED
  BY <1>1, GilAssumption, FS_Subset

LEMMA ParkKeepsExact ==
  ASSUME TypeOK, ParkedExactly, NEW t \in Threads, NEW v \in VmThreads,
         saved[t] = NoVm, saved' = [saved EXCEPT ![t] = v], Park(v)
  PROVE  /\ ParkedExactly'
         /\ parkCount' \in [VmThreads -> Nat]
         /\ parked' \subseteq VmThreads
<1> SUFFICES ASSUME NEW x \in VmThreads
             PROVE  /\ parkCount'[x] = Cardinality(SavedIn(x)')
                    /\ x \in parked' <=> SavedIn(x)' # {}
  BY DEF ParkedExactly, Park, TypeOK
<1>1. CASE x = v
  <2>1. SavedIn(x)' = SavedIn(x) \cup {t} /\ t \notin SavedIn(x)
    BY <1>1, GilAssumption DEF SavedIn, TypeOK
  <2>2. Cardinality(SavedIn(x)') = Cardinality(SavedIn(x)) + 1
    BY <2>1, SavedInFinite, FS_AddElement
  <2>3. parkCount'[x] = parkCount[x] + 1
    BY <1>1 DEF Park, TypeOK
  <2>4. x \in parked'
    <3>1. CASE parkCount[v] = 0
      BY <3>1, <1>1 DEF Park
    <3>2. CASE parkCount[v] # 0
      <4>1. SavedIn(v) # {}
        BY <3>2, FS_EmptySet DEF ParkedExactly
      <4>2. QED
        BY <4>1, <3>2, <1>1 DEF Park, ParkedExactly
    <3>3. QED
      BY <3>1, <3>2
  <2>5. QED
    BY <2>1, <2>2, <2>3, <2>4 DEF ParkedExactly
<1>2. CASE x # v
  <2>1. SavedIn(x)' = SavedIn(x)
    BY <1>2, GilAssumption DEF SavedIn, TypeOK
  <2>2. parkCount'[x] = parkCount[x] /\ (x \in parked' <=> x \in parked)
    BY <1>2 DEF Park, TypeOK
  <2>3. QED
    BY <2>1, <2>2 DEF ParkedExactly
<1>3. QED
  BY <1>1, <1>2

LEMMA UnparkKeepsExact ==
  ASSUME TypeOK, ParkedExactly, NEW t \in Threads, saved[t] # NoVm,
         saved' = [saved EXCEPT ![t] = NoVm], Unpark(saved[t])
  PROVE  /\ ParkedExactly'
         /\ parkCount' \in [VmThreads -> Nat]
         /\ parked' \subseteq VmThreads
<1> DEFINE v == saved[t]
<1>1. v \in VmThreads
  BY DEF TypeOK
<1>2. t \in SavedIn(v)
  BY DEF SavedIn
<1>3. parkCount[v] # 0
  BY <1>1, <1>2, SavedInFinite, FS_EmptySet DEF ParkedExactly
<1>4. /\ parkCount' = [parkCount EXCEPT ![v] = @ - 1]
      /\ parked' = IF parkCount[v] = 1 THEN parked \ {v} ELSE parked
  BY <1>3 DEF Unpark
<1>5. /\ parkCount' \in [VmThreads -> Nat]
      /\ parked' \subseteq VmThreads
  BY <1>1, <1>3, <1>4 DEF TypeOK
<1>6. ASSUME NEW x \in VmThreads
      PROVE  /\ parkCount'[x] = Cardinality(SavedIn(x)')
             /\ x \in parked' <=> SavedIn(x)' # {}
  <2>1. CASE x = v
    <3>1. SavedIn(x)' = SavedIn(x) \ {t}
      BY <2>1, GilAssumption DEF SavedIn, TypeOK
    <3>2. Cardinality(SavedIn(x)') = Cardinality(SavedIn(x)) - 1
      BY <2>1, <3>1, <1>2, SavedInFinite, FS_RemoveElement
    <3>3. parkCount'[x] = parkCount[x] - 1
      BY <2>1, <1>1, <1>4 DEF TypeOK
    <3>4. parkCount'[x] = Cardinality(SavedIn(x)')
      BY <3>2, <3>3 DEF ParkedExactly
    <3>5. x \in parked' <=> parkCount[x] # 1
      BY <2>1, <1>1, <1>2, <1>4 DEF ParkedExactly
    <3>6. parkCount[x] # 1 <=> SavedIn(x)' # {}
      <4>1. IsFiniteSet(SavedIn(x)')
        BY <3>1, SavedInFinite, FS_RemoveElement
      <4>2. Cardinality(SavedIn(x)') = 0 <=> SavedIn(x)' = {}
        BY <4>1, FS_EmptySet
      <4>3. QED
        BY <4>2, <3>3, <3>4, <1>3, <2>1 DEF TypeOK
    <3>7. QED
      BY <3>4, <3>5, <3>6
  <2>2. CASE x # v
    <3>1. SavedIn(x)' = SavedIn(x)
      BY <2>2, GilAssumption DEF SavedIn, TypeOK
    <3>2. parkCount'[x] = parkCount[x] /\ (x \in parked' <=> x \in parked)
      BY <2>2, <1>1, <1>4 DEF TypeOK
    <3>3. QED
      BY <3>1, <3>2 DEF ParkedExactly
  <2>3. QED
    BY <2>1, <2>2
<1>7. QED
  BY <1>5, <1>6 DEF ParkedExactly

LEMMA SameSavedKeepsExact ==
  ASSUME ParkedExactly, UNCHANGED <<saved, parkCount, parked>>
  PROVE  ParkedExactly'
BY DEF ParkedExactly, SavedIn

LEMMA SetCurrentType ==
  ASSUME TypeOK, NEW t \in Threads, NEW v \in VmThreads, SetCurrent(t, v)
  PROVE  /\ tls' \in [Threads -> VmThreads \cup {NoVm}]
         /\ vmCur' \in VmThreads
BY DEF TypeOK, SetCurrent

----------------------------------------------------------------------------
(* Every step preserves the inductive invariant. *)

LEMMA SuspendVmKeeps ==
  ASSUME BInv, NEW t \in Threads, SuspendVm(t)
  PROVE  /\ ParkedExactly'
         /\ saved' \in [Threads -> VmThreads \cup {NoVm}]
         /\ parkCount' \in [VmThreads -> Nat]
         /\ parked' \subseteq VmThreads
         /\ CurrentOf(t) # NoVm
         /\ life[t] = "live"
<1>1. gil = t /\ saved[t] = NoVm /\ life[t] = "live"
  BY GilAssumption DEF SuspendVm, InVm, BInv, Places
<1>2. CurrentOf(t) \in VmThreads
  BY CurrentType DEF BInv
<1>3. saved' = [saved EXCEPT ![t] = CurrentOf(t)] /\ Park(CurrentOf(t))
  BY DEF SuspendVm
<1>4. /\ ParkedExactly'
      /\ parkCount' \in [VmThreads -> Nat]
      /\ parked' \subseteq VmThreads
  BY <1>1, <1>2, <1>3, ParkKeepsExact DEF BInv
<1>5. QED
  BY <1>1, <1>2, <1>3, <1>4, GilAssumption DEF BInv, TypeOK

LEMMA NextBInv == BInv /\ [Next]_gilVars => BInv'
<1> SUFFICES ASSUME BInv, [Next]_gilVars PROVE BInv'
  OBVIOUS
<1> USE GilAssumption
<1>0. TypeOK /\ Places /\ OneThreadBeforeTls /\ ParkedExactly
  BY DEF BInv
<1>1. ASSUME NEW t \in Threads, Suspend(t) PROVE BInv'
  <2>1. SuspendVm(t) /\ UNCHANGED <<useTls, tls, vmCur, born, life, spawning>>
    BY <1>1 DEF Suspend
  <2>2. TypeOK' /\ ParkedExactly'
    BY <1>0, <2>1, SuspendVmKeeps DEF TypeOK, SuspendVm
  <2>3. Places'
    BY <1>0, <2>1, SuspendVmKeeps DEF Places, SuspendVm, TypeOK, InVm
  <2>4. OneThreadBeforeTls'
    BY <1>0, <2>1 DEF OneThreadBeforeTls
  <2>5. QED
    BY <2>2, <2>3, <2>4 DEF BInv
<1>2. ASSUME NEW t \in Threads, BeginSpawn(t) PROVE BInv'
  <2>1. /\ EnableTls(t) /\ SuspendVm(t)
        /\ spawning' = spawning \cup {t}
        /\ UNCHANGED <<vmCur, born, life>>
    BY <1>2 DEF BeginSpawn, SuspendToSpawn
  <2>2. useTls' = TRUE /\ tls' \in [Threads -> VmThreads \cup {NoVm}]
    BY <1>0, <2>1 DEF EnableTls, TypeOK
  <2>3. TypeOK' /\ ParkedExactly'
    BY <1>0, <2>1, <2>2, SuspendVmKeeps DEF TypeOK, SuspendVm
  <2>4. Places'
    BY <1>0, <2>1, SuspendVmKeeps DEF Places, SuspendVm, TypeOK, InVm
  <2>5. OneThreadBeforeTls'
    BY <2>2 DEF OneThreadBeforeTls
  <2>6. QED
    BY <2>3, <2>4, <2>5 DEF BInv
<1>3. ASSUME NEW t \in Threads, Resume(t) PROVE BInv'
  <2>1. /\ ResumeVm(t) /\ UNCHANGED <<useTls, born, life, spawning>>
        /\ saved[t] \in VmThreads
    BY <1>0, <1>3 DEF Resume, ResumeVm, Blocked, TypeOK
  <2>2. /\ ParkedExactly'
        /\ parkCount' \in [VmThreads -> Nat]
        /\ parked' \subseteq VmThreads
    BY <1>0, <2>1, UnparkKeepsExact DEF ResumeVm, Blocked
  <2>3. TypeOK'
    BY <1>0, <2>1, <2>2, SetCurrentType DEF TypeOK, ResumeVm
  <2>4. Places'
    BY <1>0, <2>1 DEF Places, ResumeVm, Blocked, TypeOK
  <2>5. OneThreadBeforeTls'
    BY <1>0, <2>1 DEF OneThreadBeforeTls
  <2>6. QED
    BY <2>2, <2>3, <2>4, <2>5 DEF BInv
<1>4. ASSUME NEW t \in Threads, NEW u \in Threads, Create(t, u) PROVE BInv'
  <2>1. /\ t \in spawning /\ spawning' = spawning \ {t}
        /\ life' = life \/ (life[u] = "unborn" /\ life' = [life EXCEPT ![u] = "created"])
        /\ UNCHANGED <<gil, useTls, tls, vmCur, born, saved, parkCount, parked>>
    BY <1>4 DEF Create, CreateOsThread
  <2>2. TypeOK'
    BY <1>0, <2>1 DEF TypeOK, Lives
  <2>3. ParkedExactly'
    BY <1>0, <2>1, SameSavedKeepsExact
  <2>4. Places'
    BY <1>0, <2>1 DEF Places, TypeOK
  <2>5. OneThreadBeforeTls'
    BY <1>0, <2>1 DEF OneThreadBeforeTls
  <2>6. QED
    BY <2>2, <2>3, <2>4, <2>5 DEF BInv
<1>5. ASSUME NEW t \in Threads, NEW v \in VmThreads, Enter(t, v) PROVE BInv'
  <2>1. /\ life[t] = "created" /\ gil = NoThread /\ gil' = t
        /\ born' = born \cup {v}
        /\ life' = [life EXCEPT ![t] = "live"]
        /\ SetCurrent(t, v)
        /\ UNCHANGED <<useTls, saved, parkCount, parked, spawning>>
    BY <1>5 DEF Enter, EnterRunner
  <2>2. TypeOK'
    BY <1>0, <2>1, SetCurrentType DEF TypeOK, Lives
  <2>3. ParkedExactly'
    BY <1>0, <2>1, SameSavedKeepsExact
  <2>4. Places'
    BY <1>0, <2>1 DEF Places, TypeOK
  <2>5. OneThreadBeforeTls'
    BY <1>0, <2>1 DEF OneThreadBeforeTls, TypeOK
  <2>6. QED
    BY <2>2, <2>3, <2>4, <2>5 DEF BInv
<1>6. ASSUME NEW t \in Threads, NEW v \in VmThreads, NewVmThread(t, v) PROVE BInv'
  <2>1. /\ born' = born \cup {v}
        /\ UNCHANGED <<gil, useTls, tls, vmCur, saved, parkCount, parked, life, spawning>>
    BY <1>6 DEF NewVmThread
  <2>2. TypeOK'
    BY <1>0, <2>1 DEF TypeOK
  <2>3. QED
    BY <1>0, <2>1, <2>2, SameSavedKeepsExact DEF BInv, Places, OneThreadBeforeTls
<1>7. ASSUME NEW t \in Threads, NEW v \in VmThreads, SwitchVmThread(t, v) PROVE BInv'
  <2>1. /\ SetCurrent(t, v)
        /\ UNCHANGED <<gil, useTls, born, saved, parkCount, parked, life, spawning>>
    BY <1>7 DEF SwitchVmThread
  <2>2. TypeOK'
    BY <1>0, <2>1, SetCurrentType DEF TypeOK
  <2>3. QED
    BY <1>0, <2>1, <2>2, SameSavedKeepsExact DEF BInv, Places, OneThreadBeforeTls
<1>8. ASSUME NEW t \in Threads, NEW v \in born, Leave(t, v) PROVE BInv'
  <2>1. /\ gil = t /\ t # Main /\ gil' = NoThread
        /\ life' = [life EXCEPT ![t] = "exited"]
        /\ SetCurrent(t, v) /\ v \in VmThreads
        /\ UNCHANGED <<useTls, born, saved, parkCount, parked, spawning>>
    BY <1>0, <1>8 DEF Leave, LeaveRunner, InVm, TypeOK
  <2>2. TypeOK'
    BY <1>0, <2>1, SetCurrentType DEF TypeOK, Lives
  <2>3. ParkedExactly'
    BY <1>0, <2>1, SameSavedKeepsExact
  <2>4. Places'
    BY <1>0, <2>1 DEF Places, TypeOK
  <2>5. OneThreadBeforeTls'
    BY <1>0, <2>1 DEF OneThreadBeforeTls, Places, TypeOK
  <2>6. QED
    BY <2>2, <2>3, <2>4, <2>5 DEF BInv
<1>9. CASE UNCHANGED gilVars
  <2>1. TypeOK' /\ Places' /\ OneThreadBeforeTls'
    BY <1>0, <1>9 DEF TypeOK, Places, OneThreadBeforeTls, gilVars
  <2>2. QED
    BY <1>0, <1>9, <2>1, SameSavedKeepsExact DEF BInv, gilVars
<1>10. QED
  BY <1>1, <1>2, <1>3, <1>4, <1>5, <1>6, <1>7, <1>8, <1>9 DEF Next

----------------------------------------------------------------------------
(* What an OS thread executes changes only while it holds the GIL. *)

OthersKeepCurrent ==
  \A t \in Threads :
    /\ life[t] = "live" /\ life'[t] = "live"
    /\ gil # t \/ gil' # t
    => CurrentOf(t)' = CurrentOf(t)

LEMMA NextKeepsCurrent ==
  ASSUME IInv, Next
  PROVE  OthersKeepCurrent
<1> SUFFICES ASSUME NEW s \in Threads,
                    life[s] = "live", life'[s] = "live", gil # s \/ gil' # s
             PROVE  CurrentOf(s)' = CurrentOf(s)
  BY DEF OthersKeepCurrent
<1>0. TypeOK /\ Places /\ OneThreadBeforeTls /\ SavedIsCurrent
  BY DEF IInv, BInv
<1>1. ~useTls => s = Main
  BY <1>0 DEF OneThreadBeforeTls
<1>2. ASSUME NEW t \in Threads, NEW v \in VmThreads, SetCurrent(t, v),
             useTls' = useTls, s # t, useTls
      PROVE  CurrentOf(s)' = CurrentOf(s)
  BY <1>0, <1>2, GilAssumption DEF SetCurrent, CurrentOf, TypeOK
<1>3. ASSUME NEW t \in Threads, Suspend(t) PROVE CurrentOf(s)' = CurrentOf(s)
  BY <1>3 DEF Suspend, CurrentOf
<1>4. ASSUME NEW t \in Threads, BeginSpawn(t) PROVE CurrentOf(s)' = CurrentOf(s)
  <2>1. t = gil /\ life[t] = "live"
    BY <1>0, <1>4, GilAssumption DEF BeginSpawn, SuspendToSpawn, SuspendVm, InVm, Places
  <2>2. ~useTls => s = t
    BY <1>1, <2>1, <1>0 DEF OneThreadBeforeTls
  <2>3. QED
    BY <2>2, <1>0, <1>4 DEF BeginSpawn, SuspendToSpawn, EnableTls, CurrentOf, TypeOK
<1>5. ASSUME NEW t \in Threads, Resume(t) PROVE CurrentOf(s)' = CurrentOf(s)
  <2>1. saved[t] \in VmThreads /\ life[t] = "live" /\ SetCurrent(t, saved[t]) /\ useTls' = useTls
        /\ gil' = t /\ gil = NoThread
    BY <1>0, <1>5 DEF Resume, ResumeVm, Blocked, TypeOK, Places
  <2>2. CASE s # t
    <3>1. useTls
      BY <2>1, <2>2, <1>1, <1>0 DEF OneThreadBeforeTls
    <3>2. QED
      BY <3>1, <2>1, <2>2, <1>2
  <2>3. CASE s = t
    <3>1. CurrentOf(t)' = saved[t]
      BY <2>1, <1>0, GilAssumption DEF SetCurrent, CurrentOf, TypeOK
    <3>2. QED
      BY <3>1, <2>1, <2>3, <1>0, GilAssumption DEF SavedIsCurrent, TypeOK
  <2>4. QED
    BY <2>2, <2>3
<1>6. ASSUME NEW t \in Threads, NEW u \in Threads, Create(t, u)
      PROVE  CurrentOf(s)' = CurrentOf(s)
  BY <1>6 DEF Create, CurrentOf
<1>7. ASSUME NEW t \in Threads, NEW v \in VmThreads, Enter(t, v)
      PROVE  CurrentOf(s)' = CurrentOf(s)
  <2>1. s # t /\ useTls' = useTls /\ SetCurrent(t, v) /\ life[t] = "created"
    BY <1>7 DEF Enter, EnterRunner
  <2>2. t # Main => useTls
    BY <2>1, <1>0 DEF OneThreadBeforeTls
  <2>3. QED
    BY <2>1, <2>2, <1>1, <1>2
<1>8. ASSUME NEW t \in Threads, NEW v \in VmThreads, NewVmThread(t, v)
      PROVE  CurrentOf(s)' = CurrentOf(s)
  BY <1>8 DEF NewVmThread, CurrentOf
<1>9. ASSUME NEW t \in Threads, NEW v \in VmThreads, SwitchVmThread(t, v)
      PROVE  CurrentOf(s)' = CurrentOf(s)
  <2>1. gil = t /\ gil' = t /\ SetCurrent(t, v) /\ useTls' = useTls /\ s # t
    BY <1>9 DEF SwitchVmThread, InVm
  <2>2. life[t] = "live"
    BY <2>1, <1>0, GilAssumption DEF Places
  <2>3. useTls
    BY <2>1, <2>2, <1>1, <1>0 DEF OneThreadBeforeTls
  <2>4. QED
    BY <2>1, <2>3, <1>2
<1>10. ASSUME NEW t \in Threads, NEW v \in born, Leave(t, v)
       PROVE  CurrentOf(s)' = CurrentOf(s)
  <2>1. /\ t # Main /\ life[t] = "live" /\ life' = [life EXCEPT ![t] = "exited"]
        /\ SetCurrent(t, v) /\ useTls' = useTls /\ v \in VmThreads
    BY <1>0, <1>10, GilAssumption DEF Leave, LeaveRunner, InVm, Places, TypeOK
  <2>2. s # t /\ useTls
    BY <2>1, <1>0 DEF OneThreadBeforeTls, TypeOK
  <2>3. QED
    BY <2>1, <2>2, <1>2
<1>11. QED
  BY <1>3, <1>4, <1>5, <1>6, <1>7, <1>8, <1>9, <1>10 DEF Next

LEMMA NextSavedIsCurrent ==
  ASSUME IInv, Next, BInv'
  PROVE  SavedIsCurrent'
<1> SUFFICES ASSUME NEW s \in Threads, saved'[s] # NoVm
             PROVE  CurrentOf(s)' = saved'[s]
  BY DEF SavedIsCurrent
<1>0. TypeOK /\ Places /\ SavedIsCurrent
  BY DEF IInv, BInv
<1>1. life'[s] = "live" /\ gil' # s
  BY GilAssumption DEF BInv, Places
<1>2. CASE saved'[s] = saved[s]
  <2>1. life[s] = "live" /\ CurrentOf(s) = saved[s]
    BY <1>0, <1>2 DEF Places, SavedIsCurrent
  <2>2. QED
    BY <1>1, <1>2, <2>1, NextKeepsCurrent DEF OthersKeepCurrent
<1>3. CASE saved'[s] # saved[s]
  <2>1. SuspendVm(s) /\ life' = life
    BY <1>0, <1>3, GilAssumption
       DEF Next, Suspend, BeginSpawn, SuspendToSpawn, SuspendVm, Create, Resume, ResumeVm,
           Enter, NewVmThread, SwitchVmThread, Leave, TypeOK
  <2>2. saved'[s] = CurrentOf(s)
    BY <1>0, <2>1 DEF SuspendVm, TypeOK
  <2>3. QED
    BY <1>1, <2>1, <2>2, NextKeepsCurrent DEF OthersKeepCurrent
<1>4. QED
  BY <1>2, <1>3

LEMMA InitIInv == Init => IInv
BY InitBInv DEF IInv, SavedIsCurrent, Init

LEMMA NextIInv == IInv /\ [Next]_gilVars => IInv'
<1> SUFFICES ASSUME IInv, [Next]_gilVars PROVE IInv'
  OBVIOUS
<1>1. BInv'
  BY NextBInv DEF IInv
<1>2. CASE Next
  BY <1>1, <1>2, NextSavedIsCurrent DEF IInv
<1>3. CASE UNCHANGED gilVars
  BY <1>1, <1>3 DEF IInv, SavedIsCurrent, CurrentOf, gilVars
<1>4. QED
  BY <1>2, <1>3

----------------------------------------------------------------------------
(* The theorems. *)

LEMMA Invariance == Spec => []IInv
BY InitIInv, NextIInv, PTL DEF Spec

\* Type correctness: vm->current_thread is never NULL, no park count is negative.
THEOREM TypeCorrect == Spec => []TypeOK
<1>1. IInv => TypeOK
  BY DEF IInv, BInv
<1>2. QED
  BY <1>1, Invariance, PTL

\* park_vm_thread and unpark_vm_thread keep vm->gc_parked_threads exact.
THEOREM ParkListExact == Spec => []ParkedExactly
<1>1. IInv => ParkedExactly
  BY DEF IInv, BInv
<1>2. QED
  BY <1>1, Invariance, PTL

LEMMA InvMarksStacks == IInv => LiveStacksMarked
<1> SUFFICES ASSUME IInv, gil # NoThread, NEW t \in Threads, life[t] = "live", t # gil
             PROVE  saved[t] \in parked
  BY DEF LiveStacksMarked, MarkedStacks
<1>1. saved[t] \in VmThreads
  BY DEF IInv, BInv, Places, TypeOK
<1>2. t \in SavedIn(saved[t])
  BY DEF SavedIn
<1>3. QED
  BY <1>1, <1>2 DEF IInv, BInv, ParkedExactly

\* mark_roots reaches the stack of every live OS thread.
THEOREM RootsCoverLiveStacks == Spec => []LiveStacksMarked
BY InvMarksStacks, Invariance, PTL

\* No OS thread changes the VM thread another live OS thread executes.
THEOREM NoClobbering == Spec => CurrentNotClobbered
<1>1. IInv /\ [Next]_gilVars => [OthersKeepCurrent]_gilVars
  BY NextKeepsCurrent
<1>2. QED
  BY <1>1, Invariance, PTL DEF Spec, CurrentNotClobbered, OthersKeepCurrent
============================================================================
