------------------------- MODULE ConditionsLocksProofs -------------------------
(***************************************************************************)
(* Proofs about ConditionsLocks, for any threads, conditions and times.    *)
(***************************************************************************)
EXTENDS ConditionsLocks, TLAPS

Inside(t) ==
  pc[t] \in {"select", "load", "register", "emplace", "insert", "compute", "derive", "refs"}
Busy(t) == Inside(t) \/ pc[t] = "clean"

\* A thread inside the user pool holds the lock of its call.
Holds(t) ==
  /\ Inside(t) => call[t] \in {"prepare", "load", "compute"} /\ owner[call[t]] = t
  /\ pc[t] \in {"updates", "pop", "push", "pushing"} => call[t] \in {"prepare", "load"}
  /\ pc[t] = "lock" => call[t] # "clean"
  /\ pc[t] = "clean" => call[t] \in {"clean", "clean_aged"} \/ AutoClean
LocksHeld == \A t \in Thread : Holds(t)

\* Calls that are made alone are alone.
AloneRespected ==
  \A t, u \in Thread :
    t # u /\ pc[t] # "idle" /\ pc[u] # "idle" => call[t] \notin Alone

LockInv == TypeOK /\ LocksHeld /\ AloneRespected

LEMMA InitType == Init => TypeOK
<1> SUFFICES ASSUME Init PROVE TypeOK
  OBVIOUS
<1>1. /\ (CHOOSE c \in Calls : TRUE) \in Calls
      /\ (CHOOSE x \in Time : TRUE) \in Time
      /\ (CHOOSE c \in Name : TRUE) \in Name
  BY CallAssumption, NameAssumption
<1>2. content \in [Key -> SUBSET Name]
  BY DEF Init
<1> QED
  BY <1>1, <1>2, ThreadAssumption DEF Init, TypeOK, Lock

\* What is emplaced keeps its type.
LEMMA EmplacedType ==
  ASSUME NEW M \in SUBSET Entry, NEW N \in SUBSET Entry
  PROVE  Emplaced(M, N) \in SUBSET Entry
BY DEF Emplaced

LEMMA TargetIsValidity ==
  ASSUME TypeOK, NEW t \in Thread
  PROVE  /\ item[t] \in Name /\ time[t] \in Time /\ Target(t) = Validity[item[t]][time[t]]
         /\ Target(t) \in Key /\ time[t] \in Target(t)
         /\ \A x \in Target(t) : Target(t) = Validity[item[t]][x]
BY ValidityAssumption DEF Target, TypeOK, Key

LEMMA TypeStep == TypeOK /\ LocksHeld /\ [Next]_vars => TypeOK'
<1> SUFFICES ASSUME TypeOK, LocksHeld, [Next]_vars PROVE TypeOK'
  OBVIOUS
<1> USE DEF TypeOK, Goto, Release, Lock
<1>1. CASE UNCHANGED vars
  BY <1>1 DEF vars, local, user, pools
<1>2. ASSUME NEW t \in Thread, Enter(t) PROVE TypeOK'
  <2> HIDE DEF Goto, TypeOK
  <2>1. PICK c \in Calls, x \in Time, l \in LoadConditions :
          /\ call' = [call EXCEPT ![t] = c]
          /\ time' = [time EXCEPT ![t] = x]
          /\ loads' = [loads EXCEPT ![t] = l]
          /\ fresh' = [fresh EXCEPT ![t] = @ /\ c = "compute"]
          /\ Goto(t, Start(c))
    BY <1>2 DEF Enter
  <2>2. \E place \in {"updates", "clean", "lock"} : Goto(t, place)
    BY <2>1 DEF Start
  <2>3. l \in BOOLEAN
    BY CallAssumption
  <2>4. call' \in [Thread -> Calls] /\ time' \in [Thread -> Time] /\ loads' \in [Thread -> BOOLEAN]
    BY <2>1, <2>3 DEF TypeOK
  <2>5. fresh' \in [Thread -> BOOLEAN]
    BY <2>1 DEF TypeOK
  <2> QED
    BY <1>2, <2>2, <2>4, <2>5 DEF Enter, pools, Goto, TypeOK
<1>3. ASSUME NEW t \in Thread, LockUpdates(t) \/ PopEntries(t) PROVE TypeOK'
  BY <1>3 DEF LockUpdates, PopEntries, local, user, pools
<1>4. ASSUME NEW t \in Thread, LockPool(t) \/ PushUpdates(t) \/ RegisterIOV(t) PROVE TypeOK'
  BY <1>4, ThreadAssumption DEF LockPool, PushUpdates, RegisterIOV, local, user, pools
<1>5. ASSUME NEW t \in Thread, AcquireLock(t) PROVE TypeOK'
  <2>1. LockOf(call[t]) \in Lock /\ LockOf(call[t]) # "pool"
    BY <1>5, CallAssumption DEF AcquireLock, LockOf, Call, LocksHeld, Holds
  <2>2. todo' \in [Thread -> SUBSET Name]
    BY <1>5 DEF AcquireLock, ToCompute, Name
  <2>3. \E place \in {"compute", "clean", "select"} : Goto(t, place)
    BY <1>5 DEF AcquireLock
  <2>4. \A u \in Thread : owner'["pool"] = u <=> pc'[u] \in {"emplace", "pushing"}
    BY <1>5, <2>1, <2>3 DEF AcquireLock
  <2> QED
    BY <1>5, <2>1, <2>2, <2>3, <2>4 DEF AcquireLock, local, user, pools
<1>6. ASSUME NEW t \in Thread, Select(t) PROVE TypeOK'
  <2>1. Selected(time[t]) \in SUBSET Entry /\ Loads(t) \subseteq SUBSET Name
    BY DEF Selected, Loads, Name, Entry
  <2> QED
    BY <1>6, <2>1 DEF Select, local, pools
<1>7. ASSUME NEW t \in Thread, Work(t) \/ Compute(t) \/ DeriveDone(t) PROVE TypeOK'
  BY <1>7 DEF Work, Compute, DeriveDone, local, user, pools
<1> HIDE DEF Goto, Release
<1>8. ASSUME NEW t \in Thread, Emplace(t) PROVE TypeOK'
  BY <1>8, TargetIsValidity, ThreadAssumption DEF Emplace, local, user, Goto, Release
<1>9. ASSUME NEW t \in Thread, Insert(t) PROVE TypeOK'
  <2> DEFINE accepted == item[t] \notin content[Target(t)]
             entry == <<item[t], Target(t), accepted>>
  <2>1. Target(t) \in Key /\ item[t] \in Name /\ {entry} \in SUBSET Entry
    <3>1. accepted \in BOOLEAN
      OBVIOUS
    <3>2. Target(t) \in Key /\ item[t] \in Name
      BY TargetIsValidity
    <3> HIDE DEF accepted
    <3> QED
      BY <3>1, <3>2 DEF Entry
  <2>2. content' \in [Key -> SUBSET Name]
    BY <1>9, <2>1 DEF Insert
  <2>3. mapped' \in [Thread -> SUBSET Entry] /\ loaded' \in [Thread -> SUBSET Entry]
    <3>1. Emplaced(mapped[t], {entry}) \in SUBSET Entry
      BY <2>1, EmplacedType
    <3>2. \/ loaded' = [loaded EXCEPT ![t] = @ \cup {entry}] /\ mapped' = mapped
          \/ mapped' = [mapped EXCEPT ![t] = Emplaced(@, {entry})] /\ loaded' = loaded
      BY <1>9 DEF Insert
    <3> HIDE DEF entry
    <3> QED
      BY <2>1, <3>1, <3>2
  <2>4. \E place \in {"load", "derive"} : Goto(t, place)
    BY <1>9 DEF Insert
  <2>5. /\ todo' = [todo EXCEPT ![t] = @ \ {item[t]}] /\ pc[t] = "insert"
        /\ UNCHANGED <<local, item, fresh, owner, elements>>
    BY <1>9 DEF Insert
  <2> QED
    BY <2>2, <2>3, <2>4, <2>5 DEF local, Goto
<1>10. ASSUME NEW t \in Thread, LoadDone(t) PROVE TypeOK'
  <2>1. call[t] \in {"prepare", "load", "compute"}
    BY <1>10 DEF LoadDone, LocksHeld, Holds, Inside
  <2>2. mapped' \in [Thread -> SUBSET Entry] /\ loaded' \in [Thread -> SUBSET Entry]
    <3>1. Emplaced(mapped[t], loaded[t]) \in SUBSET Entry
      BY EmplacedType
    <3> QED
      BY <1>10, <3>1 DEF LoadDone
  <2>3. todo' \in [Thread -> SUBSET Name]
    BY <1>10 DEF LoadDone, ToCompute, Name
  <2>4. owner' \in [Lock -> Thread \cup {None}] /\ owner'["pool"] = owner["pool"]
    BY <1>10 DEF LoadDone, Release
  <2>5. \E place \in {"idle", "compute"} : Goto(t, place)
    BY <1>10 DEF LoadDone
  <2> QED
    BY <1>10, <2>2, <2>3, <2>4, <2>5 DEF LoadDone, local, pools, Goto
<1>11. ASSUME NEW t \in Thread, SelectRefs(t) \/ Fail(t) PROVE TypeOK'
  <2>1. call[t] \in {"prepare", "load", "compute"}
    BY <1>11 DEF SelectRefs, Fail, LocksHeld, Holds, Inside
  <2>2. CASE SelectRefs(t)
    BY <2>1, <2>2 DEF SelectRefs, local, user, pools, Goto, Release
  <2>3. CASE Fail(t)
    BY <2>1, <2>3 DEF Fail, local, pools, Goto, Release
  <2> QED
    BY <1>11, <2>2, <2>3
<1>12. ASSUME NEW t \in Thread, Clean(t) PROVE TypeOK'
  <2>1. content' \in [Key -> SUBSET Name] /\ elements' \subseteq Key
    <3>1. PICK gone \in SUBSET elements :
            /\ elements' = elements \ gone
            /\ content' = [k \in Key |-> IF k \in gone THEN {} ELSE content[k]]
      BY <1>12 DEF Clean
    <3> QED
      BY <3>1
  <2> QED
    BY <1>12, <2>1 DEF Clean, local, Goto, Release
<1> QED
  BY <1>1, <1>2, <1>3, <1>4, <1>5, <1>6, <1>7, <1>8, <1>9, <1>10, <1>11, <1>12 DEF Next, Step

LEMMA LocksStep == TypeOK /\ LocksHeld /\ [Next]_vars => LocksHeld'
<1> SUFFICES ASSUME TypeOK, LocksHeld, [Next]_vars, NEW u \in Thread PROVE Holds(u)'
  BY DEF LocksHeld
<1>0. Holds(u)
  BY DEF LocksHeld
<1> USE DEF TypeOK, Holds, Inside
<1>1. CASE UNCHANGED vars
  BY <1>0, <1>1 DEF vars, local
<1>2. ASSUME NEW t \in Thread, Enter(t) PROVE Holds(u)'
  <2>1. PICK c \in Calls :
          /\ call' = [call EXCEPT ![t] = c]
          /\ pc' = [pc EXCEPT ![t] = Start(c)]
          /\ owner' = owner
    BY <1>2 DEF Enter, Goto
  <2> QED
    BY <1>0, <2>1, CallAssumption DEF Call, Start
<1>3. ASSUME NEW t \in Thread, AcquireLock(t) PROVE Holds(u)'
  <2>1. LockOf(call[t]) \in Lock
    BY <1>3, CallAssumption DEF AcquireLock, LockOf, Call, Lock, LocksHeld
  <2>2. CASE u = t
    BY <1>3, <2>1, <2>2, CallAssumption DEF AcquireLock, LockOf, Call, LocksHeld, Goto, local
  <2>3. CASE u # t
    BY <1>0, <1>3, <2>1, <2>3, ThreadAssumption DEF AcquireLock, Goto, local, Lock
  <2> QED
    BY <2>2, <2>3
<1>4. ASSUME NEW t \in Thread, Select(t) \/ Work(t) \/ Compute(t) \/ DeriveDone(t)
      PROVE  Holds(u)'
  BY <1>0, <1>4 DEF Select, Work, Compute, DeriveDone, Goto, local
<1>5. ASSUME NEW t \in Thread, Insert(t) PROVE Holds(u)'
  BY <1>0, <1>5 DEF Insert, Goto, local
<1>6. ASSUME NEW t \in Thread, RegisterIOV(t) \/ Emplace(t) PROVE Holds(u)'
  BY <1>0, <1>6 DEF RegisterIOV, Emplace, Goto, Release, local, Lock
<1>7. ASSUME NEW t \in Thread,
             LockUpdates(t) \/ PopEntries(t) \/ LockPool(t) \/ PushUpdates(t)
      PROVE  Holds(u)'
  <2>1. CASE LockUpdates(t) \/ PopEntries(t) \/ LockPool(t)
    BY <1>0, <2>1 DEF LockUpdates, PopEntries, LockPool, Goto, Release, local, Lock
  <2>2. CASE PushUpdates(t)
    <3>1. call[t] \in {"prepare", "load"}
      BY <2>2 DEF PushUpdates, LocksHeld
    <3> QED
      BY <1>0, <2>2, <3>1 DEF PushUpdates, Goto, Release, local, Lock
  <2> QED
    BY <1>7, <2>1, <2>2
<1>8. ASSUME NEW t \in Thread, LoadDone(t) \/ SelectRefs(t) \/ Fail(t) PROVE Holds(u)'
  <2>1. call[t] \in {"prepare", "load", "compute"} /\ owner[call[t]] = t
    BY <1>8 DEF LoadDone, SelectRefs, Fail, LocksHeld
  <2>2. CASE LoadDone(t)
    BY <1>0, <2>1, <2>2 DEF LoadDone, local, Goto, Release, Lock
  <2>3. CASE SelectRefs(t)
    BY <1>0, <2>1, <2>3 DEF SelectRefs, local, Goto, Release, Lock
  <2>4. CASE Fail(t)
    BY <1>0, <2>1, <2>4 DEF Fail, local, Goto, Release, Lock
  <2> QED
    BY <1>8, <2>2, <2>3, <2>4
<1>9. ASSUME NEW t \in Thread, Clean(t) PROVE Holds(u)'
  BY <1>0, <1>9 DEF Clean, Goto, Release, local, Lock
<1> QED
  BY <1>1, <1>2, <1>3, <1>4, <1>5, <1>6, <1>7, <1>8, <1>9 DEF Next, Step

LEMMA AloneStep == TypeOK /\ AloneRespected /\ [Next]_vars => AloneRespected'
<1> SUFFICES ASSUME TypeOK, AloneRespected, [Next]_vars,
                    NEW t \in Thread, NEW u \in Thread,
                    t # u, pc'[t] # "idle", pc'[u] # "idle"
             PROVE  call'[t] \notin Alone
  BY DEF AloneRespected
<1> USE DEF TypeOK, AloneRespected
<1>1. CASE UNCHANGED vars
  BY <1>1 DEF vars, local
<1>2. ASSUME NEW v \in Thread, Enter(v) PROVE call'[t] \notin Alone
  BY <1>2 DEF Enter, Admitted, Goto
<1>3. ASSUME NEW v \in Thread, Step(v) PROVE call'[t] \notin Alone
  <2>1. call' = call /\ pc[v] # "idle"
    BY <1>3 DEF Step, LockUpdates, PopEntries, LockPool, PushUpdates, AcquireLock, Select,
                Work, RegisterIOV, Emplace, Insert, LoadDone, Compute, DeriveDone,
                SelectRefs, Fail, Clean, local
  <2>2. \A w \in Thread : w # v => pc'[w] = pc[w]
    BY <1>3 DEF Step, LockUpdates, PopEntries, LockPool, PushUpdates, AcquireLock, Select,
                Work, RegisterIOV, Emplace, Insert, LoadDone, Compute, DeriveDone,
                SelectRefs, Fail, Clean, Goto
  <2> QED
    BY <2>1, <2>2
<1> QED
  BY <1>1, <1>2, <1>3 DEF Next

LEMMA LockInvariant == Spec => []LockInv
<1>1. Init => LockInv
  BY InitType DEF Init, LockInv, LocksHeld, Holds, Inside, AloneRespected
<1>2. LockInv /\ [Next]_vars => LockInv'
  BY TypeStep, LocksStep, AloneStep DEF LockInv
<1> QED
  BY <1>1, <1>2, PTL DEF Spec

\* Every variable keeps its type, and m_poolLock is held exactly inside registerIOV.
THEOREM Typing == Spec => []TypeOK
BY LockInvariant, PTL DEF LockInv

-----------------------------------------------------------------------------
\* The discipline that makes the static locks of the user pool enough: everything
\* but prepare is called alone, and prepare too if it cleans.
Disciplined == Calls \ {"prepare"} \subseteq Alone /\ (AutoClean => "prepare" \in Alone)

LEMMA OneBusy ==
  ASSUME Disciplined, LockInv, NEW t \in Thread, NEW u \in Thread, Busy(t), Busy(u)
  PROVE  t = u
<1> SUFFICES ASSUME t # u PROVE FALSE
  OBVIOUS
<1>1. call[t] \notin Alone /\ call[u] \notin Alone
  BY DEF LockInv, AloneRespected, Busy, Inside
<1>2. call[t] = "prepare" /\ call[u] = "prepare" /\ ~AutoClean
  BY <1>1 DEF Disciplined, LockInv, TypeOK
<1> QED
  BY <1>2 DEF LockInv, LocksHeld, Holds, Busy

\* Under that discipline only one thread at a time works on the IOV pools, for any
\* number of threads and any order of calls, exceptions included.
THEOREM PoolsExclusive == ASSUME Disciplined PROVE Spec => []Exclusive
<1>1. LockInv => Exclusive
  BY OneBusy DEF Exclusive, Manipulates, Busy, Inside
<1> QED
  BY <1>1, LockInvariant, PTL

-----------------------------------------------------------------------------
(***************************************************************************)
(* A prepare is atomic.                                                    *)
(***************************************************************************)
\* A condition is in the pool of its own interval, and that pool is known.
Filed ==
  \A k \in Key : \A c \in content[k] : k \in elements /\ \A x \in k : k = Validity[c][x]

Working(t) == pc[t] \in {"register", "emplace", "insert"}
Loading(t) == pc[t] = "load" \/ (Working(t) /\ item[t] \in Raw)
Deriving(t) == pc[t] \in {"compute", "derive", "refs"} \/ (Working(t) /\ item[t] \in Derived)

\* While the loader works: what it registers is accepted unless it was selected, and
\* all that the store has for the time was selected or loaded.
WhileLoading(t) ==
  /\ call[t] \in {"prepare", "load"}
  /\ todo[t] \subseteq Raw
  /\ todo[t] \cap Names(loaded[t]) = {}
  /\ mapped[t] \subseteq Stored(time[t])
  /\ \A m \in loaded[t] :
       /\ m[1] \in Raw /\ m[2] = Validity[m[1]][time[t]] /\ m[1] \in content[m[2]]
       /\ m[1] \notin Names(mapped[t]) => m[3]
  /\ Names(Stored(time[t])) \subseteq Names(mapped[t]) \cup Names(loaded[t])

\* While the handler works: what is to be computed is not in the user pool, which has
\* all that the store has for the time of a prepare.
WhileDeriving(t) ==
  /\ call[t] \in {"prepare", "compute"}
  /\ todo[t] \subseteq Derived
  /\ todo[t] \cap Names(mapped[t]) = {}
  /\ call[t] = "prepare" => mapped[t] = Stored(time[t])

\* What pools have accepted is there until a cleanup.
Valid(t) == fresh[t] => \A m \in mapped[t] : m[3] => m \in Stored(time[t])

Progress(t) ==
  /\ Working(t) => item[t] \in todo[t]
  /\ pc[t] = "insert" => Target(t) \in elements
  /\ ~Loading(t) => loaded[t] = {}
  /\ Inside(t) /\ pc[t] # "select" => fresh[t]
  /\ pc[t] = "lock" /\ call[t] = "compute" => fresh[t]
  /\ pc[t] = "select" => call[t] # "compute"
  /\ Loading(t) => WhileLoading(t)
  /\ Deriving(t) => WhileDeriving(t)
  /\ Valid(t)

AtomicInv == Filed /\ \A t \in Thread : Progress(t)

LEMMA EntryParts ==
  ASSUME NEW m \in Entry
  PROVE  m = <<m[1], m[2], m[3]>> /\ m[3] \in BOOLEAN
<1>1. m \in Name \X Key \X BOOLEAN
  BY DEF Entry
<1>2. ASSUME NEW C, m \in Name \X Key \X C
      PROVE  m = <<m[1], m[2], m[3]>> /\ m[3] \in C
  BY <1>2
<1> QED
  BY <1>1, <1>2

\* A condition that its pool has accepted.
LEMMA Accepted ==
  ASSUME NEW m \in Entry, m[3]
  PROVE  m = <<m[1], m[2], TRUE>>
<1>1. m = <<m[1], m[2], m[3]>> /\ m[3] \in BOOLEAN
  BY EntryParts, Zenon
<1>2. m[3] = TRUE
  BY <1>1, Zenon
<1> QED
  BY <1>1, <1>2, Zenon

LEMMA StoredMember ==
  ASSUME NEW x \in Time, NEW m
  PROVE  m \in Stored(x) <=> /\ m[1] \in Name /\ m = <<m[1], Validity[m[1]][x], TRUE>>
                             /\ m[1] \in content[Validity[m[1]][x]]
<1> DEFINE Kept == {n \in Name : n \in content[Validity[n][x]]}
<1>1. ASSUME m \in Stored(x)
      PROVE  /\ m[1] \in Name /\ m = <<m[1], Validity[m[1]][x], TRUE>>
             /\ m[1] \in content[Validity[m[1]][x]]
  <2>1. PICK c \in Kept : m = <<c, Validity[c][x], TRUE>>
    BY <1>1 DEF Stored
  <2>2. m[1] = c
    BY <2>1
  <2> QED
    BY <2>1, <2>2
<1>2. ASSUME m[1] \in Name, m = <<m[1], Validity[m[1]][x], TRUE>>,
             m[1] \in content[Validity[m[1]][x]]
      PROVE  m \in Stored(x)
  <2> DEFINE c == m[1]
  <2>1. c \in Kept /\ m = <<c, Validity[c][x], TRUE>>
    BY <1>2
  <2> HIDE DEF c
  <2> QED
    BY <2>1 DEF Stored
<1> QED
  BY <1>1, <1>2

LEMMA StoredNames ==
  ASSUME NEW x \in Time, NEW c
  PROVE  c \in Names(Stored(x)) <=> c \in Name /\ c \in content[Validity[c][x]]
<1>1. ASSUME c \in Name, c \in content[Validity[c][x]] PROVE c \in Names(Stored(x))
  <2>1. <<c, Validity[c][x], TRUE>> \in Stored(x)
    BY <1>1 DEF Stored
  <2> QED
    BY <2>1 DEF Names
<1>2. ASSUME c \in Names(Stored(x)) PROVE c \in Name /\ c \in content[Validity[c][x]]
  BY <1>2, StoredMember DEF Names
<1> QED
  BY <1>1, <1>2

\* A selection finds exactly what is stored for its time.
LEMMA SelectedIsStored ==
  ASSUME TypeOK, Filed, NEW x \in Time
  PROVE  Selected(x) = Stored(x)
<1>1. ASSUME NEW m \in Selected(x) PROVE m \in Stored(x)
  <2>1. /\ m = <<m[1], m[2], TRUE>> /\ m[1] \in Name /\ m[2] \in elements
        /\ x \in m[2] /\ m[1] \in content[m[2]]
    <3>0. m \in Name \X elements \X {TRUE}
      BY <1>1 DEF Selected
    <3>1. ASSUME NEW C, m \in Name \X elements \X C
          PROVE  m = <<m[1], m[2], m[3]>> /\ m[1] \in Name /\ m[2] \in elements /\ m[3] \in C
      BY <3>1
    <3>2. /\ m = <<m[1], m[2], m[3]>> /\ m[1] \in Name /\ m[2] \in elements
          /\ m[3] \in {TRUE}
      BY <3>0, <3>1
    <3>3. x \in m[2] /\ m[1] \in content[m[2]]
      BY <1>1 DEF Selected
    <3>4. m[3] = TRUE
      BY <3>2
    <3>5. m = <<m[1], m[2], TRUE>>
      BY <3>2, <3>4, Zenon
    <3> QED
      BY <3>2, <3>3, <3>5
  <2>2. m[2] = Validity[m[1]][x]
    BY <2>1 DEF Filed, TypeOK
  <2> QED
    BY <2>1, <2>2, StoredMember
<1>2. ASSUME NEW m \in Stored(x) PROVE m \in Selected(x)
  <2>1. /\ m[1] \in Name /\ m = <<m[1], Validity[m[1]][x], TRUE>>
        /\ m[1] \in content[Validity[m[1]][x]]
    BY <1>2, StoredMember
  <2>2. Validity[m[1]][x] \in Key /\ x \in Validity[m[1]][x]
    BY <2>1, ValidityAssumption
  <2>3. Validity[m[1]][x] \in elements
    BY <2>1, <2>2 DEF Filed
  <2>4. m[2] = Validity[m[1]][x]
    BY <2>1
  <2> DEFINE c == m[1]
             k == m[2]
  <2>5. m = <<c, k, TRUE>> /\ c \in Name /\ k \in elements /\ x \in k /\ c \in content[k]
    BY <2>1, <2>2, <2>3, <2>4
  <2>6. m \in Name \X elements \X {TRUE}
    <3> HIDE DEF c, k
    <3> QED
      BY <2>5
  <2> QED
    BY <2>5, <2>6 DEF Selected
<1> QED
  BY <1>1, <1>2

\* Steps of a thread leave alone what another thread keeps for itself.
LEMMA LocalStep ==
  ASSUME TypeOK, NEW t \in Thread, Enter(t) \/ Step(t), NEW u \in Thread, u # t
  PROVE  /\ pc'[u] = pc[u] /\ call'[u] = call[u] /\ time'[u] = time[u] /\ item'[u] = item[u]
         /\ todo'[u] = todo[u] /\ loaded'[u] = loaded[u] /\ mapped'[u] = mapped[u]
         /\ ~Clean(t) => fresh'[u] = fresh[u]
         /\ fresh'[u] => fresh[u]
<1> USE DEF TypeOK, Goto, local, user
<1>1. CASE Enter(t)
  BY <1>1 DEF Enter
<1>2. CASE LockUpdates(t) \/ PopEntries(t) \/ LockPool(t) \/ PushUpdates(t)
  BY <1>2 DEF LockUpdates, PopEntries, LockPool, PushUpdates
<1>3. CASE AcquireLock(t) \/ Select(t) \/ Work(t) \/ RegisterIOV(t)
  BY <1>3 DEF AcquireLock, Select, Work, RegisterIOV
<1>4. CASE Emplace(t) \/ Insert(t)
  BY <1>4 DEF Emplace, Insert
<1>5. CASE LoadDone(t) \/ Compute(t) \/ DeriveDone(t)
  BY <1>5 DEF LoadDone, Compute, DeriveDone
<1>6. CASE SelectRefs(t) \/ Fail(t)
  BY <1>6 DEF SelectRefs, Fail
<1>7. CASE Clean(t)
  BY <1>7 DEF Clean
<1> QED
  BY <1>1, <1>2, <1>3, <1>4, <1>5, <1>6, <1>7 DEF Step

\* The steps that change the pools are made by a busy thread.
LEMMA PoolsStep ==
  ASSUME TypeOK, NEW t \in Thread, Enter(t) \/ Step(t)
  PROVE  UNCHANGED pools \/ (Busy(t) /\ (Emplace(t) \/ Insert(t) \/ Clean(t)))
<1>1. Emplace(t) \/ Insert(t) \/ Clean(t) => Busy(t)
  BY DEF Emplace, Insert, Clean, Busy, Inside
<1> QED
  BY <1>1 DEF Enter, Step, LockUpdates, PopEntries, LockPool, PushUpdates, AcquireLock, Select,
              Work, RegisterIOV, LoadDone, Compute, DeriveDone, SelectRefs, Fail

LEMMA CleanPools ==
  ASSUME TypeOK, NEW t \in Thread, Clean(t), NEW k \in Key, NEW c, c \in content'[k]
  PROVE  c \in content[k] /\ (k \in elements => k \in elements')
<1>1. PICK gone \in SUBSET elements :
        /\ elements' = elements \ gone
        /\ content' = [i \in Key |-> IF i \in gone THEN {} ELSE content[i]]
  BY DEF Clean
<1> QED
  BY <1>1

LEMMA InsertPools ==
  ASSUME TypeOK, NEW t \in Thread, Insert(t)
  PROVE  /\ elements' = elements
         /\ \A k \in Key : \A c :
              c \in content'[k] <=> c \in content[k] \/ (k = Target(t) /\ c = item[t])
<1>1. Target(t) \in Key
  BY TargetIsValidity
<1> QED
  BY <1>1 DEF Insert, TypeOK

\* What is stored stays until a cleanup.
LEMMA StoredGrows ==
  ASSUME TypeOK, NEW t \in Thread, Enter(t) \/ Step(t), ~Clean(t),
         NEW x \in Time, NEW m \in Stored(x)
  PROVE  m \in Stored(x)'
<1> DEFINE c == m[1]
           Kept == {n \in Name : n \in content'[Validity[n][x]]}
<1>1. c \in Name /\ m = <<c, Validity[c][x], TRUE>> /\ c \in content[Validity[c][x]]
  BY StoredMember
<1>2. Validity[c][x] \in Key
  BY <1>1, ValidityAssumption
<1> HIDE DEF c
<1>3. c \in content'[Validity[c][x]]
  <2>1. CASE UNCHANGED pools
    BY <1>1, <2>1 DEF pools
  <2>2. CASE Emplace(t)
    BY <1>1, <2>2 DEF Emplace
  <2>3. CASE Insert(t)
    BY <1>1, <1>2, <2>3, InsertPools
  <2> QED
    BY <2>1, <2>2, <2>3, PoolsStep
<1>4. c \in Kept /\ m = <<c, Validity[c][x], TRUE>>
  BY <1>1, <1>3
<1> QED
  BY <1>4 DEF Stored

LEMMA StoredStays ==
  ASSUME TypeOK, NEW t \in Thread, Enter(t) \/ Step(t), ~Clean(t),
         NEW u \in Thread, time'[u] = time[u], NEW m \in Stored(time[u])
  PROVE  (m \in Stored(time[u]))'
<1> DEFINE x == time[u]
<1>1. x \in Time /\ m \in Stored(x) /\ time'[u] = x
  BY DEF TypeOK
<1> HIDE DEF x
<1>2. m \in {<<c, Validity[c][x], TRUE>> : c \in {n \in Name : n \in content'[Validity[n][x]]}}
  BY <1>1, StoredGrows DEF Stored
<1> QED
  BY <1>1, <1>2 DEF Stored

LEMMA FiledStep ==
  ASSUME TypeOK, Filed, \A t \in Thread : Progress(t), [Next]_vars
  PROVE  Filed'
<1> SUFFICES ASSUME NEW k \in Key, NEW c \in content'[k]
             PROVE  k \in elements' /\ \A x \in k : k = Validity[c][x]
  BY DEF Filed
<1>1. CASE UNCHANGED vars
  BY <1>1 DEF vars, pools, Filed
<1>2. ASSUME NEW t \in Thread, Enter(t) \/ Step(t)
      PROVE  k \in elements' /\ \A x \in k : k = Validity[c][x]
  <2>1. CASE UNCHANGED pools
    BY <2>1 DEF pools, Filed
  <2>2. CASE Emplace(t)
    BY <2>2 DEF Emplace, Filed
  <2>3. CASE Insert(t)
    <3>1. CASE c = item[t] /\ k = Target(t)
      BY <2>3, <3>1, InsertPools, TargetIsValidity DEF Progress, Insert
    <3>2. CASE ~(c = item[t] /\ k = Target(t))
      BY <2>3, <3>2, InsertPools DEF Filed
    <3> QED
      BY <3>1, <3>2
  <2>4. CASE Clean(t)
    BY <2>4, CleanPools DEF Filed
  <2> QED
    BY <1>2, <2>1, <2>2, <2>3, <2>4, PoolsStep
<1> QED
  BY <1>1, <1>2 DEF Next

LEMMA ValidStep ==
  ASSUME TypeOK, NEW u \in Thread, Valid(u), NEW t \in Thread, t # u, Enter(t) \/ Step(t)
  PROVE  Valid(u)'
<1> SUFFICES ASSUME fresh'[u], NEW m \in mapped'[u], m[3] PROVE (m \in Stored(time[u]))'
  BY DEF Valid
<1>1. fresh[u] /\ mapped'[u] = mapped[u] /\ time'[u] = time[u] /\ time[u] \in Time
  BY LocalStep DEF TypeOK
<1>2. ~Clean(t)
  BY DEF Clean
<1>3. m \in Stored(time[u])
  BY <1>1 DEF Valid
<1> QED
  BY <1>1, <1>2, <1>3, StoredStays

\* A step of another thread: it leaves the pools alone while this one is busy.
LEMMA ProgressOther ==
  ASSUME Disciplined, LockInv, NEW u \in Thread, Progress(u),
         NEW t \in Thread, t # u, Enter(t) \/ Step(t)
  PROVE  Progress(u)'
<1>0. TypeOK
  BY DEF LockInv
<1>1. /\ pc'[u] = pc[u] /\ call'[u] = call[u] /\ time'[u] = time[u] /\ item'[u] = item[u]
      /\ todo'[u] = todo[u] /\ loaded'[u] = loaded[u] /\ mapped'[u] = mapped[u]
      /\ ~Clean(t) => fresh'[u] = fresh[u]
  BY <1>0, LocalStep
<1>2. Valid(u)'
  BY <1>0, ValidStep DEF Progress
<1>3. pc[u] = "lock" /\ call[u] = "compute" => fresh'[u]
  <2> SUFFICES ASSUME pc[u] = "lock", call[u] = "compute", Clean(t) PROVE FALSE
    BY <1>1 DEF Progress
  <2>1. call[u] \in Alone
    BY <1>0 DEF Disciplined, TypeOK
  <2> QED
    BY <2>1 DEF LockInv, AloneRespected, Clean
<1>4. CASE Busy(u)
  <2>1. ~Busy(t)
    BY <1>4, OneBusy
  <2>2. UNCHANGED pools /\ ~Clean(t)
    BY <1>0, <2>1, PoolsStep DEF Clean, Busy
  <2>3. fresh'[u] = fresh[u] /\ elements' = elements /\ content' = content
    BY <1>1, <2>2 DEF pools
  <2>4. (Stored(time[u]) = Stored(time[u])') /\ (Target(u) = Target(u)')
    BY <1>1, <2>3 DEF Stored, Target
  <2>5. WhileLoading(u) => WhileLoading(u)'
    BY <1>1, <2>3, <2>4 DEF WhileLoading
  <2>6. WhileDeriving(u) => WhileDeriving(u)'
    BY <1>1, <2>4 DEF WhileDeriving
  <2> QED
    BY <1>1, <1>2, <1>3, <2>3, <2>4, <2>5, <2>6
       DEF Progress, Working, Loading, Deriving, Inside
<1>5. CASE ~Busy(u)
  BY <1>1, <1>2, <1>3, <1>5 DEF Progress, Working, Loading, Deriving, Busy, Inside
<1> QED
  BY <1>4, <1>5

\* Steps of the thread itself.
LEMMA EnterProgress ==
  ASSUME TypeOK, NEW t \in Thread, Progress(t), Enter(t)
  PROVE  Progress(t)'
<1>1. PICK c \in Calls, x \in Time :
        /\ c = "compute" => x = time[t] /\ fresh[t]
        /\ call' = [call EXCEPT ![t] = c]
        /\ time' = [time EXCEPT ![t] = x]
        /\ fresh' = [fresh EXCEPT ![t] = @ /\ c = "compute"]
        /\ Goto(t, Start(c))
  BY DEF Enter
<1>2. call'[t] = c /\ time'[t] = x /\ (fresh'[t] <=> fresh[t] /\ c = "compute")
  BY <1>1 DEF TypeOK
<1>3. pc[t] = "idle" /\ pc'[t] \in {"updates", "clean", "lock"}
  BY <1>1 DEF Enter, TypeOK, Goto, Start
<1>4. loaded' = loaded /\ mapped' = mapped /\ content' = content
  BY DEF Enter, pools
<1>5. loaded'[t] = {}
  BY <1>3, <1>4 DEF Progress, Loading, Working
<1>6. Valid(t)'
  BY <1>1, <1>2, <1>4 DEF Progress, Valid, Stored
<1>7. pc'[t] = "lock" /\ call'[t] = "compute" => fresh'[t]
  BY <1>1, <1>2
<1> QED
  BY <1>3, <1>5, <1>6, <1>7 DEF Progress, Working, Loading, Deriving, Inside

\* Steps outside the user pool and the end of a call.
LEMMA OutsideProgress ==
  ASSUME TypeOK, NEW t \in Thread, Progress(t), Holds(t),
         \/ LockUpdates(t) \/ PopEntries(t) \/ LockPool(t) \/ PushUpdates(t)
         \/ SelectRefs(t) \/ Fail(t) \/ Clean(t)
  PROVE  Progress(t)'
<1>1. CASE LockUpdates(t) \/ PopEntries(t) \/ LockPool(t) \/ PushUpdates(t)
  <2>1. /\ pc[t] \in {"updates", "pop", "push", "pushing"}
        /\ pc'[t] \in {"pop", "push", "pushing", "lock"}
        /\ UNCHANGED <<local, user, pools>>
    BY <1>1 DEF LockUpdates, PopEntries, LockPool, PushUpdates, Goto, TypeOK
  <2>2. call[t] # "compute" /\ loaded[t] = {}
    BY <2>1 DEF Holds, Progress, Loading, Working
  <2>3. Valid(t)'
    BY <2>1 DEF Progress, Valid, Stored, local, user, pools
  <2> QED
    BY <2>1, <2>2, <2>3 DEF Progress, Working, Loading, Deriving, Inside, local, user
<1>2. CASE SelectRefs(t)
  <2>1. /\ pc[t] = "refs" /\ pc'[t] \in {"idle", "clean"} /\ UNCHANGED <<local, user, pools>>
    BY <1>2 DEF SelectRefs, Goto, TypeOK
  <2>2. loaded[t] = {}
    BY <2>1 DEF Progress, Loading, Working
  <2>3. Valid(t)'
    BY <2>1 DEF Progress, Valid, Stored, local, user, pools
  <2> QED
    BY <2>1, <2>2, <2>3 DEF Progress, Working, Loading, Deriving, Inside, user
<1>3. CASE Fail(t)
  <2>1. pc'[t] = "idle" /\ loaded'[t] = {} /\ UNCHANGED <<local, mapped, fresh, pools>>
    BY <1>3 DEF Fail, Goto, TypeOK
  <2>2. Valid(t)'
    BY <2>1 DEF Progress, Valid, Stored, local, pools
  <2> QED
    BY <2>1, <2>2 DEF Progress, Working, Loading, Deriving, Inside
<1>4. CASE Clean(t)
  <2>1. pc[t] = "clean" /\ pc'[t] = "idle" /\ loaded' = loaded /\ ~fresh'[t]
    BY <1>4 DEF Clean, Goto, TypeOK
  <2>2. loaded[t] = {}
    BY <2>1 DEF Progress, Loading, Working
  <2> QED
    BY <2>1, <2>2 DEF Progress, Valid, Working, Loading, Deriving, Inside
<1> QED
  BY <1>1, <1>2, <1>3, <1>4

\* compute goes on with what its user pool lacks, prepare and load select.
LEMMA AcquireProgress ==
  ASSUME TypeOK, NEW t \in Thread, Progress(t), Holds(t), AcquireLock(t)
  PROVE  Progress(t)'
<1>1. /\ pc[t] = "lock" /\ pc'[t] \in {"compute", "clean", "select"}
      /\ pc'[t] = "compute" <=> call[t] = "compute"
      /\ UNCHANGED <<local, user, pools>>
  BY DEF AcquireLock, Goto, TypeOK
<1>2. loaded[t] = {} /\ Valid(t)'
  BY <1>1 DEF Progress, Loading, Working, Valid, Stored, local, user, pools
<1>3. ASSUME call[t] = "compute" PROVE WhileDeriving(t)'
  <2>1. todo'[t] = ToCompute(t, mapped[t]) /\ call'[t] = "compute" /\ mapped' = mapped
    BY <1>1, <1>3 DEF AcquireLock, TypeOK, local, user
  <2> QED
    BY <2>1 DEF WhileDeriving, ToCompute
<1> QED
  BY <1>1, <1>2, <1>3 DEF Progress, Working, Loading, Deriving, Inside, local, user

LEMMA SelectProgress ==
  ASSUME TypeOK, Filed, NEW t \in Thread, Progress(t), Holds(t), Select(t)
  PROVE  Progress(t)'
<1>1. /\ pc[t] = "select" /\ pc'[t] = "load" /\ fresh'[t] /\ mapped'[t] = Selected(time[t])
      /\ todo'[t] \in Loads(t) /\ UNCHANGED <<local, loaded, pools>> /\ time[t] \in Time
  BY DEF Select, Goto, TypeOK
<1>2. call[t] \in {"prepare", "load"}
  BY <1>1 DEF Holds, Inside, Progress
<1>3. mapped'[t] = Stored(time[t]) /\ loaded[t] = {} /\ (Stored(time[t])' = Stored(time[t]))
  BY <1>1, SelectedIsStored DEF Progress, Loading, Working, Stored, local, pools
<1>4. todo'[t] \subseteq Raw
  BY <1>1 DEF Loads
<1>5. WhileLoading(t)'
  BY <1>1, <1>2, <1>3, <1>4 DEF WhileLoading, Names, local
<1>6. Valid(t)'
  BY <1>3 DEF Valid
<1> QED
  BY <1>1, <1>3, <1>5, <1>6, NameAssumption
     DEF Progress, Working, Loading, Deriving, Inside, local

LEMMA RegisterProgress ==
  ASSUME TypeOK, NEW t \in Thread, Progress(t), Work(t) \/ RegisterIOV(t) \/ Emplace(t)
  PROVE  Progress(t)'
<1>1. /\ UNCHANGED <<local, todo, user, content>> /\ elements \subseteq elements'
      /\ item'[t] \in todo[t] /\ pc'[t] \in {"register", "emplace", "insert"}
  BY DEF Work, RegisterIOV, Emplace, Goto, TypeOK, pools, Progress, Working
<1>2. pc'[t] = "insert" => Target(t)' \in elements'
  BY DEF Work, RegisterIOV, Emplace, Goto, TypeOK, Target, local
<1>3. Inside(t) /\ pc[t] # "select" /\ fresh[t]
  BY DEF Work, RegisterIOV, Emplace, Inside, Progress
<1>4. (Loading(t)' => Loading(t)) /\ (Deriving(t)' => Deriving(t)) /\ (Loading(t) => Loading(t)')
  <2>1. CASE Work(t)
    <3>1. pc[t] = "load" => Loading(t) /\ item'[t] \in Raw
      BY <1>1 DEF Progress, Loading, WhileLoading
    <3>2. pc[t] = "derive" => Deriving(t) /\ item'[t] \in Derived
      BY <1>1 DEF Progress, Deriving, WhileDeriving
    <3> QED
      BY <2>1, <1>1, <3>1, <3>2, NameAssumption DEF Work, Loading, Deriving, Working
  <2>2. CASE RegisterIOV(t) \/ Emplace(t)
    BY <2>2, <1>1 DEF RegisterIOV, Emplace, Loading, Deriving, Working
  <2> QED
    BY <2>1, <2>2
<1>5. Valid(t)' /\ (WhileLoading(t) => WhileLoading(t)') /\ (WhileDeriving(t) => WhileDeriving(t)')
  BY <1>1 DEF Progress, Valid, WhileLoading, WhileDeriving, Stored, local, user
<1> QED
  BY <1>1, <1>2, <1>3, <1>4, <1>5 DEF Progress, Working, local, user

\* The loader registers a condition: the pool refuses it only if it was selected.
LEMMA InsertRaw ==
  ASSUME TypeOK, NEW t \in Thread, Progress(t), Insert(t), item[t] \in Raw
  PROVE  Progress(t)'
<1> DEFINE x == time[t]
           new == <<item[t], Target(t), item[t] \notin content[Target(t)]>>
<1>0. Step(t) /\ ~Clean(t) /\ time' = time
  BY DEF Step, Insert, Clean, local
<1>1. /\ pc[t] = "insert" /\ pc'[t] = "load" /\ UNCHANGED <<local, mapped, fresh>>
      /\ todo'[t] = todo[t] \ {item[t]} /\ loaded'[t] = loaded[t] \cup {new}
  BY DEF Insert, Goto, TypeOK
<1>2. Loading(t) /\ WhileLoading(t) /\ item[t] \in todo[t] /\ fresh[t] /\ x \in Time
  BY <1>1 DEF Progress, Loading, Working, Inside, TypeOK
<1>3. Target(t) = Validity[item[t]][x] /\ Target(t) \in Key /\ item[t] \in Name
  BY TargetIsValidity
<1>4. /\ \A k \in Key : content[k] \subseteq content'[k]
      /\ item[t] \in content'[Target(t)]
      /\ \A c \in Name : c \in content'[Validity[c][x]] => c \in content[Validity[c][x]] \/ c = item[t]
  BY <1>2, <1>3, InsertPools, ValidityAssumption
<1>5. Valid(t)'
  <2> SUFFICES ASSUME NEW m \in mapped[t], m[3] PROVE (m \in Stored(time[t]))'
    BY <1>1 DEF Valid, local
  <2>1. m \in Stored(time[t])
    BY <1>2 DEF Progress, Valid
  <2> QED
    BY <1>0, <2>1, StoredStays
<1>6. WhileLoading(t)'
  <2>1. todo'[t] \cap Names(loaded'[t]) = {}
    BY <1>1, <1>2 DEF WhileLoading, Names
  <2>2. mapped'[t] \subseteq (Stored(time[t]))'
    <3>1. ASSUME NEW m \in mapped[t] PROVE (m \in Stored(time[t]))'
      BY <1>0, <1>2, <3>1, StoredStays DEF WhileLoading
    <3> QED
      BY <1>1, <3>1
  <2>3. ASSUME NEW m \in loaded'[t]
        PROVE  /\ m[1] \in Raw /\ m[2] = Validity[m[1]][x] /\ m[1] \in content'[m[2]]
               /\ m[1] \notin Names(mapped[t]) => m[3]
    <3>1. CASE m \in loaded[t]
      <4>1. /\ m[1] \in Raw /\ m[2] = Validity[m[1]][x] /\ m[1] \in content[m[2]]
            /\ m[1] \notin Names(mapped[t]) => m[3]
        BY <1>2, <3>1 DEF WhileLoading
      <4>2. m[2] \in Key
        BY <1>2, <4>1, ValidityAssumption DEF Name
      <4> QED
        BY <1>4, <4>1, <4>2
    <3>2. CASE m = new
      <4>1. m[1] = item[t] /\ m[2] = Target(t) /\ m[3] = (item[t] \notin content[Target(t)])
        BY <3>2
      <4>2. item[t] \notin Names(loaded[t])
        BY <1>2 DEF WhileLoading
      <4>3. item[t] \in content[Target(t)] => item[t] \in Names(Stored(x))
        BY <1>2, <1>3, StoredNames
      <4>4. item[t] \in content[Target(t)] => item[t] \in Names(mapped[t])
        BY <1>2, <4>2, <4>3 DEF WhileLoading
      <4> QED
        BY <1>3, <1>4, <4>1, <4>4
    <3> QED
      BY <1>1, <3>1, <3>2
  <2>4. ASSUME NEW c \in Names(Stored(time[t]))' PROVE c \in Names(mapped[t]) \cup Names(loaded'[t])
    <3>1. c \in Name /\ c \in content'[Validity[c][x]]
      <4>1. PICK m \in Stored(time[t])' : c = m[1]
        BY DEF Names
      <4>2. PICK n \in {i \in Name : i \in content'[Validity[i][x]]} : m = <<n, Validity[n][x], TRUE>>
        BY <1>1, <4>1 DEF Stored, local
      <4>3. n = c
        BY <4>1, <4>2
      <4> QED
        BY <4>2, <4>3
    <3>2. CASE c = item[t]
      <4>1. new \in loaded'[t] /\ new[1] = c
        BY <1>1, <3>2
      <4> QED
        BY <4>1 DEF Names
    <3>3. CASE c \in content[Validity[c][x]]
      <4>1. c \in Names(mapped[t]) \cup Names(loaded[t])
        BY <1>2, <3>1, <3>3, StoredNames DEF WhileLoading
      <4> QED
        BY <1>1, <4>1 DEF Names
    <3> QED
      BY <1>4, <3>1, <3>2, <3>3
  <2> QED
    BY <1>1, <1>2, <2>1, <2>2, <2>3, <2>4 DEF WhileLoading, local
<1> QED
  BY <1>1, <1>2, <1>5, <1>6, NameAssumption DEF Progress, Working, Loading, Deriving, Inside, local

LEMMA InsertStored ==
  ASSUME TypeOK, NEW t \in Thread, Insert(t)
  PROVE  (Stored(time[t]))' = Stored(time[t]) \cup {<<item[t], Target(t), TRUE>>}
<1> DEFINE x == time[t]
           Before == {c \in Name : c \in content[Validity[c][x]]}
           After == {c \in Name : c \in content'[Validity[c][x]]}
<1>1. time'[t] = x /\ x \in Time /\ item[t] \in Name /\ Target(t) = Validity[item[t]][x]
  BY TargetIsValidity DEF Insert, local
<1>2. After = Before \cup {item[t]}
  <2>1. ASSUME NEW c \in Name
        PROVE  c \in content'[Validity[c][x]] <=> c \in content[Validity[c][x]] \/ c = item[t]
    <3>1. Validity[c][x] \in Key
      BY <1>1, ValidityAssumption
    <3> QED
      BY <1>1, <3>1, InsertPools
  <2> QED
    BY <1>1, <2>1
<1>3. (Stored(time[t]))' = {<<c, Validity[c][x], TRUE>> : c \in After}
  BY <1>1 DEF Stored
<1>4. Stored(time[t]) = {<<c, Validity[c][x], TRUE>> : c \in Before}
  BY DEF Stored
<1> HIDE DEF Before, After, x
<1> QED
  BY <1>1, <1>2, <1>3, <1>4

\* The handler enters a condition that its user pool lacks: the pool refuses it only in
\* a compute of its own.
LEMMA InsertDerived ==
  ASSUME TypeOK, NEW t \in Thread, Progress(t), Insert(t), item[t] \notin Raw
  PROVE  Progress(t)'
<1> DEFINE accepted == item[t] \notin content[Target(t)]
           new == <<item[t], Target(t), accepted>>
<1>1. /\ pc[t] = "insert" /\ pc'[t] = "derive" /\ UNCHANGED <<local, loaded, fresh>>
      /\ todo'[t] = todo[t] \ {item[t]} /\ mapped'[t] = Emplaced(mapped[t], {new})
  BY DEF Insert, Goto, TypeOK
<1>2. item[t] \in Derived
  BY DEF TypeOK, Name
<1>3. /\ Deriving(t) /\ WhileDeriving(t) /\ item[t] \in todo[t] /\ fresh[t] /\ loaded[t] = {}
      /\ time[t] \in Time
  BY <1>1, <1>2 DEF Progress, Loading, Deriving, Working, Inside, TypeOK
<1>4. mapped'[t] = mapped[t] \cup {new}
  <2>1. new[1] \notin Names(mapped[t])
    BY <1>3 DEF WhileDeriving
  <2> HIDE DEF new
  <2> QED
    BY <1>1, <2>1 DEF Emplaced
<1>5. todo'[t] \cap Names(mapped'[t]) = {}
  BY <1>1, <1>3, <1>4 DEF WhileDeriving, Names
<1>6. Valid(t)'
  <2> SUFFICES ASSUME NEW m \in mapped'[t], m[3] PROVE (m \in Stored(time[t]))'
    BY DEF Valid
  <2>1. CASE m \in mapped[t]
    <3>1. m \in Stored(time[t])
      BY <1>3, <2>1 DEF Progress, Valid
    <3> QED
      BY <3>1, InsertStored
  <2>2. CASE m = new
    <3>1. accepted
      BY <2>2
    <3>2. m = <<item[t], Target(t), TRUE>>
      BY <2>2, <3>1
    <3> QED
      BY <3>2, InsertStored
  <2> QED
    BY <1>4, <2>1, <2>2
<1>7. ASSUME call[t] = "prepare" PROVE mapped'[t] = (Stored(time[t]))'
  <2>1. mapped[t] = Stored(time[t]) /\ item[t] \notin Names(Stored(time[t]))
    BY <1>3, <1>7 DEF WhileDeriving
  <2>2. accepted
    BY <1>3, <2>1, StoredNames, TargetIsValidity
  <2>3. new = <<item[t], Target(t), TRUE>>
    BY <2>2
  <2> QED
    BY <1>4, <2>1, <2>3, InsertStored
<1>8. WhileDeriving(t)'
  BY <1>1, <1>3, <1>5, <1>7 DEF WhileDeriving, local
<1> QED
  BY <1>1, <1>3, <1>6, <1>8, NameAssumption
     DEF Progress, Working, Loading, Deriving, Inside, local

\* What was loaded enters the user pool: then it has what the store has.
LEMMA LoadedProgress ==
  ASSUME TypeOK, NEW t \in Thread, Progress(t), LoadDone(t)
  PROVE  Progress(t)'
<1>1. /\ pc[t] = "load" /\ pc'[t] \in {"idle", "compute"}
      /\ UNCHANGED <<local, fresh, pools>> /\ loaded'[t] = {}
      /\ mapped'[t] = Emplaced(mapped[t], loaded[t])
      /\ pc'[t] = "compute" => call[t] # "load" /\ todo'[t] = ToCompute(t, mapped'[t])
  BY DEF LoadDone, Goto, TypeOK
<1>2. Loading(t) /\ WhileLoading(t) /\ fresh[t] /\ time[t] \in Time
  BY <1>1 DEF Progress, Loading, Inside, TypeOK
<1>3. mapped'[t] = Stored(time[t])
  <2>1. ASSUME NEW m \in mapped'[t] PROVE m \in Stored(time[t])
    <3>1. CASE m \in mapped[t]
      BY <1>2, <3>1 DEF WhileLoading
    <3>2. CASE m \in loaded[t] /\ m[1] \notin Names(mapped[t])
      <4>1. /\ m[1] \in Raw /\ m[2] = Validity[m[1]][time[t]] /\ m[1] \in content[m[2]] /\ m[3]
        BY <1>2, <3>2 DEF WhileLoading
      <4>2. m = <<m[1], m[2], TRUE>>
        <5>1. m \in Entry
          BY <3>2 DEF TypeOK
        <5> QED
          BY <4>1, <5>1, Accepted
      <4>3. m = <<m[1], Validity[m[1]][time[t]], TRUE>>
        BY <4>1, <4>2, Zenon
      <4> QED
        BY <1>2, <4>1, <4>3, StoredMember DEF Name
    <3> QED
      BY <1>1, <2>1, <3>1, <3>2 DEF Emplaced
  <2>2. ASSUME NEW m \in Stored(time[t]) PROVE m \in mapped'[t]
    <3>1. m[1] \in Names(Stored(time[t])) /\ m = <<m[1], Validity[m[1]][time[t]], TRUE>>
      BY <1>2, StoredMember DEF Names
    <3>2. CASE m[1] \in Names(mapped[t])
      <4>1. PICK n \in mapped[t] : m[1] = n[1]
        BY <3>2 DEF Names
      <4>2. n = <<n[1], Validity[n[1]][time[t]], TRUE>>
        BY <1>2, StoredMember DEF WhileLoading
      <4> QED
        BY <1>1, <3>1, <4>1, <4>2 DEF Emplaced
    <3>3. CASE m[1] \notin Names(mapped[t])
      <4>1. PICK n \in loaded[t] : m[1] = n[1]
        BY <1>2, <3>1, <3>3 DEF WhileLoading, Names
      <4>2. n[2] = Validity[n[1]][time[t]] /\ n[3]
        BY <1>2, <3>3, <4>1 DEF WhileLoading
      <4>3. n = <<n[1], n[2], TRUE>>
        <5>1. n \in Entry
          BY <4>1 DEF TypeOK
        <5> QED
          BY <4>2, <5>1, Accepted
      <4>4. n = m
        BY <3>1, <4>1, <4>2, <4>3, Zenon
      <4> QED
        BY <1>1, <3>3, <4>1, <4>4 DEF Emplaced
    <3> QED
      BY <3>2, <3>3
  <2> QED
    BY <2>1, <2>2
<1>4. (Stored(time[t]))' = Stored(time[t])
  BY <1>1 DEF Stored, local, pools
<1>5. Valid(t)'
  BY <1>3, <1>4 DEF Valid
<1>6. pc'[t] = "compute" => WhileDeriving(t)'
  BY <1>1, <1>2, <1>3, <1>4 DEF WhileDeriving, WhileLoading, ToCompute, local
<1> QED
  BY <1>1, <1>2, <1>5, <1>6 DEF Progress, Working, Loading, Deriving, Inside, local

LEMMA ComputeProgress ==
  ASSUME TypeOK, NEW t \in Thread, Progress(t), Compute(t) \/ DeriveDone(t)
  PROVE  Progress(t)'
<1>1. /\ pc[t] \in {"compute", "derive"} /\ pc'[t] \in {"derive", "refs"}
      /\ UNCHANGED <<local, todo, item, user, pools>>
  BY DEF Compute, DeriveDone, Goto, TypeOK
<1>2. Deriving(t) /\ WhileDeriving(t) /\ loaded[t] = {} /\ fresh[t]
  BY <1>1 DEF Progress, Loading, Deriving, Working, Inside
<1>3. WhileDeriving(t)' /\ Valid(t)'
  BY <1>1, <1>2 DEF Progress, WhileDeriving, Valid, Stored, local, user, pools
<1> QED
  BY <1>1, <1>2, <1>3 DEF Progress, Working, Loading, Deriving, Inside, local, user

LEMMA AtomicInvariant == ASSUME Disciplined PROVE Spec => []AtomicInv
<1>1. Init => AtomicInv
  <2> SUFFICES ASSUME Init PROVE AtomicInv
    OBVIOUS
  <2>1. Filed
    BY DEF Init, Filed
  <2> QED
    BY <2>1 DEF Init, AtomicInv, Progress, Valid, Working, Loading, Deriving, Inside
<1>2. LockInv /\ AtomicInv /\ [Next]_vars => AtomicInv'
  <2> SUFFICES ASSUME LockInv, AtomicInv, [Next]_vars PROVE AtomicInv'
    OBVIOUS
  <2>1. TypeOK /\ Filed /\ (\A t \in Thread : Progress(t)) /\ (\A t \in Thread : Holds(t))
    BY DEF LockInv, AtomicInv, LocksHeld
  <2>2. Filed'
    BY <2>1, FiledStep
  <2>3. ASSUME NEW u \in Thread PROVE Progress(u)'
    <3>1. CASE UNCHANGED vars
      <4>1. Progress(u)
        BY <2>1
      <4>2. UNCHANGED <<pc, local, todo, item, user, pools>>
        BY <3>1 DEF vars
      <4>3. (Stored(time[u]) = Stored(time[u])') /\ (Target(u) = Target(u)')
        BY <4>2 DEF Stored, Target, local, pools
      <4>4. /\ WhileLoading(u) => WhileLoading(u)'
            /\ WhileDeriving(u) => WhileDeriving(u)'
            /\ Valid(u) => Valid(u)'
        BY <4>2, <4>3 DEF WhileLoading, WhileDeriving, Valid, local, user, pools
      <4> QED
        BY <4>1, <4>2, <4>3, <4>4
           DEF Progress, Working, Loading, Deriving, Inside, local, user, pools
    <3>2. ASSUME NEW t \in Thread, t # u, Enter(t) \/ Step(t) PROVE Progress(u)'
      BY <2>1, <3>2, ProgressOther
    <3>3. ASSUME Enter(u) \/ Step(u) PROVE Progress(u)'
      <4>1. CASE Insert(u)
        BY <2>1, <4>1, InsertRaw, InsertDerived
      <4>2. CASE ~Insert(u)
        BY <2>1, <3>3, <4>2, EnterProgress, OutsideProgress, AcquireProgress, SelectProgress,
           RegisterProgress, LoadedProgress, ComputeProgress DEF Step
      <4> QED
        BY <4>1, <4>2
    <3> QED
      BY <3>1, <3>2, <3>3 DEF Next
  <2> QED
    BY <2>2, <2>3 DEF AtomicInv
<1> QED
  BY <1>1, <1>2, LockInvariant, PTL DEF Spec

\* Under the discipline a prepare is atomic: its user pool ends with exactly what the
\* store has for its time, however much of it was missing, registered again by the loader
\* or left out, and what pools have accepted stays there until a cleanup.
THEOREM PrepareServes == ASSUME Disciplined PROVE Spec => []Served
<1>1. AtomicInv => Served
  <2> SUFFICES ASSUME AtomicInv, NEW t \in Thread
               PROVE  /\ pc[t] = "refs" /\ call[t] = "prepare" => mapped[t] = Stored(time[t])
                      /\ Valid(t)
    BY DEF Served, Valid
  <2> QED
    BY DEF AtomicInv, Progress, Deriving, WhileDeriving
<1> QED
  BY <1>1, AtomicInvariant, PTL
=============================================================================
