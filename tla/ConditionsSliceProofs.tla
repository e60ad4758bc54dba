------------------------ MODULE ConditionsSliceProofs ------------------------
(***************************************************************************)
(* Proofs about the slices of ConditionsCache: the interval of validity of *)
(* a slice is right, a slice prepared with REF_POOLS is safe from every    *)
(* cleanup and leaves no reference behind, its conditions are one for each *)
(* key and what is missing is counted, and so clients of slices are served *)
(* as ConditionsService promises.                                          *)
(***************************************************************************)
EXTENDS ConditionsCacheProofs

\* What a call leaves in the pools for a condition.
Backed(c, s) == c.home \in PoolId => c.home \in used[s] /\ Object(c) \in entries[c.home]

\* The strengthening of HeldAlive: a held slice references the pool of every one
\* of its conditions, and the pool has the condition.  Aliveness alone is not
\* inductive: a pool may be alive for now in the map, which cleanups change.
HeldBacked ==
  \A s \in Slices : phase[s] = "held" => \A c \in conditions[s] : Backed(c, s)

-----------------------------------------------------------------------------
\* A condition of a selection is in its pool.
LEMMA SelectionStored ==
  ASSUME Invariant, NEW t \in Times, NEW c \in Selection(t)
  PROVE  Object(c) \in entries[c.home]
<1>1. PICK p \in Covering(elements, t) : \E e \in entries[p] :
        c = [name |-> e.name, val |-> e.val, home |-> p]
  BY DEF Selection
<1>2. PICK e \in entries[p] : c = [name |-> e.name, val |-> e.val, home |-> p]
  BY <1>1
<1>3. e \in Entry
  BY DEF Covering, Invariant, TypeOK
<1>4. e = [name |-> e.name, val |-> e.val]
  BY <1>3 DEF Entry
<1> QED BY <1>2, <1>4 DEF Object

\* Every IOV in a user pool contains the IOV of the user pool, and this the time.
LEMMA PoolCovered ==
  ASSUME Invariant, NEW t \in Times, NEW L \in SUBSET Raw
  PROVE  /\ PoolValidity(t, L) \in Key
         /\ key_contains_range(PoolValidity(t, L), Discrete(t))
         /\ \A c \in Pool(t, L) : /\ key_contains_range(c.home.iov, PoolValidity(t, L))
                                  /\ key_contains_range(c.home.iov, Discrete(t))
<1> DEFINE S == {p.iov : p \in Covering(elements, t)} \cup {Database[k][t] : k \in L}
<1>1. S \in SUBSET Key
  BY CacheAssumptions DEF Invariant, TypeOK, Covering, PoolId
<1>2. \A k \in S : key_contains_range(k, Discrete(t))
  BY CacheAssumptions DEF Covering
<1>3. /\ Intersection(S) \in Key
      /\ \A k \in S : key_contains_range(k, Intersection(S))
      /\ key_contains_range(Intersection(S), Discrete(t))
  <2> HIDE DEF S
  <2> QED BY <1>1, <1>2, DiscreteKey, IntersectionIsGreatest
<1>4. \A c \in Pool(t, L) : c.home.iov \in S
  <2>1. \A c \in Selection(t) : c.home.iov \in S
    BY SelectionProperty
  <2>2. \A c \in Fetched(L, t) : c.home.iov \in S
    <3> SUFFICES ASSUME NEW k \in L
                 PROVE  Registered(k, Truth(k, t), Database[k][t]).home.iov \in S
      BY DEF Fetched
    <3>1. Database[k][t] \in Key /\ Database[k][t] \in S
      BY CacheAssumptions
    <3> QED BY <3>1, RegisteredProperty
  <2> QED BY <2>1, <2>2 DEF Pool
<1> QED BY <1>2, <1>3, <1>4 DEF PoolValidity

\* An IOV contained in those of all conditions accessed is contained in the IOV
\* of what is computed from them.
LEMMA ComputedCovers ==
  ASSUME NEW C \in SUBSET Condition, NEW D \in SUBSET Derived, Resolvable(D, C),
         NEW key \in Key, NEW d \in D,
         \A c \in Accessed(d, C) : key_contains_range(c.home.iov, key)
  PROVE  LET x == Registered(d, [k \in Deps[d] |-> Dep(k, C).val[k]],
                             Intersection({c.home.iov : c \in Accessed(d, C)}))
         IN  key_contains_range(x.home.iov, key)
<1> DEFINE S == {c.home.iov : c \in Accessed(d, C)}
<1>1. Accessed(d, C) \subseteq C
  BY DEF Accessed, Dep, Resolvable, Names
<1>2. \A c \in C : c.home.iov \in Key
  BY DEF Condition, Home, PoolId, Unowned
<1>3. S \in SUBSET Key
  BY <1>1, <1>2
<1>4. Intersection(S) \in Key /\ key_contains_range(Intersection(S), key)
  <2>1. \A k \in S : key_contains_range(k, key)
    OBVIOUS
  <2> HIDE DEF S
  <2> QED BY <1>3, <2>1, IntersectionIsGreatest
<1> HIDE DEF S
<1>5. Registered(d, [k \in Deps[d] |-> Dep(k, C).val[k]], Intersection(S)).home.iov = Intersection(S)
  BY <1>4, RegisteredProperty
<1> QED BY <1>4, <1>5 DEF S

\* The same for all that is computed from conditions none of which is gone.
LEMMA ComputedAllCover ==
  ASSUME NEW C \in SUBSET Condition, NEW D \in SUBSET Derived, Resolvable(D, C),
         NEW stray \in Key, NEW key \in Key,
         \A c \in C : key_contains_range(c.home.iov, key)
  PROVE  \A x \in Computed(D, C, {}, stray) : key_contains_range(x.home.iov, key)
<1> SUFFICES ASSUME NEW d \in D
             PROVE  key_contains_range(
                      Registered(d, [k \in Deps[d] |-> Dep(k, C).val[k]],
                        Intersection({c.home.iov : c \in Accessed(d, C)})).home.iov, key)
  BY DEF Computed
<1>1. Accessed(d, C) \subseteq C
  BY DEF Accessed, Dep, Resolvable, Names
<1> QED BY <1>1, ComputedCovers

\* A computed value is defined only if the values it was computed from are, and
\* these were not gone.
LEMMA ComputedDefinedCovers ==
  ASSUME NEW C \in SUBSET Condition, NEW D \in SUBSET Derived, Resolvable(D, C),
         NEW gone, NEW stray \in Key, NEW key \in Key,
         \A c \in C : Defined(c.val) => key_contains_range(c.home.iov, key)
  PROVE  \A x \in Computed(D, C, gone, stray) :
           Defined(x.val) => key_contains_range(x.home.iov, key)
<1> SUFFICES ASSUME NEW x \in Computed(D, C, gone, stray), Defined(x.val)
             PROVE  key_contains_range(x.home.iov, key)
  OBVIOUS
<1>1. PICK d \in D :
        x = IF Accessed(d, C) \cap gone = {}
              THEN Registered(d, [k \in Deps[d] |-> Dep(k, C).val[k]],
                              Intersection({c.home.iov : c \in Accessed(d, C)}))
              ELSE Registered(d, [k \in Deps[d] |-> Undefined], stray)
  BY DEF Computed
<1>2. \A k \in Deps[d] : Dep(k, C) \in C /\ Dep(k, C).name = k
  BY DEF Dep, Resolvable, Names
<1>3. \A k \in Deps[d] : DOMAIN Dep(k, C).val = {k}
  <2> SUFFICES ASSUME NEW k \in Deps[d] PROVE DOMAIN Dep(k, C).val = {k}
    OBVIOUS
  <2>1. Dep(k, C).val \in ValueOf(k) /\ k \in Raw
    BY <1>2, CacheAssumptions DEF Condition
  <2> QED BY <2>1 DEF ValueOf, Inputs
<1>4. CASE Accessed(d, C) \cap gone # {}
  <2>1. x.val = [k \in Deps[d] |-> Undefined]
    BY <1>1, <1>4 DEF Registered
  <2>2. Deps[d] # {}
    BY <1>4 DEF Accessed
  <2> QED BY <2>1, <2>2 DEF Defined
<1>5. CASE Accessed(d, C) \cap gone = {}
  <2>1. x.val = [k \in Deps[d] |-> Dep(k, C).val[k]]
    BY <1>1, <1>5 DEF Registered
  <2>2. \A k \in Deps[d] : Defined(Dep(k, C).val)
    BY <1>3, <2>1 DEF Defined
  <2>3. \A c \in Accessed(d, C) : key_contains_range(c.home.iov, key)
    BY <1>2, <2>2 DEF Accessed
  <2> QED BY <1>1, <1>5, <2>3, ComputedCovers
<1> QED BY <1>4, <1>5

-----------------------------------------------------------------------------
\* A pool that is referenced keeps what it has and gets what is registered to it.
LEMMA CommitKeeps ==
  ASSUME NEW N, NEW dropped, NEW refs, NEW ages, Commit(N, dropped, refs, ages),
         NEW s \in Slices, NEW p \in PoolId, p \in refs[s]
  PROVE  entries[p] \subseteq entries'[p] /\ \A x \in N : x.home = p => Object(x) \in entries'[p]
BY DEF Commit

\* A slice the step leaves alone stays backed.
LEMMA OtherBacked ==
  ASSUME HeldBacked,
         NEW N, NEW dropped, NEW refs, NEW ages, Commit(N, dropped, refs, ages),
         NEW s \in Slices, refs[s] = used[s],
         conditions'[s] = conditions[s], phase'[s] = phase[s], phase[s] = "held"
  PROVE  \A c \in conditions'[s] : Backed(c, s)'
<1> SUFFICES ASSUME NEW c \in conditions[s], c.home \in PoolId
             PROVE  c.home \in used'[s] /\ Object(c) \in entries'[c.home]
  BY DEF Backed, Object
<1>1. c.home \in used[s] /\ Object(c) \in entries[c.home]
  BY DEF HeldBacked, Backed
<1>2. used' = refs
  BY DEF Commit
<1> QED BY <1>1, <1>2, CommitKeeps

\* prepare leaves a slice whose conditions are backed by its pools.
LEMMA PrepareBacked ==
  ASSUME Invariant, HeldBacked, NEW s \in Slices, NEW t \in Times, Prepare(s, t)
  PROVE  HeldBacked'
<1>1. PICK L \in Loads(s, t) :
        LET calc == Missing(s, Selection(t), Derived)
            D    == ToCompute(calc)
            C    == Pool(t, L)
            new  == Computed(D, C, {}, Discrete(t))
            N    == Fetched(L, t) \cup new
        IN  /\ Resolvable(D, C)
            /\ \E dropped \in CleanedBy(elements \cup Owners(N)) :
                 Commit(N, dropped, RefsAfter(s, t, elements \cup Owners(N)), SelectedAge(t))
            /\ Called(s, C \cup new, PoolValidity(t, L), IF flags[s] THEN "held" ELSE "ready", t)
  BY DEF Prepare
<1> DEFINE D    == ToCompute(Missing(s, Selection(t), Derived))
           C    == Pool(t, L)
           new  == Computed(D, C, {}, Discrete(t))
           N    == Fetched(L, t) \cup new
           refs == RefsAfter(s, t, elements \cup Owners(N))
<1>2. PICK dropped : Commit(N, dropped, refs, SelectedAge(t))
  BY <1>1
<1>3. /\ Resolvable(D, C)
      /\ Called(s, C \cup new, PoolValidity(t, L), IF flags[s] THEN "held" ELSE "ready", t)
  BY <1>1
<1>4. L \in SUBSET Raw /\ D \in SUBSET Derived
  BY LoadsType, MissingCount DEF ToCompute
<1>5. /\ SoundAll(Fetched(L, t)) /\ Owners(N) \subseteq PoolId
  BY <1>2, <1>4, FetchedSound DEF Commit
<1>6. C \in SUBSET Condition
  <2> HIDE DEF new
  <2>1. Owners(Fetched(L, t)) \subseteq PoolId
    BY <1>5, OwnersUnion
  <2>2. Fetched(L, t) \subseteq Condition /\ TolerableAll(Fetched(L, t))
    BY <1>5, <2>1, SoundCondition
  <2> QED BY <2>2, PoolProperty
<1>7. \A c \in C \cup new : key_contains_range(c.home.iov, Discrete(t))
  <2>1. \A c \in C : key_contains_range(c.home.iov, Discrete(t))
    BY <1>4, PoolCovered
  <2> HIDE DEF C, D
  <2>2. \A c \in new : key_contains_range(c.home.iov, Discrete(t))
    BY <1>3, <1>4, <1>6, <2>1, DiscreteKey, ComputedAllCover
  <2> QED BY <2>1, <2>2
<1>8. conditions' = [conditions EXCEPT ![s] = C \cup new]
      /\ phase' = [phase EXCEPT ![s] = IF flags[s] THEN "held" ELSE "ready"]
  BY <1>3 DEF Called
<1>9. used' = refs
  BY <1>2 DEF Commit
<1>10. ASSUME phase'[s] = "held", NEW c \in C \cup new, c.home \in PoolId
       PROVE  c.home \in used'[s] /\ Object(c) \in entries'[c.home]
  <2>1. flags[s]
    BY <1>8, <1>10 DEF Invariant, TypeOK
  <2>2. refs[s] = Covering(elements \cup Owners(N), t)
    BY <2>1 DEF RefsAfter, Invariant, TypeOK
  <2>3. \A key \in Key : c.home # Unowned(key)
    BY <1>10 DEF PoolId, Unowned
  <2>4. CASE c \in Selection(t)
    <3>1. c.home \in elements
      BY <2>4, SelectionProperty DEF Covering
    <3>2. Object(c) \in entries[c.home]
      BY <2>4, SelectionStored
    <3>3. c.home \in refs[s]
      <4> HIDE DEF C, new, N, refs
      <4> QED BY <1>7, <2>2, <3>1 DEF Covering
    <3> HIDE DEF refs, N
    <3> QED BY <1>2, <1>9, <1>10, <3>2, <3>3, CommitKeeps
  <2>5. CASE c \in N
    <3>1. c.home \in Owners(N)
      BY <2>3, <2>5 DEF Owners
    <3>2. c.home \in refs[s]
      <4> HIDE DEF C, new, N, refs
      <4> QED BY <1>7, <2>2, <3>1 DEF Covering
    <3> HIDE DEF refs, N
    <3> QED BY <1>2, <1>9, <1>10, <2>5, <3>2, CommitKeeps
  <2> QED BY <1>10, <2>4, <2>5 DEF Pool
<1>11. ASSUME NEW r \in Slices, r # s, phase'[r] = "held"
       PROVE  \A c \in conditions'[r] : Backed(c, r)'
  <2>1. refs[r] = used[r]
    BY <1>11 DEF RefsAfter, Invariant, TypeOK
  <2>2. conditions'[r] = conditions[r] /\ phase'[r] = phase[r]
    BY <1>8, <1>11 DEF Invariant, TypeOK
  <2> HIDE DEF refs, N
  <2> QED BY <1>2, <1>11, <2>1, <2>2, OtherBacked
<1>12. conditions'[s] = C \cup new
  BY <1>8 DEF Invariant, TypeOK
<1> HIDE DEF C, new
<1> QED BY <1>10, <1>11, <1>12 DEF HeldBacked, Backed, Object

\* A call other than prepare does not leave its slice held, so that only the
\* slices it leaves alone matter.
LEMMA OthersBacked ==
  ASSUME Invariant, HeldBacked,
         NEW N, NEW dropped, NEW refs, NEW ages, Commit(N, dropped, refs, ages),
         \A s \in Slices : phase'[s] = "held" =>
           /\ refs[s] = used[s] /\ conditions'[s] = conditions[s] /\ phase[s] = "held"
  PROVE  HeldBacked'
<1> SUFFICES ASSUME NEW s \in Slices, phase'[s] = "held"
             PROVE  \A c \in conditions'[s] : Backed(c, s)'
  BY DEF HeldBacked
<1> QED BY OtherBacked

\* Every step keeps what is held backed.
LEMMA HeldStep == Invariant /\ HeldBacked /\ [Next]_vars => HeldBacked'
<1> SUFFICES ASSUME Invariant, HeldBacked, [Next]_vars PROVE HeldBacked'
  OBVIOUS
<1>1. ASSUME NEW s \in OneStep, NEW t \in Times, Prepare(s, t) PROVE HeldBacked'
  BY <1>1, CacheAssumptions, PrepareBacked
<1>2. ASSUME NEW s \in OneStep, NEW t \in Times, PrepareFails(s, t) PROVE HeldBacked'
  <2>1. s \in Slices
    BY CacheAssumptions
  <2>2. PICK L \in Loads(s, t) :
          /\ Commit(Fetched(L, t), {}, used, SelectedAge(t))
          /\ Called(s, Pool(t, L), PoolValidity(t, L), "failed", t)
    BY <1>2 DEF PrepareFails
  <2>3. \A r \in Slices : phase'[r] = "held" => conditions'[r] = conditions[r] /\ phase[r] = "held"
    BY <2>1, <2>2 DEF Called, Invariant, TypeOK
  <2> QED BY <2>2, <2>3, OthersBacked
<1>3. ASSUME NEW s \in TwoStep, NEW t \in Times, Load(s, t) PROVE HeldBacked'
  <2>1. s \in Slices
    BY CacheAssumptions
  <2>2. PICK L \in Loads(s, t) :
          /\ Commit(Fetched(L, t), {}, used, SelectedAge(t))
          /\ Called(s, Pool(t, L), PoolValidity(t, L), "loaded", t)
    BY <1>3 DEF Load
  <2>3. \A r \in Slices : phase'[r] = "held" => conditions'[r] = conditions[r] /\ phase[r] = "held"
    BY <2>1, <2>2 DEF Called, Invariant, TypeOK
  <2> QED BY <2>2, <2>3, OthersBacked
<1>4. ASSUME NEW s \in TwoStep, Compute(s) PROVE HeldBacked'
  <2>1. s \in Slices
    BY CacheAssumptions
  <2>2. \E C, N, P, dropped :
          /\ Commit(N, dropped, RefsAfter(s, required[s], P), age)
          /\ Called(s, C, validity[s], IF flags[s] THEN "split" ELSE "ready", required[s])
    BY <1>4 DEF Compute
  <2>3. PICK C, N, P, dropped :
          /\ Commit(N, dropped, RefsAfter(s, required[s], P), age)
          /\ Called(s, C, validity[s], IF flags[s] THEN "split" ELSE "ready", required[s])
    BY <2>2
  <2>4. \A r \in Slices : phase'[r] = "held" =>
          /\ RefsAfter(s, required[s], P)[r] = used[r]
          /\ conditions'[r] = conditions[r] /\ phase[r] = "held"
    BY <2>1, <2>3 DEF Called, RefsAfter, Invariant, TypeOK
  <2> QED BY <2>3, <2>4, OthersBacked
<1>5. ASSUME NEW s \in TwoStep, ComputeFails(s) PROVE HeldBacked'
  BY <1>5, CacheAssumptions
     DEF ComputeFails, HeldBacked, Backed, Object, Invariant, TypeOK
<1>6. ASSUME NEW s \in Slices, RefPools(s) PROVE HeldBacked'
  BY <1>6 DEF RefPools, HeldBacked, Backed, Object
<1>7. ASSUME NEW s \in Slices, DerefPools(s) PROVE HeldBacked'
  <2>1. Commit({}, {}, Released(s), age)
    BY <1>7 DEF DerefPools
  <2>2. \A r \in Slices : phase'[r] = "held" =>
          Released(s)[r] = used[r] /\ conditions'[r] = conditions[r] /\ phase[r] = "held"
    BY <1>7 DEF DerefPools, Released, Invariant, TypeOK
  <2> QED BY <2>1, <2>2, OthersBacked
<1>8. ASSUME NEW s \in Slices, Reset(s) PROVE HeldBacked'
  <2>1. Commit({}, {}, Released(s), age)
    BY <1>8 DEF Reset
  <2>2. \A r \in Slices : phase'[r] = "held" =>
          Released(s)[r] = used[r] /\ conditions'[r] = conditions[r] /\ phase[r] = "held"
    BY <1>8 DEF Reset, Released, Invariant, TypeOK
  <2> QED BY <2>1, <2>2, OthersBacked
<1>9. ASSUME NEW N, NEW dropped, Commit(N, dropped, used, age), UNCHANGED sliceVars
      PROVE  HeldBacked'
  BY <1>9, OthersBacked DEF sliceVars
<1>10. CASE UNCHANGED vars
  BY <1>10 DEF vars, HeldBacked, Backed, Object
<1> QED BY <1>1, <1>2, <1>3, <1>4, <1>5, <1>6, <1>7, <1>8, <1>9, <1>10
        DEF Next, Populate, CleanPolicy, CleanAged

\* Once prepare has returned to a client that asked for references (REF_POOLS),
\* no cleanup deletes a condition of its slice until the client lets go of it.
THEOREM HeldStaysAlive == Spec => []HeldAlive
<1>1. Init => HeldBacked
  BY DEF Init, HeldBacked
<1>2. HeldBacked => HeldAlive
  BY DEF HeldBacked, Backed, HeldAlive, Alive
<1> QED BY <1>1, <1>2, HeldStep, Inductive, PTL DEF Spec

-----------------------------------------------------------------------------
\* The part of SliceValid about one slice, for its content and IOV.
ValidFor(C, iov) == \A c \in C : Defined(c.val) => key_contains_range(c.home.iov, iov)

\* A slice whose content and IOV a call replaces is valid after it if these are.
LEMMA CalledValid ==
  ASSUME Invariant, SliceValid,
         NEW s \in Slices, NEW t, NEW C, NEW iov, NEW left,
         Called(s, C, iov, left, t),
         key_contains_range(iov, Discrete(t)), ValidFor(C, iov)
  PROVE  SliceValid'
BY DEF Called, Invariant, TypeOK, SliceValid, ValidFor

\* prepare: the interval of the slice is that of its conditions.
LEMMA PrepareValid ==
  ASSUME Invariant, SliceValid, NEW s \in Slices, NEW t \in Times, Prepare(s, t)
  PROVE  SliceValid'
<1> DEFINE left == IF flags[s] THEN "held" ELSE "ready"
<1>1. PICK L \in Loads(s, t) :
        LET D    == ToCompute(Missing(s, Selection(t), Derived))
            C    == Pool(t, L)
            new  == Computed(D, C, {}, Discrete(t))
            N    == Fetched(L, t) \cup new
        IN  /\ Resolvable(D, C) /\ Owners(N) \subseteq PoolId
            /\ Called(s, C \cup new, PoolValidity(t, L), left, t)
  BY DEF Prepare, Commit
<1> DEFINE D    == ToCompute(Missing(s, Selection(t), Derived))
           C    == Pool(t, L)
           new  == Computed(D, C, {}, Discrete(t))
           N    == Fetched(L, t) \cup new
<1>2. L \in SUBSET Raw /\ D \in SUBSET Derived
  BY LoadsType, MissingCount DEF ToCompute
<1>3. Resolvable(D, C) /\ Called(s, C \cup new, PoolValidity(t, L), left, t)
  BY <1>1
<1>4. C \in SUBSET Condition
  <2>1. Owners(Fetched(L, t)) \subseteq PoolId
    <3>1. Owners(N) \subseteq PoolId
      BY <1>1
    <3> HIDE DEF new
    <3> QED BY <3>1, OwnersUnion
  <2>2. Fetched(L, t) \subseteq Condition /\ TolerableAll(Fetched(L, t))
    BY <1>2, <2>1, FetchedSound, SoundCondition
  <2> QED BY <2>2, PoolProperty
<1>5. /\ PoolValidity(t, L) \in Key /\ key_contains_range(PoolValidity(t, L), Discrete(t))
      /\ \A c \in C : key_contains_range(c.home.iov, PoolValidity(t, L))
  BY <1>2, PoolCovered
<1>6. \A c \in new : key_contains_range(c.home.iov, PoolValidity(t, L))
  <2> HIDE DEF C, D
  <2> QED BY <1>2, <1>3, <1>4, <1>5, DiscreteKey, ComputedAllCover
<1>7. ValidFor(C \cup new, PoolValidity(t, L))
  <2> HIDE DEF C, new
  <2> QED BY <1>5, <1>6 DEF ValidFor
<1> HIDE DEF C, new
<1> QED BY <1>3, <1>5, <1>7, CalledValid

\* The loaded conditions narrow the interval.
LEMMA LoadValid ==
  ASSUME Invariant, SliceValid, NEW s \in Slices, NEW t \in Times,
         PrepareFails(s, t) \/ Load(s, t)
  PROVE  SliceValid'
<1>1. PICK L \in Loads(s, t) :
        \/ Called(s, Pool(t, L), PoolValidity(t, L), "failed", t)
        \/ Called(s, Pool(t, L), PoolValidity(t, L), "loaded", t)
  BY DEF PrepareFails, Load
<1>2. L \in SUBSET Raw
  BY LoadsType
<1>3. /\ key_contains_range(PoolValidity(t, L), Discrete(t))
      /\ ValidFor(Pool(t, L), PoolValidity(t, L))
  BY <1>2, PoolCovered DEF ValidFor
<1> QED BY <1>1, <1>3, CalledValid

\* The computed conditions narrow the interval.
LEMMA ComputeValid ==
  ASSUME Invariant, SliceValid, NEW s \in Slices, Compute(s)
  PROVE  SliceValid'
<1> DEFINE C == conditions[s]
           t == required[s]
           D == ToCompute(Missing(s, C, Derived))
           left == IF flags[s] THEN "split" ELSE "ready"
<1>1. PICK stray \in {p.iov : p \in Referenced} \cup {Discrete(t)} :
        LET new == Computed(D, C, Gone(s), stray)
        IN  /\ phase[s] = "loaded" /\ Resolvable(D, C)
            /\ Called(s, C \cup new, validity[s], left, t)
  BY DEF Compute
<1> DEFINE new == Computed(D, C, Gone(s), stray)
<1>2. t \in Times /\ D \in SUBSET Derived /\ C \in SUBSET Condition /\ validity[s] \in Key
  BY <1>1, MissingCount DEF ToCompute, Invariant, Requested, TypeOK
<1>3. stray \in Key
  <2>1. \A p \in Referenced : p.iov \in Key
    BY DEF Referenced, Invariant, TypeOK, Condition, Home, PoolId, Unowned
  <2> QED BY <1>2, <2>1, DiscreteKey
<1>4. key_contains_range(validity[s], Discrete(t)) /\ ValidFor(C, validity[s])
  BY <1>1 DEF SliceValid, ValidFor
<1>5. \A x \in new : Defined(x.val) => key_contains_range(x.home.iov, validity[s])
  <2>1. Resolvable(D, C)
    BY <1>1
  <2> HIDE DEF C, D
  <2> QED BY <1>2, <1>3, <1>4, <2>1, ComputedDefinedCovers DEF ValidFor
<1>6. ValidFor(C \cup new, validity[s])
  <2> HIDE DEF C, new
  <2> QED BY <1>4, <1>5 DEF ValidFor
<1>7. Called(s, C \cup new, validity[s], left, t)
  BY <1>1
<1> HIDE DEF C, new, t
<1> QED BY <1>4, <1>6, <1>7, CalledValid

\* Every step keeps the intervals of the slices.
LEMMA ValidStep == Invariant /\ SliceValid /\ [Next]_vars => SliceValid'
<1> SUFFICES ASSUME Invariant, SliceValid, [Next]_vars PROVE SliceValid'
  OBVIOUS
<1>1. ASSUME NEW s \in OneStep, NEW t \in Times, Prepare(s, t) \/ PrepareFails(s, t)
      PROVE  SliceValid'
  BY <1>1, CacheAssumptions, PrepareValid, LoadValid
<1>2. ASSUME NEW s \in TwoStep, NEW t \in Times, Load(s, t) PROVE SliceValid'
  BY <1>2, CacheAssumptions, LoadValid
<1>3. ASSUME NEW s \in TwoStep, Compute(s) PROVE SliceValid'
  BY <1>3, CacheAssumptions, ComputeValid
<1>4. ASSUME NEW s \in TwoStep, ComputeFails(s) PROVE SliceValid'
  BY <1>4, CacheAssumptions DEF ComputeFails, Invariant, TypeOK, SliceValid
<1>5. ASSUME NEW s \in Slices, RefPools(s) \/ DerefPools(s) PROVE SliceValid'
  BY <1>5 DEF RefPools, DerefPools, Invariant, TypeOK, SliceValid
<1>6. ASSUME NEW s \in Slices, Reset(s) PROVE SliceValid'
  BY <1>6 DEF Reset, Invariant, TypeOK, SliceValid
<1>7. CASE UNCHANGED sliceVars
  BY <1>7 DEF sliceVars, SliceValid
<1> QED BY <1>1, <1>2, <1>3, <1>4, <1>5, <1>6, <1>7
        DEF Next, Populate, CleanPolicy, CleanAged, vars, sliceVars

\* The IOV of a slice contains the time the slice was prepared for and no time at
\* which one of its conditions is not valid.
THEOREM SliceStaysValid == Spec => []SliceValid
<1>1. Init => SliceValid
  BY DEF Init, SliceValid
<1> QED BY <1>1, ValidStep, Inductive, PTL DEF Spec

-----------------------------------------------------------------------------
(***************************************************************************)
(* Names: each name has one condition, in a pool and in a slice, each key  *)
(* one pool, and a slice lacks as many names as it says.                   *)
(***************************************************************************)
OnePerName(C) == \A c, d \in C : c.name = d.name => c = d

\* The keys of the maps, as the counts and the answers need them: what a slice
\* selects has one condition per name if each pool has, and a pool is created
\* empty, since what nothing refers to has been destroyed with its conditions.
NamesInv ==
  /\ \A p, q \in elements : p.iov = q.iov => p = q
  /\ \A s \in Slices : OnePerName(conditions[s])
  /\ \A p \in PoolId : OnePerName(entries[p])
  /\ \A p \in PoolId \ Referenced : entries[p] = {}

\* The number of missing conditions between load and compute, which adds to it.
CountInv ==
  /\ MissingExact
  /\ \A s \in Slices : phase[s] = "loaded" =>
       missing[s] = Cardinality(Missing(s, conditions[s], Raw))

-----------------------------------------------------------------------------
\* A nonempty set of natural numbers has a least element.
LEMMA LeastNumber ==
  ASSUME NEW U \in SUBSET Nat, U # {}
  PROVE  \E v \in U : \A w \in U : v <= w
<1> DEFINE R == OpToRel(<, Nat)
<1>1. IsWellFoundedOn(R, Nat)
  BY NatLessThanWellFounded
<1>2. PICK x \in U : \A y \in U : ~(<<y, x>> \in R)
  <2> HIDE DEF R
  <2> QED BY <1>1, WFMin
<1>3. ASSUME NEW w \in U PROVE x <= w
  <2>1. w \in Nat /\ x \in Nat
    OBVIOUS
  <2>2. ~(w < x)
    BY <1>2, <2>1 DEF OpToRel
  <2> QED BY <2>1, <2>2
<1> QED BY <1>3

\* There is a number for a new pool, and nothing refers to the pool that gets it.
LEMMA NewPoolProperty ==
  ASSUME Invariant, NEW key \in Key
  PROVE  /\ NewPool(key).iov = key /\ NewPool(key).n \in 1 .. MaxId + 1
         /\ NewPool(key) \notin Referenced
<1> DEFINE U == {n \in 1 .. MaxId + 1 : Unused(key, n)}
<1>1. MaxId \in Nat
  BY CacheAssumptions
<1>2. \A p \in Referenced : p.n \in 0 .. MaxId
  BY <1>1 DEF Referenced, Invariant, TypeOK, Condition, Home, PoolId, Unowned
<1>3. MaxId + 1 \in U
  BY <1>1, <1>2 DEF Unused
<1>4. PICK v \in U : \A w \in U : v <= w
  <2>1. U \in SUBSET Nat /\ U # {}
    BY <1>1, <1>3
  <2> HIDE DEF U
  <2> QED BY <2>1, LeastNumber
<1>5. \E n \in 1 .. MaxId + 1 : Unused(key, n) /\ \A m \in 1 .. n - 1 : ~Unused(key, m)
  BY <1>1, <1>4
<1>6. /\ NewPool(key).n \in 1 .. MaxId + 1 /\ Unused(key, NewPool(key).n)
      /\ NewPool(key) = [iov |-> key, n |-> NewPool(key).n]
  BY <1>5 DEF NewPool
<1> QED BY <1>6 DEF Unused

\* registerIOV finds the pool of the map with the key, or gets a new one.
LEMMA RegisterProperty ==
  ASSUME Invariant, NamesInv, NEW key \in Key
  PROVE  /\ registerIOV(key).iov = key /\ registerIOV(key).n > 0
         /\ registerIOV(key) \in elements \/ registerIOV(key) \notin Referenced
         /\ \A p \in elements : p.iov = key => registerIOV(key) = p
<1>1. CASE \E p \in elements : p.iov = key
  <2>1. registerIOV(key) \in elements /\ registerIOV(key).iov = key
    BY <1>1 DEF registerIOV
  <2>2. \A p \in elements : p.iov = key => registerIOV(key) = p
    BY <2>1 DEF NamesInv
  <2>3. registerIOV(key).n > 0
    BY <2>1, CacheAssumptions DEF Invariant, TypeOK, PoolId
  <2> QED BY <2>1, <2>2, <2>3
<1>2. CASE ~\E p \in elements : p.iov = key
  <2>1. registerIOV(key) = NewPool(key)
    BY <1>2 DEF registerIOV
  <2> QED BY <1>2, <2>1, NewPoolProperty, CacheAssumptions
<1> QED BY <1>1, <1>2

\* What is registered with room for its pool gets the pool of its key, which does
\* not have the name, or no pool.
LEMMA SoundHome ==
  ASSUME Invariant, NamesInv, NEW N, SoundAll(N), Owners(N) \subseteq PoolId, NEW x \in N
  PROVE  /\ x.home.iov \in Key
         /\ \/ /\ x.home = registerIOV(x.home.iov) /\ x.home \in PoolId
               /\ x.name \notin Names(entries[x.home])
            \/ /\ x.home = Unowned(x.home.iov)
               /\ registerIOV(x.home.iov) \in elements
               /\ x.name \in Names(entries[registerIOV(x.home.iov)])
<1>1. PICK c \in Name, key \in Key : \E v \in ValueOf(c) : x = Registered(c, v, key)
  BY DEF SoundAll, Sound
<1>2. PICK v : x = Registered(c, v, key)
  BY <1>1
<1>3. x.home.iov = key /\ x.name = c
  BY <1>2, RegisteredProperty
<1> DEFINE p == registerIOV(key)
<1>4. x.home = IF p \in elements /\ c \in Names(entries[p]) THEN Unowned(key) ELSE p
  BY <1>2 DEF Registered
<1>5. CASE p \in elements /\ c \in Names(entries[p])
  BY <1>3, <1>4, <1>5
<1>6. CASE ~(p \in elements /\ c \in Names(entries[p]))
  <2>1. x.home = p /\ p.n > 0
    BY <1>4, <1>6, RegisterProperty
  <2>2. x.home \in PoolId
    <3>1. \A k \in Key : x.home # Unowned(k)
      BY <2>1 DEF Unowned
    <3>2. x.home \in Owners(N)
      BY <3>1 DEF Owners
    <3> QED BY <3>2
  <2>3. c \notin Names(entries[p])
    <3>1. CASE p \in elements
      BY <1>6, <3>1
    <3>2. CASE p \notin elements
      <4>1. entries[p] = {}
        BY <2>1, <2>2, <3>2, RegisterProperty DEF NamesInv
      <4> QED BY <4>1 DEF Names
    <3> QED BY <3>1, <3>2
  <2> HIDE DEF p
  <2> QED BY <1>3, <2>1, <2>2, <2>3 DEF p
<1> QED BY <1>5, <1>6

\* Registering conditions with different names, and dropping pools, leaves one pool
\* for each key and in each pool one condition for each name.
LEMMA CommitNames ==
  ASSUME Invariant, NamesInv,
         NEW N, SoundAll(N), OnePerName(N), NEW dropped, NEW refs, NEW ages,
         Commit(N, dropped, refs, ages),
         \A s \in Slices : OnePerName(conditions'[s])
  PROVE  NamesInv'
<1>1. Owners(N) \subseteq PoolId
  BY DEF Commit
<1>2. \A p \in Owners(N) : p = registerIOV(p.iov)
  BY <1>1, SoundHome DEF Owners
<1>3. \A p \in elements : p.iov \in Key /\ p = registerIOV(p.iov)
  BY RegisterProperty DEF Invariant, TypeOK, PoolId
<1>4. \A p, q \in elements' : p.iov = q.iov => p = q
  BY <1>2, <1>3 DEF Commit
<1>5. ASSUME NEW p \in PoolId PROVE OnePerName(entries'[p])
  <2> DEFINE new == {Object(c) : c \in {x \in N : x.home = p}}
  <2>1. entries'[p] \subseteq entries[p] \cup new
    BY DEF Commit
  <2>2. \A e \in new : e.name \notin Names(entries[p])
    <3> SUFFICES ASSUME NEW c \in N, c.home = p
                 PROVE  Object(c).name \notin Names(entries[p])
      OBVIOUS
    <3>1. p # Unowned(p.iov)
      BY CacheAssumptions DEF PoolId, Unowned
    <3> QED BY <1>1, <3>1, SoundHome DEF Object
  <2>3. OnePerName(new)
    BY DEF OnePerName, Object
  <2>4. OnePerName(entries[p])
    BY DEF NamesInv
  <2> HIDE DEF new
  <2> QED BY <2>1, <2>2, <2>3, <2>4 DEF OnePerName, Names
<1>6. ASSUME NEW p \in PoolId, p \notin Referenced' PROVE entries'[p] = {}
  <2>1. p \notin elements' /\ \A s \in Slices : p \notin used'[s]
    BY <1>6 DEF Referenced
  <2> QED BY <2>1 DEF Commit
<1> QED BY <1>4, <1>5, <1>6 DEF NamesInv

-----------------------------------------------------------------------------
\* Of two pools of a map that both come first for a name, each comes before the
\* other: they are one, and the selection has one condition for each name.
LEMMA SelectionNames ==
  ASSUME Invariant, NamesInv, NEW t \in Times
  PROVE  OnePerName(Selection(t))
<1> SUFFICES ASSUME NEW c \in Selection(t), NEW d \in Selection(t), c.name = d.name
             PROVE  c = d
  BY DEF OnePerName
<1> DEFINE P == Covering(elements, t)
<1>1. \A x \in Selection(t) : \E p \in P : \E e \in entries[p] :
        x = [name |-> e.name, val |-> e.val, home |-> p] /\ IsFirst(p, e.name, P)
  BY DEF Selection
<1>2. PICK p \in P : \E e \in entries[p] :
        c = [name |-> e.name, val |-> e.val, home |-> p] /\ IsFirst(p, e.name, P)
  BY <1>1
<1>3. PICK q \in P : \E f \in entries[q] :
        d = [name |-> f.name, val |-> f.val, home |-> q] /\ IsFirst(q, f.name, P)
  BY <1>1
<1>4. PICK e \in entries[p] :
        c = [name |-> e.name, val |-> e.val, home |-> p] /\ IsFirst(p, e.name, P)
  BY <1>2
<1>5. PICK f \in entries[q] :
        d = [name |-> f.name, val |-> f.val, home |-> q] /\ IsFirst(q, f.name, P)
  BY <1>3
<1>6. e.name = f.name /\ e.name \in Names(entries[q]) /\ f.name \in Names(entries[p])
  BY <1>4, <1>5 DEF Names
<1>7. p \in PoolId /\ q \in PoolId
  BY DEF Covering, Invariant, TypeOK
<1>8. p = q
  <2>1. p = q \/ (Before(p.iov, q.iov) /\ Before(q.iov, p.iov))
    BY <1>4, <1>5, <1>6 DEF IsFirst
  <2> QED BY <1>7, <2>1, KeyLimits DEF Before, PoolId, Key, Key_value
<1>9. e = f
  BY <1>6, <1>7, <1>8 DEF NamesInv, OnePerName
<1> QED BY <1>4, <1>5, <1>8, <1>9

\* Of the pools Q of the map there is one before the others.
LEMMA FirstPool ==
  ASSUME Invariant, NamesInv, NEW Q \in SUBSET elements, Q # {}
  PROVE  \E p \in Q : \A q \in Q : q = p \/ Before(p.iov, q.iov)
<1>1. \A q \in Q : /\ q \in elements /\ q.iov \in Key
                   /\ q.iov.first \in Key_value /\ q.iov.second \in Key_value
  BY DEF Invariant, TypeOK, PoolId, Key
<1> DEFINE F == {q.iov.first : q \in Q}
<1>2. PICK v \in F : \A w \in F : v <= w
  <2>1. F \in SUBSET Key_value /\ F # {}
    BY <1>1
  <2> HIDE DEF F
  <2> QED BY <2>1, LeastValue
<1> DEFINE R == {q \in Q : q.iov.first = v}
           G == {q.iov.second : q \in R}
<1>3. PICK u \in G : \A w \in G : u <= w
  <2>1. G \in SUBSET Key_value /\ G # {}
    BY <1>1, <1>2
  <2> HIDE DEF G
  <2> QED BY <2>1, LeastValue
<1>4. PICK p \in R : p.iov.second = u
  BY <1>3
<1>5. ASSUME NEW q \in Q PROVE q = p \/ Before(p.iov, q.iov)
  <2>1. p.iov.first \in Int /\ q.iov.first \in Int /\ p.iov.second \in Int /\ q.iov.second \in Int
    BY <1>1, KeyLimits DEF Key_value
  <2>2. p.iov.first <= q.iov.first
    BY <1>2
  <2>3. q.iov.first = p.iov.first => p.iov.second <= q.iov.second
    BY <1>3, <1>4
  <2>4. CASE q.iov.first = p.iov.first /\ q.iov.second = p.iov.second
    <3>1. q.iov = p.iov
      BY <1>1, <2>4 DEF Key
    <3> QED BY <1>1, <3>1 DEF NamesInv
  <2>5. CASE ~(q.iov.first = p.iov.first /\ q.iov.second = p.iov.second)
    BY <2>1, <2>2, <2>3, <2>5 DEF Before
  <2> QED BY <2>4, <2>5
<1> QED BY <1>5

\* Whatever a pool that covers the time has, by its name, the selection has.
LEMMA SelectionComplete ==
  ASSUME Invariant, NamesInv, NEW t \in Times, NEW p \in Covering(elements, t),
         NEW c \in Names(entries[p])
  PROVE  c \in Names(Selection(t))
<1> DEFINE P == Covering(elements, t)
           Q == {q \in P : c \in Names(entries[q])}
<1>1. PICK q \in Q : \A r \in Q : r = q \/ Before(q.iov, r.iov)
  <2>1. Q \in SUBSET elements /\ Q # {}
    BY DEF Covering
  <2> HIDE DEF Q
  <2> QED BY <2>1, FirstPool
<1>2. PICK e \in entries[q] : e.name = c
  BY DEF Names
<1>3. IsFirst(q, e.name, P)
  BY <1>1, <1>2 DEF IsFirst
<1>4. [name |-> e.name, val |-> e.val, home |-> q] \in Selection(t)
  BY <1>3 DEF Selection
<1> QED BY <1>2, <1>4 DEF Names

\* The names of what is fetched and computed.
LEMMA NewNames ==
  ASSUME NEW t \in Times, NEW L \in SUBSET Raw
  PROVE  Names(Fetched(L, t)) = L /\ OnePerName(Fetched(L, t))
<1>1. \A k \in L : Registered(k, Truth(k, t), Database[k][t]).name = k
  BY DEF Registered
<1>2. Names(Fetched(L, t)) = L
  BY <1>1 DEF Names, Fetched
<1>3. OnePerName(Fetched(L, t))
  BY <1>1 DEF OnePerName, Fetched
<1> QED BY <1>2, <1>3

\* Computed conditions: one for each key, and of no other.
LEMMA ComputedNames ==
  ASSUME NEW D, NEW C, NEW gone, NEW stray
  PROVE  Names(Computed(D, C, gone, stray)) = D /\ OnePerName(Computed(D, C, gone, stray))
<1> DEFINE x(d) ==
      IF Accessed(d, C) \cap gone = {}
        THEN Registered(d, [k \in Deps[d] |-> Dep(k, C).val[k]],
                        Intersection({c.home.iov : c \in Accessed(d, C)}))
        ELSE Registered(d, [k \in Deps[d] |-> Undefined], stray)
<1>1. \A d \in D : x(d).name = d
  BY DEF Registered
<1>2. Computed(D, C, gone, stray) = {x(d) : d \in D}
  BY DEF Computed
<1> HIDE DEF x
<1> QED BY <1>1, <1>2 DEF Names, OnePerName

\* Names of a union.
LEMMA UnionNames ==
  ASSUME NEW C, NEW D, OnePerName(C), OnePerName(D), Names(C) \cap Names(D) = {}
  PROVE  OnePerName(C \cup D)
BY DEF OnePerName, Names

\* The user pool after selection and load.
LEMMA PoolNames ==
  ASSUME Invariant, NamesInv, NEW t \in Times, NEW L \in SUBSET Raw
  PROVE  OnePerName(Pool(t, L)) /\ Names(Pool(t, L)) = Names(Selection(t)) \cup L
<1> DEFINE more == {c \in Fetched(L, t) : c.name \notin Names(Selection(t))}
<1>1. OnePerName(more) /\ Names(more) = L \ Names(Selection(t))
  BY NewNames DEF OnePerName, Names
<1>2. Pool(t, L) = Selection(t) \cup more
  BY DEF Pool
<1>3. OnePerName(Selection(t) \cup more)
  <2> HIDE DEF more
  <2> QED BY <1>1, SelectionNames, UnionNames
<1>4. Names(Selection(t) \cup more) = Names(Selection(t)) \cup L
  <2> HIDE DEF more
  <2>1. Names(Selection(t) \cup more) = Names(Selection(t)) \cup Names(more)
    BY DEF Names
  <2> QED BY <1>1, <2>1
<1> QED BY <1>2, <1>3, <1>4

-----------------------------------------------------------------------------
\* The names a prepare computes, what it computes, and what it registers.
Tasks(s, t) == ToCompute(Missing(s, Selection(t), Derived))
Results(s, t, L) == Computed(Tasks(s, t), Pool(t, L), {}, Discrete(t))
Additions(s, t, L) == Fetched(L, t) \cup Results(s, t, L)

\* A prepare, with what has been shown of its parts.
LEMMA PrepareParts ==
  ASSUME Invariant, NEW s \in Slices, NEW t \in Times, Prepare(s, t)
  PROVE  \E L \in SUBSET Raw :
           /\ \E dropped, refs : Commit(Additions(s, t, L), dropped, refs, SelectedAge(t))
           /\ SoundAll(Additions(s, t, L)) /\ Owners(Additions(s, t, L)) \subseteq PoolId
           /\ Called(s, Pool(t, L) \cup Results(s, t, L), PoolValidity(t, L),
                     IF flags[s] THEN "held" ELSE "ready", t)
           /\ missing' = [missing EXCEPT ![s] =
                Cardinality(Missing(s, Pool(t, L), Raw))
                  + Cardinality(Missing(s, Selection(t), Derived)) - Cardinality(Tasks(s, t))]
           /\ \A c \in Pool(t, L) \cup Results(s, t, L) : key_contains_range(c.home.iov, Discrete(t))
<1>1. PICK L \in Loads(s, t) :
        LET calc == Missing(s, Selection(t), Derived)
            D    == ToCompute(calc)
            C    == Pool(t, L)
            new  == Computed(D, C, {}, Discrete(t))
            N    == Fetched(L, t) \cup new
        IN  /\ Resolvable(D, C)
            /\ \E dropped \in CleanedBy(elements \cup Owners(N)) :
                 Commit(N, dropped, RefsAfter(s, t, elements \cup Owners(N)), SelectedAge(t))
            /\ Called(s, C \cup new, PoolValidity(t, L), IF flags[s] THEN "held" ELSE "ready", t)
            /\ missing' = [missing EXCEPT ![s] =
                 Cardinality(Missing(s, C, Raw)) + Cardinality(calc) - Cardinality(D)]
  BY DEF Prepare
<1> DEFINE D == Tasks(s, t)
           C == Pool(t, L)
           new == Results(s, t, L)
           N == Additions(s, t, L)
<1>2. /\ Resolvable(D, C)
      /\ \E dropped, refs : Commit(N, dropped, refs, SelectedAge(t))
      /\ Called(s, C \cup new, PoolValidity(t, L), IF flags[s] THEN "held" ELSE "ready", t)
      /\ missing' = [missing EXCEPT ![s] =
           Cardinality(Missing(s, C, Raw))
             + Cardinality(Missing(s, Selection(t), Derived)) - Cardinality(D)]
  BY <1>1 DEF Tasks, Results, Additions
<1>3. L \in SUBSET Raw /\ D \in SUBSET Derived
  BY LoadsType, MissingCount DEF Tasks, ToCompute
<1>4. Owners(N) \subseteq PoolId
  BY <1>2 DEF Commit
<1>5. SoundAll(Fetched(L, t)) /\ Fetched(L, t) \subseteq Condition /\ TolerableAll(Fetched(L, t))
  <2>1. SoundAll(Fetched(L, t))
    BY <1>3, FetchedSound
  <2>2. Owners(Fetched(L, t)) \subseteq PoolId
    BY <1>4, OwnersUnion DEF Additions
  <2> QED BY <2>1, <2>2, SoundCondition
<1>6. C \in SUBSET Condition /\ TolerableAll(C)
  BY <1>5, PoolProperty
<1>7. SoundAll(new)
  <2> HIDE DEF C, D
  <2> QED BY <1>2, <1>3, <1>6, DiscreteKey, ComputedSound DEF Results, C, D
<1>8. SoundAll(N)
  BY <1>5, <1>7, SoundUnion DEF Additions
<1>9. \A c \in C \cup new : key_contains_range(c.home.iov, Discrete(t))
  <2>1. \A c \in C : key_contains_range(c.home.iov, Discrete(t))
    BY <1>3, PoolCovered
  <2>2. \A c \in new : key_contains_range(c.home.iov, Discrete(t))
    BY <1>2, <1>3, <1>6, <2>1, DiscreteKey, ComputedAllCover DEF Results
  <2> QED BY <2>1, <2>2
<1> QED BY <1>2, <1>3, <1>4, <1>8, <1>9

\* The parts of a prepare share no names.
LEMMA PrepareNames ==
  ASSUME Invariant, NamesInv, NEW s \in Slices, NEW t \in Times, NEW L \in SUBSET Raw
  PROVE  /\ OnePerName(Additions(s, t, L))
         /\ OnePerName(Pool(t, L) \cup Results(s, t, L))
         /\ Names(Pool(t, L)) = Names(Selection(t)) \cup L
         /\ Names(Results(s, t, L)) = Tasks(s, t)
         /\ Tasks(s, t) \in SUBSET Derived /\ Tasks(s, t) \cap Names(Selection(t)) = {}
<1>1. Tasks(s, t) \in SUBSET Derived /\ Tasks(s, t) \cap Names(Selection(t)) = {}
  BY DEF Tasks, ToCompute, Missing
<1>2. Names(Results(s, t, L)) = Tasks(s, t) /\ OnePerName(Results(s, t, L))
  BY ComputedNames DEF Results
<1>3. Names(Pool(t, L)) = Names(Selection(t)) \cup L /\ OnePerName(Pool(t, L))
  BY PoolNames
<1>4. Names(Fetched(L, t)) = L /\ OnePerName(Fetched(L, t))
  BY NewNames
<1>5. L \cap Tasks(s, t) = {}
  BY <1>1, CacheAssumptions
<1>6. OnePerName(Additions(s, t, L))
  BY <1>2, <1>4, <1>5, UnionNames DEF Additions
<1>7. OnePerName(Pool(t, L) \cup Results(s, t, L))
  BY <1>1, <1>2, <1>3, <1>5, UnionNames
<1> QED BY <1>1, <1>2, <1>3, <1>6, <1>7

\* A call that gives its slice the conditions C keeps the names apart.
LEMMA CalledNames ==
  ASSUME Invariant, NamesInv, NEW s \in Slices,
         NEW N, SoundAll(N), OnePerName(N), NEW dropped, NEW refs, NEW ages,
         Commit(N, dropped, refs, ages),
         NEW C, OnePerName(C), conditions' = [conditions EXCEPT ![s] = C]
  PROVE  NamesInv'
<1>1. \A r \in Slices : OnePerName(conditions'[r])
  BY DEF NamesInv, Invariant, TypeOK
<1> QED BY <1>1, CommitNames

\* Computing adds no condition of a key that is there.
LEMMA ComputeNames ==
  ASSUME Invariant, NamesInv, NEW s \in Slices, Compute(s)
  PROVE  NamesInv'
<1> DEFINE C == conditions[s]
           D == ToCompute(Missing(s, C, Derived))
           t == required[s]
<1>1. PICK stray \in {p.iov : p \in Referenced} \cup {Discrete(t)} :
        LET new == Computed(D, C, Gone(s), stray)
        IN  /\ phase[s] = "loaded" /\ Resolvable(D, C)
            /\ \E dropped, refs : Commit(new, dropped, refs, age)
            /\ conditions' = [conditions EXCEPT ![s] = C \cup new]
  BY DEF Compute, Called
<1> DEFINE new == Computed(D, C, Gone(s), stray)
<1>2. t \in Times /\ C \in SUBSET Condition /\ TolerableAll(C) /\ D \in SUBSET Derived
  BY <1>1, MissingCount DEF ToCompute, Invariant, Requested, TypeOK, Settled, TolerableAll
<1>3. stray \in Key
  <2>1. \A p \in Referenced : p.iov \in Key
    BY DEF Referenced, Invariant, TypeOK, Condition, Home, PoolId, Unowned
  <2> QED BY <1>2, <2>1, DiscreteKey
<1>4. Resolvable(D, C)
  BY <1>1
<1>5. SoundAll(new)
  <2> HIDE DEF C, D
  <2> QED BY <1>2, <1>3, <1>4, ComputedSound
<1>6. Names(new) = D /\ OnePerName(new)
  <2> HIDE DEF C, D
  <2> QED BY ComputedNames
<1>7. D \cap Names(C) = {}
  BY DEF ToCompute, Missing
<1>8. OnePerName(C \cup new)
  <2>1. OnePerName(C)
    BY DEF NamesInv
  <2> HIDE DEF C, D, new
  <2> QED BY <1>6, <1>7, <2>1, UnionNames
<1>9. PICK dropped, refs : Commit(new, dropped, refs, age)
  BY <1>1
<1>10. conditions' = [conditions EXCEPT ![s] = C \cup new]
  BY <1>1
<1> HIDE DEF C, new
<1> QED BY <1>5, <1>6, <1>8, <1>9, <1>10, CalledNames

\* Every step keeps the keys of the slices apart.
LEMMA NamesStep == Invariant /\ NamesInv /\ [Next]_vars => NamesInv'
<1> SUFFICES ASSUME Invariant, NamesInv, [Next]_vars PROVE NamesInv'
  OBVIOUS
<1>1. ASSUME NEW s \in OneStep, NEW t \in Times, Prepare(s, t) PROVE NamesInv'
  <2>1. s \in Slices
    BY CacheAssumptions
  <2>2. PICK L \in SUBSET Raw :
          /\ \E dropped, refs : Commit(Additions(s, t, L), dropped, refs, SelectedAge(t))
          /\ SoundAll(Additions(s, t, L))
          /\ conditions' = [conditions EXCEPT ![s] = Pool(t, L) \cup Results(s, t, L)]
    BY <1>1, <2>1, PrepareParts DEF Called
  <2>3. OnePerName(Additions(s, t, L)) /\ OnePerName(Pool(t, L) \cup Results(s, t, L))
    BY <2>1, PrepareNames
  <2> QED BY <2>1, <2>2, <2>3, CalledNames
<1>2. ASSUME NEW s \in Slices, NEW t \in Times, PrepareFails(s, t) \/ Load(s, t) PROVE NamesInv'
  <2>1. PICK L \in Loads(s, t) :
          /\ Commit(Fetched(L, t), {}, used, SelectedAge(t))
          /\ conditions' = [conditions EXCEPT ![s] = Pool(t, L)]
    BY <1>2 DEF PrepareFails, Load, Called
  <2>2. L \in SUBSET Raw
    BY LoadsType
  <2>3. SoundAll(Fetched(L, t)) /\ OnePerName(Fetched(L, t)) /\ OnePerName(Pool(t, L))
    BY <2>2, FetchedSound, NewNames, PoolNames
  <2> QED BY <2>1, <2>3, CalledNames
<1>3. ASSUME NEW s \in Slices, Compute(s) PROVE NamesInv'
  BY <1>3, ComputeNames
<1>4. SoundAll({}) /\ OnePerName({}) /\ \A s \in Slices : OnePerName(conditions[s])
  BY NothingSound DEF OnePerName, NamesInv
<1>5. ASSUME NEW s \in Slices, DerefPools(s) \/ Reset(s) PROVE NamesInv'
  <2>1. /\ Commit({}, {}, Released(s), age)
        /\ conditions' = conditions \/ conditions' = [conditions EXCEPT ![s] = {}]
    BY <1>5 DEF DerefPools, Reset
  <2>2. \A r \in Slices : OnePerName(conditions'[r])
    BY <1>4, <2>1 DEF Invariant, TypeOK
  <2> QED BY <1>4, <2>1, <2>2, CommitNames
<1>6. ASSUME NEW k \in Raw, NEW t \in Times, Populate(k, t) PROVE NamesInv'
  <2>1. SoundAll(Fetched({k}, t)) /\ OnePerName(Fetched({k}, t))
    BY FetchedSound, NewNames
  <2>2. Commit(Fetched({k}, t), {}, used, age) /\ conditions' = conditions
    BY <1>6 DEF Populate, sliceVars
  <2> QED BY <1>4, <2>1, <2>2, CommitNames
<1>7. ASSUME NEW dropped, Commit({}, dropped, used, age), UNCHANGED sliceVars
      PROVE  NamesInv'
  BY <1>4, <1>7, CommitNames DEF sliceVars
<1>8. ASSUME UNCHANGED <<elements, entries, used, conditions>> PROVE NamesInv'
  BY <1>8 DEF NamesInv, Referenced
<1> QED BY <1>1, <1>2, <1>3, <1>5, <1>6, <1>7, <1>8, CacheAssumptions
        DEF Next, ComputeFails, RefPools, CleanPolicy, CleanAged, vars

\* The keys of the slices are apart in every reachable state.
LEMMA NamesInvariant == Spec => []NamesInv
<1>1. Init => NamesInv
  BY DEF Init, NamesInv, OnePerName
<1> QED BY <1>1, NamesStep, Inductive, PTL DEF Spec

-----------------------------------------------------------------------------
\* What a slice lacks is what it lacks of either kind.
LEMMA MissingSplit ==
  ASSUME NEW s \in Slices, NEW C
  PROVE  Cardinality(Wanted[s] \ Names(C))
           = Cardinality(Missing(s, C, Raw)) + Cardinality(Missing(s, C, Derived))
<1> DEFINE R == Missing(s, C, Raw)
           D == Missing(s, C, Derived)
<1>1. Wanted[s] \ Names(C) = R \cup D /\ R \cap D = {}
  BY CacheAssumptions DEF Missing, Name
<1>2. IsFiniteSet(R) /\ IsFiniteSet(D)
  BY MissingCount, CacheAssumptions, FS_Subset
<1>3. Cardinality(R) \in Nat /\ Cardinality(D) \in Nat /\ Cardinality({}) = 0
  BY MissingCount
<1>4. Cardinality(R \cup D) = Cardinality(R) + Cardinality(D) - Cardinality(R \cap D)
  BY <1>2, FS_Union
<1>5. Cardinality(Wanted[s] \ Names(C)) = Cardinality(R) + Cardinality(D)
  <2>1. Cardinality(R \cap D) = 0 /\ Cardinality(Wanted[s] \ Names(C)) = Cardinality(R \cup D)
    BY <1>1, <1>3
  <2> HIDE DEF R, D
  <2> QED BY <1>3, <1>4, <2>1
<1> QED BY <1>5

\* The number left after all or none of the missing derived conditions, calc, were
\* computed to what a user pool C has.
LEMMA MissingAfter ==
  ASSUME NEW s \in Slices, NEW C, NEW new,
         Names(new) = ToCompute(Missing(s, C, Derived))
  PROVE  Cardinality(Wanted[s] \ Names(C \cup new))
           = Cardinality(Missing(s, C, Raw))
               + Cardinality(Missing(s, C, Derived)) - Cardinality(Names(new))
<1> DEFINE calc == Missing(s, C, Derived)
           left == Missing(s, C \cup new, Derived)
<1>1. Names(C \cup new) = Names(C) \cup Names(new)
  BY DEF Names
<1>2. Missing(s, C \cup new, Raw) = Missing(s, C, Raw)
  <2>1. Names(new) \cap Raw = {}
    BY CacheAssumptions DEF ToCompute, Missing
  <2> QED BY <1>1, <2>1 DEF Missing
<1>3. /\ Cardinality(calc) \in Nat /\ Cardinality(Missing(s, C, Raw)) \in Nat
      /\ Cardinality({}) = 0
  BY MissingCount
<1>4. CASE Names(new) = calc
  <2>1. left = {}
    BY <1>1, <1>4 DEF Missing
  <2>2. Cardinality(Wanted[s] \ Names(C \cup new)) = Cardinality(Missing(s, C, Raw)) + 0
    BY <1>2, <1>3, <2>1, MissingSplit
  <2> HIDE DEF calc
  <2> QED BY <1>3, <1>4, <2>2 DEF calc
<1>5. CASE Names(new) = {}
  <2>1. left = calc
    BY <1>1, <1>5 DEF Missing
  <2>2. Cardinality(Wanted[s] \ Names(C \cup new))
          = Cardinality(Missing(s, C, Raw)) + Cardinality(calc)
    BY <1>2, <2>1, MissingSplit
  <2> HIDE DEF calc
  <2> QED BY <1>3, <1>5, <2>2 DEF calc
<1> QED BY <1>4, <1>5 DEF ToCompute

\* Every step keeps the counts of what is missing.
LEMMA CountStep ==
  ASSUME Invariant, NamesInv, CountInv, [Next]_vars
  PROVE  CountInv'
<1> DEFINE Exact(s) == Cardinality(Wanted[s] \ Names(conditions[s]))
           Loaded(s) == Cardinality(Missing(s, conditions[s], Raw))
           Kept(s) == UNCHANGED <<conditions[s], missing[s]>>
                      /\ (phase'[s] = phase[s]
                          \/ phase'[s] \in {"empty", "failed"}
                          \/ (phase'[s] = "ready" /\ phase[s] \in {"held", "split"}))
           Right(s) == /\ phase'[s] \in {"ready", "held", "split"} => missing'[s] = Exact(s)'
                       /\ phase'[s] = "loaded" => missing'[s] = Loaded(s)'
<1>1. ASSUME NEW s \in Slices, Kept(s) PROVE Right(s)
  BY <1>1 DEF CountInv, MissingExact, Missing, Names
<1>2. ASSUME NEW s \in OneStep, NEW t \in Times, Prepare(s, t)
      PROVE  \A r \in Slices : Kept(r) \/ Right(r)
  <2>1. s \in Slices
    BY CacheAssumptions
  <2>2. PICK L \in SUBSET Raw :
          /\ Called(s, Pool(t, L) \cup Results(s, t, L), PoolValidity(t, L),
                    IF flags[s] THEN "held" ELSE "ready", t)
          /\ missing' = [missing EXCEPT ![s] =
               Cardinality(Missing(s, Pool(t, L), Raw))
                 + Cardinality(Missing(s, Selection(t), Derived)) - Cardinality(Tasks(s, t))]
    BY <1>2, <2>1, PrepareParts
  <2> DEFINE C == Pool(t, L)
             new == Results(s, t, L)
  <2>3. Names(C) = Names(Selection(t)) \cup L /\ Names(new) = Tasks(s, t)
    BY <2>1, PrepareNames
  <2>4. Missing(s, Selection(t), Derived) = Missing(s, C, Derived)
    <3>1. L \cap Derived = {}
      BY CacheAssumptions
    <3> HIDE DEF C
    <3> QED BY <2>3, <3>1 DEF Missing
  <2>5. Cardinality(Wanted[s] \ Names(C \cup new))
          = Cardinality(Missing(s, C, Raw))
              + Cardinality(Missing(s, C, Derived)) - Cardinality(Names(new))
    <3> HIDE DEF C, new
    <3> QED BY <2>1, <2>3, <2>4, MissingAfter DEF Tasks
  <2>6. conditions'[s] = C \cup new /\ phase'[s] \in {"held", "ready"}
        /\ missing'[s] = Cardinality(Wanted[s] \ Names(C \cup new))
    <3>1. conditions'[s] = C \cup new /\ phase'[s] \in {"held", "ready"}
      BY <2>1, <2>2 DEF Called, Invariant, TypeOK
    <3>2. missing'[s] = Cardinality(Missing(s, C, Raw))
                          + Cardinality(Missing(s, C, Derived)) - Cardinality(Names(new))
      BY <2>1, <2>2, <2>3, <2>4 DEF Invariant, TypeOK
    <3> QED BY <2>5, <3>1, <3>2
  <2>7. Right(s)
    <3> HIDE DEF C, new
    <3> QED BY <2>6 DEF Names
  <2>8. ASSUME NEW r \in Slices, r # s PROVE Kept(r)
    BY <2>1, <2>2, <2>8 DEF Called, Invariant, TypeOK
  <2> QED BY <2>7, <2>8
<1>3. ASSUME NEW s \in Slices, NEW t \in Times, PrepareFails(s, t)
      PROVE  \A r \in Slices : Kept(r) \/ Right(r)
  BY <1>3 DEF PrepareFails, Called, Invariant, TypeOK
<1>4. ASSUME NEW s \in Slices, NEW t \in Times, Load(s, t)
      PROVE  \A r \in Slices : Kept(r) \/ Right(r)
  <2>1. PICK L \in Loads(s, t) :
          /\ Called(s, Pool(t, L), PoolValidity(t, L), "loaded", t)
          /\ missing' = [missing EXCEPT ![s] = Cardinality(Missing(s, Pool(t, L), Raw))]
    BY <1>4 DEF Load
  <2>2. Right(s)
    BY <2>1 DEF Called, Invariant, TypeOK, Missing, Names
  <2>3. ASSUME NEW r \in Slices, r # s PROVE Kept(r)
    BY <2>1, <2>3 DEF Called, Invariant, TypeOK
  <2> QED BY <2>2, <2>3
<1>5. ASSUME NEW s \in Slices, Compute(s)
      PROVE  \A r \in Slices : Kept(r) \/ Right(r)
  <2> DEFINE C == conditions[s]
             D == ToCompute(Missing(s, C, Derived))
  <2>1. PICK stray :
          LET new == Computed(D, C, Gone(s), stray)
          IN  /\ phase[s] = "loaded"
              /\ Called(s, C \cup new, validity[s], IF flags[s] THEN "split" ELSE "ready", required[s])
              /\ missing' = [missing EXCEPT ![s] =
                   Accumulated(@, Cardinality(Missing(s, C, Derived)) - Cardinality(D))]
    BY <1>5 DEF Compute
  <2> DEFINE new == Computed(D, C, Gone(s), stray)
  <2>2. Names(new) = D
    <3> HIDE DEF C, D
    <3> QED BY ComputedNames
  <2>3. Cardinality(Wanted[s] \ Names(C \cup new))
          = Cardinality(Missing(s, C, Raw))
              + Cardinality(Missing(s, C, Derived)) - Cardinality(D)
    <3>1. Names(new) = ToCompute(Missing(s, C, Derived))
      BY <2>2
    <3> HIDE DEF C, new
    <3> QED BY <2>2, <3>1, MissingAfter
  <2>4. conditions'[s] = C \cup new /\ phase'[s] \in {"split", "ready"}
    <3>1. Called(s, C \cup new, validity[s], IF flags[s] THEN "split" ELSE "ready", required[s])
      BY <2>1
    <3> HIDE DEF new, C
    <3> QED BY <3>1 DEF Called, Invariant, TypeOK
  <2>5. missing'[s] = missing[s] + (Cardinality(Missing(s, C, Derived)) - Cardinality(D))
    BY <2>1 DEF Accumulated, Invariant, TypeOK
  <2>6. missing[s] = Cardinality(Missing(s, C, Raw))
    BY <2>1 DEF CountInv
  <2>7. /\ Cardinality(Missing(s, C, Raw)) \in Nat /\ Cardinality(Missing(s, C, Derived)) \in Nat
        /\ Cardinality(D) \in Nat
    BY MissingCount DEF ToCompute
  <2>8. missing'[s] = Cardinality(Wanted[s] \ Names(C \cup new))
    <3> HIDE DEF C, D, new
    <3> QED BY <2>3, <2>5, <2>6, <2>7
  <2>9. Right(s)
    <3> HIDE DEF C, new
    <3> QED BY <2>4, <2>8 DEF Names
  <2>10. ASSUME NEW r \in Slices, r # s PROVE Kept(r)
    BY <2>1, <2>10 DEF Called, Invariant, TypeOK
  <2> QED BY <2>9, <2>10
<1>6. ASSUME NEW s \in Slices, ComputeFails(s)
      PROVE  \A r \in Slices : Kept(r) \/ Right(r)
  BY <1>6 DEF ComputeFails, Invariant, TypeOK
<1>7. ASSUME NEW s \in Slices, RefPools(s) \/ DerefPools(s)
      PROVE  \A r \in Slices : Kept(r) \/ Right(r)
  BY <1>7 DEF RefPools, DerefPools, Invariant, TypeOK
<1>8. ASSUME NEW s \in Slices, Reset(s)
      PROVE  \A r \in Slices : Kept(r) \/ Right(r)
  BY <1>8 DEF Reset, Invariant, TypeOK
<1>9. ASSUME UNCHANGED sliceVars
      PROVE  \A r \in Slices : Kept(r) \/ Right(r)
  BY <1>9 DEF sliceVars
<1>10. \A r \in Slices : Kept(r) \/ Right(r)
  <2> HIDE DEF Kept, Right
  <2> QED BY <1>2, <1>3, <1>4, <1>5, <1>6, <1>7, <1>8, <1>9, CacheAssumptions
          DEF Next, Populate, CleanPolicy, CleanAged, vars, sliceVars
<1>11. \A r \in Slices : Right(r)
  <2> HIDE DEF Kept, Right
  <2> QED BY <1>1, <1>10
<1> QED BY <1>11 DEF CountInv, MissingExact

\* status.missing is the number of wanted conditions that the prepared slice lacks,
\* in one step and accumulated over two.
THEOREM CountsMissing == Spec => []MissingExact
<1>1. Init => CountInv
  BY DEF Init, CountInv, MissingExact
<1>2. CountInv => MissingExact
  BY DEF CountInv
<1>3. Invariant /\ NamesInv /\ CountInv /\ [Next]_vars => CountInv'
  BY CountStep
<1> QED BY <1>1, <1>2, <1>3, Inductive, NamesInvariant, PTL DEF Spec

-----------------------------------------------------------------------------
\* A registration that is refused was for a name the selection has, if the pool
\* covers the time selected for.
LEMMA PrepareOwnsAll ==
  ASSUME Invariant, NamesInv, NEW s \in Slices, NEW t \in Times, Prepare(s, t)
  PROVE  \A c \in conditions'[s] : c \in Selection(t) \/ c.home.n > 0
<1>1. PICK L \in SUBSET Raw :
        /\ SoundAll(Additions(s, t, L)) /\ Owners(Additions(s, t, L)) \subseteq PoolId
        /\ Called(s, Pool(t, L) \cup Results(s, t, L), PoolValidity(t, L),
                  IF flags[s] THEN "held" ELSE "ready", t)
        /\ \A c \in Pool(t, L) \cup Results(s, t, L) : key_contains_range(c.home.iov, Discrete(t))
  BY PrepareParts
<1>2. conditions'[s] = Pool(t, L) \cup Results(s, t, L)
  BY <1>1 DEF Called, Invariant, TypeOK
<1> SUFFICES ASSUME NEW c \in Pool(t, L) \cup Results(s, t, L), c \notin Selection(t)
             PROVE  c.home.n > 0
  BY <1>2
<1>3. c \in Additions(s, t, L) /\ c.name \notin Names(Selection(t))
  <2>1. CASE c \in Results(s, t, L)
    <3>1. c.name \in Names(Results(s, t, L))
      BY <2>1 DEF Names
    <3> QED BY <2>1, <3>1, PrepareNames DEF Additions
  <2>2. CASE c \in Pool(t, L)
    BY <2>2 DEF Pool, Additions
  <2> QED BY <2>1, <2>2
<1> DEFINE p == registerIOV(c.home.iov)
<1>4. c.home.iov \in Key /\ p.iov = c.home.iov
  BY <1>1, <1>3, SoundHome, RegisterProperty
<1>5. ~(p \in elements /\ c.name \in Names(entries[p]))
  <2> SUFFICES ASSUME p \in elements, c.name \in Names(entries[p]) PROVE FALSE
    OBVIOUS
  <2>1. p \in Covering(elements, t)
    <3> HIDE DEF p
    <3> QED BY <1>1, <1>4 DEF Covering
  <2> HIDE DEF p
  <2> QED BY <1>3, <2>1, SelectionComplete
<1>6. c.home \in PoolId
  BY <1>1, <1>3, <1>5, SoundHome
<1> QED BY <1>6, CacheAssumptions DEF PoolId

\* Every condition prepare adds to a slice enters a pool: it cannot be refused as a
\* clash, since a pool of the interval with the name would have been selected from.
THEOREM PrepareNeverLeaks == Spec => PrepareOwns
<1>1. Invariant /\ NamesInv /\ [Next]_vars =>
        [\A s \in OneStep, t \in Times : Prepare(s, t) =>
           \A c \in conditions'[s] : c \in Selection(t) \/ c.home.n > 0]_vars
  BY PrepareOwnsAll, CacheAssumptions
<1> QED BY <1>1, Inductive, NamesInvariant, PTL DEF Spec, PrepareOwns

-----------------------------------------------------------------------------
(***************************************************************************)
(* The cache implements module ConditionsService.                          *)
(***************************************************************************)
\* What the client of a held slice sees: all its conditions are alive.
Held(s) == [time |-> required[s], readable |-> {Object(c) : c \in conditions[s]},
            missing |-> missing[s]]

\* What the service shows of a held slice.
LEMMA ViewOfHeld ==
  ASSUME HeldAlive
  PROVE  view = [s \in Slices |-> IF phase[s] = "held" THEN Held(s) ELSE Service!NotHeld]
<1>1. \A s \in Slices : phase[s] = "held" => Readable(s) = {Object(c) : c \in conditions[s]}
  BY DEF HeldAlive, Readable
<1> QED BY <1>1 DEF view, Held, Service!NotHeld

\* A step after which the slices r # s are held or not, as before, and look the same.
LEMMA ViewExcept ==
  ASSUME HeldAlive, HeldAlive', NEW s \in Slices,
         \A r \in Slices \ {s} :
           /\ conditions'[r] = conditions[r] /\ missing'[r] = missing[r]
           /\ required'[r] = required[r] /\ phase'[r] = phase[r]
  PROVE  view' = [view EXCEPT ![s] = IF phase'[s] = "held" THEN Held(s)' ELSE Service!NotHeld]
<1> DEFINE new == IF phase'[s] = "held" THEN Held(s)' ELSE Service!NotHeld
<1>1. view = [r \in Slices |-> IF phase[r] = "held" THEN Held(r) ELSE Service!NotHeld]
  BY ViewOfHeld
<1>2. view' = [r \in Slices |-> IF phase'[r] = "held" THEN Held(r)' ELSE Service!NotHeld]
  <2>1. \A r \in Slices : phase'[r] = "held" =>
          Readable(r)' = {Object(c) : c \in conditions'[r]}
    BY DEF HeldAlive, Readable, Object
  <2> QED BY <2>1 DEF view, Held, Service!NotHeld, Object
<1>3. \A r \in Slices \ {s} : Held(r)' = Held(r) /\ phase'[r] = phase[r]
  BY DEF Held, Object
<1> HIDE DEF Held
<1> QED BY <1>1, <1>2, <1>3

\* The service counts as the cache does.
LEMMA ServiceCounts == \A S : Service!Cardinality(S) = Cardinality(S)
BY DEF Service!Cardinality, Cardinality

\* What a slice prepared for t has is an answer for t.
LEMMA PrepareAnswers ==
  ASSUME Invariant, Invariant', Coherent', NamesInv', CountInv', HeldAlive, HeldAlive',
         NEW s \in Slices, NEW t \in Times, Prepare(s, t), phase'[s] = "held"
  PROVE  Service!Serve(s, t)
<1>1. PICK L \in SUBSET Raw :
        /\ Called(s, Pool(t, L) \cup Results(s, t, L), PoolValidity(t, L),
                  IF flags[s] THEN "held" ELSE "ready", t)
        /\ missing' = [missing EXCEPT ![s] =
             Cardinality(Missing(s, Pool(t, L), Raw))
               + Cardinality(Missing(s, Selection(t), Derived)) - Cardinality(Tasks(s, t))]
        /\ \A c \in Pool(t, L) \cup Results(s, t, L) : key_contains_range(c.home.iov, Discrete(t))
  BY PrepareParts
<1>2. view' = [view EXCEPT ![s] = Held(s)']
  <2>1. \A r \in Slices \ {s} :
          /\ conditions'[r] = conditions[r] /\ missing'[r] = missing[r]
          /\ required'[r] = required[r] /\ phase'[r] = phase[r]
    BY <1>1 DEF Called, Invariant, TypeOK
  <2> QED BY <2>1, ViewExcept
<1>3. view'[s] = Held(s)' /\ required'[s] = t
  BY <1>1, <1>2 DEF Called, Invariant, TypeOK, view
<1> DEFINE R == {Object(c) : c \in conditions'[s]}
<1>4. view'[s] = [time |-> t, readable |-> R, missing |-> missing'[s]]
  BY <1>3 DEF Held, Object
<1>5. R \subseteq Answers[t]
  <2> SUFFICES ASSUME NEW c \in conditions'[s] PROVE Object(c) \in Answers[t]
    OBVIOUS
  <2>1. c \in Condition /\ Faithful(c.val, c.home.iov)
    BY DEF Invariant, TypeOK, Coherent
  <2>2. key_contains_range(c.home.iov, Discrete(t)) /\ DOMAIN c.val = DOMAIN Object(c).val
    BY <1>1 DEF Called, Invariant, TypeOK, Object
  <2>3. Object(c) \in Entry
    BY <2>1 DEF Object, Entry, Condition
  <2> QED BY <2>1, <2>2, <2>3 DEF Answers, Faithful, Object
<1>6. \A c, d \in R : c.name = d.name => c = d
  BY DEF NamesInv, OnePerName, Object
<1>7. missing'[s] = Cardinality(Wanted[s] \ {c.name : c \in R})
  <2>1. {c.name : c \in R} = Names(conditions'[s])
    <3>1. \A c : Object(c).name = c.name
      BY DEF Object
    <3> QED BY <3>1 DEF Names
  <2> QED BY <2>1 DEF CountInv, MissingExact, Names
<1>8. Service!Answer(s, t, view'[s].readable, view'[s].missing)
  <2>1. view'[s].readable = R /\ view'[s].missing = missing'[s]
    BY <1>4
  <2>2. Service!Answer(s, t, R, missing'[s])
    <3> HIDE DEF R
    <3> QED BY <1>5, <1>6, <1>7, ServiceCounts DEF Service!Answer
  <2> HIDE DEF R
  <2> QED BY <2>1, <2>2
<1>9. view' = [view EXCEPT ![s] =
        [time |-> t, readable |-> view'[s].readable, missing |-> view'[s].missing]]
  <2>1. view'[s].readable = R /\ view'[s].missing = missing'[s]
    BY <1>4
  <2> HIDE DEF R
  <2> QED BY <1>2, <1>3, <1>4, <2>1
<1> QED BY <1>8, <1>9 DEF Service!Serve

\* A step that leaves its slice not held is a release, one that leaves all slices
\* alone is no step of the service.
LEMMA StepReleases ==
  ASSUME HeldAlive, HeldAlive', NEW s \in Slices, phase'[s] # "held",
         \A r \in Slices \ {s} :
           /\ conditions'[r] = conditions[r] /\ missing'[r] = missing[r]
           /\ required'[r] = required[r] /\ phase'[r] = phase[r]
  PROVE  Service!Release(s)
BY ViewExcept DEF Service!Release

\* Steps the service does not see.
LEMMA StepStutters ==
  ASSUME HeldAlive, HeldAlive', UNCHANGED <<conditions, missing, required, phase>>
  PROVE  UNCHANGED view
<1>1. \A s \in Slices : phase'[s] = "held" => Readable(s)' = {Object(c) : c \in conditions'[s]}
  BY DEF HeldAlive, Readable, Object
<1>2. \A s \in Slices : phase[s] = "held" => Readable(s) = {Object(c) : c \in conditions[s]}
  BY DEF HeldAlive, Readable
<1>3. \A s \in Slices : phase[s] = "held" => Readable(s)' = Readable(s)
  BY <1>1, <1>2
<1> HIDE DEF Readable
<1> QED BY <1>3 DEF view

\* Every step is a step of the service, or one it does not see.
LEMMA ServiceStep ==
  ASSUME Invariant, Invariant', Coherent', NamesInv', CountInv', HeldAlive, HeldAlive',
         [Next]_vars
  PROVE  [Service!Next]_view
<1> DEFINE Others(s) == \A r \in Slices \ {s} :
             /\ conditions'[r] = conditions[r] /\ missing'[r] = missing[r]
             /\ required'[r] = required[r] /\ phase'[r] = phase[r]
<1>1. ASSUME NEW s \in OneStep, NEW t \in Times, Prepare(s, t) PROVE Service!Next
  <2>1. s \in Slices
    BY CacheAssumptions
  <2>2. CASE phase'[s] = "held"
    BY <1>1, <2>1, <2>2, PrepareAnswers DEF Service!Next
  <2>3. CASE phase'[s] # "held"
    <3>1. Others(s)
      BY <1>1 DEF Prepare, Called, Invariant, TypeOK
    <3> QED BY <2>1, <2>3, <3>1, StepReleases DEF Service!Next
  <2> QED BY <2>2, <2>3
<1>2. ASSUME NEW s \in Slices, phase'[s] # "held", Others(s) PROVE Service!Next
  BY <1>2, StepReleases DEF Service!Next
<1>3. ASSUME NEW s \in Slices, NEW t \in Times, PrepareFails(s, t) \/ Load(s, t)
      PROVE  Service!Next
  <2>1. phase'[s] # "held" /\ Others(s)
    BY <1>3 DEF PrepareFails, Load, Called, Invariant, TypeOK
  <2> HIDE DEF Others
  <2> QED BY <1>2, <2>1
<1>4. ASSUME NEW s \in Slices, Compute(s) \/ ComputeFails(s) PROVE Service!Next
  <2>1. CASE Compute(s)
    <3>1. \E C, n : /\ Called(s, C, validity[s], IF flags[s] THEN "split" ELSE "ready", required[s])
                    /\ missing' = [missing EXCEPT ![s] = n]
      BY <2>1 DEF Compute
    <3>2. phase'[s] # "held" /\ Others(s)
      BY <3>1 DEF Called, Invariant, TypeOK
    <3> HIDE DEF Others
    <3> QED BY <1>2, <3>2
  <2>2. CASE ComputeFails(s)
    <3>1. phase'[s] # "held" /\ Others(s)
      BY <2>2 DEF ComputeFails, Invariant, TypeOK
    <3> HIDE DEF Others
    <3> QED BY <1>2, <3>1
  <2> QED BY <1>4, <2>1, <2>2
<1>5. ASSUME NEW s \in Slices, DerefPools(s) \/ Reset(s) PROVE Service!Next
  <2>1. phase'[s] # "held" /\ Others(s)
    BY <1>5 DEF DerefPools, Reset, Invariant, TypeOK
  <2> HIDE DEF Others
  <2> QED BY <1>2, <2>1
<1>6. ASSUME UNCHANGED <<conditions, missing, required, phase>> PROVE UNCHANGED view
  BY <1>6, StepStutters
<1> HIDE DEF Others
<1> QED BY <1>1, <1>3, <1>4, <1>5, <1>6, CacheAssumptions
        DEF Next, RefPools, Populate, CleanPolicy, CleanAged, vars, sliceVars

\* A slice prepared with REF_POOLS answers for its time, and goes on to give the
\* same answer until its own client calls again or lets go of it: every client of
\* the store can be told of module ConditionsService and of nothing else, if no
\* client computes over conditions a cleanup has deleted since its load.
THEOREM ServesClients == TimelySpec => ServesConditions
<1>1. Init => Service!Init
  BY DEF Init, Service!Init, Service!NotHeld, view
<1>2. Init => CountInv
  BY DEF Init, CountInv, MissingExact
<1>3. Invariant /\ NamesInv /\ CountInv /\ [Next]_vars => CountInv'
  BY CountStep
<1>4. /\ Invariant /\ Invariant' /\ Coherent' /\ NamesInv' /\ CountInv'
      /\ HeldAlive /\ HeldAlive' /\ [Next]_vars
      => [Service!Next]_view
  BY ServiceStep
<1> QED BY <1>1, <1>2, <1>3, <1>4, Inductive, NamesInvariant, HeldStaysAlive, Coherence,
        TimelyImplements, PTL DEF Spec, ServesConditions, Service!Spec
=============================================================================
