------------------------ MODULE ConditionsCacheProofs ------------------------
(***************************************************************************)
(* Proofs about ConditionsCache, for every number of slices, conditions    *)
(* and times and every database: the types, and that the cache is          *)
(* coherent.  The types and the truth of what is defined are one inductive *)
(* invariant of Spec; that nothing is undefined is one of TimelySpec.      *)
(***************************************************************************)
EXTENDS ConditionsCache, IovProofs, FiniteSetTheorems

\* A slice that is not empty has been prepared for a time.
Requested == \A s \in Slices : phase[s] # "empty" => required[s] \in Times

\* A value that is true for the times of key, where it is defined: what compute
\* makes of a deleted condition is not.
Tolerable(val, key) ==
  \A k \in DOMAIN val, t \in Times :
    key_contains_range(key, Discrete(t)) => val[k] \in {Database[k][t], Undefined}

Settled ==
  /\ \A p \in PoolId : \A e \in entries[p] : Tolerable(e.val, p.iov)
  /\ \A s \in Slices : \A c \in conditions[s] : Tolerable(c.val, c.home.iov)

Invariant == TypeOK /\ Settled /\ Requested

TolerableAll(C) == \A c \in C : Tolerable(c.val, c.home.iov)

\* A condition about to be registered with a value that is true for its IOV.
Sound(x) ==
  \E c \in Name, key \in Key : \E val \in ValueOf(c) :
    x = Registered(c, val, key) /\ Tolerable(val, key)

SoundAll(N) == \A x \in N : Sound(x)

-----------------------------------------------------------------------------
\* Inputs and values of the names.
LEMMA NameValues ==
  ASSUME NEW c \in Name
  PROVE  Inputs(c) \in SUBSET Raw /\ ValueOf(c) \subseteq Value
<1>1. Inputs(c) \in SUBSET Raw
  BY CacheAssumptions DEF Inputs, Name
<1> QED BY <1>1 DEF Value

\* Discrete IOVs of the times are keys.
LEMMA DiscreteKey ==
  ASSUME NEW t \in Times
  PROVE  Discrete(t) \in Key
BY CacheAssumptions DEF Discrete, Interval, Key

\* Registration keeps name, value and IOV.
LEMMA RegisteredProperty ==
  ASSUME NEW c, NEW val, NEW key \in Key
  PROVE  LET x == Registered(c, val, key)
         IN  /\ x = [name |-> c, val |-> val, home |-> x.home]
             /\ x.home.iov = key
<1>1. registerIOV(key).iov = key
  BY DEF registerIOV, NewPool
<1> QED BY <1>1 DEF Registered, Unowned

\* What is registered with room for its pool is a condition with a true value.
LEMMA SoundCondition ==
  ASSUME NEW N, SoundAll(N), Owners(N) \subseteq PoolId
  PROVE  N \subseteq Condition /\ TolerableAll(N)
<1> SUFFICES ASSUME NEW x \in N
             PROVE  x \in Condition /\ Tolerable(x.val, x.home.iov)
  BY DEF TolerableAll
<1>1. PICK c \in Name, key \in Key : \E v \in ValueOf(c) :
        x = Registered(c, v, key) /\ Tolerable(v, key)
  BY DEF SoundAll, Sound
<1>2. PICK val \in ValueOf(c) : x = Registered(c, val, key) /\ Tolerable(val, key)
  BY <1>1
<1>3. x = [name |-> c, val |-> val, home |-> x.home] /\ x.home.iov = key
  BY <1>2, RegisteredProperty
<1>4. x.home \in Home
  BY DEF Owners, Home
<1>5. val \in Value
  BY NameValues
<1>6. x.name = c /\ x.val = val
  BY <1>3
<1>7. x \in [name : Name, val : Value, home : Home]
  BY <1>3, <1>4, <1>5
<1> QED BY <1>2, <1>3, <1>6, <1>7 DEF Condition

\* What the loader returns is sound.
LEMMA FetchedSound ==
  ASSUME NEW t \in Times, NEW L \in SUBSET Raw
  PROVE  SoundAll(Fetched(L, t))
<1> SUFFICES ASSUME NEW k \in L
             PROVE  Sound(Registered(k, Truth(k, t), Database[k][t]))
  BY DEF Fetched, SoundAll
<1>1. k \in Raw /\ k \in Name /\ Inputs(k) = {k}
  BY DEF Name, Inputs
<1>2. Database[k][t] \in Key
  BY <1>1, CacheAssumptions
<1>3. Truth(k, t) \in ValueOf(k)
  BY <1>1, <1>2 DEF Truth, ValueOf
<1>4. Tolerable(Truth(k, t), Database[k][t])
  <2> SUFFICES ASSUME NEW u \in Times,
                      key_contains_range(Database[k][t], Discrete(u))
               PROVE  Truth(k, t)[k] = Database[k][u]
    BY <1>1 DEF Tolerable, Truth
  <2>1. Database[k][u] = Database[k][t]
    BY <1>1, CacheAssumptions
  <2> QED BY <1>1, <2>1 DEF Truth
<1> QED BY <1>1, <1>2, <1>3, <1>4 DEF Sound

-----------------------------------------------------------------------------
\* What the pools of the map that cover t hold are true conditions, each in a
\* pool of the map.
LEMMA SelectionProperty ==
  ASSUME Invariant, NEW t \in Times
  PROVE  /\ Selection(t) \subseteq Condition
         /\ TolerableAll(Selection(t))
         /\ \A c \in Selection(t) : c.home \in Covering(elements, t)
<1> SUFFICES ASSUME NEW c \in Selection(t)
             PROVE  /\ c \in Condition /\ Tolerable(c.val, c.home.iov)
                    /\ c.home \in Covering(elements, t)
  BY DEF TolerableAll
<1>1. PICK p \in Covering(elements, t) : \E e \in entries[p] :
        c = [name |-> e.name, val |-> e.val, home |-> p]
  BY DEF Selection
<1>2. PICK e \in entries[p] : c = [name |-> e.name, val |-> e.val, home |-> p]
  BY <1>1
<1>3. p \in PoolId
  BY DEF Invariant, TypeOK, Covering
<1>4. e \in Entry /\ Tolerable(e.val, p.iov)
  BY <1>3 DEF Invariant, TypeOK, Settled
<1>5. e.name \in Name /\ e.val \in Value /\ e.val \in ValueOf(e.name)
  BY <1>4 DEF Entry
<1>6. c \in Condition
  BY <1>2, <1>3, <1>5 DEF Condition, Home
<1> QED BY <1>1, <1>2, <1>4, <1>6

\* The IOV of the pools selected and of what was loaded is a key.
LEMMA PoolValidityKey ==
  ASSUME Invariant, NEW t \in Times, NEW L \in SUBSET Raw
  PROVE  PoolValidity(t, L) \in Key
<1> DEFINE S == {p.iov : p \in Covering(elements, t)} \cup {Database[k][t] : k \in L}
<1>1. S \in SUBSET Key
  BY CacheAssumptions DEF Invariant, TypeOK, Covering, PoolId
<1> HIDE DEF S
<1>2. Intersection(S) \in Key
  BY <1>1, IntersectionIsGreatest
<1> QED BY <1>2 DEF S, PoolValidity

\* A derived condition computed from true conditions is true for its IOV, the
\* intersection of theirs: at a time it covers, each of them is true.
LEMMA ComputedSound ==
  ASSUME NEW C \in SUBSET Condition, TolerableAll(C),
         NEW D \in SUBSET Derived, Resolvable(D, C),
         NEW gone, NEW stray \in Key
  PROVE  SoundAll(Computed(D, C, gone, stray))
<1> SUFFICES ASSUME NEW d \in D
             PROVE
               /\ Sound(Registered(d, [k \in Deps[d] |-> Dep(k, C).val[k]],
                          Intersection({c.home.iov : c \in Accessed(d, C)})))
               /\ Sound(Registered(d, [k \in Deps[d] |-> Undefined], stray))
  BY DEF Computed, SoundAll
<1>1. d \in Name /\ Inputs(d) = Deps[d] /\ Deps[d] \subseteq Raw
  BY CacheAssumptions DEF Name, Inputs
<1>2. ASSUME NEW k \in Deps[d]
      PROVE  /\ Dep(k, C) \in C /\ Dep(k, C).name = k
             /\ Dep(k, C).val[k] \in Key \cup {Undefined}
             /\ k \in DOMAIN Dep(k, C).val
  <2>1. \E c \in C : c.name = k
    BY DEF Resolvable, Names
  <2>2. Dep(k, C) \in C /\ Dep(k, C).name = k
    BY <2>1 DEF Dep
  <2>3. Dep(k, C).val \in ValueOf(k)
    BY <2>2 DEF Condition
  <2>4. Inputs(k) = {k}
    BY <1>1 DEF Inputs
  <2> QED BY <2>2, <2>3, <2>4 DEF ValueOf
<1> DEFINE S == {c.home.iov : c \in Accessed(d, C)}
           val == [k \in Deps[d] |-> Dep(k, C).val[k]]
<1>3. \A c \in C : c.home.iov \in Key
  BY DEF Condition, Home, PoolId, Unowned
<1>4. S \in SUBSET Key
  BY <1>2, <1>3 DEF Accessed
<1>5. Intersection(S) \in Key /\ \A k \in S : key_contains_range(k, Intersection(S))
  <2> HIDE DEF S
  <2> QED BY <1>4, IntersectionIsGreatest
<1>6. val \in ValueOf(d)
  BY <1>1, <1>2 DEF ValueOf
<1>7. Tolerable(val, Intersection(S))
  <2> SUFFICES ASSUME NEW k \in Deps[d], NEW u \in Times,
                      key_contains_range(Intersection(S), Discrete(u))
               PROVE  Dep(k, C).val[k] \in {Database[k][u], Undefined}
    BY DEF Tolerable
  <2>1. Dep(k, C).home.iov \in S
    BY DEF Accessed
  <2>2. key_contains_range(Dep(k, C).home.iov, Discrete(u))
    <3> HIDE DEF S
    <3>1. Dep(k, C).home.iov \in Key
      BY <1>4, <2>1
    <3> QED BY <1>5, <2>1, <3>1, DiscreteKey, ContainsTransitive
  <2>3. Tolerable(Dep(k, C).val, Dep(k, C).home.iov)
    BY <1>2 DEF TolerableAll
  <2> QED BY <1>2, <2>2, <2>3 DEF Tolerable
<1>8. Sound(Registered(d, val, Intersection(S)))
  <2> HIDE DEF val, S
  <2> QED BY <1>1, <1>5, <1>6, <1>7 DEF Sound
<1>9. Sound(Registered(d, [k \in Deps[d] |-> Undefined], stray))
  <2>1. [k \in Deps[d] |-> Undefined] \in ValueOf(d)
    BY <1>1 DEF ValueOf
  <2>2. Tolerable([k \in Deps[d] |-> Undefined], stray)
    BY DEF Tolerable
  <2> QED BY <1>1, <2>1, <2>2 DEF Sound
<1> QED BY <1>8, <1>9

\* Owners of a union.
LEMMA SoundUnion ==
  ASSUME NEW M, NEW N, SoundAll(M), SoundAll(N)
  PROVE  SoundAll(M \cup N)
BY DEF SoundAll

-----------------------------------------------------------------------------
\* Committing sound conditions keeps the pools typed and coherent, whatever
\* pools are dropped and referenced.
LEMMA CommitSafe ==
  ASSUME Invariant,
         NEW N, SoundAll(N), NEW dropped,
         NEW refs, Owners(N) \subseteq PoolId => refs \in [Slices -> SUBSET PoolId],
         NEW ages \in [PoolId -> 0 .. AgeCap],
         Commit(N, dropped, refs, ages)
  PROVE  /\ N \subseteq Condition /\ TolerableAll(N)
         /\ elements' \in SUBSET PoolId
         /\ entries' \in [PoolId -> SUBSET Entry]
         /\ age' \in [PoolId -> 0 .. AgeCap]
         /\ used' \in [Slices -> SUBSET PoolId]
         /\ \A p \in PoolId : \A e \in entries'[p] : Tolerable(e.val, p.iov)
<1>1. Owners(N) \subseteq PoolId
  BY DEF Commit
<1>2. N \subseteq Condition /\ TolerableAll(N)
  BY <1>1, SoundCondition
<1>3. elements' \in SUBSET PoolId
  BY <1>1 DEF Commit, Invariant, TypeOK
<1>4. used' \in [Slices -> SUBSET PoolId]
  BY <1>1 DEF Commit
<1>5. age' \in [PoolId -> 0 .. AgeCap]
  <2>1. 0 \in 0 .. AgeCap
    BY CacheAssumptions
  <2> QED BY <2>1 DEF Commit
<1>6. \A x \in N : Object(x) \in Entry /\ Object(x).val = x.val
  BY <1>2 DEF Object, Entry, Condition
<1>7. ASSUME NEW p \in PoolId
      PROVE  /\ entries'[p] \in SUBSET Entry
             /\ \A e \in entries'[p] : Tolerable(e.val, p.iov)
  <2>1. entries'[p] \subseteq entries[p] \cup {Object(c) : c \in {x \in N : x.home = p}}
    BY DEF Commit
  <2>2. entries[p] \in SUBSET Entry /\ \A e \in entries[p] : Tolerable(e.val, p.iov)
    BY DEF Invariant, TypeOK, Settled
  <2>3. \A c \in {x \in N : x.home = p} : Object(c) \in Entry /\ Tolerable(Object(c).val, p.iov)
    BY <1>2, <1>6 DEF TolerableAll
  <2> QED BY <2>1, <2>2, <2>3
<1>8. entries' \in [PoolId -> SUBSET Entry]
  BY <1>7 DEF Commit
<1> QED BY <1>2, <1>3, <1>4, <1>5, <1>7, <1>8

\* Committing nothing.
LEMMA NothingSound == SoundAll({})
BY DEF SoundAll

LEMMA AgesType ==
  ASSUME Invariant, NEW t \in Times
  PROVE  SelectedAge(t) \in [PoolId -> 0 .. AgeCap]
<1> SUFFICES ASSUME NEW p \in PoolId
             PROVE  /\ 0 \in 0 .. AgeCap /\ AgeCap \in 0 .. AgeCap
                    /\ age[p] < AgeCap => age[p] + 1 \in 0 .. AgeCap
  BY DEF SelectedAge
<1>1. age[p] \in 0 .. AgeCap /\ AgeCap \in Nat
  BY CacheAssumptions DEF Invariant, TypeOK
<1> QED BY <1>1

LEMMA RefsType ==
  ASSUME Invariant, NEW s \in Slices, NEW t \in Times, NEW N, Owners(N) \subseteq PoolId
  PROVE  RefsAfter(s, t, elements \cup Owners(N)) \in [Slices -> SUBSET PoolId]
BY DEF RefsAfter, Covering, Invariant, TypeOK

\* The numbers of missing conditions are natural numbers.
LEMMA MissingCount ==
  ASSUME NEW s \in Slices, NEW C
  PROVE  /\ Missing(s, C, Raw) \in SUBSET Raw /\ Missing(s, C, Derived) \in SUBSET Derived
         /\ Cardinality(Missing(s, C, Raw)) \in Nat
         /\ Cardinality(Missing(s, C, Derived)) \in Nat
         /\ Cardinality({}) = 0
<1>1. Missing(s, C, Raw) \in SUBSET Raw /\ Missing(s, C, Derived) \in SUBSET Derived
  BY DEF Missing
<1>2. IsFiniteSet(Missing(s, C, Raw)) /\ IsFiniteSet(Missing(s, C, Derived))
  BY <1>1, CacheAssumptions, FS_Subset
<1> QED BY <1>1, <1>2, FS_CardinalityType, FS_EmptySet

LEMMA LoadsType ==
  ASSUME NEW s \in Slices, NEW t \in Times, NEW L \in Loads(s, t)
  PROVE  L \in SUBSET Raw
BY DEF Loads

-----------------------------------------------------------------------------
\* A call that commits sound conditions and leaves the slice with conditions
\* that are true keeps the invariant.
LEMMA CallSafe ==
  ASSUME Invariant,
         NEW s \in Slices, NEW t \in Times,
         NEW N, SoundAll(N), NEW dropped,
         NEW refs, Owners(N) \subseteq PoolId => refs \in [Slices -> SUBSET PoolId],
         NEW ages \in [PoolId -> 0 .. AgeCap],
         Commit(N, dropped, refs, ages),
         NEW C \in SUBSET Condition, TolerableAll(C),
         NEW iov \in Key, NEW left \in Phase,
         Called(s, C, iov, left, t),
         missing' \in [Slices -> Nat], unloaded' \in [Slices -> SUBSET Name]
  PROVE  Invariant'
<1>1. /\ elements' \in SUBSET PoolId
      /\ entries' \in [PoolId -> SUBSET Entry]
      /\ age' \in [PoolId -> 0 .. AgeCap]
      /\ used' \in [Slices -> SUBSET PoolId]
      /\ \A p \in PoolId : \A e \in entries'[p] : Tolerable(e.val, p.iov)
  BY CommitSafe
<1>2. conditions' = [conditions EXCEPT ![s] = C]
  BY DEF Called
<1>3. conditions' \in [Slices -> SUBSET Condition]
  BY <1>2 DEF Invariant, TypeOK
<1>4. /\ validity' \in [Slices -> Key] /\ flags' \in [Slices -> BOOLEAN]
      /\ phase' \in [Slices -> Phase] /\ required' \in [Slices -> Times \cup {NoTime}]
      /\ options' \in Settings
  BY DEF Called, Invariant, TypeOK
<1>5. \A r \in Slices : \A c \in conditions'[r] : Tolerable(c.val, c.home.iov)
  BY <1>2 DEF Invariant, TypeOK, Settled, TolerableAll
<1>6. Requested'
  BY DEF Called, Invariant, TypeOK, Requested
<1> QED BY <1>1, <1>3, <1>4, <1>5, <1>6 DEF Invariant, TypeOK, Settled

\* The conditions a load leaves in the user pool.
LEMMA PoolProperty ==
  ASSUME Invariant, NEW s \in Slices, NEW t \in Times, NEW L \in Loads(s, t),
         Fetched(L, t) \subseteq Condition, TolerableAll(Fetched(L, t))
  PROVE  Pool(t, L) \in SUBSET Condition /\ TolerableAll(Pool(t, L))
BY SelectionProperty DEF Pool, TolerableAll

\* Fewer owners have room where more have.
LEMMA OwnersUnion ==
  ASSUME NEW M, NEW N, Owners(M \cup N) \subseteq PoolId
  PROVE  Owners(M) \subseteq PoolId /\ Owners(N) \subseteq PoolId
BY DEF Owners

LEMMA PrepareSafe ==
  ASSUME Invariant, NEW s \in Slices, NEW t \in Times, Prepare(s, t)
  PROVE  Invariant'
<1>1. PICK L \in Loads(s, t) :
        LET calc == Missing(s, Selection(t), Derived)
            D    == ToCompute(calc)
            C    == Pool(t, L)
            new  == Computed(D, C, {}, Discrete(t))
            N    == Fetched(L, t) \cup new
        IN  /\ Resolvable(D, C)
            /\ \E dropped \in CleanedBy(elements \cup Owners(N)) :
                 Commit(N, dropped, RefsAfter(s, t, elements \cup Owners(N)), SelectedAge(t))
            /\ Called(s, C \cup new, PoolValidity(t, L), IF flags[s] THEN "held" ELSE "ready", t)
            /\ missing' = [missing EXCEPT ![s] =
                 Cardinality(Missing(s, C, Raw)) + Cardinality(calc) - Cardinality(D)]
            /\ unloaded' = [unloaded EXCEPT ![s] =
                 UnloadedRaw(s, t, L) \cup UnloadedDerived(calc)]
  BY DEF Prepare
<1> DEFINE calc == Missing(s, Selection(t), Derived)
           D    == ToCompute(calc)
           C    == Pool(t, L)
           new  == Computed(D, C, {}, Discrete(t))
           N    == Fetched(L, t) \cup new
           left == IF flags[s] THEN "held" ELSE "ready"
<1>2. PICK dropped \in CleanedBy(elements \cup Owners(N)) :
        Commit(N, dropped, RefsAfter(s, t, elements \cup Owners(N)), SelectedAge(t))
  BY <1>1
<1>3. Resolvable(D, C) /\ Called(s, C \cup new, PoolValidity(t, L), left, t)
  BY <1>1
<1>4. L \in SUBSET Raw /\ D \in SUBSET Derived /\ calc \in SUBSET Derived
  BY LoadsType, MissingCount DEF ToCompute
<1>5. Owners(N) \subseteq PoolId
  BY <1>2 DEF Commit
<1>6. SoundAll(Fetched(L, t)) /\ Fetched(L, t) \subseteq Condition /\ TolerableAll(Fetched(L, t))
  <2>1. SoundAll(Fetched(L, t))
    BY <1>4, FetchedSound
  <2> HIDE DEF new
  <2>2. Owners(Fetched(L, t)) \subseteq PoolId
    BY <1>5, OwnersUnion
  <2> QED BY <2>1, <2>2, SoundCondition
<1>7. C \in SUBSET Condition /\ TolerableAll(C)
  BY <1>6, PoolProperty
<1>8. SoundAll(new)
  <2> HIDE DEF C, D
  <2> QED BY <1>3, <1>4, <1>7, DiscreteKey, ComputedSound
<1>9. new \subseteq Condition /\ TolerableAll(new)
  <2> HIDE DEF new
  <2>1. Owners(new) \subseteq PoolId
    BY <1>5, OwnersUnion
  <2> QED BY <1>8, <2>1, SoundCondition
<1>10. SoundAll(N)
  <2> HIDE DEF new
  <2> QED BY <1>6, <1>8, SoundUnion
<1>11. (C \cup new) \in SUBSET Condition /\ TolerableAll(C \cup new)
  <2> HIDE DEF new, C
  <2> QED BY <1>7, <1>9 DEF TolerableAll
<1>12. missing' \in [Slices -> Nat]
  <2>1. Cardinality(Missing(s, C, Raw)) + Cardinality(calc) - Cardinality(D) \in Nat
    <3>1. /\ Cardinality(Missing(s, C, Raw)) \in Nat /\ Cardinality(calc) \in Nat
          /\ Cardinality({}) = 0
      BY MissingCount
    <3>2. D = calc \/ D = {}
      BY DEF ToCompute
    <3> HIDE DEF C, calc, D
    <3> QED BY <3>1, <3>2
  <2> HIDE DEF C, calc, D
  <2> QED BY <1>1, <2>1 DEF Invariant, TypeOK, C, calc, D
<1>13. unloaded' \in [Slices -> SUBSET Name]
  <2>1. UnloadedRaw(s, t, L) \cup UnloadedDerived(calc) \in SUBSET Name
    BY <1>4, MissingCount DEF UnloadedRaw, UnloadedDerived, Name
  <2> HIDE DEF calc
  <2> QED BY <1>1, <2>1 DEF Invariant, TypeOK, calc
<1>14. PoolValidity(t, L) \in Key /\ left \in Phase /\ SelectedAge(t) \in [PoolId -> 0 .. AgeCap]
  BY <1>4, PoolValidityKey, AgesType DEF Phase
<1>15. RefsAfter(s, t, elements \cup Owners(N)) \in [Slices -> SUBSET PoolId]
  <2> HIDE DEF N
  <2> QED BY <1>5, RefsType
<1> HIDE DEF N, new, C, left
<1> QED BY <1>2, <1>3, <1>10, <1>11, <1>12, <1>13, <1>14, <1>15, CallSafe

LEMMA PrepareFailsSafe ==
  ASSUME Invariant, NEW s \in Slices, NEW t \in Times, PrepareFails(s, t)
  PROVE  Invariant'
<1>1. PICK L \in Loads(s, t) :
        /\ Commit(Fetched(L, t), {}, used, SelectedAge(t))
        /\ Called(s, Pool(t, L), PoolValidity(t, L), "failed", t)
        /\ unloaded' = [unloaded EXCEPT ![s] = UnloadedRaw(s, t, L)]
        /\ UNCHANGED missing
  BY DEF PrepareFails
<1>2. L \in SUBSET Raw
  BY LoadsType
<1>3. SoundAll(Fetched(L, t))
  BY <1>2, FetchedSound
<1>4. Fetched(L, t) \subseteq Condition /\ TolerableAll(Fetched(L, t))
  BY <1>1, <1>3, SoundCondition DEF Commit
<1>5. Pool(t, L) \in SUBSET Condition /\ TolerableAll(Pool(t, L))
  BY <1>4, PoolProperty
<1>6. PoolValidity(t, L) \in Key /\ "failed" \in Phase /\ SelectedAge(t) \in [PoolId -> 0 .. AgeCap]
  BY <1>2, PoolValidityKey, AgesType DEF Phase
<1>7. missing' \in [Slices -> Nat] /\ used \in [Slices -> SUBSET PoolId]
  BY <1>1 DEF Invariant, TypeOK
<1>8. unloaded' \in [Slices -> SUBSET Name]
  <2>1. UnloadedRaw(s, t, L) \in SUBSET Name
    BY MissingCount DEF UnloadedRaw, Name
  <2> QED BY <1>1, <2>1 DEF Invariant, TypeOK
<1> QED BY <1>1, <1>3, <1>5, <1>6, <1>7, <1>8, CallSafe

LEMMA LoadSafe ==
  ASSUME Invariant, NEW s \in Slices, NEW t \in Times, Load(s, t)
  PROVE  Invariant'
<1>1. PICK L \in Loads(s, t) :
        /\ Commit(Fetched(L, t), {}, used, SelectedAge(t))
        /\ Called(s, Pool(t, L), PoolValidity(t, L), "loaded", t)
        /\ missing' = [missing EXCEPT ![s] = Cardinality(Missing(s, Pool(t, L), Raw))]
        /\ unloaded' = [unloaded EXCEPT ![s] = UnloadedRaw(s, t, L) \cup (@ \cap Derived)]
  BY DEF Load
<1>2. L \in SUBSET Raw
  BY LoadsType
<1>3. SoundAll(Fetched(L, t))
  BY <1>2, FetchedSound
<1>4. Fetched(L, t) \subseteq Condition /\ TolerableAll(Fetched(L, t))
  BY <1>1, <1>3, SoundCondition DEF Commit
<1>5. Pool(t, L) \in SUBSET Condition /\ TolerableAll(Pool(t, L))
  BY <1>4, PoolProperty
<1>6. PoolValidity(t, L) \in Key /\ "loaded" \in Phase /\ SelectedAge(t) \in [PoolId -> 0 .. AgeCap]
  BY <1>2, PoolValidityKey, AgesType DEF Phase
<1>7. missing' \in [Slices -> Nat] /\ used \in [Slices -> SUBSET PoolId]
  <2>1. Cardinality(Missing(s, Pool(t, L), Raw)) \in Nat
    BY MissingCount
  <2> QED BY <1>1, <2>1 DEF Invariant, TypeOK
<1>8. unloaded' \in [Slices -> SUBSET Name]
  <2>1. UnloadedRaw(s, t, L) \in SUBSET Name
    BY MissingCount DEF UnloadedRaw, Name
  <2> QED BY <1>1, <2>1 DEF Invariant, TypeOK
<1> QED BY <1>1, <1>3, <1>5, <1>6, <1>7, <1>8, CallSafe

LEMMA ComputeSafe ==
  ASSUME Invariant, NEW s \in Slices, Compute(s)
  PROVE  Invariant'
<1> DEFINE C    == conditions[s]
           t    == required[s]
           calc == Missing(s, C, Derived)
           D    == ToCompute(calc)
           left == IF flags[s] THEN "split" ELSE "ready"
<1>1. PICK stray \in {p.iov : p \in Referenced} \cup {Discrete(t)} :
        LET new == Computed(D, C, Gone(s), stray)
        IN  /\ phase[s] = "loaded"
            /\ Resolvable(D, C)
            /\ \E dropped \in CleanedBy(elements \cup Owners(new)) :
                 Commit(new, dropped, RefsAfter(s, t, elements \cup Owners(new)), age)
            /\ Called(s, C \cup new, validity[s], left, t)
            /\ missing' = [missing EXCEPT ![s] = Accumulated(@, Cardinality(calc) - Cardinality(D))]
            /\ unloaded' = [unloaded EXCEPT ![s] = (@ \cap Raw) \cup UnloadedDerived(calc)]
  BY DEF Compute
<1> DEFINE new == Computed(D, C, Gone(s), stray)
<1>2. PICK dropped \in CleanedBy(elements \cup Owners(new)) :
        Commit(new, dropped, RefsAfter(s, t, elements \cup Owners(new)), age)
  BY <1>1
<1>3. Resolvable(D, C) /\ Called(s, C \cup new, validity[s], left, t)
  BY <1>1
<1>4. t \in Times /\ D \in SUBSET Derived /\ calc \in SUBSET Derived
  BY <1>1, MissingCount DEF ToCompute, Invariant, Requested
<1>5. C \in SUBSET Condition /\ TolerableAll(C)
  BY DEF Invariant, TypeOK, Settled, TolerableAll
<1>6. stray \in Key
  <2>1. \A p \in Referenced : p.iov \in Key
    BY DEF Referenced, Invariant, TypeOK, Condition, Home, PoolId, Unowned
  <2> QED BY <1>4, <2>1, DiscreteKey
<1>7. SoundAll(new)
  <2> HIDE DEF C, D
  <2> QED BY <1>3, <1>4, <1>5, <1>6, ComputedSound
<1>8. Owners(new) \subseteq PoolId
  BY <1>2 DEF Commit
<1>9. new \subseteq Condition /\ TolerableAll(new)
  <2> HIDE DEF new
  <2> QED BY <1>7, <1>8, SoundCondition
<1>10. (C \cup new) \in SUBSET Condition /\ TolerableAll(C \cup new)
  <2> HIDE DEF new, C
  <2> QED BY <1>5, <1>9 DEF TolerableAll
<1>11. missing' \in [Slices -> Nat]
  <2>1. Accumulated(missing[s], Cardinality(calc) - Cardinality(D)) \in Nat
    <3>1. missing[s] \in Nat /\ Cardinality(calc) \in Nat /\ Cardinality({}) = 0
      BY MissingCount DEF Invariant, TypeOK
    <3>2. D = calc \/ D = {}
      BY DEF ToCompute
    <3>3. Cardinality(D) = Cardinality(calc) \/ Cardinality(D) = 0
      BY <3>1, <3>2
    <3> HIDE DEF calc, D
    <3> QED BY <3>1, <3>3 DEF Accumulated
  <2>2. missing' = [missing EXCEPT ![s] = Accumulated(@, Cardinality(calc) - Cardinality(D))]
    BY <1>1
  <2> HIDE DEF calc, D
  <2> QED BY <2>1, <2>2 DEF Invariant, TypeOK
<1>12. unloaded' \in [Slices -> SUBSET Name]
  <2>1. UnloadedDerived(calc) \in SUBSET Name
    BY <1>4 DEF UnloadedDerived, Name
  <2>2. unloaded' = [unloaded EXCEPT ![s] = (@ \cap Raw) \cup UnloadedDerived(calc)]
    BY <1>1
  <2> HIDE DEF calc
  <2> QED BY <2>1, <2>2 DEF Invariant, TypeOK, Name
<1>13. validity[s] \in Key /\ left \in Phase /\ age \in [PoolId -> 0 .. AgeCap]
  BY DEF Phase, Invariant, TypeOK
<1>14. RefsAfter(s, t, elements \cup Owners(new)) \in [Slices -> SUBSET PoolId]
  <2> HIDE DEF new
  <2> QED BY <1>4, <1>8, RefsType
<1> HIDE DEF new, C, left, t
<1> QED BY <1>2, <1>3, <1>4, <1>7, <1>10, <1>11, <1>12, <1>13, <1>14, CallSafe

-----------------------------------------------------------------------------
\* Steps that commit sound conditions and leave the slices' conditions alone,
\* or empty them.
LEMMA PoolStepSafe ==
  ASSUME Invariant,
         NEW N, SoundAll(N), NEW dropped,
         NEW refs \in [Slices -> SUBSET PoolId],
         Commit(N, dropped, refs, age),
         conditions' \in [Slices -> SUBSET Condition],
         \A s \in Slices : conditions'[s] \subseteq conditions[s],
         validity' \in [Slices -> Key], flags' \in [Slices -> BOOLEAN],
         phase' \in [Slices -> Phase],
         required' \in [Slices -> Times \cup {NoTime}],
         \A s \in Slices : phase'[s] # "empty" => phase[s] # "empty" /\ required'[s] = required[s],
         UNCHANGED <<missing, unloaded, options>>
  PROVE  Invariant'
<1>1. age \in [PoolId -> 0 .. AgeCap]
  BY DEF Invariant, TypeOK
<1>2. /\ elements' \in SUBSET PoolId
      /\ entries' \in [PoolId -> SUBSET Entry]
      /\ age' \in [PoolId -> 0 .. AgeCap]
      /\ used' \in [Slices -> SUBSET PoolId]
      /\ \A p \in PoolId : \A e \in entries'[p] : Tolerable(e.val, p.iov)
  BY <1>1, CommitSafe
<1>3. \A r \in Slices : \A c \in conditions'[r] : Tolerable(c.val, c.home.iov)
  BY DEF Invariant, Settled
<1>4. Requested'
  BY DEF Invariant, Requested
<1>5. /\ missing' \in [Slices -> Nat] /\ unloaded' \in [Slices -> SUBSET Name]
      /\ options' \in Settings
  BY DEF Invariant, TypeOK
<1> QED BY <1>2, <1>3, <1>4, <1>5 DEF Invariant, TypeOK, Settled

LEMMA SliceStepSafe ==
  ASSUME Invariant, NEW s \in Slices,
         ComputeFails(s) \/ RefPools(s) \/ DerefPools(s) \/ Reset(s)
  PROVE  Invariant'
<1>1. CASE ComputeFails(s)
  <2>1. Requested'
    BY <1>1 DEF ComputeFails, Invariant, TypeOK, Requested
  <2>2. TypeOK'
    BY <1>1 DEF ComputeFails, Invariant, TypeOK, Phase
  <2>3. Settled'
    BY <1>1 DEF ComputeFails, Invariant, Settled
  <2> QED BY <2>1, <2>2, <2>3 DEF Invariant
<1>2. CASE RefPools(s)
  <2>1. TypeOK'
    BY <1>2 DEF RefPools, Invariant, TypeOK
  <2>2. Settled' /\ Requested'
    BY <1>2 DEF RefPools, Invariant, Settled, Requested
  <2> QED BY <2>1, <2>2 DEF Invariant
<1>3. Released(s) \in [Slices -> SUBSET PoolId]
  BY DEF Released, Invariant, TypeOK
<1>4. CASE DerefPools(s)
  <2>1. Commit({}, {}, Released(s), age)
    BY <1>4 DEF DerefPools
  <2>2. /\ conditions' \in [Slices -> SUBSET Condition]
        /\ \A r \in Slices : conditions'[r] \subseteq conditions[r]
        /\ validity' \in [Slices -> Key] /\ required' \in [Slices -> Times \cup {NoTime}]
        /\ UNCHANGED <<missing, unloaded, options>>
    BY <1>4 DEF DerefPools, Invariant, TypeOK
  <2>3. flags' \in [Slices -> BOOLEAN] /\ phase' \in [Slices -> Phase]
    BY <1>4 DEF DerefPools, Invariant, TypeOK, Phase
  <2>4. \A r \in Slices : phase'[r] # "empty" => phase[r] # "empty" /\ required'[r] = required[r]
    BY <1>4 DEF DerefPools, Invariant, TypeOK
  <2> QED BY <1>3, <2>1, <2>2, <2>3, <2>4, NothingSound, PoolStepSafe
<1>5. CASE Reset(s)
  <2>1. Commit({}, {}, Released(s), age)
    BY <1>5 DEF Reset
  <2>2. /\ conditions' \in [Slices -> SUBSET Condition]
        /\ \A r \in Slices : conditions'[r] \subseteq conditions[r]
        /\ flags' \in [Slices -> BOOLEAN]
        /\ UNCHANGED <<missing, unloaded, options>>
    BY <1>5 DEF Reset, Invariant, TypeOK
  <2>3. validity' \in [Slices -> Key] /\ required' \in [Slices -> Times \cup {NoTime}]
    BY <1>5, KeyLimits DEF Reset, Invariant, TypeOK, Discrete, Interval, Key, Key_value
  <2>4. /\ phase' \in [Slices -> Phase]
        /\ \A r \in Slices : phase'[r] # "empty" => phase[r] # "empty" /\ required'[r] = required[r]
    BY <1>5 DEF Reset, Invariant, TypeOK, Phase
  <2> QED BY <1>3, <2>1, <2>2, <2>3, <2>4, NothingSound, PoolStepSafe
<1> QED BY <1>1, <1>2, <1>4, <1>5

LEMMA ManagerStepSafe ==
  ASSUME Invariant,
         NEW N, SoundAll(N), NEW dropped,
         Commit(N, dropped, used, age), UNCHANGED <<sliceVars, options>>
  PROVE  Invariant'
<1>1. used \in [Slices -> SUBSET PoolId]
  BY DEF Invariant, TypeOK
<1>2. /\ conditions' = conditions /\ validity' = validity /\ flags' = flags
      /\ missing' = missing /\ unloaded' = unloaded /\ phase' = phase
      /\ required' = required /\ options' = options
  BY DEF sliceVars
<1>3. /\ conditions' \in [Slices -> SUBSET Condition]
      /\ \A s \in Slices : conditions'[s] \subseteq conditions[s]
      /\ validity' \in [Slices -> Key] /\ flags' \in [Slices -> BOOLEAN]
      /\ phase' \in [Slices -> Phase] /\ required' \in [Slices -> Times \cup {NoTime}]
  BY <1>2 DEF Invariant, TypeOK
<1> QED BY <1>1, <1>2, <1>3, PoolStepSafe

-----------------------------------------------------------------------------
\* The cache starts empty.
LEMMA InitSafe == Init => Invariant
<1> SUFFICES ASSUME Init PROVE Invariant
  OBVIOUS
<1>1. Discrete(MIN_KEY) \in Key /\ 0 \in 0 .. AgeCap
  BY KeyLimits, CacheAssumptions DEF Discrete, Interval, Key, Key_value
<1>2. TypeOK
  BY <1>1 DEF Init, TypeOK, Phase
<1>3. Settled /\ Requested
  BY DEF Init, Settled, Requested
<1> QED BY <1>2, <1>3 DEF Invariant

\* Every step keeps the invariant.
LEMMA StepSafe == Invariant /\ [Next]_vars => Invariant'
<1> SUFFICES ASSUME Invariant, [Next]_vars PROVE Invariant'
  OBVIOUS
<1>1. CASE \E s \in OneStep, t \in Times : Prepare(s, t) \/ PrepareFails(s, t)
  BY <1>1, CacheAssumptions, PrepareSafe, PrepareFailsSafe
<1>2. CASE \E s \in TwoStep, t \in Times : Load(s, t)
  BY <1>2, CacheAssumptions, LoadSafe
<1>3. CASE \E s \in TwoStep : Compute(s) \/ ComputeFails(s)
  BY <1>3, CacheAssumptions, ComputeSafe, SliceStepSafe
<1>4. CASE \E s \in Slices : RefPools(s) \/ DerefPools(s) \/ Reset(s)
  BY <1>4, SliceStepSafe
<1>5. CASE \E k \in Raw, t \in Times : Populate(k, t)
  <2>1. PICK k \in Raw, t \in Times : Populate(k, t)
    BY <1>5
  <2>2. SoundAll(Fetched({k}, t))
    BY FetchedSound
  <2> QED BY <2>1, <2>2, ManagerStepSafe DEF Populate
<1>6. CASE CleanPolicy
  BY <1>6, NothingSound, ManagerStepSafe DEF CleanPolicy
<1>7. CASE \E m \in 0 .. AgeCap : CleanAged(m)
  BY <1>7, NothingSound, ManagerStepSafe DEF CleanAged
<1>8. CASE UNCHANGED vars
  BY <1>8 DEF vars, sliceVars, Invariant, TypeOK, Settled, Requested
<1> QED BY <1>1, <1>2, <1>3, <1>4, <1>5, <1>6, <1>7, <1>8 DEF Next

\* The inductive invariant.
THEOREM Inductive == Spec => []Invariant
BY InitSafe, StepSafe, PTL DEF Spec

\* Every variable keeps its type.
THEOREM Typing == Spec => []TypeOK
<1>1. Invariant => TypeOK
  BY DEF Invariant
<1> QED BY <1>1, Inductive, PTL

-----------------------------------------------------------------------------
\* Coherence, when the two-step clients are timely: then no compute reads what
\* has been deleted, and nothing undefined gets into a pool or a slice.
DefinedAll(N) == \A x \in N : Defined(x.val)

Whole ==
  /\ \A p \in PoolId : DefinedAll(entries[p])
  /\ \A s \in Slices : DefinedAll(conditions[s])

\* The database has no undefined values.
LEMMA FetchedDefined ==
  ASSUME NEW t \in Times, NEW L \in SUBSET Raw
  PROVE  DefinedAll(Fetched(L, t))
<1> SUFFICES ASSUME NEW k \in L
             PROVE  Defined(Registered(k, Truth(k, t), Database[k][t]).val)
  BY DEF Fetched, DefinedAll
<1>1. Registered(k, Truth(k, t), Database[k][t]).val = Truth(k, t)
  BY DEF Registered
<1>2. Inputs(k) = {k} /\ Database[k][t] \in Key
  BY CacheAssumptions DEF Inputs
<1>3. Defined(Truth(k, t))
  BY <1>2, UndefinedAssumption DEF Defined, Truth
<1> QED BY <1>1, <1>3

\* What is computed from defined conditions, none of them deleted, is defined.
LEMMA ComputedDefined ==
  ASSUME NEW C \in SUBSET Condition, DefinedAll(C),
         NEW D \in SUBSET Derived, Resolvable(D, C), NEW stray
  PROVE  DefinedAll(Computed(D, C, {}, stray))
<1> SUFFICES ASSUME NEW d \in D, NEW key
             PROVE  Defined(Registered(d, [k \in Deps[d] |-> Dep(k, C).val[k]], key).val)
  BY DEF Computed, DefinedAll
<1>1. Registered(d, [k \in Deps[d] |-> Dep(k, C).val[k]], key).val
        = [k \in Deps[d] |-> Dep(k, C).val[k]]
  BY DEF Registered
<1>2. ASSUME NEW k \in Deps[d] PROVE Dep(k, C).val[k] # Undefined
  <2>1. \E c \in C : c.name = k
    BY DEF Resolvable, Names
  <2>2. Dep(k, C) \in C /\ Dep(k, C).name = k
    BY <2>1 DEF Dep
  <2>3. Inputs(k) = {k}
    BY CacheAssumptions DEF Inputs
  <2>4. Dep(k, C).val \in ValueOf(k)
    BY <2>2 DEF Condition
  <2>5. k \in DOMAIN Dep(k, C).val
    BY <2>3, <2>4 DEF ValueOf
  <2> QED BY <2>2, <2>5 DEF DefinedAll, Defined
<1>3. Defined([k \in Deps[d] |-> Dep(k, C).val[k]])
  BY <1>2 DEF Defined
<1> QED BY <1>1, <1>3

\* Selection takes what the pools hold.
LEMMA PoolDefined ==
  ASSUME Invariant, Whole, NEW t \in Times, NEW L \in SUBSET Raw
  PROVE  DefinedAll(Pool(t, L))
<1>1. DefinedAll(Fetched(L, t))
  BY FetchedDefined
<1>2. ASSUME NEW c \in Selection(t) PROVE Defined(c.val)
  <2>1. PICK p \in Covering(elements, t) : \E e \in entries[p] :
          c = [name |-> e.name, val |-> e.val, home |-> p]
    BY DEF Selection
  <2>2. PICK e \in entries[p] : c.val = e.val
    BY <2>1
  <2>3. p \in PoolId
    BY DEF Invariant, TypeOK, Covering
  <2> QED BY <2>2, <2>3 DEF Whole, DefinedAll
<1> QED BY <1>1, <1>2 DEF Pool, DefinedAll

\* A commit keeps the pools whole.
LEMMA CommitWhole ==
  ASSUME Whole, NEW N, DefinedAll(N), NEW dropped, NEW refs, NEW ages,
         Commit(N, dropped, refs, ages)
  PROVE  \A p \in PoolId : DefinedAll(entries'[p])
<1> SUFFICES ASSUME NEW p \in PoolId, NEW e \in entries'[p] PROVE Defined(e.val)
  BY DEF DefinedAll
<1>1. entries'[p] \subseteq entries[p] \cup {Object(c) : c \in {x \in N : x.home = p}}
  BY DEF Commit
<1>2. CASE e \in entries[p]
  BY <1>2 DEF Whole, DefinedAll
<1>3. CASE e \in {Object(c) : c \in {x \in N : x.home = p}}
  BY <1>3 DEF DefinedAll, Object
<1> QED BY <1>1, <1>2, <1>3

\* A call leaves the slice with defined conditions.
LEMMA CalledWhole ==
  ASSUME Invariant, Whole, NEW s \in Slices,
         NEW N, DefinedAll(N), NEW dropped, NEW refs, NEW ages, Commit(N, dropped, refs, ages),
         NEW C, DefinedAll(C), NEW iov, NEW left, NEW t, Called(s, C, iov, left, t)
  PROVE  Whole'
<1>1. \A p \in PoolId : DefinedAll(entries'[p])
  BY CommitWhole
<1>2. \A r \in Slices : conditions'[r] = C \/ conditions'[r] = conditions[r]
  BY DEF Called, Invariant, TypeOK
<1> QED BY <1>1, <1>2 DEF Whole

LEMMA PrepareWhole ==
  ASSUME Invariant, Whole, NEW s \in Slices, NEW t \in Times, Prepare(s, t)
  PROVE  Whole'
<1>1. PICK L \in Loads(s, t) :
        LET calc == Missing(s, Selection(t), Derived)
            D    == ToCompute(calc)
            C    == Pool(t, L)
            new  == Computed(D, C, {}, Discrete(t))
            N    == Fetched(L, t) \cup new
        IN  /\ Resolvable(D, C)
            /\ \E dropped \in CleanedBy(elements \cup Owners(N)) :
                 Commit(N, dropped, RefsAfter(s, t, elements \cup Owners(N)), SelectedAge(t))
            /\ Called(s, C \cup new, PoolValidity(t, L), IF flags[s] THEN "held" ELSE "ready", t)
  BY DEF Prepare
<1> DEFINE calc == Missing(s, Selection(t), Derived)
           D    == ToCompute(calc)
           C    == Pool(t, L)
           new  == Computed(D, C, {}, Discrete(t))
           N    == Fetched(L, t) \cup new
<1>2. PICK dropped, refs : Commit(N, dropped, refs, SelectedAge(t))
  BY <1>1
<1>3. /\ Resolvable(D, C)
      /\ Called(s, C \cup new, PoolValidity(t, L), IF flags[s] THEN "held" ELSE "ready", t)
  BY <1>1
<1>4. L \in SUBSET Raw /\ D \in SUBSET Derived
  BY LoadsType, MissingCount DEF ToCompute
<1>5. DefinedAll(Fetched(L, t)) /\ DefinedAll(C)
  BY <1>4, FetchedDefined, PoolDefined
<1>6. C \in SUBSET Condition
  <2> HIDE DEF new
  <2>1. Owners(Fetched(L, t)) \subseteq PoolId
    BY <1>2, OwnersUnion DEF Commit
  <2>2. Fetched(L, t) \subseteq Condition /\ TolerableAll(Fetched(L, t))
    BY <1>4, <2>1, FetchedSound, SoundCondition
  <2> QED BY <2>2, PoolProperty
<1>7. DefinedAll(new)
  <2> HIDE DEF C, D
  <2> QED BY <1>3, <1>4, <1>5, <1>6, ComputedDefined
<1>8. DefinedAll(N) /\ DefinedAll(C \cup new)
  <2> HIDE DEF C, new
  <2> QED BY <1>5, <1>7 DEF DefinedAll
<1> HIDE DEF C, N, new
<1> QED BY <1>2, <1>3, <1>8, CalledWhole

LEMMA ComputeWhole ==
  ASSUME Invariant, Whole, NEW s \in Slices, Compute(s), Gone(s) = {}
  PROVE  Whole'
<1> DEFINE C    == conditions[s]
           t    == required[s]
           D    == ToCompute(Missing(s, C, Derived))
<1>1. PICK stray \in {p.iov : p \in Referenced} \cup {Discrete(t)} :
        LET new == Computed(D, C, Gone(s), stray)
        IN  /\ Resolvable(D, C)
            /\ \E dropped \in CleanedBy(elements \cup Owners(new)) :
                 Commit(new, dropped, RefsAfter(s, t, elements \cup Owners(new)), age)
            /\ Called(s, C \cup new, validity[s], IF flags[s] THEN "split" ELSE "ready", t)
  BY DEF Compute
<1> DEFINE new == Computed(D, C, {}, stray)
<1>2. PICK dropped, refs : Commit(new, dropped, refs, age)
  BY <1>1
<1>3. /\ Resolvable(D, C)
      /\ Called(s, C \cup new, validity[s], IF flags[s] THEN "split" ELSE "ready", t)
  BY <1>1
<1>4. D \in SUBSET Derived
  BY MissingCount DEF ToCompute
<1>5. C \in SUBSET Condition /\ DefinedAll(C)
  BY DEF Invariant, TypeOK, Whole
<1>6. DefinedAll(new)
  <2> HIDE DEF C, D
  <2> QED BY <1>3, <1>4, <1>5, ComputedDefined
<1>7. DefinedAll(C \cup new)
  <2> HIDE DEF C, new
  <2> QED BY <1>5, <1>6 DEF DefinedAll
<1> HIDE DEF C, new, t
<1> QED BY <1>2, <1>3, <1>6, <1>7, CalledWhole

\* A commit of defined conditions that adds none to a slice.
LEMMA OtherWhole ==
  ASSUME Whole, NEW N, DefinedAll(N), NEW dropped, NEW refs, NEW ages,
         Commit(N, dropped, refs, ages),
         \A s \in Slices : conditions'[s] \subseteq conditions[s]
  PROVE  Whole'
<1>1. \A p \in PoolId : DefinedAll(entries'[p])
  BY CommitWhole
<1> QED BY <1>1 DEF Whole, DefinedAll

LEMMA WholeStep == Invariant /\ Whole /\ [TimelyNext]_vars => Whole'
<1> SUFFICES ASSUME Invariant, Whole, [TimelyNext]_vars PROVE Whole'
  OBVIOUS
<1>1. ASSUME NEW s \in OneStep, NEW t \in Times, Prepare(s, t) PROVE Whole'
  BY <1>1, CacheAssumptions, PrepareWhole
<1>2. ASSUME NEW s \in Slices, NEW t \in Times, PrepareFails(s, t) \/ Load(s, t) PROVE Whole'
  <2>1. PICK L \in Loads(s, t), left \in Phase :
          /\ Commit(Fetched(L, t), {}, used, SelectedAge(t))
          /\ Called(s, Pool(t, L), PoolValidity(t, L), left, t)
    BY <1>2 DEF PrepareFails, Load, Phase
  <2>2. DefinedAll(Fetched(L, t)) /\ DefinedAll(Pool(t, L))
    BY LoadsType, FetchedDefined, PoolDefined
  <2> QED BY <2>1, <2>2, CalledWhole
<1>3. ASSUME NEW s \in TwoStep, Compute(s), Timely PROVE Whole'
  BY <1>3, CacheAssumptions, ComputeWhole DEF Timely
<1>4. DefinedAll({})
  BY DEF DefinedAll
<1>5. ASSUME NEW s \in Slices, DerefPools(s) \/ Reset(s) PROVE Whole'
  <2>1. Commit({}, {}, Released(s), age) /\ \A r \in Slices : conditions'[r] \subseteq conditions[r]
    BY <1>5 DEF DerefPools, Reset, Invariant, TypeOK
  <2> QED BY <1>4, <2>1, OtherWhole
<1>6. ASSUME NEW k \in Raw, NEW t \in Times, Populate(k, t) PROVE Whole'
  <2>1. Commit(Fetched({k}, t), {}, used, age) /\ conditions' = conditions
    BY <1>6 DEF Populate, sliceVars
  <2>2. DefinedAll(Fetched({k}, t))
    BY FetchedDefined
  <2> QED BY <2>1, <2>2, OtherWhole
<1>7. ASSUME CleanPolicy \/ \E m \in 0 .. AgeCap : CleanAged(m) PROVE Whole'
  <2>1. /\ \E dropped : Commit({}, dropped, used, age)
        /\ conditions' = conditions
    BY <1>7 DEF CleanPolicy, CleanAged, sliceVars
  <2> QED BY <1>4, <2>1, OtherWhole
<1>8. ASSUME UNCHANGED <<entries, conditions>> PROVE Whole'
  BY <1>8 DEF Whole
<1> QED BY <1>1, <1>2, <1>3, <1>5, <1>6, <1>7, <1>8, CacheAssumptions
        DEF TimelyNext, Next, RefPools, ComputeFails, vars

\* Timely clients change nothing of what holds for all.
LEMMA TimelyImplements == TimelySpec => Spec
<1>1. [TimelyNext]_vars => [Next]_vars
  BY DEF TimelyNext
<1> QED BY <1>1, PTL DEF TimelySpec, Spec

LEMMA StaysWhole == TimelySpec => []Whole
<1>1. Init => Whole
  BY DEF Init, Whole, DefinedAll
<1> QED BY <1>1, WholeStep, Inductive, TimelyImplements, PTL DEF TimelySpec

\* What is whole and settled is coherent.
LEMMA WholeCoherent == Invariant /\ Whole => Coherent
<1>1. ASSUME NEW val, NEW key, Tolerable(val, key), Defined(val) PROVE Faithful(val, key)
  BY <1>1 DEF Tolerable, Defined, Faithful
<1> QED BY <1>1 DEF Invariant, Settled, Whole, DefinedAll, Coherent

\* No pool and no slice ever holds a stale or an undefined value: for every time
\* its IOV covers a condition has the value the database gives, if no client
\* computes over conditions a cleanup has deleted since its load.
THEOREM Coherence == TimelySpec => []Coherent
BY WholeCoherent, StaysWhole, Inductive, TimelyImplements, PTL
=============================================================================
