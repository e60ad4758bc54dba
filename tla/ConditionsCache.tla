--------------------------- MODULE ConditionsCache ---------------------------
(***************************************************************************)
(* The conditions store of DDCond for one IOV type: the manager            *)
(* (Manager_Type1), its pools ordered by interval of validity              *)
(* (ConditionsIOVPool, ConditionsMappedPool) and the slices through which  *)
(* clients see the conditions of one time stamp (ConditionsSlice with its  *)
(* ConditionsMappedUserPool).                                              *)
(*                                                                         *)
(* Every call of the manager is one action: the module is the store as     *)
(* seen by clients that do not call it concurrently.  Derived conditions   *)
(* depend on raw conditions only; chains of derived conditions are the     *)
(* subject of module DependencyHandler.                                    *)
(*                                                                         *)
(* A condition object is owned by the pool it was inserted to and deleted  *)
(* with it; a slice holds plain pointers.  A pool is identified by its IOV *)
(* key and by a number that nothing refers to when the pool is created, so *)
(* that a pool created again is not the pool a pointer still refers to.    *)
(***************************************************************************)
EXTENDS Iov, FiniteSets

CONSTANTS
  Slices,      \* ConditionsSlice objects, one client each
  Raw,         \* names of the conditions the loader finds in the database
  Derived,     \* names of the conditions computed by update callbacks
  Deps,        \* Deps[d]: the raw conditions the callback of d accesses
  Wanted,      \* Wanted[s]: names in the ConditionsContent of slice s
  OneStep,     \* slices whose client calls prepare
  TwoStep,     \* slices whose client calls load and then compute
  Times,       \* time stamps a client may ask for
  Database,    \* Database[k][t]: IOV of the value of k at time t
  Settings,    \* the options the manager may be configured with
  AgeCap,      \* bound: pool ages are counted up to this value
  MaxId,       \* bound: pools of one key that can be told apart
  Recreated    \* bound: keys of which more than one can be

Name == Raw \cup Derived

Inputs(c) == IF c \in Raw THEN {c} ELSE Deps[c]

ASSUME CacheAssumptions ==
  /\ Raw \cap Derived = {} /\ IsFiniteSet(Raw) /\ IsFiniteSet(Derived)
  /\ Deps \in [Derived -> SUBSET Raw]
  /\ Wanted \in [Slices -> SUBSET Name]
  /\ Times \subseteq Key_value
  /\ OneStep \subseteq Slices /\ TwoStep \subseteq Slices
  /\ Settings \subseteq [load : BOOLEAN, output : BOOLEAN, cleaner : BOOLEAN]
  /\ AgeCap \in Nat /\ MaxId \in Nat
  /\ Database \in [Raw -> [Times -> Key]]
  \* The intervals the database gives for one condition contain the time
  \* asked for and do not overlap.
  /\ \A k \in Raw, t \in Times :
       /\ key_contains_range(Database[k][t], Discrete(t))
       /\ \A u \in Times : key_contains_range(Database[k][t], Discrete(u))
                             => Database[k][u] = Database[k][t]

\* What reading a deleted condition yields.
CONSTANT Undefined

ASSUME UndefinedAssumption == Undefined \notin Key

\* A value is given by the database entries it was made from: its own for a
\* raw condition, those of its dependencies for a derived one.
ValueOf(c) == [Inputs(c) -> Key \cup {Undefined}]
Value == UNION {ValueOf(c) : c \in Name}

Truth(c, t) == [k \in Inputs(c) |-> Database[k][t]]

PoolId == {p \in [iov : Key, n : 1 .. MaxId] : p.n = 1 \/ p.iov \in Recreated}

\* An object whose registration failed because the pool already had its name
\* belongs to no pool and is never deleted; it still refers to the pool's IOV.
Unowned(key) == [iov |-> key, n |-> 0]
Home == PoolId \cup {Unowned(key) : key \in Key}

NoTime == MIN_KEY - 1

VARIABLES
  elements,    \* the pools in ConditionsIOVPool::elements
  entries,     \* entries[p]: the conditions pool p owns
  age,         \* age[p]: age_value of pool p
  conditions,  \* conditions[s]: m_conditions of the user pool of slice s
  validity,    \* validity[s]: m_iov of the user pool
  used,        \* used[s]: used_pools of the slice
  flags,       \* flags[s]: the slice has REF_POOLS set
  missing,     \* missing[s]: status.missing of the slice
  unloaded,    \* unloaded[s]: missingConditions and missingDerivations
  phase,       \* phase[s]: what the last call for the slice left behind
  required,    \* required[s]: the time of that call
  options      \* LoadConditions and OutputUnloadedConditions of the manager,
               \* and whether a cleanup handler was adopted

sliceVars == <<conditions, validity, flags, missing, unloaded, phase, required>>
vars == <<elements, entries, age, conditions, validity, used, flags,
          missing, unloaded, phase, required, options>>

(***************************************************************************)
(* phase[s]                                                                *)
(*   "empty"   never prepared, or reset                                    *)
(*   "loaded"  load returned: raw conditions only                          *)
(*   "ready"   prepare or compute returned, REF_POOLS was not set          *)
(*   "held"    prepare returned, it referenced the pools                   *)
(*   "split"   compute returned, it referenced the pools                   *)
(*   "failed"  an update callback threw out of prepare or compute          *)
(***************************************************************************)
Phase == {"empty", "loaded", "ready", "held", "split", "failed"}

Entry == {e \in [name : Name, val : Value] : e.val \in ValueOf(e.name)}

\* A pointer to a condition: the object and its owner.
Condition == {c \in [name : Name, val : Value, home : Home] :
                c.val \in ValueOf(c.name)}

Object(c) == [name |-> c.name, val |-> c.val]
Names(C) == {c.name : c \in C}

TypeOK ==
  /\ elements \in SUBSET PoolId
  /\ entries \in [PoolId -> SUBSET Entry]
  /\ age \in [PoolId -> 0 .. AgeCap]
  /\ conditions \in [Slices -> SUBSET Condition]
  /\ validity \in [Slices -> Key]
  /\ used \in [Slices -> SUBSET PoolId]
  /\ flags \in [Slices -> BOOLEAN]
  /\ missing \in [Slices -> Nat]
  /\ unloaded \in [Slices -> SUBSET Name]
  /\ phase \in [Slices -> Phase]
  /\ required \in [Slices -> Times \cup {NoTime}]
  /\ options \in Settings

Init ==
  /\ elements = {}
  /\ entries = [p \in PoolId |-> {}]
  /\ age = [p \in PoolId |-> 0]
  /\ conditions = [s \in Slices |-> {}]
  /\ validity = [s \in Slices |-> Discrete(MIN_KEY)]
  /\ used = [s \in Slices |-> {}]
  /\ flags = [s \in Slices |-> FALSE]
  /\ missing = [s \in Slices |-> 0]
  /\ unloaded = [s \in Slices |-> {}]
  /\ phase = [s \in Slices |-> "empty"]
  /\ required = [s \in Slices |-> NoTime]
  /\ options \in Settings

-----------------------------------------------------------------------------
(***************************************************************************)
(* Selection: ConditionsIOVPool::select over the pools whose key contains  *)
(* the required time.                                                      *)
(***************************************************************************)
Covering(P, t) == {p \in P : key_contains_range(p.iov, Discrete(t))}

\* MapSelector emplaces the conditions of the pools in key order: of two pools
\* with a condition of the same name the first one wins.
IsFirst(p, c, P) ==
  \A q \in P : c \in Names(entries[q]) => q = p \/ Before(p.iov, q.iov)

Selection(t) ==
  LET P == Covering(elements, t)
  IN  UNION {{[name |-> e.name, val |-> e.val, home |-> p] :
                e \in {x \in entries[p] : IsFirst(p, x.name, P)}} : p \in P}

SelectedValidity(t) == Intersection({p.iov : p \in Covering(elements, t)})

\* The pools that match are young again, the others age.
SelectedAge(t) ==
  [p \in PoolId |-> IF p \in Covering(elements, t) THEN 0
                    ELSE IF age[p] < AgeCap THEN age[p] + 1 ELSE AgeCap]

(***************************************************************************)
(* Registration: Manager_Type1::registerIOV finds the pool of the key or   *)
(* creates it; ConditionsMappedPool::insert refuses a name it already has. *)
(***************************************************************************)
Referenced == elements \cup UNION {used[s] \cup {c.home : c \in conditions[s]} : s \in Slices}

Unused(key, n) == [iov |-> key, n |-> n] \notin Referenced

NewPool(key) ==
  [iov |-> key,
   n |-> CHOOSE n \in 1 .. MaxId + 1 : Unused(key, n) /\ \A m \in 1 .. n - 1 : ~Unused(key, m)]

\* Mutant: a pool whose interval contains the key is taken for the key's.
registerIOV_containing(key) ==
  IF \E p \in elements : key_contains_range(p.iov, key)
    THEN CHOOSE p \in elements : key_contains_range(p.iov, key)
    ELSE NewPool(key)

registerIOV(key) ==
  IF \E p \in elements : p.iov = key
    THEN CHOOSE p \in elements : p.iov = key
    ELSE NewPool(key)

Registered(c, val, key) ==
  LET p == registerIOV(key)
  IN  [name |-> c, val |-> val,
       home |-> IF p \in elements /\ c \in Names(entries[p]) THEN Unowned(key) ELSE p]

Owners(N) == {c.home : c \in N} \ {Unowned(key) : key \in Key}

(***************************************************************************)
(* The conditions N are registered, then the pools in dropped leave the    *)
(* map, and the slices reference the pools of refs.  A pool that is        *)
(* neither in the map nor referenced is destroyed with its conditions.     *)
(***************************************************************************)
\* Mutant: a slice refers to its pools without owning them.
Commit_unshared(N, dropped, refs, ages) ==
  /\ Owners(N) \subseteq PoolId
  /\ elements' = (elements \cup Owners(N)) \ dropped
  /\ used' = refs
  /\ entries' = [p \in PoolId |->
       IF p \in elements' THEN entries[p] \cup {Object(c) : c \in {x \in N : x.home = p}} ELSE {}]
  /\ age' = [p \in PoolId |-> IF p \in elements' THEN ages[p] ELSE 0]

Commit(N, dropped, refs, ages) ==
  /\ Owners(N) \subseteq PoolId
  /\ elements' = (elements \cup Owners(N)) \ dropped
  /\ used' = refs
  /\ entries' = [p \in PoolId |->
                   IF p \in elements' \/ \E s \in Slices : p \in used'[s]
                     THEN entries[p] \cup {Object(c) : c \in {x \in N : x.home = p}}
                     ELSE {}]
  /\ age' = [p \in PoolId |-> IF p \in elements' THEN ages[p] ELSE 0]

\* Pools a cleanup after the call removes: an adopted handler decides for each.
CleanedBy(P) == IF options.cleaner THEN SUBSET P ELSE {{}}

(***************************************************************************)
(* The loader returns the conditions of the database valid at t, for any   *)
(* names L it can find, more than was asked for included; it registers     *)
(* them to the pools of their intervals.  Of those the slice has already,  *)
(* it keeps the condition it has.                                          *)
(***************************************************************************)
Fetched(L, t) == {Registered(k, Truth(k, t), Database[k][t]) : k \in L}

\* Mutant: what was found is not taken off the required conditions.
Missing_all(s, C, kind) == Wanted[s] \cap kind

Missing(s, C, kind) == (Wanted[s] \cap kind) \ Names(C)

Loads(s, t) ==
  IF options.load /\ Missing(s, Selection(t), Raw) # {}
    THEN SUBSET Raw
    ELSE {{}}

\* The user pool after selection and load: contents and m_iov.
Pool(t, L) ==
  Selection(t) \cup {c \in Fetched(L, t) : c.name \notin Names(Selection(t))}

\* Mutant: Inserter without the intersection for what was loaded.
PoolValidity_selected(t, L) == Intersection({p.iov : p \in Covering(elements, t)})

PoolValidity(t, L) ==
  Intersection({p.iov : p \in Covering(elements, t)} \cup {Database[k][t] : k \in L})

\* missingConditions is filled by two of the three branches only.
UnloadedRaw(s, t, L) ==
  IF options.output /\ (options.load => L # {})
    THEN Missing(s, Pool(t, L), Raw)
    ELSE {}

(***************************************************************************)
(* Derived conditions: ConditionsDependencyHandler on the names D, with    *)
(* the conditions C of the user pool.  The callback of d reads Deps[d];    *)
(* the IOV of the result is the intersection of the IOVs of what it read.  *)
(* gone are the conditions of C that were deleted in the meantime: what a  *)
(* callback makes of one of them is undefined, and the IOV read from       *)
(* memory used again is the IOV stray of some pool.                        *)
(***************************************************************************)
Dep(k, C) == CHOOSE c \in C : c.name = k

Accessed(d, C) == {Dep(k, C) : k \in Deps[d]}

Resolvable(D, C) == \A d \in D : Deps[d] \subseteq Names(C)

\* Mutant: the IOVs of the dependencies are never intersected.
Computed_forever(D, C, gone, stray) ==
  {Registered(d, [k \in Deps[d] |-> Dep(k, C).val[k]], key_forever) : d \in D}

Computed(D, C, gone, stray) ==
  {IF Accessed(d, C) \cap gone = {}
     THEN Registered(d, [k \in Deps[d] |-> Dep(k, C).val[k]],
                     Intersection({c.home.iov : c \in Accessed(d, C)}))
     ELSE Registered(d, [k \in Deps[d] |-> Undefined], stray) : d \in D}

\* Mutant: the handler gets all derived conditions, present or not.
ToCompute_all(calc) == IF options.load THEN Derived ELSE {}

ToCompute(calc) == IF options.load THEN calc ELSE {}

UnloadedDerived(calc) == IF options.output /\ ~options.load THEN calc ELSE {}

\* used_pools after prepare or compute: with REF_POOLS the pools covering t.
\* Mutant: the pools are referenced before the loaded ones are registered.
RefsAfter_early(s, t, P) ==
  [used EXCEPT ![s] = IF flags[s] THEN Covering(elements, t) ELSE {}]

RefsAfter(s, t, P) ==
  [used EXCEPT ![s] = IF flags[s] THEN Covering(P, t) ELSE {}]

\* Mutant: the result of the second step replaces that of the first.
Accumulated_replaced(before, result) == result

\* Result::operator+= on the number of missing conditions.
Accumulated(before, result) == before + result

Alive(c) == c.home \notin PoolId \/ Object(c) \in entries[c.home]

Gone(s) == {c \in conditions[s] : ~Alive(c)}

-----------------------------------------------------------------------------
(***************************************************************************)
(* Operations of the manager on a slice.                                   *)
(***************************************************************************)
Called(s, C, iov, left, t) ==
  /\ conditions' = [conditions EXCEPT ![s] = C]
  /\ validity' = [validity EXCEPT ![s] = iov]
  /\ phase' = [phase EXCEPT ![s] = left]
  /\ required' = [required EXCEPT ![s] = t]
  /\ UNCHANGED <<flags, options>>

\* Manager_Type1::prepare.
Prepare(s, t) ==
  \E L \in Loads(s, t) :
    LET calc == Missing(s, Selection(t), Derived)
        D    == ToCompute(calc)
        C    == Pool(t, L)
        new  == Computed(D, C, {}, Discrete(t))
        N    == Fetched(L, t) \cup new
    IN  /\ Resolvable(D, C)
        /\ \E dropped \in CleanedBy(elements \cup Owners(N)) :
             Commit(N, dropped, RefsAfter(s, t, elements \cup Owners(N)), SelectedAge(t))
        /\ Called(s, C \cup new, PoolValidity(t, L), IF flags[s] THEN "held" ELSE "ready", t)
        /\ missing' = [missing EXCEPT ![s] =
             Cardinality(Missing(s, C, Raw)) + Cardinality(calc) - Cardinality(D)]
        /\ unloaded' = [unloaded EXCEPT ![s] =
             UnloadedRaw(s, t, L) \cup UnloadedDerived(calc)]

\* The exception of a callback that does not find a dependency leaves prepare
\* before status, used_pools and the cleanup are reached.
PrepareFails(s, t) ==
  \E L \in Loads(s, t) :
    LET D == ToCompute(Missing(s, Selection(t), Derived))
    IN  /\ ~Resolvable(D, Pool(t, L))
        /\ Commit(Fetched(L, t), {}, used, SelectedAge(t))
        /\ Called(s, Pool(t, L), PoolValidity(t, L), "failed", t)
        /\ unloaded' = [unloaded EXCEPT ![s] = UnloadedRaw(s, t, L)]
        /\ UNCHANGED missing

\* Manager_Type1::load, the first step of prepare: no cleanup, used_pools kept.
Load(s, t) ==
  \E L \in Loads(s, t) :
    /\ Commit(Fetched(L, t), {}, used, SelectedAge(t))
    /\ Called(s, Pool(t, L), PoolValidity(t, L), "loaded", t)
    /\ missing' = [missing EXCEPT ![s] = Cardinality(Missing(s, Pool(t, L), Raw))]
    /\ unloaded' = [unloaded EXCEPT ![s] = UnloadedRaw(s, t, L) \cup (@ \cap Derived)]

\* Manager_Type1::compute, the second step, for the IOV of the load before it.
Compute(s) ==
  \E stray \in {p.iov : p \in Referenced} \cup {Discrete(required[s])} :
  LET C    == conditions[s]
      t    == required[s]
      calc == Missing(s, C, Derived)
      D    == ToCompute(calc)
      new  == Computed(D, C, Gone(s), stray)
  IN  /\ phase[s] = "loaded"
      /\ Resolvable(D, C)
      /\ \E dropped \in CleanedBy(elements \cup Owners(new)) :
           Commit(new, dropped, RefsAfter(s, t, elements \cup Owners(new)), age)
      /\ Called(s, C \cup new, validity[s], IF flags[s] THEN "split" ELSE "ready", t)
      /\ missing' = [missing EXCEPT ![s] =
             Accumulated(@, Cardinality(calc) - Cardinality(D))]
      /\ unloaded' = [unloaded EXCEPT ![s] = (@ \cap Raw) \cup UnloadedDerived(calc)]

ComputeFails(s) ==
  /\ phase[s] = "loaded"
  /\ ~Resolvable(ToCompute(Missing(s, conditions[s], Derived)), conditions[s])
  /\ phase' = [phase EXCEPT ![s] = "failed"]
  /\ unloaded' = [unloaded EXCEPT ![s] = @ \cap Raw]
  /\ UNCHANGED <<elements, entries, age, conditions, validity, used, flags,
                 missing, required, options>>

-----------------------------------------------------------------------------
(***************************************************************************)
(* Operations on the slice alone: refPools, derefPools, reset.             *)
(***************************************************************************)
RefPools(s) ==
  /\ ~flags[s]
  /\ flags' = [flags EXCEPT ![s] = TRUE]
  /\ UNCHANGED <<elements, entries, age, conditions, validity, used, missing,
                 unloaded, phase, required, options>>

Released(s) == [used EXCEPT ![s] = {}]

DerefPools(s) ==
  /\ flags[s]
  /\ flags' = [flags EXCEPT ![s] = FALSE]
  /\ phase' = [phase EXCEPT ![s] = IF @ \in {"held", "split"} THEN "ready" ELSE @]
  /\ Commit({}, {}, Released(s), age)
  /\ UNCHANGED <<conditions, validity, missing, unloaded, required, options>>

\* ConditionsSlice::reset: derefPools, then UserPool::clear.
Reset(s) ==
  /\ phase[s] # "empty"
  /\ Commit({}, {}, Released(s), age)
  /\ flags' = [flags EXCEPT ![s] = FALSE]
  /\ conditions' = [conditions EXCEPT ![s] = {}]
  /\ validity' = [validity EXCEPT ![s] = Discrete(MIN_KEY)]
  /\ phase' = [phase EXCEPT ![s] = "empty"]
  /\ required' = [required EXCEPT ![s] = NoTime]
  /\ UNCHANGED <<missing, unloaded, options>>

(***************************************************************************)
(* Operations of the manager on the pools alone.                           *)
(***************************************************************************)
\* A client fills the store through registerIOV and registerUnlocked.
Populate(k, t) ==
  /\ Commit(Fetched({k}, t), {}, used, age)
  /\ UNCHANGED <<sliceVars, options>>

\* clean(const ConditionsCleanup&): the policy decides for each pool.
CleanPolicy ==
  /\ \E dropped \in SUBSET elements : Commit({}, dropped, used, age)
  /\ UNCHANGED <<sliceVars, options>>

\* clean(typ, max_age); clear() is the case max_age = 0.
CleanAged(max_age) ==
  /\ Commit({}, {p \in elements : age[p] >= max_age}, used, age)
  /\ UNCHANGED <<sliceVars, options>>

Next ==
  \/ \E s \in OneStep, t \in Times : Prepare(s, t) \/ PrepareFails(s, t)
  \/ \E s \in TwoStep, t \in Times : Load(s, t)
  \/ \E s \in TwoStep : Compute(s) \/ ComputeFails(s)
  \/ \E s \in Slices : RefPools(s) \/ DerefPools(s) \/ Reset(s)
  \/ \E k \in Raw, t \in Times : Populate(k, t)
  \/ CleanPolicy
  \/ \E m \in 0 .. AgeCap : CleanAged(m)

Spec == Init /\ [][Next]_vars

(***************************************************************************)
(* A client of the two-step interface has to see to it that no cleanup     *)
(* comes between its load and its compute: used_pools is empty in between, *)
(* and what compute makes of deleted conditions it registers for everybody *)
(* to select.  Under TimelySpec every such client does.                    *)
(***************************************************************************)
Timely == \A s \in TwoStep : Gone(s) # {} => ~Compute(s)

TimelyNext == Next /\ Timely

TimelySpec == Init /\ [][TimelyNext]_vars

-----------------------------------------------------------------------------
(***************************************************************************)
(* Properties.                                                             *)
(***************************************************************************)
Defined(val) == \A k \in DOMAIN val : val[k] # Undefined

\* What is stored with the IOV key is the truth for every time of key.
Faithful(val, key) ==
  \A k \in DOMAIN val, t \in Times :
    key_contains_range(key, Discrete(t)) => val[k] = Database[k][t]

\* The cache never serves a stale value: every condition in a pool, and every
\* condition a slice points to, has the value the database gives for each time
\* its IOV covers.  Selection, block registration to the pool of the
\* intersected IOV and the IOV of derived conditions must agree for that, and
\* no compute may read what a cleanup has deleted (TimelySpec).
Coherent ==
  /\ \A p \in PoolId : \A e \in entries[p] : Faithful(e.val, p.iov)
  /\ \A s \in Slices : \A c \in conditions[s] : Faithful(c.val, c.home.iov)

\* ConditionsSlice::iov is right: it contains the time the slice was prepared
\* for and lies within the IOV of the pool of every condition of the slice, so
\* that a client may keep the slice for every time in it.
SliceValid ==
  \A s \in Slices : phase[s] # "empty" =>
    /\ key_contains_range(validity[s], Discrete(required[s]))
    /\ \A c \in conditions[s] :
         Defined(c.val) => key_contains_range(c.home.iov, validity[s])

\* No cleanup, of whichever kind and whoever asks for it, deletes a condition
\* of a slice prepared with REF_POOLS until the slice releases its pools.
HeldAlive ==
  \A s \in Slices : phase[s] = "held" => \A c \in conditions[s] : Alive(c)

\* status.missing, accumulated over load and compute, is the number of the
\* conditions of the content the prepared slice lacks.
MissingExact ==
  \A s \in Slices : phase[s] \in {"ready", "held", "split"} =>
    missing[s] = Cardinality(Wanted[s] \ Names(conditions[s]))

\* Two calls never meet in prepare: whatever prepare adds to the slice enters a
\* pool, it is never refused as a ConditionsClash and leaked.  (compute alone
\* may be: another slice can have computed the condition since the load.)
PrepareOwns ==
  [][\A s \in OneStep, t \in Times : Prepare(s, t) =>
       \A c \in conditions'[s] : c \in Selection(t) \/ c.home.n > 0]_vars

\* What the clients of the store rely on (module ConditionsService): a slice
\* prepared with REF_POOLS lets its client read, for the time it was prepared
\* for and until the client itself prepares it again or releases the pools, the
\* same true conditions, and lacks as many of those wanted as status.missing
\* says, whatever the other clients, the loader and the cleanups do, as long as
\* no client computes over conditions a cleanup has deleted (TimelySpec).
Answers ==
  [t \in Times |-> {o \in Entry : \A k \in DOMAIN o.val : o.val[k] = Database[k][t]}]

Readable(s) == {Object(c) : c \in {x \in conditions[s] : Alive(x)}}

view ==
  [s \in Slices |-> IF phase[s] = "held"
     THEN [time |-> required[s], readable |-> Readable(s), missing |-> missing[s]]
     ELSE [time |-> NoTime, readable |-> {}, missing |-> 0]]

Service == INSTANCE ConditionsService
             WITH view <- view, Slices <- Slices, Times <- Times, NoTime <- NoTime,
                  Wanted <- Wanted, Answers <- Answers

ServesConditions == Service!Spec

-----------------------------------------------------------------------------
(***************************************************************************)
(* Statements of the documentation the code does not meet.                 *)
(***************************************************************************)
\* ConditionsSlice.h: used_pools, "If requested refence the used pools with a
\* shared pointer to inhibit cleanup".  load does not fill it, and compute, the
\* second step, references the pools it finds then, not those load selected from.
SplitHeld ==
  \A s \in Slices : phase[s] = "split" => \A c \in conditions[s] : Alive(c)
=============================================================================
