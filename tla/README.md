# A TLA+ verification of DD4hep

DD4hep is a toolkit that describes particle detectors: their geometry, the conditions and alignments that change
with time, the simulation, digitization and reconstruction built on the description. This directory holds
specifications of its stateful core, checked with TLC, and theorems about them, proved with TLAPS. All paths below
are relative to `src/`.

## 1. The system

| Component | State | Operations | What makes it correct |
| --- | --- | --- | --- |
| Intervals of validity (`DDCore/src/IOV.cpp`) | a key: pair of 64 bit integers | containment, intersection, order | the intersection is the largest interval contained in all |
| Conditions manager (`DDCond/src/Type1/Manager_Type1.cpp`) | IOV pools per type, cleanup handler, loader, two locks | `registerIOV`, `registerUnlocked`, `blockRegister`, `prepare`, `load`, `compute`, `clean`, `clear` | never serves a stale value; cleanup spares what is in use |
| IOV pools (`ConditionsIOVPool`, `ConditionsMappedPool`) | map from IOV key to pool, conditions and age of each pool | `select`, `insert`, `clean` | one pool per key; owns what was inserted |
| Slices and user pools (`ConditionsSlice`, `ConditionsMappedUserPool`) | pointers to conditions, validity, flags, referenced pools, status, missing lists | `prepare`, `load`, `compute`, `refPools`, `derefPools`, `reset`, `manage`, `insert`, `compute(deps, force)` | status, validity and contents agree; pointers stay valid while pools are referenced |
| Dependency handler (`ConditionsDependencyHandler`) | one Work item per missing derived condition, the current item | `compute`, `resolve`, `get`, registration | each condition created once; right IOV; cycles are refused |
| Conditions content | load infos and dependencies, reference counted | insert, merge, remove | each key has one definition; counts balance |
| Conditions loaders (`examples/DDDB`) | documents | `load_many` | returns conditions valid at the time asked for |
| Alignments (`AlignmentsCalculator`, `GlobalAlignmentCache`) | entries per detector element, cache per subdetector | compute, commit | children follow their parents; a reference counted cache |
| Digitization kernel (`DDDigi/src/DigiKernel.cpp`) | event counters, stop flag, processors, tasks of an event | `run`, `submit`, `notify` | every event is processed once; `run` returns |
| Digitization input and output (`DigiROOTInput`, `DigiOutputAction`) | position in the files, output frame, a global I/O lock | read, convert, commit | every entry is read once; frames are complete |
| Digitization event store | segments of containers | put, get, combine, process | no container lost or overwritten by parallel workers |
| Primary input (`DDG4/src/Geant4InputHandling.cpp`) | interactions by mask, merged record, Geant4 primaries | init, input actions, `mergeInteractions`, `generatePrimaries` | the record is merged whole; every particle is handed over once |
| Particle record (`DDG4/src/Geant4ParticleHandler.cpp`) | particles and suspended particles by track, equivalents | begin, step, end, recombine, rebase | a consistent tree; hits belong to the right particle |
| Simulation kernel | master and worker kernels, phases | create, configure, run | shared actions live as long as they are used |
| Detector description, volume manager, bit fields | detector elements, volume identifiers, packed fields | parse, close, populate, encode, decode | the state machine of the detector object; packing reverses unpacking |

Conditions. A client asks the manager to `prepare` a slice for a time. The user pool of the slice selects what the IOV
pools hold for it, has the loader fetch what is missing, and hands the missing derived conditions to the dependency
handler, whose callbacks read other conditions through the handler. All that was loaded or derived is registered back
to the IOV pools, for every slice to find. A cleanup, after each prepare or on request, drops IOV pools. The slice
refers to conditions by plain pointers; the pools own the conditions. A slice with `REF_POOLS` shares ownership of the
pools it uses.

Digitization. `run` starts one processor per parallel event, or runs one at a time. A processor takes the number of
the next event and calls the input, event and output action; the event action submits its own actions to the threads
of TBB. All events share the input files and the output frame.

Simulation. The input actions each add an interaction, the merger joins them, the primary handler makes primary
particles of Geant4 out of the merged record. Geant4 tracks them and calls the particle handler for each track; the
handler writes the record of the event, to which hits refer.

Hard behaviours: pointers that outlive a cleanup; a two step mode in which other clients come between the steps; IOVs
that accumulate along several paths; recursion of callbacks into the handler; threads that prepare slices under
three different static mutexes; events that meet at a stop flag without a lock, at shared files and a shared frame;
exceptions of one event while others are in flight; tracks that are suspended and resumed while their secondaries are
simulated; records with shared daughters and loops. `PROJECT.json` lists them at their lines (`hazards`).

The conditions database comes first because every other subsystem reads through it and because a wrong answer is
silent there: a stale value is a plausible value. The event loop and the two ends of a simulated event, what enters
Geant4 and what is kept of it, come next: they run for every event and have the longest sequences of dependent steps.

## 2. The modules

| Module | Contents |
| --- | --- |
| `Iov` | keys and their operations; the folded intersection as one operator |
| `ConditionsService` | what a client relies on: abstract specification |
| `ConditionsCache` | manager, IOV pools, user pools and slices, call by call; extends `Iov`, implements `ConditionsService` |
| `ConditionsLocks` | the same calls by several threads, split at their locks |
| `DependencyHandler` | the handler with its call stack; extends `Iov` |
| `EventLoop` | what `DigiKernel::run` promises: abstract specification |
| `DigiKernel` | the event loop with its processors, tasks, input and output; implements `EventLoop` |
| `Geant4Input` | from the input actions to the primaries of Geant4 |
| `ParticleRecord` | to which particle a hit belongs: abstract specification |
| `ParticleHandler` | callbacks of the tracks, recombination, rebasing; implements `ParticleRecord` |
| `MC...` | instances for TLC |
| `IovProofs`, `ConditionsCacheProofs`, `ConditionsSliceProofs`, `ConditionsLocksProofs`, `DependencyHandlerProofs`, `DigiKernelProofs`, `Geant4InputProofs`, `ParticleHandlerProofs` | theorems and proofs |

Names that end in a suffix and follow the comment "Mutant" are deliberate mistakes of the code: with one in place of
the definition below it, the property it belongs to fails.

### Iov

`iov_intersection` is the function of that name on keys. The loops of the code that intersect a number of keys start
from `reset().invert()`, the key from the smallest to the largest integer. `Intersection(S)` is what such a loop
computes, independent of the order; TLC compares it with the fold of `iov_intersection` (assumption
`IntersectionIsFold` of `MCConditionsCache`). The type of IOVs (run, epoch and so on) is left out: the pools of
different types do not interact.

### ConditionsCache

| Variable | Code |
| --- | --- |
| `elements` | `ConditionsIOVPool::elements`, a map of shared pointers to pools |
| `entries`, `age` | `m_entries` and `age_value` of a pool |
| `conditions`, `validity` | `m_conditions`, `m_iov` of the user pool |
| `used`, `flags` | `used_pools` and the flag `REF_POOLS` of the slice |
| `missing`, `unloaded` | `status.missing` and the two missing lists of the slice |
| `options` | properties `LoadConditions`, `OutputUnloadedConditions`; a cleanup handler adopted or not |
| `phase`, `required` | the last call for the slice and its time: the protocol of the client |

Actions and code: `Prepare`/`PrepareFails`, `Load`, `Compute`/`ComputeFails` are `Manager_Type1::prepare`, `load`,
`compute` with everything they call: selection and ageing (`SelectedAge`), loader (`Fetched`), handler (`Computed`),
registration, references (`RefsAfter`) and the cleanup of an adopted handler (`CleanedBy`). The failing variants are
the exception of a callback that does not find a dependency, which leaves what was loaded, and nothing else, behind.
`RefPools`, `DerefPools`, `Reset` are the methods of the slice; `Populate` a client that fills the store;
`CleanPolicy` and `CleanAged` the three cleanups (`clear` is `CleanAged(0)`). `Commit` stands for ownership: a pool
that is neither in the map nor shared by a slice is destroyed with its conditions.

Abstractions. A value is the record of the database intervals it was made from, so that a wrong value is visible. The
cleanup policy is any. A pool carries a number besides its key, so that a pool created again is told apart from one a
pointer still refers to; the number is the lowest that nothing refers to. What a callback makes of a deleted
condition is `Undefined` and its IOV any pool's. The loader finds any subset of the raw names. Derived conditions
depend on raw ones only, the general case being the subject of `DependencyHandler`.

`Spec` lets a client compute over conditions that a cleanup has deleted since its `load`; the value it makes is
registered and may be selected by everybody. No promise about values can hold then, so the promises are stated for
`TimelySpec`: the same store, the same cleanups, but a client whose slice has lost a condition (`Gone`) does not call
`compute`. Nothing in the code checks this for the client.

### DependencyHandler

One behaviour is one `compute()` and `resolve()`. `stack` is the C++ stack of callbacks, `work` the Work items, `pass`
and `pending` the two loops over `m_todo` (in any order: it is sorted by hash). An access of a callback is `get`
followed by the intersection in `ConditionUpdateContext::condition`; the cases of `get` are the actions `AccessPool`,
`AccessResolved`, `AccessCreated`, `AccessInvalid`, `AccessUnknown`, and the recursion check of `do_callback` is
`AccessLoops`. The ends of `do_callback` and of `Work::resolve` are `CreateReturns...` and `ResolveReturns...`, which
differ by whether the loop or `get` called. What callbacks access, at creation and at resolve, is any graph of the
constant `Graphs`.

### ConditionsLocks

`ConditionsCache` has each call of the manager as one step. Here a call is split where it takes or gives up a lock:
`LockUpdates` to `PushUpdates` (`pushUpdates`, with which `prepare` and `load` begin), `AcquireLock` (the static mutex
of `prepare`, `load` or `compute`; `m_updateLock` for a cleanup by age), `Select`, `Work` (loader and handler),
`RegisterIOV` and `Emplace` (under `m_poolLock`), `Insert`, `LoadDone`, `Compute`, `DeriveDone`, `SelectRefs`,
`Clean`, and `Fail`, the exception of a loader or callback. `pushUpdates` does not nest its locks: `m_updateLock` is
released at the end of a block (Manager_Type1.cpp:386-389) before `m_poolLock` is taken (390).

The loader reads whole documents: when a raw condition is missing it registers any set of them, not all that are
missing, and such as the pools have already, which refuse them (`Loads`). With `LoadConditions` off it is not called.
So `prepare` may return with conditions missing. `elements` is the map of the pools and `content[k]` the names in the
pool of key `k`; an interval is the set of times it contains. An entry of a user pool (`mapped`) is a name, the key it
was registered under and whether a pool owns it; `fresh` tells that no cleanup came since its selection. `Alone` is
the discipline of the clients: calls that are made only while no other thread is in a call; `AutoClean` whether a
cleanup handler is adopted, whose cleanup runs after `prepare` gave up its mutex. Values, ages and settings are the
subject of `ConditionsCache`.

### DigiKernel and EventLoop

| Variable | Code |
| --- | --- |
| `mode`, `tbb_init`, `runs` | where `run` is; `internals->tbb_init`, set up by the first run |
| `todo`, `finished`, `submitted`, `stop` | `events_todo`, `events_finished`, `events_submitted`, `stop` |
| `pc`, `event` | what a `Processor` does next, with which event |
| `queued`, `running`, `worked`, `failed` | the tasks of the `tbb::task_group` of an event |
| `io_lock`, `source`, `frame` | `global_io_lock`, position of the input source, collections of the output frame |

`TakeEvent` is the body of `Processor::operator()` under `counter_lock`. `LockInput`, `NextEntry`, `InputExhausted`
and `LoadEntry` are `DigiROOTInput`, which opens the next file at the end of one. `SubmitAction`, `BeginAction`,
`EndAction` and `JoinActions` are `submit`, in parallel or in order. `LockOutput`, `ConvertContainer` and
`CommitOutput` are the output action; `Finish` and `NotifyException` the ends of `executeEvent`. `Throw` and the
failing cases of `EndAction`, `NextEntry` and others are exceptions, allowed at the stages in `Faults`; `UserStop`
sets the property `stop` from the prompt.

`EventLoop` knows the numbers of the events in flight and a limit. The refinement maps `begun` to
`NumEvents - todo` and `inFlight` to the events of the processors.

### Geant4Input

`interactions` is `Geant4PrimaryEvent`, a map by mask; `particles`, `vertices` and `nextPID` the merged
`Geant4PrimaryInteraction`; `prim`, `visited` the maps of `generatePrimaries`; `links` the calls of `SetPrimary` and
`SetDaughter`; `stack` the calls of `getRelevant` that did not return, with the daughters left and the primaries
found. `Add`, `AddTwice` and `ReadFails` are `Geant4InputAction::operator()` with the read of an event, `Merge` one
turn of `mergeInteractions` in the order of the masks (`Rebased`, `RebasedVertices`, `Appended`), `EndMerge` its end.
`StartRoot` and `EndRoot` are the loop over vertices and their outgoing particles, `Stable`, `Ignore`, `Refuse`,
`Decay`, `Drop` the branches of `getRelevant`, `Skip` a daughter visited before.

A particle is reduced to its family and a `Kind`, which is what status, PDG code, definition and times make of it in
the conditions of `getRelevant`. Every particle remembers the interaction it is from (`origin`), so that a mistake of
the offsets is visible. Records have the form the readers give them (`WellFormed`): numbers from zero, no particle
that leaves two vertices, and families that agree from both sides, but where the HepMC reader cleared the parents of
the daughters of a particle without parents (Geant4EventReaderHepMC.cpp:344-360). Such a daughter (`Stripped`) is a
root of the walk and a daughter as well.

### ParticleHandler and ParticleRecord

`particleMap`, `suspendedPM`, `haveSuspended` and `equivalents` are `m_particleMap`, `m_suspendedPM`,
`m_haveSuspended` and `m_equivalentTracks`; a particle is its `reason`, a set of bits. `SimulateTrack` is one track
from `begin` over its steps and marks to `end`; Geant4 chooses the track, what happens to it (`Fates`), whether it is
suspended, once more perhaps, and numbers the secondaries. `Visit` and `EndPass` are `recombineParents`, which goes
over the particles from the back until a pass removes nothing; `Rebase` is `rebaseSimulatedTracks`, with
`checkConsistency` as `Inconsistent`.

The generator's record is given by `Generated`, `Parents` and `Daughters`, what `Geant4Input` made of it by `Roots`,
the particles at vertices, and `Products`, those hung to another primary for Geant4 to decay it to. Roots are tracks
from the start; products become tracks, and primaries of the record with a mother, if the track above them lives to
decay (`Assigned`); the others never get a track and are in the final record all the same. `particle[t]` is the
particle of the generator track `t` belongs to. Primaries keep the parents of the reader, and become a daughter of
what stands for their mother only if that is the first of them (`NewParents`, `Hung`).

`ParticleRecord` says that a hit belongs to the particle of its track, or to that of the nearest ancestor kept. The
refinement maps the record to `Kept` and the chains of equivalents to `Answer`.

## 3. The runs

| Run | Instance | Properties |
| --- | --- | --- |
| `CacheClients` | two slices, one that calls prepare and one that calls load and compute (`TimelySpec`), pools created again | `TypeOK`, `HeldAlive`, `Coherent`, refinement `ServesConditions` |
| `CacheStaggered` | one slice, two raw conditions and one derived from both, three times, intervals that overlap in part | `Coherent`, `SliceValid`, `PrepareOwns` |
| `CacheSteps` | one slice in both modes, all eight settings, cleanups between load and compute, pools created again, computes over deleted conditions | `MissingExact`, `SliceValid` |
| `LocksPrepare` | two threads with three calls together, load, compute and cleanups made alone, loading on and off | `TypeOK`, `Exclusive`, `Served`, liveness `Returns` |
| `Handler` | three derived conditions with all acyclic graphs of accesses at resolve; two with all graphs at creation and resolve, an unknown condition included | `TypeOK`, `ExactAtResolve`, `CreatedOnce`, `NeverTooNarrow`, `NoEarlyAccess`, `RefusesForCause`, `DoneForCause`, liveness `Terminates` |
| `KernelLoop` | two processors, three events, two actions each, two containers, three files, all faults, two runs | `TypeOK`, `EachEventOnce`, `EntriesOnce`, `FramesWhole`, liveness `Returns`, refinement `ImplementsEventLoop` |
| `Primaries` | two inputs; up to four particles of all kinds, all acyclic families of three, shared daughters, a loop, daughters without parents | `TypeOK`, `MergedWhole`, `AttachedOnce`, `PrimariesComplete`, liveness `Ends` |
| `Particles` | four generator particles, one at a vertex and two its decay products; up to four tracks of two kinds with six fates, two suspensions; with and without user handler | `TypeOK`, `ChainsEnd`, `Consistent`, `HitsKept`, liveness `Ends`, refinement `ImplementsRecord` |
| `CacheSplit`, `LocksShared`, `HandlerMutual`, `ParticlesSuspended` | expected violations | `SplitHeld`, `Exclusive`, `IovExact`, `TrackerHitsKept` |

What the passing runs show.

* Conditions: if two-step clients compute only over what no cleanup has deleted, a slice prepared with `REF_POOLS` can
  be read, unchanged and true, until its client changes it, whatever the other clients, the loader and cleanups do
  (`ServesConditions`), and no stale or undefined value enters the cache along any path (`Coherent`; in
  `CacheStaggered` there are no two-step clients). Without that condition, too, a cleanup deletes no condition of a
  held slice (`HeldAlive`), the advertised IOV of a slice is inside the IOV of every condition in it that is made of
  what exists (`SliceValid`), the number of missing conditions is right in both modes (`MissingExact`), and what
  prepare adds to a slice is owned by some pool (`PrepareOwns`).
* Threads: as long as only `prepare` is called concurrently, one thread at a time works on the pools (`Exclusive`) and
  a prepare is atomic (`Served`): when it looks for the pools to reference its slice has exactly what the store has
  for its time, whoever registered it, and nothing that a pool has refused. It may lack what the loader did not find.
  Every call returns: none of the locks is left behind.
* Handler: it creates each condition once, refuses exactly what cannot be computed, and its IOVs are never too narrow
  and, for acyclic accesses at resolve, exact.
* Event loop: whatever interleaving and whatever throws, an event is taken once and closed once (`EachEventOnce`), an
  entry of the input is read once (`EntriesOnce`), what an event writes is complete unless a stop came first
  (`FramesWhole`), and `run` returns. A frame may also hold containers of events whose conversion threw: they stay in
  the shared frame until the next commit, even of a later run. `FramesWhole` says so.
* Primaries: merging loses nothing (`MergedWhole`); a particle is handed to Geant4 exactly if it can be reached
  (`PrimariesComplete`) and hangs, once, below its nearest ancestor known to Geant4 (`AttachedOnce`). The exception
  are daughters whose parents the reader cleared, which may be hung to a vertex after they were found elsewhere.
* Particle record: `checkConsistency` never finds anything, and the links the handler adds to those of the reader hold
  both ways, for products of assigned decays too (`Consistent`); no particle with hits gets lost without a user
  handler, though it was suspended once or twice (`HitsKept`), and hits belong to the nearest ancestor in the record
  at every moment (`ImplementsRecord`).

Exactness of the handler is claimed for accesses at resolve only. A callback that accesses another derived condition
while it creates its own can lose that condition's IOV: `do_callback` starts from eternity
(ConditionsDependencyHandler.cpp:316-319), and `get` hands out a resolved condition without an intersection (236-238).
The header of the update call says as much of this use ("ONLY VALID AT RESOLVE", DD4hep/ConditionDerived.h), so the
runs do not list it as a violation.

What the violations show:

* `CacheSplit`. `load` does not reference the pools it selected from and `compute` references the pools in the map at
  its end. A cleanup between the two calls destroys conditions the slice points to, although `REF_POOLS` is set.
* `LocksShared`. One thread in `prepare` and one in `load` hold different static mutexes and work on the pools
  together.
* `HandlerMutual`. Two conditions that access each other at resolve: the one resolved inside gets the IOV of the other
  before that is complete, and is registered with a wider IOV than its ingredients have.
* `ParticlesSuspended`. The user handler clears the reason of a track that is suspended outside the tracker without
  hits, and `begin` resumes the track with it: the mark of the energy threshold is gone, and tracker hits made later
  do not keep the particle.

Seen while reading, and not worth a run: `DigiLockedAction` never takes its mutex (DigiLockedAction.cpp:49); the limit
`events_per_file` is never reached (DigiInputAction.cpp:62); a run with `maxEventsParallel` zero or a negative
`numEvents` processes nothing; if the loader finds nothing the list of missing conditions stays empty
(ConditionsUserPool.cpp:677); a decaying primary whose daughters were all reached through another mother gets none
(Geant4InputHandling.cpp:463); `getRelevant` returns a particle that has its primary already once more
(Geant4InputHandling.cpp:471), so that a daughter whose parents the HepMC reader cleared and which is at the vertex of
the beam (Geant4EventReaderHepMC.cpp:285-291) is hung there and to its mother.

### Bounds

* Cache. Times are two or three consecutive integers from `MIN_KEY` to `MAX_KEY`. With two of them (`MCDatabase`)
  intervals are equal, nested or disjoint; with three (`Staggered`) they overlap in part, and a derived condition has
  an interval that neither of its ingredients has. `AgeCap` caps the ages, which are only compared with the limit of
  `clean`; every set of pools that a limit can drop is also one that `CleanPolicy` drops, so a small cap leaves out no
  set of pools. `MaxId` limits how many pools of one key are told apart: one in the map and, for the keys in
  `Recreated`, one that only a slice refers to. In `CacheSteps` these are all keys, in `CacheClients` that of the
  first time: the pool of the other time is created again only after nothing refers to the old one. Where the numbers
  do not suffice the step is not taken.
* Locks. `MaxCalls` 3 for the two threads together (2 in `LocksShared`): a call before and one after a call of the
  other thread. One raw condition changes between the two times, the other does not, so that pools of different keys
  exist at the same time.
* Handler. Two derived conditions have all cycles of length one and two; three have chains and shared ones.
* Kernel. Two events in flight and a third waiting; an empty input file between two others; the input is exhausted in
  the second run. `MaxRuns` 2: the first run is parallel, the second, which finds what the first one left, sequential.
* Primaries. Three particles have every family tree, four a diamond and a shortcut; the first interaction is empty,
  one particle or a family, so that offsets are zero and positive.
* Particles. Four tracks give chains of three daughters and siblings; `MaxSuspensions` 2: one track is suspended
  twice, or two once. Of the four generator particles one is never tracked, and of the two products one has the
  decaying particle as its first parent and the other one has not.

Deadlock is not checked: every cache configuration can be cleaned, the other systems stop when they are done. That
they do not stop before is what the liveness properties say.

### Fairness

The safety properties assume none. `Terminates`, and `Ends` of the input and of the particle handler, assume
`WF_vars(Next)`: one thread executes them and continues as long as it can; client callbacks return and make finitely
many accesses. `Returns` of the locks assumes weak fairness of each thread's steps. A `std::mutex` is not fair, and
none is assumed: a waiting thread gets its lock because the others make finitely many calls. `Returns` of the event
loop assumes that the calling thread and each processor keep executing; nothing is assumed of the order of the locks.

## 4. The proofs

The proofs hold for every value of the constants under the named assumptions of each module.

* `IntersectionIsGreatest` (`IovProofs`): `Intersection(S)` is contained in every key of `S` and contains every
  interval that all of them contain. It rests on the existence of a least value in a nonempty bounded range of
  integers, proved without induction over data.
* `Typing`, `Coherence` (`ConditionsCacheProofs`), under `KeyLimits` and `CacheAssumptions`: sets of conditions are
  finite, the intervals of the database contain the time asked for and do not overlap for one condition. `Coherent` is
  not inductive: a value computed from a selected condition is faithful for an interval only since the pool the result
  enters has the intersection of the intervals it was read with. The invariant adds the type invariant to it; the step
  lemmas show that a registered condition is faithful for the key of its pool, that `Commit` keeps it so, and go
  through the actions one by one. It is a theorem of `TimelySpec`: the value of a compute is defined because no
  condition of its slice is gone. `Typing` is one of `Spec`.
* `HeldStaysAlive`, `SliceStaysValid`, `CountsMissing`, `PrepareNeverLeaks`, `ServesClients`
  (`ConditionsSliceProofs`), under the same assumptions. For the first, the invariant says that a held slice shares
  every pool its conditions live in, and these pools still have them; that needs the facts that a selected or new
  condition is owned by a pool whose key contains the required time, and that such pools are what `RefsAfter` takes.
  For the second, the validity is an intersection over a set of keys that includes the key of each condition.
  `NamesInv` adds to one pool per key and one condition per name of a slice that each pool has one condition per name,
  and that a pool nothing refers to is empty, so that one created under its number starts empty. `CountInv` says what
  the number of missing conditions is while a slice waits for `compute`. `PrepareNeverLeaks` is an action property: a
  new condition could be refused by its pool only if the pool had the name before, and then prepare would have
  selected it. `ServesClients` is the whole refinement of `ConditionsService`: a prepare with references that succeeds
  is a `Serve`, every other call for a slice that ends its hold is a `Release`, and what loaders and cleanups do
  between them is a stutter, since what a held slice refers to stays alive and as it was. As it rests on `Coherence`,
  it is a theorem of `TimelySpec`; the others of this group are theorems of `Spec`.
* `HandlerTyped`, `NeverEarly`, `CreatesOnce`, `RefusesRightly`, `DoneRightly`, `NeverNarrows`, `ResolvesExactly`
  (`DependencyHandlerProofs`), under `KeyLimits` and `HandlerAssumptions`: all safety properties of the handler, for
  any finite number of derived conditions and any graphs. `Basic` relates the state of an item to the callback that
  works on it: an item is worked on once, a creation on an item that is not created, a resolution on one that is. A
  step is one of six kinds by what it does to the stack (lemma `Kinds`). `FrameInv` says of each callback on the stack
  that what it has accessed is known, but for the item of the callback next to it; with it, `MadeInv` has that the
  created items close no circle and `ReachInv` that the callbacks on the stack depend on each other, so that a
  recursion that is refused is one. `WideInv` keeps each IOV around the exact one; `TookInv` keeps it within those of
  what the item accessed, which needs that no access finds its condition in progress further out: the documented use
  forbids that, and without it `HandlerMutual` shows the difference. What a condition is made from, directly or
  through others, is defined by closed sets instead of recursion, so that no induction over chains is needed.
* `Typing`, `PoolsExclusive`, `PrepareServes` (`ConditionsLocksProofs`). The last two need `Disciplined`: load,
  compute and the cleanups are in `Alone`, and so is prepare if a cleanup handler is adopted. The invariant relates
  where a thread is to the locks it holds; with the discipline at most one thread is busy. For `PrepareServes`,
  `AtomicInv` says that each condition in the store is in the pool of its own interval (`Filed`); that while a thread
  loads, the store has what it selected and what it registered since, which a pool refused only if it was selected
  before (`WhileLoading`); that while prepare derives, its user pool is what the store has (`WhileDeriving`); and that
  what a pool has accepted stays there until a cleanup (`Valid`).
* `Typing`, `EventsOnce`, `EntriesReadOnce`, `FramesComplete`, `LoopRefines` (`DigiKernelProofs`). `KernelInv` has the
  types, the places where a processor has an event, and the exclusive I/O lock; `WorkInv` what is known of the tasks
  of an event; `FrameInv` what the frame contains while an output action holds the lock. `LoopRefines` is the safety
  part of `ImplementsEventLoop`: initial states and steps map to those of `EventLoop` or to stuttering. It assumes a
  positive `MaxParallel` and rests on `LoopInv`: the processors with an event are no more than the limit.
* `MergesWhole` (`Geant4InputProofs`): `MergedWhole` for any number of interactions of any size. `MergeInv` adds that
  each merged interaction sits, moved by one number, at identifiers below `offset`, and that nothing else claims to be
  of it; what is above is free for the next one.
* `MissesNothing`, `HandsOverOnce`, `TypeCorrect` (`Geant4InputProofs`): the walk of `generatePrimaries` over any
  record, loops included. `StackInv` has the calls of `getRelevant` in progress: each is for a daughter of the one
  before it and for a different particle, so that they are never more than there are particles. `ReachInv` says that
  what is visited can be reached, and that a daughter of something visited is visited too, or left to a call that did
  not return; when the stack is empty and all vertices are done, the visited particles are the reachable ones.
  `OnceInv` has that a primary is hung to one place, or is among those found by one call in progress, or is decaying,
  and for `Stripped` daughters, which come twice, that the second place is a vertex (`HungOnce`); `PlacedInv` that the
  place is the right one. Reachability is closure under daughters, not recursion over paths.
* `Typing`, `LoopsEnd`, `RecordConsistent`, `HitsAreKept`, `RecordImplemented`, `TrackerHitsAreKept`
  (`ParticleHandlerProofs`), for any number of tracks of any kind, any number of suspensions, and any record of the
  generator with any assigned decays. `Inv` says that a secondary has an earlier parent which was followed, that the
  equivalent of a followed track is itself or its parent, and that a particle on its way out of the record already
  stands for its parent. A chain of equivalents therefore descends; that the recursive functions `Resolve` and
  `Nearest` exist, and agree, is proved by least counterexample (`ChainExists`). `OriginInv` has that a particle of
  the generator has one track at most, so that identifiers stay apart (`NewIdApart`). `PrimaryInv` keeps the primaries
  in the record, so that every chain ends at a particle; `HitsInv` relates hits and energy of a track to the reason of
  its particle, wherever that waits; `RecordedInv` and `AnswerInv` describe the finished record. `RecordImplemented`
  is the whole refinement of `ParticleRecord`. The last four assume `NeverKilled`, that no fate marks a track with
  `G4PARTICLE_FORCE_KILL`: only user code can set that bit, nothing in `src/` does, and `recombineParents` hands the
  mark on to the parent. A primary that gets it is removed, its other daughters have no parent in the record, and
  checkConsistency ends the run: without the assumption `RecordConsistent` is false. `TrackerHitsAreKept` assumes
  `NeverSuspended` besides, and shows that the loss in the run `ParticlesSuspended` is due to suspension alone;
  without this assumption it is false.

Only model-checked: the liveness properties, that is `Returns` of the locks and of the event loop, `Ends`,
`Terminates` and the liveness conjunct of `ImplementsEventLoop`, because liveness under fairness needs `ENABLED`,
which the prover cannot reason about. Every safety property and every refinement step that a passing run checks is
also a theorem.

## 5. What is not modelled, and the plan

* Conditions: access by ranges (`get`, `getRange`) is compiled out; `compute(deps, force)`, conditions clients insert
  to a slice or callbacks register themselves, listeners, bulk access of callbacks and the content are left out. The
  loader does not throw in `ConditionsCache`.
* Digitization: the event store with its segments and combination, `DigiParallelWorkers`, signal and pile-up masks,
  monitoring. The semaphore is used by nothing.
* Simulation: the kernel with its workers, which follow the phases of the Geant4 run manager, code outside `src/`;
  interactions with native Geant4 vertices, boosts and smearing; `KeepAllParticles`, vertices and momenta
  of particles; tracks that are killed; in `ParticleHandler`, particles that were handed to Geant4 twice.
* Alignments, detector states, bit fields: not yet. Geometry, segmentation in real coordinates, expressions, graphics,
  file formats and the vendored plugin service compute, but keep no state worth exploring.

Next, in this order: the event store (segments filled in parallel, combination by mask) and `DigiParallelWorkers`;
`ConditionsContent` with its reference counts and `compute(deps, force)`; `GlobalAlignmentCache`; `BitFieldCoder` with
fixed width. Theorems worth adding come with these modules: that no container is lost by parallel workers, that the
reference counts of the content balance, that decoding a field returns what was encoded. For the present ones the
record with tracks that are killed would need to be stated first: nothing in the code says what should become of a
primary that is.
