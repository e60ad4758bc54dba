---------------------------- MODULE ConditionsLocks ----------------------------
(***************************************************************************)
(* Conditions manager: the calls of several threads, each with a slice of  *)
(* its own, split where they take and release locks.  All of them work on  *)
(* the IOV pools of one IOV type, which exists since its registration.     *)
(*                                                                         *)
(* prepare, load and compute of the user pool hold a static mutex each.    *)
(* Before that, prepare and load push pending updates: m_updateLock guards *)
(* the pool of the updates, and m_poolLock is taken when it is released.   *)
(* registerIOV holds m_poolLock while it looks up a pool, clean by age     *)
(* m_updateLock; clean by policy, clear and the insertion of a condition   *)
(* hold no lock of the manager.                                            *)
(***************************************************************************)
EXTENDS Integers, FiniteSets

CONSTANTS
  Thread,
  None,        \* no thread
  Raw,         \* names of conditions that are loaded
  Derived,     \* names of conditions that are computed
  Deps,        \* Deps[d]: the conditions the callback of d accesses
  Time,        \* times a client asks for
  Validity,    \* Validity[c][x]: the IOV, a set of times, of the condition with
               \* name c for time x
  LoadConditions, \* values of the option of this name when a call begins
  Calls,       \* the calls clients make
  Alone,       \* calls clients make only while no other thread is in a call
  AutoClean,   \* a cleanup handler is adopted
  MaxCalls     \* bound: calls of all threads

Name == Raw \cup Derived
Key == SUBSET Time
Call == {"prepare", "load", "compute", "clean", "clean_aged"}
Lock == {"prepare", "load", "compute", "pool", "update"}

ASSUME ThreadAssumption == None \notin Thread
ASSUME NameAssumption ==
  Raw \cap Derived = {} /\ Name # {} /\ Time # {} /\ Deps \in [Derived -> SUBSET Name]
ASSUME CallAssumption ==
  /\ Calls \subseteq Call /\ Calls # {} /\ Alone \subseteq Call
  /\ LoadConditions \subseteq BOOLEAN /\ LoadConditions # {}
  /\ AutoClean \in BOOLEAN /\ MaxCalls \in Nat

\* The intervals of the values of one condition do not overlap.
ASSUME ValidityAssumption ==
  /\ Validity \in [Name -> [Time -> Key]]
  /\ \A c \in Name, x \in Time :
       /\ x \in Validity[c][x]
       /\ \A y \in Validity[c][x] : Validity[c][y] = Validity[c][x]

VARIABLES
  pc,        \* pc[t]: where thread t is
  call,      \* call[t]: the call it is in
  time,      \* time[t]: the time it asks for
  loads,     \* loads[t]: what missing conditions are loaded and computed at all
  todo,      \* todo[t]: names the loader or the handler has still to register
  item,      \* item[t]: the name it registers
  loaded,    \* loaded[t]: what the loader has registered
  mapped,    \* mapped[t]: m_conditions of its user pool
  fresh,     \* fresh[t]: no cleanup since the selection mapped[t] began with
  calls,     \* number of calls so far
  owner,     \* owner[l]: the thread that holds lock l, or None
  elements,  \* keys of the pools of the IOV type
  content    \* content[k]: names of the conditions in the pool of key k

local == <<call, time, loads, calls>>
user == <<loaded, mapped, fresh>>
pools == <<elements, content>>
vars == <<pc, local, todo, item, user, owner, pools>>

\* What user pools refer to: a name, the key of the pool it was registered to,
\* and whether that pool owns it or had refused it, because it had the name.
Entry == Name \X Key \X BOOLEAN

Names(M) == {m[1] : m \in M}

\* The emplace of std::map keeps what is there.
Emplaced(M, N) == M \cup {m \in N : m[1] \notin Names(M)}

Init ==
  /\ pc = [t \in Thread |-> "idle"]
  /\ call = [t \in Thread |-> CHOOSE c \in Calls : TRUE]
  /\ time = [t \in Thread |-> CHOOSE x \in Time : TRUE]
  /\ loads = [t \in Thread |-> TRUE]
  /\ item = [t \in Thread |-> CHOOSE c \in Name : TRUE]
  /\ todo = [t \in Thread |-> {}]
  /\ loaded = [t \in Thread |-> {}] /\ mapped = [t \in Thread |-> {}]
  /\ fresh = [t \in Thread |-> FALSE]
  /\ calls = 0
  /\ owner = [l \in Lock |-> None]
  /\ elements = {} /\ content = [k \in Key |-> {}]

Goto(t, place) == pc' = [pc EXCEPT ![t] = place]
Release(l) == owner' = [owner EXCEPT ![l] = None]

LockOf(c) == IF c = "clean_aged" THEN "update" ELSE c

-----------------------------------------------------------------------------
(***************************************************************************)
(* A client calls the manager.                                             *)
(***************************************************************************)
\* Whether call c of thread t respects the calls that are made alone.
Admitted(t, c) ==
  \A u \in Thread \ {t} : pc[u] # "idle" => c \notin Alone /\ call[u] \notin Alone

\* prepare and load push updates first, a cleanup by policy takes no lock.
Start(c) ==
  IF c \in {"prepare", "load"} THEN "updates" ELSE IF c = "clean" THEN "clean" ELSE "lock"

\* compute is asked for the time of the load before, and only while what was
\* loaded is there (ConditionsCache shows what it does otherwise).
Enter(t) ==
  /\ pc[t] = "idle" /\ calls < MaxCalls
  /\ \E c \in Calls, x \in Time, l \in LoadConditions :
       /\ Admitted(t, c)
       /\ c = "compute" => x = time[t] /\ fresh[t]
       /\ call' = [call EXCEPT ![t] = c]
       /\ time' = [time EXCEPT ![t] = x]
       /\ loads' = [loads EXCEPT ![t] = l]
       /\ fresh' = [fresh EXCEPT ![t] = @ /\ c = "compute"]
       /\ Goto(t, Start(c))
  /\ calls' = calls + 1
  /\ UNCHANGED <<todo, item, loaded, mapped, owner, pools>>

(***************************************************************************)
(* pushUpdates: nothing fills the pool of the updates, which is left in    *)
(* two critical sections one after the other.                              *)
(***************************************************************************)
LockUpdates(t) ==
  /\ pc[t] = "updates" /\ owner["update"] = None
  /\ owner' = [owner EXCEPT !["update"] = t]
  /\ Goto(t, "pop")
  /\ UNCHANGED <<local, todo, item, user, pools>>

PopEntries(t) ==
  /\ pc[t] = "pop"
  /\ Release("update")
  /\ Goto(t, "push")
  /\ UNCHANGED <<local, todo, item, user, pools>>

LockPool(t) ==
  /\ pc[t] = "push" /\ owner["pool"] = None
  /\ owner' = [owner EXCEPT !["pool"] = t]
  /\ Goto(t, "pushing")
  /\ UNCHANGED <<local, todo, item, user, pools>>

PushUpdates(t) ==
  /\ pc[t] = "pushing"
  /\ Release("pool")
  /\ Goto(t, "lock")
  /\ UNCHANGED <<local, todo, item, user, pools>>

-----------------------------------------------------------------------------
(***************************************************************************)
(* prepare, load and compute of the user pool under their static mutexes.  *)
(***************************************************************************)
\* Mutant: the mutex is not taken.
AcquireLock_not(t) ==
  /\ pc[t] = "lock"
  /\ Goto(t, "select")
  /\ UNCHANGED <<local, todo, item, user, owner, pools>>

\* Derived conditions of the content that M lacks.
ToCompute(t, M) == IF loads[t] THEN Derived \ Names(M) ELSE {}

\* Only load and prepare clear the user pool and select, compute looks for the
\* names that its user pool misses.
AcquireLock(t) ==
  /\ pc[t] = "lock" /\ owner[LockOf(call[t])] = None
  /\ owner' = [owner EXCEPT ![LockOf(call[t])] = t]
  /\ Goto(t, CASE call[t] = "compute" -> "compute"
               [] call[t] = "clean_aged" -> "clean"
               [] OTHER -> "select")
  /\ todo' = IF call[t] = "compute"
               THEN [todo EXCEPT ![t] = ToCompute(t, mapped[t])] ELSE todo
  /\ UNCHANGED <<local, item, user, pools>>

\* Mutant: pools of other times are selected as well.
Selected_any(x) == {m \in Name \X elements \X {TRUE} : m[1] \in content[m[2]]}

\* The conditions of the pools that contain time x.
Selected(x) == {m \in Name \X elements \X {TRUE} : x \in m[2] /\ m[1] \in content[m[2]]}

\* The loader reads whole documents: if something is missing it may find any
\* conditions, not all that are missing, and such as are there already.
Loads(t) ==
  IF loads[t] /\ Raw \ Names(Selected(time[t])) # {} THEN SUBSET Raw ELSE {{}}

Select(t) ==
  /\ pc[t] = "select"
  /\ mapped' = [mapped EXCEPT ![t] = Selected(time[t])]
  /\ fresh' = [fresh EXCEPT ![t] = TRUE]
  /\ \E L \in Loads(t) : todo' = [todo EXCEPT ![t] = L]
  /\ Goto(t, "load")
  /\ UNCHANGED <<local, item, loaded, owner, pools>>

\* The loader, or the dependency handler, has a condition to register.
Work(t) ==
  /\ pc[t] \in {"load", "derive"} /\ todo[t] # {}
  /\ \E c \in todo[t] : item' = [item EXCEPT ![t] = c]
  /\ Goto(t, "register")
  /\ UNCHANGED <<local, todo, user, owner, pools>>

-----------------------------------------------------------------------------
(***************************************************************************)
(* registerIOV and registerUnlocked.                                       *)
(***************************************************************************)
Target(t) == Validity[item[t]][time[t]]

RegisterIOV(t) ==
  /\ pc[t] = "register" /\ owner["pool"] = None
  /\ owner' = [owner EXCEPT !["pool"] = t]
  /\ Goto(t, "emplace")
  /\ UNCHANGED <<local, todo, item, user, pools>>

\* Mutant: registerIOV leaves with its lock when the pool exists.
Emplace_locked(t) ==
  /\ pc[t] = "emplace"
  /\ elements' = elements \cup {Target(t)}
  /\ IF Target(t) \in elements THEN UNCHANGED owner ELSE Release("pool")
  /\ Goto(t, "insert")
  /\ UNCHANGED <<local, todo, item, user, content>>

Emplace(t) ==
  /\ pc[t] = "emplace"
  /\ elements' = elements \cup {Target(t)}
  /\ Release("pool")
  /\ Goto(t, "insert")
  /\ UNCHANGED <<local, todo, item, user, content>>

\* The loader collects what it registers, the handler enters it to the user pool;
\* neither of them sees whether the pool has refused it.
Insert(t) ==
  /\ pc[t] = "insert"
  /\ content' = [content EXCEPT ![Target(t)] = @ \cup {item[t]}]
  /\ LET entry == <<item[t], Target(t), item[t] \notin content[Target(t)]>>
     IN  IF item[t] \in Raw
           THEN /\ loaded' = [loaded EXCEPT ![t] = @ \cup {entry}]
                /\ Goto(t, "load") /\ UNCHANGED mapped
           ELSE /\ mapped' = [mapped EXCEPT ![t] = Emplaced(@, {entry})]
                /\ Goto(t, "derive") /\ UNCHANGED loaded
  /\ todo' = [todo EXCEPT ![t] = @ \ {item[t]}]
  /\ UNCHANGED <<local, item, fresh, owner, elements>>

-----------------------------------------------------------------------------
(***************************************************************************)
(* The end of the steps of a call.                                         *)
(***************************************************************************)
\* What was loaded enters the user pool; load returns, whatever still misses.
LoadDone(t) ==
  /\ pc[t] = "load" /\ todo[t] = {}
  /\ mapped' = [mapped EXCEPT ![t] = Emplaced(@, loaded[t])]
  /\ loaded' = [loaded EXCEPT ![t] = {}]
  /\ IF call[t] = "load"
       THEN Release("load") /\ Goto(t, "idle") /\ UNCHANGED todo
       ELSE /\ todo' = [todo EXCEPT ![t] = ToCompute(t, mapped'[t])]
            /\ Goto(t, "compute") /\ UNCHANGED owner
  /\ UNCHANGED <<local, item, fresh, pools>>

\* The callbacks of the handler find what they access.
Compute(t) ==
  /\ pc[t] = "compute"
  /\ \A c \in todo[t] : Deps[c] \subseteq Names(mapped[t]) \cup todo[t]
  /\ Goto(t, "derive")
  /\ UNCHANGED <<local, todo, item, user, owner, pools>>

\* prepare and compute look for the pools to reference.
DeriveDone(t) ==
  /\ pc[t] = "derive" /\ todo[t] = {}
  /\ Goto(t, "refs")
  /\ UNCHANGED <<local, todo, item, user, owner, pools>>

\* The static lock is released, then an adopted handler cleans.
SelectRefs(t) ==
  /\ pc[t] = "refs"
  /\ Release(call[t])
  /\ Goto(t, IF AutoClean THEN "clean" ELSE "idle")
  /\ UNCHANGED <<local, todo, item, user, pools>>

\* Mutant: an exception leaves the lock behind.
Fail_locked(t) ==
  /\ pc[t] \in {"load", "compute"} /\ todo[t] # {}
  /\ Goto(t, "idle")
  /\ todo' = [todo EXCEPT ![t] = {}] /\ loaded' = [loaded EXCEPT ![t] = {}]
  /\ UNCHANGED <<local, item, mapped, fresh, owner, pools>>

\* The loader or a callback throws, the lock guard releases the lock.
Fail(t) ==
  /\ pc[t] \in {"load", "compute"} /\ todo[t] # {}
  /\ Release(call[t])
  /\ Goto(t, "idle")
  /\ todo' = [todo EXCEPT ![t] = {}] /\ loaded' = [loaded EXCEPT ![t] = {}]
  /\ UNCHANGED <<local, item, mapped, fresh, pools>>

\* A cleanup removes pools, by a policy or by age.
Clean(t) ==
  /\ pc[t] = "clean"
  /\ \E gone \in SUBSET elements :
       /\ elements' = elements \ gone
       /\ content' = [k \in Key |-> IF k \in gone THEN {} ELSE content[k]]
  /\ IF call[t] = "clean_aged" THEN Release("update") ELSE UNCHANGED owner
  /\ fresh' = [u \in Thread |-> FALSE]
  /\ Goto(t, "idle")
  /\ UNCHANGED <<local, todo, item, loaded, mapped>>

Step(t) ==
  \/ LockUpdates(t) \/ PopEntries(t) \/ LockPool(t) \/ PushUpdates(t)
  \/ AcquireLock(t) \/ Select(t) \/ Work(t) \/ RegisterIOV(t) \/ Emplace(t)
  \/ Insert(t) \/ LoadDone(t) \/ Compute(t) \/ DeriveDone(t) \/ SelectRefs(t)
  \/ Fail(t) \/ Clean(t)

Next == \E t \in Thread : Enter(t) \/ Step(t)

\* A thread that can go on does.
Spec == Init /\ [][Next]_vars /\ \A t \in Thread : WF_vars(Step(t))

-----------------------------------------------------------------------------
(***************************************************************************)
(* Properties.                                                             *)
(***************************************************************************)
\* Types; m_poolLock is held while registerIOV works on the map of pools, and
\* while updates are pushed.
TypeOK ==
  /\ pc \in [Thread -> {"idle", "updates", "pop", "push", "pushing", "lock", "select", "load",
                        "register", "emplace", "insert", "compute", "derive", "refs", "clean"}]
  /\ call \in [Thread -> Calls] /\ time \in [Thread -> Time] /\ loads \in [Thread -> BOOLEAN]
  /\ todo \in [Thread -> SUBSET Name] /\ item \in [Thread -> Name]
  /\ loaded \in [Thread -> SUBSET Entry] /\ mapped \in [Thread -> SUBSET Entry]
  /\ fresh \in [Thread -> BOOLEAN] /\ calls \in Nat
  /\ owner \in [Lock -> Thread \cup {None}]
  /\ elements \subseteq Key /\ content \in [Key -> SUBSET Name]
  /\ \A t \in Thread : owner["pool"] = t <=> pc[t] \in {"emplace", "pushing"}

\* ConditionsUserPool.cpp: "we have to ensure the IOV pools are ONLY manipulated
\* by the current thread.  Otherwise the selection and the population are unsafe!".
Manipulates(t) == pc[t] \in {"select", "emplace", "insert", "refs", "clean"}
Exclusive == \A t, u \in Thread : Manipulates(t) /\ Manipulates(u) => t = u

\* What the store has for time x.
Stored(x) ==
  {<<c, Validity[c][x], TRUE>> : c \in {n \in Name : n \in content[Validity[n][x]]}}

\* A prepare is atomic, although it lets go of the pools again and again: when it
\* looks for the pools to reference, its user pool has what the store has for its
\* time, one of each, and a pool owns it, though the loader may have registered again
\* what was there.  And whatever the calls have put into a user pool and a pool has
\* accepted stays in the store until a cleanup.
Served ==
  \A t \in Thread :
    /\ pc[t] = "refs" /\ call[t] = "prepare" => mapped[t] = Stored(time[t])
    /\ fresh[t] => \A m \in mapped[t] : m[3] => m \in Stored(time[t])

\* No call waits forever for a lock: the locks of the manager and of the user pools
\* and the ways out of a call leave none behind.
Returns == \A t \in Thread : pc[t] # "idle" ~> pc[t] = "idle"
===============================================================================
