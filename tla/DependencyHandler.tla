-------------------------- MODULE DependencyHandler --------------------------
(***************************************************************************)
(* ConditionsDependencyHandler: the computation of the missing derived     *)
(* conditions of a slice.  A derived condition is created by the callback  *)
(* of its dependency and completed by the resolve call of the callback;    *)
(* both may access other conditions, which creates and resolves these      *)
(* first when they are derived and missing, too.  The IOV of a derived     *)
(* condition results from the accesses.                                    *)
(*                                                                         *)
(* One behaviour is one compute() followed by resolve() on the calling     *)
(* thread; the C++ call stack is the variable stack.  Callbacks access     *)
(* conditions through their ConditionUpdateContext, in any order, and      *)
(* insist on them (throw_if_not).  The order of m_todo, a map by hash      *)
(* code, is any order.                                                     *)
(***************************************************************************)
EXTENDS Iov, FiniteSets, Sequences

CONSTANTS
  Todo,        \* the missing derived conditions
  Pool,        \* the conditions the user pool holds
  PoolIov,     \* PoolIov[k]: IOV of condition k of the user pool
  validity,    \* IOV of the user pool
  Graphs       \* [create, resolve]: what the callbacks access in either call

Item == Todo \cup Pool

ASSUME HandlerAssumptions ==
  /\ Todo \cap Pool = {} /\ IsFiniteSet(Todo)
  /\ PoolIov \in [Pool -> Key]
  /\ validity \in Key
  /\ \A g \in Graphs : DOMAIN g.create = Todo /\ DOMAIN g.resolve = Todo

VARIABLES
  graph,         \* what the callbacks access
  work,          \* work[d]: the Work item of d in m_todo
  stack,         \* the callbacks in progress, innermost first
  pass,          \* "compute", "resolve", "done", or "failed" by an exception
  pending,       \* items the loop over m_todo has still to visit
  num_callback,  \* creation callbacks that succeeded
  registered     \* registered[d]: IOV of the pool d was registered to

vars == <<graph, work, stack, pass, pending, num_callback, registered>>

Access == UNION {UNION {g.create[d] \cup g.resolve[d] : d \in Todo} : g \in Graphs}

(***************************************************************************)
(* A Work item.  _iov is the storage the context of the callback refers    *)
(* to; iov tells whether the pointer Work::iov is set to it.  condition    *)
(* tells whether the condition was created.                                *)
(***************************************************************************)
Work == [_iov : Key, iov : BOOLEAN, condition : BOOLEAN, callstack : Nat,
         state : {"INVALID", "CREATED", "RESOLVED"}]

\* A running callback: the creation or the resolution of d, and what the
\* callback has still to access.
Frame == [work : Todo, call : {"create", "resolve"}, left : SUBSET Access]

TypeOK ==
  /\ graph \in Graphs
  /\ work \in [Todo -> Work]
  /\ stack \in Seq(Frame)
  /\ pass \in {"compute", "resolve", "done", "failed"}
  /\ pending \in SUBSET Todo
  /\ num_callback \in Nat
  /\ DOMAIN registered \in {{}, Todo}
  /\ \A d \in DOMAIN registered : registered[d] \in Key

Init ==
  /\ graph \in Graphs
  /\ work = [d \in Todo |-> [_iov |-> validity, iov |-> FALSE, condition |-> FALSE,
                             callstack |-> 0, state |-> "INVALID"]]
  /\ stack = <<>>
  /\ pass = "compute"
  /\ pending = Todo
  /\ num_callback = 0
  /\ registered = <<>>

-----------------------------------------------------------------------------
\* Work::do_intersection: the first IOV replaces what the storage holds.
do_intersection(w, key) ==
  [w EXCEPT !._iov = IF w.iov THEN iov_intersection(@, key) ELSE key, !.iov = TRUE]

\* Mutant: the context leaves the intersection to the handler.
contextAccess_none(w, key) == w

\* ConditionUpdateContext::condition intersects the storage with the IOV of the
\* condition get() returned, whether or not Work::iov is set.
contextAccess(w, key) == [w EXCEPT !._iov = iov_intersection(@, key)]

top == stack[1]
current == top.work

\* The innermost callback has one access less to do.
Rest(k) == [top EXCEPT !.left = @ \ {k}]

Busy == pass \in {"compute", "resolve"}
Idle == Busy /\ stack = <<>>

Throw ==
  /\ pass' = "failed"
  /\ UNCHANGED <<graph, work, stack, pending, num_callback, registered>>

\* Mutant: the call stack of the item is not counted.
do_callback_uncounted(d, below) ==
  /\ work' = work
  /\ stack' = <<[work |-> d, call |-> "create", left |-> graph.create[d]]>> \o below

\* do_callback, up to the call of the callback, on the stack below.
do_callback(d, below) ==
  /\ work[d].callstack = 0
  /\ work' = [work EXCEPT ![d].callstack = 1]
  /\ stack' = <<[work |-> d, call |-> "create", left |-> graph.create[d]]>> \o below

\* Work::resolve, up to the call of the callback.
startResolve(d, below) ==
  /\ work' = [work EXCEPT ![d].state = "RESOLVED"]
  /\ stack' = <<[work |-> d, call |-> "resolve", left |-> graph.resolve[d]]>> \o below

-----------------------------------------------------------------------------
(***************************************************************************)
(* The loops over m_todo in compute() and resolve().                       *)
(***************************************************************************)
Visit(d) ==
  /\ Idle /\ d \in pending
  /\ pending' = pending \ {d}
  /\ UNCHANGED <<graph, pass, num_callback, registered>>

\* Mutant: conditions created on behalf of others are created again.
ComputeNext_always(d) == pass = "compute" /\ Visit(d) /\ do_callback(d, <<>>)

ComputeNext(d) ==
  /\ pass = "compute" /\ Visit(d)
  /\ IF work[d].condition THEN UNCHANGED <<work, stack>> ELSE do_callback(d, <<>>)

ComputeDone ==
  /\ Idle /\ pass = "compute" /\ pending = {}
  /\ pass' = "resolve"
  /\ pending' = Todo
  /\ UNCHANGED <<graph, work, stack, num_callback, registered>>

ResolveNext(d) ==
  /\ pass = "resolve" /\ Visit(d)
  /\ IF work[d].state = "RESOLVED" THEN UNCHANGED <<work, stack>>
                                   ELSE startResolve(d, <<>>)

\* Block registration of the conditions to the pools of their IOVs.
Register ==
  /\ Idle /\ pass = "resolve" /\ pending = {}
  /\ registered' = [d \in Todo |-> work[d]._iov]
  /\ pass' = "done"
  /\ UNCHANGED <<graph, work, stack, pending, num_callback>>

-----------------------------------------------------------------------------
(***************************************************************************)
(* The running callback accesses condition k: get(k), then the context.    *)
(***************************************************************************)
Accesses(k) == Busy /\ stack # <<>> /\ k \in top.left

AccessPool(k) ==
  /\ Accesses(k) /\ k \in Pool
  /\ work' = [work EXCEPT ![current] =
                contextAccess(do_intersection(@, PoolIov[k]), PoolIov[k])]
  /\ stack' = <<Rest(k)>> \o Tail(stack)
  /\ UNCHANGED <<graph, pass, pending, num_callback, registered>>

\* A resolved condition, or one whose resolution is in progress further out.
AccessResolved(k) ==
  /\ Accesses(k) /\ k \in Todo /\ work[k].state = "RESOLVED"
  /\ work' = [work EXCEPT ![current] = contextAccess(@, work[k]._iov)]
  /\ stack' = <<Rest(k)>> \o Tail(stack)
  /\ UNCHANGED <<graph, pass, pending, num_callback, registered>>

\* Mutant: an item is resolved whether or not it was created.
AccessCreated_any(k) ==
  /\ Accesses(k) /\ k \in Todo /\ work[k].state # "RESOLVED"
  /\ startResolve(k, <<Rest(k)>> \o Tail(stack))
  /\ UNCHANGED <<graph, pass, pending, num_callback, registered>>

AccessCreated(k) ==
  /\ Accesses(k) /\ k \in Todo /\ work[k].state = "CREATED"
  /\ startResolve(k, <<Rest(k)>> \o Tail(stack))
  /\ UNCHANGED <<graph, pass, pending, num_callback, registered>>

AccessInvalid(k) ==
  /\ Accesses(k) /\ k \in Todo /\ work[k].state = "INVALID"
  /\ do_callback(k, <<Rest(k)>> \o Tail(stack))
  /\ UNCHANGED <<graph, pass, pending, num_callback, registered>>

\* Mutants: a mutual access at resolve is taken for a recursion; a recursion is
\* not refused.
AccessLoops_resolved(k) == Accesses(k) /\ k \in Todo /\ work[k].state = "RESOLVED" /\ Throw
AccessLoops_retried(k) == Accesses(k) /\ k \in Todo /\ UNCHANGED vars

\* "++ Handler caught in infinite recursion loop."
AccessLoops(k) ==
  /\ Accesses(k) /\ k \in Todo
  /\ work[k].state = "INVALID" /\ work[k].callstack > 0
  /\ Throw

\* Mutant: throw_if_not is ignored.
AccessUnknown_skipped(k) ==
  /\ Accesses(k) /\ k \notin Item
  /\ stack' = <<Rest(k)>> \o Tail(stack)
  /\ UNCHANGED <<graph, work, pass, pending, num_callback, registered>>

\* "Failed to resolve conditon"
AccessUnknown(k) == Accesses(k) /\ k \notin Item /\ Throw

-----------------------------------------------------------------------------
(***************************************************************************)
(* The running callback returns.                                           *)
(***************************************************************************)
Returns(call) == Busy /\ stack # <<>> /\ top.call = call /\ top.left = {}

\* Mutant: without any access the IOV stays the one of the user pool.
Created_narrow(w) ==
  [w EXCEPT !.iov = TRUE, !.condition = TRUE, !.callstack = @ - 1, !.state = "CREATED"]

\* The rest of do_callback: without any access the condition is valid forever.
Created(w) ==
  [w EXCEPT !._iov = IF w.iov THEN @ ELSE key_forever, !.iov = TRUE,
            !.condition = TRUE, !.callstack = @ - 1, !.state = "CREATED"]

\* Called from the loop of compute().
CreateReturns ==
  /\ Returns("create") /\ Len(stack) = 1
  /\ work' = [work EXCEPT ![current] = Created(@)]
  /\ stack' = <<>>
  /\ num_callback' = num_callback + 1
  /\ UNCHANGED <<graph, pass, pending, registered>>

\* Called from get(): the accessing item is intersected, then get() resolves.
CreateReturnsToGet ==
  /\ Returns("create") /\ Len(stack) > 1
  /\ LET w    == Created(work[current])
         user == stack[2].work
     IN  /\ work' = [work EXCEPT ![current] = [w EXCEPT !.state = "RESOLVED"],
                                 ![user] = do_intersection(@, w._iov)]
         /\ stack' = <<[work |-> current, call |-> "resolve",
                        left |-> graph.resolve[current]]>> \o Tail(stack)
  /\ num_callback' = num_callback + 1
  /\ UNCHANGED <<graph, pass, pending, registered>>

\* Called from the loop of resolve(): previous is the item itself.
ResolveReturns ==
  /\ Returns("resolve") /\ Len(stack) = 1
  /\ stack' = <<>>
  /\ work' = [work EXCEPT ![current] = do_intersection(@, @._iov)]
  /\ UNCHANGED <<graph, pass, pending, num_callback, registered>>

ResolveReturnsToGet ==
  /\ Returns("resolve") /\ Len(stack) > 1
  /\ LET user == stack[2].work
         iov  == work[current]._iov
     IN  work' = [work EXCEPT ![user] = contextAccess(do_intersection(@, iov), iov)]
  /\ stack' = Tail(stack)
  /\ UNCHANGED <<graph, pass, pending, num_callback, registered>>

-----------------------------------------------------------------------------
Next ==
  \/ \E d \in Todo : ComputeNext(d) \/ ResolveNext(d)
  \/ ComputeDone
  \/ Register
  \/ \E k \in Access :
       \/ AccessPool(k)
       \/ AccessResolved(k)
       \/ AccessCreated(k)
       \/ AccessInvalid(k)
       \/ AccessLoops(k)
       \/ AccessUnknown(k)
  \/ CreateReturns
  \/ CreateReturnsToGet
  \/ ResolveReturns
  \/ ResolveReturnsToGet

\* The calling thread runs on; client callbacks return.
Spec == Init /\ [][Next]_vars /\ WF_vars(Next)

-----------------------------------------------------------------------------
(***************************************************************************)
(* Properties.                                                             *)
(***************************************************************************)
accessed == [d \in Todo |-> graph.create[d] \cup graph.resolve[d]]

Closed(S) == \A d \in S \cap Todo : accessed[d] \subseteq S

\* The conditions of the user pool d is made from, directly or through others.
Ingredients(d) ==
  {k \in Pool : \A S \in SUBSET (Item \cup Access) : d \in S /\ Closed(S) => k \in S}

Exact(d) == Intersection({PoolIov[k] : k \in Ingredients(d)})

\* Every member of S depends on a member of S.
Circular(S, access) == \A d \in S : access[d] \cap S # {}

\* "an interval of validity being the intersection of the intervals of validity
\* of its ingredients" (DDCondManual.tex).
IovExact == \A d \in DOMAIN registered : registered[d] = Exact(d)

\* Callbacks that keep to "only valid at resolve" of ConditionUpdateContext and do
\* not access each other mutually get the exact IOV; order of visits, shared
\* intermediate conditions and nesting do not matter.
ExactAtResolve ==
  /\ \A d \in Todo : graph.create[d] \cap Todo = {}
  /\ ~ \E S \in (SUBSET Todo) \ {{}} : Circular(S, graph.resolve)
  => IovExact

\* Whatever the callbacks do, no derived condition loses times at which all its
\* ingredients are valid.
NeverTooNarrow ==
  \A d \in DOMAIN registered : key_contains_range(registered[d], Exact(d))

\* Every missing condition is created by exactly one call of its callback, as
\* UserPool::prepare assumes when it takes num_callback off the missing ones.
CreatedOnce ==
  /\ num_callback = Cardinality({d \in Todo : work[d].condition})
  /\ pass = "done" => num_callback = Cardinality(Todo)

\* A callback never receives a condition that has not been created, nor a
\* resolution begins before the creation has ended.
NoEarlyAccess ==
  \A d \in Todo : work[d].state # "INVALID" => work[d].condition /\ work[d].callstack = 0

\* Reachable(d): what d depends on.
Reachable(d) ==
  {k \in Todo : \A S \in SUBSET (Item \cup Access) :
                  accessed[d] \subseteq S /\ Closed(S) => k \in S}

\* The handler refuses only what cannot be computed: an exception means that a
\* callback accesses an unknown condition or that a creation, directly or
\* through others, depends on itself.
RefusesForCause ==
  pass = "failed" =>
    \/ \E d \in Todo : ~(accessed[d] \subseteq Item)
    \/ \E d \in Todo : \E e \in graph.create[d] \cap Todo : d \in Reachable(e) \cup {e}

\* No creation that depends on itself, no access to an unknown condition, goes
\* unnoticed.
DoneForCause ==
  pass = "done" =>
    /\ \A d \in Todo : accessed[d] \subseteq Item
    /\ ~ \E S \in (SUBSET Todo) \ {{}} : Circular(S, graph.create)

\* The handler comes to an end for every dependency graph, cyclic ones included.
Terminates == <>(pass \in {"done", "failed"})
=============================================================================
