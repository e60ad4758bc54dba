----------------------- MODULE DependencyHandlerProofs -----------------------
(***************************************************************************)
(* The dependency handler for any number of conditions and any graph of    *)
(* accesses, whatever the order in which it visits them.                   *)
(***************************************************************************)
EXTENDS DependencyHandler, IovProofs, FiniteSetTheorems

-----------------------------------------------------------------------------
(***************************************************************************)
(* The call stack.                                                         *)
(***************************************************************************)
\* A call puts a frame on top.
LEMMA Pushed ==
  ASSUME NEW S, NEW f \in S, NEW s \in Seq(S)
  PROVE  LET t == <<f>> \o s
         IN  /\ t \in Seq(S) /\ t # <<>> /\ Len(t) = Len(s) + 1 /\ t[1] = f
             /\ \A n \in 2 .. Len(t) : n - 1 \in 1 .. Len(s) /\ t[n] = s[n - 1]
OBVIOUS

\* A frame that goes on replaces the one on top.
LEMMA Replaced ==
  ASSUME NEW S, NEW f \in S, NEW s \in Seq(S), s # <<>>
  PROVE  LET t == <<f>> \o Tail(s)
         IN  /\ t \in Seq(S) /\ t # <<>> /\ Len(t) = Len(s) /\ t[1] = f
             /\ \A n \in 2 .. Len(t) : t[n] = s[n]
OBVIOUS

\* A return takes the frame on top away.
LEMMA Popped ==
  ASSUME NEW S, NEW s \in Seq(S), s # <<>>
  PROVE  /\ Tail(s) \in Seq(S) /\ Len(Tail(s)) = Len(s) - 1
         /\ \A n \in 1 .. Len(Tail(s)) : n + 1 \in 2 .. Len(s) /\ Tail(s)[n] = s[n + 1]
OBVIOUS

-----------------------------------------------------------------------------
(***************************************************************************)
(* The Work items.                                                         *)
(***************************************************************************)
\* IOVs are intersected to IOVs.
LEMMA IntersectionTyped ==
  ASSUME NEW j \in Key, NEW k \in Key
  PROVE  iov_intersection(j, k) \in Key
BY KeyLimits DEF iov_intersection, Interval, Key, Key_value

\* do_intersection and the context change nothing but the IOV.
LEMMA IntersectionKeeps ==
  ASSUME NEW w \in Work, NEW k \in Key
  PROVE  /\ do_intersection(w, k) \in Work /\ do_intersection(w, k).iov
         /\ do_intersection(w, k).condition = w.condition
         /\ do_intersection(w, k).callstack = w.callstack
         /\ do_intersection(w, k).state = w.state
         /\ do_intersection(w, k)._iov = IF w.iov THEN iov_intersection(w._iov, k) ELSE k
         /\ contextAccess(w, k) \in Work
         /\ contextAccess(w, k).iov = w.iov
         /\ contextAccess(w, k).condition = w.condition
         /\ contextAccess(w, k).callstack = w.callstack
         /\ contextAccess(w, k).state = w.state
         /\ contextAccess(w, k)._iov = iov_intersection(w._iov, k)
<1>1. w._iov \in Key /\ iov_intersection(w._iov, k) \in Key
  BY IntersectionTyped DEF Work
<1> QED BY <1>1 DEF do_intersection, contextAccess, Work

\* The end of do_callback.
LEMMA CreatedItem ==
  ASSUME NEW w \in Work, w.callstack = 1
  PROVE  /\ Created(w) \in Work /\ Created(w).iov /\ Created(w).condition
         /\ Created(w).callstack = 0 /\ Created(w).state = "CREATED"
         /\ Created(w)._iov = IF w.iov THEN w._iov ELSE key_forever
<1>1. key_forever \in Key
  BY KeyLimits DEF key_forever, Interval, Key, Key_value
<1>2. w._iov \in Key /\ w.callstack - 1 = 0
  BY DEF Work
<1>3. Created(w)._iov = IF w.iov THEN w._iov ELSE key_forever
  BY DEF Created, Work
<1>4. /\ Created(w).iov = TRUE /\ Created(w).condition = TRUE
      /\ Created(w).callstack = 0 /\ Created(w).state = "CREATED"
  BY <1>2 DEF Created, Work
<1>5. Created(w) \in Work
  <2> DEFINE v == [[w EXCEPT !._iov = IF w.iov THEN w._iov ELSE key_forever] EXCEPT !.iov = TRUE]
  <2>1. (IF w.iov THEN w._iov ELSE key_forever) \in Key
    BY <1>1, <1>2
  <2>2. v \in Work /\ v.callstack = 1
    BY <2>1 DEF Work
  <2>3. Created(w) = [[[v EXCEPT !.condition = TRUE] EXCEPT !.callstack = @ - 1]
                       EXCEPT !.state = "CREATED"]
    BY DEF Created
  <2> HIDE DEF v
  <2> DEFINE u == [v EXCEPT !.condition = TRUE]
             t == [u EXCEPT !.callstack = @ - 1]
  <2>4. u \in Work /\ u.callstack = 1
    BY <2>2 DEF Work
  <2>5. Created(w) = [t EXCEPT !.state = "CREATED"]
    BY <2>3
  <2> HIDE DEF u
  <2>6. t = [u EXCEPT !.callstack = 0] /\ t \in Work
    BY <2>4 DEF Work
  <2> HIDE DEF t
  <2> QED BY <2>6, <2>5 DEF Work
<1> QED BY <1>3, <1>4, <1>5

-----------------------------------------------------------------------------
(***************************************************************************)
(* The invariant of the items and of the call stack.                       *)
(***************************************************************************)
Frames == 1 .. Len(stack)

Made == {d \in Todo : work[d].condition}

\* A creation works on an item that is not created, a resolution on one that
\* is; no item is worked on twice.
StackInv ==
  /\ \A n \in Frames : stack[n].call = "create" =>
       work[stack[n].work].state = "INVALID" /\ work[stack[n].work].callstack = 1
  /\ \A n \in Frames : stack[n].call = "resolve" => work[stack[n].work].state = "RESOLVED"
  /\ \A m, n \in Frames : stack[m].work = stack[n].work => m = n

ItemInv ==
  \A d \in Todo :
    /\ (work[d].state = "INVALID") = (d \notin Made)
    /\ work[d].state # "INVALID" => work[d].iov /\ work[d].callstack = 0
    /\ work[d].callstack > 0 => \E n \in Frames : stack[n].work = d

\* What the loops over m_todo have behind them.
PassInv ==
  /\ pass = "compute" =>
       \A d \in Todo \ pending : d \in Made \/ \E n \in Frames : stack[n].work = d
  /\ pass \in {"resolve", "done"} => Made = Todo
  /\ pass = "resolve" => \A d \in Todo \ pending : work[d].state = "RESOLVED"
  /\ pass = "done" => stack = <<>> /\ \A d \in Todo : work[d].state = "RESOLVED"
  /\ num_callback = Cardinality(Made)

Basic == TypeOK /\ StackInv /\ ItemInv /\ PassInv

\* The callbacks access nothing but what Access holds.
LEMMA GraphTyped ==
  ASSUME NEW g \in Graphs, NEW d \in Todo
  PROVE  g.create[d] \subseteq Access /\ g.resolve[d] \subseteq Access
BY DEF Access

\* The running callback, and what is left of it after an access.
LEMMA RunningTyped ==
  ASSUME TypeOK, stack # <<>>
  PROVE  /\ top \in Frame /\ current \in Todo /\ work[current] \in Work
         /\ \A n \in Frames : stack[n] \in Frame /\ stack[n].work \in Todo
         /\ 1 \in Frames /\ stack[1] = top
         /\ \A k : /\ Rest(k) \in Frame /\ Rest(k).work = current
                   /\ Rest(k).call = top.call /\ Rest(k).left = top.left \ {k}
<1>1. 1 \in Frames /\ \A n \in Frames : stack[n] \in Frame
  BY DEF TypeOK, Frames
<1>2. top \in Frame /\ current \in Todo
  BY <1>1 DEF top, current, Frame
<1> QED BY <1>1, <1>2 DEF TypeOK, top, current, Frame, Rest

\* A new callback.
LEMMA CallTyped ==
  ASSUME TypeOK, NEW d \in Todo
  PROVE  /\ [work |-> d, call |-> "create", left |-> graph.create[d]] \in Frame
         /\ [work |-> d, call |-> "resolve", left |-> graph.resolve[d]] \in Frame
BY GraphTyped DEF TypeOK, Frame

\* No item is created at first.
LEMMA BasicInit ==
  ASSUME Init
  PROVE  Basic
<1>1. TypeOK
  BY HandlerAssumptions DEF Init, TypeOK, Work, Frame
<1>2. Frames = {} /\ Made = {}
  BY DEF Init, Frames, Made
<1>3. StackInv /\ ItemInv
  BY <1>2 DEF Init, StackInv, ItemInv
<1>4. PassInv
  BY <1>2, FS_EmptySet DEF Init, PassInv
<1> QED BY <1>1, <1>3, <1>4 DEF Basic

\* v is w but for the IOV, which v has when w has one.
Kept(w, v) ==
  /\ v \in Work /\ v.condition = w.condition /\ v.callstack = w.callstack
  /\ v.state = w.state /\ (w.iov => v.iov)

\* Frame n of the stack becomes frame m, but for what it has still to access.
Stays(m, n) == stack'[m].work = stack[n].work /\ stack'[m].call = stack[n].call

\* An access the running callback has got the answer to.
LEMMA BasicAccess ==
  ASSUME Basic, Busy,
         stack' \in Seq(Frame), Frames' = Frames,
         \A n \in Frames : stack[n].work \in Todo /\ Stays(n, n),
         work' \in [Todo -> Work], \A d \in Todo : Kept(work[d], work'[d]),
         UNCHANGED <<graph, pass, pending, num_callback, registered>>
  PROVE  Basic'
<1>0. TypeOK /\ StackInv /\ ItemInv /\ PassInv
  BY DEF Basic
<1>4. TypeOK'
  BY <1>0 DEF TypeOK
<1>5. Made' = Made
  BY DEF Made, Kept
<1>6. StackInv'
  BY <1>0 DEF StackInv, Kept, Stays
<1>7. ItemInv'
  BY <1>0, <1>5 DEF ItemInv, Kept, Stays
<1>8. PassInv'
  BY <1>0, <1>5 DEF PassInv, Kept, Busy, Stays
<1> QED BY <1>4, <1>6, <1>7, <1>8 DEF Basic

\* The call of a callback, on top of the stack.
Called(d, call) ==
  /\ stack' \in Seq(Frame) /\ 1 \in Frames'
  /\ stack'[1].work = d /\ stack'[1].call = call
  /\ \A n \in Frames : n + 1 \in Frames' /\ Stays(n + 1, n)
  /\ \A n \in Frames' : n = 1 \/ (n - 1 \in Frames /\ Stays(n, n - 1))

\* A call keeps the invariant: the item is neither created nor worked on.
LEMMA BasicCall ==
  ASSUME Basic, Busy, NEW d \in Todo, NEW call \in {"create", "resolve"}, Called(d, call),
         work' \in [Todo -> Work],
         \A e \in Todo : /\ work'[e].condition = work[e].condition
                         /\ work'[e].iov = work[e].iov
                         /\ e # d => work'[e] = work[e],
         \/ /\ call = "create" /\ work[d].state = "INVALID" /\ work[d].callstack = 0
            /\ work'[d].state = "INVALID" /\ work'[d].callstack = 1
         \/ /\ call = "resolve" /\ work[d].state = "CREATED"
            /\ work'[d].state = "RESOLVED" /\ work'[d].callstack = work[d].callstack,
         UNCHANGED <<graph, pass, num_callback, registered>>,
         pending' \in SUBSET Todo, pending \ {d} \subseteq pending',
         pass = "resolve" => call = "resolve"
  PROVE  Basic'
<1>0. TypeOK /\ StackInv /\ ItemInv /\ PassInv
  BY DEF Basic
<1>1. \A n \in Frames : stack[n].work \in Todo /\ stack[n].call \in {"create", "resolve"}
                        /\ n \in Int
  <2>1. \A n \in Frames : stack[n] \in Frame /\ n \in Int
    BY <1>0 DEF TypeOK, Frames
  <2> QED BY <2>1 DEF Frame
<1>2. \A n \in Frames : stack[n].work # d
  BY <1>0, <1>1 DEF StackInv
<1>3. Made' = Made
  BY DEF Made
<1>4. TypeOK'
  BY <1>0 DEF TypeOK, Called
<1>5. StackInv'
  <2>1. \A n \in Frames \cup Frames' : n \in Int
    BY DEF Frames
  <2>2. ASSUME NEW n \in Frames', n # 1
        PROVE  /\ n - 1 \in Frames /\ stack'[n].work = stack[n - 1].work
               /\ stack'[n].call = stack[n - 1].call /\ stack[n - 1].work \in Todo \ {d}
    BY <1>1, <1>2, <2>2 DEF Called, Stays
  <2>3. ASSUME NEW n \in Frames'
        PROVE  /\ stack'[n].call = "create" =>
                    work'[stack'[n].work].state = "INVALID" /\ work'[stack'[n].work].callstack = 1
               /\ stack'[n].call = "resolve" => work'[stack'[n].work].state = "RESOLVED"
    <3>1. CASE n = 1
      BY <3>1 DEF Called
    <3>2. CASE n # 1
      BY <1>0, <2>2, <3>2 DEF StackInv
    <3> QED BY <3>1, <3>2
  <2>4. ASSUME NEW m \in Frames', NEW n \in Frames', stack'[m].work = stack'[n].work
        PROVE  m = n
    <3>1. m # 1 /\ n # 1 => m - 1 = n - 1
      BY <1>0, <2>2, <2>4 DEF StackInv
    <3>2. m = 1 <=> n = 1
      BY <2>2, <2>4 DEF Called
    <3> QED BY <2>1, <3>1, <3>2
  <2> QED BY <2>3, <2>4 DEF StackInv
<1>6. \A e \in Todo : (\E n \in Frames : stack[n].work = e) => \E n \in Frames' : stack'[n].work = e
  BY DEF Called, Stays
<1>7. ItemInv'
  <2>1. \E n \in Frames' : stack'[n].work = d
    BY DEF Called
  <2>2. ASSUME NEW e \in Todo, e # d
        PROVE  /\ (work'[e].state = "INVALID") = (e \notin Made')
               /\ work'[e].state # "INVALID" => work'[e].iov /\ work'[e].callstack = 0
               /\ work'[e].callstack > 0 => \E n \in Frames' : stack'[n].work = e
    BY <2>2, <1>0, <1>3, <1>6 DEF ItemInv
  <2>3. /\ (work'[d].state = "INVALID") = (d \notin Made')
        /\ work'[d].state # "INVALID" => work'[d].iov /\ work'[d].callstack = 0
    BY <1>0, <1>3 DEF ItemInv
  <2> QED BY <2>1, <2>2, <2>3 DEF ItemInv
<1>8. PassInv'
  BY <1>0, <1>3, <1>6 DEF PassInv, Busy, Called
<1> QED BY <1>4, <1>5, <1>7, <1>8 DEF Basic

\* The return of the callback on top of the stack.
Returned ==
  /\ stack' \in Seq(Frame)
  /\ \A n \in Frames' : n + 1 \in Frames /\ Stays(n, n + 1)
  /\ \A n \in Frames : n = 1 \/ (n - 1 \in Frames' /\ Stays(n - 1, n))

\* The facts of the callback on top.
LEMMA RunningFacts ==
  ASSUME Basic, stack # <<>>
  PROVE  /\ current \in Todo /\ 1 \in Frames /\ stack[1].work = current /\ stack[1].call = top.call
         /\ \A n \in Frames : stack[n] \in Frame /\ stack[n].work \in Todo /\ n \in Int
         /\ \A n \in Frames : stack[n].work = current => n = 1
         /\ top.call = "resolve" => work[current].state = "RESOLVED" /\ current \in Made
         /\ top.call = "create" => /\ work[current].state = "INVALID" /\ work[current].callstack = 1
                                   /\ current \notin Made
<1>1. /\ current \in Todo /\ 1 \in Frames /\ stack[1].work = current /\ stack[1].call = top.call
      /\ \A n \in Frames : stack[n] \in Frame /\ stack[n].work \in Todo
  BY RunningTyped DEF Basic, current, top
<1>2. \A n \in Frames : n \in Int
  BY DEF Frames
<1> QED BY <1>1, <1>2 DEF Basic, StackInv, ItemInv

\* A resolution that ends.
LEMMA BasicResolved ==
  ASSUME Basic, Busy, stack # <<>>, top.call = "resolve", Returned,
         work' \in [Todo -> Work], \A d \in Todo : Kept(work[d], work'[d]),
         UNCHANGED <<graph, pass, pending, num_callback, registered>>
  PROVE  Basic'
<1>0. TypeOK /\ StackInv /\ ItemInv /\ PassInv
  BY DEF Basic
<1>1. TypeOK'
  BY <1>0 DEF TypeOK, Returned
<1>2. Made' = Made
  BY DEF Made, Kept
<1>3. StackInv'
  <2>1. \A n \in Frames' : /\ n + 1 \in Frames /\ stack'[n].work = stack[n + 1].work
                           /\ stack'[n].call = stack[n + 1].call /\ stack[n + 1].work \in Todo
                           /\ n \in Int
    BY RunningFacts DEF Returned, Stays, Frames
  <2>2. \A n \in Frames' : /\ stack'[n].call = "create" =>
                                work'[stack'[n].work].state = "INVALID" /\ work'[stack'[n].work].callstack = 1
                           /\ stack'[n].call = "resolve" => work'[stack'[n].work].state = "RESOLVED"
    BY <1>0, <2>1 DEF StackInv, Kept
  <2>3. ASSUME NEW m \in Frames', NEW n \in Frames', stack'[m].work = stack'[n].work
        PROVE  m = n
    <3>1. m + 1 = n + 1
      BY <1>0, <2>1, <2>3 DEF StackInv
    <3> QED BY <3>1, <2>1
  <2> QED BY <2>2, <2>3 DEF StackInv
<1>4. \A e \in Todo \ {current} :
        (\E n \in Frames : stack[n].work = e) => \E n \in Frames' : stack'[n].work = e
  BY RunningFacts DEF Returned, Stays
<1>5. current \in Todo /\ current \in Made /\ work[current].state = "RESOLVED"
  BY RunningFacts
<1>6. ItemInv'
  <2>1. ASSUME NEW e \in Todo
        PROVE  /\ (work'[e].state = "INVALID") = (e \notin Made')
               /\ work'[e].state # "INVALID" => work'[e].iov /\ work'[e].callstack = 0
    BY <1>0, <1>2 DEF ItemInv, Kept
  <2>2. ASSUME NEW e \in Todo, work'[e].callstack > 0
        PROVE  \E n \in Frames' : stack'[n].work = e
    <3>1. e # current
      BY <2>2, <1>0, <1>5 DEF ItemInv, Kept
    <3> QED BY <2>2, <3>1, <1>0, <1>4 DEF ItemInv, Kept
  <2> QED BY <2>1, <2>2 DEF ItemInv
<1>7. PassInv'
  BY <1>0, <1>2, <1>4, <1>5 DEF PassInv, Kept, Busy
<1> QED BY <1>1, <1>3, <1>6, <1>7 DEF Basic

\* The callback on top of the stack is followed by the resolution of its item.
Resolving ==
  /\ stack' \in Seq(Frame) /\ Frames' = Frames
  /\ stack'[1].work = current /\ stack'[1].call = "resolve"
  /\ \A n \in Frames \ {1} : Stays(n, n)

\* A creation that ends, back in the loop of compute or on the way to resolve.
LEMMA BasicCreated ==
  ASSUME Basic, Busy, stack # <<>>, top.call = "create",
         work' \in [Todo -> Work],
         \A d \in Todo \ {current} : Kept(work[d], work'[d]),
         work'[current].condition, work'[current].iov, work'[current].callstack = 0,
         \/ Returned /\ work'[current].state = "CREATED"
         \/ Resolving /\ work'[current].state = "RESOLVED",
         num_callback' = num_callback + 1,
         UNCHANGED <<graph, pass, pending, registered>>
  PROVE  Basic'
<1> DEFINE c == current
<1>0. TypeOK /\ StackInv /\ ItemInv /\ PassInv
  BY DEF Basic
<1>1. /\ c \in Todo /\ c \notin Made /\ work[c].state = "INVALID"
      /\ 1 \in Frames /\ \A n \in Frames : stack[n].work = c => n = 1
      /\ \A n \in Frames : stack[n].work \in Todo /\ n \in Int
  BY RunningFacts
<1> HIDE DEF c
<1>2. /\ \A d \in Todo \ {c} : Kept(work[d], work'[d])
      /\ work'[c].condition /\ work'[c].iov /\ work'[c].callstack = 0
      /\ work'[c].state \in {"CREATED", "RESOLVED"}
  BY DEF c
<1>3. /\ stack' \in Seq(Frame)
      /\ Resolving => stack'[1].work = c /\ stack'[1].call = "resolve"
      /\ Returned \/ (Resolving /\ work'[c].state = "RESOLVED")
  BY DEF c, Returned, Resolving
<1>4. TypeOK'
  BY <1>0, <1>3 DEF TypeOK
<1>5. Made' = Made \cup {c}
  BY <1>1, <1>2 DEF Made, Kept
<1>6. StackInv'
  <2>1. CASE Returned
    <3>1. \A n \in Frames' : /\ n + 1 \in Frames /\ stack'[n].work = stack[n + 1].work
                             /\ stack'[n].call = stack[n + 1].call
                             /\ n \in Int /\ stack[n + 1].work \in Todo
      BY <1>1, <2>1 DEF Returned, Stays, Frames
    <3>2. \A n \in Frames' : stack[n + 1].work # c
      <4>1. \A n \in Frames' : n + 1 # 1
        BY DEF Frames
      <4> QED BY <1>1, <3>1, <4>1
    <3>3. \A n \in Frames' : /\ stack'[n].call = "create" =>
                                  work'[stack'[n].work].state = "INVALID" /\ work'[stack'[n].work].callstack = 1
                             /\ stack'[n].call = "resolve" => work'[stack'[n].work].state = "RESOLVED"
      BY <1>0, <1>2, <3>1, <3>2 DEF StackInv, Kept
    <3>4. ASSUME NEW m \in Frames', NEW n \in Frames', stack'[m].work = stack'[n].work
          PROVE  m = n
      <4>1. m + 1 = n + 1
        BY <1>0, <3>1, <3>4 DEF StackInv
      <4> QED BY <4>1, <3>1
    <3> QED BY <3>3, <3>4 DEF StackInv
  <2>2. CASE Resolving /\ work'[c].state = "RESOLVED"
    <3>1. Frames' = Frames /\ \A n \in Frames \ {1} : Stays(n, n) /\ stack[n].work # c
      BY <1>1, <2>2 DEF Resolving
    <3>2. \A n \in Frames' : /\ stack'[n].call = "create" =>
                                  work'[stack'[n].work].state = "INVALID" /\ work'[stack'[n].work].callstack = 1
                             /\ stack'[n].call = "resolve" => work'[stack'[n].work].state = "RESOLVED"
      BY <1>0, <1>1, <1>2, <1>3, <2>2, <3>1 DEF StackInv, Kept, Stays
    <3>3. \A m, n \in Frames' : stack'[m].work = stack'[n].work => m = n
      BY <1>0, <1>1, <1>3, <2>2, <3>1 DEF StackInv, Stays
    <3> QED BY <3>2, <3>3 DEF StackInv
  <2> QED BY <1>3, <2>1, <2>2
<1>7. \A e \in Todo \ {c} :
        (\E n \in Frames : stack[n].work = e) => \E n \in Frames' : stack'[n].work = e
  <2>1. CASE Returned
    BY <1>1, <2>1, RunningFacts DEF Returned, Stays, c
  <2>2. CASE Resolving
    BY <1>1, <2>2, RunningFacts DEF Resolving, Stays, c
  <2> QED BY <2>1, <2>2
<1>8. ItemInv'
  <2>1. ASSUME NEW e \in Todo \ {c}
        PROVE  /\ (work'[e].state = "INVALID") = (e \notin Made')
               /\ work'[e].state # "INVALID" => work'[e].iov /\ work'[e].callstack = 0
               /\ work'[e].callstack > 0 => \E n \in Frames' : stack'[n].work = e
    BY <1>0, <1>2, <1>5, <1>7 DEF ItemInv, Kept
  <2>2. /\ (work'[c].state = "INVALID") = (c \notin Made')
        /\ work'[c].state # "INVALID" => work'[c].iov /\ work'[c].callstack = 0
        /\ ~(work'[c].callstack > 0)
    BY <1>2, <1>5
  <2> QED BY <2>1, <2>2 DEF ItemInv
<1>9. pass = "compute"
  BY <1>0, <1>1 DEF PassInv, Busy
<1>10. num_callback' = Cardinality(Made')
  <2>1. IsFiniteSet(Made)
    BY HandlerAssumptions, FS_Subset DEF Made
  <2> QED BY <2>1, <1>0, <1>1, <1>5, FS_AddElement DEF PassInv
<1>11. PassInv'
  <2>1. \A d \in Todo \ pending' : d \in Made' \/ \E n \in Frames' : stack'[n].work = d
    BY <1>0, <1>5, <1>7, <1>9 DEF PassInv
  <2> QED BY <2>1, <1>9, <1>10 DEF PassInv
<1> QED BY <1>4, <1>6, <1>8, <1>11 DEF Basic

-----------------------------------------------------------------------------
(***************************************************************************)
(* What the actions do to the stack.                                       *)
(***************************************************************************)
\* The running callback has one access less to do.
LEMMA StackAccess ==
  ASSUME TypeOK, stack # <<>>, NEW k, stack' = <<Rest(k)>> \o Tail(stack)
  PROVE  /\ stack' \in Seq(Frame) /\ Len(stack') = Len(stack) /\ Frames' = Frames
         /\ stack'[1] = Rest(k)
         /\ \A n \in Frames : n = 1 \/ stack'[n] = stack[n]
         /\ \A n \in Frames : stack[n].work \in Todo /\ Stays(n, n)
<1>1. Rest(k) \in Frame /\ stack \in Seq(Frame)
  BY RunningTyped DEF TypeOK
<1>2. /\ stack' \in Seq(Frame) /\ Len(stack') = Len(stack) /\ stack'[1] = Rest(k)
      /\ \A n \in 2 .. Len(stack') : stack'[n] = stack[n]
  BY <1>1, Replaced
<1>3. \A n \in Frames : n = 1 \/ n \in 2 .. Len(stack)
  BY <1>1 DEF Frames
<1>4. Frames' = Frames
  BY <1>2 DEF Frames
<1>5. /\ Rest(k).work = stack[1].work /\ Rest(k).call = stack[1].call
      /\ \A n \in Frames : stack[n].work \in Todo
  BY RunningTyped DEF current, top
<1> QED BY <1>2, <1>3, <1>4, <1>5 DEF Stays

\* A callback is called.
LEMMA StackCall ==
  ASSUME TypeOK, NEW f \in Frame, NEW s \in Seq(Frame), stack' = <<f>> \o s, Len(s) = Len(stack),
         \A n \in Frames : s[n].work = stack[n].work /\ s[n].call = stack[n].call
  PROVE  /\ Called(f.work, f.call) /\ stack'[1] = f
         /\ \A n \in Frames : stack'[n + 1] = s[n]
<1>1. /\ stack' \in Seq(Frame) /\ stack' # <<>> /\ Len(stack') = Len(stack) + 1
      /\ stack'[1] = f
      /\ \A n \in 2 .. Len(stack') : n - 1 \in Frames /\ stack'[n] = s[n - 1]
  BY Pushed DEF Frames
<1>2. Len(stack) \in Nat
  BY DEF TypeOK
<1>3. /\ 1 \in Frames' /\ \A n \in Frames' : n = 1 \/ n \in 2 .. Len(stack')
      /\ \A n \in Frames : n + 1 \in Frames' /\ n + 1 \in 2 .. Len(stack') /\ (n + 1) - 1 = n
  BY <1>1, <1>2 DEF Frames
<1> QED BY <1>1, <1>3 DEF Called, Stays

\* A callback returns.
LEMMA StackReturn ==
  ASSUME TypeOK, stack # <<>>,
         \/ Len(stack) = 1 /\ stack' = <<>>
         \/ stack' = Tail(stack)
  PROVE  /\ Returned
         /\ \A n \in Frames' : stack'[n] = stack[n + 1]
<1>0. stack \in Seq(Frame)
  BY DEF TypeOK
<1>1. CASE Len(stack) = 1 /\ stack' = <<>>
  BY <1>0, <1>1 DEF Returned, Frames
<1>2. CASE stack' = Tail(stack)
  <2>1. /\ stack' \in Seq(Frame) /\ Len(stack') = Len(stack) - 1
        /\ \A n \in 1 .. Len(stack') : n + 1 \in 2 .. Len(stack) /\ stack'[n] = stack[n + 1]
    BY <1>0, <1>2, Popped
  <2>2. /\ \A n \in Frames' : n \in 1 .. Len(stack') /\ n + 1 \in Frames
        /\ \A n \in Frames : n = 1 \/ (n - 1 \in Frames' /\ (n - 1) + 1 = n)
    BY <1>0, <2>1 DEF Frames
  <2> QED BY <2>1, <2>2 DEF Returned, Stays, Frames
<1> QED BY <1>1, <1>2

\* A created item is resolved by the callback that takes the place on top.
LEMMA StackResolve ==
  ASSUME TypeOK, stack # <<>>, NEW f \in Frame, f.work = current, f.call = "resolve",
         stack' = <<f>> \o Tail(stack)
  PROVE  /\ Resolving /\ stack'[1] = f /\ Len(stack') = Len(stack)
         /\ \A n \in Frames \ {1} : stack'[n] = stack[n]
<1>1. stack \in Seq(Frame)
  BY DEF TypeOK
<1>2. /\ stack' \in Seq(Frame) /\ Len(stack') = Len(stack) /\ stack'[1] = f
      /\ \A n \in 2 .. Len(stack') : stack'[n] = stack[n]
  BY <1>1, Replaced
<1>3. \A n \in Frames \ {1} : n \in 2 .. Len(stack)
  BY <1>1 DEF Frames
<1>4. Frames' = Frames
  BY <1>2 DEF Frames
<1> QED BY <1>2, <1>3, <1>4 DEF Resolving, Stays

-----------------------------------------------------------------------------
(***************************************************************************)
(* What the actions do to the items.                                       *)
(***************************************************************************)
\* The IOV of a condition of the user pool, twice: by get() and by the context.
LEMMA ItemAccessPool ==
  ASSUME TypeOK, NEW k, AccessPool(k)
  PROVE  /\ PoolIov[k] \in Key /\ current \in Todo /\ stack # <<>>
         /\ work' \in [Todo -> Work] /\ \A d \in Todo : Kept(work[d], work'[d])
         /\ \A d \in Todo \ {current} : work'[d] = work[d]
         /\ work'[current] = contextAccess(do_intersection(work[current], PoolIov[k]), PoolIov[k])
         /\ work'[current].iov
         /\ work'[current]._iov =
              iov_intersection(IF work[current].iov THEN iov_intersection(work[current]._iov, PoolIov[k])
                                                    ELSE PoolIov[k], PoolIov[k])
<1>1. /\ stack # <<>> /\ k \in Pool
      /\ work' = [work EXCEPT ![current] =
                   contextAccess(do_intersection(work[current], PoolIov[k]), PoolIov[k])]
  BY DEF AccessPool, Accesses
<1>2. PoolIov[k] \in Key /\ current \in Todo /\ work \in [Todo -> Work]
  BY <1>1, HandlerAssumptions, RunningTyped DEF TypeOK
<1> DEFINE w == do_intersection(work[current], PoolIov[k])
           v == contextAccess(w, PoolIov[k])
<1>3. /\ w \in Work /\ w.iov /\ Kept(work[current], w)
      /\ w._iov = IF work[current].iov THEN iov_intersection(work[current]._iov, PoolIov[k])
                                       ELSE PoolIov[k]
  BY <1>2, IntersectionKeeps DEF Kept
<1>4. work' = [work EXCEPT ![current] = v]
  BY <1>1
<1> HIDE DEF w
<1>5. v \in Work /\ v.iov /\ Kept(work[current], v) /\ v._iov = iov_intersection(w._iov, PoolIov[k])
  BY <1>2, <1>3, IntersectionKeeps DEF Kept
<1> HIDE DEF v
<1>6. /\ work' \in [Todo -> Work] /\ work'[current] = v
      /\ \A d \in Todo \ {current} : work'[d] = work[d]
  BY <1>2, <1>4, <1>5
<1>7. \A d \in Todo : work[d] \in Work
  BY <1>2
<1>8. \A d \in Todo : Kept(work[d], work'[d])
  BY <1>5, <1>6, <1>7 DEF Kept
<1> QED BY <1>1, <1>2, <1>3, <1>5, <1>6, <1>8 DEF v, w

\* The IOV of a condition that is resolved, by the context alone.
LEMMA ItemAccessResolved ==
  ASSUME TypeOK, NEW k, AccessResolved(k)
  PROVE  /\ k \in Todo /\ work[k]._iov \in Key /\ current \in Todo /\ stack # <<>>
         /\ work' \in [Todo -> Work] /\ \A d \in Todo : Kept(work[d], work'[d])
         /\ \A d \in Todo \ {current} : work'[d] = work[d]
         /\ work'[current].iov = work[current].iov
         /\ work'[current]._iov = iov_intersection(work[current]._iov, work[k]._iov)
<1>1. /\ stack # <<>> /\ k \in Todo
      /\ work' = [work EXCEPT ![current] = contextAccess(work[current], work[k]._iov)]
  BY DEF AccessResolved, Accesses
<1>2. /\ current \in Todo /\ work \in [Todo -> Work] /\ \A d \in Todo : work[d] \in Work
  BY <1>1, RunningTyped DEF TypeOK
<1>3. work[k]._iov \in Key
  BY <1>1, <1>2 DEF Work
<1> DEFINE v == contextAccess(work[current], work[k]._iov)
<1>4. work' = [work EXCEPT ![current] = v]
  BY <1>1
<1>5. /\ v \in Work /\ v.iov = work[current].iov /\ Kept(work[current], v)
      /\ v._iov = iov_intersection(work[current]._iov, work[k]._iov)
  BY <1>2, <1>3, IntersectionKeeps DEF Kept
<1> HIDE DEF v
<1>6. /\ work' \in [Todo -> Work] /\ work'[current] = v
      /\ \A d \in Todo \ {current} : work'[d] = work[d]
  BY <1>2, <1>4, <1>5
<1>7. \A d \in Todo : Kept(work[d], work'[d])
  BY <1>2, <1>5, <1>6 DEF Kept
<1> QED BY <1>1, <1>2, <1>3, <1>5, <1>6, <1>7

\* A creation begins: only the call stack of the item is counted up.
LEMMA ItemCallback ==
  ASSUME TypeOK, NEW d \in Todo, NEW below, do_callback(d, below)
  PROVE  /\ work' \in [Todo -> Work]
         /\ \A e \in Todo : /\ work'[e].condition = work[e].condition
                            /\ work'[e].iov = work[e].iov /\ work'[e]._iov = work[e]._iov
                            /\ work'[e].state = work[e].state
                            /\ e # d => work'[e] = work[e]
         /\ work[d].callstack = 0 /\ work'[d].callstack = 1
<1>1. work[d].callstack = 0 /\ work' = [work EXCEPT ![d].callstack = 1]
  BY DEF do_callback
<1> QED BY <1>1 DEF TypeOK, Work

\* A resolution begins: the state of the item says it is resolved.
LEMMA ItemResolve ==
  ASSUME TypeOK, NEW d \in Todo, NEW below, startResolve(d, below)
  PROVE  /\ work' \in [Todo -> Work]
         /\ \A e \in Todo : /\ work'[e].condition = work[e].condition
                            /\ work'[e].iov = work[e].iov /\ work'[e]._iov = work[e]._iov
                            /\ work'[e].callstack = work[e].callstack
                            /\ e # d => work'[e] = work[e]
         /\ work'[d].state = "RESOLVED"
<1>1. work' = [work EXCEPT ![d].state = "RESOLVED"]
  BY DEF startResolve
<1> QED BY <1>1 DEF TypeOK, Work

\* The callback whose access the running one answers.
user == stack[2].work

\* It works on another item than the running one.
LEMMA UserFacts ==
  ASSUME Basic, stack # <<>>, Len(stack) > 1
  PROVE  2 \in Frames /\ user \in Todo /\ user # current
<1>1. 2 \in Frames
  BY DEF Basic, TypeOK, Frames
<1> QED BY <1>1, RunningFacts DEF user

\* The IOV the item has when its creation is over.
CreatedIov(d) == IF work[d].iov THEN work[d]._iov ELSE key_forever

\* A creation ends.
LEMMA ItemCreated ==
  ASSUME Basic, stack # <<>>, top.call = "create"
  PROVE  /\ Created(work[current]) \in Work /\ Created(work[current]).iov
         /\ Created(work[current]).condition /\ Created(work[current]).callstack = 0
         /\ Created(work[current]).state = "CREATED"
         /\ Created(work[current])._iov = CreatedIov(current)
         /\ CreatedIov(current) \in Key
<1>1. work[current] \in Work /\ work[current].callstack = 1
  BY RunningFacts DEF Basic, TypeOK
<1>2. /\ Created(work[current]) \in Work /\ Created(work[current]).iov
      /\ Created(work[current]).condition /\ Created(work[current]).callstack = 0
      /\ Created(work[current]).state = "CREATED"
      /\ Created(work[current])._iov = CreatedIov(current)
  BY <1>1, CreatedItem DEF CreatedIov
<1>3. \A w \in Work : w._iov \in Key
  BY DEF Work
<1> QED BY <1>2, <1>3

\* In the loop of compute.
LEMMA ItemCreateReturns ==
  ASSUME Basic, CreateReturns
  PROVE  /\ stack # <<>> /\ top.call = "create" /\ current \in Todo
         /\ work' \in [Todo -> Work]
         /\ \A d \in Todo \ {current} : work'[d] = work[d]
         /\ work'[current].condition /\ work'[current].iov /\ work'[current].callstack = 0
         /\ work'[current].state = "CREATED"
         /\ work'[current]._iov = CreatedIov(current)
<1>1. /\ stack # <<>> /\ top.call = "create"
      /\ work' = [work EXCEPT ![current] = Created(work[current])]
  BY DEF CreateReturns, Returns
<1>2. current \in Todo /\ work \in [Todo -> Work]
  BY <1>1, RunningFacts DEF Basic, TypeOK
<1>3. work'[current] = Created(work[current]) /\ \A d \in Todo \ {current} : work'[d] = work[d]
  BY <1>1, <1>2
<1>4. work' \in [Todo -> Work]
  BY <1>1, <1>2, ItemCreated
<1> QED BY <1>1, <1>2, <1>3, <1>4, ItemCreated

\* On behalf of an access: the accessing item takes the IOV.
LEMMA ItemCreateReturnsToGet ==
  ASSUME Basic, CreateReturnsToGet
  PROVE  /\ stack # <<>> /\ top.call = "create" /\ current \in Todo /\ Len(stack) > 1
         /\ user \in Todo /\ user # current
         /\ work' \in [Todo -> Work]
         /\ \A d \in Todo \ {current, user} : work'[d] = work[d]
         /\ \A d \in Todo \ {current} : Kept(work[d], work'[d])
         /\ work'[current].condition /\ work'[current].iov /\ work'[current].callstack = 0
         /\ work'[current].state = "RESOLVED"
         /\ work'[current]._iov = CreatedIov(current)
         /\ work'[user].iov
         /\ work'[user]._iov = IF work[user].iov
                               THEN iov_intersection(work[user]._iov, CreatedIov(current))
                               ELSE CreatedIov(current)
<1>1. /\ stack # <<>> /\ top.call = "create" /\ Len(stack) > 1
  BY DEF CreateReturnsToGet, Returns
<1> DEFINE w == Created(work[current])
           v == [w EXCEPT !.state = "RESOLVED"]
           u == do_intersection(work[user], w._iov)
<1>2. /\ current \in Todo /\ user \in Todo /\ user # current
      /\ work \in [Todo -> Work] /\ \A d \in Todo : work[d] \in Work
  BY <1>1, RunningFacts, UserFacts DEF Basic, TypeOK
<1>3. /\ w \in Work /\ w.iov /\ w.condition /\ w.callstack = 0 /\ w._iov = CreatedIov(current)
      /\ CreatedIov(current) \in Key
  BY <1>1, ItemCreated
<1>4. work' = [work EXCEPT ![current] = v, ![user] = do_intersection(@, w._iov)]
  BY DEF CreateReturnsToGet, user
<1> HIDE DEF w
<1>5. v \in Work /\ v.iov /\ v.condition /\ v.callstack = 0 /\ v.state = "RESOLVED"
      /\ v._iov = CreatedIov(current)
  BY <1>3 DEF Work
<1>6. /\ u \in Work /\ u.iov /\ Kept(work[user], u)
      /\ u._iov = IF work[user].iov THEN iov_intersection(work[user]._iov, CreatedIov(current))
                                    ELSE CreatedIov(current)
  BY <1>2, <1>3, IntersectionKeeps DEF Kept
<1> HIDE DEF v
<1>7. work' = [[work EXCEPT ![current] = v] EXCEPT ![user] = u]
  BY <1>2, <1>4
<1> HIDE DEF u
<1>8. /\ work' \in [Todo -> Work] /\ work'[current] = v /\ work'[user] = u
      /\ \A d \in Todo \ {current, user} : work'[d] = work[d]
  BY <1>2, <1>5, <1>6, <1>7
<1>9. \A d \in Todo \ {current} : Kept(work[d], work'[d])
  BY <1>2, <1>6, <1>8 DEF Kept
<1> QED BY <1>1, <1>2, <1>5, <1>6, <1>8, <1>9

\* A resolution ends in the loop of resolve: the IOV is intersected with itself.
LEMMA ItemResolveReturns ==
  ASSUME Basic, ResolveReturns
  PROVE  /\ stack # <<>> /\ top.call = "resolve" /\ current \in Todo
         /\ work' \in [Todo -> Work] /\ \A d \in Todo : Kept(work[d], work'[d])
         /\ \A d \in Todo \ {current} : work'[d] = work[d]
         /\ work[current].iov /\ work[current]._iov \in Key
         /\ work'[current]._iov = iov_intersection(work[current]._iov, work[current]._iov)
<1>1. /\ stack # <<>> /\ top.call = "resolve"
      /\ work' = [work EXCEPT ![current] = do_intersection(work[current], work[current]._iov)]
  BY DEF ResolveReturns, Returns
<1>2. /\ current \in Todo /\ work \in [Todo -> Work] /\ \A d \in Todo : work[d] \in Work
      /\ work[current].state = "RESOLVED"
  BY <1>1, RunningFacts DEF Basic, TypeOK
<1>3. work[current].iov /\ work[current]._iov \in Key
  BY <1>2 DEF Basic, ItemInv, Work
<1> DEFINE v == do_intersection(work[current], work[current]._iov)
<1>4. v \in Work /\ v.iov /\ Kept(work[current], v)
      /\ v._iov = iov_intersection(work[current]._iov, work[current]._iov)
  BY <1>2, <1>3, IntersectionKeeps DEF Kept
<1>5. work' = [work EXCEPT ![current] = v]
  BY <1>1
<1> HIDE DEF v
<1>6. /\ work' \in [Todo -> Work] /\ work'[current] = v
      /\ \A d \in Todo \ {current} : work'[d] = work[d]
  BY <1>2, <1>4, <1>5
<1>7. \A d \in Todo : Kept(work[d], work'[d])
  BY <1>2, <1>4, <1>6 DEF Kept
<1> QED BY <1>1, <1>2, <1>3, <1>4, <1>6, <1>7

\* On behalf of an access: the accessing item takes the IOV, by get() and by the context.
LEMMA ItemResolveReturnsToGet ==
  ASSUME Basic, ResolveReturnsToGet
  PROVE  /\ stack # <<>> /\ top.call = "resolve" /\ current \in Todo /\ Len(stack) > 1
         /\ user \in Todo /\ user # current
         /\ work' \in [Todo -> Work] /\ \A d \in Todo : Kept(work[d], work'[d])
         /\ \A d \in Todo \ {user} : work'[d] = work[d]
         /\ work[current].iov /\ work[current]._iov \in Key
         /\ work'[user].iov
         /\ work'[user]._iov =
              iov_intersection(IF work[user].iov THEN iov_intersection(work[user]._iov, work[current]._iov)
                                                 ELSE work[current]._iov, work[current]._iov)
<1> DEFINE key == work[current]._iov
           w == do_intersection(work[user], key)
           v == contextAccess(w, key)
<1>1. /\ stack # <<>> /\ top.call = "resolve" /\ Len(stack) > 1
      /\ work' = [work EXCEPT ![user] = v]
  BY DEF ResolveReturnsToGet, Returns, user
<1>2. /\ current \in Todo /\ user \in Todo /\ user # current
      /\ work \in [Todo -> Work] /\ \A d \in Todo : work[d] \in Work
      /\ work[current].state = "RESOLVED"
  BY <1>1, RunningFacts, UserFacts DEF Basic, TypeOK
<1>3. work[current].iov /\ key \in Key
  BY <1>2 DEF Basic, ItemInv, Work
<1> HIDE DEF key
<1>4. /\ w \in Work /\ w.iov /\ Kept(work[user], w)
      /\ w._iov = IF work[user].iov THEN iov_intersection(work[user]._iov, key) ELSE key
  BY <1>2, <1>3, IntersectionKeeps DEF Kept
<1> HIDE DEF w
<1>5. v \in Work /\ v.iov /\ Kept(work[user], v) /\ v._iov = iov_intersection(w._iov, key)
  BY <1>3, <1>4, IntersectionKeeps DEF Kept
<1> HIDE DEF v
<1>6. /\ work' \in [Todo -> Work] /\ work'[user] = v
      /\ \A d \in Todo \ {user} : work'[d] = work[d]
  BY <1>1, <1>2, <1>5
<1>7. \A d \in Todo : Kept(work[d], work'[d])
  BY <1>2, <1>5, <1>6 DEF Kept
<1> QED BY <1>1, <1>2, <1>3, <1>4, <1>5, <1>6, <1>7 DEF key

-----------------------------------------------------------------------------
(***************************************************************************)
(* The invariant of the items and of the call stack is kept by every step. *)
(***************************************************************************)
\* The frames of a creation and of a resolution.
CreateFrame(d) == [work |-> d, call |-> "create", left |-> graph.create[d]]
ResolveFrame(d) == [work |-> d, call |-> "resolve", left |-> graph.resolve[d]]

\* What a call puts on the stack, from a loop or on behalf of an access.
LEMMA StackFromLoop ==
  ASSUME TypeOK, stack = <<>>, NEW f \in Frame, stack' = <<f>> \o <<>>
  PROVE  Called(f.work, f.call) /\ stack'[1] = f /\ Frames = {}
<1>1. <<>> \in Seq(Frame) /\ Frames = {} /\ Len(<<>>) = Len(stack)
  BY DEF Frames
<1> QED BY <1>1, StackCall

\* On behalf of an access the callback goes on top of the one that accesses.
LEMMA StackFromAccess ==
  ASSUME TypeOK, stack # <<>>, NEW k, NEW f \in Frame,
         stack' = <<f>> \o (<<Rest(k)>> \o Tail(stack))
  PROVE  /\ Called(f.work, f.call) /\ stack'[1] = f
         /\ \A n \in Frames : stack'[n + 1] = IF n = 1 THEN Rest(k) ELSE stack[n]
<1> DEFINE s == <<Rest(k)>> \o Tail(stack)
<1>1. Rest(k) \in Frame /\ stack \in Seq(Frame) /\ 1 \in Frames
      /\ Rest(k).work = stack[1].work /\ Rest(k).call = stack[1].call
  BY RunningTyped DEF TypeOK, current, top
<1>2. /\ s \in Seq(Frame) /\ Len(s) = Len(stack) /\ s[1] = Rest(k)
      /\ \A n \in 2 .. Len(s) : s[n] = stack[n]
  BY <1>1, Replaced
<1>3. stack' = <<f>> \o s
  OBVIOUS
<1> HIDE DEF s
<1>4. \A n \in Frames : n = 1 \/ s[n] = stack[n]
  BY <1>1, <1>2 DEF Frames
<1>5. \A n \in Frames : s[n].work = stack[n].work /\ s[n].call = stack[n].call
  BY <1>1, <1>2, <1>4
<1>6. Called(f.work, f.call) /\ stack'[1] = f /\ \A n \in Frames : stack'[n + 1] = s[n]
  BY <1>2, <1>3, <1>5, StackCall
<1> QED BY <1>2, <1>4, <1>6

\* The frames carry the item and the call.
LEMMA NewFrames ==
  ASSUME TypeOK, NEW d \in Todo
  PROVE  /\ CreateFrame(d) \in Frame /\ CreateFrame(d).work = d /\ CreateFrame(d).call = "create"
         /\ CreateFrame(d).left = graph.create[d]
         /\ ResolveFrame(d) \in Frame /\ ResolveFrame(d).work = d
         /\ ResolveFrame(d).call = "resolve" /\ ResolveFrame(d).left = graph.resolve[d]
BY CallTyped DEF CreateFrame, ResolveFrame

\* A step of the loops over m_todo.
LEMMA BasicLoops ==
  ASSUME Basic, NEW d \in Todo, ComputeNext(d) \/ ResolveNext(d)
  PROVE  Basic'
<1>0. TypeOK /\ StackInv /\ ItemInv /\ PassInv
  BY DEF Basic
<1>1. /\ stack = <<>> /\ Busy /\ d \in pending /\ pending' = pending \ {d}
      /\ UNCHANGED <<graph, pass, num_callback, registered>>
  BY DEF ComputeNext, ResolveNext, Visit, Idle
<1>2. Frames = {} /\ pending' \in SUBSET Todo
  BY <1>0, <1>1 DEF Frames, TypeOK
<1>3. CASE UNCHANGED <<work, stack>> /\ (d \in Made \/ pass = "compute")
                 /\ (work[d].state = "RESOLVED" \/ pass = "compute") /\ (pass = "compute" => d \in Made)
  <2>1. Made' = Made /\ Frames' = Frames
    BY <1>3 DEF Made, Frames
  <2>2. TypeOK'
    BY <1>0, <1>1, <1>2, <1>3 DEF TypeOK
  <2>3. StackInv' /\ ItemInv'
    BY <1>0, <1>3, <2>1 DEF StackInv, ItemInv
  <2>4. PassInv'
    BY <1>0, <1>1, <1>2, <1>3, <2>1 DEF PassInv, Busy
  <2> QED BY <2>2, <2>3, <2>4 DEF Basic
<1>4. CASE pass = "compute" /\ ~work[d].condition /\ do_callback(d, <<>>)
  <2>1. stack' = <<CreateFrame(d)>> \o <<>>
    BY <1>4 DEF do_callback, CreateFrame
  <2>2. Called(d, "create")
    BY <1>0, <1>1, <2>1, NewFrames, StackFromLoop
  <2>3. work[d].state = "INVALID"
    BY <1>0, <1>4 DEF ItemInv, Made
  <2>4. /\ work' \in [Todo -> Work]
        /\ \A e \in Todo : /\ work'[e].condition = work[e].condition
                           /\ work'[e].iov = work[e].iov
                           /\ work'[e].state = work[e].state
                           /\ e # d => work'[e] = work[e]
        /\ work[d].callstack = 0 /\ work'[d].callstack = 1 /\ pass = "compute"
    BY <1>0, <1>4, ItemCallback
  <2> QED BY <1>1, <1>2, <2>2, <2>3, <2>4, BasicCall
<1>5. CASE pass = "resolve" /\ work[d].state # "RESOLVED" /\ startResolve(d, <<>>)
  <2>1. stack' = <<ResolveFrame(d)>> \o <<>>
    BY <1>5 DEF startResolve, ResolveFrame
  <2>2. Called(d, "resolve")
    BY <1>0, <1>1, <2>1, NewFrames, StackFromLoop
  <2>3. work[d].state = "CREATED"
    <3>1. work[d] \in Work /\ work[d].state # "INVALID"
      BY <1>0, <1>5 DEF ItemInv, PassInv, TypeOK
    <3> QED BY <3>1, <1>5 DEF Work
  <2>4. /\ work' \in [Todo -> Work]
        /\ \A e \in Todo : /\ work'[e].condition = work[e].condition
                           /\ work'[e].iov = work[e].iov
                           /\ work'[e].callstack = work[e].callstack
                           /\ e # d => work'[e] = work[e]
        /\ work'[d].state = "RESOLVED"
    BY <1>0, <1>5, ItemResolve
  <2> QED BY <1>1, <1>2, <2>2, <2>3, <2>4, BasicCall
<1> QED BY <1>0, <1>3, <1>4, <1>5 DEF ComputeNext, ResolveNext, Made, PassInv

\* Accesses answered at once.
LEMMA BasicAnswered ==
  ASSUME Basic, NEW k, AccessPool(k) \/ AccessResolved(k)
  PROVE  Basic'
<1>1. /\ TypeOK /\ Busy /\ stack # <<>> /\ stack' = <<Rest(k)>> \o Tail(stack)
      /\ UNCHANGED <<graph, pass, pending, num_callback, registered>>
  BY DEF Basic, AccessPool, AccessResolved, Accesses
<1>2. /\ stack' \in Seq(Frame) /\ Frames' = Frames
      /\ \A n \in Frames : stack[n].work \in Todo /\ Stays(n, n)
  BY <1>1, StackAccess
<1>3. work' \in [Todo -> Work] /\ \A d \in Todo : Kept(work[d], work'[d])
  BY <1>1, ItemAccessPool, ItemAccessResolved
<1>4. UNCHANGED <<graph, pass, pending, num_callback, registered>> /\ Busy
  BY <1>1
<1> QED BY <1>2, <1>3, <1>4, BasicAccess

\* Accesses that call a callback.
LEMMA BasicAnswering ==
  ASSUME Basic, NEW k, AccessCreated(k) \/ AccessInvalid(k)
  PROVE  Basic'
<1>0. TypeOK /\ StackInv /\ ItemInv /\ PassInv
  BY DEF Basic
<1>1. /\ stack # <<>> /\ Busy /\ k \in Todo
      /\ UNCHANGED <<graph, pass, pending, num_callback, registered>>
  BY DEF AccessCreated, AccessInvalid, Accesses
<1>2. pending' \in SUBSET Todo /\ pending \ {k} \subseteq pending'
  BY <1>0, <1>1 DEF TypeOK
<1>3. CASE AccessInvalid(k)
  <2>1. work[k].state = "INVALID" /\ do_callback(k, <<Rest(k)>> \o Tail(stack))
    BY <1>3 DEF AccessInvalid
  <2>2. stack' = <<CreateFrame(k)>> \o (<<Rest(k)>> \o Tail(stack))
    BY <2>1 DEF do_callback, CreateFrame
  <2>3. Called(k, "create")
    BY <1>0, <1>1, <2>2, NewFrames, StackFromAccess
  <2>4. pass # "resolve"
    BY <1>0, <1>1, <2>1 DEF ItemInv, PassInv
  <2>5. /\ work' \in [Todo -> Work]
        /\ \A e \in Todo : /\ work'[e].condition = work[e].condition
                           /\ work'[e].iov = work[e].iov
                           /\ work'[e].state = work[e].state
                           /\ e # k => work'[e] = work[e]
        /\ work[k].callstack = 0 /\ work'[k].callstack = 1
    BY <1>0, <1>1, <2>1, ItemCallback
  <2> QED BY <1>1, <1>2, <2>1, <2>3, <2>4, <2>5, BasicCall
<1>4. CASE AccessCreated(k)
  <2>1. work[k].state = "CREATED" /\ startResolve(k, <<Rest(k)>> \o Tail(stack))
    BY <1>4 DEF AccessCreated
  <2>2. stack' = <<ResolveFrame(k)>> \o (<<Rest(k)>> \o Tail(stack))
    BY <2>1 DEF startResolve, ResolveFrame
  <2>3. Called(k, "resolve")
    BY <1>0, <1>1, <2>2, NewFrames, StackFromAccess
  <2>4. /\ work' \in [Todo -> Work]
        /\ \A e \in Todo : /\ work'[e].condition = work[e].condition
                           /\ work'[e].iov = work[e].iov
                           /\ work'[e].callstack = work[e].callstack
                           /\ e # k => work'[e] = work[e]
        /\ work'[k].state = "RESOLVED"
    BY <1>0, <1>1, <2>1, ItemResolve
  <2> QED BY <1>1, <1>2, <2>1, <2>3, <2>4, BasicCall
<1> QED BY <1>3, <1>4

\* Returns.
LEMMA BasicReturns ==
  ASSUME Basic, CreateReturns \/ CreateReturnsToGet \/ ResolveReturns \/ ResolveReturnsToGet
  PROVE  Basic'
<1>0. TypeOK
  BY DEF Basic
<1>1. Busy /\ UNCHANGED <<graph, pass, pending, registered>>
  BY DEF CreateReturns, CreateReturnsToGet, ResolveReturns, ResolveReturnsToGet, Returns
<1>2. CASE CreateReturns
  <2>1. Len(stack) = 1 /\ stack' = <<>> /\ num_callback' = num_callback + 1
    BY <1>2 DEF CreateReturns
  <2>2. /\ stack # <<>> /\ top.call = "create" /\ work' \in [Todo -> Work]
        /\ \A d \in Todo \ {current} : work'[d] = work[d]
        /\ work'[current].condition /\ work'[current].iov /\ work'[current].callstack = 0
        /\ work'[current].state = "CREATED"
    BY <1>2, ItemCreateReturns
  <2>3. \A d \in Todo \ {current} : Kept(work[d], work'[d])
    BY <2>2 DEF Kept
  <2>4. Returned
    BY <1>0, <2>1, <2>2, StackReturn
  <2> QED BY <1>1, <2>1, <2>2, <2>3, <2>4, BasicCreated
<1>3. CASE CreateReturnsToGet
  <2>1. stack' = <<ResolveFrame(current)>> \o Tail(stack) /\ num_callback' = num_callback + 1
    BY <1>3 DEF CreateReturnsToGet, ResolveFrame
  <2>2. /\ stack # <<>> /\ top.call = "create" /\ current \in Todo /\ work' \in [Todo -> Work]
        /\ \A d \in Todo \ {current} : Kept(work[d], work'[d])
        /\ work'[current].condition /\ work'[current].iov /\ work'[current].callstack = 0
        /\ work'[current].state = "RESOLVED"
    BY <1>3, ItemCreateReturnsToGet
  <2>3. Resolving
    BY <1>0, <2>1, <2>2, NewFrames, StackResolve
  <2> QED BY <1>1, <2>1, <2>2, <2>3, BasicCreated
<1>4. CASE ResolveReturns
  <2>1. Len(stack) = 1 /\ stack' = <<>> /\ num_callback' = num_callback
    BY <1>4 DEF ResolveReturns
  <2>2. /\ stack # <<>> /\ top.call = "resolve" /\ work' \in [Todo -> Work]
        /\ \A d \in Todo : Kept(work[d], work'[d])
    BY <1>4, ItemResolveReturns
  <2>3. Returned
    BY <1>0, <2>1, <2>2, StackReturn
  <2> QED BY <1>1, <2>1, <2>2, <2>3, BasicResolved
<1>5. CASE ResolveReturnsToGet
  <2>1. stack' = Tail(stack) /\ num_callback' = num_callback
    BY <1>5 DEF ResolveReturnsToGet
  <2>2. /\ stack # <<>> /\ top.call = "resolve" /\ work' \in [Todo -> Work]
        /\ \A d \in Todo : Kept(work[d], work'[d])
    BY <1>5, ItemResolveReturnsToGet
  <2>3. Returned
    BY <1>0, <2>1, <2>2, StackReturn
  <2> QED BY <1>1, <2>1, <2>2, <2>3, BasicResolved
<1> QED BY <1>2, <1>3, <1>4, <1>5

\* The loops end, or an exception ends the computation.
LEMMA BasicEnds ==
  ASSUME Basic, ComputeDone \/ Register \/ (Throw /\ Busy)
  PROVE  Basic'
<1>0. TypeOK /\ StackInv /\ ItemInv /\ PassInv
  BY DEF Basic
<1>1. /\ UNCHANGED <<graph, work, stack, num_callback>> /\ pending' \in SUBSET Todo
      /\ pass' \in {"resolve", "done", "failed"}
      /\ pass' = "resolve" => pending' = Todo /\ pass = "compute" /\ pending = {} /\ stack = <<>>
      /\ pass' = "done" => pending = {} /\ pass = "resolve" /\ stack = <<>>
  BY <1>0 DEF ComputeDone, Register, Throw, Idle, TypeOK
<1>2. Made' = Made /\ Frames' = Frames /\ (stack = <<>> => Frames = {})
  BY <1>1 DEF Made, Frames
<1>3. TypeOK'
  <2>1. DOMAIN registered' \in {{}, Todo} /\ \A d \in DOMAIN registered' : registered'[d] \in Key
    <3>1. CASE UNCHANGED registered
      BY <1>0, <3>1 DEF TypeOK
    <3>2. CASE registered' = [d \in Todo |-> work[d]._iov]
      BY <1>0, <3>2 DEF TypeOK, Work
    <3> QED BY <3>1, <3>2 DEF ComputeDone, Register, Throw
  <2> QED BY <1>0, <1>1, <2>1 DEF TypeOK
<1>4. StackInv' /\ ItemInv'
  BY <1>0, <1>1, <1>2 DEF StackInv, ItemInv
<1>5. PassInv'
  <2>1. Made \subseteq Todo
    BY DEF Made
  <2> QED BY <1>0, <1>1, <1>2, <2>1 DEF PassInv
<1> QED BY <1>3, <1>4, <1>5 DEF Basic

\* Every step keeps the invariant of the items and of the call stack.
LEMMA BasicNext ==
  ASSUME Basic, [Next]_vars
  PROVE  Basic'
<1>1. CASE UNCHANGED vars
  BY <1>1 DEF vars, Basic, TypeOK, StackInv, ItemInv, PassInv, Made, Frames
<1>2. ASSUME NEW d \in Todo, ComputeNext(d) \/ ResolveNext(d)
      PROVE  Basic'
  BY <1>2, BasicLoops
<1>3. CASE ComputeDone \/ Register
  BY <1>3, BasicEnds
<1>4. ASSUME NEW k \in Access, AccessPool(k) \/ AccessResolved(k)
      PROVE  Basic'
  BY <1>4, BasicAnswered
<1>5. ASSUME NEW k \in Access, AccessCreated(k) \/ AccessInvalid(k)
      PROVE  Basic'
  BY <1>5, BasicAnswering
<1>6. ASSUME NEW k \in Access, AccessLoops(k) \/ AccessUnknown(k)
      PROVE  Basic'
  BY <1>6, BasicEnds DEF AccessLoops, AccessUnknown, Accesses
<1>7. CASE CreateReturns \/ CreateReturnsToGet \/ ResolveReturns \/ ResolveReturnsToGet
  BY <1>7, BasicReturns
<1> QED BY <1>1, <1>2, <1>3, <1>4, <1>5, <1>6, <1>7 DEF Next

\* It always holds.
LEMMA BasicAlways == Spec => []Basic
<1>1. Init => Basic
  BY BasicInit
<1>2. Basic /\ [Next]_vars => Basic'
  BY BasicNext
<1> QED BY <1>1, <1>2, PTL DEF Spec

\* Every item, frame and registered IOV has its type.
THEOREM HandlerTyped == Spec => []TypeOK
<1>1. Basic => TypeOK
  BY DEF Basic
<1> QED BY <1>1, BasicAlways, PTL

\* No callback receives a condition that is not created yet, in whatever order
\* the conditions are visited and whatever the callbacks access.
THEOREM NeverEarly == Spec => []NoEarlyAccess
<1>1. Basic => NoEarlyAccess
  BY DEF Basic, ItemInv, Made, NoEarlyAccess
<1> QED BY <1>1, BasicAlways, PTL

\* num_callback is the number of created conditions, all of them at the end.
THEOREM CreatesOnce == Spec => []CreatedOnce
<1>1. Basic => CreatedOnce
  BY DEF Basic, PassInv, Made, CreatedOnce
<1> QED BY <1>1, BasicAlways, PTL

-----------------------------------------------------------------------------
(***************************************************************************)
(* The kinds of steps: what they do to the stack, to the created and to    *)
(* the resolved items.                                                     *)
(***************************************************************************)
Resolved == {d \in Todo : work[d].state = "RESOLVED"}

\* The frame of a callback that begins, and all that the callback accesses.
NewFrame(d, call) == IF call = "create" THEN CreateFrame(d) ELSE ResolveFrame(d)
Does(g, f) == IF f.call = "create" THEN g.create[f.work] ELSE g.resolve[f.work]

\* An access is answered at once.
Answers(k) ==
  /\ stack # <<>> /\ k \in top.left /\ k \in Pool \cup Resolved
  /\ Frames' = Frames /\ stack'[1] = Rest(k) /\ \A n \in Frames \ {1} : stack'[n] = stack[n]
  /\ Made' = Made /\ Resolved' = Resolved

\* A callback is called on behalf of an access.
Calls(k, call) ==
  /\ stack # <<>> /\ k \in top.left /\ k \in Todo \ Resolved /\ call \in {"create", "resolve"}
  /\ Called(k, call) /\ stack'[1] = NewFrame(k, call)
  /\ \A n \in Frames : stack'[n + 1] = IF n = 1 THEN Rest(k) ELSE stack[n]
  /\ Made' = Made /\ (call = "resolve" => k \in Made)
  /\ Resolved' = IF call = "resolve" THEN Resolved \cup {k} ELSE Resolved

\* A loop calls a callback.
Begins(d, call) ==
  /\ stack = <<>> /\ Frames' = {1} /\ d \in Todo \ Resolved /\ call \in {"create", "resolve"}
  /\ stack'[1] = NewFrame(d, call) /\ Made' = Made /\ (call = "resolve" => d \in Made)
  /\ Resolved' = IF call = "resolve" THEN Resolved \cup {d} ELSE Resolved

\* The callback on top returns.
Ends ==
  /\ stack # <<>> /\ top.left = {} /\ Returned /\ \A n \in Frames' : stack'[n] = stack[n + 1]
  /\ Resolved' = Resolved
  /\ Made' = IF top.call = "create" THEN Made \cup {current} ELSE Made
  /\ top.call = "create" => Len(stack) = 1

\* A creation returns to an access, which calls the resolution.
Turns ==
  /\ stack # <<>> /\ top.left = {} /\ top.call = "create"
  /\ Resolving /\ stack'[1] = ResolveFrame(current) /\ \A n \in Frames \ {1} : stack'[n] = stack[n]
  /\ Made' = Made \cup {current} /\ Resolved' = Resolved \cup {current}

\* Nothing happens to the stack and the items.
Rests == UNCHANGED <<stack, work>>

\* Accesses to the user pool and to resolved items are answered at once.
LEMMA KindAnswers ==
  ASSUME Basic, NEW k, AccessPool(k) \/ AccessResolved(k)
  PROVE  Answers(k)
<1>1. /\ TypeOK /\ stack # <<>> /\ stack' = <<Rest(k)>> \o Tail(stack) /\ k \in top.left
      /\ k \in Pool \cup Resolved
  BY DEF Basic, AccessPool, AccessResolved, Accesses, Resolved
<1>2. /\ Frames' = Frames /\ stack'[1] = Rest(k)
      /\ \A n \in Frames \ {1} : stack'[n] = stack[n]
  BY <1>1, StackAccess
<1>3. \A d \in Todo : Kept(work[d], work'[d])
  BY <1>1, ItemAccessPool, ItemAccessResolved
<1>4. Made' = Made /\ Resolved' = Resolved
  BY <1>3 DEF Kept, Made, Resolved
<1> QED BY <1>1, <1>2, <1>4 DEF Answers

\* Accesses to other items call a callback.
LEMMA KindCalls ==
  ASSUME Basic, NEW k, AccessCreated(k) \/ AccessInvalid(k)
  PROVE  \E call \in {"create", "resolve"} : Calls(k, call)
<1>1. /\ TypeOK /\ ItemInv /\ stack # <<>> /\ k \in top.left /\ k \in Todo \ Resolved
  BY DEF Basic, AccessCreated, AccessInvalid, Accesses, Resolved
<1>2. CASE AccessInvalid(k)
  <2>1. do_callback(k, <<Rest(k)>> \o Tail(stack))
    BY <1>2 DEF AccessInvalid
  <2>2. stack' = <<CreateFrame(k)>> \o (<<Rest(k)>> \o Tail(stack))
    BY <2>1 DEF do_callback, CreateFrame
  <2>3. /\ Called(k, "create") /\ stack'[1] = NewFrame(k, "create")
        /\ \A n \in Frames : stack'[n + 1] = IF n = 1 THEN Rest(k) ELSE stack[n]
    <3> DEFINE f == CreateFrame(k)
    <3>1. f \in Frame /\ f.work = k /\ f.call = "create" /\ NewFrame(k, "create") = f
      BY <1>1, NewFrames DEF NewFrame
    <3> HIDE DEF f
    <3>2. /\ Called(f.work, f.call) /\ stack'[1] = f
          /\ \A n \in Frames : stack'[n + 1] = IF n = 1 THEN Rest(k) ELSE stack[n]
      BY <1>1, <2>2, <3>1, StackFromAccess DEF f
    <3> QED BY <3>1, <3>2
  <2>4. \A e \in Todo : work'[e].condition = work[e].condition /\ work'[e].state = work[e].state
    BY <1>1, <2>1, ItemCallback
  <2>5. Made' = Made /\ Resolved' = Resolved
    BY <2>4 DEF Made, Resolved
  <2> QED BY <1>1, <2>3, <2>5 DEF Calls
<1>3. CASE AccessCreated(k)
  <2>1. work[k].state = "CREATED" /\ startResolve(k, <<Rest(k)>> \o Tail(stack))
    BY <1>3 DEF AccessCreated
  <2>2. stack' = <<ResolveFrame(k)>> \o (<<Rest(k)>> \o Tail(stack))
    BY <2>1 DEF startResolve, ResolveFrame
  <2>3. /\ Called(k, "resolve") /\ stack'[1] = NewFrame(k, "resolve")
        /\ \A n \in Frames : stack'[n + 1] = IF n = 1 THEN Rest(k) ELSE stack[n]
    <3> DEFINE f == ResolveFrame(k)
    <3>1. f \in Frame /\ f.work = k /\ f.call = "resolve" /\ NewFrame(k, "resolve") = f
      BY <1>1, NewFrames DEF NewFrame
    <3> HIDE DEF f
    <3>2. /\ Called(f.work, f.call) /\ stack'[1] = f
          /\ \A n \in Frames : stack'[n + 1] = IF n = 1 THEN Rest(k) ELSE stack[n]
      BY <1>1, <2>2, <3>1, StackFromAccess DEF f
    <3> QED BY <3>1, <3>2
  <2>4. /\ \A e \in Todo : /\ work'[e].condition = work[e].condition
                           /\ e # k => work'[e] = work[e]
        /\ work'[k].state = "RESOLVED"
    BY <1>1, <2>1, ItemResolve
  <2>5. Made' = Made /\ Resolved' = Resolved \cup {k}
    BY <1>1, <2>4 DEF Made, Resolved
  <2>6. k \in Made
    BY <1>1, <2>1 DEF ItemInv
  <2> QED BY <1>1, <2>3, <2>5, <2>6 DEF Calls
<1> QED BY <1>2, <1>3

\* The loops call a callback for the items that need it.
LEMMA KindBegins ==
  ASSUME Basic, NEW d \in Todo, ComputeNext(d) \/ ResolveNext(d)
  PROVE  Rests \/ \E call \in {"create", "resolve"} : Begins(d, call)
<1>1. TypeOK /\ PassInv /\ stack = <<>>
  BY DEF Basic, ComputeNext, ResolveNext, Visit, Idle
<1>2. ASSUME NEW call \in {"create", "resolve"}, Called(d, call)
      PROVE  Frames' = {1}
  <2>1. Frames = {}
    BY <1>1 DEF Frames
  <2> QED BY <1>2, <2>1 DEF Called
<1>3. CASE ~work[d].condition /\ do_callback(d, <<>>)
  <2>1. stack' = <<CreateFrame(d)>> \o <<>>
    BY <1>3 DEF do_callback, CreateFrame
  <2>2. Called(d, "create") /\ stack'[1] = NewFrame(d, "create")
    BY <1>1, <2>1, NewFrames, StackFromLoop DEF NewFrame
  <2>3. \A e \in Todo : work'[e].condition = work[e].condition /\ work'[e].state = work[e].state
    BY <1>1, <1>3, ItemCallback
  <2>4. Made' = Made /\ Resolved' = Resolved
    BY <2>3 DEF Made, Resolved
  <2>5. d \notin Resolved
    BY <1>3 DEF Basic, ItemInv, Made, Resolved
  <2> QED BY <1>1, <1>2, <2>2, <2>4, <2>5 DEF Begins
<1>4. CASE pass = "resolve" /\ work[d].state # "RESOLVED" /\ startResolve(d, <<>>)
  <2>1. stack' = <<ResolveFrame(d)>> \o <<>>
    BY <1>4 DEF startResolve, ResolveFrame
  <2>2. Called(d, "resolve") /\ stack'[1] = NewFrame(d, "resolve")
    BY <1>1, <2>1, NewFrames, StackFromLoop DEF NewFrame
  <2>3. /\ \A e \in Todo : /\ work'[e].condition = work[e].condition
                           /\ e # d => work'[e] = work[e]
        /\ work'[d].state = "RESOLVED"
    BY <1>1, <1>4, ItemResolve
  <2>4. Made' = Made /\ Resolved' = Resolved \cup {d} /\ d \in Made /\ d \notin Resolved
    BY <1>1, <1>4, <2>3 DEF Made, Resolved, PassInv
  <2> QED BY <1>1, <1>2, <2>2, <2>4 DEF Begins
<1> QED BY <1>3, <1>4 DEF ComputeNext, ResolveNext, Rests

\* Returns, but for that of a creation to an access.
LEMMA KindEnds ==
  ASSUME Basic, CreateReturns \/ ResolveReturns \/ ResolveReturnsToGet
  PROVE  Ends
<1>1. /\ TypeOK /\ stack # <<>> /\ top.left = {}
      /\ \/ Len(stack) = 1 /\ stack' = <<>>
         \/ stack' = Tail(stack)
      /\ CreateReturns => top.call = "create" /\ Len(stack) = 1
      /\ ResolveReturns \/ ResolveReturnsToGet => top.call = "resolve"
  BY DEF Basic, CreateReturns, ResolveReturns, ResolveReturnsToGet, Returns
<1>2. Returned /\ \A n \in Frames' : stack'[n] = stack[n + 1]
  BY <1>1, StackReturn
<1>3. CASE CreateReturns
  <2>1. /\ \A d \in Todo \ {current} : work'[d] = work[d]
        /\ work'[current].condition /\ work'[current].state = "CREATED"
    BY <1>3, ItemCreateReturns
  <2>2. current \in Todo /\ work[current].state = "INVALID"
    BY <1>1, <1>3, RunningFacts
  <2>3. Made' = Made \cup {current} /\ Resolved' = Resolved
    BY <2>1, <2>2 DEF Made, Resolved
  <2> QED BY <1>1, <1>2, <1>3, <2>3 DEF Ends
<1>4. CASE ResolveReturns \/ ResolveReturnsToGet
  <2>1. \A d \in Todo : Kept(work[d], work'[d])
    BY <1>4, ItemResolveReturns, ItemResolveReturnsToGet
  <2>2. Made' = Made /\ Resolved' = Resolved
    BY <2>1 DEF Made, Resolved, Kept
  <2> QED BY <1>1, <1>2, <1>4, <2>2 DEF Ends
<1> QED BY <1>3, <1>4

\* The return of a creation to an access.
LEMMA KindTurns ==
  ASSUME Basic, CreateReturnsToGet
  PROVE  Turns
<1>1. /\ TypeOK /\ stack # <<>> /\ top.left = {} /\ top.call = "create"
      /\ stack' = <<ResolveFrame(current)>> \o Tail(stack)
  BY DEF Basic, CreateReturnsToGet, Returns, ResolveFrame
<1>2. /\ current \in Todo
      /\ \A d \in Todo \ {current} : Kept(work[d], work'[d])
      /\ work'[current].condition /\ work'[current].state = "RESOLVED"
  BY ItemCreateReturnsToGet
<1>3. /\ Resolving /\ stack'[1] = ResolveFrame(current)
      /\ \A n \in Frames \ {1} : stack'[n] = stack[n]
  BY <1>1, <1>2, NewFrames, StackResolve
<1>4. Made' = Made \cup {current} /\ Resolved' = Resolved \cup {current}
  BY <1>2 DEF Made, Resolved, Kept
<1> QED BY <1>1, <1>3, <1>4 DEF Turns

\* A step is of one of these kinds.
LEMMA Kinds ==
  ASSUME Basic, [Next]_vars
  PROVE  /\ graph' = graph
         /\ \/ Rests
            \/ \E k \in Access : Answers(k)
            \/ \E k \in Access, call \in {"create", "resolve"} : Calls(k, call)
            \/ \E d \in Todo, call \in {"create", "resolve"} : Begins(d, call)
            \/ Ends
            \/ Turns
<1>1. CASE UNCHANGED vars \/ ComputeDone \/ Register
  BY <1>1 DEF vars, ComputeDone, Register, Rests
<1>2. ASSUME NEW d \in Todo, ComputeNext(d) \/ ResolveNext(d)
      PROVE  graph' = graph /\ (Rests \/ \E call \in {"create", "resolve"} : Begins(d, call))
  BY <1>2, KindBegins DEF ComputeNext, ResolveNext, Visit
<1>3. ASSUME NEW k \in Access, AccessPool(k) \/ AccessResolved(k)
      PROVE  graph' = graph /\ Answers(k)
  BY <1>3, KindAnswers DEF AccessPool, AccessResolved
<1>4. ASSUME NEW k \in Access, AccessCreated(k) \/ AccessInvalid(k)
      PROVE  graph' = graph /\ \E call \in {"create", "resolve"} : Calls(k, call)
  BY <1>4, KindCalls DEF AccessCreated, AccessInvalid
<1>5. ASSUME NEW k \in Access, AccessLoops(k) \/ AccessUnknown(k)
      PROVE  graph' = graph /\ Rests
  BY <1>5 DEF AccessLoops, AccessUnknown, Throw, Rests
<1>6. CASE CreateReturns \/ ResolveReturns \/ ResolveReturnsToGet
  BY <1>6, KindEnds DEF CreateReturns, ResolveReturns, ResolveReturnsToGet
<1>7. CASE CreateReturnsToGet
  BY <1>7, KindTurns DEF CreateReturnsToGet
<1> QED BY <1>1, <1>2, <1>3, <1>4, <1>5, <1>6, <1>7 DEF Next

-----------------------------------------------------------------------------
(***************************************************************************)
(* What the callbacks in progress have accessed.                           *)
(***************************************************************************)
Known == Pool \cup Made

\* What a callback has accessed is known, but for the access that is answered
\* by the callback next to it on the stack.
FrameInv ==
  /\ \A n \in Frames : stack[n].left \subseteq Does(graph, stack[n])
  /\ \A n \in Frames : \A k \in Does(graph, stack[n]) \ stack[n].left :
       k \in Known \/ \E m \in Frames : n = m + 1 /\ k = stack[m].work
  /\ \A m \in Frames : m + 1 \in Frames => stack[m].work \in Does(graph, stack[m + 1])

\* What a created item accessed at creation is known, and so is what a resolved
\* item accessed at resolve, unless it is still about it.
MadeInv ==
  /\ \A d \in Made : graph.create[d] \subseteq Known
  /\ \A d \in Resolved : \/ graph.resolve[d] \subseteq Known
                         \/ \E n \in Frames : stack[n].work = d
  /\ \A S \in SUBSET Made : S # {} => ~Circular(S, graph.create)

\* A callback that begins has everything to do; an access takes one thing off.
LEMMA DoesFacts ==
  ASSUME Basic
  PROVE  /\ stack # <<>> => \A k : /\ Does(graph, Rest(k)) = Does(graph, top) /\ Rest(k).work = current
                                   /\ Rest(k).left = top.left \ {k} /\ Rest(k).call = top.call
         /\ \A d \in Todo, call \in {"create", "resolve"} :
              /\ NewFrame(d, call).work = d /\ NewFrame(d, call).call = call
              /\ NewFrame(d, call).left = Does(graph, NewFrame(d, call))
              /\ Does(graph, NewFrame(d, call)) =
                   IF call = "create" THEN graph.create[d] ELSE graph.resolve[d]
<1>1. TypeOK
  BY DEF Basic
<1>2. stack # <<>> => \A k : /\ Does(graph, Rest(k)) = Does(graph, top) /\ Rest(k).work = current
                             /\ Rest(k).left = top.left \ {k} /\ Rest(k).call = top.call
  BY <1>1, RunningTyped DEF Does, current
<1>3. ASSUME NEW d \in Todo, NEW call \in {"create", "resolve"}
      PROVE  /\ NewFrame(d, call).work = d /\ NewFrame(d, call).call = call
             /\ NewFrame(d, call).left = Does(graph, NewFrame(d, call))
             /\ Does(graph, NewFrame(d, call)) =
                  IF call = "create" THEN graph.create[d] ELSE graph.resolve[d]
  BY <1>1, <1>3, NewFrames DEF NewFrame, Does
<1> QED BY <1>2, <1>3

\* Frames are numbered by integers.
LEMMA FrameNumbers == \A n \in Frames : n \in Int
BY DEF Frames

\* What was answered at once is known.
LEMMA FrameAnswers ==
  ASSUME Basic, FrameInv, graph' = graph, NEW k, Answers(k)
  PROVE  FrameInv'
<1>1. /\ Frames' = Frames /\ 1 \in Frames /\ stack[1] = top /\ Known' = Known /\ k \in Known
      /\ stack'[1] = Rest(k) /\ \A n \in Frames \ {1} : stack'[n] = stack[n]
  <2>1. Resolved \subseteq Made
    BY DEF Basic, ItemInv, Resolved, Made
  <2> QED BY <2>1, RunningFacts DEF Answers, Known, top, Frames
<1>2. /\ Does(graph, Rest(k)) = Does(graph, top) /\ Rest(k).work = stack[1].work
      /\ Rest(k).left = top.left \ {k}
  BY DoesFacts, RunningFacts DEF Answers
<1>3. \A n \in Frames : /\ Does(graph', stack'[n]) = Does(graph, stack[n])
                        /\ stack'[n].work = stack[n].work
                        /\ stack'[n].left \subseteq stack[n].left
                        /\ stack[n].left \subseteq stack'[n].left \cup {k}
  <2>1. ASSUME NEW n \in Frames, n # 1
        PROVE  stack'[n] = stack[n]
    BY <1>1, <2>1
  <2> QED BY <1>1, <1>2, <2>1
<1> QED BY <1>1, <1>3 DEF FrameInv

\* What is not answered yet is the work of the new callback.
LEMMA FrameCalls ==
  ASSUME Basic, FrameInv, graph' = graph, NEW k, NEW call \in {"create", "resolve"}, Calls(k, call)
  PROVE  FrameInv'
<1> DEFINE f == NewFrame(k, call)
<1>1. /\ stack # <<>> /\ k \in top.left /\ k \in Todo /\ Called(k, call) /\ stack'[1] = f
      /\ \A n \in Frames : stack'[n + 1] = IF n = 1 THEN Rest(k) ELSE stack[n]
      /\ Known' = Known
  BY DEF Calls, Known
<1>2. 1 \in Frames /\ stack[1] = top /\ \A n \in Frames : n \in Int
  BY <1>1, RunningFacts DEF top
<1>3. f.work = k /\ f.left = Does(graph, f)
  BY <1>1, DoesFacts
<1>4. /\ Does(graph, Rest(k)) = Does(graph, top) /\ Rest(k).work = stack[1].work
      /\ Rest(k).left = top.left \ {k}
  BY <1>1, DoesFacts, RunningFacts
<1> HIDE DEF f
<1>5. /\ \A n \in Frames : n + 1 \in Frames'
      /\ \A n \in Frames' : n \in Int /\ (n = 1 \/ n - 1 \in Frames)
      /\ 1 \in Frames'
  BY <1>1 DEF Called, Frames
<1>6. ASSUME NEW n \in Frames', n # 1
      PROVE  /\ n - 1 \in Frames
             /\ stack'[n] = IF n - 1 = 1 THEN Rest(k) ELSE stack[n - 1]
             /\ Does(graph', stack'[n]) = Does(graph, stack[n - 1])
             /\ stack'[n].work = stack[n - 1].work
             /\ stack'[n].left \subseteq stack[n - 1].left
             /\ stack[n - 1].left \subseteq stack'[n].left \cup {k}
             /\ n - 1 # 1 => stack'[n].left = stack[n - 1].left
  <2>1. n - 1 \in Frames /\ (n - 1) + 1 = n
    BY <1>5, <1>6
  <2>2. stack'[n] = IF n - 1 = 1 THEN Rest(k) ELSE stack[n - 1]
    BY <1>1, <2>1
  <2> QED BY <1>2, <1>4, <2>1, <2>2
<1>7. ASSUME NEW n \in Frames'
      PROVE  stack'[n].left \subseteq Does(graph', stack'[n])
  BY <1>1, <1>3, <1>6 DEF FrameInv
<1>8. ASSUME NEW n \in Frames', NEW x \in Does(graph', stack'[n]) \ stack'[n].left
      PROVE  x \in Known' \/ \E m \in Frames' : n = m + 1 /\ x = stack'[m].work
  <2>1. n # 1
    BY <1>1, <1>3, <1>8
  <2>2. CASE x \in Does(graph, stack[n - 1]) \ stack[n - 1].left
    <3>1. x \in Known \/ \E m \in Frames : n - 1 = m + 1 /\ x = stack[m].work
      BY <1>6, <2>1, <2>2 DEF FrameInv
    <3>2. ASSUME NEW m \in Frames, n - 1 = m + 1, x = stack[m].work
          PROVE  m + 1 \in Frames' /\ n = (m + 1) + 1 /\ x = stack'[m + 1].work
      <4>1. m + 1 \in Frames' /\ n = (m + 1) + 1 /\ m + 1 # 1 /\ (m + 1) - 1 = m
        BY <1>2, <1>5, <3>2, FrameNumbers DEF Frames
      <4> QED BY <1>6, <3>2, <4>1
    <3> QED BY <1>1, <3>1, <3>2
  <2>3. CASE x \in stack[n - 1].left
    <3>1. n - 1 = 1 /\ x = k
      BY <1>6, <1>8, <2>1, <2>3
    <3>2. n = 1 + 1
      BY <1>5, <3>1
    <3> QED BY <1>1, <1>3, <1>5, <3>1, <3>2
  <2> QED BY <1>6, <1>8, <2>1, <2>2, <2>3
<1>9. ASSUME NEW m \in Frames', m + 1 \in Frames'
      PROVE  stack'[m].work \in Does(graph', stack'[m + 1])
  <2>1. m + 1 # 1 /\ (m + 1) - 1 = m
    BY <1>5 DEF Frames
  <2>2. m \in Frames /\ Does(graph', stack'[m + 1]) = Does(graph, stack[m])
    BY <1>6, <1>9, <2>1
  <2>3. CASE m = 1
    BY <1>1, <1>2, <1>3, <2>2, <2>3 DEF FrameInv
  <2>4. CASE m # 1
    <3>1. m - 1 \in Frames /\ stack'[m].work = stack[m - 1].work /\ (m - 1) + 1 = m
      BY <1>6, <2>4, <1>5
    <3> QED BY <2>2, <3>1 DEF FrameInv
  <2> QED BY <2>3, <2>4
<1> QED BY <1>7, <1>8, <1>9 DEF FrameInv

\* A callback that begins has accessed nothing.
LEMMA FrameBegins ==
  ASSUME Basic, graph' = graph, NEW d, NEW call, Begins(d, call)
  PROVE  FrameInv'
<1>1. Frames' = {1} /\ stack'[1].left = Does(graph', stack'[1])
  BY DoesFacts DEF Begins
<1>2. \A m \in Frames' : m + 1 \notin Frames'
  BY <1>1
<1> QED BY <1>1, <1>2 DEF FrameInv

\* The item of a callback that returns is known.
LEMMA FrameEnds ==
  ASSUME Basic, FrameInv, graph' = graph, Ends
  PROVE  FrameInv'
<1>1. /\ stack # <<>> /\ \A n \in Frames' : n + 1 \in Frames /\ stack'[n] = stack[n + 1]
      /\ \A n \in Frames : n = 1 \/ n - 1 \in Frames'
      /\ Known \subseteq Known' /\ (top.call = "create" => current \in Known')
  BY DEF Ends, Returned, Known
<1>2. current = stack[1].work /\ current \in Known' /\ \A n \in Frames \cup Frames' : n \in Int
  BY <1>1, RunningFacts, RunningTyped DEF Basic, Frame, Known, Frames
<1>3. ASSUME NEW n \in Frames'
      PROVE  stack'[n].left \subseteq Does(graph', stack'[n])
  BY <1>1 DEF FrameInv
<1>4. ASSUME NEW n \in Frames', NEW x \in Does(graph', stack'[n]) \ stack'[n].left
      PROVE  x \in Known' \/ \E m \in Frames' : n = m + 1 /\ x = stack'[m].work
  <2>1. x \in Known \/ \E m \in Frames : n + 1 = m + 1 /\ x = stack[m].work
    BY <1>1, <1>4 DEF FrameInv
  <2>2. ASSUME NEW m \in Frames, n + 1 = m + 1, x = stack[m].work
        PROVE  x \in Known' \/ \E l \in Frames' : n = l + 1 /\ x = stack'[l].work
    <3>1. m = n
      BY <1>2, <2>2
    <3>2. CASE n = 1
      BY <1>2, <2>2, <3>1, <3>2
    <3>3. CASE n # 1
      <4>1. n - 1 \in Frames' /\ n = (n - 1) + 1
        BY <1>1, <1>2, <3>1, <3>3
      <4>2. stack'[n - 1] = stack[n]
        BY <1>1, <4>1
      <4> QED BY <2>2, <3>1, <4>1, <4>2
    <3> QED BY <3>2, <3>3
  <2> QED BY <1>1, <2>1, <2>2
<1>5. ASSUME NEW m \in Frames', m + 1 \in Frames'
      PROVE  stack'[m].work \in Does(graph', stack'[m + 1])
  BY <1>1, <1>5 DEF FrameInv
<1> QED BY <1>3, <1>4, <1>5 DEF FrameInv

\* A created item is known; its resolution has accessed nothing.
LEMMA FrameTurns ==
  ASSUME Basic, FrameInv, graph' = graph, Turns
  PROVE  FrameInv'
<1>1. /\ Frames' = Frames /\ stack'[1] = NewFrame(current, "resolve")
      /\ \A n \in Frames \ {1} : stack'[n] = stack[n]
      /\ Known \subseteq Known' /\ current \in Todo /\ current = stack[1].work
  BY RunningFacts DEF Turns, Resolving, Known, NewFrame
<1>2. /\ stack'[1].left = Does(graph', stack'[1]) /\ stack'[1].work = stack[1].work
  BY <1>1, DoesFacts
<1>3. \A n \in Frames : stack'[n].work = stack[n].work
  BY <1>1, <1>2
<1>4. ASSUME NEW n \in Frames'
      PROVE  stack'[n].left \subseteq Does(graph', stack'[n])
  BY <1>1, <1>2 DEF FrameInv
<1>5. ASSUME NEW n \in Frames', NEW x \in Does(graph', stack'[n]) \ stack'[n].left
      PROVE  x \in Known' \/ \E m \in Frames' : n = m + 1 /\ x = stack'[m].work
  BY <1>1, <1>2, <1>3, <1>5 DEF FrameInv
<1>6. ASSUME NEW m \in Frames', m + 1 \in Frames'
      PROVE  stack'[m].work \in Does(graph', stack'[m + 1])
  <2>1. m + 1 # 1
    BY <1>1, FrameNumbers DEF Frames
  <2> QED BY <1>1, <1>3, <1>6, <2>1 DEF FrameInv
<1> QED BY <1>4, <1>5, <1>6 DEF FrameInv

\* Every step keeps the invariant of the frames.
LEMMA FrameNext ==
  ASSUME Basic, FrameInv, [Next]_vars
  PROVE  FrameInv'
<1>1. CASE Rests
  <2>1. graph' = graph /\ stack' = stack /\ work' = work
    BY <1>1, Kinds DEF Rests
  <2> QED BY <2>1 DEF FrameInv, Frames, Known, Made
<1> QED BY <1>1, Kinds, FrameAnswers, FrameCalls, FrameBegins, FrameEnds, FrameTurns

\* A new created item closes no circle: nothing that was created depends on it.
LEMMA NoCircle ==
  ASSUME NEW M, NEW c \in Todo, c \notin M, NEW access, NEW P, c \notin P,
         M \subseteq Todo, \A x \in P : x \notin Todo,
         \A d \in M \cup {c} : access[d] \subseteq P \cup M,
         \A S \in SUBSET M : S # {} => ~Circular(S, access)
  PROVE  \A S \in SUBSET (M \cup {c}) : S # {} => ~Circular(S, access)
<1> SUFFICES ASSUME NEW S \in SUBSET (M \cup {c}), S # {}, Circular(S, access)
             PROVE  FALSE
  OBVIOUS
<1>1. \A d \in S : \E e \in access[d] \cap S : e \in M /\ e # c
  <2>1. ASSUME NEW d \in S
        PROVE  \E e \in access[d] \cap S : e \in M /\ e # c
    <3>1. PICK e \in access[d] \cap S : TRUE
      BY DEF Circular
    <3> QED BY <3>1
  <2> QED BY <2>1
<1>2. S \ {c} # {} /\ S \ {c} \in SUBSET M
  BY <1>1
<1>3. Circular(S \ {c}, access)
  BY <1>1 DEF Circular
<1> QED BY <1>2, <1>3

\* Every step keeps the invariant of the created items.
LEMMA MadeNext ==
  ASSUME Basic, FrameInv, MadeInv, [Next]_vars
  PROVE  MadeInv'
<1>0. graph' = graph
  BY Kinds
<1>1. CASE Rests
  BY <1>0, <1>1 DEF MadeInv, Rests, Known, Made, Resolved, Frames
<1>2. ASSUME Made' = Made, \A d \in Resolved' : d \in Resolved \/ \E n \in Frames' : stack'[n].work = d,
             \A d \in Todo : (\E n \in Frames : stack[n].work = d) =>
                graph.resolve[d] \subseteq Known \/ d \notin Resolved \/ \E n \in Frames' : stack'[n].work = d
      PROVE  MadeInv'
  <2>1. Known' = Known /\ Resolved \subseteq Todo
    BY <1>2 DEF Known, Resolved
  <2> QED BY <1>0, <1>2, <2>1 DEF MadeInv
<1>3. ASSUME NEW k, Answers(k)
      PROVE  MadeInv'
  <2>1. Made' = Made /\ Resolved' = Resolved /\ Frames' = Frames
    BY <1>3 DEF Answers
  <2>2. \A n \in Frames : stack'[n].work = stack[n].work
    BY <1>3, DoesFacts, RunningFacts DEF Answers
  <2> QED BY <1>2, <2>1, <2>2
<1>4. ASSUME NEW k, NEW call \in {"create", "resolve"}, Calls(k, call)
      PROVE  MadeInv'
  <2>1. Made' = Made /\ \A d \in Resolved' : d \in Resolved \/ \E n \in Frames' : stack'[n].work = d
    BY <1>4 DEF Calls, Called
  <2>2. \A n \in Frames : n + 1 \in Frames' /\ stack'[n + 1].work = stack[n].work
    BY <1>4 DEF Calls, Called, Stays
  <2> QED BY <1>2, <2>1, <2>2
<1>5. ASSUME NEW d \in Todo, NEW call \in {"create", "resolve"}, Begins(d, call)
      PROVE  MadeInv'
  <2>1. Frames = {} /\ Frames' = {1} /\ stack'[1].work = d
    BY <1>5, DoesFacts DEF Begins, Frames
  <2>2. Made' = Made /\ \A e \in Resolved' : e \in Resolved \/ e = d
    BY <1>5 DEF Begins
  <2> QED BY <1>2, <2>1, <2>2
<1>6. ASSUME stack # <<>>, top.left = {}
      PROVE  \A x \in Does(graph, top) : x \in Known
  <2>1. stack[1] = top /\ 1 \in Frames /\ \A m \in Frames : 1 # m + 1
    BY <1>6, RunningFacts DEF top, Frames
  <2> QED BY <1>6, <2>1 DEF FrameInv
<1>7. ASSUME stack # <<>>, top.left = {}, top.call = "create"
      PROVE  /\ current \in Todo \ Made /\ graph.create[current] \subseteq Known
             /\ Made' = Made \cup {current} => /\ \A d \in Made' : graph.create[d] \subseteq Known
                                               /\ \A S \in SUBSET Made' : S # {} => ~Circular(S, graph.create)
  <2>1. current \in Todo \ Made /\ graph.create[current] \subseteq Known
    BY <1>6, <1>7, RunningFacts DEF Does, current
  <2>2. ASSUME Made' = Made \cup {current}
        PROVE  \A d \in Made' : graph.create[d] \subseteq Known
    BY <2>1, <2>2 DEF MadeInv
  <2>3. ASSUME Made' = Made \cup {current}
        PROVE  \A S \in SUBSET Made' : S # {} => ~Circular(S, graph.create)
    <3>1. Made \subseteq Todo /\ current \notin Pool /\ \A x \in Pool : x \notin Todo
      BY <2>1, HandlerAssumptions DEF Made
    <3>2. \A S \in SUBSET Made : S # {} => ~Circular(S, graph.create)
      BY DEF MadeInv
    <3>3. \A d \in Made \cup {current} : graph.create[d] \subseteq Pool \cup Made
      BY <2>2, <2>3 DEF Known
    <3> QED BY <2>1, <2>3, <3>1, <3>2, <3>3, NoCircle
  <2> QED BY <2>1, <2>2, <2>3
<1>8. CASE Ends
  <2>1. /\ stack # <<>> /\ top.left = {} /\ Resolved' = Resolved
        /\ Made' = IF top.call = "create" THEN Made \cup {current} ELSE Made
        /\ \A n \in Frames : n = 1 \/ (n - 1 \in Frames' /\ stack'[n - 1].work = stack[n].work)
    BY <1>8 DEF Ends, Returned, Stays
  <2>2. stack[1].work = current /\ \A n \in Frames : n = 1 => stack[n].work = current
    BY <2>1, RunningFacts
  <2>3. CASE top.call = "create"
    <3>1. Known \subseteq Known' /\ current \notin Resolved
      BY <2>1, <2>3, RunningFacts DEF Known, Resolved
    <3>2. \A d \in Resolved : (\E n \in Frames : stack[n].work = d) => \E n \in Frames' : stack'[n].work = d
      BY <2>1, <2>2, <3>1
    <3> QED BY <1>0, <1>7, <2>1, <2>3, <3>1, <3>2 DEF MadeInv
  <2>4. CASE top.call # "create"
    <3>1. graph.resolve[current] \subseteq Known
      BY <1>6, <2>1, <2>4 DEF Does, current
    <3> QED BY <1>2, <2>1, <2>2, <2>4, <3>1
  <2> QED BY <2>3, <2>4
<1>9. CASE Turns
  <2>1. /\ stack # <<>> /\ top.left = {} /\ top.call = "create" /\ Resolved' = Resolved \cup {current}
        /\ Made' = Made \cup {current} /\ Frames' = Frames
        /\ stack'[1].work = current /\ \A n \in Frames \ {1} : stack'[n] = stack[n]
    BY <1>9 DEF Turns, Resolving
  <2>2. 1 \in Frames /\ \A n \in Frames : stack'[n].work = stack[n].work
    BY <2>1, RunningFacts
  <2>3. Known \subseteq Known'
    BY <2>1 DEF Known
  <2> QED BY <1>0, <1>7, <2>1, <2>2, <2>3 DEF MadeInv
<1> QED BY <1>1, <1>3, <1>4, <1>5, <1>8, <1>9, Kinds

-----------------------------------------------------------------------------
(***************************************************************************)
(* The callbacks in progress depend on each other.                         *)
(***************************************************************************)
\* Reachable, of a given relation.
ReachableBy(access, d) ==
  {k \in Todo : \A S \in SUBSET (Item \cup Access) :
                  /\ access[d] \subseteq S
                  /\ \A e \in S \cap Todo : access[e] \subseteq S
                  => k \in S}

ReachInv ==
  \A m, n \in Frames : m < n => stack[m].work \in ReachableBy(accessed, stack[n].work)

\* It is the operator of the properties.
LEMMA ReachableIs ==
  ASSUME NEW d
  PROVE  Reachable(d) = ReachableBy(accessed, d)
BY DEF Reachable, ReachableBy, Closed

\* What a callback accesses it depends on, directly or through others.
LEMMA ReachableStep ==
  ASSUME NEW access, NEW d \in Todo, NEW k \in access[d] \cap Todo
  PROVE  /\ k \in ReachableBy(access, d)
         /\ \A e : d \in ReachableBy(access, e) => k \in ReachableBy(access, e)
<1>1. k \in ReachableBy(access, d)
  BY DEF ReachableBy
<1>2. ASSUME NEW e, d \in ReachableBy(access, e)
      PROVE  k \in ReachableBy(access, e)
  BY <1>2 DEF ReachableBy
<1> QED BY <1>1, <1>2

\* A callback accesses at creation and at resolve what its condition depends on.
LEMMA DoesAccessed ==
  ASSUME Basic, NEW n \in Frames
  PROVE  /\ stack[n].work \in Todo
         /\ Does(graph, stack[n]) \subseteq accessed[stack[n].work]
<1>1. stack[n] \in Frame
  BY DEF Basic, TypeOK, Frames
<1> QED BY <1>1 DEF Frame, Does, accessed

\* Every step keeps the dependence of the callbacks in progress.
LEMMA ReachNext ==
  ASSUME Basic, FrameInv, ReachInv, [Next]_vars
  PROVE  ReachInv'
<1>0. graph' = graph
  BY Kinds
<1>1. accessed' = accessed
  BY <1>0 DEF accessed
<1>2. SUFFICES ASSUME NEW m \in Frames', NEW n \in Frames', m < n
               PROVE  stack'[m].work \in ReachableBy(accessed, stack'[n].work)
  BY <1>1 DEF ReachInv
<1>3. CASE Frames' = Frames /\ \A l \in Frames : stack'[l].work = stack[l].work
  BY <1>2, <1>3 DEF ReachInv
<1>4. CASE Rests
  BY <1>3, <1>4 DEF Rests, Frames
<1>5. ASSUME NEW k, Answers(k)
      PROVE  Frames' = Frames /\ \A l \in Frames : stack'[l].work = stack[l].work
  BY <1>5, DoesFacts, RunningFacts DEF Answers
<1>6. ASSUME NEW k, NEW call \in {"create", "resolve"}, Calls(k, call)
      PROVE  stack'[m].work \in ReachableBy(accessed, stack'[n].work)
  <2>1. /\ stack'[1].work = k /\ k \in Todo /\ stack # <<>> /\ k \in top.left
        /\ \A l \in Frames' : l = 1 \/ (l - 1 \in Frames /\ stack'[l].work = stack[l - 1].work)
    BY <1>6 DEF Calls, Called, Stays
  <2>2. k \in accessed[current] /\ current \in Todo /\ 1 \in Frames /\ stack[1].work = current
    <3>1. 1 \in Frames /\ stack[1] = top /\ stack[1].work = current
      BY <2>1, RunningFacts DEF top
    <3> QED BY <2>1, <3>1, DoesAccessed DEF FrameInv
  <2>3. m \in Int /\ n \in Int /\ m >= 1 /\ n # 1
    BY <1>2 DEF Frames
  <2>4. CASE m = 1
    <3>1. n - 1 \in Frames /\ stack'[n].work = stack[n - 1].work
      BY <2>1, <2>3
    <3>2. n - 1 = 1 \/ 1 < n - 1
      BY <1>2, <2>3, <2>4
    <3>3. n - 1 # 1 => current \in ReachableBy(accessed, stack[n - 1].work)
      BY <2>2, <3>1, <3>2 DEF ReachInv
    <3> QED BY <2>1, <2>2, <2>4, <3>1, <3>3, ReachableStep
  <2>5. CASE m # 1
    <3>1. /\ n - 1 \in Frames /\ stack'[n].work = stack[n - 1].work
          /\ m - 1 \in Frames /\ stack'[m].work = stack[m - 1].work
          /\ m - 1 < n - 1
      BY <1>2, <2>1, <2>3, <2>5
    <3> QED BY <3>1 DEF ReachInv
  <2> QED BY <2>4, <2>5
<1>7. ASSUME NEW d \in Todo, NEW call \in {"create", "resolve"}, Begins(d, call)
      PROVE  FALSE
  BY <1>2, <1>7 DEF Begins
<1>8. CASE Ends
  <2>1. \A l \in Frames' : l + 1 \in Frames /\ stack'[l].work = stack[l + 1].work /\ l \in Int
    BY <1>8 DEF Ends, Returned, Stays, Frames
  <2>2. m + 1 < n + 1
    BY <1>2, <2>1
  <2> QED BY <2>1, <2>2 DEF ReachInv
<1>9. CASE Turns
  <2>1. Frames' = Frames /\ \A l \in Frames : stack'[l].work = stack[l].work
    BY <1>9, RunningFacts DEF Turns, Resolving, Stays
  <2> QED BY <1>3, <2>1
<1> QED BY <1>3, <1>4, <1>5, <1>6, <1>7, <1>8, <1>9, Kinds

\* The exceptions: the callback accesses something unknown, or an item whose
\* creation is in progress and which then depends on itself.
LEMMA Refuses ==
  ASSUME Basic, FrameInv, ReachInv, RefusesForCause, [Next]_vars
  PROVE  RefusesForCause'
<1> DEFINE Cause(g, acc) ==
      \/ \E d \in Todo : ~(acc[d] \subseteq Item)
      \/ \E d \in Todo : \E e \in g.create[d] \cap Todo : d \in ReachableBy(acc, e) \cup {e}
<1>0. graph' = graph
  BY Kinds
<1>1. accessed' = accessed
  BY <1>0 DEF accessed
<1>2. RefusesForCause <=> (pass = "failed" => Cause(graph, accessed))
  BY ReachableIs DEF RefusesForCause
<1>3. RefusesForCause' <=> (pass' = "failed" => Cause(graph', accessed'))
  BY ReachableIs DEF RefusesForCause, Reachable, ReachableBy, Closed
<1>4. SUFFICES ASSUME pass' = "failed", pass # "failed"
               PROVE  Cause(graph, accessed)
  BY <1>0, <1>1, <1>2, <1>3
<1>5. ASSUME NEW k \in Access, AccessUnknown(k)
      PROVE  Cause(graph, accessed)
  <2>1. stack # <<>> /\ k \in top.left /\ k \notin Item
    BY <1>5 DEF AccessUnknown, Accesses
  <2>2. 1 \in Frames /\ stack[1] = top /\ stack[1].work = current
    BY <2>1, RunningFacts DEF top
  <2>3. k \in accessed[current] /\ current \in Todo
    BY <2>1, <2>2, DoesAccessed DEF FrameInv
  <2> QED BY <2>1, <2>3
<1>6. ASSUME NEW k \in Access, AccessLoops(k)
      PROVE  Cause(graph, accessed)
  <2>1. /\ stack # <<>> /\ k \in top.left /\ k \in Todo
        /\ work[k].state = "INVALID" /\ work[k].callstack > 0
    BY <1>6 DEF AccessLoops, Accesses
  <2>2. PICK n \in Frames : stack[n].work = k
    BY <2>1 DEF Basic, ItemInv
  <2>3. stack[n].call = "create"
    <3>1. stack[n] \in Frame
      BY DEF Basic, TypeOK, Frames
    <3>2. stack[n].call \in {"create", "resolve"}
      BY <3>1 DEF Frame
    <3> QED BY <2>1, <2>2, <3>2 DEF Basic, StackInv
  <2>4. Does(graph, stack[n]) = graph.create[k]
    BY <2>2, <2>3 DEF Does
  <2>5. 1 \in Frames /\ stack[1] = top /\ stack[1].work = current
    BY <2>1, RunningFacts DEF top
  <2>6. k \in accessed[current] /\ current \in Todo
    BY <2>1, <2>5, DoesAccessed DEF FrameInv
  <2>7. CASE n = 1
    <3>1. k \in graph.create[k] \cap Todo
      BY <2>1, <2>4, <2>5, <2>7 DEF FrameInv
    <3> QED BY <2>1, <3>1
  <2>8. CASE n # 1
    <3>1. n - 1 \in Frames /\ (n - 1) + 1 = n /\ (n - 1 = 1 \/ 1 < n - 1)
      BY <2>8, FrameNumbers DEF Frames
    <3> DEFINE e == stack[n - 1].work
    <3>2. e \in graph.create[k] /\ e \in Todo
      BY <2>4, <3>1, RunningFacts, <2>1 DEF FrameInv
    <3>3. n - 1 # 1 => current \in ReachableBy(accessed, e)
      BY <2>5, <3>1 DEF ReachInv
    <3>4. n - 1 = 1 => current = e
      BY <2>5
    <3> HIDE DEF e
    <3>5. k \in ReachableBy(accessed, e)
      BY <2>1, <2>6, <3>3, <3>4, ReachableStep
    <3> QED BY <2>1, <3>2, <3>5
  <2> QED BY <2>7, <2>8
<1>7. \E k \in Access : AccessLoops(k) \/ AccessUnknown(k)
  BY <1>4 DEF vars, Next, ComputeNext, ResolveNext, Visit, ComputeDone, Register, AccessPool,
              AccessResolved, AccessCreated, AccessInvalid, CreateReturns, CreateReturnsToGet,
              ResolveReturns, ResolveReturnsToGet
<1> QED BY <1>5, <1>6, <1>7

\* The invariant of the accesses.
Accessing == FrameInv /\ MadeInv /\ ReachInv /\ RefusesForCause

\* At first nothing was accessed.
LEMMA AccessingInit ==
  ASSUME Init
  PROVE  Accessing
<1>1. Frames = {} /\ Made = {} /\ Resolved = {} /\ pass = "compute"
  BY DEF Init, Frames, Made, Resolved
<1> QED BY <1>1 DEF Accessing, FrameInv, MadeInv, ReachInv, RefusesForCause

\* The invariant of the accesses always holds.
LEMMA AccessingAlways == Spec => [](Basic /\ Accessing)
<1>1. Init => Basic /\ Accessing
  BY BasicInit, AccessingInit
<1>2. Basic /\ Accessing /\ [Next]_vars => Basic' /\ Accessing'
  BY BasicNext, FrameNext, MadeNext, ReachNext, Refuses DEF Accessing
<1> QED BY <1>1, <1>2, PTL DEF Spec

\* The handler throws for no other reason than an access to an unknown condition
\* or a creation that depends on itself, in whatever order the conditions are
\* visited: the call stacks of the items tell a recursion from a condition that
\* several others share.
THEOREM RefusesRightly == Spec => []RefusesForCause
<1>1. Basic /\ Accessing => RefusesForCause
  BY DEF Accessing
<1> QED BY <1>1, AccessingAlways, PTL

\* When the handler succeeds every access was to a known condition and no
\* creation depended on itself.
THEOREM DoneRightly == Spec => []DoneForCause
<1>1. ASSUME Basic, Accessing
      PROVE  DoneForCause
  <2> SUFFICES ASSUME pass = "done"
               PROVE  /\ \A d \in Todo : accessed[d] \subseteq Item
                      /\ ~ \E S \in (SUBSET Todo) \ {{}} : Circular(S, graph.create)
    BY DEF DoneForCause
  <2>1. Made = Todo /\ Resolved = Todo /\ Frames = {}
    BY <1>1 DEF Basic, PassInv, Resolved, Frames
  <2>2. \A d \in Todo : graph.create[d] \subseteq Item /\ graph.resolve[d] \subseteq Item
    BY <1>1, <2>1 DEF Accessing, MadeInv, Known, Item
  <2>3. \A d \in Todo : accessed[d] \subseteq Item
    BY <2>2 DEF accessed
  <2>4. ~ \E S \in (SUBSET Todo) \ {{}} : Circular(S, graph.create)
    BY <1>1, <2>1 DEF Accessing, MadeInv
  <2> QED BY <2>3, <2>4
<1> QED BY <1>1, AccessingAlways, PTL

-----------------------------------------------------------------------------
(***************************************************************************)
(* The IOVs: none is narrower than its ingredients make it.                *)
(***************************************************************************)
\* Ingredients and Exact, of a given relation.
IngredientsBy(access, d) ==
  {k \in Pool : \A S \in SUBSET (Item \cup Access) :
                  /\ d \in S
                  /\ \A e \in S \cap Todo : access[e] \subseteq S
                  => k \in S}

ExactBy(access, d) == Intersection({PoolIov[k] : k \in IngredientsBy(access, d)})

\* They are the operators of the properties.
LEMMA ExactIs ==
  ASSUME NEW d
  PROVE  Ingredients(d) = IngredientsBy(accessed, d) /\ Exact(d) = ExactBy(accessed, d)
BY DEF Ingredients, IngredientsBy, Exact, ExactBy, Closed

\* An intersection contains what both IOVs contain, and nothing else.
LEMMA IntersectionContains ==
  ASSUME NEW j \in Key, NEW k \in Key
  PROVE  /\ key_contains_range(j, iov_intersection(j, k))
         /\ key_contains_range(k, iov_intersection(j, k))
         /\ \A l \in Key : key_contains_range(j, l) /\ key_contains_range(k, l)
                             => key_contains_range(iov_intersection(j, k), l)
BY KeyLimits DEF key_contains_range, iov_intersection, Interval, Key, Key_value

\* key_forever contains every IOV, and every IOV itself.
LEMMA ForeverContains ==
  /\ key_forever \in Key
  /\ \A l \in Key : key_contains_range(key_forever, l)
  /\ \A l \in Key : key_contains_range(l, l)
BY KeyLimits DEF key_contains_range, key_forever, Interval, Key, Key_value

\* The exact IOV is within that of whatever the condition is made from.
LEMMA ExactWithin ==
  ASSUME NEW access, NEW d
  PROVE  /\ ExactBy(access, d) \in Key
         /\ \A k \in IngredientsBy(access, d) : key_contains_range(PoolIov[k], ExactBy(access, d))
         /\ \A l \in Key : (\A k \in IngredientsBy(access, d) : key_contains_range(PoolIov[k], l))
                             => key_contains_range(ExactBy(access, d), l)
<1> DEFINE S == {PoolIov[k] : k \in IngredientsBy(access, d)}
<1>1. S \in SUBSET Key
  BY HandlerAssumptions DEF IngredientsBy
<1>2. /\ Intersection(S) \in Key
      /\ \A k \in S : key_contains_range(k, Intersection(S))
      /\ \A l \in Key : (\A k \in S : key_contains_range(k, l)) => key_contains_range(Intersection(S), l)
  BY <1>1, IntersectionIsGreatest
<1>3. ExactBy(access, d) = Intersection(S)
  BY DEF ExactBy
<1> QED BY <1>2, <1>3

\* A condition has the ingredients of whatever it accesses.
LEMMA ExactStep ==
  ASSUME NEW access, NEW d \in Todo, access[d] \subseteq Item \cup Access, NEW k \in access[d]
  PROVE  /\ k \in Pool => key_contains_range(PoolIov[k], ExactBy(access, d))
         /\ k \in Todo => key_contains_range(ExactBy(access, k), ExactBy(access, d))
<1>1. k \in Pool => k \in IngredientsBy(access, d)
  BY DEF IngredientsBy
<1>2. IngredientsBy(access, k) \subseteq IngredientsBy(access, d)
  BY DEF IngredientsBy
<1> QED BY <1>1, <1>2, ExactWithin

WideInv ==
  \A d \in Todo : work[d].iov => key_contains_range(work[d]._iov, ExactBy(accessed, d))

\* The IOV an item has after it takes the one of a condition it accesses.
LEMMA WideTakes ==
  ASSUME NEW j \in Key, NEW k \in Key, NEW l \in Key,
         key_contains_range(j, l), key_contains_range(k, l)
  PROVE  /\ iov_intersection(j, k) \in Key /\ key_contains_range(iov_intersection(j, k), l)
         /\ key_contains_range(iov_intersection(iov_intersection(j, k), k), l)
<1>1. iov_intersection(j, k) \in Key /\ key_contains_range(iov_intersection(j, k), l)
  BY IntersectionTyped, IntersectionContains
<1> QED BY <1>1, IntersectionContains

\* The running callback accesses what its condition depends on, and the callback
\* below it on the stack the condition of the running one.
LEMMA Running ==
  ASSUME Basic, FrameInv, stack # <<>>
  PROVE  /\ \A k \in top.left : k \in accessed[current]
         /\ Len(stack) > 1 => current \in accessed[user]
<1>1. 1 \in Frames /\ stack[1] = top /\ stack[1].work = current
  BY RunningFacts DEF top
<1>2. \A k \in top.left : k \in accessed[current]
  BY <1>1, DoesAccessed DEF FrameInv
<1>3. ASSUME Len(stack) > 1
      PROVE  current \in accessed[user]
  <2>1. 2 \in Frames /\ 2 = 1 + 1
    BY <1>3, UserFacts
  <2>2. current \in Does(graph, stack[2])
    BY <1>1, <2>1 DEF FrameInv
  <2> QED BY <2>1, <2>2, DoesAccessed DEF user
<1> QED BY <1>2, <1>3

\* The items that take no IOV in a step keep theirs.
LEMMA IovsKept ==
  ASSUME Basic, [Next]_vars,
         ~ \E k \in Access : AccessPool(k) \/ AccessResolved(k),
         ~ (CreateReturns \/ CreateReturnsToGet \/ ResolveReturns \/ ResolveReturnsToGet)
  PROVE  \A d \in Todo : work'[d].iov = work[d].iov /\ work'[d]._iov = work[d]._iov
<1>0. TypeOK
  BY DEF Basic
<1>1. CASE work' = work
  BY <1>1
<1>2. ASSUME NEW d \in Todo, NEW below, do_callback(d, below) \/ startResolve(d, below)
      PROVE  \A e \in Todo : work'[e].iov = work[e].iov /\ work'[e]._iov = work[e]._iov
  BY <1>0, <1>2, ItemCallback, ItemResolve
<1>3. ASSUME NEW d \in Todo, ComputeNext(d) \/ ResolveNext(d)
      PROVE  work' = work \/ \E below : do_callback(d, below) \/ startResolve(d, below)
  BY <1>3 DEF ComputeNext, ResolveNext
<1>4. ASSUME NEW k \in Access, AccessCreated(k) \/ AccessInvalid(k)
      PROVE  k \in Todo /\ \E below : do_callback(k, below) \/ startResolve(k, below)
  BY <1>4 DEF AccessCreated, AccessInvalid
<1>5. ASSUME NEW k \in Access, AccessLoops(k) \/ AccessUnknown(k)
      PROVE  work' = work
  BY <1>5 DEF AccessLoops, AccessUnknown, Throw
<1>6. UNCHANGED vars \/ ComputeDone \/ Register => work' = work
  BY DEF vars, ComputeDone, Register
<1> QED BY <1>1, <1>2, <1>3, <1>4, <1>5, <1>6 DEF Next

\* Every step keeps the IOVs wide enough.
LEMMA WideNext ==
  ASSUME Basic, FrameInv, WideInv, [Next]_vars
  PROVE  WideInv'
<1>0. TypeOK /\ graph' = graph /\ accessed' = accessed
  BY Kinds DEF Basic, accessed
<1> DEFINE E(d) == ExactBy(accessed, d)
           W(d) == work'[d].iov => key_contains_range(work'[d]._iov, E(d))
<1>1. SUFFICES ASSUME NEW d \in Todo
               PROVE  W(d)
  BY <1>0 DEF WideInv
<1>2. \A e \in Todo : E(e) \in Key /\ work[e]._iov \in Key
  BY <1>0, ExactWithin DEF TypeOK, Work
<1>3. ASSUME NEW e \in Todo, NEW k \in accessed[e]
      PROVE  /\ k \in Pool => key_contains_range(PoolIov[k], E(e))
             /\ k \in Todo => key_contains_range(E(k), E(e))
  <2>1. accessed[e] \subseteq Item \cup Access
    BY <1>0, GraphTyped DEF TypeOK, accessed
  <2> QED BY <1>3, <2>1, ExactStep
<1>4. ASSUME NEW e \in Todo, NEW k \in accessed[e] \cap Todo, NEW l \in Key,
             key_contains_range(l, E(k))
      PROVE  key_contains_range(l, E(e))
  BY <1>2, <1>3, <1>4, ContainsTransitive
<1>5. \A e \in Todo : work[e].iov => key_contains_range(work[e]._iov, E(e))
  BY DEF WideInv
<1>6. CASE work'[d].iov = work[d].iov /\ work'[d]._iov = work[d]._iov
  BY <1>5, <1>6
<1>7. ASSUME NEW k \in Access, AccessPool(k)
      PROVE  W(d)
  <2>1. /\ PoolIov[k] \in Key /\ current \in Todo /\ stack # <<>>
        /\ \A e \in Todo \ {current} : work'[e] = work[e]
        /\ work'[current]._iov =
             iov_intersection(IF work[current].iov THEN iov_intersection(work[current]._iov, PoolIov[k])
                                                   ELSE PoolIov[k], PoolIov[k])
    BY <1>0, <1>7, ItemAccessPool
  <2>2. CASE d = current
    <3>1. k \in Pool /\ k \in accessed[current]
      BY <1>7, <2>1, Running DEF AccessPool, Accesses
    <3>2. key_contains_range(PoolIov[k], E(current))
      BY <1>3, <2>1, <3>1
    <3>3. CASE work[current].iov
      <4>1. key_contains_range(work[current]._iov, E(current)) /\ work[current]._iov \in Key /\ E(current) \in Key
        BY <1>2, <1>5, <2>1, <3>3
      <4> QED BY <2>1, <2>2, <3>2, <3>3, <4>1, WideTakes
    <3>4. CASE ~work[current].iov
      <4>1. E(current) \in Key
        BY <1>2, <2>1
      <4> QED BY <2>1, <2>2, <3>2, <3>4, <4>1, WideTakes
    <3> QED BY <3>3, <3>4
  <2>3. CASE d # current
    BY <1>6, <2>1, <2>3
  <2> QED BY <2>2, <2>3
<1>8. ASSUME NEW k \in Access, AccessResolved(k)
      PROVE  W(d)
  <2>1. /\ k \in Todo /\ work[k]._iov \in Key /\ current \in Todo /\ stack # <<>>
        /\ \A e \in Todo \ {current} : work'[e] = work[e]
        /\ work'[current].iov = work[current].iov
        /\ work'[current]._iov = iov_intersection(work[current]._iov, work[k]._iov)
    BY <1>0, <1>8, ItemAccessResolved
  <2>2. CASE d = current /\ work[current].iov
    <3>1. k \in accessed[current] /\ work[k].state = "RESOLVED"
      BY <1>8, <2>1, Running DEF AccessResolved, Accesses
    <3>2. work[k].iov
      BY <2>1, <3>1 DEF Basic, ItemInv
    <3>3. key_contains_range(work[k]._iov, E(current))
      BY <1>4, <1>5, <2>1, <3>1, <3>2
    <3> QED BY <1>2, <1>5, <2>1, <2>2, <3>3, WideTakes
  <2>3. CASE d # current
    BY <1>6, <2>1, <2>3
  <2> QED BY <2>1, <2>2, <2>3
<1>9. ASSUME NEW e \in Todo, stack # <<>>, top.call = "create", e = current
      PROVE  CreatedIov(e) \in Key /\ key_contains_range(CreatedIov(e), E(e))
  BY <1>2, <1>5, <1>9, ForeverContains DEF CreatedIov
<1>10. CASE CreateReturns
  <2>1. /\ stack # <<>> /\ top.call = "create" /\ current \in Todo
        /\ \A e \in Todo \ {current} : work'[e] = work[e]
        /\ work'[current]._iov = CreatedIov(current)
    BY <1>10, ItemCreateReturns
  <2> QED BY <1>6, <1>9, <2>1
<1>11. CASE CreateReturnsToGet
  <2>1. /\ stack # <<>> /\ top.call = "create" /\ current \in Todo /\ Len(stack) > 1
        /\ user \in Todo
        /\ \A e \in Todo \ {current, user} : work'[e] = work[e]
        /\ work'[current]._iov = CreatedIov(current)
        /\ work'[user]._iov = IF work[user].iov
                              THEN iov_intersection(work[user]._iov, CreatedIov(current))
                              ELSE CreatedIov(current)
    BY <1>11, ItemCreateReturnsToGet
  <2>2. CreatedIov(current) \in Key /\ key_contains_range(CreatedIov(current), E(current))
    BY <1>9, <2>1
  <2>3. key_contains_range(CreatedIov(current), E(user))
    BY <1>4, <2>1, <2>2, Running
  <2>4. CASE d = user
    BY <1>2, <1>5, <2>1, <2>2, <2>3, <2>4, WideTakes
  <2>5. CASE d # user
    BY <1>6, <2>1, <2>2, <2>5
  <2> QED BY <2>4, <2>5
<1>12. CASE ResolveReturns
  <2>1. /\ current \in Todo /\ \A e \in Todo \ {current} : work'[e] = work[e]
        /\ work[current].iov /\ work[current]._iov \in Key
        /\ work'[current]._iov = iov_intersection(work[current]._iov, work[current]._iov)
    BY <1>12, ItemResolveReturns
  <2>2. CASE d = current
    BY <1>2, <1>5, <2>1, <2>2, WideTakes
  <2>3. CASE d # current
    BY <1>6, <2>1, <2>3
  <2> QED BY <2>2, <2>3
<1>13. CASE ResolveReturnsToGet
  <2>1. /\ stack # <<>> /\ current \in Todo /\ Len(stack) > 1 /\ user \in Todo
        /\ \A e \in Todo \ {user} : work'[e] = work[e]
        /\ work[current].iov /\ work[current]._iov \in Key
        /\ work'[user]._iov =
             iov_intersection(IF work[user].iov THEN iov_intersection(work[user]._iov, work[current]._iov)
                                                ELSE work[current]._iov, work[current]._iov)
    BY <1>13, ItemResolveReturnsToGet
  <2>2. key_contains_range(work[current]._iov, E(user))
    BY <1>4, <1>5, <2>1, Running
  <2>3. CASE d = user
    <3>1. CASE work[user].iov
      <4>1. key_contains_range(work[user]._iov, E(user)) /\ work[user]._iov \in Key /\ E(user) \in Key
        BY <1>2, <1>5, <2>1, <3>1
      <4> QED BY <2>1, <2>2, <2>3, <3>1, <4>1, WideTakes
    <3>2. CASE ~work[user].iov
      <4>1. E(user) \in Key
        BY <1>2, <2>1
      <4> QED BY <2>1, <2>2, <2>3, <3>2, <4>1, WideTakes
    <3> QED BY <3>1, <3>2
  <2>4. CASE d # user
    BY <1>6, <2>1, <2>4
  <2> QED BY <2>3, <2>4
<1> QED BY <1>6, <1>7, <1>8, <1>10, <1>11, <1>12, <1>13, IovsKept

\* The registered IOVs are those of the items.
RegisteredInv ==
  /\ pass = "done" => registered = [d \in Todo |-> work[d]._iov]
  /\ pass # "done" => registered = <<>>

\* Nothing is registered before the end, and nothing changes after it.
LEMMA RegisteredNext ==
  ASSUME RegisteredInv, Basic, [Next]_vars
  PROVE  RegisteredInv'
<1>1. CASE Register
  BY <1>1 DEF Register, RegisteredInv
<1>2. CASE ~Register
  <2>1. pass = "done" => UNCHANGED vars
    BY <1>2 DEF Next, ComputeNext, ResolveNext, Visit, ComputeDone, Idle, Busy, AccessPool,
                AccessResolved, AccessCreated, AccessInvalid, AccessLoops, AccessUnknown, Accesses,
                CreateReturns, CreateReturnsToGet, ResolveReturns, ResolveReturnsToGet, Returns
  <2>2. registered' = registered /\ (pass' = "done" => pass = "done")
    BY <1>2 DEF vars, Next, ComputeNext, ResolveNext, Visit, ComputeDone, AccessPool,
                AccessResolved, AccessCreated, AccessInvalid, AccessLoops, AccessUnknown, Throw,
                CreateReturns, CreateReturnsToGet, ResolveReturns, ResolveReturnsToGet
  <2> QED BY <2>1, <2>2 DEF RegisteredInv, vars
<1> QED BY <1>1, <1>2

\* The IOVs are always wide enough.
LEMMA WideAlways == Spec => [](Basic /\ Accessing /\ WideInv /\ RegisteredInv)
<1>1. Init => Basic /\ Accessing /\ WideInv /\ RegisteredInv
  BY BasicInit, AccessingInit DEF Init, WideInv, RegisteredInv
<1>2. Basic /\ Accessing /\ WideInv /\ RegisteredInv /\ [Next]_vars
        => Basic' /\ Accessing' /\ WideInv' /\ RegisteredInv'
  BY BasicNext, FrameNext, MadeNext, ReachNext, Refuses, WideNext, RegisteredNext DEF Accessing
<1> QED BY <1>1, <1>2, PTL DEF Spec

\* Whatever the callbacks access, in either call, and however the conditions are
\* visited: a derived condition is registered with an IOV that contains all the
\* times at which its ingredients are valid.
THEOREM NeverNarrows == Spec => []NeverTooNarrow
<1>1. ASSUME Basic, WideInv, RegisteredInv
      PROVE  NeverTooNarrow
  <2> SUFFICES ASSUME NEW d \in DOMAIN registered
               PROVE  key_contains_range(registered[d], Exact(d))
    BY DEF NeverTooNarrow
  <2>1. d \in Todo /\ registered[d] = work[d]._iov /\ pass = "done"
    BY <1>1 DEF RegisteredInv
  <2>2. work[d].iov
    BY <1>1, <2>1 DEF Basic, PassInv, ItemInv
  <2> QED BY <1>1, <2>1, <2>2, ExactIs DEF WideInv
<1> QED BY <1>1, WideAlways, PTL

-----------------------------------------------------------------------------
(***************************************************************************)
(* The IOVs: callbacks that access derived conditions at resolve, and not  *)
(* mutually, get the exact one.                                            *)
(***************************************************************************)
Documented(g) ==
  /\ \A d \in Todo : g.create[d] \cap Todo = {}
  /\ ~ \E S \in (SUBSET Todo) \ {{}} : Circular(S, g.resolve)

\* The items whose IOV is final.
Finished == {d \in Resolved : \A n \in Frames : stack[n].work # d}

\* The IOV of d is within the one of k; w are the items, F the finished ones.
Took(w, F, d, k) ==
  /\ w[d].iov
  /\ \/ k \in Pool /\ key_contains_range(PoolIov[k], w[d]._iov)
     \/ k \in F /\ key_contains_range(w[k]._iov, w[d]._iov)

\* An item has taken the IOV of whatever it accessed, but for the access that is
\* answered by the callback next to it on the stack.
TookInv ==
  /\ \A d \in Made : \A k \in graph.create[d] : Took(work, Finished, d, k)
  /\ \A d \in Finished : \A k \in graph.resolve[d] : Took(work, Finished, d, k)
  /\ \A n \in Frames : \A k \in Does(graph, stack[n]) \ stack[n].left :
       \/ Took(work, Finished, stack[n].work, k)
       \/ \E m \in Frames : n = m + 1 /\ k = stack[m].work

\* No callback accesses a condition that is in progress: the conditions on the
\* stack would depend on each other in a circle.
LEMMA NotInProgress ==
  ASSUME Basic, FrameInv, Documented(graph), stack # <<>>, NEW k \in top.left \cap Todo
  PROVE  /\ top.call = "resolve"
         /\ \A n \in Frames : stack[n].work # k
<1>1. 1 \in Frames /\ stack[1] = top /\ stack[1].work = current
  BY RunningFacts DEF top
<1>2. ASSUME NEW n \in Frames, NEW x \in Does(graph, stack[n]) \cap Todo
      PROVE  /\ stack[n].work \in Todo /\ stack[n].call = "resolve"
             /\ x \in graph.resolve[stack[n].work]
  <2>1. stack[n] \in Frame
    BY DEF Basic, TypeOK, Frames
  <2>2. stack[n].work \in Todo /\ stack[n].call \in {"create", "resolve"}
    BY <2>1 DEF Frame
  <2>3. stack[n].call # "create"
    BY <2>2 DEF Does, Documented
  <2> QED BY <2>2, <2>3 DEF Does
<1>3. k \in Does(graph, stack[1])
  BY <1>1 DEF FrameInv
<1>4. ASSUME NEW n \in Frames, stack[n].work = k
      PROVE  FALSE
  <2> DEFINE S == {stack[m].work : m \in 1 .. n}
  <2>1. \A m \in 1 .. n : m \in Frames
    BY DEF Frames, Basic, TypeOK
  <2>2. n \in 1 .. n /\ n \in Int
    BY FrameNumbers DEF Frames
  <2>3. S # {} /\ S \in SUBSET Todo
    BY <2>1, <2>2, RunningFacts
  <2>4. ASSUME NEW m \in 1 .. n
        PROVE  graph.resolve[stack[m].work] \cap S # {}
    <3>1. CASE m = 1
      <4>1. k \in graph.resolve[stack[m].work]
        BY <1>1, <1>2, <1>3, <3>1
      <4>2. k \in S
        BY <1>4, <2>2
      <4> QED BY <4>1, <4>2
    <3>2. CASE m # 1
      <4>1. m - 1 \in 1 .. n /\ (m - 1) + 1 = m
        BY <3>2, <2>2
      <4>2. stack[m - 1].work \in Does(graph, stack[m]) /\ stack[m - 1].work \in Todo
        BY <2>1, <4>1, RunningFacts DEF FrameInv
      <4>3. stack[m - 1].work \in graph.resolve[stack[m].work]
        BY <1>2, <2>1, <4>2
      <4> QED BY <4>1, <4>3
    <3> QED BY <3>1, <3>2
  <2>5. Circular(S, graph.resolve)
    BY <2>4 DEF Circular
  <2> HIDE DEF S
  <2> QED BY <2>3, <2>5 DEF Documented
<1> QED BY <1>1, <1>2, <1>3, <1>4

\* An IOV an item has got only shrinks, and that of a finished item is final.
LEMMA IovsShrink ==
  ASSUME Basic, [Next]_vars
  PROVE  /\ \A d \in Todo : work[d].iov => /\ work'[d].iov
                                           /\ key_contains_range(work[d]._iov, work'[d]._iov)
         /\ \A d \in Finished : work'[d]._iov = work[d]._iov
<1> DEFINE P(d) == /\ work[d].iov => /\ work'[d].iov
                                     /\ key_contains_range(work[d]._iov, work'[d]._iov)
                   /\ d \in Finished => work'[d]._iov = work[d]._iov
<1>0. TypeOK
  BY DEF Basic
<1>1. SUFFICES ASSUME NEW d \in Todo
               PROVE  P(d)
  BY DEF Finished, Resolved
<1>2. work[d]._iov \in Key /\ key_contains_range(work[d]._iov, work[d]._iov)
  BY <1>0, ForeverContains DEF TypeOK, Work
<1>3. CASE work'[d].iov = work[d].iov /\ work'[d]._iov = work[d]._iov
  BY <1>2, <1>3
<1>4. stack # <<>> => current \notin Finished
  BY RunningFacts DEF Finished
<1>5. stack # <<>> /\ Len(stack) > 1 => user \notin Finished
  BY UserFacts DEF Finished, user
<1>6. ASSUME NEW j \in Key, NEW k \in Key
      PROVE  /\ key_contains_range(j, iov_intersection(j, k))
             /\ key_contains_range(j, iov_intersection(iov_intersection(j, k), k))
  <2>1. iov_intersection(j, k) \in Key /\ key_contains_range(j, iov_intersection(j, k))
    BY IntersectionTyped, IntersectionContains
  <2>2. /\ iov_intersection(iov_intersection(j, k), k) \in Key
        /\ key_contains_range(iov_intersection(j, k), iov_intersection(iov_intersection(j, k), k))
    BY <2>1, IntersectionTyped, IntersectionContains
  <2> QED BY <2>1, <2>2, ContainsTransitive
<1>7. ASSUME NEW k \in Access, AccessPool(k)
      PROVE  P(d)
  <2>1. /\ PoolIov[k] \in Key /\ stack # <<>>
        /\ \A e \in Todo \ {current} : work'[e] = work[e]
        /\ work'[current].iov
        /\ work'[current]._iov =
             iov_intersection(IF work[current].iov THEN iov_intersection(work[current]._iov, PoolIov[k])
                                                   ELSE PoolIov[k], PoolIov[k])
    BY <1>0, <1>7, ItemAccessPool
  <2> QED BY <1>2, <1>3, <1>4, <1>6, <2>1
<1>8. ASSUME NEW k \in Access, AccessResolved(k)
      PROVE  P(d)
  <2>1. /\ work[k]._iov \in Key /\ stack # <<>>
        /\ \A e \in Todo \ {current} : work'[e] = work[e]
        /\ work'[current].iov = work[current].iov
        /\ work'[current]._iov = iov_intersection(work[current]._iov, work[k]._iov)
    BY <1>0, <1>8, ItemAccessResolved
  <2> QED BY <1>2, <1>3, <1>4, <1>6, <2>1
<1>9. CASE CreateReturns
  <2>1. /\ stack # <<>> /\ \A e \in Todo \ {current} : work'[e] = work[e]
        /\ work'[current].iov /\ work'[current]._iov = CreatedIov(current)
    BY <1>9, ItemCreateReturns
  <2> QED BY <1>2, <1>3, <1>4, <2>1 DEF CreatedIov
<1>10. CASE CreateReturnsToGet
  <2>1. /\ stack # <<>> /\ top.call = "create" /\ Len(stack) > 1
        /\ \A e \in Todo \ {current, user} : work'[e] = work[e]
        /\ work'[current].iov /\ work'[current]._iov = CreatedIov(current)
        /\ work'[user].iov
        /\ work'[user]._iov = IF work[user].iov
                              THEN iov_intersection(work[user]._iov, CreatedIov(current))
                              ELSE CreatedIov(current)
    BY <1>10, ItemCreateReturnsToGet
  <2>2. CreatedIov(current) \in Key
    BY <2>1, ItemCreated
  <2>3. CASE d = user
    BY <1>2, <1>5, <1>6, <2>1, <2>2, <2>3
  <2>4. CASE d = current
    BY <1>2, <1>4, <2>1, <2>4 DEF CreatedIov
  <2>5. CASE d # user /\ d # current
    BY <1>3, <2>1, <2>5
  <2> QED BY <2>3, <2>4, <2>5
<1>11. CASE ResolveReturns
  <2>1. /\ stack # <<>> /\ \A e \in Todo \ {current} : work'[e] = work[e]
        /\ \A e \in Todo : Kept(work[e], work'[e])
        /\ work[current]._iov \in Key
        /\ work'[current]._iov = iov_intersection(work[current]._iov, work[current]._iov)
    BY <1>11, ItemResolveReturns
  <2> QED BY <1>2, <1>3, <1>4, <1>6, <2>1 DEF Kept
<1>12. CASE ResolveReturnsToGet
  <2>1. /\ stack # <<>> /\ Len(stack) > 1
        /\ \A e \in Todo \ {user} : work'[e] = work[e]
        /\ work[current]._iov \in Key
        /\ work'[user].iov
        /\ work'[user]._iov =
             iov_intersection(IF work[user].iov THEN iov_intersection(work[user]._iov, work[current]._iov)
                                                ELSE work[current]._iov, work[current]._iov)
    BY <1>12, ItemResolveReturnsToGet
  <2> QED BY <1>2, <1>3, <1>5, <1>6, <2>1
<1> QED BY <1>3, <1>7, <1>8, <1>9, <1>10, <1>11, <1>12, IovsKept

\* Finished items stay so; a resolution that ends finishes its item and no other.
LEMMA FinishedNext ==
  ASSUME Basic, [Next]_vars
  PROVE  /\ Finished \subseteq Finished'
         /\ \A d \in Finished' : d \in Finished \/ (Ends /\ top.call = "resolve" /\ d = current)
         /\ Ends /\ top.call = "resolve" => current \in Finished'
<1>1. CASE Ends
  <2>1. /\ stack # <<>> /\ Resolved' = Resolved
        /\ \A n \in Frames' : n + 1 \in Frames /\ stack'[n] = stack[n + 1] /\ n + 1 # 1
        /\ \A n \in Frames : n = 1 \/ (n - 1 \in Frames' /\ stack'[n - 1] = stack[n])
    <3>1. /\ stack # <<>> /\ Resolved' = Resolved
          /\ \A n \in Frames' : n + 1 \in Frames /\ stack'[n] = stack[n + 1]
          /\ \A n \in Frames : n = 1 \/ n - 1 \in Frames'
      BY <1>1 DEF Ends, Returned
    <3>2. \A n \in Frames' : n + 1 # 1
      BY DEF Frames
    <3>3. \A n \in Frames : (n - 1) + 1 = n
      BY DEF Frames
    <3> QED BY <3>1, <3>2, <3>3
  <2>2. /\ current \in Todo /\ \A n \in Frames : stack[n].work = current => n = 1
        /\ stack[1].work = current
        /\ top.call = "resolve" => current \in Resolved
        /\ top.call = "create" => current \notin Resolved
        /\ top.call \in {"create", "resolve"}
    BY <2>1, RunningFacts, RunningTyped DEF Resolved, Basic, Frame
  <2>3. \A d \in Finished : \A n \in Frames' : stack'[n].work # d
    BY <2>1 DEF Finished
  <2>4. \A n \in Frames' : stack'[n].work # current
    BY <2>1, <2>2
  <2>5. \A d : (\A n \in Frames' : stack'[n].work # d) =>
               d = current \/ \A n \in Frames : stack[n].work # d
    BY <2>1, <2>2
  <2>6. \A d \in Finished : d \in Finished'
    BY <2>1, <2>3 DEF Finished
  <2>7. \A d \in Finished' : d \in Finished \/ (top.call = "resolve" /\ d = current)
    BY <2>1, <2>2, <2>5 DEF Finished
  <2>8. top.call = "resolve" => current \in Finished'
    BY <2>1, <2>2, <2>4 DEF Finished
  <2> QED BY <1>1, <2>6, <2>7, <2>8
<1>2. ASSUME Finished' = Finished
      PROVE  /\ Finished \subseteq Finished'
             /\ \A d \in Finished' : d \in Finished
  BY <1>2
<1>3. ASSUME Rests
      PROVE  Finished' = Finished
  BY <1>3 DEF Rests, Finished, Resolved, Frames
<1>4. ASSUME NEW k, Answers(k)
      PROVE  Finished' = Finished
  <2>1. Resolved' = Resolved /\ Frames' = Frames
    BY <1>4 DEF Answers
  <2>2. \A n \in Frames : stack'[n].work = stack[n].work
    BY <1>4, DoesFacts, RunningFacts DEF Answers
  <2> QED BY <2>1, <2>2 DEF Finished
<1>5. ASSUME NEW k, NEW call \in {"create", "resolve"}, Calls(k, call)
      PROVE  Finished' = Finished
  <2>1. /\ k \notin Resolved /\ stack'[1].work = k /\ 1 \in Frames'
        /\ Resolved' = IF call = "resolve" THEN Resolved \cup {k} ELSE Resolved
        /\ \A n \in Frames : n + 1 \in Frames' /\ stack'[n + 1].work = stack[n].work
        /\ \A n \in Frames' : n = 1 \/ (n - 1 \in Frames /\ stack'[n].work = stack[n - 1].work)
    BY <1>5 DEF Calls, Called, Stays
  <2>2. \A d \in Finished : d \in Resolved' /\ \A n \in Frames' : stack'[n].work # d
    BY <2>1 DEF Finished
  <2>3. \A d \in Finished' : d \in Resolved /\ \A n \in Frames : stack[n].work # d
    BY <2>1 DEF Finished
  <2> QED BY <2>2, <2>3 DEF Finished
<1>6. ASSUME NEW d, NEW call \in {"create", "resolve"}, Begins(d, call)
      PROVE  Finished' = Finished
  <2>1. /\ d \notin Resolved /\ stack'[1].work = d /\ Frames' = {1} /\ Frames = {}
        /\ Resolved' = IF call = "resolve" THEN Resolved \cup {d} ELSE Resolved
    BY <1>6, DoesFacts DEF Begins, Frames
  <2> QED BY <2>1 DEF Finished
<1>7. ASSUME Turns
      PROVE  Finished' = Finished
  <2>1. /\ Frames' = Frames /\ 1 \in Frames /\ \A n \in Frames : stack'[n].work = stack[n].work
        /\ stack[1].work = current /\ Resolved' = Resolved \cup {current}
    BY <1>7, RunningFacts DEF Turns, Resolving, Stays
  <2> QED BY <2>1 DEF Finished
<1>8. Ends \/ Finished' = Finished
  BY <1>3, <1>4, <1>5, <1>6, <1>7, Kinds
<1> QED BY <1>1, <1>2, <1>8

\* What was taken stays so.
LEMMA TookKept ==
  ASSUME Basic, [Next]_vars, NEW d \in Todo, NEW k, Took(work, Finished, d, k)
  PROVE  Took(work', Finished', d, k)
<1>1. work \in [Todo -> Work] /\ work' \in [Todo -> Work] /\ Finished \subseteq Todo
  BY BasicNext DEF Basic, TypeOK, Finished, Resolved
<1>2. /\ work[d]._iov \in Key /\ work'[d]._iov \in Key
      /\ k \in Pool => PoolIov[k] \in Key
      /\ k \in Finished => work[k]._iov \in Key
  BY <1>1, HandlerAssumptions DEF Work
<1>3. work'[d].iov /\ key_contains_range(work[d]._iov, work'[d]._iov)
  BY IovsShrink DEF Took
<1>4. CASE k \in Pool /\ key_contains_range(PoolIov[k], work[d]._iov)
  BY <1>2, <1>3, <1>4, ContainsTransitive DEF Took
<1>5. CASE k \in Finished /\ key_contains_range(work[k]._iov, work[d]._iov)
  <2>1. k \in Finished' /\ work'[k]._iov = work[k]._iov
    BY <1>5, FinishedNext, IovsShrink
  <2> QED BY <1>2, <1>3, <1>5, <2>1, ContainsTransitive DEF Took
<1> QED BY <1>4, <1>5 DEF Took

\* The running callback takes the IOV of what it accesses at once.
LEMMA TookAnswered ==
  ASSUME Basic, FrameInv, Documented(graph), NEW k, AccessPool(k) \/ AccessResolved(k), k \in Access
  PROVE  Took(work', Finished', current, k)
<1>0. TypeOK /\ stack # <<>> /\ k \in top.left /\ [Next]_vars
  BY DEF Basic, AccessPool, AccessResolved, Accesses, Next
<1>1. ASSUME NEW i \in Key, NEW j \in Key
      PROVE  /\ key_contains_range(j, iov_intersection(i, j))
             /\ iov_intersection(i, j) \in Key
  BY IntersectionTyped, IntersectionContains
<1>2. current \in Todo /\ work[current]._iov \in Key
  BY <1>0, RunningTyped DEF Work
<1>3. CASE AccessPool(k)
  <2>1. /\ PoolIov[k] \in Key /\ work'[current].iov
        /\ work'[current]._iov =
             iov_intersection(IF work[current].iov THEN iov_intersection(work[current]._iov, PoolIov[k])
                                                   ELSE PoolIov[k], PoolIov[k])
    BY <1>0, <1>3, ItemAccessPool
  <2>2. key_contains_range(PoolIov[k], work'[current]._iov)
    BY <1>1, <1>2, <2>1
  <2> QED BY <1>3, <2>1, <2>2 DEF Took, AccessPool
<1>4. CASE AccessResolved(k)
  <2>1. /\ k \in Todo /\ work[k]._iov \in Key /\ work[k].state = "RESOLVED"
        /\ work'[current].iov = work[current].iov
        /\ work'[current]._iov = iov_intersection(work[current]._iov, work[k]._iov)
    BY <1>0, <1>4, ItemAccessResolved DEF AccessResolved
  <2>2. top.call = "resolve" /\ k \in Finished
    BY <1>0, <2>1, NotInProgress DEF Finished, Resolved
  <2>3. work'[current].iov
    BY <1>0, <2>1, <2>2, RunningFacts DEF Basic, ItemInv
  <2>4. k \in Finished' /\ work'[k]._iov = work[k]._iov
    BY <1>0, <2>2, FinishedNext, IovsShrink
  <2> QED BY <1>1, <1>2, <2>1, <2>3, <2>4 DEF Took
<1> QED BY <1>3, <1>4

\* The callback below takes the IOV of the condition that is resolved on its behalf.
LEMMA TookReturned ==
  ASSUME Basic, ResolveReturnsToGet
  PROVE  Took(work', Finished', user, current)
<1>1. /\ stack # <<>> /\ top.call = "resolve" /\ current \in Todo
      /\ user \in Todo /\ user # current
      /\ \A d \in Todo \ {user} : work'[d] = work[d]
      /\ work[current]._iov \in Key /\ work'[user].iov
      /\ work'[user]._iov =
           iov_intersection(IF work[user].iov THEN iov_intersection(work[user]._iov, work[current]._iov)
                                              ELSE work[current]._iov, work[current]._iov)
  BY ItemResolveReturnsToGet
<1>2. work[user]._iov \in Key
  BY <1>1 DEF Basic, TypeOK, Work
<1>3. ASSUME NEW i \in Key, NEW j \in Key
      PROVE  /\ key_contains_range(j, iov_intersection(i, j))
             /\ iov_intersection(i, j) \in Key
  BY IntersectionTyped, IntersectionContains
<1>4. key_contains_range(work[current]._iov, work'[user]._iov) /\ work'[current] = work[current]
  BY <1>1, <1>2, <1>3
<1>5. current \in Finished'
  BY <1>1, KindEnds, FinishedNext DEF Next
<1> QED BY <1>1, <1>4, <1>5 DEF Took

\* The third part of TookInv, in the next state.
TookFrames ==
  \A n \in Frames' : \A k \in Does(graph', stack'[n]) \ stack'[n].left :
    \/ Took(work', Finished', stack'[n].work, k)
    \/ \E m \in Frames' : n = m + 1 /\ k = stack'[m].work

\* The IOV of what was answered at once is taken.
LEMMA TookFramesAnswers ==
  ASSUME Basic, FrameInv, TookInv, [Next]_vars, NEW k, Answers(k),
         Took(work', Finished', current, k)
  PROVE  TookFrames
<1>1. graph' = graph /\ Frames' = Frames /\ stack'[1] = Rest(k) /\ stack # <<>>
      /\ \A n \in Frames \ {1} : stack'[n] = stack[n]
  BY Kinds DEF Answers
<1>2. /\ Does(graph, Rest(k)) = Does(graph, stack[1]) /\ Rest(k).work = current
      /\ stack[1].work = current /\ Rest(k).left = stack[1].left \ {k}
      /\ \A n \in Frames : stack[n].work \in Todo
  BY <1>1, DoesFacts, RunningFacts DEF top
<1>3. \A n \in Frames : stack'[n].work = stack[n].work
  BY <1>1, <1>2
<1>4. ASSUME NEW n \in Frames', NEW x \in Does(graph', stack'[n]) \ stack'[n].left,
             x \in Does(graph, stack[n]) \ stack[n].left
      PROVE  \/ Took(work', Finished', stack'[n].work, x)
             \/ \E m \in Frames' : n = m + 1 /\ x = stack'[m].work
  <2>1. \/ Took(work, Finished, stack[n].work, x)
        \/ \E m \in Frames : n = m + 1 /\ x = stack[m].work
    BY <1>1, <1>4 DEF TookInv
  <2> QED BY <1>1, <1>2, <1>3, <2>1, TookKept
<1>5. ASSUME NEW n \in Frames', NEW x \in Does(graph', stack'[n]) \ stack'[n].left
      PROVE  (n = 1 /\ x = k) \/ x \in Does(graph, stack[n]) \ stack[n].left
  BY <1>1, <1>2
<1> QED BY <1>1, <1>2, <1>4, <1>5 DEF TookFrames

\* The access that waits for the new callback is the one on top.
LEMMA TookFramesCalls ==
  ASSUME Basic, FrameInv, TookInv, [Next]_vars, NEW k, NEW call \in {"create", "resolve"}, Calls(k, call)
  PROVE  TookFrames
<1> DEFINE f == NewFrame(k, call)
<1>1. /\ stack # <<>> /\ k \in top.left /\ k \in Todo /\ Called(k, call) /\ stack'[1] = f
      /\ \A n \in Frames : stack'[n + 1] = IF n = 1 THEN Rest(k) ELSE stack[n]
      /\ graph' = graph
  BY Kinds DEF Calls
<1>2. f.work = k /\ f.left = Does(graph, f)
  BY <1>1, DoesFacts
<1>3. /\ 1 \in Frames /\ stack[1] = top /\ \A n \in Frames : n \in Int /\ stack[n].work \in Todo
      /\ Does(graph, Rest(k)) = Does(graph, stack[1]) /\ Rest(k).work = stack[1].work
      /\ Rest(k).left = stack[1].left \ {k}
  BY <1>1, DoesFacts, RunningFacts DEF top
<1> HIDE DEF f
<1>4. /\ 1 \in Frames' /\ \A n \in Frames : n + 1 \in Frames' /\ stack'[n + 1].work = stack[n].work
      /\ \A n \in Frames' : n \in Int /\ (n = 1 \/ n - 1 \in Frames)
  BY <1>1 DEF Called, Stays, Frames
<1>5. SUFFICES ASSUME NEW n \in Frames', NEW x \in Does(graph', stack'[n]) \ stack'[n].left
               PROVE  \/ Took(work', Finished', stack'[n].work, x)
                      \/ \E m \in Frames' : n = m + 1 /\ x = stack'[m].work
  BY DEF TookFrames
<1>6. n # 1
  BY <1>1, <1>2, <1>5
<1>7. /\ n - 1 \in Frames /\ (n - 1) + 1 = n /\ n \in Int
      /\ stack'[n] = IF n - 1 = 1 THEN Rest(k) ELSE stack[n - 1]
  BY <1>1, <1>4, <1>6
<1>8. stack'[n].work = stack[n - 1].work /\ Does(graph', stack'[n]) = Does(graph, stack[n - 1])
      /\ stack'[n].left = IF n - 1 = 1 THEN stack[n - 1].left \ {k} ELSE stack[n - 1].left
  BY <1>1, <1>3, <1>7
<1>9. CASE n - 1 = 1 /\ x = k
  <2>1. n = 1 + 1
    BY <1>7, <1>9
  <2> QED BY <1>1, <1>2, <1>4, <1>9, <2>1
<1>10. CASE x \in Does(graph, stack[n - 1]) \ stack[n - 1].left
  <2>1. \/ Took(work, Finished, stack[n - 1].work, x)
        \/ \E m \in Frames : n - 1 = m + 1 /\ x = stack[m].work
    BY <1>7, <1>10 DEF TookInv
  <2>2. ASSUME NEW m \in Frames, n - 1 = m + 1, x = stack[m].work
        PROVE  m + 1 \in Frames' /\ n = (m + 1) + 1 /\ x = stack'[m + 1].work
    BY <1>3, <1>4, <1>7, <2>2
  <2> QED BY <1>3, <1>7, <1>8, <2>1, <2>2, TookKept
<1> QED BY <1>5, <1>8, <1>9, <1>10

\* The IOV of an item whose callback returns is taken by the callback below.
LEMMA TookFramesEnds ==
  ASSUME Basic, FrameInv, TookInv, [Next]_vars, Ends,
         Len(stack) > 1 => Took(work', Finished', user, current)
  PROVE  TookFrames
<1>1. /\ stack # <<>> /\ \A n \in Frames' : n + 1 \in Frames /\ stack'[n] = stack[n + 1]
      /\ \A n \in Frames : n = 1 \/ n - 1 \in Frames'
      /\ graph' = graph
  BY Kinds DEF Ends, Returned
<1>2. /\ stack[1].work = current /\ \A n \in Frames : stack[n].work \in Todo
      /\ \A n \in Frames \cup Frames' : n \in Int
  BY <1>1, RunningFacts DEF Frames
<1>3. SUFFICES ASSUME NEW n \in Frames', NEW x \in Does(graph', stack'[n]) \ stack'[n].left
               PROVE  \/ Took(work', Finished', stack'[n].work, x)
                      \/ \E m \in Frames' : n = m + 1 /\ x = stack'[m].work
  BY DEF TookFrames
<1>4. \/ Took(work, Finished, stack[n + 1].work, x)
      \/ \E m \in Frames : n + 1 = m + 1 /\ x = stack[m].work
  BY <1>1, <1>3 DEF TookInv
<1>5. ASSUME NEW m \in Frames, n + 1 = m + 1, x = stack[m].work
      PROVE  \/ Took(work', Finished', stack'[n].work, x)
             \/ \E l \in Frames' : n = l + 1 /\ x = stack'[l].work
  <2>1. m = n
    BY <1>2, <1>5
  <2>2. CASE n = 1
    <3>1. 2 \in Frames /\ stack'[1] = stack[2] /\ x = current
      BY <1>1, <1>2, <1>5, <2>1, <2>2
    <3>2. Len(stack) > 1
      BY <3>1 DEF Frames, Basic, TypeOK
    <3> QED BY <2>2, <3>1, <3>2 DEF user
  <2>3. CASE n # 1
    <3>1. n - 1 \in Frames' /\ n = (n - 1) + 1
      BY <1>1, <1>2, <2>1, <2>3
    <3>2. stack'[n - 1] = stack[n]
      BY <1>1, <3>1
    <3> QED BY <1>5, <2>1, <3>1, <3>2
  <2> QED BY <2>2, <2>3
<1> QED BY <1>1, <1>2, <1>4, <1>5, TookKept

\* The access that waits for a creation waits for the resolution, too.
LEMMA TookFramesTurns ==
  ASSUME Basic, FrameInv, TookInv, [Next]_vars, Turns
  PROVE  TookFrames
<1>1. /\ stack # <<>> /\ Frames' = Frames /\ stack'[1] = NewFrame(current, "resolve")
      /\ \A n \in Frames \ {1} : stack'[n] = stack[n]
      /\ graph' = graph
  BY Kinds DEF Turns, Resolving, NewFrame
<1>2. /\ current \in Todo /\ current = stack[1].work /\ \A n \in Frames : stack[n].work \in Todo
      /\ stack'[1].left = Does(graph', stack'[1]) /\ stack'[1].work = stack[1].work
  BY <1>1, DoesFacts, RunningFacts
<1>3. \A n \in Frames : stack'[n].work = stack[n].work
  BY <1>1, <1>2
<1>4. SUFFICES ASSUME NEW n \in Frames', NEW x \in Does(graph', stack'[n]) \ stack'[n].left
               PROVE  \/ Took(work', Finished', stack'[n].work, x)
                      \/ \E m \in Frames' : n = m + 1 /\ x = stack'[m].work
  BY DEF TookFrames
<1>5. n # 1
  BY <1>2, <1>4
<1>6. \/ Took(work, Finished, stack[n].work, x)
      \/ \E m \in Frames : n = m + 1 /\ x = stack[m].work
  BY <1>1, <1>4, <1>5 DEF TookInv
<1> QED BY <1>1, <1>2, <1>3, <1>6, TookKept

\* Every step keeps what was taken.
LEMMA TookNext ==
  ASSUME Basic, FrameInv, Documented(graph), TookInv, [Next]_vars
  PROVE  TookInv'
<1>0. graph' = graph
  BY Kinds
<1>1. ASSUME stack # <<>>, top.left = {}
      PROVE  \A k \in Does(graph, top) : Took(work, Finished, current, k)
  <2>1. stack[1] = top /\ stack[1].work = current /\ 1 \in Frames /\ \A m \in Frames : 1 # m + 1
    BY <1>1, RunningFacts DEF top, Frames
  <2> QED BY <1>1, <2>1 DEF TookInv
<1>2. \A d \in Made' : \A k \in graph'.create[d] : Took(work', Finished', d, k)
  <2>1. \A d \in Made : \A k \in graph.create[d] : Took(work', Finished', d, k)
    BY TookKept DEF TookInv, Made
  <2>2. \/ Made' = Made
        \/ stack # <<>> /\ top.left = {} /\ top.call = "create" /\ Made' = Made \cup {current}
    <3>1. Rests => Made' = Made
      BY DEF Rests, Made
    <3> QED BY <3>1, Kinds DEF Answers, Calls, Begins, Ends, Turns
  <2>3. ASSUME stack # <<>>, top.left = {}, top.call = "create"
        PROVE  \A k \in graph.create[current] : Took(work', Finished', current, k)
    <3>1. Does(graph, top) = graph.create[current] /\ current \in Todo
      BY <2>3, RunningFacts DEF Does, current
    <3> QED BY <1>1, <2>3, <3>1, TookKept
  <2> QED BY <1>0, <2>1, <2>2, <2>3
<1>3. \A d \in Finished' : \A k \in graph'.resolve[d] : Took(work', Finished', d, k)
  <2>1. \A d \in Finished : \A k \in graph.resolve[d] : Took(work', Finished', d, k)
    BY TookKept DEF TookInv, Finished, Resolved
  <2>2. ASSUME Ends, top.call = "resolve"
        PROVE  \A k \in graph.resolve[current] : Took(work', Finished', current, k)
    <3>1. stack # <<>> /\ top.left = {}
      BY <2>2 DEF Ends
    <3>2. Does(graph, top) = graph.resolve[current] /\ current \in Todo
      BY <2>2, <3>1, RunningFacts DEF Does, current
    <3> QED BY <1>1, <3>1, <3>2, TookKept
  <2> QED BY <1>0, <2>1, <2>2, FinishedNext
<1>4. CASE Rests
  <2>1. stack' = stack /\ work' = work /\ Frames' = Frames /\ Finished' = Finished
    BY <1>4 DEF Rests, Frames, Finished, Resolved
  <2> QED BY <1>0, <1>2, <1>3, <2>1 DEF TookInv
<1>5. ASSUME NEW k \in Access, AccessPool(k) \/ AccessResolved(k)
      PROVE  TookFrames
  BY <1>5, KindAnswers, TookAnswered, TookFramesAnswers
<1>6. ASSUME NEW k \in Access, AccessCreated(k) \/ AccessInvalid(k)
      PROVE  TookFrames
  BY <1>6, KindCalls, TookFramesCalls
<1>7. ASSUME NEW d \in Todo, ComputeNext(d) \/ ResolveNext(d)
      PROVE  Rests \/ TookFrames
  BY <1>0, <1>7, KindBegins, DoesFacts DEF TookFrames, Begins
<1>8. CASE CreateReturns \/ ResolveReturns \/ ResolveReturnsToGet
  <2>1. ASSUME CreateReturns \/ ResolveReturns
        PROVE  ~(Len(stack) > 1)
    <3>1. Len(stack) = 1
      BY <2>1 DEF CreateReturns, ResolveReturns
    <3> QED BY <3>1
  <2>2. Len(stack) > 1 => Took(work', Finished', user, current)
    BY <1>8, <2>1, TookReturned
  <2>3. TookFrames
    BY <1>8, <2>2, KindEnds, TookFramesEnds
  <2> QED BY <1>2, <1>3, <2>3 DEF TookInv, TookFrames
<1>9. CASE CreateReturnsToGet
  BY <1>2, <1>3, <1>9, KindTurns, TookFramesTurns DEF TookInv, TookFrames
<1>10. CASE TookFrames
  BY <1>2, <1>3, <1>10 DEF TookInv, TookFrames
<1>11. UNCHANGED vars \/ ComputeDone \/ Register => Rests
  BY DEF vars, ComputeDone, Register, Rests
<1>12. \A k \in Access : AccessLoops(k) \/ AccessUnknown(k) => Rests
  BY DEF AccessLoops, AccessUnknown, Throw, Rests
<1> QED BY <1>4, <1>5, <1>6, <1>7, <1>8, <1>9, <1>10, <1>11, <1>12 DEF Next

\* The whole invariant of the handler.
IInv ==
  /\ Basic /\ Accessing /\ WideInv /\ RegisteredInv
  /\ Documented(graph) => TookInv

\* The whole invariant always holds.
LEMMA IInvAlways == Spec => []IInv
<1>1. Init => IInv
  <2>1. ASSUME Init
        PROVE  TookInv
    <3>1. Frames = {} /\ Made = {} /\ Finished = {}
      BY <2>1 DEF Init, Frames, Made, Finished, Resolved
    <3> QED BY <3>1 DEF TookInv
  <2> QED BY <2>1, BasicInit, AccessingInit DEF Init, IInv, WideInv, RegisteredInv
<1>2. ASSUME IInv, [Next]_vars
      PROVE  IInv'
  <2>1. Basic' /\ Accessing' /\ WideInv' /\ RegisteredInv'
    BY <1>2, BasicNext, FrameNext, MadeNext, ReachNext, Refuses, WideNext, RegisteredNext
       DEF IInv, Accessing
  <2>2. graph' = graph
    BY <1>2, Kinds DEF IInv
  <2>3. Documented(graph) => TookInv'
    BY <1>2, TookNext DEF IInv, Accessing
  <2> QED BY <2>1, <2>2, <2>3 DEF IInv
<1> QED BY <1>1, <1>2, PTL DEF Spec

\* An IOV that is within those of all that d was made from is within the exact one.
LEMMA FinalWithin ==
  ASSUME Basic, TookInv, pass = "done", NEW d \in Todo,
         \A e \in Todo : accessed[e] \subseteq Item
  PROVE  key_contains_range(ExactBy(accessed, d), work[d]._iov)
<1>1. Made = Todo /\ Finished = Todo
  BY DEF Basic, PassInv, Finished, Resolved, Frames
<1>2. \A e \in Todo : \A k \in accessed[e] : Took(work, Finished, e, k)
  BY <1>1 DEF TookInv, accessed
<1>3. \A e \in Todo : work[e]._iov \in Key
  BY DEF Basic, TypeOK, Work
<1> DEFINE I == work[d]._iov
           S == {k \in Item : /\ k \in Pool => key_contains_range(PoolIov[k], I)
                              /\ k \in Todo => key_contains_range(work[k]._iov, I)}
<1>4. d \in S
  BY <1>3, ForeverContains, HandlerAssumptions DEF Item
<1>5. ASSUME NEW e \in S \cap Todo, NEW k \in accessed[e]
      PROVE  k \in S
  <2>1. key_contains_range(work[e]._iov, I) /\ Took(work, Finished, e, k) /\ k \in Item
    BY <1>2
  <2>2. CASE k \in Pool /\ key_contains_range(PoolIov[k], work[e]._iov)
    <3>1. key_contains_range(PoolIov[k], I) /\ k \notin Todo
      BY <1>3, <2>1, <2>2, ContainsTransitive, HandlerAssumptions
    <3> QED BY <2>1, <3>1
  <2>3. CASE k \in Finished /\ key_contains_range(work[k]._iov, work[e]._iov)
    <3>1. key_contains_range(work[k]._iov, I) /\ k \notin Pool
      BY <1>1, <1>3, <2>1, <2>3, ContainsTransitive, HandlerAssumptions
    <3> QED BY <2>1, <3>1
  <2> QED BY <2>1, <2>2, <2>3 DEF Took
<1>6. S \in SUBSET (Item \cup Access) /\ \A e \in S \cap Todo : accessed[e] \subseteq S
  BY <1>5
<1>7. \A k \in IngredientsBy(accessed, d) : k \in Pool /\ k \in S
  BY <1>4, <1>6 DEF IngredientsBy
<1> QED BY <1>3, <1>7, ExactWithin

\* IOVs that contain each other are equal.
LEMMA ContainsEqual ==
  ASSUME NEW j \in Key, NEW k \in Key, key_contains_range(j, k), key_contains_range(k, j)
  PROVE  j = k
<1>1. j.first = k.first /\ j.second = k.second
  BY DEF key_contains_range, Key, Key_value
<1> QED BY <1>1 DEF Key

\* The documented use of the callbacks is exact: if derived conditions are
\* accessed at resolve only, and not mutually, every derived condition is
\* registered with the intersection of the IOVs of its ingredients, whatever the
\* order of the visits, however deep the nesting and however many conditions
\* share an intermediate one.
THEOREM ResolvesExactly == Spec => []ExactAtResolve
<1>1. ASSUME IInv
      PROVE  ExactAtResolve
  <2> SUFFICES ASSUME Documented(graph), NEW d \in DOMAIN registered
               PROVE  registered[d] = Exact(d)
    BY DEF ExactAtResolve, IovExact, Documented
  <2>1. d \in Todo /\ registered[d] = work[d]._iov /\ pass = "done"
    BY <1>1 DEF IInv, RegisteredInv
  <2>2. work[d]._iov \in Key /\ work[d].iov
    BY <1>1, <2>1 DEF IInv, Basic, TypeOK, PassInv, ItemInv, Work
  <2>3. \A e \in Todo : accessed[e] \subseteq Item
    <3>1. Made = Todo /\ Resolved = Todo /\ Frames = {}
      BY <1>1, <2>1 DEF IInv, Basic, PassInv, Resolved, Frames
    <3> QED BY <1>1, <3>1 DEF IInv, Accessing, MadeInv, Known, Item, accessed
  <2>4. key_contains_range(ExactBy(accessed, d), work[d]._iov)
    BY <1>1, <2>1, <2>3, FinalWithin DEF IInv
  <2>5. key_contains_range(work[d]._iov, ExactBy(accessed, d))
    BY <1>1, <2>1, <2>2 DEF IInv, WideInv
  <2> QED BY <2>1, <2>2, <2>4, <2>5, ExactWithin, ExactIs, ContainsEqual
<1> QED BY <1>1, IInvAlways, PTL
=============================================================================
