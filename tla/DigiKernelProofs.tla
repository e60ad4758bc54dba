--------------------------- MODULE DigiKernelProofs ---------------------------
(***************************************************************************)
(* Proofs about DigiKernel, for any number of processors, events, actions, *)
(* containers, files and runs, and for exceptions in any stage.            *)
(***************************************************************************)
EXTENDS DigiKernel, FiniteSetTheorems, TLAPS

\* What the place of a processor says about its event, the I/O lock and the source.
Placed(p) ==
  /\ event[p] = 0 <=> pc[p] \in {"off", "loop"}
  /\ pc[p] # "off" => mode # "idle"
  /\ pc[p] = "load" => source \in Entry
  /\ io_lock = p <=> pc[p] \in {"read", "load", "convert"}

KernelInv ==
  /\ TypeOK
  /\ mode # "idle" => runs > 0
  /\ \A p \in Processors : Placed(p)

LEMMA InitInv == Init => KernelInv
<1> SUFFICES ASSUME Init PROVE KernelInv
  OBVIOUS
<1>1. /\ todo \in 0 .. NumEvents /\ finished \in Nat /\ submitted \in Nat
      /\ runs \in 0 .. MaxRuns /\ queued \in [Processors -> 0 .. NumActions]
      /\ event \in [Processors -> 0 .. NumEvents]
  BY KernelAssumptions DEF Init
<1>2. /\ pc \in [Processors -> Stage]
      /\ running \in [Processors -> SUBSET Action] /\ worked \in [Processors -> SUBSET Action]
      /\ failed \in [Processors -> BOOLEAN]
      /\ loaded \in [Entry -> Nat] /\ closed \in [Event -> Nat]
  BY DEF Init, Stage
<1>3. TypeOK
  BY <1>1, <1>2 DEF Init, TypeOK
<1> QED
  BY <1>3, KernelAssumptions DEF Init, KernelInv, Placed

LEMMA EntryPairs == \A x \in Entry : x = <<x[1], x[2]>> /\ x[1] \in Nat \ {0} /\ x[2] \in Nat \ {0}
<1> SUFFICES ASSUME NEW x \in Entry
             PROVE  x = <<x[1], x[2]>> /\ x[1] \in Nat \ {0} /\ x[2] \in Nat \ {0}
  OBVIOUS
<1>1. PICK f \in DOMAIN Files : x \in {f} \X (1 .. Files[f])
  BY DEF Entry
<1>2. f \in Nat \ {0} /\ Files[f] \in Nat
  BY KernelAssumptions
<1> QED
  BY <1>1, <1>2

-----------------------------------------------------------------------------
(***************************************************************************)
(* Types.                                                                  *)
(***************************************************************************)
LEMMA TypeStep == KernelInv /\ [Next]_vars => TypeOK'
<1> SUFFICES ASSUME KernelInv, [Next]_vars PROVE TypeOK'
  OBVIOUS
<1>0. TypeOK
  BY DEF KernelInv
<1> USE <1>0, KernelAssumptions DEF TypeOK, counters, tasks, history, Goto, At
<1>1. CASE UNCHANGED vars
  BY <1>1 DEF vars
<1>2. CASE RunGroup \/ RunSequential
  <2>1. Reset /\ mode' \in {"group", "sequential"} /\ tbb_init' \in BOOLEAN
    BY <1>2 DEF RunGroup, RunSequential
  <2>2. pc' \in [Processors -> Stage]
    BY <1>2 DEF RunGroup, RunSequential, Stage
  <2>3. runs' \in 0 .. MaxRuns /\ todo' \in 0 .. NumEvents
    BY <2>1 DEF Reset
  <2> QED
    BY <2>1, <2>2, <2>3 DEF Reset
<1>3. CASE Loop \/ UserStop
  BY <1>3 DEF Loop, Turn, Return, UserStop, Stage
<1>4. ASSUME NEW p \in Processors, TakeEvent(p) \/ EndProcessor(p) PROVE TypeOK'
  <2>1. CASE TakeEvent(p)
    <3>1. todo' \in 0 .. NumEvents /\ NumEvents - todo' \in 0 .. NumEvents
      BY <2>1 DEF TakeEvent
    <3> QED
      BY <2>1, <3>1 DEF TakeEvent, Stage
  <2>2. CASE EndProcessor(p)
    BY <2>2 DEF EndProcessor, Stage
  <2> QED
    BY <1>4, <2>1, <2>2
<1>5. ASSUME NEW p \in Processors, LockInput(p) \/ NextEntry(p) \/ InputExhausted(p)
      PROVE  TypeOK'
  BY <1>5 DEF LockInput, NextEntry, InputExhausted, Stage
<1>6. ASSUME NEW p \in Processors, LoadEntry(p) PROVE TypeOK'
  <2>1. loaded' \in [Entry -> Nat]
    BY <1>6 DEF LoadEntry, KernelInv, Placed
  <2>2. pc' \in [Processors -> Stage]
    BY <1>6 DEF LoadEntry, Stage
  <2> QED
    BY <1>6, <2>1, <2>2 DEF LoadEntry
<1>7. ASSUME NEW p \in Processors, SubmitAction(p) PROVE TypeOK'
  <2>1. queued[p] \in 0 .. NumActions /\ queued[p] # NumActions
    BY <1>7 DEF SubmitAction, AllSubmitted
  <2>2. queued' \in [Processors -> 0 .. NumActions]
    BY <1>7, <2>1 DEF SubmitAction
  <2> QED
    BY <1>7, <2>2 DEF SubmitAction
<1>8. ASSUME NEW p \in Processors, JoinActions(p) PROVE TypeOK'
  BY <1>8 DEF JoinActions, Stage
<1>9. ASSUME NEW p \in Processors, NEW i \in Action, BeginAction(p, i) PROVE TypeOK'
  BY <1>9 DEF BeginAction
<1>10. ASSUME NEW p \in Processors, NEW i \in Action, EndAction(p, i) PROVE TypeOK'
  <2>1. running' \in [Processors -> SUBSET Action]
    BY <1>10 DEF EndAction
  <2>2. failed' \in [Processors -> BOOLEAN]
    BY <1>10 DEF EndAction
  <2>3. CASE worked' = [worked EXCEPT ![p] = @ \cup {i}]
    <3>1. worked[p] \cup {i} \in SUBSET Action
      OBVIOUS
    <3>2. worked' \in [Processors -> SUBSET Action]
      BY <2>3, <3>1
    <3> QED
      BY <1>10, <2>1, <2>2, <3>2 DEF EndAction
  <2>4. CASE UNCHANGED worked
    BY <1>10, <2>1, <2>2, <2>4 DEF EndAction
  <2> QED
    BY <1>10, <2>3, <2>4 DEF EndAction
<1>11. ASSUME NEW p \in Processors, LockOutput(p) \/ Throw(p) PROVE TypeOK'
  BY <1>11 DEF LockOutput, Throw, Stage
<1>12. ASSUME NEW p \in Processors, NEW c \in Containers, ConvertContainer(p, c)
       PROVE  TypeOK'
  <2>0. event[p] # 0 /\ mode # "idle" /\ runs > 0
    BY <1>12 DEF ConvertContainer, KernelInv, Placed
  <2>1. event[p] \in Event /\ runs \in 1 .. MaxRuns /\ worked[p] \subseteq Action
    BY <2>0 DEF Event
  <2>2. frame' \subseteq Content
    BY <1>12, <2>1 DEF ConvertContainer, Content
  <2> QED
    BY <1>12, <2>2 DEF ConvertContainer
<1>13. ASSUME NEW p \in Processors, CommitOutput(p) PROVE TypeOK'
  <2>0. event[p] # 0
    BY <1>13 DEF CommitOutput, KernelInv, Placed
  <2>1. event[p] \in Event
    BY <2>0 DEF Event
  <2>2. written' \subseteq [by : Event, content : SUBSET Content, stopped : BOOLEAN]
    BY <1>13, <2>1 DEF CommitOutput
  <2> QED
    BY <1>13, <2>2 DEF CommitOutput, Stage
<1>14. ASSUME NEW p \in Processors, Finish(p) \/ NotifyException(p) PROVE TypeOK'
  <2>0. event[p] # 0 /\ Closed(p) /\ stop' \in BOOLEAN
    BY <1>14 DEF Finish, NotifyException, KernelInv, Placed
  <2>1. event[p] \in Event
    BY <2>0 DEF Event
  <2>2. closed' \in [Event -> Nat] /\ finished' \in Nat
    BY <2>0, <2>1 DEF Closed
  <2> QED
    BY <2>0, <2>1, <2>2 DEF Closed, Stage
<1> QED
  BY <1>1, <1>2, <1>3, <1>4, <1>5, <1>6, <1>7, <1>8, <1>9, <1>10, <1>11, <1>12, <1>13,
     <1>14 DEF Next, Process

-----------------------------------------------------------------------------
(***************************************************************************)
(* Places.                                                                 *)
(***************************************************************************)
LEMMA PlacedStep == KernelInv /\ [Next]_vars => \A q \in Processors : Placed(q)'
<1> SUFFICES ASSUME KernelInv, [Next]_vars, NEW q \in Processors PROVE Placed(q)'
  OBVIOUS
<1>0. TypeOK /\ Placed(q)
  BY DEF KernelInv
<1> USE <1>0, KernelAssumptions DEF TypeOK, Placed, Goto, At
<1>1. CASE UNCHANGED vars
  BY <1>1 DEF vars
<1>2. CASE RunGroup \/ RunSequential
  <2>1. mode = "idle" /\ mode' # "idle" /\ UNCHANGED <<event, io_lock, source>>
    BY <1>2 DEF RunGroup, RunSequential, Reset
  <2>2. pc[q] = "off" /\ pc'[q] \in {"off", "loop"}
    BY <1>2, <2>1 DEF RunGroup, RunSequential
  <2> QED
    BY <2>1, <2>2
<1>3. CASE Loop \/ UserStop
  BY <1>3 DEF Loop, Turn, Return, UserStop, AllOff
<1>4. ASSUME NEW p \in Processors, TakeEvent(p) \/ EndProcessor(p) PROVE Placed(q)'
  <2>1. CASE TakeEvent(p)
    <3>1. NumEvents - todo' # 0 /\ UNCHANGED <<mode, io_lock, source>>
      BY <2>1 DEF TakeEvent
    <3>2. event' = [event EXCEPT ![p] = NumEvents - todo'] /\ pc' = [pc EXCEPT ![p] = "start"]
      BY <2>1 DEF TakeEvent
    <3>3. pc[p] = "loop"
      BY <2>1 DEF TakeEvent
    <3> HIDE DEF TypeOK
    <3> QED
      BY <3>1, <3>2, <3>3 DEF TypeOK
  <2>2. CASE EndProcessor(p)
    BY <2>2 DEF EndProcessor
  <2> QED
    BY <1>4, <2>1, <2>2
<1>5. ASSUME NEW p \in Processors, LockInput(p) \/ LockOutput(p) PROVE Placed(q)'
  BY <1>5 DEF LockInput, LockOutput
<1>6. ASSUME NEW p \in Processors, NextEntry(p) PROVE Placed(q)'
  <2>1. io_lock = p /\ source' \in Entry
    BY <1>6 DEF NextEntry, KernelInv
  <2> QED
    BY <1>6, <2>1 DEF NextEntry
<1>7. ASSUME NEW p \in Processors, InputExhausted(p) \/ LoadEntry(p) PROVE Placed(q)'
  <2>1. io_lock = p /\ pc[p] \in {"read", "load"}
    BY <1>7 DEF InputExhausted, LoadEntry, KernelInv
  <2>2. \/ pc' = [pc EXCEPT ![p] = "work"]
        \/ pc' = [pc EXCEPT ![p] = "throw"]
    BY <1>7 DEF InputExhausted, LoadEntry
  <2>3. io_lock' = NoProcessor /\ UNCHANGED <<event, mode, source>>
    BY <1>7 DEF InputExhausted, LoadEntry
  <2>4. CASE q = p
    <3>1. Placed(p) /\ pc'[p] \in {"work", "throw"}
      BY <2>2, <2>4
    <3> QED
      BY <2>1, <2>3, <2>4, <3>1
  <2>5. CASE q # p
    BY <2>1, <2>2, <2>3, <2>5
  <2> QED
    BY <2>4, <2>5
<1>8. ASSUME NEW p \in Processors, SubmitAction(p) \/ JoinActions(p) PROVE Placed(q)'
  BY <1>8 DEF SubmitAction, JoinActions
<1>9. ASSUME NEW p \in Processors, NEW i \in Action, BeginAction(p, i) \/ EndAction(p, i)
      PROVE  Placed(q)'
  BY <1>9 DEF BeginAction, EndAction
<1>10. ASSUME NEW p \in Processors, NEW c \in Containers, ConvertContainer(p, c)
       PROVE  Placed(q)'
  BY <1>10 DEF ConvertContainer
<1>11. ASSUME NEW p \in Processors, CommitOutput(p) PROVE Placed(q)'
  <2>1. io_lock = p
    BY <1>11 DEF CommitOutput, KernelInv
  <2> QED
    BY <1>11, <2>1 DEF CommitOutput
<1>12. ASSUME NEW p \in Processors, Finish(p) \/ NotifyException(p) PROVE Placed(q)'
  <2>1. Closed(p) /\ pc[p] \in {"end", "throw"}
    BY <1>12 DEF Finish, NotifyException
  <2> QED
    BY <2>1 DEF Closed
<1>13. ASSUME NEW p \in Processors, Throw(p) PROVE Placed(q)'
  <2>1. Placed(p) /\ pc[p] \in {"start", "convert", "end"}
    BY <1>13 DEF Throw, KernelInv
  <2> QED
    BY <1>13, <2>1 DEF Throw
<1> QED
  BY <1>1, <1>2, <1>3, <1>4, <1>5, <1>6, <1>7, <1>8, <1>9, <1>10, <1>11, <1>12, <1>13
     DEF Next, Process

\* A processor takes nothing of the run but what it is said to.
LEMMA ProcessFrame ==
  ASSUME NEW p \in Processors, Process(p)
  PROVE  mode' = mode /\ runs' = runs
<1>1. CASE TakeEvent(p) \/ EndProcessor(p) \/ LockInput(p) \/ NextEntry(p)
             \/ InputExhausted(p) \/ LoadEntry(p)
  BY <1>1 DEF TakeEvent, EndProcessor, LockInput, NextEntry, InputExhausted, LoadEntry
<1>2. CASE SubmitAction(p) \/ JoinActions(p)
             \/ (\E i \in Action : BeginAction(p, i) \/ EndAction(p, i))
  BY <1>2 DEF SubmitAction, JoinActions, BeginAction, EndAction
<1>3. CASE LockOutput(p) \/ (\E c \in Containers : ConvertContainer(p, c))
             \/ CommitOutput(p) \/ Finish(p) \/ Throw(p) \/ NotifyException(p)
  BY <1>3 DEF LockOutput, ConvertContainer, CommitOutput, Finish, Throw, NotifyException,
              Closed
<1> QED
  BY <1>1, <1>2, <1>3 DEF Process

LEMMA RunsStep == KernelInv /\ [Next]_vars => (mode # "idle" => runs > 0)'
<1> SUFFICES ASSUME KernelInv, [Next]_vars PROVE (mode # "idle" => runs > 0)'
  OBVIOUS
<1>1. CASE \E p \in Processors : Process(p)
  BY <1>1, ProcessFrame DEF KernelInv
<1>2. CASE ~\E p \in Processors : Process(p)
  BY <1>2 DEF Next, KernelInv, TypeOK, RunGroup, RunSequential, Reset, Loop, Turn, Return,
              UserStop, vars
<1> QED
  BY <1>1, <1>2

LEMMA KernelInvariant == Spec => []KernelInv
<1>1. KernelInv /\ [Next]_vars => KernelInv'
  BY TypeStep, PlacedStep, RunsStep DEF KernelInv
<1> QED
  BY <1>1, InitInv, PTL DEF Spec

\* Every variable keeps its type: no counter passes its bound and nothing is written
\* or read for an event that does not exist.
THEOREM Typing == Spec => []TypeOK
BY KernelInvariant, PTL DEF KernelInv

-----------------------------------------------------------------------------
(***************************************************************************)
(* Event numbers.                                                          *)
(***************************************************************************)
ClosedEvents == {e \in Event : closed[e] # 0}

LEMMA EventSets ==
  /\ IsFiniteSet(Event)
  /\ \A S \in SUBSET Event : IsFiniteSet(S) /\ Cardinality(S) \in Nat
<1>1. IsFiniteSet(Event)
  BY FS_Interval, KernelAssumptions DEF Event
<1> QED
  BY <1>1, FS_Subset, FS_CardinalityType

\* What the numbers depend on changes in a few places only.
LEMMA EventFrame ==
  ASSUME [Next]_vars,
         ~(RunGroup \/ RunSequential),
         ~\E p \in Processors : TakeEvent(p) \/ Finish(p) \/ NotifyException(p)
  PROVE  UNCHANGED <<event, closed, todo, finished, runs>>
<1>1. CASE UNCHANGED vars
  BY <1>1 DEF vars, counters, history
<1>2. CASE Loop \/ UserStop
  BY <1>2 DEF Loop, Turn, Return, UserStop, counters, history
<1>3. ASSUME NEW p \in Processors, Process(p)
      PROVE  UNCHANGED <<event, closed, todo, finished, runs>>
  <2>1. CASE EndProcessor(p) \/ LockInput(p) \/ NextEntry(p) \/ InputExhausted(p)
               \/ LoadEntry(p)
    BY <2>1 DEF EndProcessor, LockInput, NextEntry, InputExhausted, LoadEntry, counters,
                history
  <2>2. CASE SubmitAction(p) \/ JoinActions(p)
               \/ (\E i \in Action : BeginAction(p, i) \/ EndAction(p, i))
    BY <2>2 DEF SubmitAction, JoinActions, BeginAction, EndAction, counters, history
  <2>3. CASE LockOutput(p) \/ (\E c \in Containers : ConvertContainer(p, c))
               \/ CommitOutput(p) \/ Throw(p)
    BY <2>3 DEF LockOutput, ConvertContainer, CommitOutput, Throw, counters, history
  <2> QED
    BY <1>3, <2>1, <2>2, <2>3 DEF Process
<1> QED
  BY <1>1, <1>2, <1>3 DEF Next

LEMMA EventReset ==
  ASSUME KernelInv, RunGroup \/ RunSequential
  PROVE  EachEventOnce'
<1> USE KernelAssumptions
<1>1. mode = "idle" /\ Reset
  BY DEF RunGroup, RunSequential, Reset
<1>2. InFlight' = {}
  BY <1>1 DEF KernelInv, TypeOK, Placed, Reset, InFlight
<1>3. Begun' = {}
  BY <1>1 DEF Reset, Begun
<1>4. closed' = [e \in Event |-> 0] /\ finished' = 0
  BY <1>1 DEF Reset
<1>5. {e \in Event : closed'[e] # 0} = {}
  BY <1>4
<1> QED
  BY <1>2, <1>3, <1>4, <1>5, FS_EmptySet DEF EachEventOnce

LEMMA EventTaken ==
  ASSUME KernelInv, EachEventOnce, NEW p \in Processors, TakeEvent(p)
  PROVE  EachEventOnce'
<1> DEFINE new == NumEvents - todo + 1
<1> USE KernelAssumptions
<1>0. runs > 0
  BY DEF KernelInv, Placed, TakeEvent, At
<1>1. /\ todo \in 0 .. NumEvents /\ todo > 0 /\ event \in [Processors -> 0 .. NumEvents]
      /\ closed \in [Event -> Nat]
  BY DEF KernelInv, TypeOK, TakeEvent
<1>2. new \in Event /\ new \notin Begun /\ Begun' = Begun \cup {new} /\ new # 0
  BY <1>1 DEF TakeEvent, Begun, Event
<1>3. event' = [event EXCEPT ![p] = new] /\ UNCHANGED <<closed, finished, runs>>
  BY <1>1 DEF TakeEvent, history
<1>4. event[p] = 0
  BY DEF KernelInv, Placed, TakeEvent, At
<1>5. InFlight' = InFlight \cup {p} /\ p \notin InFlight
  BY <1>1, <1>2, <1>3, <1>4 DEF InFlight
<1>6. \A q \in InFlight : event'[q] = event[q] /\ event[q] \in Begun /\ event[q] # new
  BY <1>0, <1>1, <1>2, <1>3, <1>5 DEF EachEventOnce, InFlight
<1>7. event'[p] = new /\ closed[new] = 0
  BY <1>0, <1>1, <1>2, <1>3 DEF EachEventOnce
<1>8. \A q, r \in InFlight' : event'[q] = event'[r] => q = r
  BY <1>0, <1>5, <1>6, <1>7 DEF EachEventOnce
<1>9. \A q \in InFlight' : event'[q] \in Begun' /\ closed'[event'[q]] = 0
  BY <1>0, <1>2, <1>3, <1>5, <1>6, <1>7 DEF EachEventOnce
<1>10. \A e \in Begun' : closed'[e] = 1 \/ (closed'[e] = 0 /\ \E q \in InFlight' : event'[q] = e)
  BY <1>0, <1>2, <1>3, <1>5, <1>6, <1>7 DEF EachEventOnce
<1>11. \A e \in Event \ Begun' : closed'[e] = 0
  BY <1>0, <1>2, <1>3 DEF EachEventOnce
<1> QED
  BY <1>0, <1>3, <1>8, <1>9, <1>10, <1>11 DEF EachEventOnce

LEMMA EventClosed ==
  ASSUME KernelInv, EachEventOnce, NEW p \in Processors, Finish(p) \/ NotifyException(p)
  PROVE  EachEventOnce'
<1> DEFINE e == event[p]
<1> USE KernelAssumptions
<1>0. pc[p] \in {"end", "throw"} /\ Closed(p)
  BY DEF Finish, NotifyException, At
<1>1. runs > 0 /\ e # 0 /\ event \in [Processors -> 0 .. NumEvents]
      /\ closed \in [Event -> Nat] /\ finished \in Nat
  BY <1>0 DEF KernelInv, TypeOK, Placed
<1>2. e \in Event /\ p \in InFlight
  BY <1>1 DEF Event, InFlight
<1>3. closed' = [closed EXCEPT ![e] = @ + 1] /\ event' = [event EXCEPT ![p] = 0]
      /\ finished' = finished + 1 /\ UNCHANGED <<todo, runs>>
  BY <1>0 DEF Closed
<1>4. InFlight' = InFlight \ {p} /\ Begun' = Begun
  BY <1>1, <1>3 DEF InFlight, Begun
<1>5. closed[e] = 0 /\ e \in Begun /\ \A q \in InFlight : event[q] = e => q = p
  BY <1>1, <1>2 DEF EachEventOnce
<1>6. closed'[e] = 1 /\ \A d \in Event \ {e} : closed'[d] = closed[d]
  BY <1>1, <1>2, <1>3, <1>5
<1>7. \A q \in InFlight' : event'[q] = event[q] /\ event[q] # e /\ event[q] \in Event
  BY <1>1, <1>3, <1>4, <1>5 DEF InFlight, Event
<1>8. ClosedEvents' = ClosedEvents \cup {e} /\ e \notin ClosedEvents
  BY <1>2, <1>5, <1>6 DEF ClosedEvents
<1>9. Cardinality(ClosedEvents') = Cardinality(ClosedEvents) + 1
  BY <1>8, EventSets, FS_AddElement DEF ClosedEvents
<1>10. finished = Cardinality(ClosedEvents)
  BY <1>1 DEF EachEventOnce, ClosedEvents
<1>11. finished' = Cardinality(ClosedEvents')
  BY <1>3, <1>9, <1>10
<1>12. \A q, r \in InFlight' : event'[q] = event'[r] => q = r
  BY <1>1, <1>4, <1>7 DEF EachEventOnce
<1>13. \A q \in InFlight' : event'[q] \in Begun' /\ closed'[event'[q]] = 0
  BY <1>1, <1>4, <1>6, <1>7 DEF EachEventOnce
<1>14. Begun \subseteq Event
  BY DEF Begun, Event, KernelInv, TypeOK
<1>15. \A d \in Begun' : closed'[d] = 1 \/ (closed'[d] = 0 /\ \E q \in InFlight' : event'[q] = d)
  <2> SUFFICES ASSUME NEW d \in Begun
               PROVE  closed'[d] = 1 \/ (closed'[d] = 0 /\ \E q \in InFlight' : event'[q] = d)
    BY <1>4
  <2>1. CASE d = e
    BY <1>6, <2>1
  <2>2. CASE d # e
    <3>1. closed'[d] = closed[d]
      BY <1>6, <1>14, <2>2
    <3>2. CASE closed[d] = 1
      BY <3>1, <3>2
    <3>3. CASE closed[d] # 1
      <4>1. PICK q \in InFlight : closed[d] = 0 /\ event[q] = d
        BY <1>1, <3>3 DEF EachEventOnce
      <4>2. q \in InFlight'
        BY <1>4, <2>2, <4>1
      <4> QED
        BY <1>7, <3>1, <4>1, <4>2
    <3> QED
      BY <3>2, <3>3
  <2> QED
    BY <2>1, <2>2
<1>16. \A d \in Event \ Begun' : closed'[d] = 0
  BY <1>1, <1>4, <1>5, <1>6 DEF EachEventOnce
<1> QED
  BY <1>11, <1>12, <1>13, <1>15, <1>16 DEF EachEventOnce, ClosedEvents

LEMMA EventStep == KernelInv /\ EachEventOnce /\ [Next]_vars => EachEventOnce'
<1> SUFFICES ASSUME KernelInv, EachEventOnce, [Next]_vars PROVE EachEventOnce'
  OBVIOUS
<1>1. CASE RunGroup \/ RunSequential
  BY <1>1, EventReset
<1>2. CASE \E p \in Processors : TakeEvent(p) \/ Finish(p) \/ NotifyException(p)
  BY <1>2, EventTaken, EventClosed
<1>3. CASE /\ ~(RunGroup \/ RunSequential)
           /\ ~\E p \in Processors : TakeEvent(p) \/ Finish(p) \/ NotifyException(p)
  <2>1. UNCHANGED <<event, closed, todo, finished, runs>>
    BY <1>3, EventFrame
  <2>2. UNCHANGED <<InFlight, Begun>>
    BY <2>1 DEF InFlight, Begun
  <2> QED
    BY <2>1, <2>2 DEF EachEventOnce
<1> QED
  BY <1>1, <1>2, <1>3

\* Whatever the number of processors and however they interleave, throw or are
\* stopped, TakeEvent gives every event number to one of them once, and
\* events_finished counts the events that were notified.
THEOREM EventsOnce == Spec => []EachEventOnce
<1>1. Init => EachEventOnce
  BY DEF Init, EachEventOnce
<1>2. KernelInv /\ EachEventOnce /\ [Next]_vars => EachEventOnce'
  BY EventStep
<1> QED
  BY <1>1, <1>2, KernelInvariant, PTL DEF Spec

-----------------------------------------------------------------------------
(***************************************************************************)
(* Input entries.                                                          *)
(***************************************************************************)
Position == Entry \cup {NoEntry}
Loading == \E p \in Processors : At(p, "load")

LEMMA BeforeOrder ==
  /\ \A x \in Position : Before(x, x)
  /\ \A x, y \in Position : Before(x, y) /\ Before(y, x) => x = y
  /\ \A x, y, z \in Position : Before(x, y) /\ Before(y, z) => Before(x, z)
<1>1. \A x \in Position : x = <<x[1], x[2]>> /\ x[1] \in Nat /\ x[2] \in Nat
  BY EntryPairs DEF Position, NoEntry
<1>2. \A x \in Position : Before(x, x)
  BY <1>1 DEF Before
<1>3. ASSUME NEW x \in Position, NEW y \in Position, Before(x, y), Before(y, x)
      PROVE  x = y
  <2>1. x[1] = y[1] /\ x[2] = y[2]
    BY <1>1, <1>3 DEF Before
  <2> QED
    BY <1>1, <2>1
<1>4. \A x, y, z \in Position : Before(x, y) /\ Before(y, z) => Before(x, z)
  BY <1>1 DEF Before
<1> QED
  BY <1>2, <1>3, <1>4

\* Under the I/O lock one processor at a time has a position to read.
LEMMA OneReader ==
  ASSUME KernelInv, NEW p \in Processors, NEW q \in Processors,
         pc[p] \in {"read", "load", "convert"}, pc[q] \in {"read", "load", "convert"}
  PROVE  p = q
BY DEF KernelInv, Placed

\* The position and the reader change in two places only.
LEMMA EntryFrame ==
  ASSUME KernelInv, [Next]_vars,
         ~\E p \in Processors : NextEntry(p) \/ LoadEntry(p)
  PROVE  UNCHANGED <<loaded, source, Loading>>
<1> USE DEF KernelInv, TypeOK, At, Goto, Loading
<1>1. CASE UNCHANGED vars
  BY <1>1 DEF vars, history
<1>2. CASE RunGroup \/ RunSequential
  <2>1. mode = "idle" /\ UNCHANGED <<loaded, source>>
    BY <1>2 DEF RunGroup, RunSequential, Reset
  <2>2. \A p \in Processors : pc[p] = "off" /\ pc'[p] # "load"
    BY <1>2, <2>1 DEF RunGroup, RunSequential, Placed
  <2> QED
    BY <2>1, <2>2
<1>3. CASE Loop \/ UserStop
  <2>1. UNCHANGED <<loaded, source>>
    BY <1>3 DEF Loop, Turn, Return, UserStop, history
  <2>2. UNCHANGED pc \/ (AllOff /\ pc' = [pc EXCEPT ![Main] = "loop"])
    BY <1>3 DEF Loop, Turn, Return, UserStop
  <2> QED
    BY <2>1, <2>2 DEF AllOff
<1>4. ASSUME NEW p \in Processors, Process(p), ~NextEntry(p), ~LoadEntry(p)
      PROVE  UNCHANGED <<loaded, source, Loading>>
  <2>1. CASE TakeEvent(p) \/ EndProcessor(p) \/ LockInput(p) \/ InputExhausted(p)
    BY <2>1 DEF TakeEvent, EndProcessor, LockInput, InputExhausted, history
  <2>2. CASE SubmitAction(p) \/ JoinActions(p)
               \/ (\E i \in Action : BeginAction(p, i) \/ EndAction(p, i))
    BY <2>2 DEF SubmitAction, JoinActions, BeginAction, EndAction, history
  <2>3. CASE LockOutput(p) \/ (\E c \in Containers : ConvertContainer(p, c))
               \/ CommitOutput(p) \/ Throw(p)
    BY <2>3 DEF LockOutput, ConvertContainer, CommitOutput, Throw, history
  <2>4. CASE Finish(p) \/ NotifyException(p)
    BY <2>4 DEF Finish, NotifyException, Closed
  <2> QED
    BY <1>4, <2>1, <2>2, <2>3, <2>4 DEF Process
<1> QED
  BY <1>1, <1>2, <1>3, <1>4 DEF Next

LEMMA EntryPassed ==
  ASSUME KernelInv, EntriesOnce, NEW p \in Processors, NextEntry(p)
  PROVE  EntriesOnce'
<1>1. PICK x \in Entry : IsNext(x) /\ source' = x
  BY DEF NextEntry
<1>2. pc[p] = "read" /\ pc' = [pc EXCEPT ![p] = "load"] /\ loaded' = loaded
  BY DEF NextEntry, At, Goto, history
<1>3. ~Loading
  BY <1>2, OneReader DEF Loading, At
<1>4. Loading'
  BY <1>2 DEF Loading, At, KernelInv, TypeOK
<1>5. source \in Position /\ Entry \subseteq Position
  BY DEF Position, KernelInv, TypeOK
<1> SUFFICES ASSUME NEW y \in Entry
             PROVE  loaded[y] = IF Before(y, x) /\ y # x THEN 1 ELSE 0
  BY <1>1, <1>2, <1>4 DEF EntriesOnce, Loading
<1>6. loaded[y] = IF Before(y, source) THEN 1 ELSE 0
  BY <1>3 DEF EntriesOnce, Loading
<1>7. CASE Before(y, source)
  BY <1>1, <1>5, <1>6, <1>7, BeforeOrder DEF IsNext
<1>8. CASE ~Before(y, source)
  BY <1>1, <1>5, <1>6, <1>8, BeforeOrder DEF IsNext
<1> QED
  BY <1>7, <1>8

LEMMA EntryLoaded ==
  ASSUME KernelInv, EntriesOnce, NEW p \in Processors, LoadEntry(p)
  PROVE  EntriesOnce'
<1>1. pc[p] = "load" /\ source \in Entry /\ source' = source
  BY DEF LoadEntry, At, KernelInv, Placed
<1>2. loaded' = [loaded EXCEPT ![source] = @ + 1] /\ loaded \in [Entry -> Nat]
  BY DEF LoadEntry, KernelInv, TypeOK
<1>3. Loading
  BY <1>1 DEF Loading, At
<1>4. ~Loading'
  <2>1. \/ pc' = [pc EXCEPT ![p] = "work"]
        \/ pc' = [pc EXCEPT ![p] = "throw"]
    BY DEF LoadEntry, Goto
  <2>2. \A q \in Processors : pc[q] = "load" => q = p
    BY <1>1, OneReader
  <2>3. pc \in [Processors -> Stage]
    BY DEF KernelInv, TypeOK
  <2> QED
    BY <2>1, <2>2, <2>3 DEF Loading, At
<1> SUFFICES ASSUME NEW y \in Entry
             PROVE  loaded'[y] = IF Before(y, source) THEN 1 ELSE 0
  BY <1>1, <1>4 DEF EntriesOnce, Loading
<1>5. loaded[y] = IF Before(y, source) /\ y # source THEN 1 ELSE 0
  BY <1>3 DEF EntriesOnce, Loading
<1>6. Before(source, source)
  BY <1>1, BeforeOrder DEF Position
<1> QED
  BY <1>1, <1>2, <1>5, <1>6

LEMMA EntryInit == Init => EntriesOnce
<1> SUFFICES ASSUME Init, NEW x \in Entry PROVE loaded[x] = 0 /\ ~Before(x, source)
  BY DEF EntriesOnce
<1> QED
  BY EntryPairs DEF Init, Before, NoEntry

LEMMA EntryStep == KernelInv /\ EntriesOnce /\ [Next]_vars => EntriesOnce'
<1> SUFFICES ASSUME KernelInv, EntriesOnce, [Next]_vars PROVE EntriesOnce'
  OBVIOUS
<1>1. CASE \E p \in Processors : NextEntry(p) \/ LoadEntry(p)
  BY <1>1, EntryPassed, EntryLoaded
<1>2. CASE ~\E p \in Processors : NextEntry(p) \/ LoadEntry(p)
  BY <1>2, EntryFrame DEF EntriesOnce, Loading
<1> QED
  BY <1>1, <1>2

\* The global I/O lock makes the position of the input one processor's own from
\* the moment it advances it until the entry is read: whatever the files hold, no
\* entry is skipped and none is read for two events.
THEOREM EntriesReadOnce == Spec => []EntriesOnce
<1>1. KernelInv /\ EntriesOnce /\ [Next]_vars => EntriesOnce'
  BY EntryStep
<1> QED
  BY <1>1, EntryInit, KernelInvariant, PTL DEF Spec

-----------------------------------------------------------------------------
(***************************************************************************)
(* Output frames.                                                          *)
(***************************************************************************)
\* The actions of an event run while it is at work; past that point all of them
\* are done, unless a stop was asked for.
Worked(p) ==
  /\ running[p] # {} => pc[p] = "work"
  /\ pc[p] \in {"output", "convert"} => stop \/ worked[p] = Action

WorkInv == \A p \in Processors : Worked(p)

Current == {x \in frame : x.run = runs}
Writers == {w.by : w \in written}

\* Events of this run the frame w holds something of.
Marked(w) == {w.by} \cup {x.event : x \in {y \in w.content : y.run = runs}}

\* What the collections hold of the event in the hands of p comes from its own
\* conversion, and what was written no longer changes.
FrameOf(p) ==
  /\ \A x \in Current :
       x.event = event[p] => pc[p] \in {"convert", "throw"}
                             /\ (pc[p] = "convert" => x.work = worked[p])
  /\ \A w \in written : event[p] \in Marked(w) => pc[p] \in {"end", "throw"}

FrameInv ==
  /\ \A x \in frame : x.run <= runs
  /\ \A x \in Current : x.event \in Begun /\ x.event \notin Writers
  /\ \A w \in written : Marked(w) \subseteq Begun /\ \A x \in w.content : x.run <= runs
  /\ \A p \in Processors : FrameOf(p)
  /\ FramesWhole

LEMMA WorkStep == KernelInv /\ WorkInv /\ [Next]_vars => WorkInv'
<1> SUFFICES ASSUME KernelInv, WorkInv, [Next]_vars, NEW q \in Processors PROVE Worked(q)'
  BY DEF WorkInv
<1>0. TypeOK /\ Worked(q) /\ Placed(q)
  BY DEF KernelInv, WorkInv
<1> USE <1>0, KernelAssumptions DEF TypeOK, Worked, At, Goto
<1>1. CASE UNCHANGED vars
  BY <1>1 DEF vars, tasks
<1>2. CASE RunGroup \/ RunSequential
  <2>1. mode = "idle" /\ UNCHANGED running
    BY <1>2 DEF RunGroup, RunSequential, Reset, tasks
  <2>2. pc[q] = "off" /\ pc'[q] \in {"off", "loop"}
    BY <1>2, <2>1 DEF RunGroup, RunSequential, Placed
  <2> QED
    BY <2>1, <2>2
<1>3. CASE Loop \/ UserStop
  BY <1>3 DEF Loop, Turn, Return, UserStop, AllOff, tasks
<1>4. ASSUME NEW p \in Processors,
             TakeEvent(p) \/ EndProcessor(p) \/ LockInput(p) \/ NextEntry(p)
      PROVE  Worked(q)'
  BY <1>4 DEF TakeEvent, EndProcessor, LockInput, NextEntry, tasks
<1>5. ASSUME NEW p \in Processors, InputExhausted(p) \/ LoadEntry(p) PROVE Worked(q)'
  <2>1. \/ pc' = [pc EXCEPT ![p] = "work"]
        \/ pc' = [pc EXCEPT ![p] = "throw"]
    BY <1>5 DEF InputExhausted, LoadEntry
  <2>2. pc[p] \in {"read", "load"} /\ UNCHANGED <<running, worked, stop>>
    BY <1>5 DEF InputExhausted, LoadEntry, tasks
  <2> QED
    BY <2>1, <2>2
<1>6. ASSUME NEW p \in Processors, SubmitAction(p) PROVE Worked(q)'
  BY <1>6 DEF SubmitAction
<1>7. ASSUME NEW p \in Processors, NEW i \in Action, BeginAction(p, i) PROVE Worked(q)'
  BY <1>7 DEF BeginAction
<1>8. ASSUME NEW p \in Processors, NEW i \in Action, EndAction(p, i) PROVE Worked(q)'
  <2>1. running' = [running EXCEPT ![p] = @ \ {i}] /\ i \in running[p]
        /\ UNCHANGED <<pc, stop>>
    BY <1>8 DEF EndAction
  <2>2. CASE q = p
    <3>1. pc[q] = "work"
      BY <2>1, <2>2
    <3> QED
      BY <2>1, <3>1
  <2>3. CASE q # p
    <3>1. worked'[q] = worked[q]
      BY <1>8, <2>3 DEF EndAction
    <3> QED
      BY <2>1, <2>3, <3>1
  <2> QED
    BY <2>2, <2>3
<1>9. ASSUME NEW p \in Processors, JoinActions(p) PROVE Worked(q)'
  <2>1. /\ pc' = [pc EXCEPT ![p] = IF failed[p] THEN "throw" ELSE "output"]
        /\ running[p] = {} /\ (stop => stop') /\ UNCHANGED <<running, worked>>
    BY <1>9 DEF JoinActions, Joined, tasks
  <2>2. failed[p] \/ stop \/ worked[p] = Action
    BY <1>9 DEF JoinActions, Joined, AllSubmitted, Action
  <2>3. CASE q = p
    <3>1. pc'[q] = IF failed[p] THEN "throw" ELSE "output"
      BY <2>1, <2>3
    <3> QED
      BY <2>1, <2>2, <2>3, <3>1
  <2>4. CASE q # p
    BY <2>1, <2>4
  <2> QED
    BY <2>3, <2>4
<1>10. ASSUME NEW p \in Processors,
              LockOutput(p) \/ CommitOutput(p) \/ Throw(p)
                \/ \E c \in Containers : ConvertContainer(p, c)
       PROVE  Worked(q)'
  BY <1>10 DEF LockOutput, CommitOutput, Throw, ConvertContainer, tasks
<1>11. ASSUME NEW p \in Processors, Finish(p) \/ NotifyException(p) PROVE Worked(q)'
  <2>1. pc[p] \in {"end", "throw"} /\ Closed(p) /\ (stop => stop')
    BY <1>11 DEF Finish, NotifyException
  <2> QED
    BY <2>1 DEF Closed
<1> QED
  BY <1>1, <1>2, <1>3, <1>4, <1>5, <1>6, <1>7, <1>8, <1>9, <1>10, <1>11 DEF Next, Process

\* A step that hands q another event, or leaves it beyond what it wrote.
Kept(q) ==
  \/ event'[q] \notin Begun
  \/ /\ event'[q] = event[q]
     /\ pc[q] \in {"convert", "throw"} =>
          /\ pc'[q] \in {"convert", "throw"}
          /\ pc'[q] = "convert" => pc[q] = "convert" /\ worked'[q] = worked[q]
     /\ pc[q] \in {"end", "throw"} => pc'[q] \in {"end", "throw"}

LEMMA FrameKept ==
  ASSUME FrameInv, UNCHANGED <<frame, written, runs>>, Begun \subseteq Begun',
         \A q \in Processors : Kept(q)
  PROVE  FrameInv'
<1>1. UNCHANGED <<Current, Writers, FramesWhole>>
  BY DEF Current, Writers, FramesWhole, Own
<1>2. \A w \in written : Marked(w)' = Marked(w)
  BY DEF Marked
<1>3. \A x \in Current : x.event \in Begun
  BY DEF FrameInv
<1>4. \A w \in written : Marked(w) \subseteq Begun
  BY DEF FrameInv
<1>5. ASSUME NEW q \in Processors PROVE FrameOf(q)'
  <2>1. FrameOf(q) /\ Kept(q)
    BY DEF FrameInv
  <2>2. ASSUME NEW x \in Current, x.event = event'[q]
        PROVE  pc'[q] \in {"convert", "throw"} /\ (pc'[q] = "convert" => x.work = worked'[q])
    <3>1. event'[q] \in Begun
      BY <1>3, <2>2
    <3>2. x.event = event[q]
      BY <2>1, <2>2, <3>1 DEF Kept
    <3> QED
      BY <2>1, <2>2, <3>1, <3>2 DEF Kept, FrameOf
  <2>3. ASSUME NEW w \in written, event'[q] \in Marked(w)
        PROVE  pc'[q] \in {"end", "throw"}
    <3>1. event'[q] \in Begun
      BY <1>4, <2>3
    <3>2. event'[q] = event[q]
      BY <2>1, <3>1 DEF Kept
    <3> QED
      BY <2>1, <2>3, <3>1, <3>2 DEF Kept, FrameOf
  <2> QED
    BY <1>1, <1>2, <2>2, <2>3 DEF FrameOf
<1> QED
  BY <1>1, <1>2, <1>5 DEF FrameInv

LEMMA FrameReset ==
  ASSUME KernelInv, FrameInv, RunGroup \/ RunSequential
  PROVE  FrameInv'
<1>1. mode = "idle" /\ runs' = runs + 1 /\ written' = {} /\ frame' = frame
  BY DEF RunGroup, RunSequential, Reset
<1>2. runs \in Nat /\ \A x \in frame : x.run \in Nat /\ x.run <= runs
  BY KernelAssumptions DEF KernelInv, TypeOK, Content, FrameInv
<1>3. Current' = {} /\ \A x \in frame' : x.run <= runs'
  BY <1>1, <1>2 DEF Current
<1> QED
  BY <1>1, <1>3 DEF FrameInv, FrameOf, FramesWhole

LEMMA FrameConverted ==
  ASSUME KernelInv, EachEventOnce, FrameInv, NEW p \in Processors, NEW c \in Containers,
         ConvertContainer(p, c)
  PROVE  FrameInv'
<1> DEFINE new == [run |-> runs, event |-> event[p], container |-> c, work |-> worked[p]]
<1>1. frame' = frame \cup {new} /\ UNCHANGED <<written, runs, event, pc, worked, todo>>
  BY DEF ConvertContainer, tasks, counters, history
<1>2. pc[p] = "convert" /\ runs \in Nat /\ runs > 0 /\ event[p] # 0
  BY DEF ConvertContainer, At, KernelInv, TypeOK, Placed
<1>3. p \in InFlight /\ event[p] \in Begun
  BY <1>2 DEF InFlight, EachEventOnce
<1>4. \A q \in Processors : event[q] = event[p] => q = p
  BY <1>2, <1>3 DEF EachEventOnce, InFlight
<1>5. Current' = Current \cup {new}
  BY <1>1 DEF Current
<1>6. UNCHANGED <<Writers, Begun, FramesWhole>> /\ \A w \in written : Marked(w)' = Marked(w)
  BY <1>1 DEF Writers, Begun, FramesWhole, Own, Marked
<1>7. event[p] \notin Writers
  BY <1>2 DEF FrameInv, FrameOf, Marked, Writers
<1>8. \A q \in Processors : FrameOf(q)'
  BY <1>1, <1>2, <1>4, <1>5, <1>6 DEF FrameInv, FrameOf
<1>9. \A x \in frame' : x.run <= runs'
  BY <1>1, <1>2 DEF FrameInv
<1>10. \A x \in Current' : x.event \in Begun' /\ x.event \notin Writers'
  BY <1>3, <1>5, <1>6, <1>7 DEF FrameInv
<1> QED
  BY <1>1, <1>6, <1>8, <1>9, <1>10 DEF FrameInv

LEMMA FrameCommitted ==
  ASSUME KernelInv, EachEventOnce, WorkInv, FrameInv, NEW p \in Processors, CommitOutput(p)
  PROVE  FrameInv'
<1> DEFINE new == [by |-> event[p], content |-> frame, stopped |-> stop]
<1>1. /\ written' = written \cup {new} /\ frame' = {}
      /\ pc' = [pc EXCEPT ![p] = "end"] /\ UNCHANGED <<runs, event, worked, todo>>
  BY DEF CommitOutput, tasks, counters, Goto
<1>2. pc[p] = "convert" /\ runs \in Nat /\ runs > 0 /\ event[p] # 0
      /\ pc \in [Processors -> Stage]
  BY DEF CommitOutput, At, KernelInv, TypeOK, Placed
<1>3. p \in InFlight /\ event[p] \in Begun
  BY <1>2 DEF InFlight, EachEventOnce
<1>4. \A q \in Processors : event[q] = event[p] => q = p
  BY <1>2, <1>3 DEF EachEventOnce, InFlight
<1>5. UNCHANGED Begun /\ \A w : Marked(w)' = Marked(w)
  BY <1>1 DEF Begun, Marked
<1>6. Marked(new) = {event[p]} \cup {x.event : x \in Current}
  BY DEF Marked, Current
<1>7. \A x \in Current : x.event \in Begun /\ x.event \notin Writers
  BY DEF FrameInv
<1>8. \A w \in written : event[p] \notin Marked(w)
  BY <1>2 DEF FrameInv, FrameOf
<1>9. ASSUME NEW q \in Processors PROVE FrameOf(q)'
  <2>1. pc[q] = "convert" => q = p
    BY <1>2, OneReader
  <2>2. ASSUME NEW w \in written', event'[q] \in Marked(w)
        PROVE  pc'[q] \in {"end", "throw"}
    <3>1. CASE q = p
      BY <1>1, <1>2, <3>1
    <3>2. CASE q # p /\ w \in written
      BY <1>1, <1>2, <2>2, <3>2 DEF FrameInv, FrameOf
    <3>3. CASE q # p /\ w = new
      <4>1. PICK x \in Current : x.event = event[q]
        BY <1>1, <1>4, <1>6, <2>2, <3>3
      <4>2. pc[q] \in {"convert", "throw"}
        BY <4>1 DEF FrameInv, FrameOf
      <4> QED
        BY <1>1, <1>2, <2>1, <3>3, <4>2
    <3> QED
      BY <1>1, <2>2, <3>1, <3>2, <3>3
  <2> QED
    BY <1>1, <1>5, <2>2 DEF FrameOf, Current
<1>10. ASSUME NEW w \in written'
       PROVE  Marked(w)' \subseteq Begun' /\ \A x \in w.content : x.run <= runs'
  BY <1>1, <1>3, <1>5, <1>6, <1>7, <1>10 DEF FrameInv
<1>11. FramesWhole'
  <2>1. \A w : Own(w)' = Own(w)
    BY <1>1 DEF Own
  <2>2. ASSUME NEW w, w = new
        PROVE  /\ {x.container : x \in Own(w)'} = Containers
               /\ ~w.stopped => \A x \in Own(w)' : x.work = Action
               /\ \A x \in w.content \ Own(w)' :
                    x.run < runs' \/ x.event \notin {v.by : v \in written'}
    <3>0. w.by = event[p] /\ w.content = frame /\ w.stopped = stop
      BY <2>2
    <3>1. Own(w)' = Converted(p)
      BY <2>1, <3>0 DEF Own, Converted
    <3>2. {x.container : x \in Own(w)'} = Containers
      BY <3>1 DEF CommitOutput
    <3>3. ASSUME ~w.stopped, NEW x \in Own(w)' PROVE x.work = Action
      <4>1. worked[p] = Action
        BY <1>2, <3>0, <3>3 DEF WorkInv, Worked
      <4> QED
        BY <1>2, <3>1, <3>3, <4>1 DEF FrameInv, FrameOf, Converted, Current
    <3>4. ASSUME NEW x \in w.content \ Own(w)', ~(x.run < runs')
          PROVE  x.event \notin {v.by : v \in written'}
      <4>1. x \in frame /\ (x.run = runs => x.event # event[p])
        BY <3>0, <3>1, <3>4 DEF Converted
      <4>2. x.run \in Nat /\ x.run <= runs
        BY <4>1, KernelAssumptions DEF FrameInv, KernelInv, TypeOK, Content
      <4>3. x.run = runs
        BY <1>1, <1>2, <3>4, <4>2
      <4>4. x.event \notin Writers
        BY <1>7, <4>1, <4>3 DEF Current
      <4> QED
        BY <1>1, <4>1, <4>3, <4>4 DEF Writers
    <3> QED
      BY <3>2, <3>3, <3>4
  <2>3. ASSUME NEW w \in written
        PROVE  /\ {x.container : x \in Own(w)'} = Containers
               /\ ~w.stopped => \A x \in Own(w)' : x.work = Action
               /\ \A x \in w.content \ Own(w)' :
                    x.run < runs' \/ x.event \notin {v.by : v \in written'}
    <3>1. /\ {x.container : x \in Own(w)} = Containers
          /\ ~w.stopped => \A x \in Own(w) : x.work = Action
          /\ \A x \in w.content \ Own(w) : x.run < runs \/ x.event \notin Writers
      BY DEF FrameInv, FramesWhole, Writers
    <3>2. ASSUME NEW x \in w.content \ Own(w), ~(x.run < runs)
          PROVE  x.event \notin {v.by : v \in written'}
      <4>1. x.run = runs
        <5>1. w.content \subseteq Content /\ x.run <= runs
          BY DEF KernelInv, TypeOK, FrameInv
        <5>2. x.run \in Nat
          BY <5>1, KernelAssumptions DEF Content
        <5> QED
          BY <1>2, <3>2, <5>1, <5>2
      <4>2. x.event \in Marked(w)
        BY <4>1 DEF Marked
      <4>3. x.event # event[p] /\ x.event \notin Writers
        BY <1>8, <3>1, <3>2, <4>2
      <4> QED
        BY <1>1, <4>3 DEF Writers
    <3> QED
      BY <1>1, <2>1, <3>1, <3>2
  <2> QED
    BY <1>1, <2>2, <2>3 DEF FramesWhole
<1> QED
  BY <1>1, <1>9, <1>10, <1>11 DEF FrameInv, Current

\* The steps that touch neither the collections nor what was written.
LEMMA FrameOthers ==
  ASSUME KernelInv, WorkInv, [Next]_vars,
         ~(RunGroup \/ RunSequential),
         ~\E p \in Processors : CommitOutput(p) \/ \E c \in Containers : ConvertContainer(p, c)
  PROVE  /\ UNCHANGED <<frame, written, runs>> /\ Begun \subseteq Begun'
         /\ \A q \in Processors : Kept(q)
<1> DEFINE Still == UNCHANGED <<frame, written, runs>> /\ Begun \subseteq Begun'
<1> USE DEF At, Goto, Kept
<1>0. TypeOK
  BY DEF KernelInv
<1>1. CASE UNCHANGED vars
  BY <1>1 DEF vars, counters, history, tasks, Begun
<1>2. CASE Loop \/ UserStop
  <2>1. Still /\ UNCHANGED <<event, worked>>
    BY <1>2 DEF Loop, Turn, Return, UserStop, counters, history, tasks, Begun
  <2>2. UNCHANGED pc \/ (AllOff /\ pc' = [pc EXCEPT ![Main] = "loop"])
    BY <1>2 DEF Loop, Turn, Return, UserStop
  <2> QED
    BY <2>1, <2>2 DEF AllOff
<1>3. ASSUME NEW p \in Processors, TakeEvent(p)
      PROVE  Still /\ \A q \in Processors : Kept(q)
  <2>1. todo \in Nat /\ todo' = todo - 1 /\ event' = [event EXCEPT ![p] = NumEvents - todo']
        /\ UNCHANGED <<frame, written, runs, worked>> /\ pc' = [pc EXCEPT ![p] = "start"]
    BY <1>0, <1>3, KernelAssumptions DEF TakeEvent, TypeOK, history, tasks
  <2>2. Still /\ NumEvents - todo' \notin Begun
    BY <2>1, KernelAssumptions DEF Begun
  <2> QED
    BY <1>0, <2>1, <2>2 DEF TypeOK
<1>4. ASSUME NEW p \in Processors, Process(p), ~TakeEvent(p), ~CommitOutput(p),
             ~\E c \in Containers : ConvertContainer(p, c)
      PROVE  Still /\ \A q \in Processors : Kept(q)
  <2> USE <1>0 DEF TypeOK, counters, history, tasks, Begun
  <2>1. CASE EndProcessor(p) \/ LockInput(p) \/ NextEntry(p)
    BY <2>1 DEF EndProcessor, LockInput, NextEntry
  <2>2. CASE InputExhausted(p) \/ LoadEntry(p)
    <3>1. \/ pc' = [pc EXCEPT ![p] = "work"]
          \/ pc' = [pc EXCEPT ![p] = "throw"]
      BY <2>2 DEF InputExhausted, LoadEntry
    <3>2. pc[p] \in {"read", "load"} /\ Still /\ UNCHANGED <<event, worked>>
      BY <2>2 DEF InputExhausted, LoadEntry
    <3> QED
      BY <3>1, <3>2
  <2>3. CASE SubmitAction(p) \/ \E i \in Action : BeginAction(p, i)
    BY <2>3 DEF SubmitAction, BeginAction
  <2>4. ASSUME NEW i \in Action, EndAction(p, i)
        PROVE  Still /\ \A q \in Processors : Kept(q)
    <3>1. Still /\ UNCHANGED <<event, pc>>
      BY <2>4 DEF EndAction
    <3>2. \A q \in Processors : q # p => worked'[q] = worked[q]
      BY <2>4 DEF EndAction
    <3>3. pc[p] = "work"
      BY <2>4 DEF EndAction, WorkInv, Worked
    <3> QED
      BY <3>1, <3>2, <3>3
  <2>5. CASE JoinActions(p)
    BY <2>5 DEF JoinActions
  <2>6. CASE LockOutput(p) \/ Throw(p)
    BY <2>6 DEF LockOutput, Throw
  <2>7. CASE Finish(p) \/ NotifyException(p)
    <3>1. Closed(p)
      BY <2>7 DEF Finish, NotifyException
    <3>2. Still /\ event' = [event EXCEPT ![p] = 0] /\ pc' = [pc EXCEPT ![p] = "loop"]
          /\ worked' = [worked EXCEPT ![p] = {}]
      BY <3>1 DEF Closed
    <3> QED
      BY <3>2
  <2> QED
    BY <1>4, <2>1, <2>2, <2>3, <2>4, <2>5, <2>6, <2>7 DEF Process
<1> QED
  BY <1>1, <1>2, <1>3, <1>4 DEF Next

LEMMA FrameStep ==
  KernelInv /\ EachEventOnce /\ WorkInv /\ FrameInv /\ [Next]_vars => FrameInv'
<1> SUFFICES ASSUME KernelInv, EachEventOnce, WorkInv, FrameInv, [Next]_vars PROVE FrameInv'
  OBVIOUS
<1>1. CASE RunGroup \/ RunSequential
  BY <1>1, FrameReset
<1>2. CASE \E p \in Processors :
             CommitOutput(p) \/ \E c \in Containers : ConvertContainer(p, c)
  BY <1>2, FrameCommitted, FrameConverted
<1>3. CASE /\ ~(RunGroup \/ RunSequential)
           /\ ~\E p \in Processors :
                CommitOutput(p) \/ \E c \in Containers : ConvertContainer(p, c)
  BY <1>3, FrameOthers, FrameKept
<1> QED
  BY <1>1, <1>2, <1>3

LEMMA FrameInit == Init => WorkInv /\ FrameInv
BY DEF Init, WorkInv, Worked, FrameInv, FrameOf, FramesWhole, Current

\* What is handed to the writer for an event is whole, and none of it belongs to
\* another event of the run that was or will be written: the collections all events share are
\* filled by one processor from its first container to its commit.
THEOREM FramesComplete == Spec => []FramesWhole
<1>1. KernelInv /\ WorkInv /\ [Next]_vars => WorkInv'
  BY WorkStep
<1>2. KernelInv /\ EachEventOnce /\ WorkInv /\ FrameInv /\ [Next]_vars => FrameInv'
  BY FrameStep
<1>3. FrameInv => FramesWhole
  BY DEF FrameInv
<1> QED
  BY <1>1, <1>2, <1>3, FrameInit, KernelInvariant, EventsOnce, PTL DEF Spec

-----------------------------------------------------------------------------
(***************************************************************************)
(* The loop implements module EventLoop, its liveness apart.               *)
(***************************************************************************)
Busy == {p \in Processors : pc[p] # "off"}
Numbers == {event[p] : p \in InFlight}

\* A group has no more processors than may run in parallel, a sequential loop has
\* one.  A processor that ends leaves a stop or nothing to do.
LoopInv ==
  /\ tbb_init => runs > 0
  /\ UseTBB /\ ~tbb_init => runs = 0
  /\ mode = "group" =>
       /\ UseTBB /\ runs = 1
       /\ Cardinality(Busy) <= MaxParallel
       /\ AllOff => stop \/ todo = 0
  /\ mode = "sequential" => Limit = 1 /\ Busy \subseteq {Main}

LEMMA BusySets ==
  /\ IsFiniteSet(Processors)
  /\ \A S \in SUBSET Processors : IsFiniteSet(S) /\ Cardinality(S) \in Nat
  /\ \A S, T \in SUBSET Processors : S \subseteq T => Cardinality(S) <= Cardinality(T)
BY KernelAssumptions, FS_Subset, FS_CardinalityType

LEMMA BusyStep ==
  ASSUME KernelInv, WorkInv, NEW p \in Processors, Process(p)
  PROVE  /\ UNCHANGED <<mode, runs, tbb_init>>
         /\ Busy' \subseteq Busy
         /\ AllOff' => stop' \/ todo' = 0
<1> USE DEF At, Goto, Busy, AllOff, KernelInv, TypeOK, counters, history, tasks
<1>1. CASE EndProcessor(p)
  BY <1>1 DEF EndProcessor
<1>2. CASE TakeEvent(p) \/ LockInput(p) \/ NextEntry(p) \/ InputExhausted(p) \/ LockOutput(p)
  BY <1>2 DEF TakeEvent, LockInput, NextEntry, InputExhausted, LockOutput
<1>3. CASE LoadEntry(p)
  BY <1>3 DEF LoadEntry
<1>4. CASE SubmitAction(p) \/ (\E i \in Action : BeginAction(p, i))
  BY <1>4 DEF SubmitAction, BeginAction
<1>5. ASSUME NEW i \in Action, EndAction(p, i)
      PROVE  /\ UNCHANGED <<mode, runs, tbb_init, pc, stop, todo>>
             /\ ~AllOff
  BY <1>5 DEF EndAction, WorkInv, Worked
<1>6. CASE JoinActions(p) \/ Throw(p) \/ CommitOutput(p)
             \/ (\E c \in Containers : ConvertContainer(p, c))
  BY <1>6 DEF JoinActions, Throw, CommitOutput, ConvertContainer
<1>7. CASE Finish(p) \/ NotifyException(p)
  BY <1>7 DEF Finish, NotifyException, Closed
<1> QED
  BY <1>1, <1>2, <1>3, <1>4, <1>5, <1>6, <1>7 DEF Process

LEMMA LoopStep ==
  ASSUME MaxParallel > 0, KernelInv, WorkInv, LoopInv, [Next]_vars
  PROVE  LoopInv'
<1>0. /\ runs \in Nat /\ mode \in {"idle", "group", "sequential"}
      /\ pc \in [Processors -> Stage] /\ tbb_init \in BOOLEAN
  BY KernelAssumptions DEF KernelInv, TypeOK
<1>1. CASE UNCHANGED vars
  BY <1>1 DEF vars, counters, LoopInv, Limit, Busy, AllOff
<1>2. CASE RunGroup
  <2>1. /\ UseTBB /\ runs = 0 /\ runs' = 1 /\ mode' = "group" /\ tbb_init'
        /\ stop' = FALSE /\ todo' = NumEvents
    BY <1>2 DEF RunGroup, Reset, LoopInv
  <2>2. PICK G \in SUBSET Processors :
          /\ IF NumProc > 0 THEN Cardinality(G) = NumProc ELSE G = {}
          /\ pc' = [p \in Processors |-> IF p \in G THEN "loop" ELSE "off"]
    BY <1>2 DEF RunGroup
  <2>3. Busy' = G
    BY <2>2 DEF Busy
  <2>4. NumProc > 0 /\ NumProc <= MaxParallel
    BY KernelAssumptions DEF NumProc
  <2>5. Cardinality(Busy') <= MaxParallel
    BY <2>2, <2>3, <2>4
  <2>6. ~AllOff'
    <3>1. G # {}
      BY <2>2, <2>4, FS_EmptySet
    <3> QED
      BY <2>2, <3>1 DEF AllOff
  <2> QED
    BY <2>1, <2>5, <2>6 DEF LoopInv
<1>3. CASE RunSequential
  <2>1. /\ runs' = runs + 1 /\ mode' = "sequential" /\ tbb_init' = tbb_init /\ pc' = pc
        /\ mode = "idle" /\ (tbb_init \/ ~UseTBB)
    BY <1>3 DEF RunSequential, Reset
  <2>2. Busy' = {}
    BY <2>1 DEF Busy, KernelInv, Placed
  <2>3. Limit' = 1
    BY <1>0, <2>1 DEF LoopInv, Limit
  <2> QED
    BY <1>0, <2>1, <2>2, <2>3 DEF LoopInv
<1>4. CASE Turn
  <2>1. UNCHANGED <<mode, runs, tbb_init>> /\ mode = "sequential"
    BY <1>4 DEF Turn
  <2>2. Busy' \subseteq {Main}
    BY <1>4, <1>0 DEF Turn, AllOff, Busy
  <2> QED
    BY <2>1, <2>2 DEF LoopInv, Limit
<1>5. CASE Return \/ UserStop
  <2>1. UNCHANGED <<runs, tbb_init, pc, todo>> /\ (mode' = mode \/ mode' = "idle") /\ (stop => stop')
    BY <1>5 DEF Return, UserStop, counters
  <2> QED
    BY <2>1 DEF LoopInv, Limit, Busy, AllOff
<1>6. ASSUME NEW p \in Processors, Process(p) PROVE LoopInv'
  <2>1. /\ UNCHANGED <<mode, runs, tbb_init>> /\ Busy' \subseteq Busy
        /\ AllOff' => stop' \/ todo' = 0
    BY <1>6, BusyStep
  <2>2. Cardinality(Busy') <= Cardinality(Busy)
        /\ Cardinality(Busy) \in Nat /\ Cardinality(Busy') \in Nat
    BY <2>1, BusySets DEF Busy
  <2> QED
    BY <2>1, <2>2, KernelAssumptions DEF LoopInv, Limit
<1> QED
  BY <1>1, <1>2, <1>3, <1>4, <1>5, <1>6 DEF Next, Loop

LEMMA NumbersSize == KernelInv => IsFiniteSet(Numbers) /\ Cardinality(Numbers) <= Cardinality(InFlight)
<1> SUFFICES ASSUME KernelInv
             PROVE  IsFiniteSet(Numbers) /\ Cardinality(Numbers) <= Cardinality(InFlight)
  OBVIOUS
<1> DEFINE number == [p \in InFlight |-> event[p]]
<1>1. number \in Surjection(InFlight, Numbers)
  BY DEF Surjection, Numbers
<1>2. IsFiniteSet(InFlight)
  BY BusySets DEF InFlight
<1> QED
  BY <1>1, <1>2, FS_Surjection

\* An event taken leaves room for itself: the processor that takes it has none.
LEMMA RoomToBegin ==
  ASSUME KernelInv, LoopInv, NEW p \in Processors, TakeEvent(p)
  PROVE  Cardinality(Numbers) < Limit
<1>1. pc[p] = "loop" /\ event[p] = 0 /\ mode # "idle"
  BY DEF TakeEvent, At, KernelInv, Placed
<1>2. InFlight \subseteq Busy \ {p} /\ p \in Busy
  BY <1>1 DEF InFlight, Busy, KernelInv, Placed
<1>3. Cardinality(Busy \ {p}) = Cardinality(Busy) - 1
  BY <1>2, BusySets, FS_RemoveElement DEF Busy
<1>4. Cardinality(InFlight) <= Cardinality(Busy \ {p})
  BY <1>2, BusySets DEF Busy, InFlight
<1>5. /\ Cardinality(Busy) \in Nat /\ Cardinality(InFlight) \in Nat
      /\ Cardinality(Numbers) \in Nat /\ Cardinality(Numbers) <= Cardinality(InFlight)
  BY NumbersSize, BusySets, FS_CardinalityType DEF Busy, InFlight
<1>6. Cardinality(Busy) <= Limit
  <2>1. CASE mode = "group"
    BY <2>1 DEF LoopInv, Limit
  <2>2. CASE mode = "sequential"
    <3>1. Busy = {Main} /\ Limit = 1
      BY <1>2, <2>2 DEF LoopInv
    <3>2. Cardinality({Main}) = 1
      BY FS_Singleton
    <3> QED
      BY <3>1, <3>2
  <2> QED
    BY <1>1, <2>1, <2>2 DEF KernelInv, TypeOK
<1>7. Limit \in Int
  BY KernelAssumptions DEF Limit
<1> QED
  BY <1>3, <1>4, <1>5, <1>6, <1>7

\* Within a run the stop flag is only set.
LEMMA StopStep ==
  ASSUME KernelInv, NEW p \in Processors, Process(p)
  PROVE  stop' = stop \/ stop' = TRUE
<1> USE DEF counters, history, tasks
<1>1. CASE TakeEvent(p) \/ EndProcessor(p) \/ LockInput(p) \/ NextEntry(p)
             \/ InputExhausted(p) \/ LoadEntry(p)
  BY <1>1 DEF TakeEvent, EndProcessor, LockInput, NextEntry, InputExhausted, LoadEntry
<1>2. CASE SubmitAction(p) \/ (\E i \in Action : BeginAction(p, i) \/ EndAction(p, i))
  BY <1>2 DEF SubmitAction, BeginAction, EndAction
<1>3. CASE JoinActions(p)
  BY <1>3 DEF JoinActions, KernelInv, TypeOK
<1>4. CASE LockOutput(p) \/ (\E c \in Containers : ConvertContainer(p, c))
             \/ CommitOutput(p) \/ Throw(p)
  BY <1>4 DEF LockOutput, ConvertContainer, CommitOutput, Throw
<1>5. CASE Finish(p) \/ NotifyException(p)
  BY <1>5 DEF Finish, NotifyException
<1> QED
  BY <1>1, <1>2, <1>3, <1>4, <1>5 DEF Process

NumberBegun == IF runs = 0 THEN 0 ELSE NumEvents - todo

LEMMA SameCardinality == ASSUME NEW S PROVE Loops!Cardinality(S) = Cardinality(S)
BY DEF Cardinality, Loops!Cardinality

LEMMA MapStep ==
  ASSUME MaxParallel > 0, KernelInv, WorkInv, EachEventOnce, LoopInv, [Next]_vars
  PROVE  [Loops!Next]_(Loops!vars)
<1> USE DEF Numbers, NumberBegun
<1>0. /\ runs \in Nat /\ todo \in 0 .. NumEvents /\ NumEvents \in Nat /\ stop \in BOOLEAN
      /\ event \in [Processors -> 0 .. NumEvents]
      /\ mode \in {"idle", "group", "sequential"}
  BY KernelAssumptions DEF KernelInv, TypeOK
<1>1. CASE RunGroup \/ RunSequential
  <2>1. /\ mode = "idle" /\ mode' # "idle" /\ runs' = runs + 1 /\ todo' = NumEvents
        /\ stop' = FALSE /\ event' = event
    BY <1>1 DEF RunGroup, RunSequential, Reset
  <2>2. Numbers' = {}
    BY <2>1 DEF KernelInv, Placed, InFlight
  <2>3. NumberBegun' = 0
    BY <1>0, <2>1
  <2>4. Limit' \in {1, MaxParallel}
    BY DEF Limit
  <2> QED
    BY <2>1, <2>2, <2>3, <2>4 DEF Loops!Next, Loops!Run
<1>2. ASSUME NEW p \in Processors, TakeEvent(p) PROVE Loops!Next
  <2>1. /\ pc[p] = "loop" /\ event[p] = 0 /\ mode # "idle" /\ runs > 0 /\ ~stop
        /\ todo > 0 /\ todo' = todo - 1 /\ UNCHANGED <<mode, runs, stop>>
        /\ event' = [event EXCEPT ![p] = NumEvents - todo']
    BY <1>2 DEF TakeEvent, At, KernelInv, Placed
  <2>2. NumberBegun < NumEvents /\ NumberBegun' = NumberBegun + 1
    BY <1>0, <2>1
  <2>3. NumEvents - todo' = NumberBegun + 1 /\ NumberBegun + 1 # 0
    BY <1>0, <2>1
  <2>4. InFlight' = InFlight \cup {p} /\ p \notin InFlight
    BY <1>0, <2>1, <2>3 DEF InFlight
  <2>5. \A q \in InFlight : event'[q] = event[q]
    BY <1>0, <2>1, <2>4 DEF InFlight
  <2>6. event'[p] = NumberBegun + 1
    BY <1>0, <2>1, <2>3
  <2>7. Numbers' = Numbers \cup {NumberBegun + 1}
    BY <2>4, <2>5, <2>6
  <2>8. Cardinality(Numbers) < Limit /\ UNCHANGED Limit
    BY <1>2, <2>1, RoomToBegin DEF Limit
  <2>9. Loops!Begin
    BY <2>1, <2>2, <2>7, <2>8, SameCardinality, Zenon DEF Loops!Begin
  <2> QED
    BY <2>9 DEF Loops!Next
<1>3. ASSUME NEW p \in Processors, Finish(p) \/ NotifyException(p) PROVE Loops!Next
  <2>1. Process(p) /\ pc[p] \in {"end", "throw"} /\ Closed(p)
    BY <1>3 DEF Process, Finish, NotifyException, At
  <2>2. /\ event[p] # 0 /\ runs > 0 /\ event' = [event EXCEPT ![p] = 0]
        /\ UNCHANGED <<mode, runs, todo>>
    BY <2>1 DEF Closed, KernelInv, Placed
  <2>3. p \in InFlight /\ InFlight' = InFlight \ {p}
    BY <1>0, <2>2 DEF InFlight
  <2>4. \A q \in InFlight' : event'[q] = event[q] /\ event[q] # event[p]
    BY <1>0, <2>2, <2>3 DEF EachEventOnce, InFlight
  <2>5. event[p] \in Numbers /\ Numbers' = Numbers \ {event[p]}
    BY <2>3, <2>4
  <2>6. stop' \in {stop, TRUE}
    BY <2>1, StopStep
  <2> QED
    BY <2>2, <2>5, <2>6 DEF Loops!Next, Loops!Close, Limit
<1>4. CASE Return
  <2>1. AllOff /\ mode # "idle" /\ mode' = "idle" /\ UNCHANGED <<runs, todo, stop, event>>
    BY <1>4 DEF Return, counters
  <2>2. Numbers = {}
    BY <2>1 DEF AllOff, KernelInv, Placed, InFlight
  <2>3. stop \/ todo = 0
    BY <1>0, <1>4, <2>1 DEF Return, LoopInv
  <2>4. stop \/ NumberBegun = NumEvents
    BY <1>0, <2>1, <2>3 DEF KernelInv
  <2>5. UNCHANGED <<Limit, NumberBegun, Numbers>>
    BY <2>1 DEF Limit, InFlight
  <2> QED
    BY <2>1, <2>2, <2>4, <2>5 DEF Loops!Next, Loops!Return
<1>5. CASE UNCHANGED <<runs, todo, event, mode>> /\ (stop' = stop \/ stop' = TRUE)
  <2>1. UNCHANGED <<Limit, NumberBegun, Numbers>>
    BY <1>5 DEF Limit, InFlight
  <2>2. CASE stop' = stop
    BY <1>5, <2>1, <2>2 DEF Loops!vars
  <2>3. CASE stop' = TRUE
    BY <1>5, <2>1, <2>3 DEF Loops!Next, Loops!Stop
  <2> QED
    BY <1>5, <2>2, <2>3
<1>6. CASE UNCHANGED vars \/ Turn \/ UserStop
  <2>1. UNCHANGED <<runs, todo, event, mode>> /\ (stop' = stop \/ stop' = TRUE)
    BY <1>6 DEF vars, counters, Turn, UserStop
  <2> QED
    BY <1>5, <2>1
<1>7. ASSUME NEW p \in Processors, Process(p),
             ~\E q \in Processors : TakeEvent(q) \/ Finish(q) \/ NotifyException(q)
      PROVE  [Loops!Next]_(Loops!vars)
  <2>1. CASE RunGroup \/ RunSequential
    BY <1>1, <2>1
  <2>2. CASE ~(RunGroup \/ RunSequential)
    <3>1. UNCHANGED <<runs, todo, event>>
      BY <1>7, <2>2, EventFrame
    <3>2. mode' = mode /\ (stop' = stop \/ stop' = TRUE)
      BY <1>7, BusyStep, StopStep
    <3> QED
      BY <1>5, <3>1, <3>2
  <2> QED
    BY <2>1, <2>2
<1> QED
  BY <1>1, <1>2, <1>3, <1>4, <1>6, <1>7 DEF Next, Loop

LEMMA MapInit == Init => LoopInv /\ Loops!Init
<1> SUFFICES ASSUME Init PROVE LoopInv /\ Loops!Init
  OBVIOUS
<1>1. Numbers = {}
  BY DEF Init, Numbers, InFlight
<1> QED
  BY <1>1, KernelAssumptions DEF Init, LoopInv, Loops!Init, Limit, Numbers

\* The safety of EventLoop for any number of processors and events: within a run
\* the events are begun in the order of their numbers, one of each, no more than
\* maxEventsParallel at a time and none after a stop, and run does not return
\* before those begun are closed and the others are begun or the loop is stopped.
\* It asks for a positive maxEventsParallel: without one the first run returns
\* with nothing done.
THEOREM LoopRefines ==
  ASSUME MaxParallel > 0
  PROVE  Spec => Loops!Init /\ [][Loops!Next]_(Loops!vars)
<1>1. KernelInv /\ WorkInv /\ LoopInv /\ [Next]_vars => LoopInv'
  BY LoopStep
<1>2. KernelInv /\ WorkInv /\ [Next]_vars => WorkInv'
  BY WorkStep
<1>3. KernelInv /\ WorkInv /\ EachEventOnce /\ LoopInv /\ [Next]_vars
        => [Loops!Next]_(Loops!vars)
  BY MapStep
<1> QED
  BY <1>1, <1>2, <1>3, MapInit, FrameInit, KernelInvariant, EventsOnce, PTL DEF Spec
===============================================================================
