------------------------------ MODULE DigiKernel ------------------------------
(***************************************************************************)
(* The event loop of DDDigi (DigiKernel): run starts a group of processor  *)
(* tasks, or runs one processor at a time; a processor takes the number of *)
(* the next event under the counter lock and takes the event through the   *)
(* input, event and output action.  The actions of an event are submitted  *)
(* to threads of their own (submit).  All events share the input files     *)
(* (DigiROOTInput), the output frame (DigiOutputAction, DigiEdm4hepOutput) *)
(* and the actions themselves (DigiLockedAction).                          *)
(*                                                                         *)
(* Steps are split wherever events may meet: at the locks, at the shared   *)
(* stop flag, at every task of submit.  A task of the thread pool may      *)
(* start at any time after it was submitted, so any number of threads is   *)
(* covered.  An exception is a step that may be taken wherever Faults says *)
(* that the code called there may throw.                                   *)
(***************************************************************************)
EXTENDS Integers, Sequences, FiniteSets

CONSTANTS
  Processors,   \* instances of DigiKernel::Processor
  Main,         \* the one the calling thread runs in a sequential loop
  NoProcessor,  \* a lock nobody holds
  NumEvents,    \* property numEvents
  MaxParallel,  \* property maxEventsParallel
  UseTBB,       \* built with TBB and numThreads > 0
  NumActions,   \* actions an event submits in parallel
  Containers,   \* containers the output action converts
  Files,        \* number of entries of each input file
  Faults,       \* stages that may throw; "user": stop set from the prompt
  MaxRuns       \* bound: calls of run

Event == 1 .. NumEvents
Action == 1 .. NumActions

\* Tasks of the parallel event group: min(todo, maxEventsParallel).
NumProc == IF NumEvents < MaxParallel THEN NumEvents ELSE MaxParallel

ASSUME KernelAssumptions ==
  /\ Main \in Processors /\ NoProcessor \notin Processors
  /\ IsFiniteSet(Processors)
  /\ NumEvents \in Nat \ {0} /\ MaxParallel \in Int
  /\ NumProc <= Cardinality(Processors)
  /\ UseTBB \in BOOLEAN
  /\ NumActions \in Nat
  /\ Files \in Seq(Nat)
  /\ Faults \subseteq {"start", "input", "action", "output", "end", "user"}
  /\ MaxRuns \in Nat

\* The entries of the input in the order of the files.
Entry == UNION {{f} \X (1 .. Files[f]) : f \in DOMAIN Files}
Before(x, y) == x[1] < y[1] \/ (x[1] = y[1] /\ x[2] <= y[2])
NoEntry == <<0, 0>>

VARIABLES
  mode,       \* "idle", "group" (parallel events) or "sequential"
  tbb_init,   \* the thread pool was set up by the first run
  runs,       \* number of calls of run
  todo,       \* events_todo
  finished,   \* events_finished
  submitted,  \* events_submitted
  stop,       \* the stop flag
  pc,         \* pc[p]: what processor p does next
  event,      \* event[p]: number of the event in the hands of p, else 0
  io_lock,    \* holder of global_io_lock
  source,     \* file and entry the input source is positioned at
  frame,      \* converted containers not committed yet: shared collections
  queued,     \* queued[p]: number of actions submitted for the event of p
  running,    \* running[p]: those that are being executed
  worked,     \* worked[p]: those that are done
  failed,     \* failed[p]: one of them threw, the others are cancelled
  loaded,     \* history: loaded[x]: how many times entry x was read
  closed,     \* history: closed[e]: how often event e was notified
  written     \* history: frames handed to the writer

counters == <<todo, finished, submitted>>
tasks == <<queued, running, worked, failed>>
history == <<loaded, closed, written>>
vars == <<mode, tbb_init, runs, counters, stop, pc, event, io_lock, source,
          frame, tasks, history>>

Stage == {"off", "loop", "start", "read", "load", "work", "output", "convert",
          "end", "throw"}

Content == [run : 1 .. MaxRuns, event : Event, container : Containers, work : SUBSET Action]

TypeOK ==
  /\ mode \in {"idle", "group", "sequential"}
  /\ tbb_init \in BOOLEAN /\ stop \in BOOLEAN
  /\ runs \in 0 .. MaxRuns
  /\ todo \in 0 .. NumEvents
  /\ finished \in Nat /\ submitted \in Nat
  /\ pc \in [Processors -> Stage]
  /\ event \in [Processors -> 0 .. NumEvents]
  /\ io_lock \in Processors \cup {NoProcessor}
  /\ source \in Entry \cup {NoEntry}
  /\ frame \subseteq Content
  /\ queued \in [Processors -> 0 .. NumActions]
  /\ running \in [Processors -> SUBSET Action]
  /\ worked \in [Processors -> SUBSET Action]
  /\ failed \in [Processors -> BOOLEAN]
  /\ loaded \in [Entry -> Nat]
  /\ closed \in [Event -> Nat]
  /\ written \subseteq [by : Event, content : SUBSET Content, stopped : BOOLEAN]

-----------------------------------------------------------------------------
\* The counters have no value before the first run: any will do.
Init ==
  /\ mode = "idle" /\ tbb_init = FALSE /\ runs = 0
  /\ todo \in {0, NumEvents} /\ finished = 0 /\ submitted = 0
  /\ stop = FALSE
  /\ pc = [p \in Processors |-> "off"]
  /\ event = [p \in Processors |-> 0]
  /\ io_lock = NoProcessor
  /\ source = NoEntry
  /\ frame = {}
  /\ queued = [p \in Processors |-> 0]
  /\ running = [p \in Processors |-> {}]
  /\ worked = [p \in Processors |-> {}]
  /\ failed = [p \in Processors |-> FALSE]
  /\ loaded = [x \in Entry |-> 0]
  /\ closed = [e \in Event |-> 0]
  /\ written = {}

-----------------------------------------------------------------------------
(***************************************************************************)
(* DigiKernel::run.                                                        *)
(***************************************************************************)
Reset ==
  /\ mode = "idle" /\ runs < MaxRuns
  /\ runs' = runs + 1
  /\ stop' = FALSE
  /\ todo' = NumEvents /\ finished' = 0 /\ submitted' = 0
  /\ closed' = [e \in Event |-> 0]
  /\ written' = {}
  /\ UNCHANGED <<event, io_lock, source, frame, tasks, loaded>>

\* The first run with threads: a group of processors, none if the property is
\* zero or negative.
RunGroup ==
  /\ UseTBB /\ ~tbb_init
  /\ Reset
  /\ tbb_init' = TRUE
  /\ mode' = "group"
  /\ \E G \in SUBSET Processors :
       /\ IF NumProc > 0 THEN Cardinality(G) = NumProc ELSE G = {}
       /\ pc' = [p \in Processors |-> IF p \in G THEN "loop" ELSE "off"]

RunSequential ==
  /\ tbb_init \/ ~UseTBB
  /\ Reset
  /\ mode' = "sequential"
  /\ UNCHANGED <<pc, tbb_init>>

AllOff == \A p \in Processors : pc[p] = "off"

\* One turn of the sequential loop: a processor, which itself loops.
Turn ==
  /\ mode = "sequential" /\ AllOff
  /\ todo > 0 /\ ~stop
  /\ pc' = [pc EXCEPT ![Main] = "loop"]
  /\ UNCHANGED <<mode, tbb_init, runs, counters, stop, event, io_lock, source,
                 frame, tasks, history>>

Return ==
  /\ AllOff
  /\ mode = "group" \/ (mode = "sequential" /\ ~(todo > 0 /\ ~stop))
  /\ mode' = "idle"
  /\ UNCHANGED <<tbb_init, runs, counters, stop, pc, event, io_lock, source,
                 frame, tasks, history>>

\* The property "stop", set from the interactive prompt.
UserStop ==
  /\ "user" \in Faults /\ mode # "idle"
  /\ stop' = TRUE
  /\ UNCHANGED <<mode, tbb_init, runs, counters, pc, event, io_lock, source,
                 frame, tasks, history>>

-----------------------------------------------------------------------------
(***************************************************************************)
(* DigiKernel::Processor and executeEvent.                                 *)
(***************************************************************************)
At(p, stage) == pc[p] = stage
Goto(p, stage) == pc' = [pc EXCEPT ![p] = stage]

\* Mutant: the number is taken before the counter is decremented.
TakeEvent_stale(p) ==
  /\ At(p, "loop") /\ ~stop /\ todo > 0
  /\ todo' = todo - 1
  /\ event' = [event EXCEPT ![p] = IF todo = NumEvents THEN 1 ELSE NumEvents - todo]
  /\ Goto(p, "start")
  /\ UNCHANGED <<mode, tbb_init, runs, finished, submitted, stop, io_lock, source,
                 frame, tasks, history>>

\* Mutant: the stop flag is not looked at.
TakeEvent_unstoppable(p) ==
  /\ At(p, "loop") /\ todo > 0
  /\ todo' = todo - 1
  /\ event' = [event EXCEPT ![p] = NumEvents - todo']
  /\ Goto(p, "start")
  /\ UNCHANGED <<mode, tbb_init, runs, finished, submitted, stop, io_lock, source,
                 frame, tasks, history>>

\* Mutant: an event more than there are.
TakeEvent_below(p) ==
  /\ At(p, "loop") /\ ~stop /\ todo >= 0
  /\ todo' = todo - 1
  /\ event' = [event EXCEPT ![p] = NumEvents - todo']
  /\ Goto(p, "start")
  /\ UNCHANGED <<mode, tbb_init, runs, finished, submitted, stop, io_lock, source,
                 frame, tasks, history>>

\* Under counter_lock: the next event, unless stopped.
TakeEvent(p) ==
  /\ At(p, "loop") /\ ~stop /\ todo > 0
  /\ todo' = todo - 1
  /\ event' = [event EXCEPT ![p] = NumEvents - todo']
  /\ Goto(p, "start")
  /\ UNCHANGED <<mode, tbb_init, runs, finished, submitted, stop, io_lock, source,
                 frame, tasks, history>>

EndProcessor(p) ==
  /\ At(p, "loop") /\ (stop \/ todo = 0)
  /\ Goto(p, "off")
  /\ submitted' = IF mode = "sequential" THEN submitted + 1 ELSE submitted
  /\ UNCHANGED <<mode, tbb_init, runs, todo, finished, stop, event, io_lock, source,
                 frame, tasks, history>>

\* Mutant: files are read without the global I/O lock.
LockInput_unlocked(p) ==
  /\ At(p, "start")
  /\ Goto(p, "read")
  /\ UNCHANGED <<mode, tbb_init, runs, counters, stop, event, io_lock, source, frame,
                 tasks, history>>

\* The start callbacks are done; the input action waits for the I/O lock.
LockInput(p) ==
  /\ At(p, "start")
  /\ io_lock = NoProcessor
  /\ io_lock' = p
  /\ Goto(p, "read")
  /\ UNCHANGED <<mode, tbb_init, runs, counters, stop, event, source, frame, tasks,
                 history>>

\* internals_t::next: the next entry of the file or the first one of the next
\* file that has any.  The limit of events per file is never reached, since
\* onProcessEvent counts the event and sets the count to zero again.
IsNext(x) ==
  /\ x # source /\ Before(source, x)
  /\ \A y \in Entry : Before(y, source) \/ Before(x, y)

NextEntry(p) ==
  /\ At(p, "read")
  /\ \E x \in Entry : IsNext(x) /\ source' = x
  /\ Goto(p, "load")
  /\ UNCHANGED <<mode, tbb_init, runs, counters, stop, event, io_lock, frame, tasks,
                 history>>

\* "No open file present": the position of the source is kept.
InputExhausted(p) ==
  /\ At(p, "read")
  /\ ~\E x \in Entry : IsNext(x)
  /\ io_lock' = NoProcessor
  /\ Goto(p, "throw")
  /\ UNCHANGED <<mode, tbb_init, runs, counters, stop, event, source, frame, tasks,
                 history>>

\* The branches of the entry the source points to are read and converted, still
\* locked.
LoadEntry(p) ==
  /\ At(p, "load")
  /\ loaded' = [loaded EXCEPT ![source] = @ + 1]
  /\ io_lock' = NoProcessor
  /\ Goto(p, "work") \/ ("input" \in Faults /\ Goto(p, "throw"))
  /\ UNCHANGED <<mode, tbb_init, runs, counters, stop, event, source, frame, tasks,
                 closed, written>>

-----------------------------------------------------------------------------
(***************************************************************************)
(* DigiKernel::submit for the actions of an event.  In parallel, they are  *)
(* handed to the threads one by one as long as nothing asks for a stop;    *)
(* what was handed over is waited for.  The first exception cancels those  *)
(* that did not start.  Without threads they are executed in their order,  *)
(* whatever the stop flag says, up to the first exception.                 *)
(***************************************************************************)
AllSubmitted(p) == queued[p] = NumActions \/ stop

SubmitAction(p) ==
  /\ At(p, "work") /\ tbb_init
  /\ ~AllSubmitted(p)
  /\ queued' = [queued EXCEPT ![p] = @ + 1]
  /\ UNCHANGED <<mode, tbb_init, runs, counters, stop, pc, event, io_lock, source,
                 frame, running, worked, failed, history>>

Started(p) == running[p] \cup worked[p]

\* A thread takes a task.  DigiLockedAction executes the action it wraps
\* without taking its lock.
BeginAction(p, i) ==
  /\ At(p, "work") /\ ~failed[p]
  /\ i \notin Started(p)
  /\ IF tbb_init THEN i <= queued[p] ELSE running[p] = {} /\ 1 .. (i - 1) = worked[p]
  /\ running' = [running EXCEPT ![p] = @ \cup {i}]
  /\ UNCHANGED <<mode, tbb_init, runs, counters, stop, pc, event, io_lock, source,
                 frame, queued, worked, failed, history>>

EndAction(p, i) ==
  /\ i \in running[p]
  /\ running' = [running EXCEPT ![p] = @ \ {i}]
  /\ \/ /\ worked' = [worked EXCEPT ![p] = @ \cup {i}]
        /\ UNCHANGED failed
     \/ /\ "action" \in Faults
        /\ failed' = [failed EXCEPT ![p] = TRUE]
        /\ UNCHANGED worked
  /\ UNCHANGED <<mode, tbb_init, runs, counters, stop, pc, event, io_lock, source,
                 frame, queued, history>>

Joined(p) ==
  /\ running[p] = {}
  /\ tbb_init => AllSubmitted(p)
  /\ failed[p] \/ worked[p] = IF tbb_init THEN 1 .. queued[p] ELSE Action

\* que.wait(): an exception stops the loop and is thrown again.
JoinActions(p) ==
  /\ At(p, "work") /\ Joined(p)
  /\ stop' = (stop \/ (failed[p] /\ tbb_init))
  /\ Goto(p, IF failed[p] THEN "throw" ELSE "output")
  /\ UNCHANGED <<mode, tbb_init, runs, counters, event, io_lock, source, frame, tasks,
                 history>>

-----------------------------------------------------------------------------
(***************************************************************************)
(* DigiOutputAction::execute: open the stream if needed, convert, commit,  *)
(* all under the global I/O lock.  The containers fill collections which   *)
(* all events share; commit writes and clears them.                        *)
(***************************************************************************)
\* Mutant: the collections are filled without the lock.
LockOutput_unlocked(p) ==
  /\ At(p, "output")
  /\ Goto(p, "convert")
  /\ UNCHANGED <<mode, tbb_init, runs, counters, stop, event, io_lock, source, frame,
                 tasks, history>>

LockOutput(p) ==
  /\ At(p, "output")
  /\ io_lock = NoProcessor
  /\ io_lock' = p
  /\ Goto(p, "convert")
  /\ UNCHANGED <<mode, tbb_init, runs, counters, stop, event, source, frame, tasks,
                 history>>

Converted(p) == {x \in frame : x.run = runs /\ x.event = event[p]}

ConvertContainer(p, c) ==
  /\ At(p, "convert")
  /\ c \notin {x.container : x \in Converted(p)}
  /\ frame' = frame \cup
       {[run |-> runs, event |-> event[p], container |-> c, work |-> worked[p]]}
  /\ UNCHANGED <<mode, tbb_init, runs, counters, stop, pc, event, io_lock, source,
                 tasks, history>>

CommitOutput(p) ==
  /\ At(p, "convert")
  /\ {x.container : x \in Converted(p)} = Containers
  /\ written' = written \cup {[by |-> event[p], content |-> frame, stopped |-> stop]}
  /\ frame' = {}
  /\ io_lock' = NoProcessor
  /\ Goto(p, "end")
  /\ UNCHANGED <<mode, tbb_init, runs, counters, stop, event, source, tasks, loaded,
                 closed>>

-----------------------------------------------------------------------------
(***************************************************************************)
(* End of an event: notify, with or without an exception.                  *)
(***************************************************************************)
Closed(p) ==
  /\ finished' = finished + 1
  /\ closed' = [closed EXCEPT ![event[p]] = @ + 1]
  /\ event' = [event EXCEPT ![p] = 0]
  /\ queued' = [queued EXCEPT ![p] = 0]
  /\ worked' = [worked EXCEPT ![p] = {}]
  /\ failed' = [failed EXCEPT ![p] = FALSE]
  /\ Goto(p, "loop")
  /\ UNCHANGED <<mode, tbb_init, runs, todo, submitted, io_lock, source, frame,
                 running, loaded, written>>

Finish(p) ==
  /\ At(p, "end")
  /\ Closed(p)
  /\ UNCHANGED stop

NotifyException(p) ==
  /\ At(p, "throw")
  /\ stop' = TRUE
  /\ Closed(p)

\* Mutant: an exception leaves the I/O lock locked.
Throw_locked(p) ==
  /\ At(p, "convert") /\ "output" \in Faults
  /\ Goto(p, "throw")
  /\ UNCHANGED <<mode, tbb_init, runs, counters, stop, event, io_lock, source, frame,
                 tasks, history>>

\* Callbacks and the conversion of the output may throw; the lock guard of the
\* action releases the I/O lock.
Throw(p) ==
  /\ \/ At(p, "start") /\ "start" \in Faults
     \/ At(p, "convert") /\ "output" \in Faults
     \/ At(p, "end") /\ "end" \in Faults
  /\ io_lock' = IF io_lock = p THEN NoProcessor ELSE io_lock
  /\ Goto(p, "throw")
  /\ UNCHANGED <<mode, tbb_init, runs, counters, stop, event, source, frame, tasks,
                 history>>

Process(p) ==
  \/ TakeEvent(p) \/ EndProcessor(p)
  \/ LockInput(p) \/ NextEntry(p) \/ InputExhausted(p) \/ LoadEntry(p)
  \/ SubmitAction(p) \/ JoinActions(p)
  \/ (\E i \in Action : BeginAction(p, i) \/ EndAction(p, i))
  \/ LockOutput(p) \/ (\E c \in Containers : ConvertContainer(p, c)) \/ CommitOutput(p)
  \/ Finish(p) \/ Throw(p) \/ NotifyException(p)

Loop == Turn \/ Return

Next ==
  \/ RunGroup \/ RunSequential \/ Loop \/ UserStop
  \/ \E p \in Processors : Process(p)

\* The calling thread and the thread pool keep executing what can be executed;
\* nothing is assumed of the order in which waiting threads get a lock.
Fairness ==
  /\ WF_vars(Loop)
  /\ \A p \in Processors : WF_vars(Process(p))

Spec == Init /\ [][Next]_vars /\ Fairness

-----------------------------------------------------------------------------
(***************************************************************************)
(* Properties.                                                             *)
(***************************************************************************)
InFlight == {p \in Processors : event[p] # 0}
Begun == 1 .. (NumEvents - todo)

\* However the processors interleave and whatever throws, an event number is
\* given out once: each of the numbers up to numEvents - events_todo is in the
\* hands of one processor or was notified once, never both, and the numbers
\* above it are untouched.  events_finished counts the notifications.
EachEventOnce ==
  runs > 0 =>
    /\ \A p, q \in InFlight : event[p] = event[q] => p = q
    /\ \A p \in InFlight : event[p] \in Begun /\ closed[event[p]] = 0
    /\ \A e \in Begun : closed[e] = 1 \/ (closed[e] = 0 /\ \E p \in InFlight : event[p] = e)
    /\ \A e \in Event \ Begun : closed[e] = 0
    /\ finished = Cardinality({e \in Event : closed[e] # 0})

\* The entries of the input files are read in order, none is lost and none is
\* read by two events, although all events share the position of the source.
EntriesOnce ==
  \A x \in Entry :
    loaded[x] = IF Before(x, source) /\ ~(x = source /\ \E p \in Processors : At(p, "load"))
                  THEN 1 ELSE 0

\* What an event hands to the writer is complete: every container of the event,
\* made after all of its actions unless a stop had been asked for by then.  What
\* else the frame holds comes from events whose conversion threw before commit.
Own(w) == {x \in w.content : x.run = runs /\ x.event = w.by}

FramesWhole ==
  \A w \in written :
    /\ {x.container : x \in Own(w)} = Containers
    /\ ~w.stopped => \A x \in Own(w) : x.work = Action
    /\ \A x \in w.content \ Own(w) :
         x.run < runs \/ x.event \notin {v.by : v \in written}

\* run comes back: no order of the locks, of the tasks of an event or of the
\* exceptions leaves a processor or the loop behind for ever.
Returns == mode # "idle" ~> mode = "idle"

\* What the clients of run rely on, module EventLoop.
Limit == IF UseTBB /\ runs = 1 THEN MaxParallel ELSE 1

Loops == INSTANCE EventLoop WITH
  active <- mode # "idle",
  begun <- IF runs = 0 THEN 0 ELSE NumEvents - todo,
  inFlight <- {event[p] : p \in InFlight},
  stopped <- stop,
  Limits <- {1, MaxParallel},
  limit <- Limit

ImplementsEventLoop == Loops!Spec
=============================================================================
