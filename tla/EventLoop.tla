----------------------------- MODULE EventLoop -----------------------------
(***************************************************************************)
(* The cooperative scheduler of the firmware, core/src/trezor/loop.py:     *)
(* the queue of scheduled tasks, the tasks paused on an interface, the     *)
(* finalizers, and the syscalls race, spawn, wait and sleep.               *)
(*                                                                         *)
(* Tasks are generators that run arbitrary code: the running task may do   *)
(* any synchronous call of the loop's interface, as often as it likes, and *)
(* ends its step by yielding a syscall or by finishing.  One action is one *)
(* such call.  Nothing else runs meanwhile, as in the code.                *)
(*                                                                         *)
(* Deadlines are not modelled: any entry of the queue may be the earliest. *)
(* A task waiting in a channel (loop.chan) or in SLEEP_FOREVER is parked:  *)
(* no part of the loop refers to it.                                       *)
(*                                                                         *)
(* The definitions marked Faulty are not part of the specification.  Each  *)
(* is a definition that follows it with a mistake built in, and shows that *)
(* a property notices the mistake.                                         *)
(***************************************************************************)
EXTENDS Naturals, FiniteSets

CONSTANTS Tasks,    \* all generators that ever exist
          Boot,     \* the tasks session.py schedules before loop.run()
          Ifaces,   \* message interfaces
          None      \* no task

ASSUME NoneAssumption == None \notin Tasks

ASSUME BootAssumption == Boot \subseteq Tasks

VARIABLES gen,         \* generator: not created yet, resumable, or finished
          this_task,   \* the task whose step is in progress
          queue,       \* _queue, the number of entries a task has in it
          paused,      \* _paused, the tasks under an interface
          polled,      \* _paused, its keys: the interfaces io.poll() looks at
          msg_tasks,   \* run(): tasks of the last message not yet stepped
          parked,      \* tasks suspended in a channel or SLEEP_FOREVER
          spawned,     \* tasks that have a spawn object
          awaiting,    \* the tasks that a suspended race or spawn waits for
          callback,    \* race.callback or spawn.callback of a child task
          finalizers,  \* _finalizers
          finalized,   \* how often the finalizer of a task was called
          cleared      \* has clear() been called

vars == <<gen, this_task, queue, paused, polled, msg_tasks, parked, spawned, awaiting,
          callback, finalizers, finalized, cleared>>

frames == <<spawned, awaiting, callback, finalizers, finalized, cleared>>

-----------------------------------------------------------------------------
(***************************************************************************)
(* schedule() of a set of tasks, and of one task.                          *)
(***************************************************************************)
Scheduled(S) == [t \in Tasks |-> IF t \in S THEN queue[t] + 1 ELSE queue[t]]

Init ==
  /\ gen = [t \in Tasks |-> IF t \in Boot THEN "live" ELSE "new"]
  /\ this_task = None
  /\ queue = [t \in Tasks |-> IF t \in Boot THEN 1 ELSE 0]
  /\ paused = [i \in Ifaces |-> {}]
  /\ polled = {}
  /\ msg_tasks = {}
  /\ parked = {}
  /\ spawned = {}
  /\ awaiting = [t \in Tasks |-> {}]
  /\ callback = [t \in Tasks |-> None]
  /\ finalizers = [t \in Tasks |-> "none"]
  /\ finalized = [t \in Tasks |-> 0]
  /\ cleared = FALSE

-----------------------------------------------------------------------------
(***************************************************************************)
(* Ending tasks.  close() raises GeneratorExit in a task.  A task that is  *)
(* suspended in a race or in the await of a spawn then closes what it      *)
(* waits for, and the finalizer of a race child closes the other children. *)
(* So the calls spread over the tasks below, and Cascade(S) is the least   *)
(* set that holds S and is closed under both rules.                        *)
(***************************************************************************)

\* Faulty: the waiting task dies without calling race.exit() or spawn.close().
ClosedAlone(t) == {}

\* Faulty: spawn.__iter__ does not close the task when its await is cancelled.
ClosedRace(t) == {c \in awaiting[t] : finalizers[c] = "race"}

\* Faulty: race._finish does not close the other children.
NoSiblings(c) == {}

\* Faulty: the finalizers do not schedule the callback.
NobodyWoken(K) == {}

\* race.__iter__ and spawn.__iter__: an exception in the waiting task closes
\* every task it waits for.
ClosedWith(t) == awaiting[t]

\* race._finish and race.exit: the first child to finish closes the others.
Siblings(c) ==
  IF finalizers[c] = "race" /\ callback[c] \in Tasks
    THEN awaiting[callback[c]] ELSE {}

Spreads(K) == \A t \in K : ClosedWith(t) \subseteq K /\ Siblings(t) \subseteq K

Cascade(S) ==
  {t \in Tasks : \A K \in SUBSET Tasks : S \subseteq K /\ Spreads(K) => t \in K}

\* The callbacks that the finalizers of the tasks in K schedule.  A callback in
\* K itself has been told not to listen (race.finished, spawn.callback = None).
Woken(K) ==
  {p \in Tasks \ K : \E c \in K : finalizers[c] # "none" /\ callback[c] = p}

\* Every task in K finishes: it leaves the queue, the interfaces and the
\* channels, its finalizer is popped and called, and callbacks are scheduled.
\* The tasks of the message being handled stay in msg_tasks.
End(K) ==
  /\ gen' = [t \in Tasks |-> IF t \in K THEN "done" ELSE gen[t]]
  /\ queue' = [t \in Tasks |-> IF t \in K THEN 0 ELSE Scheduled(Woken(K))[t]]
  /\ paused' = [i \in Ifaces |-> paused[i] \ K]
  /\ parked' = parked \ K
  /\ awaiting' = [t \in Tasks |-> IF t \in K \cup Woken(K) THEN {} ELSE awaiting[t]]
  /\ callback' = [t \in Tasks |-> IF t \in K THEN None ELSE callback[t]]
  /\ finalizers' = [t \in Tasks |-> IF t \in K THEN "none" ELSE finalizers[t]]
  /\ finalized' = [t \in Tasks |-> IF t \in K /\ finalizers[t] # "none"
                                     THEN finalized[t] + 1 ELSE finalized[t]]
  /\ UNCHANGED <<polled, msg_tasks, spawned, cleared>>

-----------------------------------------------------------------------------
(***************************************************************************)
(* run() and _step().                                                      *)
(***************************************************************************)
Idle == this_task = None /\ msg_tasks = {}

\* _step: send a value to the task.  A generator that has finished meanwhile
\* raises StopIteration, and finalize() finds no finalizer any more.
Step(t) == this_task' = IF gen[t] = "live" THEN t ELSE None

\* io.poll() times out: the first entry of the queue is popped.
RunScheduled(t) ==
  /\ Idle
  /\ queue[t] > 0
  /\ queue' = [queue EXCEPT ![t] = @ - 1]
  /\ Step(t)
  /\ UNCHANGED <<gen, paused, polled, msg_tasks, parked, frames>>

\* io.poll() has a message on i: all tasks paused on i will be stepped.  When
\* all of them have been closed since, there is none and the message is dropped.
Receive(i) ==
  /\ Idle
  /\ i \in polled
  /\ msg_tasks' = paused[i]
  /\ polled' = polled \ {i}
  /\ paused' = [paused EXCEPT ![i] = {}]
  /\ UNCHANGED <<gen, this_task, queue, parked, frames>>

RunReceiver(t) ==
  /\ this_task = None
  /\ t \in msg_tasks
  /\ msg_tasks' = msg_tasks \ {t}
  /\ Step(t)
  /\ UNCHANGED <<gen, queue, paused, polled, parked, frames>>

\* run() returns when nothing is scheduled and no interface is polled.
Return ==
  /\ Idle
  /\ \A t \in Tasks : queue[t] = 0
  /\ polled = {}
  /\ UNCHANGED vars

-----------------------------------------------------------------------------
(***************************************************************************)
(* How the running task t ends its step.                                   *)
(***************************************************************************)

\* Yield None, or sleep.
Sleep(t) ==
  /\ this_task = t
  /\ queue' = Scheduled({t})
  /\ this_task' = None
  /\ UNCHANGED <<gen, paused, polled, msg_tasks, parked, frames>>

\* Faulty: the task is kept, but its interface is not given to io.poll().
WaitUnpolled(t, i) ==
  /\ this_task = t
  /\ paused' = [paused EXCEPT ![i] = @ \cup {t}]
  /\ this_task' = None
  /\ UNCHANGED <<gen, queue, polled, msg_tasks, parked, frames>>

Wait(t, i) ==
  /\ this_task = t
  /\ paused' = [paused EXCEPT ![i] = @ \cup {t}]
  /\ polled' = polled \cup {i}
  /\ this_task' = None
  /\ UNCHANGED <<gen, queue, msg_tasks, parked, frames>>

\* Await a channel with nobody at its other end, or SLEEP_FOREVER.
Park(t) ==
  /\ this_task = t
  /\ parked' = parked \cup {t}
  /\ this_task' = None
  /\ UNCHANGED <<gen, queue, paused, polled, msg_tasks, frames>>

\* race.handle: schedule the children with race._finish as their finalizer.
Race(t, C) ==
  /\ this_task = t
  /\ C # {}
  /\ \A c \in C : gen[c] = "new"
  /\ gen' = [c \in Tasks |-> IF c \in C THEN "live" ELSE gen[c]]
  /\ queue' = Scheduled(C)
  /\ finalizers' = [c \in Tasks |-> IF c \in C THEN "race" ELSE finalizers[c]]
  /\ callback' = [c \in Tasks |-> IF c \in C THEN t ELSE callback[c]]
  /\ awaiting' = [awaiting EXCEPT ![t] = C]
  /\ this_task' = None
  /\ UNCHANGED <<paused, polled, msg_tasks, parked, spawned, finalized, cleared>>

\* spawn.__iter__ and spawn.handle: await a spawned task u that has not finished.
\* A task does not await a task that waits for it, and nobody awaits u yet
\* (the assertion of spawn.handle).
AwaitSpawn(t, u) ==
  /\ this_task = t
  /\ u \in spawned /\ finalized[u] = 0
  /\ callback[u] = None
  /\ t \notin Cascade({u})
  /\ callback' = [callback EXCEPT ![u] = t]
  /\ awaiting' = [awaiting EXCEPT ![t] = {u}]
  /\ this_task' = None
  /\ UNCHANGED <<gen, queue, paused, polled, msg_tasks, parked, spawned, finalizers,
                 finalized, cleared>>

\* The generator returns or raises: _step calls finalize().
Finish(t) ==
  /\ this_task = t
  /\ this_task' = None
  /\ End(Cascade({t}))

-----------------------------------------------------------------------------
(***************************************************************************)
(* What the running task may do during its step.                           *)
(***************************************************************************)

\* Faulty: the reschedule flag does not discard the entry in the queue.
ScheduleAgain(u) ==
  /\ this_task # None
  /\ gen[u] = "new" \/ queue[u] > 0
  /\ gen' = [gen EXCEPT ![u] = "live"]
  /\ queue' = Scheduled({u})
  /\ UNCHANGED <<this_task, paused, polled, msg_tasks, parked, frames>>

\* schedule() of a task without a finalizer: a new one, or, with reschedule set,
\* one that is in the queue (the idle timer).
Schedule(u) ==
  /\ this_task # None
  /\ gen[u] = "new" \/ queue[u] > 0
  /\ gen' = [gen EXCEPT ![u] = "live"]
  /\ queue' = [queue EXCEPT ![u] = 1]
  /\ UNCHANGED <<this_task, paused, polled, msg_tasks, parked, frames>>

\* spawn.__init__: schedule u with spawn._finalize as its finalizer.
Spawn(u) ==
  /\ this_task # None
  /\ gen[u] = "new"
  /\ gen' = [gen EXCEPT ![u] = "live"]
  /\ queue' = Scheduled({u})
  /\ spawned' = spawned \cup {u}
  /\ finalizers' = [finalizers EXCEPT ![u] = "spawn"]
  /\ UNCHANGED <<this_task, paused, polled, msg_tasks, parked, awaiting, callback,
                 finalized, cleared>>

\* A channel operation schedules a task parked in the channel.
Unpark(u) ==
  /\ this_task # None
  /\ u \in parked
  /\ parked' = parked \ {u}
  /\ queue' = Scheduled({u})
  /\ UNCHANGED <<gen, this_task, paused, polled, msg_tasks, frames>>

\* Faulty: a close that reaches the running task is carried out.
CloseRunning(u) ==
  /\ this_task # None
  /\ gen[u] = "live"
  /\ End(Cascade({u}))
  /\ UNCHANGED this_task

\* close() or spawn.close() of another task.  Closing a running generator is a
\* ValueError, so the close must not reach the running task.
Close(u) ==
  /\ this_task # None
  /\ gen[u] = "live"
  /\ this_task \notin Cascade({u})
  /\ End(Cascade({u}))
  /\ UNCHANGED this_task

\* pop_tasks_on_iface(): close and finalize every task paused on i.
PopTasksOnIface(i) ==
  /\ this_task # None
  /\ paused[i] # {}
  /\ this_task \notin Cascade(paused[i])
  /\ End(Cascade(paused[i]))
  /\ UNCHANGED this_task

\* clear(): forget all tasks without closing them.  The running task, the tasks
\* of the message being handled and those in channels are out of its reach.
Clear ==
  /\ this_task # None
  /\ queue' = [t \in Tasks |-> 0]
  /\ paused' = [i \in Ifaces |-> {}]
  /\ polled' = {}
  /\ finalizers' = [t \in Tasks |-> "none"]
  /\ cleared' = TRUE
  /\ UNCHANGED <<gen, this_task, msg_tasks, parked, spawned, awaiting, callback,
                 finalized>>

-----------------------------------------------------------------------------
Next ==
  \/ \E t \in Tasks : \/ RunScheduled(t) \/ RunReceiver(t)
                      \/ Sleep(t) \/ Park(t) \/ Finish(t)
                      \/ Schedule(t) \/ Spawn(t) \/ Unpark(t) \/ Close(t)
  \/ \E i \in Ifaces : Receive(i) \/ PopTasksOnIface(i)
  \/ \E t \in Tasks, i \in Ifaces : Wait(t, i)
  \/ \E t \in Tasks, C \in SUBSET Tasks : Race(t, C)
  \/ \E t, u \in Tasks : AwaitSpawn(t, u)
  \/ Clear
  \/ Return

Spec == Init /\ [][Next]_vars

-----------------------------------------------------------------------------
TypeOK ==
  /\ gen \in [Tasks -> {"new", "live", "done"}]
  /\ this_task \in Tasks \cup {None}
  /\ queue \in [Tasks -> Nat]
  /\ paused \in [Ifaces -> SUBSET Tasks]
  /\ polled \subseteq Ifaces
  /\ msg_tasks \subseteq Tasks
  /\ parked \subseteq Tasks
  /\ spawned \subseteq Tasks
  /\ awaiting \in [Tasks -> SUBSET Tasks]
  /\ callback \in [Tasks -> Tasks \cup {None}]
  /\ finalizers \in [Tasks -> {"none", "race", "spawn"}]
  /\ finalized \in [Tasks -> Nat]
  /\ cleared \in BOOLEAN

(***************************************************************************)
(* The places from which a suspended task can be resumed.                  *)
(***************************************************************************)
Places == {"running", "queue", "paused", "message", "parked", "awaiting"}

At(t, place) ==
  CASE place = "running"  -> this_task = t
    [] place = "queue"    -> queue[t] > 0
    [] place = "paused"   -> \E i \in polled : t \in paused[i]
    [] place = "message"  -> t \in msg_tasks
    [] place = "parked"   -> t \in parked
    [] place = "awaiting" -> awaiting[t] # {}

(***************************************************************************)
(* No task is resumed twice for one yield: a live task has one entry in    *)
(* one place only, however closes, finishing race children and messages    *)
(* follow each other.  It also bounds the 64 entries of _queue by the      *)
(* number of live tasks.                                                   *)
(***************************************************************************)
NoDoubleResume ==
  \A t \in Tasks : gen[t] = "live" =>
    /\ queue[t] <= 1
    /\ \A p, q \in Places : At(t, p) /\ At(t, q) => p = q
    /\ \A i, j \in Ifaces : t \in paused[i] /\ t \in paused[j] => i = j

(***************************************************************************)
(* No task is lost: unless clear() dropped it, a live task is somewhere    *)
(* from where it can go on.                                                *)
(***************************************************************************)
NoLostTask ==
  ~cleared => \A t \in Tasks : gen[t] = "live" => \E p \in Places : At(t, p)

(***************************************************************************)
(* A finished task is never scheduled or paused again: close() and         *)
(* _step() leave no reference to it behind.                                *)
(***************************************************************************)
NoGhost ==
  \A t \in Tasks : gen[t] # "live" =>
    \A p \in Places \ {"message"} : ~At(t, p)

(***************************************************************************)
(* A race leaves no child behind: while a child of a race still has the    *)
(* race's finalizer, the task that awaits the race is live and waits.      *)
(***************************************************************************)
NoOrphan ==
  \A c \in Tasks : finalizers[c] = "race" =>
    /\ gen[c] = "live"
    /\ callback[c] \in Tasks
    /\ gen[callback[c]] = "live"
    /\ c \in awaiting[callback[c]]

(***************************************************************************)
(* Whoever waits will be told: unless clear() dropped the finalizers, every*)
(* task that a race or the await of a spawn waits for is live and has a    *)
(* finalizer that schedules the waiting task.                              *)
(***************************************************************************)
WaiterIsCalledBack ==
  ~cleared => \A t \in Tasks : \A c \in awaiting[t] :
    gen[c] = "live" /\ finalizers[c] # "none" /\ callback[c] = t

(***************************************************************************)
(* spawn._finalize asserts that it is not called twice.  It is also not    *)
(* forgotten: unless clear() dropped it, it has run once a task is done.   *)
(***************************************************************************)
FinalizedOnce ==
  \A t \in Tasks :
    /\ finalized[t] <= 1
    /\ finalizers[t] # "none" => finalized[t] = 0
    /\ t \in spawned /\ gen[t] = "done" /\ ~cleared => finalized[t] = 1

(***************************************************************************)
(* When a race or an awaited spawn resumes or dies, every task it waited   *)
(* for has finished: no child outlives the await.                          *)
(***************************************************************************)
ChildrenEndFirst ==
  [][\A t \in Tasks : awaiting'[t] # awaiting[t] =>
        \A c \in awaiting[t] : gen'[c] = "done"]_vars

=============================================================================
