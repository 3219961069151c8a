----------------------------- MODULE IdleTimer -----------------------------
(***************************************************************************)
(* class IdleTimer of core/src/trezor/workflow.py as operators on its      *)
(* state.  Module AutoLock runs the timer.                                 *)
(*                                                                         *)
(* A task of the timer is a pair of a callback and a bit.  A new task      *)
(* takes the other bit, so the task in the dictionary is told from the one *)
(* it replaced.  left[k] is the time until task k is due, None if it is    *)
(* not scheduled.  Time passes in steps; a due task may run late.          *)
(***************************************************************************)
EXTENDS Naturals

CONSTANTS Callbacks, None

Tasks == Callbacks \X {0, 1}

\* The constructor.
EmptyTimer ==
  [timeouts |-> [c \in Callbacks |-> None], \* self.timeouts
   bit      |-> [c \in Callbacks |-> 0],    \* self.tasks[c] = <<c, bit[c]>>
   left     |-> [k \in Tasks |-> None]]     \* loop._queue

Registered(t, c) == t.timeouts[c] # None
TaskOf(t, c)     == <<c, t.bit[c]>>

\* self.tasks[callback] = self._timeout_task(callback)
NewTask(t, c) ==
  [t EXCEPT !.bit[c] = 1 - @, !.left[<<c, 1 - t.bit[c]>>] = None]

\* loop.close(self.tasks[callback])
CloseTask(t, c) == [t EXCEPT !.left[TaskOf(t, c)] = None]

Touch(t) ==
  [t EXCEPT !.left = [k \in Tasks |->
     IF Registered(t, k[1]) /\ k = TaskOf(t, k[1]) THEN t.timeouts[k[1]] ELSE t.left[k]]]

\* Faulty: the task that set() replaces is not closed.
SetTimeoutKeepsTask(t, c, ms) == Touch(NewTask([t EXCEPT !.timeouts[c] = ms], c))

\* set()
SetTimeout(t, c, ms) ==
  Touch(NewTask([(IF Registered(t, c) THEN CloseTask(t, c) ELSE t) EXCEPT !.timeouts[c] = ms], c))

\* remove()
Remove(t, c) ==
  IF Registered(t, c) THEN [CloseTask(t, c) EXCEPT !.timeouts[c] = None] ELSE t

\* Task k runs: _timeout_task up to the call of the callback.
Fire(t, k) == NewTask([t EXCEPT !.left[k] = None], k[1])

Due(t, k) == t.left[k] = 0

Elapse(t) ==
  [t EXCEPT !.left = [k \in Tasks |->
     IF t.left[k] = None \/ t.left[k] = 0 THEN t.left[k] ELSE t.left[k] - 1]]
============================================================================
