---------------------------- MODULE CloseCascade ----------------------------
(***************************************************************************)
(* close(), finalize(), race._finish, race.exit and spawn._finalize of     *)
(* loop.py call each other recursively.  EventLoop describes what such a   *)
(* chain of calls does to the tasks in one formula, End(Cascade(S)).  Here *)
(* the calls are written as the code makes them, on a record of the loop's *)
(* state, and compared with that formula.                                  *)
(***************************************************************************)
EXTENDS MCEventLoop, FiniteSetsExt

\* The state the calls work on.  A race or an awaited spawn that has told its
\* task to go on, or was told to stop listening, waits for no task any more.
Loop == [gen |-> gen, queue |-> queue, paused |-> paused, parked |-> parked,
         awaiting |-> awaiting, callback |-> callback,
         finalizers |-> finalizers, finalized |-> finalized]

RECURSIVE CloseTask(_, _), Finalize(_, _), CloseAll(_, _)

\* race.exit: close() the tasks in S, one after the other.
CloseAll(s, S) ==
  IF S = {} THEN s
  ELSE LET t == CHOOSE x \in S : TRUE
       IN  CloseAll(CloseTask(s, t), S \ {t})

\* task.close(): GeneratorExit at the point where the task is suspended, with
\* the except clauses of chan.put, chan.take, race.__iter__ and spawn.__iter__.
Exit(s, t) ==
  IF s.gen[t] # "live" THEN s
  ELSE LET deaf == [s EXCEPT !.gen[t] = "done",
                             !.parked = @ \ {t},
                             !.awaiting[t] = {},
                             !.callback = [c \in Tasks |->
                                IF c \in s.awaiting[t] /\ c \in spawned
                                  THEN None ELSE @[c]]]
       IN  CloseAll(deaf, s.awaiting[t])

\* race._finish: only the first child to finish counts.
RaceFinish(s, c) ==
  LET p == s.callback[c]
  IN  IF c \notin s.awaiting[p] THEN s
      ELSE LET others == CloseAll([s EXCEPT !.awaiting[p] = {}],
                                  s.awaiting[p] \ {c})
           IN  [others EXCEPT !.queue[p] = @ + 1]

\* spawn._finalize.
SpawnFinalize(s, u) ==
  IF s.callback[u] = None THEN s
  ELSE [s EXCEPT !.queue[s.callback[u]] = @ + 1,
                 !.awaiting[s.callback[u]] = {},
                 !.callback[u] = None]

Finalize(s, t) ==
  LET fn == s.finalizers[t]
      popped == [s EXCEPT !.finalizers[t] = "none",
                          !.finalized[t] = IF fn = "none" THEN @ ELSE @ + 1]
  IN  CASE fn = "race"  -> RaceFinish(popped, t)
        [] fn = "spawn" -> SpawnFinalize(popped, t)
        [] fn = "none"  -> popped

CloseTask(s, t) ==
  Finalize(Exit([s EXCEPT !.queue[t] = 0,
                          !.paused = [i \in Ifaces |-> @[i] \ {t}]], t), t)

\* pop_tasks_on_iface: close and finalize the tasks, then empty the set.
PopTasks(s, i) ==
  [FoldSet(LAMBDA t, r : Finalize(Exit(r, t), t), s, s.paused[i])
     EXCEPT !.paused[i] = {}]

\* _step, when the generator of the running task has ended.
StepEnd(s, t) == Finalize([s EXCEPT !.gen[t] = "done"], t)

\* The next state of EventLoop is what the calls leave behind; the callback of
\* a finished child is of no use any more.
Leaves(s) ==
  /\ <<gen', queue', paused', parked', awaiting', finalizers', finalized'>>
       = <<s.gen, s.queue, s.paused, s.parked, s.awaiting, s.finalizers,
           s.finalized>>
  /\ \A t \in Tasks : s.gen[t] = "live" => callback'[t] = s.callback[t]

(***************************************************************************)
(* The closed form End(Cascade(S)) has the effect of the recursive calls,  *)
(* whichever task is closed, popped off an interface or finishes.          *)
(***************************************************************************)
CascadeAsCoded ==
  [][/\ \A t \in Tasks : /\ Close(t) => Leaves(CloseTask(Loop, t))
                         /\ Finish(t) => Leaves(StepEnd(Loop, t))
     /\ \A i \in Ifaces : PopTasksOnIface(i) => Leaves(PopTasks(Loop, i))]_vars
=============================================================================
