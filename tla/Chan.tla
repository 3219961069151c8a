-------------------------------- MODULE Chan --------------------------------
(***************************************************************************)
(* A channel of the event loop, class chan of core/src/trezor/loop.py, and *)
(* the tasks that use it.  A task waits in put() or take(), or is given    *)
(* back to the event loop, and may be cancelled by close() or throw() at   *)
(* any of these moments.                                                   *)
(*                                                                         *)
(* The value of the n-th put or publish is n, so that values can be told   *)
(* apart.  In which order the event loop resumes scheduled tasks is left   *)
(* open.                                                                   *)
(*                                                                         *)
(* The definitions marked Faulty are not part of the specification.  Each  *)
(* is the definition that follows with a mistake built in, and shows that  *)
(* a property notices the mistake.                                         *)
(***************************************************************************)
EXTENDS Naturals, Sequences, FiniteSets, PyList

CONSTANTS Tasks,
          None,        \* the putter of a published value
          MaxValues    \* bound on the number of values

ASSUME NoneAssumption == None \notin Tasks

VARIABLES putters,     \* chan.putters
          takers,      \* chan.takers
          ctl,         \* what each task is doing
          value,       \* the value that a task puts, or was scheduled with
          offered,     \* number of values put or published so far
          received,    \* values that a take() has returned
          cancelled    \* values whose put() or take() was cancelled

vars == <<putters, takers, ctl, value, offered, received, cancelled>>

Init ==
  /\ putters = <<>>
  /\ takers = <<>>
  /\ ctl = [t \in Tasks |-> "running"]
  /\ value = [t \in Tasks |-> 0]
  /\ offered = 0
  /\ received = {}
  /\ cancelled = {}

\* schedule() of a taker with a value; the putter, if any, is scheduled too.
Scheduled(taker, putter) ==
  [t \in Tasks |-> CASE t = taker  -> "taken"
                     [] t = putter -> "sent"
                     [] OTHER      -> ctl[t]]

-----------------------------------------------------------------------------
Offer ==
  /\ offered < MaxValues
  /\ offered' = offered + 1
  /\ UNCHANGED <<received, cancelled>>

\* The first taker is scheduled with the new value.
HandOver(p) ==
  /\ takers # <<>>
  /\ takers' = Tail(takers)
  /\ ctl' = Scheduled(Head(takers), p)
  /\ value' = [t \in Tasks |-> IF t \in {Head(takers), p} THEN offered + 1 ELSE value[t]]
  /\ UNCHANGED putters

\* Nobody takes: the value, and the putter if there is one, have to wait.
Enqueue(p) ==
  /\ takers = <<>>
  /\ putters' = Append(putters, [task |-> p, value |-> offered + 1])
  /\ value' = [t \in Tasks |-> IF t = p THEN offered + 1 ELSE value[t]]
  /\ ctl' = [t \in Tasks |-> IF t = p THEN "putting" ELSE ctl[t]]
  /\ UNCHANGED takers

\* put() and _schedule_put.
Put(t) ==
  /\ ctl[t] = "running"
  /\ Offer
  /\ HandOver(t) \/ Enqueue(t)

\* Faulty: a value that nobody waits for is not kept.
PublishOrDrop ==
  /\ Offer
  /\ HandOver(None) \/ (takers = <<>> /\ UNCHANGED <<putters, takers, ctl, value>>)

Publish ==
  /\ Offer
  /\ HandOver(None) \/ Enqueue(None)

\* take() and _schedule_take.
Take(t) ==
  /\ ctl[t] = "running"
  /\ \/ /\ putters # <<>>
        /\ putters' = Tail(putters)
        /\ ctl' = Scheduled(t, Head(putters).task)
        /\ value' = [value EXCEPT ![t] = Head(putters).value]
        /\ UNCHANGED takers
     \/ /\ putters = <<>>
        /\ takers' = Append(takers, t)
        /\ ctl' = [ctl EXCEPT ![t] = "taking"]
        /\ UNCHANGED <<putters, value>>
  /\ UNCHANGED <<offered, received, cancelled>>

\* The event loop resumes a scheduled task: put() or take() returns.
Resume(t) ==
  /\ ctl[t] \in {"taken", "sent"}
  /\ ctl' = [ctl EXCEPT ![t] = "running"]
  /\ received' = IF ctl[t] = "taken" THEN received \cup {value[t]} ELSE received
  /\ UNCHANGED <<putters, takers, value, offered, cancelled>>

\* Faulty: take() does not remove the task from the takers.
CancelLeavingTaker(t) ==
  /\ ctl[t] # "running"
  /\ putters' = IF ctl[t] \in {"putting", "sent"}
                THEN Remove(putters, [task |-> t, value |-> value[t]]) ELSE putters
  /\ ctl' = [ctl EXCEPT ![t] = "running"]
  /\ cancelled' = IF ctl[t] \in {"putting", "taken"}
                    THEN cancelled \cup {value[t]} ELSE cancelled
  /\ UNCHANGED <<takers, value, offered, received>>

\* An exception in put() or take(): the task's entry is removed if it is still
\* there.  A value that the task was already scheduled with is gone.  (Instead
\* of a closed task, a new one may use the channel later.)
Cancel(t) ==
  /\ \/ /\ ctl[t] \in {"putting", "sent"}
        /\ putters' = Remove(putters, [task |-> t, value |-> value[t]])
        /\ UNCHANGED takers
     \/ /\ ctl[t] \in {"taking", "taken"}
        /\ takers' = Remove(takers, t)
        /\ UNCHANGED putters
  /\ ctl' = [ctl EXCEPT ![t] = "running"]
  /\ cancelled' = IF ctl[t] \in {"putting", "taken"}
                    THEN cancelled \cup {value[t]} ELSE cancelled
  /\ UNCHANGED <<value, offered, received>>

Next ==
  \/ \E t \in Tasks : Put(t) \/ Take(t) \/ Resume(t) \/ Cancel(t)
  \/ Publish

Spec == Init /\ [][Next]_vars

-----------------------------------------------------------------------------
Pending == {putters[i].value : i \in DOMAIN putters}

\* Tasks that a value was handed to, but that have not run yet.
Receivers == {t \in Tasks : ctl[t] = "taken"}

InFlight == {value[t] : t \in Receivers}

(***************************************************************************)
(* A task is in a list of the channel exactly while it waits there, and    *)
(* once only, so that a channel never resumes a cancelled task, or one     *)
(* task twice.                                                             *)
(***************************************************************************)
ListedWhileWaiting ==
  \A t \in Tasks :
    /\ Cardinality({i \in DOMAIN takers : takers[i] = t})
         = IF ctl[t] = "taking" THEN 1 ELSE 0
    /\ Cardinality({i \in DOMAIN putters : putters[i].task = t})
         = IF ctl[t] = "putting" THEN 1 ELSE 0

(***************************************************************************)
(* No value is lost or delivered twice: each one is waiting, on its way,   *)
(* received, or was given up by a cancelled put() or take().               *)
(***************************************************************************)
EachValueOnce ==
  /\ Pending \cup InFlight \cup received \cup cancelled = 1 .. offered
  /\ Len(putters) + Cardinality(Receivers) + Cardinality(received)
       + Cardinality(cancelled) = offered

=============================================================================
