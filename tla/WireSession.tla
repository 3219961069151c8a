---------------------------- MODULE WireSession ----------------------------
(***************************************************************************)
(* The wire sessions of core/src/trezor/wire/__init__.py, one for each     *)
(* interface, and the way the device calls off what they wait for:         *)
(* signal_ack() sends "cancel" through SIGNAL_CHANNEL, the signal() of a   *)
(* waiting session answers its host with a failure and sends "done", and   *)
(* signal_ack() waits for that through the same channel.                   *)
(*                                                                         *)
(* Nobody looks at the values in the channel: "cancel" and "done" are the  *)
(* same to a taker.  Tasks that are due are resumed in the order in which  *)
(* they were scheduled; what io.poll reports (a report was written, the    *)
(* user or the host did something) comes before them at any time.          *)
(*                                                                         *)
(* The definitions marked Faulty are not part of the specification.  Each  *)
(* is the definition that follows with a mistake built in.                 *)
(***************************************************************************)
EXTENDS Naturals, Sequences, FiniteSets, PyList

CONSTANTS Sessions,     \* the interfaces
          Callers       \* the users of signal_ack

\* turn_off_lcd, the end of a BLE connection, a USB lock and the power button.
ASSUME CallersAssumption == Callers \subseteq {"off", "ble", "usb", "button"}

VARIABLES takers,       \* SIGNAL_CHANNEL.takers
          done,         \* SIGNAL_CHANNEL.putters: how many values nobody took yet
          queue,        \* the tasks of the event loop that are due, in order
          ctl,          \* what each session does
          sig,          \* the signal() child of the race a session waits in
          ack,          \* what each signal_ack() does
          waited,       \* sessions that signal_ack() found waiting, and still wait
          disturbed     \* calls that another call or an ending race interfered with

vars == <<takers, done, queue, ctl, sig, ack, waited, disturbed>>
chan == <<takers, done>>
history == <<waited, disturbed>>

Signal(s) == <<"signal", s>>
Session(s) == <<"session", s>>
Ack(a) == <<"ack", a>>

\* The session loops are started anew, with a new channel.
Fresh ==
  [ takers |-> <<>>, done |-> 0, queue |-> <<>>,
    ctl |-> [s \in Sessions |-> "read"], sig |-> [s \in Sessions |-> "none"],
    ack |-> [a \in Callers |-> "none"] ]

Init ==
  /\ takers = Fresh.takers /\ done = Fresh.done /\ queue = Fresh.queue
  /\ ctl = Fresh.ctl /\ sig = Fresh.sig /\ ack = Fresh.ack
  /\ waited = [a \in Callers |-> {}]
  /\ disturbed = {}

\* loop.clear() and the restart in main.py.
Clear ==
  /\ takers' = Fresh.takers /\ done' = Fresh.done /\ queue' = Fresh.queue
  /\ ctl' = Fresh.ctl /\ sig' = Fresh.sig /\ ack' = Fresh.ack
  /\ waited' = [a \in Callers |-> {}]
  /\ disturbed' = {}

-----------------------------------------------------------------------------
\* A task that the channel schedules with a value.
SigTaken(f, t) == IF t[1] = "signal" THEN [f EXCEPT ![t[2]] = "taken"] ELSE f
AckTaken(f, t) == IF t[1] = "ack" THEN [f EXCEPT ![t[2]] = "got"] ELSE f

\* The session s is no longer in the race it was in.
Ended(s) == [a \in Callers |-> waited[a] \ {s}]

\* The race ends and signal() with it, which leaves the channel.
Leave(s) ==
  /\ takers' = Remove(takers, Signal(s))
  /\ sig' = [sig EXCEPT ![s] = "none"]
  /\ ctl' = [ctl EXCEPT ![s] = "resumed"]
  /\ waited' = Ended(s)

-----------------------------------------------------------------------------
\* handle_session has read a message.  The handler, in a workflow of its own,
\* comes to ctx.wait() or ctx.call(), or has an answer right away.
EnterRace(s) ==
  /\ ctl' = [ctl EXCEPT ![s] = "race"]
  /\ sig' = [sig EXCEPT ![s] = "start"]

Request(s) ==
  /\ ctl[s] = "read"
  /\ \/ EnterRace(s) /\ queue' = Append(queue, Signal(s))
     \/ ctl' = [ctl EXCEPT ![s] = "answer"] /\ UNCHANGED <<sig, queue>>
  /\ UNCHANGED <<chan, ack, history>>

\* Another child of the race is first: the dialogue is finished or a message
\* came in.  race._finish closes signal(), whatever it was doing.
Finish(s) ==
  /\ ctl[s] = "race"
  /\ Leave(s)
  /\ queue' = Append(Remove(queue, Signal(s)), Session(s))
  /\ disturbed' = IF sig[s] \in {"taken", "write"}
                  THEN disturbed \cup {a \in Callers : ack[a] # "none"}
                  ELSE disturbed
  /\ UNCHANGED <<done, ack>>

\* Faulty: "done" goes to the task that came last.
WrittenToLast(s) ==
  /\ sig[s] = "write"
  /\ ctl' = [ctl EXCEPT ![s] = "resumed"]
  /\ waited' = Ended(s)
  /\ IF takers # <<>>
     THEN /\ takers' = SubSeq(takers, 1, Len(takers) - 1)
          /\ queue' = queue \o <<takers[Len(takers)], Session(s)>>
          /\ sig' = SigTaken([sig EXCEPT ![s] = "none"], takers[Len(takers)])
          /\ ack' = AckTaken(ack, takers[Len(takers)])
          /\ UNCHANGED done
     ELSE /\ done' = done + 1
          /\ queue' = Append(queue, Session(s))
          /\ sig' = [sig EXCEPT ![s] = "none"]
          /\ UNCHANGED <<takers, ack>>
  /\ UNCHANGED disturbed

\* Faulty: "done" is dropped if nobody takes it yet.
WrittenDropped(s) ==
  /\ sig[s] = "write"
  /\ ctl' = [ctl EXCEPT ![s] = "resumed"]
  /\ waited' = Ended(s)
  /\ IF takers # <<>>
     THEN /\ takers' = Tail(takers)
          /\ queue' = queue \o <<Head(takers), Session(s)>>
          /\ sig' = SigTaken([sig EXCEPT ![s] = "none"], Head(takers))
          /\ ack' = AckTaken(ack, Head(takers))
     ELSE /\ queue' = Append(queue, Session(s))
          /\ sig' = [sig EXCEPT ![s] = "none"]
          /\ UNCHANGED <<takers, ack>>
  /\ UNCHANGED <<done, disturbed>>

\* The failure is written: signal() publishes "done" and returns, and so the
\* race ends with None for its result.
Written(s) ==
  /\ sig[s] = "write"
  /\ ctl' = [ctl EXCEPT ![s] = "resumed"]
  /\ waited' = Ended(s)
  /\ IF takers # <<>>
     THEN /\ takers' = Tail(takers)
          /\ queue' = queue \o <<Head(takers), Session(s)>>
          /\ sig' = SigTaken([sig EXCEPT ![s] = "none"], Head(takers))
          /\ ack' = AckTaken(ack, Head(takers))
          /\ UNCHANGED done
     ELSE /\ done' = done + 1
          /\ queue' = Append(queue, Session(s))
          /\ sig' = [sig EXCEPT ![s] = "none"]
          /\ UNCHANGED <<takers, ack>>
  /\ UNCHANGED disturbed

\* write_message raises WriteError: "done" is not published, and the race ends
\* with the exception.
WriteFails(s) ==
  /\ sig[s] = "write"
  /\ Leave(s)
  /\ queue' = Append(queue, Session(s))
  /\ disturbed' = disturbed \cup {a \in Callers : ack[a] # "none"}
  /\ UNCHANGED <<done, ack>>

\* The answer of the workflow is written, or could not be.  The session ends
\* with loop.clear(), unless the message is in AVOID_RESTARTING_FOR.
Answered(s) ==
  /\ ctl[s] = "answer"
  /\ \/ Clear
     \/ ctl' = [ctl EXCEPT ![s] = "read"] /\ UNCHANGED <<chan, queue, sig, ack, history>>

-----------------------------------------------------------------------------
\* What the caller does when its signal_ack() has returned.
Return(a) ==
  \/ a = "off" /\ Clear
  \/ /\ a = "ble"
     /\ ack' = [ack EXCEPT ![a] = "none"]
     /\ disturbed' = disturbed \ {a}
     /\ UNCHANGED <<ctl, sig, waited>>
  \/ /\ a \in {"usb", "button"}
     /\ ack' = [ack EXCEPT ![a] = "reloop"]
     /\ UNCHANGED <<ctl, sig, history>>

\* signal_ack: the first taker is scheduled with "cancel", and then the caller.
SignalAck(a) ==
  /\ ack[a] = "none"
  /\ IF takers = <<>>
     THEN Return(a) /\ (a # "off" => UNCHANGED <<chan, queue>>)
     ELSE /\ takers' = Tail(takers)
          /\ sig' = SigTaken(sig, Head(takers))
          /\ ack' = [AckTaken(ack, Head(takers)) EXCEPT ![a] = "put"]
          /\ queue' = queue \o <<Head(takers), Ack(a)>>
          /\ waited' = [waited EXCEPT ![a] = {s \in Sessions : sig[s] = "take"}]
          /\ disturbed' = IF \E b \in Callers : ack[b] # "none"
                          THEN disturbed \cup {a} \cup {b \in Callers : ack[b] # "none"}
                          ELSE disturbed
          /\ UNCHANGED <<done, ctl>>

\* The power button waits 200 ms for signal_ack() at most.
GiveUp(a) ==
  /\ a = "button"
  /\ ack[a] \in {"put", "take", "got"}
  /\ takers' = Remove(takers, Ack(a))
  /\ queue' = Remove(queue, Ack(a))
  /\ ack' = [ack EXCEPT ![a] = "reloop"]
  /\ UNCHANGED <<done, ctl, sig, history>>

\* workflow.spawn(utils.internal_reloop())
InternalReloop(a) == ack[a] = "reloop" /\ Clear

-----------------------------------------------------------------------------
\* take(): a value that is there is taken at once.
Take(t) ==
  IF done > 0
  THEN /\ done' = done - 1
       /\ queue' = Append(Tail(queue), t)
       /\ sig' = SigTaken(sig, t)
       /\ ack' = AckTaken(ack, t)
       /\ UNCHANGED takers
  ELSE /\ takers' = Append(takers, t)
       /\ queue' = Tail(queue)
       /\ sig' = IF t[1] = "signal" THEN [sig EXCEPT ![t[2]] = "take"] ELSE sig
       /\ ack' = IF t[1] = "ack" THEN [ack EXCEPT ![t[2]] = "take"] ELSE ack
       /\ UNCHANGED done

\* The race starts its children, or signal() begins to write the failure.
StepSignal(s) ==
  /\ Head(queue) = Signal(s)
  /\ \/ sig[s] = "start" /\ Take(Signal(s))
     \/ /\ sig[s] = "taken"
        /\ sig' = [sig EXCEPT ![s] = "write"]
        /\ queue' = Tail(queue)
        /\ UNCHANGED <<chan, ack>>
  /\ UNCHANGED <<ctl, history>>

\* The workflow goes on to its next dialogue or to its end.
StepSession(s) ==
  /\ Head(queue) = Session(s)
  /\ \/ EnterRace(s) /\ queue' = Append(Tail(queue), Signal(s))
     \/ ctl' = [ctl EXCEPT ![s] = "answer"] /\ queue' = Tail(queue) /\ UNCHANGED sig
  /\ UNCHANGED <<chan, ack, history>>

StepAck(a) ==
  /\ Head(queue) = Ack(a)
  /\ \/ ack[a] = "put" /\ Take(Ack(a)) /\ UNCHANGED <<ctl, history>>
     \/ ack[a] = "got" /\ Return(a) /\ (a # "off" => queue' = Tail(queue) /\ UNCHANGED chan)

Step ==
  /\ queue # <<>>
  /\ \/ \E s \in Sessions : StepSignal(s) \/ StepSession(s)
     \/ \E a \in Callers : StepAck(a)

Next ==
  \/ \E s \in Sessions : Request(s) \/ Finish(s) \/ Written(s) \/ WriteFails(s) \/ Answered(s)
  \/ \E a \in Callers : SignalAck(a) \/ GiveUp(a) \/ InternalReloop(a)
  \/ Step

\* run() takes the tasks that are due, a report is written or times out, and
\* sleeps end.  Nothing is assumed of hosts and users.
Fairness ==
  /\ WF_vars(Step)
  /\ \A s \in Sessions : WF_vars(Written(s) \/ WriteFails(s)) /\ WF_vars(Answered(s))
  /\ \A a \in Callers : WF_vars(GiveUp(a)) /\ WF_vars(InternalReloop(a))

Spec == Init /\ [][Next]_vars /\ Fairness

-----------------------------------------------------------------------------
\* When signal_ack() returns, every session that waited when it was called has
\* told its host so, although "cancel" went to the first of them only: "done" is
\* a "cancel" for the next one, and the caller stands behind all of them.  Other
\* calls, write errors and races that end in between may break the chain.
AllCancelled ==
  \A a \in Callers : ack[a] = "got" /\ a \notin disturbed => waited[a] = {}

\* signal_ack() comes back, or the loop is restarted, whatever hosts and users
\* do, unless the chain of "done" was broken.
AckEnds ==
  \A a \in Callers : ack[a] # "none" ~> ack[a] = "none" \/ a \in disturbed
=============================================================================
