----------------------------- MODULE FidoDialog -----------------------------
(***************************************************************************)
(* DialogManager of core/src/apps/webauthn/fido2.py on the USB interface:  *)
(* the task that shows a dialogue for a request, the task that watches its *)
(* deadline, and the commands of the hosts.                                *)
(*                                                                         *)
(* A U2F request is polled: the host repeats it until the user has         *)
(* decided.  A CTAP2 request is sent once and answered once; its first     *)
(* state, Fido2Unlock, turns into the dialogue proper.  The commands are   *)
(* handled one at a time and without an await, the clock is the question   *)
(* whether the deadline has passed.                                        *)
(*                                                                         *)
(* The definitions marked Faulty are not part of the specification.  Each  *)
(* is the definition that follows with a mistake built in.                 *)
(***************************************************************************)
EXTENDS Naturals

CONSTANTS U2f, Ctap,    \* requests
          Channels,
          Cid,          \* the channel of each request
          MaxLoops,     \* how many keepalive_loop tasks there may be
          None

Requests == U2f \cup Ctap

ASSUME CidAssumption ==
  /\ U2f \cap Ctap = {} /\ Cid \in [Requests -> Channels]
  /\ None \notin Requests \cup Channels
  /\ None \notin [req : Requests, finished : BOOLEAN,
                  class : {"U2fUnlock", "U2fConfirm",
                           "Fido2Unlock", "Fido2Confirm", "Fido2ConfirmNoPin"}]

VARIABLES mgr,          \* the dialogue manager, its two tasks and the history
          locked,
          others        \* workflow.tasks holds a task other than the dialogue

vars == <<mgr, locked, others>>

(***************************************************************************)
(* state:    the request and the class of DialogManager.state              *)
(* expired:  utime.ticks_ms() >= deadline                                  *)
(* task:     what dialog_workflow does, choice: what its dialogue returned *)
(* loops:    number of keepalive_loop tasks, ref: keepalive is not None    *)
(* answers:  answers to a CTAP2 request, cancels: answers by cmd_cancel    *)
(* dropped:  CTAP2 requests whose task was closed before it had started or *)
(*           in on_confirm, or has ended there with an exception           *)
(* consent:  what became of the user's consent to a U2F request            *)
(***************************************************************************)
Cleared(m) ==
  [m EXCEPT !.state = None, !.expired = TRUE, !.result = "none", !.task = "none",
            !.choice = "none", !.ref = FALSE]

Init ==
  /\ mgr = [state |-> None, expired |-> TRUE, result |-> "none", task |-> "none",
            choice |-> "none", loops |-> 0, ref |-> FALSE,
            asked |-> {}, answers |-> [r \in Ctap |-> 0], cancels |-> [r \in Ctap |-> 0],
            dropped |-> {}, consent |-> [r \in U2f |-> "none"]]
  /\ locked \in BOOLEAN /\ others = FALSE

State(r, class) == [req |-> r, class |-> class, finished |-> FALSE]
Fido2State(s) == s # None /\ s.class \in {"Fido2Unlock", "Fido2Confirm"}
Running(m) == m.task \notin {"none", "done"}
Answered(m, r) == [m EXCEPT !.answers[r] = @ + 1, !.state.finished = TRUE]
Dropped(m) == IF m.state.req \in Ctap THEN [m EXCEPT !.dropped = @ \cup {m.state.req}] ELSE m

\* loop.close(self.keepalive)
CloseKeepalive(m) == IF m.ref THEN [m EXCEPT !.loops = @ - 1, !.ref = FALSE] ELSE m

\* Faulty: every state answers the host when it is declined.
OnDeclineAlways(m) ==
  IF m.state.req \in Ctap THEN Answered(m, m.state.req) ELSE m

\* on_decline and on_timeout: an answer this short is written without an await.
OnDecline(m) == IF Fido2State(m.state) THEN Answered(m, m.state.req) ELSE m


\* The finally clause of dialog_workflow, if the result is not a confirmation.
Finally(m) ==
  LET n == [CloseKeepalive(m) EXCEPT !.task = "done"]
  IN  IF m.result = "cancel" THEN n ELSE OnDecline(n)

\* workflow.close().  A task that has not started has no finally clause yet, and
\* one that is in it leaves it.
CloseWorkflow(m) ==
  CASE ~Running(m)                    -> m
    [] m.task \in {"dialog", "chosen"} -> Finally(m)
    [] m.task \in {"start", "confirm"} -> [Dropped(m) EXCEPT !.task = "done"]
    [] m.task = "popup"                -> [m EXCEPT !.task = "done"]

\* reset(): a consent that was not used is gone.
Reset(m) ==
  LET n == Cleared(CloseKeepalive(CloseWorkflow(m)))
  IN  [n EXCEPT !.consent = [r \in U2f |-> IF @[r] = "given" THEN "none" ELSE @[r]]]

\* is_busy(): what it does, and what it returns after that.
Refresh(m) ==
  IF m.expired \/ (Running(m) /\ m.state.finished) THEN Reset(m) ELSE m

IsBusy(m) == Running(m) \/ others

-----------------------------------------------------------------------------
\* __eq__: one U2fUnlock is like another, and CTAP2 states have no __eq__.
Equal(s, t) ==
  s # None /\ s.class = t.class /\ (s.class = "U2fUnlock" \/ (s.class = "U2fConfirm" /\ s.req = t.req))

\* The second half of set_state: the tasks of a new dialogue.
NewDialog(m, s) ==
  [m EXCEPT !.state = s, !.expired = FALSE, !.result = "none", !.task = "start",
            !.loops = @ + 1, !.ref = TRUE]

\* Faulty: the result of the last dialogue stays.
SetStateKeepsResult(m, s) ==
  IF Equal(m.state, s) /\ ~m.expired THEN m
  ELSE IF IsBusy(Refresh(m)) THEN Refresh(m)
  ELSE [NewDialog(Refresh(m), s) EXCEPT !.result = Refresh(m).result]

\* set_state.  It returns True if the state is s afterwards.  For an equal state,
\* reset_timeout keeps the deadline in the future.
SetState(m, s) ==
  IF Equal(m.state, s) /\ ~m.expired THEN m
  ELSE IF IsBusy(Refresh(m)) THEN Refresh(m)
  ELSE NewDialog(Refresh(m), s)

\* handle_reports: ERR_CHANNEL_BUSY for a command on another channel.
ChannelBusy(m, cid) == IsBusy(m) /\ (m.state = None \/ cid # Cid[m.state.req])

\* msg_register and msg_authenticate
U2fRequest(r) ==
  LET m == Refresh(mgr)
      n == SetState(m, State(r, IF locked THEN "U2fUnlock" ELSE "U2fConfirm"))
  IN  /\ mgr' = IF ChannelBusy(m, Cid[r]) THEN m
                ELSE IF Equal(n.state, State(r, "U2fConfirm")) /\ n.result = "confirm"
                THEN Reset([n EXCEPT !.consent[r] = IF @ = "given" THEN "used" ELSE "forged"])
                ELSE n
      /\ mgr'.loops <= MaxLoops
      /\ UNCHANGED <<locked, others>>

\* cbor_make_credential, cbor_get_assertion and, with no unlocking, cbor_reset
CtapRequest(r) ==
  LET m == Refresh(mgr)
  IN  /\ r \notin mgr.asked
      /\ \E class \in {"Fido2Unlock", "Fido2Confirm"} :
           mgr' = IF ChannelBusy(m, Cid[r]) \/ IsBusy(m) THEN m
                  ELSE [SetState(m, State(r, class)) EXCEPT !.asked = @ \cup {r}]
      /\ mgr'.loops <= MaxLoops
      /\ UNCHANGED <<locked, others>>

\* cmd_cancel
CmdCancel(cid) ==
  LET m == Refresh(mgr)
      n == Reset([m EXCEPT !.result = "cancel"])
  IN  /\ mgr' = IF ChannelBusy(m, cid) THEN m
                ELSE IF Fido2State(m.state)
                THEN [n EXCEPT !.cancels[m.state.req] = @ + 1] ELSE n
      /\ UNCHANGED <<locked, others>>

-----------------------------------------------------------------------------
\* dialog_workflow starts and shows its dialogue.
Start ==
  /\ mgr.task = "start"
  /\ mgr' = [mgr EXCEPT !.task = "dialog"]
  /\ UNCHANGED <<locked, others>>

\* confirm_dialog is about to return: the user has decided, an error has occurred
\* or, for Fido2Unlock, process_func has returned the next state.
Choose(choice) ==
  /\ mgr.task = "dialog"
  /\ choice \in {"Fido2Confirm", "Fido2ConfirmNoPin"} => mgr.state.class = "Fido2Unlock"
  /\ mgr.state.class = "Fido2ConfirmNoPin" => choice = "decline"
  /\ mgr' = [mgr EXCEPT !.task = "chosen", !.choice = choice,
                        !.consent = IF choice = "confirm" /\ mgr.state.class = "U2fConfirm"
                                    THEN [@ EXCEPT ![mgr.state.req] = "given"] ELSE @]
  /\ locked' = (locked /\ ~(/\ mgr.state.class \in {"U2fUnlock", "Fido2Unlock"}
                            /\ choice \notin {"decline", "error"}))
  /\ UNCHANGED others

\* dialog_workflow goes on.  Fido2ConfirmNoPin answers before it shows a dialogue.
GoOn ==
  /\ mgr.task = "chosen"
  /\ mgr' =
       LET m == [mgr EXCEPT !.choice = "none"]
           next == [m EXCEPT !.state = State(m.state.req, mgr.choice), !.expired = FALSE,
                             !.task = "dialog"]
           confirmed == [CloseKeepalive(m) EXCEPT !.result = "confirm"]
       IN  CASE mgr.choice = "Fido2Confirm"      -> next
             [] mgr.choice = "Fido2ConfirmNoPin" -> Answered(next, m.state.req)
             [] mgr.choice = "decline" -> Finally([m EXCEPT !.result = "decline"])
             [] mgr.choice = "error"   -> Finally(m)
             [] mgr.choice = "confirm" ->
                  [confirmed EXCEPT !.task = IF Fido2State(m.state) THEN "confirm" ELSE "done"]
  /\ UNCHANGED <<locked, others>>

\* on_confirm of a CTAP2 state, which awaits pop-ups and the writing of a long
\* answer, and may show a pop-up afterwards.  Fido2Unlock does not set finished.
\* send_cmd_hid gives up on a host that does not read, and making a credential may
\* fail: nothing catches the exception, and the task ends.
OnConfirm ==
  /\ mgr.task = "confirm"
  /\ \/ mgr' = [mgr EXCEPT !.answers[mgr.state.req] = @ + 1, !.task = "popup",
                           !.state.finished = (mgr.state.class = "Fido2Confirm")]
     \/ mgr' = [Dropped(mgr) EXCEPT !.task = "done"]
  /\ UNCHANGED <<locked, others>>

Done ==
  /\ mgr.task = "popup"
  /\ mgr' = [mgr EXCEPT !.task = "done"]
  /\ UNCHANGED <<locked, others>>

\* The deadline passes.
Expire ==
  /\ ~mgr.expired
  /\ mgr' = [mgr EXCEPT !.expired = TRUE,
                        !.consent = [r \in U2f |-> IF @[r] = "given" THEN "none" ELSE @[r]]]
  /\ UNCHANGED <<locked, others>>

\* keepalive_loop finds that the deadline has passed.
Timeout ==
  /\ mgr.loops > 0 /\ mgr.expired
  /\ mgr' = Reset([mgr EXCEPT !.loops = @ - 1, !.ref = FALSE, !.result = "timeout"])
  /\ UNCHANGED <<locked, others>>

\* workflow.close_others, by lock_device or by another workflow
CloseOthers ==
  /\ mgr' = CloseWorkflow(mgr)
  /\ locked' \in {locked, TRUE}
  /\ UNCHANGED others

OtherTask == others' = ~others /\ UNCHANGED <<mgr, locked>>

Next ==
  \/ \E r \in U2f : U2fRequest(r)
  \/ \E r \in Ctap : CtapRequest(r)
  \/ \E cid \in Channels : CmdCancel(cid)
  \/ \E choice \in {"confirm", "decline", "error", "Fido2Confirm", "Fido2ConfirmNoPin"} :
       Choose(choice)
  \/ Start \/ GoOn \/ OnConfirm \/ Done \/ Expire \/ Timeout \/ CloseOthers \/ OtherTask

\* Tasks that are due run, pop-ups and sleeps end, and time passes.  Nothing is
\* assumed of users and hosts.
Fairness ==
  /\ WF_vars(Start) /\ WF_vars(GoOn) /\ WF_vars(OnConfirm) /\ WF_vars(Done)
  /\ WF_vars(Expire) /\ WF_vars(Timeout)

Spec == Init /\ [][Next]_vars /\ Fairness

-----------------------------------------------------------------------------
\* A U2F request is signed only if the user has consented to this request, in a
\* dialogue that neither the deadline nor reset() has ended, and once only.
SignedIsConsented == \A r \in U2f : mgr.consent[r] # "forged"

\* A CTAP2 request is answered at most once by its dialogue, however the decision
\* of the user, the deadline, other commands and close_others meet.
AnsweredOnce == \A r \in Ctap : mgr.answers[r] <= 1

=============================================================================
