------------------------------ MODULE Pairing ------------------------------
(***************************************************************************)
(* Bluetooth pairing in core/src/trezor/uart.py.  The Bluetooth chip sends *)
(* a code, and later whether the pairing has succeeded; the code is shown  *)
(* to the user, unless the device is locked or the screen that reports an  *)
(* earlier failure is up.                                                  *)
(*                                                                         *)
(* Codes are numbered in the order in which the chip sends them, and it    *)
(* pairs with one host at a time.  The handler of the serial line runs     *)
(* when io.poll reports a message, which comes before every task that is   *)
(* due; what it spawns runs in order.  The device is initialised.  The     *)
(* screen that reports a success changes nothing and is left out.          *)
(*                                                                         *)
(* The definitions marked Faulty are not part of the specification.  Each  *)
(* is the definition that follows with a mistake built in.                 *)
(***************************************************************************)
EXTENDS Naturals, Sequences

CONSTANTS MaxCodes,     \* how many codes the chip sends
          MaxQueue      \* how many tasks may be due

VARIABLES newest,       \* the last code that the chip has sent
          open,         \* its result is still to come
          late,         \* codes that failed while their handler waited
          closed,       \* codes during which the tasks were closed
          locked,
          queue,        \* the tasks that are due, in order
          waiting,      \* handlers that wait for the device to be unlocked
          asking,       \* codes whose handler waits for the user
          screen,       \* the code on PAIR_CODE_SCREEN, if it is not destroyed
          fading,       \* destroyed code screens that can still be touched
          BLE_PAIR_ABORT, PENDING_PAIR_CODE, PENDING_PAIR_FAILED,
          error         \* PAIR_ERROR_SCREEN is not destroyed

chip == <<newest, open>>
history == <<late, closed>>
screens == <<asking, screen, fading>>
pendings == <<PENDING_PAIR_CODE, PENDING_PAIR_FAILED>>
vars == <<chip, history, locked, queue, waiting, screens, BLE_PAIR_ABORT, pendings, error>>

NoCode == 0
Deal(c) == <<"_deal_ble_pair", c>>
Unlocked(c) == <<"unlocked", c>>
Answer(c, result) == <<"answer", c, result>>
ShowError == <<"show_pairing_error">>
ShowPending == <<"_show_pending_pair_code">>

Init ==
  /\ newest = 0 /\ open = FALSE /\ late = {} /\ closed = {}
  /\ locked \in BOOLEAN
  /\ queue = <<>> /\ waiting = {} /\ asking = {} /\ screen = NoCode /\ fading = {}
  /\ BLE_PAIR_ABORT = FALSE /\ PENDING_PAIR_CODE = NoCode /\ PENDING_PAIR_FAILED = FALSE
  /\ error = FALSE

Spawn(task) == Len(queue) < MaxQueue /\ queue' = Append(queue, task)
Run(task) == queue # <<>> /\ Head(queue) = task /\ queue' = Tail(queue)

\* For the history variable late and the properties: the task is scheduled.
Due(task) == \E j \in 1..Len(queue) : queue[j] = task

-----------------------------------------------------------------------------
\* process_push: the chip sends a code.
PairCode ==
  /\ newest < MaxCodes /\ ~open
  /\ newest' = newest + 1 /\ open' = TRUE
  /\ Spawn(Deal(newest + 1))
  /\ UNCHANGED <<history, locked, waiting, screens, BLE_PAIR_ABORT, pendings, error>>

\* The code screen is destroyed.  It is deleted, and its handler forgotten, later.
DestroyScreen == screen' = NoCode /\ fading' = fading \cup ({screen} \ {NoCode})

\* _deal_pair_res
PairSucceeds ==
  /\ open /\ open' = FALSE
  /\ DestroyScreen
  /\ UNCHANGED <<newest, history, locked, queue, waiting, asking, BLE_PAIR_ABORT,
                 pendings, error>>

PairFails ==
  /\ open /\ open' = FALSE
  /\ late' = IF newest \in waiting \/ Due(Unlocked(newest))
             THEN late \cup {newest} ELSE late
  /\ DestroyScreen
  /\ BLE_PAIR_ABORT' = TRUE
  /\ PENDING_PAIR_FAILED' = (PENDING_PAIR_FAILED \/ PENDING_PAIR_CODE # NoCode)
  /\ IF error THEN UNCHANGED queue ELSE Spawn(ShowError)
  /\ UNCHANGED <<newest, closed, locked, waiting, asking, PENDING_PAIR_CODE, error>>

\* _display_pair_code, until it asks the user
Display(c) ==
  /\ screen' = c
  /\ fading' = fading \cup ({screen} \ {NoCode})
  /\ asking' = asking \cup {c}

NothingPending == PENDING_PAIR_CODE' = NoCode /\ PENDING_PAIR_FAILED' = FALSE

\* _deal_ble_pair, once the device is unlocked
Proceed(c) ==
  \/ /\ error
     /\ PENDING_PAIR_CODE' = c /\ PENDING_PAIR_FAILED' = FALSE
     /\ UNCHANGED screens
  \/ /\ ~error /\ PENDING_PAIR_FAILED /\ PENDING_PAIR_CODE = c
     /\ NothingPending /\ UNCHANGED screens
  \/ /\ ~error /\ ~(PENDING_PAIR_FAILED /\ PENDING_PAIR_CODE = c)
     /\ NothingPending /\ Display(c)

\* _deal_ble_pair
DealBlePair(c) ==
  /\ Run(Deal(c))
  /\ BLE_PAIR_ABORT' = FALSE
  /\ \/ locked /\ waiting' = waiting \cup {c} /\ UNCHANGED <<screens, pendings>>
     \/ ~locked /\ Proceed(c) /\ UNCHANGED waiting
  /\ UNCHANGED <<chip, history, locked, error>>

\* unlock_device: the user unlocks the device, or does not.
UnlockDevice(c) ==
  /\ c \in waiting /\ waiting' = waiting \ {c}
  /\ locked' = FALSE
  /\ Spawn(Unlocked(c))
  /\ UNCHANGED <<chip, history, screens, BLE_PAIR_ABORT, pendings, error>>

\* The exception ends in Restart; until then the handler does nothing.
UnlockFails(c) ==
  /\ c \in waiting /\ waiting' = waiting \ {c}
  /\ UNCHANGED <<chip, history, locked, queue, screens, BLE_PAIR_ABORT, pendings, error>>

\* Faulty: nobody looks whether the pairing is over.
ResumeAnyway(c) ==
  /\ Run(Unlocked(c)) /\ Proceed(c)
  /\ UNCHANGED <<chip, history, locked, waiting, BLE_PAIR_ABORT, error>>

\* _deal_ble_pair goes on after unlock_device.
Resume(c) ==
  /\ Run(Unlocked(c))
  /\ \/ BLE_PAIR_ABORT /\ UNCHANGED <<screens, pendings>>
     \/ ~BLE_PAIR_ABORT /\ Proceed(c)
  /\ UNCHANGED <<chip, history, locked, waiting, BLE_PAIR_ABORT, error>>

\* PairCodeDisplay: the user touches a button, which destroys the screen.
Touch(c, result) ==
  /\ c \in asking /\ c \in {screen} \cup fading
  /\ asking' = asking \ {c} /\ fading' = fading \ {c}
  /\ screen' = IF screen = c THEN NoCode ELSE screen
  /\ Spawn(Answer(c, result))
  /\ UNCHANGED <<chip, history, locked, waiting, BLE_PAIR_ABORT, pendings, error>>

\* The rest of _display_pair_code.  What the chip does with the answer is open.
Respond(c, result) ==
  /\ Run(Answer(c, result))
  /\ BLE_PAIR_ABORT' = (BLE_PAIR_ABORT \/ result = 0)
  /\ UNCHANGED <<chip, history, locked, waiting, screens, pendings, error>>

\* del_delayed: a destroyed screen is gone, and nobody can answer any more.
Faded(c) ==
  /\ c \in fading /\ fading' = fading \ {c} /\ asking' = asking \ {c}
  /\ UNCHANGED <<chip, history, locked, queue, waiting, screen, BLE_PAIR_ABORT, pendings, error>>

\* show_pairing_error
PairingError ==
  /\ Run(ShowError) /\ error' = TRUE
  /\ UNCHANGED <<chip, history, locked, waiting, screens, BLE_PAIR_ABORT, pendings>>

\* Faulty: only the task that showed the screen would go on.
CloseErrorQuietly ==
  /\ error /\ error' = FALSE
  /\ UNCHANGED <<chip, history, locked, queue, waiting, screens, BLE_PAIR_ABORT, pendings>>

\* PairFailedScreen.destroy
CloseError ==
  /\ error /\ error' = FALSE
  /\ IF PENDING_PAIR_CODE = NoCode THEN UNCHANGED queue ELSE Spawn(ShowPending)
  /\ UNCHANGED <<chip, history, locked, waiting, screens, BLE_PAIR_ABORT, pendings>>

\* _show_pending_pair_code
ShowPendingPairCode ==
  /\ Run(ShowPending)
  /\ NothingPending
  /\ IF PENDING_PAIR_CODE = NoCode \/ PENDING_PAIR_FAILED
     THEN UNCHANGED screens ELSE Display(PENDING_PAIR_CODE)
  /\ UNCHANGED <<chip, history, locked, waiting, BLE_PAIR_ABORT, error>>

\* workflow.close_others, by lock_device or by a dialogue with the host
CloseOthers ==
  /\ queue' = <<>> /\ waiting' = {} /\ asking' = {}
  /\ closed' = closed \cup {newest}
  /\ locked' \in {locked, TRUE}
  /\ UNCHANGED <<chip, late, screen, fading, BLE_PAIR_ABORT, pendings, error>>

\* The main loop starts over, with uart.py imported again.
Restart ==
  /\ queue' = <<>> /\ waiting' = {} /\ asking' = {} /\ screen' = NoCode /\ fading' = {}
  /\ BLE_PAIR_ABORT' = FALSE /\ NothingPending /\ error' = FALSE
  /\ closed' = closed \cup {newest}
  /\ UNCHANGED <<chip, late, locked>>

Next ==
  \/ PairCode \/ PairSucceeds \/ PairFails
  \/ PairingError \/ CloseError \/ ShowPendingPairCode \/ CloseOthers \/ Restart
  \/ \E c \in 1..newest :
       \/ DealBlePair(c) \/ UnlockDevice(c) \/ UnlockFails(c) \/ Resume(c) \/ Faded(c)
       \/ \E result \in {0, 1} : Touch(c, result) \/ Respond(c, result)

Spec == Init /\ [][Next]_vars

-----------------------------------------------------------------------------
\* A pairing that fails while _deal_ble_pair waits for the device to be unlocked
\* is over: its code is not shown and not kept, unless the chip has sent another
\* code since, which resets BLE_PAIR_ABORT for both.
AbortedNotShown == newest \in late => newest \notin {screen, PENDING_PAIR_CODE}

\* The newest code is not lost behind the screen that reports a failure: while it
\* is pending, that screen is up or a task is due that shows the code, unless the
\* tasks were closed by close_others.
NotStranded ==
  newest \in {PENDING_PAIR_CODE} \ ({NoCode} \cup closed) => error \/ Due(ShowPending)
=============================================================================
