--------------------------- MODULE PairingProofs ---------------------------
(***************************************************************************)
(* Proofs about Bluetooth pairing, for any number of codes and any length  *)
(* of the queue.                                                           *)
(***************************************************************************)
EXTENDS Pairing, TLAPS

\* The tasks of _deal_ble_pair for code c.
Handler(c) == {Deal(c), Unlocked(c)}

Tasks == {Deal(c) : c \in Nat} \cup {Unlocked(c) : c \in Nat}
           \cup {Answer(c, result) : c \in Nat, result \in {0, 1}}
           \cup {ShowError, ShowPending}

TypeOK ==
  /\ newest \in Nat
  /\ late \subseteq 1..newest
  /\ queue \in Seq(Tasks)
  /\ waiting \subseteq 1..newest
  /\ PENDING_PAIR_CODE \in 0..newest
  /\ open => newest # 0

\* Codes are taken up in order.
Fifo ==
  /\ \A j \in 1..Len(queue), c \in Nat : queue[j] \in Handler(c) => c \in 1..newest
  /\ \A j \in 1..Len(queue), c \in Nat :
       queue[j] = Deal(c) => \E m \in j..Len(queue) : queue[m] = Deal(newest)

\* The handler of the newest code is in one place.
OnePlace ==
  /\ \A j, m \in 1..Len(queue) :
       queue[j] \in Handler(newest) /\ queue[m] \in Handler(newest) => j = m
  /\ newest \in waiting => \A j \in 1..Len(queue) : queue[j] \notin Handler(newest)

\* The handler of the newest code has not yet shown or kept it.
Coming == newest \in waiting \/ \E j \in 1..Len(queue) : queue[j] \in Handler(newest)

\* A pairing that failed while its handler waited stays aborted for that handler.
Aborted ==
  newest \in late =>
    /\ ~open
    /\ screen # newest /\ PENDING_PAIR_CODE # newest
    /\ \A j \in 1..Len(queue), c \in Nat : queue[j] # Deal(c)
    /\ BLE_PAIR_ABORT \/ ~Coming

IInv ==
  /\ TypeOK /\ Fifo /\ OnePlace
  /\ Coming => PENDING_PAIR_CODE # newest
  /\ Aborted
  /\ NotStranded

-----------------------------------------------------------------------------
\* Tasks are told apart by what they do and for which code.
LEMMA Kinds ==
  /\ \A c \in Nat : Deal(c) \in Tasks /\ Unlocked(c) \in Tasks
  /\ \A c \in Nat, result \in {0, 1} : Answer(c, result) \in Tasks
  /\ ShowError \in Tasks /\ ShowPending \in Tasks
  /\ \A c, d \in Nat : Deal(c) # Unlocked(d) /\ (Deal(c) = Deal(d) => c = d)
                       /\ (Unlocked(c) = Unlocked(d) => c = d)
  /\ \A c, d \in Nat, result \in {0, 1} : Answer(c, result) \notin Handler(d)
  /\ \A c \in Nat : ShowError \notin Handler(c) /\ ShowPending \notin Handler(c)
  /\ \A c \in Nat, result \in {0, 1} : Answer(c, result) # ShowPending
  /\ ShowError # ShowPending
<1>1. /\ \A c \in Nat : Deal(c) \in Tasks /\ Unlocked(c) \in Tasks
      /\ \A c \in Nat, result \in {0, 1} : Answer(c, result) \in Tasks
      /\ ShowError \in Tasks /\ ShowPending \in Tasks
  BY DEF Tasks
<1>2. /\ \A c : Deal(c)[1] = "_deal_ble_pair" /\ Deal(c)[2] = c
      /\ \A c : Unlocked(c)[1] = "unlocked" /\ Unlocked(c)[2] = c
      /\ \A c, result : Answer(c, result)[1] = "answer"
      /\ ShowError[1] = "show_pairing_error" /\ ShowPending[1] = "_show_pending_pair_code"
  BY DEF Deal, Unlocked, Answer, ShowError, ShowPending
<1>3. \A c, d \in Nat : Deal(c) # Unlocked(d) /\ (Deal(c) = Deal(d) => c = d)
                        /\ (Unlocked(c) = Unlocked(d) => c = d)
  BY <1>2
<1>4. \A c, d \in Nat, result \in {0, 1} : Answer(c, result) \notin Handler(d)
  BY <1>2 DEF Handler
<1>5. \A c \in Nat : ShowError \notin Handler(c) /\ ShowPending \notin Handler(c)
  BY <1>2 DEF Handler
<1>6. (\A c \in Nat, result \in {0, 1} : Answer(c, result) # ShowPending)
      /\ ShowError # ShowPending
  BY <1>2
<1> QED
  BY <1>1, <1>3, <1>4, <1>5, <1>6

\* A task is spawned at the end of the queue.
LEMMA Spawned ==
  ASSUME queue \in Seq(Tasks), NEW task \in Tasks, Spawn(task)
  PROVE  /\ queue' \in Seq(Tasks) /\ Len(queue') = Len(queue) + 1
         /\ \A j \in 1..Len(queue) : queue'[j] = queue[j]
         /\ queue'[Len(queue) + 1] = task
  BY DEF Spawn

\* A task is taken from the front.
LEMMA Ran ==
  ASSUME queue \in Seq(Tasks), NEW task, Run(task)
  PROVE  /\ queue' \in Seq(Tasks) /\ Len(queue) >= 1 /\ Len(queue') = Len(queue) - 1
         /\ queue[1] = task
         /\ \A j \in 1..Len(queue') : queue'[j] = queue[j + 1]
  BY DEF Run

\* A step that leaves the handlers of the newest code alone: it may spawn a task
\* of another kind or take one away.
LEMMA SpawnedOther ==
  ASSUME TypeOK, Fifo, OnePlace, UNCHANGED <<newest, waiting>>,
         NEW task \in Tasks, \A c \in Nat : task \notin Handler(c), Spawn(task)
  PROVE  /\ Fifo' /\ OnePlace' /\ (Coming' => Coming)
         /\ (\E j \in 1..Len(queue'), c \in Nat : queue'[j] = Deal(c))
              => (\E j \in 1..Len(queue), c \in Nat : queue[j] = Deal(c))
<1>1. /\ queue' \in Seq(Tasks) /\ Len(queue') = Len(queue) + 1 /\ Len(queue) \in Nat
      /\ \A j \in 1..Len(queue) : queue'[j] = queue[j]
      /\ queue'[Len(queue) + 1] = task
  BY Spawned DEF TypeOK
<1>2. \A j \in 1..Len(queue'), c \in Nat :
        queue'[j] \in Handler(c) => j \in 1..Len(queue) /\ queue'[j] = queue[j]
  BY <1>1
<1>3. \A c \in Nat : Deal(c) \in Handler(c)
  BY DEF Handler
<1>4. Fifo'
  <2>1. \A j \in 1..Len(queue'), c \in Nat : queue'[j] \in Handler(c) => c \in 1..newest
    BY <1>2 DEF Fifo
  <2>2. ASSUME NEW j \in 1..Len(queue'), NEW c \in Nat, queue'[j] = Deal(c)
        PROVE  \E m \in j..Len(queue') : queue'[m] = Deal(newest)
    <3>1. j \in 1..Len(queue) /\ queue[j] = Deal(c)
      BY <1>2, <1>3, <2>2
    <3>2. PICK m \in j..Len(queue) : queue[m] = Deal(newest)
      BY <3>1 DEF Fifo
    <3>3. m \in 1..Len(queue) /\ m \in j..Len(queue')
      BY <1>1, <3>1, <3>2
    <3> QED
      BY <1>1, <3>2, <3>3
  <2> QED
    BY <2>1, <2>2 DEF Fifo
<1>5. OnePlace' /\ (Coming' => Coming)
  BY <1>2 DEF TypeOK, OnePlace, Coming
<1> QED
  BY <1>2, <1>3, <1>4, <1>5

\* A task that runs leaves the others in order, and is alone if it is the handler
\* of the newest code.
LEMMA RanInOrder ==
  ASSUME TypeOK, Fifo, OnePlace, UNCHANGED newest, NEW task, Run(task)
  PROVE  /\ Fifo'
         /\ \A j, m \in 1..Len(queue') :
              queue'[j] \in Handler(newest) /\ queue'[m] \in Handler(newest) => j = m
         /\ \A j \in 1..Len(queue') : j + 1 \in 1..Len(queue) /\ queue'[j] = queue[j + 1]
         /\ task \in Handler(newest)
              => \A j \in 1..Len(queue') : queue'[j] \notin Handler(newest)
         /\ 1 \in 1..Len(queue) /\ queue[1] = task
<1>1. /\ queue' \in Seq(Tasks) /\ Len(queue) \in Nat /\ Len(queue) >= 1
      /\ Len(queue') = Len(queue) - 1 /\ queue[1] = task
      /\ \A j \in 1..Len(queue') : queue'[j] = queue[j + 1]
  BY Ran DEF TypeOK
<1>2. \A j \in 1..Len(queue') : j + 1 \in 1..Len(queue) /\ j + 1 # 1
  BY <1>1
<1>3. 1 \in 1..Len(queue)
  BY <1>1
<1>4. Fifo'
  <2>1. \A j \in 1..Len(queue'), c \in Nat : queue'[j] \in Handler(c) => c \in 1..newest
    BY <1>1, <1>2 DEF Fifo
  <2>2. ASSUME NEW j \in 1..Len(queue'), NEW c \in Nat, queue'[j] = Deal(c)
        PROVE  \E m \in j..Len(queue') : queue'[m] = Deal(newest)
    <3>1. PICK m \in (j + 1)..Len(queue) : queue[m] = Deal(newest)
      BY <1>1, <1>2, <2>2 DEF Fifo
    <3>2. m - 1 \in j..Len(queue') /\ m - 1 \in 1..Len(queue') /\ (m - 1) + 1 = m
      BY <1>1, <3>1
    <3> QED
      BY <1>1, <3>1, <3>2, Zenon
  <2> QED
    BY <2>1, <2>2 DEF Fifo
<1>5. \A j, m \in 1..Len(queue') :
        queue'[j] \in Handler(newest) /\ queue'[m] \in Handler(newest) => j = m
  <2> SUFFICES ASSUME NEW j \in 1..Len(queue'), NEW m \in 1..Len(queue'),
                      queue'[j] \in Handler(newest), queue'[m] \in Handler(newest)
               PROVE  j = m
    OBVIOUS
  <2>1. j + 1 = m + 1
    BY <1>1, <1>2, Zenon DEF OnePlace
  <2> QED
    BY <2>1
<1>6. task \in Handler(newest) => \A j \in 1..Len(queue') : queue'[j] \notin Handler(newest)
  BY <1>1, <1>2, <1>3 DEF OnePlace
<1> QED
  BY <1>1, <1>2, <1>3, <1>4, <1>5, <1>6

\* A spawned task is due, and nothing that was due is forgotten.
LEMMA DueSpawned ==
  ASSUME queue \in Seq(Tasks), NEW due \in Tasks, NEW task \in Tasks, Spawn(task)
  PROVE  /\ Due(due) => Due(due)'
         /\ task = due => Due(due)'
BY Spawned DEF Due

\* A task stays due while others run.
LEMMA DueRan ==
  ASSUME queue \in Seq(Tasks), NEW due \in Tasks, NEW task, Run(task), task # due
  PROVE  Due(due) => Due(due)'
<1> SUFFICES ASSUME Due(due) PROVE Due(due)'
  OBVIOUS
<1>1. PICK j \in 1..Len(queue) : queue[j] = due
  BY DEF Due
<1>2. /\ queue' \in Seq(Tasks) /\ Len(queue') = Len(queue) - 1 /\ queue[1] = task
      /\ \A m \in 1..Len(queue') : queue'[m] = queue[m + 1]
  BY Ran
<1>3. j - 1 \in 1..Len(queue') /\ (j - 1) + 1 = j
  BY <1>1, <1>2
<1> QED
  BY <1>1, <1>2, <1>3, Zenon DEF Due

\* The start.
LEMMA InitIInv == Init => IInv
<1> SUFFICES ASSUME Init PROVE IInv
  OBVIOUS
<1>1. queue = <<>> /\ queue \in Seq(Tasks) /\ Len(queue) = 0
  BY DEF Init
<1>2. TypeOK
  BY <1>1 DEF Init, TypeOK, NoCode
<1>3. Fifo /\ OnePlace /\ ~Coming
  BY <1>1 DEF Init, Fifo, OnePlace, Coming
<1>4. Aborted /\ NotStranded
  BY DEF Init, Aborted, NotStranded, NoCode
<1> QED
  BY <1>2, <1>3, <1>4 DEF IInv

\* Every variable keeps its type.
LEMMA NextTypeOK == TypeOK /\ [Next]_vars => TypeOK'
<1> SUFFICES ASSUME TypeOK, [Next]_vars PROVE TypeOK'
  OBVIOUS
<1> USE DEF chip, history, screens, pendings, NoCode
<1>1. CASE PairCode
  <2>1. queue' \in Seq(Tasks)
    BY <1>1, Kinds, Spawned DEF PairCode, TypeOK
  <2> QED
    BY <1>1, <2>1 DEF PairCode, TypeOK
<1>2. CASE PairSucceeds
  BY <1>2 DEF PairSucceeds, TypeOK
<1>3. CASE PairFails
  <2>1. queue' \in Seq(Tasks)
    BY <1>3, Kinds, Spawned DEF PairFails, TypeOK
  <2>2. late' \subseteq 1..newest
    BY <1>3 DEF PairFails, TypeOK
  <2> QED
    BY <1>3, <2>1, <2>2 DEF PairFails, TypeOK
<1>10. UNCHANGED <<newest, open>> => (open' => newest' # 0)
  BY DEF TypeOK
<1>4. CASE PairingError \/ CloseError \/ ShowPendingPairCode
  <2>1. queue' \in Seq(Tasks)
    BY <1>4, Kinds, Spawned, Ran DEF PairingError, CloseError, ShowPendingPairCode, TypeOK
  <2>2. UNCHANGED <<newest, open, late, waiting>>
        /\ PENDING_PAIR_CODE' \in {PENDING_PAIR_CODE, NoCode}
    BY <1>4 DEF PairingError, CloseError, ShowPendingPairCode, NothingPending
  <2> QED
    BY <1>10, <2>1, <2>2 DEF TypeOK
<1>5. CASE CloseOthers \/ Restart
  <2>3. queue' = <<>>
    BY <1>5, Zenon DEF CloseOthers, Restart
  <2>1. queue' \in Seq(Tasks)
    BY <2>3
  <2>2. UNCHANGED <<newest, open, late>> /\ waiting' = {}
        /\ PENDING_PAIR_CODE' \in {PENDING_PAIR_CODE, NoCode}
    BY <1>5, Zenon DEF CloseOthers, Restart, NothingPending
  <2> QED
    BY <1>10, <2>1, <2>2 DEF TypeOK
<1>6. ASSUME NEW c \in 1..newest, DealBlePair(c) \/ Resume(c) PROVE TypeOK'
  <2>1. queue' \in Seq(Tasks)
    BY <1>6, Ran DEF DealBlePair, Resume, TypeOK
  <2>2. UNCHANGED <<newest, open, late>> /\ waiting' \subseteq waiting \cup {c}
        /\ PENDING_PAIR_CODE' \in {PENDING_PAIR_CODE, c, NoCode}
    BY <1>6 DEF DealBlePair, Resume, Proceed, NothingPending
  <2> QED
    BY <1>10, <2>1, <2>2 DEF TypeOK
<1>7. ASSUME NEW c \in 1..newest, UnlockDevice(c) \/ UnlockFails(c) \/ Faded(c) PROVE TypeOK'
  <2>1. queue' \in Seq(Tasks)
    BY <1>7, Kinds, Spawned DEF UnlockDevice, UnlockFails, Faded, TypeOK
  <2>2. UNCHANGED <<newest, open, late, PENDING_PAIR_CODE>> /\ waiting' \subseteq waiting
    BY <1>7 DEF UnlockDevice, UnlockFails, Faded
  <2> QED
    BY <1>10, <2>1, <2>2 DEF TypeOK
<1>8. ASSUME NEW c \in 1..newest, NEW result \in {0, 1}, Touch(c, result) \/ Respond(c, result)
      PROVE  TypeOK'
  <2>1. queue' \in Seq(Tasks)
    BY <1>8, Kinds, Spawned, Ran DEF Touch, Respond, TypeOK
  <2>2. UNCHANGED <<newest, open, late, PENDING_PAIR_CODE, waiting>>
    BY <1>8 DEF Touch, Respond
  <2> QED
    BY <1>10, <2>1, <2>2 DEF TypeOK
<1>9. CASE UNCHANGED vars
  BY <1>9 DEF vars, TypeOK
<1> QED
  BY <1>1, <1>2, <1>3, <1>4, <1>5, <1>6, <1>7, <1>8, <1>9 DEF Next

\* process_push: the new code is newer than every code met so far.
LEMMA PairCodeKeeps == IInv /\ TypeOK' /\ PairCode => IInv'
<1> SUFFICES ASSUME IInv, TypeOK', PairCode PROVE IInv'
  OBVIOUS
<1> DEFINE n == newest + 1
           l == Len(queue) + 1
<1>1. /\ newest \in Nat /\ n \in Nat /\ newest' = n /\ n \notin 1..newest /\ n # 0
      /\ n \in 1..n /\ 1..newest \subseteq 1..n
      /\ Len(queue) \in Nat /\ l \in Nat
  BY DEF IInv, TypeOK, PairCode
<1>2. /\ Len(queue') = l /\ queue'[l] = Deal(n)
      /\ \A j \in 1..Len(queue) : queue'[j] = queue[j]
  <2>1. queue \in Seq(Tasks)
    BY DEF IInv, TypeOK
  <2>2. Deal(n) \in Tasks
    BY <1>1, Kinds
  <2>3. Spawn(Deal(n))
    BY DEF PairCode
  <2> QED
    BY <2>1, <2>2, <2>3, Spawned
<1>3. /\ l \in 1..l /\ \A j \in 1..l : j \in 1..Len(queue) \/ j = l
      /\ \A j \in 1..l : l \in j..l
  BY <1>1
<1>4. \A c \in Nat : Deal(n) \in Handler(c) => c = n
  BY <1>1, Kinds DEF Handler
<1>5. Fifo'
  BY <1>1, <1>2, <1>3, <1>4 DEF IInv, Fifo
<1>6. \A j \in 1..l : queue'[j] \in Handler(n) => j = l
  BY <1>1, <1>2, <1>3 DEF IInv, Fifo
<1>7. OnePlace'
  BY <1>1, <1>2, <1>6 DEF IInv, OnePlace, TypeOK, PairCode
<1>8. PENDING_PAIR_CODE' # newest'
  BY <1>1 DEF IInv, TypeOK, PairCode, pendings
<1>9. newest' \notin late'
  BY <1>1 DEF IInv, TypeOK, PairCode, history
<1> QED
  BY <1>5, <1>7, <1>8, <1>9 DEF IInv, Aborted, NotStranded

\* Steps that keep the codes and the handlers, and show at most the pending code.
LEMMA OthersKeep ==
  ASSUME IInv, TypeOK', UNCHANGED <<newest, waiting, late, closed>>, open' => open,
         PENDING_PAIR_CODE' \in {PENDING_PAIR_CODE, NoCode},
         \/ UNCHANGED queue
         \/ \E task \in Tasks : Spawn(task) /\ \A c \in Nat : task \notin Handler(c)
         \/ \E task : Run(task) /\ \A c \in Nat : task \notin Handler(c),
         screen' \in {screen, PENDING_PAIR_CODE, NoCode},
         BLE_PAIR_ABORT => BLE_PAIR_ABORT',
         NotStranded'
  PROVE  IInv'
<1> DEFINE Same == /\ Fifo' /\ OnePlace' /\ (Coming' => Coming)
                   /\ (\E j \in 1..Len(queue'), c \in Nat : queue'[j] = Deal(c))
                        => (\E j \in 1..Len(queue), c \in Nat : queue[j] = Deal(c))
<1>1. Same
  <2>1. CASE UNCHANGED queue
    BY <2>1 DEF IInv, Fifo, OnePlace, Coming
  <2>2. ASSUME NEW task \in Tasks, Spawn(task), \A c \in Nat : task \notin Handler(c)
        PROVE  Same
    BY <2>2, SpawnedOther DEF IInv
  <2>3. ASSUME NEW task, Run(task), \A c \in Nat : task \notin Handler(c) PROVE Same
    <3>1. /\ Fifo'
          /\ \A j, m \in 1..Len(queue') :
               queue'[j] \in Handler(newest) /\ queue'[m] \in Handler(newest) => j = m
          /\ \A j \in 1..Len(queue') : j + 1 \in 1..Len(queue) /\ queue'[j] = queue[j + 1]
      BY <2>3, RanInOrder DEF IInv
    <3>2. newest' = newest /\ waiting' = waiting
      OBVIOUS
    <3>3. newest \in waiting => \A j \in 1..Len(queue') : queue'[j] \notin Handler(newest)
      BY <3>1 DEF IInv, OnePlace
    <3>4. OnePlace'
      BY <3>1, <3>2, <3>3 DEF OnePlace
    <3>5. Coming' => Coming
      BY <3>1, <3>2 DEF Coming
    <3>6. (\E j \in 1..Len(queue'), c \in Nat : queue'[j] = Deal(c))
            => (\E j \in 1..Len(queue), c \in Nat : queue[j] = Deal(c))
      BY <3>1
    <3> QED
      BY <3>1, <3>4, <3>5, <3>6
  <2> QED
    BY <2>1, <2>2, <2>3
<1>2. Aborted'
  BY <1>1 DEF IInv, Aborted, TypeOK, NoCode
<1>3. Coming' => PENDING_PAIR_CODE' # newest'
  BY <1>1 DEF IInv, Coming, TypeOK, Fifo, NoCode
<1> QED
  BY <1>1, <1>2, <1>3 DEF IInv

\* PairFails: a handler that waits has neither shown nor kept the code.
LEMMA PairFailsKeeps == IInv /\ TypeOK' /\ PairFails => IInv'
<1> SUFFICES ASSUME IInv, TypeOK', PairFails PROVE IInv'
  OBVIOUS
<1>1. UNCHANGED <<newest, waiting, PENDING_PAIR_CODE, closed, error>>
      /\ screen' = NoCode /\ newest # 0 /\ newest \in Nat
  BY DEF IInv, TypeOK, PairFails, DestroyScreen
<1>2. /\ ~open'
      /\ BLE_PAIR_ABORT'
  BY DEF PairFails
<1> DEFINE Same == /\ Fifo' /\ OnePlace' /\ (Coming' => Coming)
                   /\ (\E j \in 1..Len(queue'), c \in Nat : queue'[j] = Deal(c))
                        => (\E j \in 1..Len(queue), c \in Nat : queue[j] = Deal(c))
<1>3. Same /\ NotStranded'
  <2>1. CASE UNCHANGED queue
    BY <1>1, <2>1 DEF IInv, Fifo, OnePlace, Coming, NotStranded, Due
  <2>2. CASE Spawn(ShowError)
    <3>1. Same
      BY <1>1, <2>2, Kinds, SpawnedOther DEF IInv
    <3>2. NotStranded'
      BY <1>1, <2>2, Kinds, DueSpawned DEF IInv, NotStranded, TypeOK
    <3> QED
      BY <3>1, <3>2
  <2> QED
    BY <2>1, <2>2 DEF PairFails
<1>4. Aborted'
  <2> SUFFICES ASSUME newest \in late' PROVE Aborted'
    BY <1>1 DEF Aborted
  <2>1. newest \in waiting \/ Due(Unlocked(newest))
    <3>1. newest \notin late
      BY DEF IInv, Aborted, PairFails
    <3> QED
      BY <3>1 DEF PairFails
  <2>2. Coming
    BY <2>1 DEF Coming, Due, Handler
  <2>3. \A j \in 1..Len(queue) : queue[j] # Deal(newest)
    BY <1>1, <2>1, Kinds DEF IInv, OnePlace, Due, Handler
  <2>4. \A j \in 1..Len(queue), c \in Nat : queue[j] # Deal(c)
    <3> SUFFICES ASSUME NEW j \in 1..Len(queue), NEW c \in Nat, queue[j] = Deal(c) PROVE FALSE
      OBVIOUS
    <3>1. PICK m \in j..Len(queue) : queue[m] = Deal(newest)
      BY DEF IInv, Fifo
    <3>2. m \in 1..Len(queue)
      BY <3>1 DEF IInv, TypeOK
    <3> QED
      BY <2>3, <3>1, <3>2
  <2> QED
    BY <1>1, <1>2, <1>3, <2>2, <2>4 DEF IInv, Aborted, NoCode
<1>5. Coming' => PENDING_PAIR_CODE' # newest'
  BY <1>1, <1>3 DEF IInv
<1> QED
  BY <1>3, <1>4, <1>5 DEF IInv

\* _deal_ble_pair, before or after unlock_device: the handler leaves the queue,
\* and waits, or keeps the code, or shows it, or drops it.
LEMMA HandlerKeeps ==
  ASSUME IInv, TypeOK', NEW c \in 1..newest, DealBlePair(c) \/ Resume(c)
  PROVE  IInv'
<1>1. PICK task \in Handler(c) : Run(task)
  BY DEF DealBlePair, Resume, Handler
<1>2. /\ c \in Nat /\ c # 0 /\ newest \in Nat
      /\ UNCHANGED <<newest, late, closed, error>>
      /\ waiting' \subseteq waiting \cup {c}
  BY DEF IInv, TypeOK, DealBlePair, Resume, chip, history
<1>3. /\ Fifo'
      /\ \A j, m \in 1..Len(queue') :
           queue'[j] \in Handler(newest) /\ queue'[m] \in Handler(newest) => j = m
      /\ \A j \in 1..Len(queue') : j + 1 \in 1..Len(queue) /\ queue'[j] = queue[j + 1]
      /\ task \in Handler(newest)
           => \A j \in 1..Len(queue') : queue'[j] \notin Handler(newest)
      /\ 1 \in 1..Len(queue) /\ queue[1] = task
  BY <1>1, <1>2, RanInOrder DEF IInv
<1>4. c = newest => newest \notin waiting /\ Coming
  BY <1>1, <1>3 DEF IInv, OnePlace, Coming
<1>5. OnePlace'
  <2>1. newest \in waiting' => \A j \in 1..Len(queue') : queue'[j] \notin Handler(newest)
    BY <1>1, <1>2, <1>3 DEF IInv, OnePlace
  <2> QED
    BY <1>2, <1>3, <2>1 DEF OnePlace
<1>6. c # newest => (Coming' => Coming)
  BY <1>2, <1>3 DEF Coming
<1>7. Coming => newest # NoCode
  BY <1>2, <1>3 DEF IInv, TypeOK, Fifo, Coming, NoCode
<1>8. \/ UNCHANGED <<screen, PENDING_PAIR_CODE>>
      \/ /\ Proceed(c) /\ UNCHANGED waiting
  BY DEF DealBlePair, Resume, screens, pendings
<1>9. Proceed(c) => \/ error /\ PENDING_PAIR_CODE' = c /\ UNCHANGED screen
                    \/ PENDING_PAIR_CODE' = NoCode /\ screen' \in {screen, c}
  BY DEF Proceed, NothingPending, Display, screens
<1>10. Coming' => PENDING_PAIR_CODE' # newest'
  <2>1. CASE UNCHANGED <<screen, PENDING_PAIR_CODE>>
    BY <1>2, <1>4, <1>6, <2>1 DEF IInv
  <2>2. CASE Proceed(c) /\ UNCHANGED waiting
    <3>1. c = newest => ~Coming'
      BY <1>1, <1>2, <1>3, <1>4, <2>2 DEF Coming
    <3> QED
      BY <1>2, <1>6, <1>7, <1>9, <2>2, <3>1
  <2> QED
    BY <1>8, <2>1, <2>2
<1>11. Aborted'
  <2> SUFFICES ASSUME newest \in late PROVE Aborted'
    BY <1>2 DEF Aborted
  <2>1. /\ ~open /\ screen # newest /\ PENDING_PAIR_CODE # newest /\ newest # NoCode
        /\ \A j \in 1..Len(queue), d \in Nat : queue[j] # Deal(d)
        /\ BLE_PAIR_ABORT \/ ~Coming
    BY DEF IInv, Aborted, TypeOK, NoCode
  <2>2. Resume(c)
    BY <1>1, <1>2, <1>3, <2>1 DEF DealBlePair, Run, Resume
  <2>3. \A j \in 1..Len(queue'), d \in Nat : queue'[j] # Deal(d)
    BY <1>3, <2>1
  <2>4. ~open' /\ (BLE_PAIR_ABORT => BLE_PAIR_ABORT')
    BY <2>1, <2>2 DEF Resume, chip
  <2>5. CASE BLE_PAIR_ABORT
    <3>1. UNCHANGED <<screen, PENDING_PAIR_CODE>>
      BY <2>2, <2>5 DEF Resume, screens, pendings
    <3> QED
      BY <1>2, <2>1, <2>3, <2>4, <2>5, <3>1 DEF Aborted
  <2>6. CASE ~BLE_PAIR_ABORT
    <3>1. ~Coming /\ c # newest
      BY <1>4, <2>1, <2>6
    <3>2. screen' # newest /\ PENDING_PAIR_CODE' # newest
      BY <1>8, <1>9, <2>1, <3>1
    <3> QED
      BY <1>2, <1>6, <2>1, <2>3, <2>4, <3>1, <3>2 DEF Aborted
  <2> QED
    BY <2>5, <2>6
<1>12. NotStranded'
  <2>1. Due(ShowPending) => Due(ShowPending)'
    BY <1>1, <1>2, Kinds, DueRan DEF IInv, TypeOK
  <2> QED
    BY <1>2, <1>8, <1>9, <2>1 DEF IInv, NotStranded
<1> QED
  BY <1>3, <1>5, <1>10, <1>11, <1>12 DEF IInv

\* unlock_device returns: the handler goes from waiting to the queue, or is gone.
LEMMA UnlockKeeps ==
  ASSUME IInv, TypeOK', NEW c \in 1..newest, UnlockDevice(c) \/ UnlockFails(c)
  PROVE  IInv'
<1>1. /\ UNCHANGED <<newest, late, open, closed, error, screen, PENDING_PAIR_CODE, BLE_PAIR_ABORT>>
      /\ c \in waiting /\ waiting' = waiting \ {c} /\ c \in Nat /\ newest \in Nat
  BY DEF IInv, TypeOK, UnlockDevice, UnlockFails, chip, history, screens, pendings
<1> DEFINE Same == /\ Fifo' /\ OnePlace' /\ (Coming' => Coming)
                   /\ (\E j \in 1..Len(queue'), d \in Nat : queue'[j] = Deal(d))
                        => (\E j \in 1..Len(queue), d \in Nat : queue[j] = Deal(d))
<1>2. Same /\ NotStranded'
  <2>1. CASE UNCHANGED queue
    <3>1. Same
      BY <1>1, <2>1 DEF IInv, Fifo, OnePlace, Coming
    <3> QED
      BY <1>1, <2>1, <3>1 DEF IInv, NotStranded, Due
  <2>2. CASE Spawn(Unlocked(c))
    <3> DEFINE l == Len(queue) + 1
    <3>a. queue \in Seq(Tasks)
      BY DEF IInv, TypeOK
    <3>b. Unlocked(c) \in Tasks
      BY <1>1, Kinds
    <3>1. /\ Len(queue) \in Nat /\ Len(queue') = l /\ queue'[l] = Unlocked(c)
          /\ \A j \in 1..Len(queue) : queue'[j] = queue[j]
      BY <2>2, <3>a, <3>b, Spawned
    <3>2. /\ l \in 1..l /\ \A j \in 1..l : j \in 1..Len(queue) \/ j = l
          /\ \A j \in 1..Len(queue) : j..Len(queue) \subseteq j..l
          /\ \A j \in 1..Len(queue) : j..Len(queue) \subseteq 1..Len(queue)
      BY <3>1
    <3>3. \A d \in Nat : Unlocked(c) # Deal(d) /\ (Unlocked(c) \in Handler(d) => d = c)
      BY <1>1, Kinds DEF Handler
    <3>4. Fifo'
      <4>1. \A j \in 1..l, d \in Nat : queue'[j] \in Handler(d) => d \in 1..newest
        BY <3>1, <3>2, <3>3 DEF IInv, Fifo
      <4>2. ASSUME NEW j \in 1..l, NEW d \in Nat, queue'[j] = Deal(d)
            PROVE  \E m \in j..l : queue'[m] = Deal(newest)
        BY <3>1, <3>2, <3>3, <4>2 DEF IInv, Fifo
      <4> QED
        BY <1>1, <3>1, <4>1, <4>2 DEF Fifo
    <3>5. OnePlace'
      <4>1. CASE c = newest
        <5>1. \A j \in 1..l : queue'[j] \in Handler(newest) => j = l
          BY <1>1, <3>1, <3>2, <4>1 DEF IInv, OnePlace
        <5> QED
          BY <1>1, <3>1, <4>1, <5>1 DEF OnePlace
      <4>2. CASE c # newest
        <5>1. \A j \in 1..l : queue'[j] \in Handler(newest)
                => j \in 1..Len(queue) /\ queue'[j] = queue[j]
          BY <1>1, <3>1, <3>2, <3>3, <4>2
        <5> QED
          BY <1>1, <3>1, <5>1 DEF IInv, OnePlace
      <4> QED
        BY <4>1, <4>2
    <3>6. Coming' => Coming
      BY <1>1, <3>1, <3>2, <3>3 DEF Coming
    <3>7. (\E j \in 1..l, d \in Nat : queue'[j] = Deal(d))
            => (\E j \in 1..Len(queue), d \in Nat : queue[j] = Deal(d))
      BY <3>1, <3>2, <3>3
    <3>8. NotStranded'
      BY <1>1, <2>2, Kinds, DueSpawned DEF IInv, TypeOK, NotStranded
    <3> QED
      BY <3>1, <3>4, <3>5, <3>6, <3>7, <3>8
  <2> QED
    BY <2>1, <2>2 DEF UnlockDevice, UnlockFails
<1>3. Aborted'
  BY <1>1, <1>2 DEF IInv, Aborted
<1>4. Coming' => PENDING_PAIR_CODE' # newest'
  BY <1>1, <1>2 DEF IInv
<1> QED
  BY <1>2, <1>3, <1>4 DEF IInv

\* close_others and a restart end every task.
LEMMA EndKeeps == IInv /\ TypeOK' /\ (CloseOthers \/ Restart) => IInv'
<1> SUFFICES ASSUME IInv, TypeOK', CloseOthers \/ Restart PROVE IInv'
  OBVIOUS
<1>1. /\ UNCHANGED <<newest, late>> /\ queue' = <<>> /\ waiting' = {}
      /\ newest \in closed'
      /\ screen' \in {screen, NoCode} /\ PENDING_PAIR_CODE' \in {PENDING_PAIR_CODE, NoCode}
  BY Zenon DEF CloseOthers, Restart, NothingPending, chip, pendings
<1>2. Len(queue') = 0
  BY <1>1
<1>3. Fifo' /\ OnePlace' /\ ~Coming'
  BY <1>1, <1>2 DEF Fifo, OnePlace, Coming
<1>4. ~open => ~open'
  BY Zenon DEF CloseOthers, Restart, chip
<1>5. Aborted'
  BY <1>1, <1>2, <1>3, <1>4 DEF IInv, TypeOK, Aborted, NoCode
<1>6. NotStranded'
  BY <1>1 DEF NotStranded
<1> QED
  BY <1>3, <1>5, <1>6 DEF IInv

\* Every step preserves the invariant.
LEMMA NextIInv == IInv /\ [Next]_vars => IInv'
<1> SUFFICES ASSUME IInv, [Next]_vars PROVE IInv'
  OBVIOUS
<1> USE DEF chip, history, screens, pendings
<1>1. TypeOK' /\ queue \in Seq(Tasks)
  BY NextTypeOK DEF IInv, TypeOK
<1>2. CASE PairCode \/ PairFails \/ CloseOthers \/ Restart
  BY <1>1, <1>2, PairCodeKeeps, PairFailsKeeps, EndKeeps
<1>3. CASE PairSucceeds
  <2>1. NotStranded'
    BY <1>3 DEF IInv, NotStranded, Due, PairSucceeds
  <2> QED
    BY <1>1, <1>3, <2>1, OthersKeep DEF PairSucceeds, DestroyScreen
<1>4. CASE PairingError
  <2>1. NotStranded'
    BY <1>4 DEF NotStranded, PairingError
  <2> QED
    BY <1>1, <1>4, <2>1, Kinds, OthersKeep DEF PairingError
<1>5. CASE CloseError
  <2>1. NotStranded'
    BY <1>1, <1>5, Kinds, DueSpawned DEF NotStranded, CloseError
  <2> QED
    BY <1>1, <1>5, <2>1, Kinds, OthersKeep DEF CloseError
<1>6. CASE ShowPendingPairCode
  <2>1. NotStranded'
    BY <1>6 DEF NotStranded, ShowPendingPairCode, NothingPending
  <2>2. screen' \in {screen, PENDING_PAIR_CODE}
    BY <1>6 DEF ShowPendingPairCode, Display
  <2> QED
    BY <1>1, <1>6, <2>1, <2>2, Kinds, OthersKeep DEF ShowPendingPairCode, NothingPending
<1>7. ASSUME NEW c \in 1..newest, DealBlePair(c) \/ Resume(c) PROVE IInv'
  BY <1>1, <1>7, HandlerKeeps
<1>8. ASSUME NEW c \in 1..newest, UnlockDevice(c) \/ UnlockFails(c) PROVE IInv'
  BY <1>1, <1>8, UnlockKeeps
<1>9. ASSUME NEW c \in 1..newest, Faded(c) PROVE IInv'
  <2>1. NotStranded'
    BY <1>9 DEF IInv, NotStranded, Due, Faded
  <2> QED
    BY <1>1, <1>9, <2>1, OthersKeep DEF Faded
<1>10. ASSUME NEW c \in 1..newest, NEW result \in {0, 1}, Touch(c, result) PROVE IInv'
  <2>1. c \in Nat
    BY DEF IInv, TypeOK
  <2>2. NotStranded'
    BY <1>1, <1>10, <2>1, Kinds, DueSpawned DEF IInv, NotStranded, Touch
  <2> QED
    BY <1>1, <1>10, <2>1, <2>2, Kinds, OthersKeep DEF Touch
<1>11. ASSUME NEW c \in 1..newest, NEW result \in {0, 1}, Respond(c, result) PROVE IInv'
  <2>1. c \in Nat
    BY DEF IInv, TypeOK
  <2>2. NotStranded'
    BY <1>1, <1>11, <2>1, Kinds, DueRan DEF IInv, NotStranded, Respond
  <2> QED
    BY <1>1, <1>11, <2>1, <2>2, Kinds, OthersKeep, Zenon DEF Respond
<1>12. CASE UNCHANGED vars
  <2>1. NotStranded'
    BY <1>12 DEF IInv, NotStranded, Due, vars
  <2> QED
    BY <1>1, <1>12, <2>1, OthersKeep DEF vars
<1> QED
  BY <1>2, <1>3, <1>4, <1>5, <1>6, <1>7, <1>8, <1>9, <1>10, <1>11, <1>12 DEF Next

-----------------------------------------------------------------------------
\* The invariant holds in every reachable state.
THEOREM Invariance == Spec => []IInv
BY InitIInv, NextIInv, PTL DEF Spec

\* A pairing that failed while _deal_ble_pair waited in unlock_device is not shown
\* and not kept, however many codes came before and whatever else is queued.
THEOREM FailedStaysHidden == Spec => []AbortedNotShown
<1>1. IInv => AbortedNotShown
  BY DEF IInv, Aborted, AbortedNotShown
<1> QED
  BY <1>1, Invariance, PTL

\* A code kept behind the failure screen is shown by _show_pending_pair_code, or
\* that screen is still up, unless close_others ended the tasks.
THEOREM KeptIsShown == Spec => []NotStranded
<1>1. IInv => NotStranded
  BY DEF IInv
<1> QED
  BY <1>1, Invariance, PTL
=============================================================================
