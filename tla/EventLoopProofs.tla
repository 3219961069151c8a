-------------------------- MODULE EventLoopProofs ---------------------------
(***************************************************************************)
(* Proofs of the invariants of EventLoop, for any number of tasks and      *)
(* interfaces.                                                             *)
(***************************************************************************)
EXTENDS EventLoop, TLAPS

(***************************************************************************)
(* What the invariants need besides themselves: the loop polls every       *)
(* interface with a paused task, a generator that was never scheduled is   *)
(* unknown to the loop, and the finalizer of a spawned task and the task   *)
(* that awaits it refer to each other.                                     *)
(***************************************************************************)
Polled == \A i \in Ifaces : paused[i] # {} => i \in polled

NewIsUnknown ==
  \A t \in Tasks : gen[t] = "new" =>
    /\ finalizers[t] = "none" /\ finalized[t] = 0 /\ callback[t] = None
    /\ t \notin spawned /\ t \notin msg_tasks

SpawnFinalizer ==
  \A u \in Tasks : finalizers[u] = "spawn" =>
    /\ gen[u] = "live"
    /\ u \in spawned
    /\ callback[u] \in Tasks => /\ gen[callback[u]] = "live"
                                /\ awaiting[callback[u]] = {u}

SpawnHasFinalizer ==
  ~cleared => \A u \in spawned : gen[u] = "live" => finalizers[u] = "spawn"

\* The places of a task without quantifiers over places.
OnePlaceOf(t) ==
  /\ queue[t] <= 1
  /\ this_task = t => /\ queue[t] = 0 /\ t \notin msg_tasks /\ t \notin parked
                      /\ awaiting[t] = {} /\ \A i \in Ifaces : t \notin paused[i]
  /\ queue[t] > 0 => /\ t \notin msg_tasks /\ t \notin parked
                     /\ awaiting[t] = {} /\ \A i \in Ifaces : t \notin paused[i]
  /\ t \in msg_tasks => /\ t \notin parked /\ awaiting[t] = {}
                        /\ \A i \in Ifaces : t \notin paused[i]
  /\ t \in parked => awaiting[t] = {} /\ \A i \in Ifaces : t \notin paused[i]
  /\ awaiting[t] # {} => \A i \in Ifaces : t \notin paused[i]
  /\ \A i, j \in Ifaces : t \in paused[i] /\ t \in paused[j] => i = j

OnePlace == \A t \in Tasks : gen[t] = "live" => OnePlaceOf(t)

SomePlace ==
  ~cleared => \A t \in Tasks : gen[t] = "live" =>
    \/ this_task = t \/ queue[t] > 0 \/ t \in msg_tasks \/ t \in parked
    \/ awaiting[t] # {} \/ \E i \in Ifaces : t \in paused[i]

NoPlace ==
  \A t \in Tasks : gen[t] # "live" =>
    /\ this_task # t /\ queue[t] = 0 /\ t \notin parked /\ awaiting[t] = {}
    /\ \A i \in Ifaces : t \notin paused[i]

IInv ==
  /\ TypeOK
  /\ Polled /\ NewIsUnknown /\ SpawnFinalizer /\ SpawnHasFinalizer
  /\ OnePlace /\ SomePlace /\ NoPlace
  /\ NoOrphan /\ WaiterIsCalledBack /\ FinalizedOnce

-----------------------------------------------------------------------------
\* A cascade holds the tasks it starts from and is closed under spreading.
LEMMA CascadeFacts ==
  ASSUME TypeOK, NEW S \in SUBSET Tasks
  PROVE  Cascade(S) \in SUBSET Tasks /\ S \subseteq Cascade(S) /\ Spreads(Cascade(S))
<1>1. Cascade(S) \in SUBSET Tasks /\ S \subseteq Cascade(S)
  BY DEF Cascade
<1>2. ASSUME NEW t \in Cascade(S), NEW x \in ClosedWith(t) \cup Siblings(t)
      PROVE  x \in Cascade(S)
  <2>1. x \in Tasks
    BY <1>1 DEF TypeOK, ClosedWith, Siblings
  <2>2. ASSUME NEW K \in SUBSET Tasks, S \subseteq K, Spreads(K)
        PROVE  x \in K
    BY <2>2 DEF Cascade, Spreads
  <2> QED
    BY <2>1, <2>2 DEF Cascade
<1> QED
  BY <1>1, <1>2 DEF Spreads

\* A task that a finalizer wakes was waiting for nothing but tasks that end.
LEMMA WokenFacts ==
  ASSUME IInv, NEW K \in SUBSET Tasks, Spreads(K), NEW p \in Woken(K)
  PROVE  /\ p \in Tasks \ K /\ gen[p] = "live"
         /\ awaiting[p] # {} /\ awaiting[p] \subseteq K
<1>1. PICK c \in K : finalizers[c] # "none" /\ callback[c] = p
  BY DEF Woken
<1>2. p \in Tasks \ K /\ c \in Tasks
  BY DEF Woken
<1>3. CASE finalizers[c] = "race"
  BY <1>1, <1>2, <1>3 DEF IInv, NoOrphan, Spreads, Siblings
<1>4. CASE finalizers[c] = "spawn"
  BY <1>1, <1>2, <1>4 DEF IInv, SpawnFinalizer
<1> QED
  BY <1>1, <1>2, <1>3, <1>4 DEF IInv, TypeOK

\* Ending a set of tasks that is closed under spreading keeps the invariant,
\* provided the running task stays out of it or stops running.
LEMMA EndKeepsIInv ==
  ASSUME IInv, NEW K \in SUBSET Tasks, Spreads(K), End(K),
         \/ this_task' = this_task /\ this_task \notin K
         \/ this_task' = None /\ this_task \in K
  PROVE  IInv'
<1> DEFINE W == Woken(K)
<1>1. \A p \in W : /\ p \in Tasks \ K /\ gen[p] = "live"
                   /\ awaiting[p] # {} /\ awaiting[p] \subseteq K
  BY WokenFacts
<1>2. \A t \in Tasks : /\ gen'[t] = IF t \in K THEN "done" ELSE gen[t]
                       /\ awaiting'[t] = IF t \in K \/ t \in W THEN {} ELSE awaiting[t]
                       /\ callback'[t] = IF t \in K THEN None ELSE callback[t]
                       /\ finalizers'[t] = IF t \in K THEN "none" ELSE finalizers[t]
                       /\ finalized'[t] = IF t \in K /\ finalizers[t] # "none"
                                            THEN finalized[t] + 1 ELSE finalized[t]
                       /\ queue'[t] = IF t \in K THEN 0 ELSE
                                        IF t \in W THEN queue[t] + 1 ELSE queue[t]
  BY DEF End, Scheduled
<1>3. \A i \in Ifaces : paused'[i] = paused[i] \ K
  BY DEF End
<1>4. /\ parked' = parked \ K
      /\ UNCHANGED <<polled, msg_tasks, spawned, cleared>>
  BY DEF End
<1>5. TypeOK
  BY DEF IInv
<1>6. \A t \in K : awaiting[t] \subseteq K
  BY DEF Spreads, ClosedWith
<1>7. \A t \in Tasks \ K, c \in K :
        finalizers[c] # "none" /\ callback[c] = t => t \in W
  BY DEF Woken
<1> HIDE DEF W
<1>a. TypeOK'
  BY <1>5, NoneAssumption DEF End, Scheduled, TypeOK
<1>b. Polled' /\ NewIsUnknown'
  BY <1>2, <1>3, <1>4 DEF IInv, Polled, NewIsUnknown
<1>c. SpawnFinalizer'
  <2> SUFFICES ASSUME NEW u \in Tasks, finalizers'[u] = "spawn"
               PROVE  /\ gen'[u] = "live"
                      /\ u \in spawned'
                      /\ callback'[u] \in Tasks =>
                           gen'[callback'[u]] = "live" /\ awaiting'[callback'[u]] = {u}
    BY DEF SpawnFinalizer
  <2>1. u \notin K /\ finalizers[u] = "spawn" /\ callback'[u] = callback[u]
    BY <1>2
  <2>2. gen'[u] = "live" /\ u \in spawned'
    BY <1>2, <1>4, <2>1 DEF IInv, SpawnFinalizer
  <2>3. ASSUME callback[u] \in Tasks
        PROVE  gen'[callback[u]] = "live" /\ awaiting'[callback[u]] = {u}
    <3>1. gen[callback[u]] = "live" /\ awaiting[callback[u]] = {u}
      BY <2>1, <2>3 DEF IInv, SpawnFinalizer
    <3>2. callback[u] \notin K
      BY <1>6, <2>1, <3>1
    <3>3. callback[u] \notin W
      BY <1>1, <2>1, <3>1
    <3> QED
      BY <1>2, <2>3, <3>1, <3>2, <3>3
  <2> QED
    BY <2>1, <2>2, <2>3
<1>d. SpawnHasFinalizer'
  BY <1>2, <1>4, <1>5 DEF IInv, SpawnHasFinalizer, TypeOK
<1>e. OnePlace'
  <2> SUFFICES ASSUME NEW t \in Tasks, gen'[t] = "live"
               PROVE  OnePlaceOf(t)'
    BY DEF OnePlace
  <2>1. t \notin K /\ gen[t] = "live" /\ OnePlaceOf(t)
    BY <1>2 DEF IInv, OnePlace
  <2>2. \A i \in Ifaces : t \in paused'[i] <=> t \in paused[i]
    BY <1>3, <2>1
  <2>3. /\ t \in parked' <=> t \in parked
        /\ t \in msg_tasks' <=> t \in msg_tasks
        /\ this_task' = t <=> this_task = t
    BY <1>4, <2>1, NoneAssumption
  <2>4. CASE t \in W
    <3>1. awaiting[t] # {} /\ awaiting'[t] = {} /\ queue'[t] = queue[t] + 1
      BY <1>1, <1>2, <2>1, <2>4
    <3>2. /\ queue[t] = 0 /\ t \notin msg_tasks /\ t \notin parked
          /\ this_task # t /\ \A i \in Ifaces : t \notin paused[i]
      BY <1>5, <2>1, <3>1 DEF OnePlaceOf, TypeOK
    <3> QED
      BY <2>2, <2>3, <3>1, <3>2 DEF OnePlaceOf
  <2>5. CASE t \notin W
    <3>1. awaiting'[t] = awaiting[t] /\ queue'[t] = queue[t]
      BY <1>2, <2>1, <2>5
    <3> QED
      BY <2>1, <2>2, <2>3, <3>1 DEF OnePlaceOf
  <2> QED
    BY <2>4, <2>5
<1>f. SomePlace'
  BY <1>1, <1>2, <1>3, <1>4, <1>5, NoneAssumption DEF IInv, SomePlace, TypeOK
<1>g. NoPlace'
  BY <1>1, <1>2, <1>3, <1>4, <1>5, NoneAssumption DEF IInv, NoPlace, TypeOK
<1>h. NoOrphan'
  <2> SUFFICES ASSUME NEW c \in Tasks, finalizers'[c] = "race"
               PROVE  /\ gen'[c] = "live"
                      /\ callback'[c] \in Tasks
                      /\ gen'[callback'[c]] = "live"
                      /\ c \in awaiting'[callback'[c]]
    BY DEF NoOrphan
  <2>1. c \notin K /\ finalizers[c] = "race" /\ callback'[c] = callback[c]
    BY <1>2
  <2>2. /\ gen[c] = "live" /\ callback[c] \in Tasks
        /\ gen[callback[c]] = "live" /\ c \in awaiting[callback[c]]
    BY <2>1 DEF IInv, NoOrphan
  <2>3. callback[c] \notin K /\ callback[c] \notin W
    BY <1>1, <1>6, <2>1, <2>2
  <2> QED
    BY <1>2, <2>1, <2>2, <2>3
<1>i. WaiterIsCalledBack'
  <2> SUFFICES ASSUME ~cleared, NEW t \in Tasks, NEW c \in awaiting'[t]
               PROVE  gen'[c] = "live" /\ finalizers'[c] # "none" /\ callback'[c] = t
    BY <1>4 DEF WaiterIsCalledBack
  <2>1. t \notin K /\ t \notin W /\ c \in awaiting[t] /\ c \in Tasks
    BY <1>2, <1>5 DEF TypeOK
  <2>2. gen[c] = "live" /\ finalizers[c] # "none" /\ callback[c] = t
    BY <2>1 DEF IInv, WaiterIsCalledBack
  <2> QED
    BY <1>2, <1>7, <2>1, <2>2
<1>j. FinalizedOnce'
  BY <1>2, <1>4, <1>5 DEF IInv, FinalizedOnce, SpawnHasFinalizer, NewIsUnknown, TypeOK
<1> QED
  BY <1>a, <1>b, <1>c, <1>d, <1>e, <1>f, <1>g, <1>h, <1>i, <1>j DEF IInv

\* Initially nothing but the boot tasks exists.
LEMMA InitIInv == Init => IInv
<1> SUFFICES ASSUME Init
             PROVE  IInv
  OBVIOUS
<1>1. TypeOK
  BY Zenon DEF Init, TypeOK
<1>2. Polled /\ NewIsUnknown /\ SpawnFinalizer /\ SpawnHasFinalizer
  BY DEF Init, Polled, NewIsUnknown, SpawnFinalizer, SpawnHasFinalizer
<1>3. OnePlace
  BY NoneAssumption DEF Init, OnePlace, OnePlaceOf
<1>4. SomePlace /\ NoPlace
  BY NoneAssumption DEF Init, SomePlace, NoPlace
<1>5. NoOrphan /\ WaiterIsCalledBack /\ FinalizedOnce
  BY DEF Init, NoOrphan, WaiterIsCalledBack, FinalizedOnce
<1> QED
  BY <1>1, <1>2, <1>3, <1>4, <1>5 DEF IInv

\* Every step of the loop keeps the invariant.
LEMMA NextIInv == IInv /\ [Next]_vars => IInv'
<1> SUFFICES ASSUME IInv, [Next]_vars
             PROVE  IInv'
  OBVIOUS
<1> USE NoneAssumption DEF IInv
<1>1. ASSUME NEW t \in Tasks, RunScheduled(t)
      PROVE  IInv'
  <2>1. TypeOK'
    BY <1>1 DEF TypeOK, RunScheduled, Step, frames
  <2>2. OnePlace'
    BY <1>1 DEF OnePlace, OnePlaceOf, TypeOK, RunScheduled, Step, frames
  <2>3. SomePlace' /\ NoPlace'
    BY <1>1 DEF SomePlace, NoPlace, RunScheduled, Idle, Step, frames
  <2>4. /\ Polled' /\ NewIsUnknown' /\ SpawnFinalizer' /\ SpawnHasFinalizer'
        /\ NoOrphan' /\ WaiterIsCalledBack' /\ FinalizedOnce'
    BY <1>1 DEF Polled, NewIsUnknown, SpawnFinalizer, SpawnHasFinalizer, NoOrphan,
       WaiterIsCalledBack, FinalizedOnce, RunScheduled, frames
  <2> QED
    BY <2>1, <2>2, <2>3, <2>4
<1>2. ASSUME NEW t \in Tasks, RunReceiver(t)
      PROVE  IInv'
  <2>1. TypeOK'
    BY <1>2 DEF TypeOK, RunReceiver, Step, frames
  <2>2. OnePlace'
    BY <1>2 DEF OnePlace, OnePlaceOf, TypeOK, RunReceiver, Step, frames
  <2>3. SomePlace' /\ NoPlace'
    BY <1>2 DEF SomePlace, NoPlace, RunReceiver, Step, frames
  <2>4. /\ Polled' /\ NewIsUnknown' /\ SpawnFinalizer' /\ SpawnHasFinalizer'
        /\ NoOrphan' /\ WaiterIsCalledBack' /\ FinalizedOnce'
    BY <1>2 DEF Polled, NewIsUnknown, SpawnFinalizer, SpawnHasFinalizer, NoOrphan,
       WaiterIsCalledBack, FinalizedOnce, RunReceiver, frames
  <2> QED
    BY <2>1, <2>2, <2>3, <2>4
<1>3. ASSUME NEW i \in Ifaces, Receive(i)
      PROVE  IInv'
  <2>1. TypeOK'
    BY <1>3 DEF TypeOK, Receive, frames
  <2>2. Polled' /\ NewIsUnknown'
    BY <1>3 DEF Polled, NewIsUnknown, NoPlace, TypeOK, Receive, frames
  <2>3. OnePlace'
    BY <1>3 DEF OnePlace, OnePlaceOf, TypeOK, Receive, frames
  <2>4. SomePlace' /\ NoPlace'
    <3>1. SomePlace'
      BY <1>3 DEF SomePlace, Receive, Idle, frames
    <3>2. NoPlace'
      BY <1>3 DEF NoPlace, Receive, Idle, frames
    <3> QED
      BY <3>1, <3>2
  <2>5. /\ SpawnFinalizer' /\ SpawnHasFinalizer'
        /\ NoOrphan' /\ WaiterIsCalledBack' /\ FinalizedOnce'
    BY <1>3 DEF SpawnFinalizer, SpawnHasFinalizer, NoOrphan, WaiterIsCalledBack,
       FinalizedOnce, Receive, frames
  <2> QED
    BY <2>1, <2>2, <2>3, <2>4, <2>5
<1>4. ASSUME NEW t \in Tasks, Sleep(t)
      PROVE  IInv'
  <2>1. TypeOK'
    BY <1>4 DEF TypeOK, Sleep, Scheduled, frames
  <2>2. OnePlace'
    BY <1>4 DEF OnePlace, OnePlaceOf, Sleep, Scheduled, frames
  <2>3. SomePlace' /\ NoPlace'
    BY <1>4 DEF SomePlace, NoPlace, TypeOK, Sleep, Scheduled, frames
  <2>4. /\ Polled' /\ NewIsUnknown' /\ SpawnFinalizer' /\ SpawnHasFinalizer'
        /\ NoOrphan' /\ WaiterIsCalledBack' /\ FinalizedOnce'
    BY <1>4 DEF Polled, NewIsUnknown, SpawnFinalizer, SpawnHasFinalizer, NoOrphan,
       WaiterIsCalledBack, FinalizedOnce, Sleep, frames
  <2> QED
    BY <2>1, <2>2, <2>3, <2>4
<1>5. ASSUME NEW t \in Tasks, NEW i \in Ifaces, Wait(t, i)
      PROVE  IInv'
  <2>1. TypeOK'
    BY <1>5 DEF TypeOK, Wait, frames
  <2>2. Polled' /\ NewIsUnknown'
    BY <1>5 DEF Polled, NewIsUnknown, Wait, frames
  <2>3. OnePlace'
    BY <1>5 DEF OnePlace, OnePlaceOf, Wait, frames
  <2>4. SomePlace' /\ NoPlace'
    BY <1>5 DEF SomePlace, NoPlace, TypeOK, Wait, frames
  <2>5. /\ SpawnFinalizer' /\ SpawnHasFinalizer'
        /\ NoOrphan' /\ WaiterIsCalledBack' /\ FinalizedOnce'
    BY <1>5 DEF SpawnFinalizer, SpawnHasFinalizer, NoOrphan, WaiterIsCalledBack,
       FinalizedOnce, Wait, frames
  <2> QED
    BY <2>1, <2>2, <2>3, <2>4, <2>5
<1>6. ASSUME NEW t \in Tasks, Park(t)
      PROVE  IInv'
  <2>1. TypeOK'
    BY <1>6 DEF TypeOK, Park, frames
  <2>2. OnePlace'
    BY <1>6 DEF OnePlace, OnePlaceOf, Park, frames
  <2>3. SomePlace' /\ NoPlace'
    BY <1>6 DEF SomePlace, NoPlace, Park, frames
  <2>4. /\ Polled' /\ NewIsUnknown' /\ SpawnFinalizer' /\ SpawnHasFinalizer'
        /\ NoOrphan' /\ WaiterIsCalledBack' /\ FinalizedOnce'
    BY <1>6 DEF Polled, NewIsUnknown, SpawnFinalizer, SpawnHasFinalizer, NoOrphan,
       WaiterIsCalledBack, FinalizedOnce, Park, frames
  <2> QED
    BY <2>1, <2>2, <2>3, <2>4
<1>7. ASSUME NEW t \in Tasks, NEW C \in SUBSET Tasks, Race(t, C)
      PROVE  IInv'
  <2>1. TypeOK'
    BY <1>7 DEF TypeOK, Race, Scheduled
  <2>2. Polled' /\ NewIsUnknown'
    BY <1>7 DEF Polled, NewIsUnknown, Race
  <2>3. OnePlace'
    BY <1>7 DEF OnePlace, OnePlaceOf, NoPlace, NewIsUnknown, Race, Scheduled
  <2>4. SomePlace' /\ NoPlace'
    BY <1>7 DEF SomePlace, NoPlace, TypeOK, Race, Scheduled
  <2>5. SpawnFinalizer' /\ SpawnHasFinalizer'
    <3>1. SpawnFinalizer'
      <4> SUFFICES ASSUME NEW u \in Tasks, finalizers'[u] = "spawn"
                   PROVE  /\ gen'[u] = "live" /\ u \in spawned'
                          /\ callback'[u] \in Tasks => /\ gen'[callback'[u]] = "live"
                                                       /\ awaiting'[callback'[u]] = {u}
        BY Zenon DEF SpawnFinalizer
      <4>1. awaiting[t] = {}
        BY <1>7 DEF OnePlace, OnePlaceOf, NoPlace, Race
      <4>2. u \notin C /\ finalizers[u] = "spawn" /\ callback'[u] = callback[u]
        BY <1>7 DEF Race
      <4>3. callback[u] \in Tasks => callback[u] # t
        BY <4>1, <4>2 DEF SpawnFinalizer
      <4> QED
        BY <1>7, <4>2, <4>3 DEF SpawnFinalizer, TypeOK, Race
    <3>2. SpawnHasFinalizer'
      BY <1>7 DEF SpawnHasFinalizer, NewIsUnknown, TypeOK, Race
    <3> QED
      BY <3>1, <3>2
  <2>6. NoOrphan' /\ WaiterIsCalledBack'
    BY <1>7 DEF NoOrphan, WaiterIsCalledBack, OnePlace, OnePlaceOf, NoPlace, TypeOK,
       Race
  <2>7. FinalizedOnce'
    BY <1>7 DEF FinalizedOnce, NewIsUnknown, Race
  <2> QED
    BY <2>1, <2>2, <2>3, <2>4, <2>5, <2>6, <2>7
<1>8. ASSUME NEW t \in Tasks, NEW u \in Tasks, AwaitSpawn(t, u)
      PROVE  IInv'
  <2>1. TypeOK'
    BY <1>8 DEF TypeOK, AwaitSpawn
  <2>2. Polled' /\ NewIsUnknown'
    BY <1>8 DEF Polled, NewIsUnknown, AwaitSpawn
  <2>3. OnePlace'
    BY <1>8 DEF OnePlace, OnePlaceOf, AwaitSpawn
  <2>4. SomePlace' /\ NoPlace'
    <3>1. SomePlace'
      BY <1>8 DEF SomePlace, TypeOK, AwaitSpawn
    <3>2. NoPlace'
      BY <1>8 DEF NoPlace, TypeOK, AwaitSpawn
    <3> QED
      BY <3>1, <3>2
  <2>5. SpawnFinalizer' /\ SpawnHasFinalizer'
    <3>1. SpawnFinalizer'
      BY <1>8 DEF SpawnFinalizer, OnePlace, OnePlaceOf, NoPlace, TypeOK, AwaitSpawn
    <3>2. SpawnHasFinalizer'
      BY <1>8 DEF SpawnHasFinalizer, AwaitSpawn
    <3> QED
      BY <3>1, <3>2
  <2>6. NoOrphan' /\ WaiterIsCalledBack'
    <3>1. NoOrphan'
      BY <1>8 DEF NoOrphan, NewIsUnknown, OnePlace, OnePlaceOf, TypeOK, AwaitSpawn
    <3>2. WaiterIsCalledBack'
      BY <1>8 DEF WaiterIsCalledBack, NewIsUnknown, SpawnHasFinalizer, OnePlace, OnePlaceOf,
         FinalizedOnce, TypeOK, AwaitSpawn
    <3> QED
      BY <3>1, <3>2
  <2>7. FinalizedOnce'
    BY <1>8 DEF FinalizedOnce, AwaitSpawn
  <2> QED
    BY <2>1, <2>2, <2>3, <2>4, <2>5, <2>6, <2>7
<1>9. ASSUME NEW u \in Tasks, Schedule(u)
      PROVE  IInv'
  <2>1. TypeOK'
    BY <1>9 DEF TypeOK, Schedule, frames
  <2>2. Polled' /\ NewIsUnknown'
    BY <1>9 DEF Polled, NewIsUnknown, Schedule, frames
  <2>3. OnePlace'
    BY <1>9 DEF OnePlace, OnePlaceOf, NoPlace, NewIsUnknown, Schedule, frames
  <2>4. SomePlace' /\ NoPlace'
    BY <1>9 DEF SomePlace, NoPlace, TypeOK, Schedule, frames
  <2>5. SpawnFinalizer' /\ SpawnHasFinalizer'
    BY <1>9 DEF SpawnFinalizer, SpawnHasFinalizer, NewIsUnknown, NoPlace, Schedule,
       frames
  <2>6. NoOrphan' /\ WaiterIsCalledBack'
    BY <1>9 DEF NoOrphan, WaiterIsCalledBack, Schedule, frames
  <2>7. FinalizedOnce'
    BY <1>9 DEF FinalizedOnce, Schedule, frames
  <2> QED
    BY <2>1, <2>2, <2>3, <2>4, <2>5, <2>6, <2>7
<1>10. ASSUME NEW u \in Tasks, Spawn(u)
      PROVE  IInv'
  <2>1. TypeOK'
    BY <1>10 DEF TypeOK, Spawn, Scheduled
  <2>2. Polled' /\ NewIsUnknown'
    BY <1>10 DEF Polled, NewIsUnknown, TypeOK, Spawn
  <2>3. OnePlace'
    BY <1>10 DEF OnePlace, OnePlaceOf, NoPlace, NewIsUnknown, Spawn, Scheduled
  <2>4. SomePlace' /\ NoPlace'
    BY <1>10 DEF SomePlace, NoPlace, TypeOK, Spawn, Scheduled
  <2>5. SpawnFinalizer' /\ SpawnHasFinalizer'
    BY <1>10 DEF SpawnFinalizer, SpawnHasFinalizer, NewIsUnknown, TypeOK, Spawn
  <2>6. NoOrphan' /\ WaiterIsCalledBack'
    <3>1. NoOrphan'
      BY <1>10 DEF NoOrphan, Spawn
    <3>2. WaiterIsCalledBack'
      BY <1>10 DEF WaiterIsCalledBack, Spawn
    <3> QED
      BY <3>1, <3>2
  <2>7. FinalizedOnce'
    BY <1>10 DEF FinalizedOnce, NewIsUnknown, Spawn
  <2> QED
    BY <2>1, <2>2, <2>3, <2>4, <2>5, <2>6, <2>7
<1>11. ASSUME NEW u \in Tasks, Unpark(u)
      PROVE  IInv'
  <2>1. TypeOK'
    BY <1>11 DEF TypeOK, Unpark, Scheduled, frames
  <2>2. OnePlace'
    BY <1>11 DEF OnePlace, OnePlaceOf, TypeOK, Unpark, Scheduled, frames
  <2>3. SomePlace' /\ NoPlace'
    BY <1>11 DEF SomePlace, NoPlace, TypeOK, Unpark, Scheduled, frames
  <2>4. /\ Polled' /\ NewIsUnknown' /\ SpawnFinalizer' /\ SpawnHasFinalizer'
        /\ NoOrphan' /\ WaiterIsCalledBack' /\ FinalizedOnce'
    BY <1>11 DEF Polled, NewIsUnknown, SpawnFinalizer, SpawnHasFinalizer, NoOrphan,
       WaiterIsCalledBack, FinalizedOnce, Unpark, frames
  <2> QED
    BY <2>1, <2>2, <2>3, <2>4
<1>12. ASSUME Clear
      PROVE  IInv'
  <2>1. TypeOK'
    BY <1>12 DEF TypeOK, Clear
  <2>2. Polled' /\ NewIsUnknown'
    BY <1>12 DEF Polled, NewIsUnknown, Clear
  <2>3. OnePlace'
    BY <1>12 DEF OnePlace, OnePlaceOf, Clear
  <2>4. SomePlace' /\ NoPlace'
    BY <1>12 DEF SomePlace, NoPlace, Clear
  <2>5. SpawnFinalizer' /\ SpawnHasFinalizer'
    BY <1>12 DEF SpawnFinalizer, SpawnHasFinalizer, Clear
  <2>6. NoOrphan' /\ WaiterIsCalledBack'
    BY <1>12 DEF NoOrphan, WaiterIsCalledBack, Clear
  <2>7. FinalizedOnce'
    BY <1>12 DEF FinalizedOnce, Clear
  <2> QED
    BY <2>1, <2>2, <2>3, <2>4, <2>5, <2>6, <2>7
<1>13. ASSUME UNCHANGED vars
      PROVE  IInv'
  <2>1. TypeOK' /\ Polled' /\ NewIsUnknown' /\ SpawnFinalizer' /\ SpawnHasFinalizer'
    BY <1>13 DEF TypeOK, Polled, NewIsUnknown, SpawnFinalizer, SpawnHasFinalizer, vars
  <2>2. OnePlace' /\ SomePlace' /\ NoPlace'
    BY <1>13 DEF OnePlace, OnePlaceOf, SomePlace, NoPlace, vars
  <2>3. NoOrphan' /\ WaiterIsCalledBack' /\ FinalizedOnce'
    BY <1>13 DEF NoOrphan, WaiterIsCalledBack, FinalizedOnce, vars
  <2> QED
    BY <2>1, <2>2, <2>3
<1>14. ASSUME NEW t \in Tasks, Finish(t)
      PROVE  IInv'
  BY <1>14, CascadeFacts, EndKeepsIInv DEF Finish
<1>15. ASSUME NEW u \in Tasks, Close(u)
      PROVE  IInv'
  BY <1>15, CascadeFacts, EndKeepsIInv DEF Close
<1>16. ASSUME NEW i \in Ifaces, PopTasksOnIface(i)
      PROVE  IInv'
  BY <1>16, CascadeFacts, EndKeepsIInv DEF PopTasksOnIface, TypeOK
<1> QED
  BY <1>1, <1>2, <1>3, <1>4, <1>5, <1>6, <1>7, <1>8, <1>9, <1>10, <1>11, <1>12, <1>13,
     <1>14, <1>15, <1>16 DEF Next, Return

\* The inductive invariant holds in every reachable state.
THEOREM Invariance == Spec => []IInv
  BY InitIInv, NextIInv, PTL DEF Spec

\* Every variable of the loop keeps its type.
THEOREM TypeCorrect == Spec => []TypeOK
  BY Invariance, PTL DEF IInv

\* A task suspended at one yield is resumed at most once (schedule, pause, close
\* and the finalizers never leave two entries for it).
THEOREM ResumedOnce == Spec => []NoDoubleResume
<1>1. IInv => NoDoubleResume
  <2> SUFFICES ASSUME IInv, NEW t \in Tasks, gen[t] = "live"
               PROVE  /\ queue[t] <= 1
                      /\ \A p, q \in Places : At(t, p) /\ At(t, q) => p = q
                      /\ \A i,
                         j \in Ifaces : t \in paused[i] /\ t \in paused[j] => i = j
    BY DEF NoDoubleResume
  <2>1. OnePlaceOf(t)
    BY DEF IInv, OnePlace
  <2>2. polled \subseteq Ifaces /\ queue[t] \in Nat
    BY DEF IInv, TypeOK
  <2> QED
    BY <2>1, <2>2 DEF OnePlaceOf, Places, At
<1> QED
  BY <1>1, Invariance, PTL

\* Until clear() is called no live task is lost, whatever tasks are closed.
THEOREM NothingLost == Spec => []NoLostTask
<1>1. IInv => NoLostTask
  BY DEF IInv, Polled, SomePlace, NoLostTask, Places, At
<1> QED
  BY <1>1, Invariance, PTL

\* A task that was closed or has finished is forgotten by the loop.
THEOREM NothingHaunts == Spec => []NoGhost
<1>1. IInv => NoGhost
  <2> SUFFICES ASSUME IInv, NEW t \in Tasks, gen[t] # "live",
                      NEW p \in Places \ {"message"}
               PROVE  ~At(t, p)
    BY DEF NoGhost
  <2>1. /\ this_task # t /\ queue[t] = 0 /\ t \notin parked /\ awaiting[t] = {}
        /\ \A i \in polled : t \notin paused[i]
    BY DEF IInv, TypeOK, NoPlace
  <2>2. /\ ~At(t, "running") /\ ~At(t, "queue") /\ ~At(t, "paused")
        /\ ~At(t, "parked") /\ ~At(t, "awaiting")
    BY <2>1 DEF At
  <2> QED
    BY <2>2 DEF Places
<1> QED
  BY <1>1, Invariance, PTL

\* Race children do not outlive the await of the race, and each finalizer of a
\* spawn runs once.
THEOREM Structured == Spec => [](NoOrphan /\ FinalizedOnce)
  BY Invariance, PTL DEF IInv

\* Who awaits a race or a spawn will be called back by every task it waits for.
THEOREM CalledBack == Spec => []WaiterIsCalledBack
  BY Invariance, PTL DEF IInv

\* A task goes on after a race or an awaited spawn only when all the tasks it
\* waited for have finished.
THEOREM ChildrenFirst == Spec => ChildrenEndFirst
<1> DEFINE A == \A t \in Tasks : awaiting'[t] # awaiting[t] =>
                  \A c \in awaiting[t] : gen'[c] = "done"
<1>1. ASSUME IInv, NEW K \in SUBSET Tasks, Spreads(K), End(K)
      PROVE  A
  <2> SUFFICES ASSUME NEW t \in Tasks, awaiting'[t] # awaiting[t]
               PROVE  \A c \in awaiting[t] : gen'[c] = "done"
    OBVIOUS
  <2>1. awaiting[t] \subseteq K
    <3>1. CASE t \in K
      BY <1>1, <3>1 DEF Spreads, ClosedWith
    <3>2. CASE t \in Woken(K)
      BY <1>1, <3>2, WokenFacts
    <3> QED
      BY <1>1, <3>1, <3>2 DEF End
  <2> QED
    BY <1>1, <2>1 DEF End
<1>2. IInv /\ [Next]_vars => A
  <2> SUFFICES ASSUME IInv, [Next]_vars
               PROVE  A
    OBVIOUS
  <2> USE DEF IInv
  <2>1. ASSUME NEW t \in Tasks, Finish(t) PROVE A
    BY <1>1, <2>1, CascadeFacts DEF Finish
  <2>2. ASSUME NEW t \in Tasks, Close(t) PROVE A
    BY <1>1, <2>2, CascadeFacts DEF Close
  <2>3. ASSUME NEW i \in Ifaces, PopTasksOnIface(i) PROVE A
    BY <1>1, <2>3, CascadeFacts DEF PopTasksOnIface, TypeOK
  <2>4. ASSUME NEW t \in Tasks, NEW C \in SUBSET Tasks, Race(t, C) PROVE A
    BY <2>4 DEF Race, OnePlace, OnePlaceOf, NoPlace
  <2>5. ASSUME NEW t \in Tasks, NEW u \in Tasks, AwaitSpawn(t, u) PROVE A
    BY <2>5 DEF AwaitSpawn, OnePlace, OnePlaceOf, NoPlace
  <2>6. CASE UNCHANGED awaiting
    BY <2>6
  <2> QED
    BY <2>1, <2>2, <2>3, <2>4, <2>5, <2>6, Zenon
    DEF Next, vars, frames, RunScheduled, RunReceiver, Receive, Return, Sleep, Park,
       Wait, Schedule, Spawn, Unpark, Clear
<1>3. Spec => [][A]_vars
  BY <1>2, Invariance, PTL DEF Spec
<1> QED
  BY <1>3 DEF ChildrenEndFirst

=============================================================================
