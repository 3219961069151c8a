--------------------------- MODULE AutoLockProofs ---------------------------
(***************************************************************************)
(* Proofs about automatic locking, for any delays and any amount of        *)
(* activity.                                                               *)
(***************************************************************************)
EXTENDS AutoLock, TLAPS

Callbacks == {SCREEN_OFF, LOCK, SHUTDOWN}
Delay     == Nat \cup {None}

Timer == [timeouts : [Callbacks -> Delay],
          bit      : [Callbacks -> {0, 1}],
          left     : [T!Tasks -> Delay]]

\* Only the current task of a registered callback is scheduled.
Clean(t) ==
  \A k \in T!Tasks : t.left[k] # None => T!Registered(t, k[1]) /\ k = T!TaskOf(t, k[1])

\* The time until the task of a callback is due.
Left(t, c) == t.left[T!TaskOf(t, c)]

TypeOK ==
  /\ timer \in Timer /\ quiet \in Nat /\ idle \in Nat /\ failed_count \in Nat
  /\ pin_unlocked \in BOOLEAN /\ fp_unlocked \in BOOLEAN /\ finger \in BOOLEAN
  /\ find_handler \in {"registered", "pinlocked"}
  /\ request \in {"none", "unlock", "running", "self"}
  /\ backlight \in {"on", "low", "off"}

\* A handler runs, and requests are let through, only while the device is unlocked.
Gate ==
  /\ request = "running" => DeviceUnlocked
  /\ find_handler = "registered" => DeviceUnlocked

\* While the PIN is unlocked the screen has the long timeout; what is scheduled
\* is not due before the delays have passed, and a screen at full brightness has
\* no lock coming.
Delays ==
  pin_unlocked =>
    /\ timer.timeouts[SCREEN_OFF] = Autolock
    /\ T!Registered(timer, LOCK) => backlight # "on"
    /\ T!Registered(timer, LOCK) => timer.timeouts[LOCK] = LowDelay /\ idle >= Autolock
    /\ Left(timer, SCREEN_OFF) # None => idle + Left(timer, SCREEN_OFF) >= Autolock
    /\ Left(timer, LOCK) # None => /\ idle + Left(timer, LOCK) >= Autolock + LowDelay
                                  /\ quiet + Left(timer, LOCK) >= LowDelay

IInv == TypeOK /\ Clean(timer) /\ Gate /\ Delays

-----------------------------------------------------------------------------
USE LockAssumption DEF Callbacks, Delay, SCREEN_OFF, LOCK, SHUTDOWN

\* The delays are natural numbers.
LEMMA DelaysNat ==
  /\ Autolock \in Nat /\ ShortLock \in Nat /\ LowDelay \in Nat /\ Autoshutdown \in Nat
<1>1. /\ Autolock \in 1..MaxTimeout /\ ShortLock \in 1..MaxTimeout
      /\ LowDelay \in 1..MaxTimeout /\ Autoshutdown \in 1..MaxTimeout
  BY Zenon
<1> QED
  BY <1>1

\* The tasks of a callback.
LEMMA TaskPairs ==
  /\ \A c \in Callbacks, b \in {0, 1} : <<c, b>> \in T!Tasks
  /\ \A k \in T!Tasks : k[1] \in Callbacks /\ k[2] \in {0, 1} /\ k = <<k[1], k[2]>>
  BY DEF T!Tasks

\* loop.close: the task is not scheduled any more.
LEMMA Closing ==
  ASSUME NEW t \in Timer, Clean(t), NEW c \in Callbacks
  PROVE  LET s == T!CloseTask(t, c)
         IN  /\ s \in Timer /\ Clean(s) /\ s.timeouts = t.timeouts /\ s.bit = t.bit
             /\ s.left[T!TaskOf(t, c)] = None
             /\ \A k \in T!Tasks : k # T!TaskOf(t, c) => s.left[k] = t.left[k]
<1> DEFINE k0 == T!TaskOf(t, c)
           s == [t EXCEPT !.left = [t.left EXCEPT ![k0] = None]]
<1>1. T!CloseTask(t, c) = s
  BY DEF T!CloseTask, Timer
<1>2. k0 \in T!Tasks
  <2>1. t.bit[c] \in {0, 1}
    BY DEF Timer
  <2> QED
    BY <2>1, TaskPairs DEF T!TaskOf
<1>3. /\ s \in Timer /\ s.timeouts = t.timeouts /\ s.bit = t.bit
      /\ s.left[k0] = None /\ \A k \in T!Tasks : k # k0 => s.left[k] = t.left[k]
  BY <1>2 DEF Timer
<1> HIDE DEF s
<1>4. Clean(s)
  BY <1>3 DEF Clean, T!Registered, T!TaskOf
<1> QED
  BY <1>1, <1>3, <1>4

\* A new task of a callback is not scheduled, and takes the place of the old one.
LEMMA NewTasks ==
  ASSUME NEW t \in Timer, Clean(t), NEW c \in Callbacks, Left(t, c) = None
  PROVE  LET s == T!NewTask(t, c)
         IN  /\ s \in Timer /\ Clean(s) /\ s.timeouts = t.timeouts
             /\ Left(s, c) = None
             /\ \A d \in Callbacks \ {c} : Left(s, d) = Left(t, d)
<1> DEFINE b == 1 - t.bit[c]
           r == [t EXCEPT !.bit = [t.bit EXCEPT ![c] = b]]
           s == [r EXCEPT !.left = [r.left EXCEPT ![<<c, b>>] = None]]
<1>1. b \in {0, 1} /\ t.bit[c] # b /\ <<c, b>> \in T!Tasks
  <2>1. t.bit[c] \in {0, 1}
    BY DEF Timer
  <2>2. b \in {0, 1} /\ t.bit[c] # b
    BY <2>1
  <2> QED
    BY <2>2, TaskPairs
<1>2. T!NewTask(t, c) = s
  BY Zenon DEF T!NewTask
<1> HIDE DEF b
<1>3. /\ r \in Timer /\ r.timeouts = t.timeouts /\ r.left = t.left
      /\ r.bit = [t.bit EXCEPT ![c] = b]
  BY <1>1 DEF Timer
<1> HIDE DEF r
<1>4. /\ s \in Timer /\ s.timeouts = t.timeouts /\ s.bit = [t.bit EXCEPT ![c] = b]
      /\ s.left = [t.left EXCEPT ![<<c, b>>] = None]
  BY <1>1, <1>3 DEF Timer
<1> HIDE DEF s
<1>5. /\ s.bit[c] = b /\ \A d \in Callbacks \ {c} : s.bit[d] = t.bit[d]
      /\ s.left[<<c, b>>] = None
      /\ \A k \in T!Tasks : k # <<c, b>> => s.left[k] = t.left[k]
  BY <1>1, <1>4 DEF Timer
<1>6. Clean(s)
  <2> SUFFICES ASSUME NEW k \in T!Tasks, s.left[k] # None
               PROVE  T!Registered(s, k[1]) /\ k = T!TaskOf(s, k[1])
    BY DEF Clean
  <2>1. k # <<c, b>> /\ t.left[k] # None
    BY <1>5
  <2>2. T!Registered(t, k[1]) /\ k = T!TaskOf(t, k[1])
    BY <2>1 DEF Clean
  <2>3. k[1] # c
    BY <2>1, <2>2 DEF Left
  <2> QED
    BY <1>4, <1>5, <2>2, <2>3, TaskPairs DEF T!Registered, T!TaskOf
<1>7. Left(s, c) = None
  BY <1>5 DEF Left, T!TaskOf
<1>8. \A d \in Callbacks \ {c} : Left(s, d) = Left(t, d)
  <2> SUFFICES ASSUME NEW d \in Callbacks \ {c} PROVE Left(s, d) = Left(t, d)
    OBVIOUS
  <2>1. T!TaskOf(s, d) = T!TaskOf(t, d) /\ T!TaskOf(t, d) # <<c, b>>
    BY <1>5 DEF T!TaskOf
  <2>2. t.bit[d] \in {0, 1}
    BY DEF Timer
  <2>3. T!TaskOf(t, d) \in T!Tasks
    BY <2>2, TaskPairs DEF T!TaskOf
  <2> QED
    BY <1>5, <2>1, <2>3 DEF Left
<1> QED
  BY <1>2, <1>4, <1>6, <1>7, <1>8

\* touch() schedules the task of every registered callback anew.
LEMMA Touching ==
  ASSUME NEW t \in Timer, Clean(t)
  PROVE  LET s == T!Touch(t)
         IN  /\ s \in Timer /\ Clean(s) /\ s.timeouts = t.timeouts
             /\ \A c \in Callbacks : Left(s, c) = t.timeouts[c]
<1> DEFINE l == [k \in T!Tasks |-> IF T!Registered(t, k[1]) /\ k = T!TaskOf(t, k[1])
                                   THEN t.timeouts[k[1]] ELSE t.left[k]]
           s == [t EXCEPT !.left = l]
<1>1. T!Touch(t) = s
  BY Zenon DEF T!Touch
<1>2. l \in [T!Tasks -> Delay]
  BY TaskPairs DEF Timer
<1>3. \A k \in T!Tasks : l[k] # None => T!Registered(t, k[1]) /\ k = T!TaskOf(t, k[1])
  BY DEF Clean
<1>4. \A c \in Callbacks : l[T!TaskOf(t, c)] = t.timeouts[c]
  <2> SUFFICES ASSUME NEW c \in Callbacks PROVE l[T!TaskOf(t, c)] = t.timeouts[c]
    OBVIOUS
  <2>1. T!TaskOf(t, c) \in T!Tasks /\ T!TaskOf(t, c)[1] = c
    BY TaskPairs DEF T!TaskOf, Timer
  <2>2. ~T!Registered(t, c) => t.left[T!TaskOf(t, c)] = None
    BY <2>1 DEF Clean
  <2> QED
    BY <2>1, <2>2 DEF T!Registered
<1> HIDE DEF l
<1>5. s \in Timer /\ s.timeouts = t.timeouts /\ s.bit = t.bit /\ s.left = l
  BY <1>2 DEF Timer
<1> HIDE DEF s
<1>6. Clean(s)
  BY <1>3, <1>5 DEF Clean, T!Registered, T!TaskOf
<1>7. \A c \in Callbacks : Left(s, c) = t.timeouts[c]
  BY <1>4, <1>5 DEF Left, T!TaskOf
<1> QED
  BY <1>1, <1>5, <1>6, <1>7

\* A callback that is not registered has nothing scheduled.
LEMMA Unregistered ==
  ASSUME NEW t \in Timer, Clean(t), NEW c \in Callbacks, ~T!Registered(t, c)
  PROVE  Left(t, c) = None
<1>1. T!TaskOf(t, c) \in T!Tasks /\ T!TaskOf(t, c)[1] = c
  <2>1. t.bit[c] \in {0, 1}
    BY DEF Timer
  <2> QED
    BY <2>1, TaskPairs DEF T!TaskOf
<1> QED
  BY <1>1 DEF Clean, Left

\* set() registers a callback and counts as a touch.
LEMMA Setting ==
  ASSUME NEW t \in Timer, Clean(t), NEW c \in Callbacks, NEW ms \in Nat
  PROVE  LET s == T!SetTimeout(t, c, ms)
         IN  /\ s \in Timer /\ Clean(s) /\ s.timeouts = [t.timeouts EXCEPT ![c] = ms]
             /\ \A d \in Callbacks : Left(s, d) = s.timeouts[d]
<1> DEFINE t0 == IF T!Registered(t, c) THEN T!CloseTask(t, c) ELSE t
           t1 == [t0 EXCEPT !.timeouts = [t0.timeouts EXCEPT ![c] = ms]]
           t2 == T!NewTask(t1, c)
<1>1. T!SetTimeout(t, c, ms) = T!Touch(t2)
  BY Zenon DEF T!SetTimeout
<1>2. t0 \in Timer /\ Clean(t0) /\ t0.timeouts = t.timeouts /\ Left(t0, c) = None
  <2>1. CASE T!Registered(t, c)
    <3>1. /\ t0 = T!CloseTask(t, c) /\ t0 \in Timer /\ Clean(t0) /\ t0.timeouts = t.timeouts
          /\ t0.bit = t.bit /\ t0.left[T!TaskOf(t, c)] = None
      BY <2>1, Closing
    <3> QED
      BY <3>1 DEF Left, T!TaskOf
  <2>2. CASE ~T!Registered(t, c)
    BY <2>2, Unregistered
  <2> QED
    BY <2>1, <2>2
<1> HIDE DEF t0
<1>3. /\ t1 \in Timer /\ t1.timeouts = [t.timeouts EXCEPT ![c] = ms]
      /\ t1.bit = t0.bit /\ t1.left = t0.left
  BY <1>2 DEF Timer
<1> HIDE DEF t1
<1>4. \A d \in Callbacks : T!Registered(t0, d) => T!Registered(t1, d)
  BY <1>2, <1>3 DEF T!Registered, Timer
<1>5. Clean(t1) /\ Left(t1, c) = None
  BY <1>2, <1>3, <1>4, TaskPairs DEF Clean, T!TaskOf, Left
<1>6. t2 \in Timer /\ Clean(t2) /\ t2.timeouts = t1.timeouts
  BY <1>3, <1>5, NewTasks
<1> HIDE DEF t2
<1>7. /\ T!Touch(t2) \in Timer /\ Clean(T!Touch(t2)) /\ T!Touch(t2).timeouts = t2.timeouts
      /\ \A d \in Callbacks : Left(T!Touch(t2), d) = t2.timeouts[d]
  BY <1>6, Touching
<1> QED
  BY <1>1, <1>3, <1>6, <1>7

\* remove() takes a callback and its task away.
LEMMA Removing ==
  ASSUME NEW t \in Timer, Clean(t), NEW c \in Callbacks
  PROVE  LET s == T!Remove(t, c)
         IN  /\ s \in Timer /\ Clean(s) /\ s.timeouts = [t.timeouts EXCEPT ![c] = None]
             /\ Left(s, c) = None
             /\ \A d \in Callbacks \ {c} : Left(s, d) = Left(t, d)
<1>1. CASE T!Registered(t, c)
  <2> DEFINE t0 == T!CloseTask(t, c)
             s == [t0 EXCEPT !.timeouts = [t0.timeouts EXCEPT ![c] = None]]
  <2>1. T!Remove(t, c) = s
    BY <1>1, Zenon DEF T!Remove
  <2>2. /\ t0 \in Timer /\ Clean(t0) /\ t0.timeouts = t.timeouts /\ t0.bit = t.bit
        /\ t0.left[T!TaskOf(t, c)] = None
        /\ \A k \in T!Tasks : k # T!TaskOf(t, c) => t0.left[k] = t.left[k]
    BY Closing
  <2> HIDE DEF t0
  <2>3. /\ s \in Timer /\ s.timeouts = [t.timeouts EXCEPT ![c] = None]
        /\ s.bit = t.bit /\ s.left = t0.left
    BY <2>2 DEF Timer
  <2> HIDE DEF s
  <2>4. \A d \in Callbacks \ {c} : T!Registered(t0, d) <=> T!Registered(s, d)
    BY <2>2, <2>3 DEF T!Registered, Timer
  <2>5. Clean(s)
    <3> SUFFICES ASSUME NEW k \in T!Tasks, s.left[k] # None
                 PROVE  T!Registered(s, k[1]) /\ k = T!TaskOf(s, k[1])
      BY DEF Clean
    <3>1. T!Registered(t0, k[1]) /\ k = T!TaskOf(t, k[1]) /\ k # T!TaskOf(t, c)
      BY <2>2, <2>3 DEF Clean, T!TaskOf
    <3> QED
      BY <2>3, <2>4, <3>1, TaskPairs DEF T!TaskOf
  <2>6. Left(s, c) = None
    BY <2>2, <2>3 DEF Left, T!TaskOf
  <2>7. \A d \in Callbacks \ {c} : Left(s, d) = Left(t, d)
    <3> SUFFICES ASSUME NEW d \in Callbacks \ {c} PROVE Left(s, d) = Left(t, d)
      OBVIOUS
    <3>1. T!TaskOf(t, d) \in T!Tasks /\ T!TaskOf(t, d) # T!TaskOf(t, c)
      BY TaskPairs DEF T!TaskOf, Timer
    <3> QED
      BY <2>2, <2>3, <3>1 DEF Left, T!TaskOf
  <2> QED
    BY <2>1, <2>3, <2>5, <2>6, <2>7
<1>2. CASE ~T!Registered(t, c)
  <2>1. T!Remove(t, c) = t
    BY <1>2 DEF T!Remove
  <2>2. t.timeouts = [t.timeouts EXCEPT ![c] = None]
    BY <1>2 DEF T!Registered, Timer
  <2> QED
    BY <1>2, <2>1, <2>2, Unregistered
<1> QED
  BY <1>1, <1>2

\* A task that runs puts a new one in its place, which is not scheduled.
LEMMA Firing ==
  ASSUME NEW t \in Timer, Clean(t), NEW c \in Callbacks
  PROVE  LET s == T!Fire(t, T!TaskOf(t, c))
         IN  /\ s \in Timer /\ Clean(s) /\ s.timeouts = t.timeouts /\ Left(s, c) = None
             /\ \A d \in Callbacks \ {c} : Left(s, d) = Left(t, d)
<1> DEFINE t0 == T!CloseTask(t, c)
<1>1. T!Fire(t, T!TaskOf(t, c)) = T!NewTask(t0, c)
  BY Zenon DEF T!Fire, T!CloseTask, T!TaskOf
<1>2. /\ t0 \in Timer /\ Clean(t0) /\ t0.timeouts = t.timeouts /\ t0.bit = t.bit
      /\ t0.left[T!TaskOf(t, c)] = None
      /\ \A k \in T!Tasks : k # T!TaskOf(t, c) => t0.left[k] = t.left[k]
  BY Closing
<1> HIDE DEF t0
<1>3. Left(t0, c) = None
  BY <1>2 DEF Left, T!TaskOf
<1>4. \A d \in Callbacks \ {c} : Left(t0, d) = Left(t, d)
  <2> SUFFICES ASSUME NEW d \in Callbacks \ {c} PROVE Left(t0, d) = Left(t, d)
    OBVIOUS
  <2>1. T!TaskOf(t, d) \in T!Tasks /\ T!TaskOf(t, d) # T!TaskOf(t, c)
    BY TaskPairs DEF T!TaskOf, Timer
  <2> QED
    BY <1>2, <2>1 DEF Left, T!TaskOf
<1>5. /\ T!NewTask(t0, c) \in Timer /\ Clean(T!NewTask(t0, c))
      /\ T!NewTask(t0, c).timeouts = t0.timeouts /\ Left(T!NewTask(t0, c), c) = None
      /\ \A d \in Callbacks \ {c} : Left(T!NewTask(t0, c), d) = Left(t0, d)
  BY <1>2, <1>3, NewTasks
<1> QED
  BY <1>1, <1>2, <1>4, <1>5

\* The timer of a device that starts.
LEMMA EmptyTimers == T!EmptyTimer \in Timer /\ Clean(T!EmptyTimer)
<1>1. T!EmptyTimer \in Timer
  BY DEF T!EmptyTimer, Timer
<1>2. \A k \in T!Tasks : T!EmptyTimer.left[k] = None
  BY DEF T!EmptyTimer
<1> QED
  BY <1>1, <1>2 DEF Clean

\* loop.clear() leaves nothing scheduled.
LEMMA Clearing ==
  ASSUME NEW t \in Timer PROVE Cleared(t) \in Timer /\ Clean(Cleared(t))
<1> DEFINE l == [k \in T!Tasks |-> None]
<1>1. Cleared(t) = [t EXCEPT !.left = l]
  BY Zenon DEF Cleared
<1>2. l \in [T!Tasks -> Delay] /\ \A k \in T!Tasks : l[k] = None
  OBVIOUS
<1> HIDE DEF l
<1>3. Cleared(t) \in Timer /\ Cleared(t).left = l
  BY <1>1, <1>2 DEF Timer
<1> QED
  BY <1>2, <1>3 DEF Clean

\* Time passes for what is scheduled.
LEMMA Elapsing ==
  ASSUME NEW t \in Timer, Clean(t)
  PROVE  LET s == T!Elapse(t)
         IN  /\ s \in Timer /\ Clean(s) /\ s.timeouts = t.timeouts
             /\ \A c \in Callbacks : \/ Left(s, c) = Left(t, c)
                                     \/ Left(t, c) \in Nat /\ Left(s, c) = Left(t, c) - 1
<1> DEFINE l == [k \in T!Tasks |-> IF t.left[k] = None \/ t.left[k] = 0 THEN t.left[k]
                                   ELSE t.left[k] - 1]
           s == [t EXCEPT !.left = l]
<1>1. T!Elapse(t) = s
  BY Zenon DEF T!Elapse
<1>2. \A k \in T!Tasks : t.left[k] \in Delay
  BY DEF Timer
<1>3. l \in [T!Tasks -> Delay] /\ \A k \in T!Tasks : l[k] # None => t.left[k] # None
  BY <1>2
<1>4. \A k \in T!Tasks : l[k] = t.left[k] \/ (t.left[k] \in Nat /\ l[k] = t.left[k] - 1)
  BY <1>2
<1> HIDE DEF l
<1>5. s \in Timer /\ s.timeouts = t.timeouts /\ s.bit = t.bit /\ s.left = l
  BY <1>3 DEF Timer
<1> HIDE DEF s
<1>6. Clean(s)
  BY <1>3, <1>5 DEF Clean, T!Registered, T!TaskOf
<1>7. \A c \in Callbacks : T!TaskOf(t, c) \in T!Tasks
  BY TaskPairs DEF T!TaskOf, Timer
<1>8. \A c \in Callbacks : \/ Left(s, c) = Left(t, c)
                           \/ Left(t, c) \in Nat /\ Left(s, c) = Left(t, c) - 1
  BY <1>4, <1>5, <1>7 DEF Left, T!TaskOf
<1> QED
  BY <1>1, <1>5, <1>6, <1>8

\* reload_settings_from_storage sets the screen's timeout and no lock is coming.
LEMMA Reloading ==
  ASSUME NEW t \in Timer, Clean(t), NEW ms \in Nat, NEW off
  PROVE  LET s == ReloadSettings(t, ms, off)
         IN  /\ s \in Timer /\ Clean(s)
             /\ s.timeouts[SCREEN_OFF] = ms /\ Left(s, SCREEN_OFF) = ms
             /\ ~T!Registered(s, LOCK) /\ Left(s, LOCK) = None
<1> DEFINE t1 == T!Remove(t, LOCK)
           t2 == T!SetTimeout(t1, SCREEN_OFF, ms)
           t3 == T!SetTimeout(t2, SHUTDOWN, Autoshutdown)
           t4 == T!Remove(t2, SHUTDOWN)
<1>1. ReloadSettings(t, ms, off) = IF off THEN t3 ELSE t4
  BY Zenon DEF ReloadSettings
<1>2. t1 \in Timer /\ Clean(t1) /\ t1.timeouts[LOCK] = None
  <2>1. t1 \in Timer /\ Clean(t1) /\ t1.timeouts = [t.timeouts EXCEPT ![LOCK] = None]
    BY Removing, Zenon
  <2> HIDE DEF t1
  <2> QED
    BY <2>1 DEF Timer
<1> HIDE DEF t1
<1>3. /\ t2 \in Timer /\ Clean(t2)
      /\ t2.timeouts[SCREEN_OFF] = ms /\ t2.timeouts[LOCK] = None
      /\ Left(t2, SCREEN_OFF) = ms /\ Left(t2, LOCK) = None
  <2>1. /\ t2 \in Timer /\ Clean(t2) /\ t2.timeouts = [t1.timeouts EXCEPT ![SCREEN_OFF] = ms]
        /\ \A d \in Callbacks : Left(t2, d) = t2.timeouts[d]
    BY <1>2, Setting
  <2> HIDE DEF t2
  <2> QED
    BY <1>2, <2>1 DEF Timer
<1> HIDE DEF t2
<1>4. /\ t3 \in Timer /\ Clean(t3)
      /\ t3.timeouts[SCREEN_OFF] = ms /\ t3.timeouts[LOCK] = None
      /\ Left(t3, SCREEN_OFF) = ms /\ Left(t3, LOCK) = None
  <2>1. /\ t3 \in Timer /\ Clean(t3)
        /\ t3.timeouts = [t2.timeouts EXCEPT ![SHUTDOWN] = Autoshutdown]
        /\ \A d \in Callbacks : Left(t3, d) = t3.timeouts[d]
    BY <1>3, DelaysNat, Setting
  <2> HIDE DEF t3
  <2> QED
    BY <1>3, <2>1 DEF Timer
<1>5. /\ t4 \in Timer /\ Clean(t4)
      /\ t4.timeouts[SCREEN_OFF] = ms /\ t4.timeouts[LOCK] = None
      /\ Left(t4, SCREEN_OFF) = ms /\ Left(t4, LOCK) = None
  <2>1. /\ t4 \in Timer /\ Clean(t4) /\ t4.timeouts = [t2.timeouts EXCEPT ![SHUTDOWN] = None]
        /\ \A d \in Callbacks \ {SHUTDOWN} : Left(t4, d) = Left(t2, d)
    BY <1>3, Removing, Zenon
  <2> HIDE DEF t4
  <2> QED
    BY <1>3, <2>1 DEF Timer
<1> HIDE DEF t3, t4
<1>6. CASE off
  BY <1>1, <1>4, <1>6 DEF T!Registered
<1>7. CASE ~off
  BY <1>1, <1>5, <1>7 DEF T!Registered
<1> QED
  BY <1>6, <1>7

\* A callback that runs was due, and its task was the current one.
LEMMA FiredIsDue ==
  ASSUME timer \in Timer, Clean(timer), NEW c \in Callbacks, Fired(c)
  PROVE  Left(timer, c) = 0
<1>1. PICK k \in T!Tasks : k[1] = c /\ T!Due(timer, k)
  BY DEF Fired
<1>2. k = T!TaskOf(timer, c)
  BY <1>1 DEF T!Due, Clean
<1> QED
  BY <1>1, <1>2 DEF T!Due, Left

\* The timer after each action.
LEMMA NextTimer == IInv /\ [Next]_vars => timer' \in Timer /\ Clean(timer')
<1> SUFFICES ASSUME IInv, [Next]_vars PROVE timer' \in Timer /\ Clean(timer')
  OBVIOUS
<1>a. timer \in Timer /\ Clean(timer)
  BY DEF IInv, TypeOK
<1>b. T!EmptyTimer \in Timer /\ Clean(T!EmptyTimer)
  BY EmptyTimers
<1>0. CASE Press
  BY <1>0, <1>a, Touching DEF Press
<1>1. CASE Click \/ Message
  <2>1. T!Touch(timer) \in Timer /\ Clean(T!Touch(timer))
    BY <1>a, Touching
  <2>2. Resume(T!Touch(timer))
    BY <1>1 DEF Click, Message
  <2>3. CASE backlight = "on"
    BY <2>1, <2>2, <2>3 DEF Resume
  <2>4. CASE backlight # "on"
    <3>1. PICK ms \in Nat : timer' = ReloadSettings(T!Touch(timer), ms, FALSE)
      BY <2>2, <2>4, DelaysNat, Zenon DEF Resume
    <3> QED
      BY <2>1, <3>1, Reloading, Zenon
  <2> QED
    BY <2>3, <2>4
<1>2. CASE Unlock \/ Plug
  BY <1>2, <1>a, DelaysNat, Reloading DEF Unlock, Plug
<1>3. CASE Answer \/ TurnOff
  BY <1>3, <1>a, DelaysNat, Clearing, Reloading DEF Answer, TurnOff
<1>4. CASE PowerOn
  BY <1>4, <1>b, DelaysNat, Reloading, Zenon DEF PowerOn
<1>5. CASE ScreenOff
  <2>1. Fire(SCREEN_OFF) \in Timer /\ Clean(Fire(SCREEN_OFF))
    BY <1>a, Firing DEF Fire
  <2>2. CASE timer' = Fire(SCREEN_OFF)
    BY <2>1, <2>2
  <2>3. CASE timer' = T!SetTimeout(Fire(SCREEN_OFF), LOCK, LowDelay)
    BY <2>1, <2>3, DelaysNat, Setting, Zenon
  <2> QED
    BY <1>5, <2>2, <2>3 DEF ScreenOff
<1>6. CASE LockDevice \/ Shutdown
  BY <1>6, <1>a, Firing DEF LockDevice, Shutdown, Fire
<1>7. CASE Tick
  BY <1>7, <1>a, Elapsing DEF Tick
<1>8. CASE FingerFails \/ LockInHandler \/ UNCHANGED vars
  BY <1>8, <1>a DEF FingerFails, LockInHandler, vars
<1> QED
  BY <1>0, <1>1, <1>2, <1>3, <1>4, <1>5, <1>6, <1>7, <1>8 DEF Next

\* Every other variable keeps its type.
LEMMA NextTypeOK == IInv /\ [Next]_vars => TypeOK'
<1> SUFFICES ASSUME IInv, [Next]_vars PROVE TypeOK'
  OBVIOUS
<1>a. TypeOK /\ timer' \in Timer
  BY NextTimer DEF IInv
<1>1. quiet' \in Nat /\ idle' \in Nat /\ failed_count' \in Nat
  <2>1. quiet' \in {0, quiet, quiet + 1} /\ idle' \in {0, idle, idle + 1}
    BY Zenon DEF Next, Press, Click, Message, Unlock, FingerFails, Answer, ScreenOff, LockDevice,
       LockInHandler, Shutdown, TurnOff, PowerOn, Plug, Tick, Later, Fired, Awake, Active, vars
  <2>2. failed_count' \in {0, failed_count, failed_count + 1}
    BY Zenon DEF Next, Press, Click, Message, Unlock, FingerFails, Answer, ScreenOff, LockDevice,
       LockInHandler, Shutdown, TurnOff, PowerOn, Plug, Tick, Fired, vars
  <2> QED
    BY <1>a, <2>1, <2>2 DEF TypeOK
<1>2. CASE Press \/ Click \/ Message
  BY <1>2, <1>a, <1>1, Zenon DEF TypeOK, Press, Click, Message, Resume, lock
<1>3. CASE Unlock \/ Answer
  BY <1>3, <1>a, <1>1, Zenon DEF TypeOK, Unlock, Answer, BootHandler
<1>4. CASE ScreenOff \/ LockDevice \/ Shutdown
  BY <1>4, <1>a, <1>1, Zenon DEF TypeOK, ScreenOff, LockDevice, Locked, Shutdown, Fired, lock
<1>5. CASE TurnOff \/ PowerOn
  BY <1>5, <1>a, <1>1, Zenon DEF TypeOK, TurnOff, PowerOn, BootHandler
<1>6. CASE Plug \/ Tick \/ UNCHANGED vars
  BY <1>6, <1>a, <1>1 DEF TypeOK, Plug, Tick, lock, vars
<1>7. CASE LockInHandler
  BY <1>7, <1>a, <1>1, Zenon DEF TypeOK, LockInHandler, Locked
<1>8. CASE FingerFails
  <2>1. pin_unlocked' \in BOOLEAN
    BY <1>8 DEF FingerFails
  <2> QED
    BY <1>8, <1>a, <1>1, <2>1, Zenon DEF TypeOK, FingerFails
<1> QED
  BY <1>2, <1>3, <1>4, <1>5, <1>6, <1>7, <1>8 DEF Next

\* Locking ends what is running, and unlocking comes before it.
LEMMA NextGate == IInv /\ [Next]_vars => Gate'
<1> SUFFICES ASSUME IInv, [Next]_vars PROVE Gate'
  OBVIOUS
<1> USE DEF IInv, TypeOK, Gate, DeviceUnlocked, Available
<1>1. CASE Press \/ Click \/ Message
  BY <1>1 DEF Press, Click, Message, lock
<1>2. CASE Unlock
  BY <1>2 DEF Unlock
<1>3. CASE Answer \/ TurnOff
  BY <1>3 DEF Answer, TurnOff, BootHandler
<1>4. CASE LockDevice \/ LockInHandler
  BY <1>4 DEF LockDevice, LockInHandler, Locked, Fired, lock
<1>5. CASE ScreenOff \/ Shutdown
  BY <1>5 DEF ScreenOff, Shutdown, Fired, lock
<1>6. CASE PowerOn
  BY <1>6 DEF PowerOn
<1>7. CASE Plug \/ Tick \/ UNCHANGED vars
  BY <1>7 DEF Plug, Tick, lock, vars
<1>8. CASE FingerFails
  BY <1>8 DEF FingerFails
<1> QED
  BY <1>1, <1>2, <1>3, <1>4, <1>5, <1>6, <1>7, <1>8 DEF Next

\* A reload with the long timeout keeps the delays, at whatever time.
LEMMA ReloadedDelays ==
  ASSUME NEW t \in Timer, Clean(t), NEW off, NEW q \in Nat, idle' = q,
         timer' = ReloadSettings(t, Autolock, off)
  PROVE  Delays'
<1>1. /\ timer'.timeouts[SCREEN_OFF] = Autolock /\ Left(timer', SCREEN_OFF) = Autolock
      /\ ~T!Registered(timer', LOCK) /\ Left(timer', LOCK) = None
  BY DelaysNat, Reloading
<1>2. q + Autolock >= Autolock
  BY DelaysNat
<1> QED
  BY <1>1, <1>2 DEF Delays

\* The delays are kept.
LEMMA NextDelays == IInv /\ [Next]_vars => Delays'
<1> SUFFICES ASSUME IInv, [Next]_vars PROVE Delays'
  OBVIOUS
<1>a. /\ timer \in Timer /\ Clean(timer) /\ Delays
      /\ quiet \in Nat /\ quiet' \in Nat /\ idle \in Nat /\ idle' \in Nat
  BY NextTypeOK DEF IInv, TypeOK
<1>b. /\ idle' + Autolock >= Autolock /\ quiet' + LowDelay >= LowDelay
      /\ idle >= Autolock => idle + LowDelay >= Autolock + LowDelay
  <2> SUFFICES ASSUME NEW i \in Nat, NEW j \in Nat, NEW q \in Nat
               PROVE  /\ i + Autolock >= Autolock /\ q + LowDelay >= LowDelay
                      /\ j >= Autolock => j + LowDelay >= Autolock + LowDelay
    BY <1>a
  <2> QED
    BY DelaysNat
<1>0. CASE Press
  <2>0. UNCHANGED <<pin_unlocked, backlight>> /\ idle' = (IF backlight = "on" THEN 0 ELSE idle)
    BY <1>0 DEF Press, lock
  <2>1. /\ timer'.timeouts = timer.timeouts
        /\ \A c \in Callbacks : Left(timer', c) = timer.timeouts[c]
    BY <1>0, <1>a, Touching DEF Press
  <2>2. CASE ~pin_unlocked
    BY <2>0, <2>2 DEF Delays
  <2>3. CASE pin_unlocked
    <3>1. /\ timer.timeouts[SCREEN_OFF] = Autolock
          /\ timer.timeouts[LOCK] # None =>
               backlight # "on" /\ timer.timeouts[LOCK] = LowDelay /\ idle >= Autolock
      BY <1>a, <2>3 DEF Delays, T!Registered
    <3> QED
      BY <1>b, <2>0, <2>1, <3>1 DEF Delays, T!Registered
  <2> QED
    BY <2>2, <2>3
<1>1. CASE Click \/ Message
  <2>0. Resume(T!Touch(timer)) /\ UNCHANGED pin_unlocked
    BY <1>1 DEF Click, Message, lock
  <2>1. /\ T!Touch(timer) \in Timer /\ Clean(T!Touch(timer))
        /\ T!Touch(timer).timeouts = timer.timeouts
        /\ \A c \in Callbacks : Left(T!Touch(timer), c) = timer.timeouts[c]
    BY <1>a, Touching
  <2>2. CASE ~pin_unlocked
    BY <2>0, <2>2 DEF Delays
  <2>3. CASE pin_unlocked /\ backlight = "on"
    <3>1. timer' = T!Touch(timer) /\ UNCHANGED backlight
      BY <2>0, <2>3 DEF Resume
    <3>2. timer.timeouts[SCREEN_OFF] = Autolock /\ timer.timeouts[LOCK] = None
      BY <1>a, <2>3 DEF Delays, T!Registered
    <3>3. /\ timer'.timeouts[SCREEN_OFF] = Autolock /\ timer'.timeouts[LOCK] = None
          /\ Left(timer', SCREEN_OFF) = Autolock /\ Left(timer', LOCK) = None
      BY <2>1, <3>1, <3>2
    <3> QED
      BY <1>b, <3>3 DEF Delays, T!Registered
  <2>4. CASE pin_unlocked /\ backlight # "on"
    <3>1. timer' = ReloadSettings(T!Touch(timer), Autolock, FALSE)
      BY <2>0, <2>4 DEF Resume
    <3> QED
      BY <1>a, <2>1, <3>1, ReloadedDelays, Zenon
  <2> QED
    BY <2>2, <2>3, <2>4
<1>2. CASE Unlock \/ Plug
  BY <1>2, <1>a, ReloadedDelays DEF Unlock, Plug
<1>3. CASE Answer \/ TurnOff
  BY <1>3, <1>a, Clearing, ReloadedDelays DEF Answer, TurnOff
<1>4. CASE PowerOn
  BY <1>4 DEF PowerOn, Delays
<1>5. CASE ScreenOff
  <2>0. Fired(SCREEN_OFF) /\ UNCHANGED <<pin_unlocked, quiet, idle>>
    BY <1>5 DEF ScreenOff, Fired, lock
  <2> DEFINE f == Fire(SCREEN_OFF)
  <2>1. /\ f \in Timer /\ Clean(f) /\ f.timeouts = timer.timeouts
        /\ Left(f, SCREEN_OFF) = None /\ Left(f, LOCK) = Left(timer, LOCK)
    BY <1>a, Firing DEF Fire
  <2>2. CASE ~pin_unlocked
    BY <2>0, <2>2 DEF Delays
  <2>3. CASE pin_unlocked /\ backlight = "off"
    <3>1. timer' = f /\ UNCHANGED backlight
      BY <1>5, <2>3 DEF ScreenOff
    <3> HIDE DEF f
    <3> QED
      BY <1>a, <2>0, <2>1, <2>3, <3>1 DEF Delays, T!Registered
  <2>4. CASE pin_unlocked /\ backlight # "off"
    <3>1. timer' = T!SetTimeout(f, LOCK, LowDelay) /\ backlight' = "low"
      BY <1>5, <2>4 DEF ScreenOff
    <3> HIDE DEF f
    <3>2. idle >= Autolock /\ timer.timeouts[SCREEN_OFF] = Autolock
      <4>1. Left(timer, SCREEN_OFF) = 0
        BY <1>a, <2>0, FiredIsDue
      <4>2. 0 # None
        OBVIOUS
      <4> QED
        BY <1>a, <2>4, <4>1, <4>2 DEF Delays
    <3>3. /\ timer' \in Timer /\ timer'.timeouts = [f.timeouts EXCEPT ![LOCK] = LowDelay]
          /\ \A d \in Callbacks : Left(timer', d) = timer'.timeouts[d]
      BY <2>1, <3>1, DelaysNat, Setting
    <3>4. timer'.timeouts[SCREEN_OFF] = Autolock /\ timer'.timeouts[LOCK] = LowDelay
      BY <1>a, <2>1, <3>2, <3>3 DEF Timer
    <3>5. Left(timer', SCREEN_OFF) = Autolock /\ Left(timer', LOCK) = LowDelay
      BY <3>3, <3>4
    <3>6. /\ idle' >= Autolock /\ idle' + Autolock >= Autolock
          /\ idle' + LowDelay >= Autolock + LowDelay /\ quiet' + LowDelay >= LowDelay
      BY <1>a, <2>0, <3>2, DelaysNat
    <3> QED
      BY <3>1, <3>4, <3>5, <3>6 DEF Delays
  <2> QED
    BY <2>2, <2>3, <2>4
<1>6. CASE LockDevice
  <2>1. /\ timer'.timeouts = timer.timeouts /\ Left(timer', LOCK) = None
        /\ Left(timer', SCREEN_OFF) = Left(timer, SCREEN_OFF)
    BY <1>6, <1>a, Firing DEF LockDevice, Fire
  <2>2. UNCHANGED <<quiet, idle, backlight>> /\ (pin_unlocked' => pin_unlocked)
    BY <1>6 DEF LockDevice, Locked, Fired, lock
  <2> QED
    BY <1>a, <2>1, <2>2 DEF Delays, T!Registered
<1>7. CASE Shutdown
  <2>1. /\ timer'.timeouts = timer.timeouts /\ Left(timer', LOCK) = Left(timer, LOCK)
        /\ Left(timer', SCREEN_OFF) = Left(timer, SCREEN_OFF)
    BY <1>7, <1>a, Firing DEF Shutdown, Fire
  <2>2. UNCHANGED <<quiet, idle, backlight, pin_unlocked>>
    BY <1>7 DEF Shutdown, Fired, lock
  <2> QED
    BY <1>a, <2>1, <2>2 DEF Delays, T!Registered
<1>8. CASE Tick
  <2>0. UNCHANGED <<pin_unlocked, backlight>>
    BY <1>8 DEF Tick, lock
  <2>1. /\ timer' \in Timer /\ timer'.timeouts = timer.timeouts
        /\ \A c \in Callbacks :
             \/ Left(timer', c) = Left(timer, c)
             \/ Left(timer, c) \in Nat /\ Left(timer', c) = Left(timer, c) - 1
    BY <1>8, <1>a, Elapsing DEF Tick
  <2>2. \A c \in Callbacks : Left(timer', c) \in Nat \cup {None}
    BY <2>1, TaskPairs DEF Timer, Left, T!TaskOf
  <2>3. /\ quiet' = quiet + 1 \/ (quiet' = quiet /\ quiet >= Autolock + LowDelay)
        /\ idle' = idle + 1 \/ (idle' = idle /\ idle >= Autolock + LowDelay)
    BY <1>8, <1>a, DelaysNat DEF Tick, Later
  <2>4. \A c \in Callbacks, n \in {Autolock, LowDelay, Autolock + LowDelay} :
          Left(timer, c) # None /\ Left(timer', c) # None =>
            /\ idle + Left(timer, c) >= n => idle' + Left(timer', c) >= n
            /\ quiet + Left(timer, c) >= n => quiet' + Left(timer', c) >= n
    <3> SUFFICES ASSUME NEW c \in Callbacks, NEW n \in {Autolock, LowDelay, Autolock + LowDelay},
                        Left(timer, c) # None, Left(timer', c) # None
                 PROVE  /\ idle + Left(timer, c) >= n => idle' + Left(timer', c) >= n
                        /\ quiet + Left(timer, c) >= n => quiet' + Left(timer', c) >= n
      OBVIOUS
    <3>1. n \in Nat /\ n <= Autolock + LowDelay /\ Left(timer', c) \in Nat
      BY <2>2, DelaysNat
    <3>2. CASE Left(timer', c) = Left(timer, c)
      BY <1>a, <2>3, <3>1, <3>2, DelaysNat
    <3>3. CASE Left(timer, c) \in Nat /\ Left(timer', c) = Left(timer, c) - 1
      BY <1>a, <2>3, <3>1, <3>3, DelaysNat
    <3> QED
      BY <2>1, <3>2, <3>3
  <2>5. \A c \in Callbacks : Left(timer', c) # None => Left(timer, c) # None
    BY <2>1
  <2>6. idle >= Autolock => idle' >= Autolock
    BY <1>a, <2>3, DelaysNat
  <2> QED
    BY <1>a, <2>0, <2>1, <2>4, <2>5, <2>6 DEF Delays, T!Registered
<1>9. CASE FingerFails \/ LockInHandler \/ UNCHANGED vars
  <2>1. UNCHANGED <<timer, quiet, idle, backlight>> /\ (pin_unlocked' => pin_unlocked)
    BY <1>9 DEF FingerFails, Available, LockInHandler, Locked, vars, lock
  <2> QED
    BY <1>a, <2>1 DEF Delays
<1> QED
  BY <1>0, <1>1, <1>2, <1>3, <1>4, <1>5, <1>6, <1>7, <1>8, <1>9 DEF Next

\* The device starts locked, with the screen's timeout running.
LEMMA InitIInv == Init => IInv
<1> SUFFICES ASSUME Init PROVE IInv
  OBVIOUS
<1>1. timer \in Timer /\ Clean(timer)
  BY EmptyTimers, DelaysNat, Reloading, Zenon DEF Init
<1>2. TypeOK
  BY <1>1, Zenon DEF Init, TypeOK
<1>3. Gate /\ Delays
  BY Zenon DEF Init, Gate, Delays
<1> QED
  BY <1>1, <1>2, <1>3 DEF IInv

\* The invariant, over any activity, any delays of callbacks and any restarts.
THEOREM Invariance == Spec => []IInv
<1>1. IInv /\ [Next]_vars => IInv'
  BY NextTimer, NextTypeOK, NextGate, NextDelays DEF IInv
<1> QED
  BY <1>1, InitIInv, PTL DEF Spec

\* A handler that needs an unlocked device never runs on a locked one, unless it
\* has locked the device itself: the timer's lock closes it, and a request that
\* comes to a locked device waits for the unlock.
THEOREM NothingRunsLocked == Spec => []RunningOnlyUnlocked
<1>1. IInv => RunningOnlyUnlocked
  BY DEF IInv, Gate, RunningOnlyUnlocked
<1> QED
  BY <1>1, Invariance, PTL

\* set(), remove(), touch() and the callbacks leave no stale task scheduled.
THEOREM NoStaleTask == Spec => []OnlyCurrentScheduled
<1>1. IInv => OnlyCurrentScheduled
  BY DEF IInv, Clean, OnlyCurrentScheduled
<1> QED
  BY <1>1, Invariance, PTL

\* The timer locks the device only after the whole delay since the last activity
\* at full brightness, and the delay at low brightness since the last touch.
THEOREM LocksNoEarlier == Spec => LockedAfterQuiet
<1> DEFINE Late == idle >= Autolock + LowDelay /\ quiet >= LowDelay
<1>1. IInv /\ Next =>
        (DeviceUnlocked /\ ~DeviceUnlocked' /\ power /\ power' /\ request' # "self" => Late)
  <2> SUFFICES ASSUME IInv, Next, DeviceUnlocked, ~DeviceUnlocked', power, power',
                      request' # "self"
               PROVE  Late
    OBVIOUS
  <2>1. CASE LockDevice
    <3>1. pin_unlocked
      BY DEF DeviceUnlocked, Available
    <3>2. Left(timer, LOCK) = 0 /\ 0 # None
      BY <2>1, FiredIsDue DEF IInv, TypeOK, LockDevice
    <3> QED
      BY <3>1, <3>2, DelaysNat DEF IInv, TypeOK, Delays
  <2>2. CASE Unlock
    BY <2>2 DEF Unlock, DeviceUnlocked, Available
  <2>3. CASE FingerFails \/ LockInHandler
    BY <2>3 DEF FingerFails, LockInHandler, DeviceUnlocked
  <2>4. CASE Press \/ Click \/ Message \/ Answer \/ ScreenOff \/ Shutdown \/ TurnOff \/ PowerOn
          \/ Plug \/ Tick
    <3>1. UNCHANGED <<pin_unlocked, fp_unlocked, finger, failed_count>>
      BY <2>4, Zenon DEF Press, Click, Message, Answer, ScreenOff, Shutdown, TurnOff, PowerOn, Plug,
         Tick, Fired, lock
    <3> QED
      BY <3>1 DEF DeviceUnlocked, Available
  <2> QED
    BY <2>1, <2>2, <2>3, <2>4 DEF Next
<1> QED
  BY <1>1, Invariance, PTL DEF Spec, LockedAfterQuiet
=============================================================================
