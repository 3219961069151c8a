---------------------------- MODULE PinLogProofs ----------------------------
(***************************************************************************)
(* Proofs about the PIN logs, for logs of any length, any number of tries  *)
(* that a word can hold, any set of PINs and any number of power losses.   *)
(***************************************************************************)
EXTENDS PinLog, TLAPS

Log  == [Word -> 0..Slots]
Last == Words - 1

Unlocked  == {"reset", "edek", "flag", "allocate", "wipe_code"}
Locations == {"idle", "increase", "check"} \cup Unlocked

\* The counters and the loop variable.
Numbers ==
  /\ ctr \in Nat /\ i \in 0..Words
  /\ wrong \in Nat /\ since \in Nat /\ losses \in Nat

TypeOK ==
  /\ entry \in Log /\ success \in Log
  /\ edek \in Pins /\ has_pin \in BOOLEAN /\ wipe_code \in Pins \cup {WIPE_CODE_EMPTY, Torn}
  /\ unlocked \in BOOLEAN /\ lost_init \in BOOLEAN /\ lost_flag \in BOOLEAN
  /\ pc \in Locations /\ call \in Calls
  /\ Numbers

\* Word c is the one to write next: those before it are full, those after it unused.
IsCurrent(e, c) ==
  e[c] # Slots /\ \A v \in Word : (v < c => e[v] = Slots) /\ (v > c => e[v] = 0)

\* The shape of the logs.  A word of the success log is written only when those
\* before it are copied.
Shape ==
  /\ Exhausted(entry) \/ \E c \in Word : IsCurrent(entry, c)
  /\ \A w \in Word : success[w] <= entry[w]
  /\ \A v, w \in Word : v < w /\ success[w] # 0 => success[v] = Slots
  /\ pc = "reset" => \A v \in Word : v < i => success[v] = entry[v]

\* The counter lies between the wrong PINs and the attempts, and a running call
\* knows it.
Counted ==
  /\ ~Exhausted(entry) => wrong <= Fails(entry, success) /\ Fails(entry, success) <= since
  /\ pc = "increase" => ~Exhausted(entry) /\ ctr = Fails(entry, success)
  /\ pc = "check" /\ ~Exhausted(entry) => ctr + 1 = Fails(entry, success)
  /\ pc \in {"increase", "check"} => ctr < PIN_MAX_TRIES /\ wrong <= ctr
  /\ pc \in Unlocked => wrong = 0 /\ ~Exhausted(entry)

\* The log has room, and the success log does not reach its last word, unless
\* power was lost before the log was replaced.
Room ==
  /\ ~lost_init => entry[Last] # Slots
  /\ ~lost_init /\ success[Last] # 0 => pc = "reset" /\ i = Words

\* The running call knows the PIN.
Known ==
  /\ edek # wipe_code
  /\ call.op = "wipe" /\ pc \in {"increase", "check", "reset", "allocate", "wipe_code"}
       => call.pin = PIN_EMPTY \/ call.pin # call.new
  /\ pc \in {"reset", "allocate", "wipe_code"} => call.pin = edek
  /\ pc \in {"allocate", "wipe_code"} => call.op = "wipe"
  /\ pc = "edek" => call.new # wipe_code
  /\ pc = "flag" => call.new = edek

IInv == TypeOK /\ Shape /\ Counted /\ Known

-----------------------------------------------------------------------------
USE LogAssumption, PinAssumption DEF Unlocked, Locations

\* The logs after a wipe, and after pin_logs_init.
LEMMA BlankLog ==
  /\ Blank \in Log /\ IsCurrent(Blank, 0) /\ 0 \in Word
  /\ \A w \in Word : Blank[w] = 0
  BY DEF Blank, Log, Word, IsCurrent

\* Current finds the word to write.
LEMMA CurrentWord ==
  ASSUME NEW e \in Log, NEW c \in Word, IsCurrent(e, c)
  PROVE  Current(e) = c /\ ~Exhausted(e)
<1>1. \A w \in Word : (e[w] # Slots /\ \A v \in Word : v < w => e[v] = Slots) <=> w = c
  BY DEF IsCurrent, Word, Log
<1> QED
  BY <1>1 DEF Current, Exhausted, IsCurrent

\* The counter adds up the current word and the one before it, if any.
LEMMA FailsOf ==
  ASSUME NEW e \in Log, NEW s \in Log, NEW c \in Word, IsCurrent(e, c)
  PROVE  /\ c = 0 => Fails(e, s) = (e[0] - s[0]) + (e[1] - s[1])
         /\ c # 0 => Fails(e, s) = (e[c - 1] - s[c - 1]) + (e[c] - s[c])
  BY CurrentWord DEF Fails, Word

\* The word that storage_pin_fails_increase writes.
LEMMA IncreasedLog ==
  ASSUME NEW e \in Log, NEW c \in Word, IsCurrent(e, c)
  PROVE  /\ Increased(e) \in Log
         /\ Increased(e)[c] = e[c] + 1
         /\ \A w \in Word \ {c} : Increased(e)[w] = e[w]
         /\ e[c] + 1 # Slots => IsCurrent(Increased(e), c)
         /\ e[c] + 1 = Slots /\ c + 1 \in Word => IsCurrent(Increased(e), c + 1)
         /\ e[c] + 1 = Slots /\ c + 1 \notin Word => Exhausted(Increased(e))
<1>1. Increased(e) = [e EXCEPT ![c] = e[c] + 1]
  BY CurrentWord, Zenon DEF Increased
<1>2. e[c] + 1 \in 0..Slots
  BY DEF IsCurrent, Log
<1>3. /\ Increased(e) \in Log /\ Increased(e)[c] = e[c] + 1
      /\ \A w \in Word \ {c} : Increased(e)[w] = e[w]
  BY <1>1, <1>2 DEF Log
<1>4. e[c] + 1 # Slots => IsCurrent(Increased(e), c)
  BY <1>3 DEF IsCurrent, Word
<1>5. e[c] + 1 = Slots /\ c + 1 \in Word => IsCurrent(Increased(e), c + 1)
  BY <1>3 DEF IsCurrent, Word
<1>6. e[c] + 1 = Slots /\ c + 1 \notin Word => Exhausted(Increased(e))
  BY <1>3 DEF IsCurrent, Exhausted, Word
<1> QED
  BY <1>3, <1>4, <1>5, <1>6

\* An attempt adds one to the counter even where it moves on to the next word,
\* as long as a word has room for all tries.
LEMMA FailsIncreased ==
  ASSUME NEW e \in Log, NEW s \in Log, NEW c \in Word, IsCurrent(e, c),
         \A w \in Word : s[w] <= e[w],
         \A v, w \in Word : v < w /\ s[w] # 0 => s[v] = Slots,
         Fails(e, s) < Slots, ~Exhausted(Increased(e))
  PROVE  Fails(Increased(e), s) = Fails(e, s) + 1
<1> DEFINE f == Increased(e)
<1>1. /\ f \in Log /\ f[c] = e[c] + 1
      /\ \A w \in Word \ {c} : f[w] = e[w]
  BY IncreasedLog
<1>2. CASE e[c] + 1 # Slots
  <2>1. IsCurrent(f, c)
    BY <1>2, IncreasedLog
  <2> HIDE DEF f
  <2>2. CASE c = 0
    <3>1. Fails(e, s) = (e[0] - s[0]) + (e[1] - s[1])
      BY <2>2, FailsOf
    <3>2. Fails(f, s) = (f[0] - s[0]) + (f[1] - s[1])
      BY <1>1, <2>1, <2>2, FailsOf
    <3>3. 0 \in Word /\ 1 \in Word \ {c} /\ f[0] = e[0] + 1 /\ f[1] = e[1]
      BY <1>1, <2>2 DEF Word
    <3>4. e[0] \in Nat /\ e[1] \in Nat /\ s[0] \in Nat /\ s[1] \in Nat
      BY <3>3 DEF Log
    <3> QED
      BY <3>1, <3>2, <3>3, <3>4 DEF f
  <2>3. CASE c # 0
    <3>1. Fails(e, s) = (e[c - 1] - s[c - 1]) + (e[c] - s[c])
      BY <2>3, FailsOf
    <3>2. Fails(f, s) = (f[c - 1] - s[c - 1]) + (f[c] - s[c])
      BY <1>1, <2>1, <2>3, FailsOf
    <3>3. c - 1 \in Word \ {c} /\ f[c - 1] = e[c - 1]
      BY <1>1, <2>3 DEF Word
    <3> QED
      BY <1>1, <3>1, <3>2, <3>3 DEF Log, f
  <2> QED
    BY <2>2, <2>3
<1>3. CASE e[c] + 1 = Slots
  <2>1. c + 1 \in Word /\ IsCurrent(f, c + 1)
    BY <1>3, IncreasedLog
  <2>2. e[c + 1] = 0 /\ s[c + 1] = 0
    BY <2>1 DEF IsCurrent, Word, Log
  <2> HIDE DEF f
  <2>3. Fails(f, s) = Slots - s[c]
    <3>1. Fails(f, s) = (f[c] - s[c]) + (f[c + 1] - s[c + 1])
      BY <1>1, <2>1, FailsOf DEF Word
    <3>2. c + 1 \in Word \ {c} /\ f[c + 1] = 0
      BY <1>1, <2>1, <2>2 DEF Word
    <3>3. s[c] \in Nat
      BY DEF Log
    <3> QED
      BY <1>1, <1>3, <2>2, <3>1, <3>2, <3>3
  <2>4. CASE c = 0
    <3>1. Fails(e, s) = (e[0] - s[0]) + (e[1] - s[1])
      BY <2>4, FailsOf
    <3>2. e[0] + 1 = Slots /\ e[1] = 0 /\ s[1] = 0 /\ Fails(f, s) = Slots - s[0]
      BY <1>3, <2>2, <2>3, <2>4
    <3>3. e[0] \in Nat /\ s[0] \in Nat
      BY <2>4 DEF Log
    <3> QED
      BY <3>1, <3>2, <3>3 DEF f
  <2>5. CASE c # 0
    <3>1. Fails(e, s) = (Slots - s[c - 1]) + (e[c] - s[c])
      BY <2>5, FailsOf DEF IsCurrent, Word
    <3>2. c - 1 \in Word /\ (s[c] # 0 => s[c - 1] = Slots)
      BY <2>5 DEF Word
    <3> QED
      BY <1>3, <2>3, <3>1, <3>2 DEF Log, f
  <2> QED
    BY <2>4, <2>5
<1> QED
  BY <1>2, <1>3

\* The checks of pin_get_fails only ever find an exhausted log.
LEMMA WellFormedLogs ==
  ASSUME entry \in Log, Shape PROVE WellFormed(entry, success) <=> ~Exhausted(entry)
<1> SUFFICES ASSUME ~Exhausted(entry) PROVE WellFormed(entry, success)
  BY DEF WellFormed
<1>1. PICK c \in Word : IsCurrent(entry, c)
  BY DEF Shape
<1>2. Current(entry) = c
  BY <1>1, CurrentWord
<1> QED
  BY <1>1, <1>2 DEF WellFormed, Shape, IsCurrent

\* The counter is a natural number.
LEMMA FailsNat ==
  ASSUME NEW e \in Log, NEW s \in Log, NEW c \in Word, IsCurrent(e, c),
         \A w \in Word : s[w] <= e[w]
  PROVE  Fails(e, s) \in Nat
<1>1. CASE c = 0
  <2>1. 0 \in Word /\ 1 \in Word
    BY DEF Word
  <2> QED
    BY <1>1, <2>1, FailsOf DEF Log
<1>2. CASE c # 0
  <2>1. c - 1 \in Word
    BY <1>2 DEF Word
  <2> QED
    BY <1>2, <2>1, FailsOf DEF Log
<1> QED
  BY <1>1, <1>2

\* A wipe keeps the types.
LEMMA WipedType ==
  ASSUME TypeOK, NEW how, Wiped(how) PROVE TypeOK'
<1>1. Numbers'
  BY DEF Wiped, TypeOK, Numbers
<1> QED
  BY <1>1, BlankLog, Zenon DEF Wiped, TypeOK

\* handle_fault keeps the types.
LEMMA HandleFaultType ==
  ASSUME TypeOK, Shape, HandleFault PROVE TypeOK'
<1>1. CASE Wiped("fault")
  BY <1>1, WipedType
<1>2. CASE ~Wiped("fault")
  <2>1. ~Exhausted(entry) /\ entry' = Increased(entry)
    BY <1>2 DEF HandleFault, WellFormed
  <2>2. entry' \in Log
    BY <2>1, IncreasedLog DEF TypeOK, Shape
  <2>3. Numbers'
    BY <1>2 DEF HandleFault, TypeOK, Numbers
  <2> QED
    BY <1>2, <2>2, <2>3, Zenon DEF HandleFault, TypeOK
<1> QED
  BY <1>1, <1>2

\* Every variable keeps its type.
LEMMA NextTypeOK == IInv /\ [Next]_vars => TypeOK'
<1> SUFFICES ASSUME IInv, [Next]_vars PROVE TypeOK'
  OBVIOUS
<1>a. TypeOK /\ Numbers /\ Shape /\ Counted
  BY DEF IInv, TypeOK
<1> USE DEF flash, history, Return
<1>1. ASSUME NEW c \in Calls, Begin(c) PROVE TypeOK'
  <2>1. CASE HandleFault
    BY <1>a, <2>1, HandleFaultType
  <2>2. CASE Wiped("wipe_code") \/ Wiped("max_tries")
    BY <1>a, <2>2, WipedType
  <2>3. CASE ~HandleFault /\ ~Wiped("wipe_code") /\ ~Wiped("max_tries")
    <3>1. ~Exhausted(entry) /\ ctr' = Fails(entry, success) /\ call' = c /\ pc' = "increase"
          /\ UNCHANGED <<flash, i, unlocked, history>>
      BY <1>1, <2>3 DEF Begin, WellFormed
    <3>2. Fails(entry, success) \in Nat
      BY <1>a, <3>1, FailsNat DEF Shape, TypeOK
    <3>3. Numbers'
      BY <1>a, <3>1, <3>2 DEF Numbers
    <3> QED
      BY <1>a, <3>1, <3>3 DEF TypeOK
  <2> QED
    BY <2>1, <2>2, <2>3
<1>2. ASSUME Increase PROVE TypeOK'
  <2>1. entry' \in Log
    BY <1>2, <1>a, IncreasedLog DEF Increase, TypeOK, Shape, Counted
  <2>2. Numbers'
    BY <1>2, <1>a DEF Increase, Numbers
  <2> QED
    BY <1>2, <1>a, <2>1, <2>2 DEF Increase, TypeOK
<1>3. ASSUME Check PROVE TypeOK'
  <2>1. CASE HandleFault
    BY <1>a, <2>1, HandleFaultType
  <2>2. CASE Wiped("max_tries")
    BY <1>a, <2>2, WipedType
  <2>3. CASE ~HandleFault /\ ~Wiped("max_tries")
    <3>1. Numbers'
      BY <1>3, <1>a, <2>3 DEF Check, Numbers
    <3> QED
      BY <1>3, <1>a, <2>3, <3>1, Zenon DEF Check, TypeOK
  <2> QED
    BY <2>1, <2>2, <2>3
<1>4. ASSUME Reset PROVE TypeOK'
  <2>1. entry' \in Log /\ success' \in Log
    <3>1. CASE i < Words
      <4>1. i \in Word /\ entry[i] \in 0..Slots
        BY <1>a, <3>1 DEF TypeOK, Numbers, Log, Word
      <4>2. [success EXCEPT ![i] = entry[i]] \in Log
        BY <1>a, <4>1 DEF TypeOK, Log
      <4> QED
        BY <1>4, <1>a, <3>1, <4>2 DEF Reset, TypeOK, Numbers
    <3>2. CASE ~(i < Words)
      BY <1>4, <1>a, <3>2, BlankLog DEF Reset, TypeOK
    <3> QED
      BY <3>1, <3>2
  <2>2. Numbers'
    BY <1>4, <1>a DEF Reset, Numbers
  <2> QED
    BY <1>4, <1>a, <2>1, <2>2 DEF Reset, AfterUnlock, TypeOK
<1>5. ASSUME SetEdek \/ SetFlag PROVE TypeOK'
  BY <1>5, <1>a, Zenon DEF SetEdek, SetFlag, TypeOK, Numbers, Calls
<1>6. ASSUME AllocateWipeCode \/ WriteWipeCode \/ Lock PROVE TypeOK'
  BY <1>6, <1>a, Zenon DEF AllocateWipeCode, WriteWipeCode, Lock, TypeOK, Numbers, Calls
<1>7. ASSUME PowerLoss PROVE TypeOK'
  <2>1. success' \in Log
    <3>1. CASE pc = "reset" /\ i < Words /\ entry[i] # 0
      <4>1. PICK n \in success[i]..entry[i] : success' = [success EXCEPT ![i] = n]
        BY <1>7, <3>1 DEF PowerLoss
      <4>2. i \in Word
        BY <1>a, <3>1 DEF Numbers, Word
      <4>3. n \in 0..Slots
        BY <1>a, <4>1, <4>2 DEF TypeOK, Log
      <4> QED
        BY <1>a, <4>1, <4>3, Zenon DEF TypeOK, Log
    <3>2. CASE ~(pc = "reset" /\ i < Words /\ entry[i] # 0)
      BY <1>7, <1>a, <3>2 DEF PowerLoss, TypeOK
    <3> QED
      BY <3>1, <3>2
  <2>2. Numbers'
    BY <1>7, <1>a DEF PowerLoss, Numbers
  <2> QED
    BY <1>7, <1>a, <2>1, <2>2, Zenon DEF PowerLoss, TypeOK
<1>8. ASSUME UNCHANGED vars PROVE TypeOK'
  BY <1>8, <1>a DEF vars, TypeOK, Numbers
<1> QED
  BY <1>1, <1>2, <1>3, <1>4, <1>5, <1>6, <1>7, <1>8 DEF Next

\* The logs after a wipe have their shape and count nothing.
LEMMA WipedRest ==
  ASSUME NEW how, Wiped(how) PROVE Shape' /\ Counted' /\ Known'
<1>1. entry' = Blank /\ success' = Blank
  BY DEF Wiped
<1>2. Shape'
  BY <1>1, BlankLog DEF Wiped, Shape
<1>3. Fails(entry', success') = 0 /\ ~Exhausted(entry')
  BY <1>1, BlankLog, CurrentWord, FailsOf DEF Word
<1>4. Counted'
  BY <1>3 DEF Wiped, Counted
<1>5. Known'
  BY DEF Wiped, Known
<1> QED
  BY <1>2, <1>4, <1>5

\* handle_fault counts the fault or wipes.
LEMMA HandleFaultRest ==
  ASSUME IInv, HandleFault, pc \in {"idle", "check"} PROVE Shape' /\ Counted' /\ Known'
<1>1. CASE Wiped("fault")
  BY <1>1, WipedRest
<1>2. CASE ~Wiped("fault")
  <2>1. /\ entry' = Increased(entry) /\ ~Exhausted(entry) /\ ~Exhausted(entry')
        /\ Fails(entry', success) = Fails(entry, success) + 1
        /\ pc' = "idle" /\ since' = since + 1
        /\ UNCHANGED <<success, edek, has_pin, wipe_code, call, wrong, losses>>
    BY <1>2 DEF HandleFault, WellFormed
  <2>2. PICK c \in Word : IsCurrent(entry, c)
    BY <2>1 DEF IInv, Shape
  <2>3. entry' \in Log /\ \A w \in Word : entry[w] <= entry'[w]
    BY <2>1, <2>2, IncreasedLog DEF IInv, TypeOK, Log
  <2>4. Shape'
    <3>1. \E d \in Word : IsCurrent(entry', d)
      BY <2>1, <2>2, IncreasedLog DEF IInv, TypeOK
    <3>2. \A w \in Word : success[w] <= entry'[w]
      BY <2>3 DEF IInv, TypeOK, Shape, Log
    <3> QED
      BY <2>1, <3>1, <3>2 DEF IInv, Shape
  <2>5. Counted'
    <3>1. Fails(entry, success) \in Nat
      BY <2>2, FailsNat DEF IInv, TypeOK, Shape
    <3> QED
      BY <2>1, <3>1 DEF IInv, TypeOK, Numbers, Counted
  <2>6. Known'
    BY <2>1 DEF IInv, Known
  <2> QED
    BY <2>4, <2>5, <2>6
<1> QED
  BY <1>1, <1>2

\* An attempt is counted before the PIN is tried.
LEMMA IncreaseRest ==
  ASSUME IInv, Increase PROVE Shape' /\ Counted' /\ Known'
<1>1. PICK c \in Word : IsCurrent(entry, c)
  BY DEF IInv, Shape, Counted, Increase
<1>2. /\ entry' = Increased(entry) /\ pc = "increase" /\ pc' = "check" /\ since' = since + 1
      /\ UNCHANGED <<success, edek, has_pin, wipe_code, call, ctr, wrong, losses>>
  BY DEF Increase, Return
<1>3. entry' \in Log /\ \A w \in Word : entry[w] <= entry'[w]
  BY <1>1, <1>2, IncreasedLog DEF IInv, TypeOK, Log
<1>4. Shape'
  <2>1. Exhausted(entry') \/ \E d \in Word : IsCurrent(entry', d)
    BY <1>1, <1>2, IncreasedLog DEF IInv, TypeOK
  <2>2. \A w \in Word : success[w] <= entry'[w]
    BY <1>3 DEF IInv, TypeOK, Shape, Log
  <2> QED
    BY <1>2, <2>1, <2>2 DEF IInv, Shape
<1>5. Counted'
  <2>1. ~Exhausted(entry') => Fails(entry', success) = Fails(entry, success) + 1
    <3>1. Fails(entry, success) < Slots
      BY <1>2 DEF IInv, Counted, TypeOK, Numbers
    <3> QED
      BY <1>1, <1>2, <3>1, FailsIncreased DEF IInv, TypeOK, Shape
  <2>2. ~Exhausted(entry) /\ ctr = Fails(entry, success) /\ wrong <= ctr /\ ctr <= since
    BY <1>2 DEF IInv, Counted
  <2>3. ctr \in Nat /\ wrong \in Nat /\ since \in Nat
    BY DEF IInv, TypeOK, Numbers
  <2> QED
    BY <1>2, <2>1, <2>2, <2>3 DEF IInv, Counted
<1>6. Known'
  BY <1>2 DEF IInv, Known
<1> QED
  BY <1>4, <1>5, <1>6

\* Copying more of the entry log lowers the counter, copying all of it to zero.
LEMMA FailsCopied ==
  ASSUME NEW e \in Log, NEW s \in Log, NEW t \in Log, NEW c \in Word, IsCurrent(e, c),
         \A w \in Word : s[w] <= t[w] /\ t[w] <= e[w]
  PROVE  /\ Fails(e, t) <= Fails(e, s)
         /\ (\A w \in Word : t[w] = e[w]) => Fails(e, t) = 0
<1>1. CASE c = 0
  <2>1. 0 \in Word /\ 1 \in Word
    BY DEF Word
  <2> QED
    BY <1>1, <2>1, FailsOf DEF Log
<1>2. CASE c # 0
  <2>1. c - 1 \in Word
    BY <1>2 DEF Word
  <2> QED
    BY <1>2, <2>1, FailsOf DEF Log
<1> QED
  BY <1>1, <1>2

\* A write to word i of the success log, complete or in part.
LEMMA CopyRest ==
  ASSUME IInv, pc = "reset", i < Words, entry[i] # 0,
         NEW n \in success[i]..entry[i], success' = [success EXCEPT ![i] = n],
         UNCHANGED <<entry, wrong, since>>,
         pc' = "idle" \/ (pc' = "reset" /\ n = entry[i] /\ i' = i + 1)
  PROVE  Shape' /\ Counted'
<1>1. i \in Word /\ entry \in Log /\ success \in Log
  BY DEF IInv, TypeOK, Numbers, Word
<1>2. n \in 0..Slots /\ success[i] <= n /\ n <= entry[i]
  BY <1>1 DEF Log
<1>3. success' \in Log /\ success'[i] = n /\ \A w \in Word \ {i} : success'[w] = success[w]
  BY <1>1, <1>2 DEF Log
<1>4. PICK c \in Word : IsCurrent(entry, c)
  BY DEF IInv, Shape, Counted
<1>5. \A v \in Word : v < i => success[v] = Slots
  <2>1. \A v \in Word : v < i => entry[v] = Slots
    BY <1>1, <1>4 DEF IsCurrent, Word
  <2> QED
    BY <2>1 DEF IInv, Shape
<1>6. \A w \in Word : success[w] <= success'[w] /\ success'[w] <= entry[w]
  BY <1>1, <1>2, <1>3 DEF IInv, Shape, Log
<1>7. \A v, w \in Word : v < w /\ success'[w] # 0 => success'[v] = Slots
  <2> SUFFICES ASSUME NEW v \in Word, NEW w \in Word, v < w, success'[w] # 0
               PROVE  success'[v] = Slots
    OBVIOUS
  <2>1. CASE w = i
    BY <1>3, <1>5, <2>1 DEF Word
  <2>2. CASE w # i /\ v # i
    BY <1>3, <2>2 DEF IInv, Shape
  <2>3. CASE w # i /\ v = i
    BY <1>1, <1>2, <1>3, <2>3 DEF IInv, Shape, Log
  <2> QED
    BY <2>1, <2>2, <2>3
<1>8. pc' = "reset" => \A v \in Word : v < i' => success'[v] = entry[v]
  BY <1>1, <1>3 DEF IInv, Shape, Word
<1>9. Shape'
  BY <1>4, <1>6, <1>7, <1>8 DEF Shape
<1>10. Counted'
  <2>1. ~Exhausted(entry) /\ wrong = 0 /\ Fails(entry, success) <= since
    BY DEF IInv, Counted
  <2>2. Fails(entry, success') <= Fails(entry, success)
    BY <1>1, <1>3, <1>4, <1>6, FailsCopied, Zenon
  <2>3. Fails(entry, success) \in Nat /\ Fails(entry, success') \in Nat
    BY <1>1, <1>3, <1>4, <1>6, FailsNat, Zenon DEF IInv, Shape
  <2> QED
    BY <2>1, <2>2, <2>3 DEF IInv, TypeOK, Numbers, Counted
<1> QED
  BY <1>9, <1>10

\* A right PIN clears the counter, word by word.
LEMMA ResetRest ==
  ASSUME IInv, Reset PROVE Shape' /\ Counted' /\ Known'
<1>0. pc = "reset" /\ UNCHANGED <<edek, has_pin, wipe_code, call, wrong, losses>>
  BY DEF Reset
<1>1. i \in 0..Words /\ entry \in Log /\ success \in Log
  BY DEF IInv, TypeOK, Numbers
<1>2. CASE i < Words /\ entry[i] # 0
  <2>1. /\ success' = [success EXCEPT ![i] = entry[i]] /\ i' = i + 1 /\ pc' = "reset"
        /\ UNCHANGED <<entry, since>>
    BY <1>2 DEF Reset, Return
  <2>2. entry[i] \in success[i]..entry[i]
    <3>1. i \in Word
      BY <1>1, <1>2 DEF Word
    <3> QED
      BY <1>1, <3>1 DEF IInv, Shape, Log
  <2>3. Shape' /\ Counted'
    BY <1>0, <1>2, <2>1, <2>2, CopyRest, Zenon
  <2>4. Known'
    BY <1>0, <2>1 DEF IInv, Known
  <2> QED
    BY <2>3, <2>4
<1>3. CASE ~(i < Words /\ entry[i] # 0)
  <2>1. /\ entry' = IF i = Words THEN Blank ELSE entry
        /\ success' = IF i = Words THEN Blank ELSE success
        /\ pc' = AfterUnlock /\ since' = 0 /\ UNCHANGED i
    BY <1>3 DEF Reset, Return
  <2>2. pc' \in {"edek", "allocate", "idle"}
    BY <2>1 DEF AfterUnlock
  <2>3. Known'
    BY <1>0, <2>1 DEF AfterUnlock, IInv, Known
  <2>4. CASE i = Words
    <3>1. entry' = Blank /\ success' = Blank
      BY <2>1, <2>4
    <3>2. Shape'
      BY <2>2, <3>1, BlankLog DEF Shape
    <3>3. Fails(entry', success') = 0 /\ ~Exhausted(entry')
      BY <3>1, BlankLog, CurrentWord, FailsOf DEF Word
    <3>4. wrong' = 0
      BY <1>0 DEF IInv, Counted
    <3>5. Counted'
      BY <2>1, <2>2, <3>3, <3>4 DEF Counted
    <3> QED
      BY <2>3, <3>2, <3>5
  <2>5. CASE i # Words
    <3>1. i \in Word /\ entry[i] = 0 /\ UNCHANGED <<entry, success>>
      BY <1>1, <1>3, <2>1, <2>5 DEF Word
    <3>2. PICK c \in Word : IsCurrent(entry, c)
      BY <1>0 DEF IInv, Shape, Counted
    <3>3. \A w \in Word : success[w] <= entry[w]
      BY DEF IInv, Shape
    <3>4. \A v \in Word : v < i => success[v] = entry[v]
      BY <1>0 DEF IInv, Shape
    <3>5. \A v \in Word : v >= i => entry[v] = 0
      BY <3>1, <3>2 DEF IsCurrent, Word
    <3>6. \A w \in Word : success[w] = entry[w]
      BY <1>1, <3>3, <3>4, <3>5 DEF Word, Log
    <3>7. Fails(entry, success) = 0
      BY <1>1, <3>2, <3>3, <3>6, FailsCopied DEF Log
    <3>8. Shape'
      BY <2>2, <3>1 DEF IInv, Shape
    <3>9. wrong = 0 /\ ~Exhausted(entry)
      BY <1>0 DEF IInv, Counted
    <3>10. Counted'
      BY <1>0, <2>1, <2>2, <3>1, <3>7, <3>9 DEF Counted
    <3> QED
      BY <2>3, <3>8, <3>10
  <2> QED
    BY <2>4, <2>5
<1> QED
  BY <1>2, <1>3

\* The first use of the storage.
LEMMA InitIInv == Init => IInv
<1> SUFFICES ASSUME Init PROVE IInv
  OBVIOUS
<1>1. entry = Blank /\ success = Blank
  BY DEF Init
<1>2. TypeOK
  <2>1. Numbers /\ call \in Calls
    BY DEF Init, Numbers, Idle, Calls
  <2> QED
    BY <2>1, BlankLog, Zenon DEF Init, TypeOK
<1>3. Shape
  BY <1>1, BlankLog DEF Init, Shape
<1>4. Fails(entry, success) = 0
  BY <1>1, BlankLog, FailsOf DEF Word
<1>5. Counted
  BY <1>4 DEF Init, Counted
<1>6. Known
  BY DEF Init, Known
<1> QED
  BY <1>2, <1>3, <1>5, <1>6 DEF IInv

\* A step that leaves the logs and the counters alone.
LEMMA LogsKept ==
  ASSUME Shape, Counted, UNCHANGED <<entry, success, wrong, since>>,
         pc' # "reset", pc' \in Unlocked => pc \in Unlocked,
         pc' \notin {"increase", "check"}
  PROVE  Shape' /\ Counted'
<1>1. Shape'
  BY DEF Shape
<1>2. Counted'
  BY DEF Counted
<1> QED
  BY <1>1, <1>2

\* Every step keeps the invariant.
LEMMA NextIInv == IInv /\ [Next]_vars => IInv'
<1> SUFFICES ASSUME IInv, [Next]_vars PROVE Shape' /\ Counted' /\ Known'
  BY NextTypeOK DEF IInv
<1>a. TypeOK /\ Shape /\ Counted /\ Known
  BY DEF IInv
<1>1. ASSUME NEW c \in Calls, Begin(c) PROVE Shape' /\ Counted' /\ Known'
  <2>1. CASE HandleFault
    BY <1>1, <2>1, HandleFaultRest DEF Begin
  <2>2. CASE Wiped("wipe_code") \/ Wiped("max_tries")
    BY <2>2, WipedRest
  <2>3. CASE ~HandleFault /\ ~Wiped("wipe_code") /\ ~Wiped("max_tries")
    <3>1. /\ ~Exhausted(entry) /\ ~(Fails(entry, success) >= PIN_MAX_TRIES)
          /\ ctr' = Fails(entry, success) /\ call' = c
          /\ pc = "idle" /\ pc' = "increase"
          /\ ~(c.op = "wipe" /\ c.pin # PIN_EMPTY /\ c.pin = c.new)
          /\ UNCHANGED <<entry, success, edek, has_pin, wipe_code, wrong, since, losses>>
      BY <1>1, <2>3 DEF Begin, WellFormed, Return, flash, history
    <3>2. Fails(entry, success) \in Nat
      BY <1>a, <3>1, FailsNat DEF Shape, TypeOK
    <3>3. Shape'
      BY <1>a, <3>1 DEF Shape
    <3>4. Counted'
      BY <1>a, <3>1, <3>2 DEF Counted
    <3>5. Known'
      BY <1>a, <3>1 DEF Known
    <3> QED
      BY <3>3, <3>4, <3>5
  <2> QED
    BY <2>1, <2>2, <2>3
<1>2. ASSUME Increase PROVE Shape' /\ Counted' /\ Known'
  BY <1>2, IncreaseRest
<1>3. ASSUME Check PROVE Shape' /\ Counted' /\ Known'
  <2>1. CASE HandleFault
    BY <1>3, <2>1, HandleFaultRest DEF Check
  <2>2. CASE Wiped("max_tries")
    BY <2>2, WipedRest
  <2>3. CASE ~HandleFault /\ ~Wiped("max_tries")
    <3>1. /\ pc = "check" /\ ~Exhausted(entry) /\ Fails(entry, success) = ctr + 1
          /\ UNCHANGED <<entry, success, edek, has_pin, wipe_code, call, ctr, since, losses>>
      BY <1>3, <2>3 DEF Check, WellFormed, flash
    <3>2. \/ call.pin # edek /\ pc' = "idle" /\ wrong' = wrong + 1
          \/ call.pin = edek /\ pc' = "reset" /\ wrong' = 0 /\ i' = 0
      BY <1>3, <2>3 DEF Check, Return
    <3>3. Shape'
      BY <1>a, <3>1, <3>2 DEF Shape, Word
    <3>4. Counted'
      BY <1>a, <3>1, <3>2 DEF Counted, TypeOK, Numbers
    <3>5. Known'
      BY <1>a, <3>1, <3>2 DEF Known
    <3> QED
      BY <3>3, <3>4, <3>5
  <2> QED
    BY <2>1, <2>2, <2>3
<1>4. ASSUME Reset PROVE Shape' /\ Counted' /\ Known'
  BY <1>4, ResetRest
<1>5. ASSUME SetEdek \/ SetFlag PROVE Shape' /\ Counted' /\ Known'
  <2>1. Shape' /\ Counted'
    BY <1>5, <1>a, LogsKept DEF SetEdek, SetFlag, Return, history
  <2>2. CASE SetEdek
    BY <1>a, <2>1, <2>2 DEF SetEdek, Return, history, Known
  <2>3. CASE SetFlag
    <3>1. has_pin' <=> call.new # PIN_EMPTY
      BY <2>3, Zenon DEF SetFlag
    <3>2. /\ pc = "flag" /\ pc' = "idle" /\ UNCHANGED <<edek, wipe_code, call>>
      BY <2>3 DEF SetFlag, Return
    <3>3. Known'
      BY <1>a, <3>1, <3>2 DEF Known
    <3> QED
      BY <2>1, <3>3
  <2> QED
    BY <1>5, <2>2, <2>3
<1>6. ASSUME AllocateWipeCode \/ WriteWipeCode \/ Lock PROVE Shape' /\ Counted' /\ Known'
  <2>1. Shape' /\ Counted'
    BY <1>6, <1>a, LogsKept DEF AllocateWipeCode, WriteWipeCode, Lock, Return, flash, history
  <2>2. Known'
    BY <1>6, <1>a DEF AllocateWipeCode, WriteWipeCode, Lock, Return, flash, history, Known,
       TypeOK
  <2> QED
    BY <2>1, <2>2
<1>7. ASSUME PowerLoss PROVE Shape' /\ Counted' /\ Known'
  <2>0. /\ pc' = "idle" /\ losses' = losses + 1
        /\ UNCHANGED <<entry, edek, has_pin, wipe_code, call, wrong, since>>
    BY <1>7 DEF PowerLoss, Return
  <2>1. Shape' /\ Counted'
    <3>1. CASE pc = "reset" /\ i < Words /\ entry[i] # 0
      <4>1. PICK n \in success[i]..entry[i] : success' = [success EXCEPT ![i] = n]
        BY <1>7, <3>1 DEF PowerLoss
      <4> QED
        BY <2>0, <3>1, <4>1, CopyRest, Zenon
    <3>2. CASE ~(pc = "reset" /\ i < Words /\ entry[i] # 0)
      <4>1. UNCHANGED success
        BY <1>7, <3>2 DEF PowerLoss
      <4> QED
        BY <1>a, <2>0, <4>1, LogsKept
    <3> QED
      BY <3>1, <3>2
  <2>2. Known'
    BY <1>a, <2>0 DEF TypeOK, Numbers, Known
  <2> QED
    BY <2>1, <2>2
<1>8. ASSUME UNCHANGED vars PROVE Shape' /\ Counted' /\ Known'
  BY <1>8, <1>a DEF vars, flash, history, Shape, Counted, Known
<1> QED
  BY <1>1, <1>2, <1>3, <1>4, <1>5, <1>6, <1>7, <1>8 DEF Next

\* The invariant, over any sequence of calls and power losses.
THEOREM Invariance == Spec => []IInv
  BY InitIInv, NextIInv, PTL DEF Spec

\* pin_get_fails never reads less than the wrong PINs tried since the last right
\* one.  It looks at two words only; that is enough because the words of the
\* success log are copied in order and a word has room for PIN_MAX_TRIES.
THEOREM NothingUndercounted == Spec => []NoUndercount
<1>1. IInv => NoUndercount
  BY DEF IInv, Counted, NoUndercount, WellFormed
<1> QED
  BY <1>1, Invariance, PTL

\* storage_change_pin and storage_change_wipe_code never make the PIN and the
\* wipe code equal, wherever power is lost.
THEOREM PinApartFromWipeCode == Spec => []PinIsNotWipeCode
<1>1. IInv => PinIsNotWipeCode
  BY DEF IInv, Known, PinIsNotWipeCode
<1> QED
  BY <1>1, Invariance, PTL

\* A step outside set_pin that leaves the PIN and the flag alone.
LEMMA FlagKept ==
  ASSUME FlagAgrees, pc # "flag", UNCHANGED <<has_pin, edek, lost_flag>>
  PROVE  FlagAgrees'
  BY Zenon DEF FlagAgrees

\* A wipe leaves neither a PIN nor the flag.
LEMMA FlagWiped == ASSUME NEW how, Wiped(how) PROVE FlagAgrees'
  BY Zenon DEF Wiped, FlagAgrees

\* handle_fault counts a failure or wipes.
LEMMA FlagFault == ASSUME FlagAgrees, pc # "flag", HandleFault PROVE FlagAgrees'
<1>1. (\E how : Wiped(how)) \/ UNCHANGED <<has_pin, edek, lost_flag>>
  BY Zenon DEF HandleFault
<1> QED
  BY <1>1, FlagKept, FlagWiped, Zenon

\* Every step keeps the flag in step with the PIN.
LEMMA NextFlag == IInv /\ FlagAgrees /\ [Next]_vars => FlagAgrees'
<1> SUFFICES ASSUME IInv, FlagAgrees, [Next]_vars PROVE FlagAgrees'
  OBVIOUS
<1>1. ASSUME NEW c \in Calls, Begin(c) PROVE FlagAgrees'
  <2>1. pc # "flag"
    BY <1>1, Zenon DEF Begin
  <2>2. HandleFault \/ (\E how : Wiped(how)) \/ UNCHANGED <<has_pin, edek, lost_flag>>
    BY <1>1, Zenon DEF Begin, flash, history
  <2> QED
    BY <2>1, <2>2, FlagKept, FlagWiped, FlagFault, Zenon
<1>2. ASSUME Check PROVE FlagAgrees'
  <2>1. pc # "flag"
    BY <1>2, Zenon DEF Check
  <2>2. HandleFault \/ (\E how : Wiped(how)) \/ UNCHANGED <<has_pin, edek, lost_flag>>
    BY <1>2, Zenon DEF Check, flash
  <2> QED
    BY <2>1, <2>2, FlagKept, FlagWiped, FlagFault, Zenon
<1>3. ASSUME Increase \/ Reset \/ AllocateWipeCode \/ WriteWipeCode PROVE FlagAgrees'
  <2>1. pc # "flag" /\ UNCHANGED <<has_pin, edek, lost_flag>>
    BY <1>3, Zenon DEF Increase, Reset, AllocateWipeCode, WriteWipeCode, flash, history
  <2> QED
    BY <2>1, FlagKept
<1>4. ASSUME Lock \/ UNCHANGED vars PROVE FlagAgrees'
  BY <1>4, Zenon DEF Lock, vars, flash, history, FlagAgrees
<1>5. ASSUME SetEdek PROVE FlagAgrees'
  BY <1>5, Zenon DEF SetEdek, Return, FlagAgrees
<1>6. ASSUME SetFlag PROVE FlagAgrees'
  <2>1. call.new = edek /\ edek' = edek /\ (has_pin' <=> call.new # PIN_EMPTY)
    BY <1>6, Zenon DEF SetFlag, IInv, Known
  <2> QED
    BY <2>1, Zenon DEF FlagAgrees
<1>7. ASSUME PowerLoss PROVE FlagAgrees'
  BY <1>7, Zenon DEF PowerLoss, FlagAgrees
<1> QED
  BY <1>1, <1>2, <1>3, <1>4, <1>5, <1>6, <1>7, Zenon DEF Next

\* storage_has_pin agrees with the PIN, but between the two writes of set_pin and
\* after a power loss right there, until the next set_pin or wipe: no other power
\* loss, fault or failed attempt brings them apart.
THEOREM FlagInStep == Spec => []FlagAgrees
<1>1. Init => FlagAgrees
  BY Zenon DEF Init, FlagAgrees
<1> QED
  BY <1>1, NextFlag, Invariance, PTL DEF Spec

\* The storage is wiped for too many tries only after PIN_MAX_TRIES attempts.
THEOREM WipedAfterAllTries == Spec => NoEarlyWipe
<1>1. IInv /\ Next => (out' = "max_tries" => since >= PIN_MAX_TRIES)
  <2> SUFFICES ASSUME IInv, Next, out' = "max_tries" PROVE since >= PIN_MAX_TRIES
    OBVIOUS
  <2>a. since \in Nat /\ ctr \in Nat
    BY DEF IInv, TypeOK, Numbers
  <2>1. ASSUME NEW c \in Calls, Begin(c) PROVE since >= PIN_MAX_TRIES
    <3>1. ~Exhausted(entry) /\ Fails(entry, success) >= PIN_MAX_TRIES
      BY <2>1 DEF Begin, HandleFault, Wiped, Return, WellFormed
    <3>2. Fails(entry, success) \in Nat
      BY <3>1, FailsNat DEF IInv, TypeOK, Shape
    <3> QED
      BY <2>a, <3>1, <3>2 DEF IInv, Counted
  <2>2. CASE Check
    <3>1. ~Exhausted(entry) /\ Fails(entry, success) = ctr + 1 /\ ctr + 1 >= PIN_MAX_TRIES
      BY <2>2 DEF Check, HandleFault, Wiped, Return, WellFormed
    <3> QED
      BY <2>a, <3>1 DEF IInv, Counted
  <2>3. CASE Increase \/ Reset \/ SetEdek \/ SetFlag \/ AllocateWipeCode \/ WriteWipeCode
          \/ Lock \/ PowerLoss
    BY <2>3 DEF Increase, Reset, SetEdek, SetFlag, AllocateWipeCode, WriteWipeCode, Lock,
       PowerLoss, Return
  <2> QED
    BY <2>1, <2>2, <2>3 DEF Next
<1> QED
  BY <1>1, Invariance, PTL DEF Spec, NoEarlyWipe

-----------------------------------------------------------------------------
\* A log that is not exhausted has room in its last word.
LEMMA LastWord ==
  /\ Last \in Word
  /\ \A e \in Log, c \in Word : IsCurrent(e, c) => e[Last] # Slots
  BY DEF Last, Word, IsCurrent

\* A wipe leaves room.
LEMMA WipedRoom == ASSUME NEW how, Wiped(how) PROVE Room'
<1>1. entry'[Last] = 0 /\ success'[Last] = 0
  BY BlankLog, LastWord DEF Wiped
<1> QED
  BY <1>1 DEF Room

\* A fault that is counted leaves room.
LEMMA HandleFaultRoom ==
  ASSUME IInv, Room, HandleFault, pc \in {"idle", "check"} PROVE Room'
<1>1. CASE Wiped("fault")
  BY <1>1, WipedRoom
<1>2. CASE ~Wiped("fault")
  <2>1. ~Exhausted(entry') /\ pc' = "idle" /\ UNCHANGED <<success, lost_init>>
    BY <1>2 DEF HandleFault, WellFormed
  <2>2. entry'[Last] # Slots
    BY <2>1, HandleFaultType, HandleFaultRest, LastWord DEF IInv, TypeOK, Shape
  <2> QED
    BY <2>1, <2>2 DEF Room
<1> QED
  BY <1>1, <1>2

\* The last word is never filled by tries, because there are fewer tries than
\* bits, and it is not in use after a right PIN, unless power was lost.
LEMMA NextRoom == IInv /\ Room /\ [Next]_vars => Room'
<1> SUFFICES ASSUME IInv, Room, [Next]_vars PROVE Room'
  OBVIOUS
<1>a. TypeOK /\ Shape /\ Counted /\ Room /\ Last \in Word
  BY LastWord DEF IInv
<1>b. entry \in Log /\ success \in Log /\ i \in 0..Words
  BY DEF IInv, TypeOK, Numbers
<1>1. ASSUME NEW c \in Calls, Begin(c) PROVE Room'
  <2>1. CASE HandleFault
    BY <1>1, <2>1, HandleFaultRoom DEF Begin
  <2>2. CASE Wiped("wipe_code") \/ Wiped("max_tries")
    BY <2>2, WipedRoom
  <2>3. CASE ~HandleFault /\ ~Wiped("wipe_code") /\ ~Wiped("max_tries")
    BY <1>1, <1>a, <2>3 DEF Begin, flash, history, Room
  <2> QED
    BY <2>1, <2>2, <2>3
<1>2. ASSUME Increase PROVE Room'
  <2>1. /\ pc = "increase" /\ entry' = Increased(entry) /\ pc' = "check"
        /\ UNCHANGED <<success, lost_init>>
    BY <1>2 DEF Increase, Return
  <2>2. PICK c \in Word : IsCurrent(entry, c)
    BY <1>a, <2>1 DEF Shape, Counted
  <2>3. ~lost_init => success[Last] = 0
    BY <1>a, <2>1 DEF Room
  <2>4. ASSUME ~lost_init PROVE entry'[Last] # Slots
    <3>1. CASE c = Last
      <4>1. Fails(entry, success) = (entry[Last - 1] - success[Last - 1]) + entry[Last]
        BY <1>a, <1>b, <2>2, <2>3, <2>4, <3>1, FailsOf DEF Last, Log
      <4>2. Last - 1 \in Word /\ success[Last - 1] <= entry[Last - 1]
        BY <1>a DEF Shape, Last, Word
      <4>3. Fails(entry, success) < PIN_MAX_TRIES
        BY <1>a, <2>1 DEF Counted
      <4>4. entry[Last] + 1 # Slots
        BY <1>a, <1>b, <4>1, <4>2, <4>3, RoomAssumption DEF Log
      <4> QED
        BY <1>b, <2>1, <2>2, <3>1, <4>4, IncreasedLog
    <3>2. CASE c # Last
      BY <1>a, <1>b, <2>1, <2>2, <2>4, <3>2, IncreasedLog DEF Room
    <3> QED
      BY <3>1, <3>2
  <2> QED
    BY <2>1, <2>3, <2>4 DEF Room
<1>3. ASSUME Check PROVE Room'
  <2>1. CASE HandleFault
    BY <1>3, <2>1, HandleFaultRoom DEF Check
  <2>2. CASE Wiped("max_tries")
    BY <2>2, WipedRoom
  <2>3. CASE ~HandleFault /\ ~Wiped("max_tries")
    BY <1>3, <1>a, <2>3 DEF Check, flash, Room
  <2> QED
    BY <2>1, <2>2, <2>3
<1>4. ASSUME Reset PROVE Room'
  <2>0. pc = "reset" /\ UNCHANGED lost_init
    BY <1>4 DEF Reset
  <2>1. CASE i < Words /\ entry[i] # 0
    <3>1. /\ success' = [success EXCEPT ![i] = entry[i]] /\ i' = i + 1 /\ pc' = "reset"
          /\ UNCHANGED entry
      BY <1>4, <2>1 DEF Reset, Return
    <3>2. i # Last => success'[Last] = success[Last]
      BY <1>a, <1>b, <3>1 DEF Log
    <3>3. i = Last => i' = Words
      BY <3>1 DEF Last
    <3>4. i # Words
      BY <2>1
    <3> QED
      BY <1>a, <2>0, <3>1, <3>2, <3>3, <3>4 DEF Room
  <2>2. CASE i = Words
    <3>1. entry' = Blank /\ success' = Blank
      BY <1>4, <2>2 DEF Reset
    <3> QED
      BY <3>1, BlankLog, LastWord DEF Room
  <2>3. CASE ~(i < Words /\ entry[i] # 0) /\ i # Words
    BY <1>4, <1>a, <2>0, <2>3 DEF Reset, Room
  <2> QED
    BY <2>1, <2>2, <2>3
<1>5. ASSUME SetEdek \/ SetFlag \/ AllocateWipeCode \/ WriteWipeCode \/ Lock PROVE Room'
  BY <1>5, <1>a DEF SetEdek, SetFlag, AllocateWipeCode, WriteWipeCode, Lock, Return, flash,
     history, Room
<1>6. ASSUME PowerLoss PROVE Room'
  <2>1. UNCHANGED entry
    BY <1>6 DEF PowerLoss
  <2>2. ~lost_init' => ~lost_init /\ ~(pc = "reset" /\ i >= Words - 1 /\ entry[Words - 1] # 0)
    BY <1>6, Zenon DEF PowerLoss
  <2>3. ASSUME ~lost_init' PROVE success'[Last] = 0
    <3>1. success[Last] = 0
      <4> SUFFICES ASSUME success[Last] # 0 PROVE FALSE
        OBVIOUS
      <4>1. pc = "reset" /\ i = Words
        BY <1>a, <2>2, <2>3 DEF Room
      <4>2. entry[Last] # 0
        BY <1>a, <1>b DEF Shape, Log
      <4> QED
        BY <2>2, <2>3, <4>1, <4>2 DEF Last
    <3>2. CASE pc = "reset" /\ i < Words /\ entry[i] # 0
      <4>1. i # Last
        BY <1>b, <2>2, <2>3, <3>2 DEF Last
      <4> QED
        BY <1>6, <1>a, <1>b, <3>1, <3>2, <4>1 DEF PowerLoss, Log
    <3>3. CASE ~(pc = "reset" /\ i < Words /\ entry[i] # 0)
      BY <1>6, <3>1, <3>3 DEF PowerLoss
    <3> QED
      BY <3>2, <3>3
  <2> QED
    BY <1>a, <2>1, <2>2, <2>3 DEF Room
<1>7. ASSUME UNCHANGED vars PROVE Room'
  BY <1>7, <1>a DEF vars, flash, history, Room
<1> QED
  BY <1>1, <1>2, <1>3, <1>4, <1>5, <1>6, <1>7 DEF Next

\* handle_fault is reached only after a power loss in set_wipe_code or before
\* pin_fails_reset has replaced a full log: attempts alone never exhaust it.
THEOREM FaultsNeedPowerLoss == Spec => FaultsOnlyAfterPowerLoss
<1>1. Init => Room
  BY BlankLog, LastWord DEF Init, Room
<1>2. IInv /\ Room /\ Next => (out' = "fault" => wipe_code = Torn \/ lost_init)
  <2> SUFFICES ASSUME IInv, Room, Next, out' = "fault", wipe_code # Torn, ~lost_init
               PROVE  FALSE
    OBVIOUS
  <2>1. ~Exhausted(entry)
    BY LastWord DEF Room, Exhausted
  <2>2. WellFormed(entry, success)
    BY <2>1, WellFormedLogs DEF IInv, TypeOK
  <2>3. ASSUME NEW c \in Calls, Begin(c) PROVE FALSE
    BY <2>2, <2>3 DEF Begin, Wiped, Return
  <2>4. CASE Check
    <3>1. Fails(entry, success) = ctr + 1
      BY <2>1, <2>4 DEF Check, IInv, Counted
    <3> QED
      BY <2>2, <2>4, <3>1 DEF Check, Wiped, Return
  <2>5. CASE Increase \/ Reset \/ SetEdek \/ SetFlag \/ AllocateWipeCode \/ WriteWipeCode
          \/ Lock \/ PowerLoss
    BY <2>5 DEF Increase, Reset, SetEdek, SetFlag, AllocateWipeCode, WriteWipeCode, Lock,
       PowerLoss, Return
  <2> QED
    BY <2>3, <2>4, <2>5 DEF Next
<1> QED
  BY <1>1, <1>2, NextRoom, Invariance, PTL DEF Spec, FaultsOnlyAfterPowerLoss
=============================================================================
