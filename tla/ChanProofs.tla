----------------------------- MODULE ChanProofs -----------------------------
(***************************************************************************)
(* Proofs about the channels of the event loop, for any set of tasks and   *)
(* any number of values.                                                   *)
(***************************************************************************)
EXTENDS Chan, FiniteSetTheorems, TLAPS

States == {"running", "putting", "sent", "taking", "taken"}

Entries == [task : Tasks \cup {None}, value : Nat]

TypeOK ==
  /\ putters \in Seq(Entries) /\ takers \in Seq(Tasks)
  /\ ctl \in [Tasks -> States] /\ value \in [Tasks -> Nat]
  /\ offered \in Nat /\ received \subseteq Nat /\ cancelled \subseteq Nat

\* chan.takers holds the tasks in take(), each once.
Taking ==
  /\ \A i \in 1..Len(takers) : ctl[takers[i]] = "taking"
  /\ \A i, j \in 1..Len(takers) : takers[i] = takers[j] => i = j
  /\ \A t \in Tasks : ctl[t] = "taking" => \E i \in 1..Len(takers) : takers[i] = t

\* chan.putters holds the tasks in put(), with the values they put.
Putting ==
  /\ \A i \in 1..Len(putters) :
       putters[i].task # None => /\ ctl[putters[i].task] = "putting"
                                 /\ value[putters[i].task] = putters[i].value
  /\ \A t \in Tasks : ctl[t] = "putting" => \E i \in 1..Len(putters) : putters[i].task = t

\* No value is in two places.
Apart ==
  /\ \A i, j \in 1..Len(putters) : putters[i].value = putters[j].value => i = j
  /\ \A t, u \in Receivers : value[t] = value[u] => t = u
  /\ Pending \cap InFlight = {} /\ Pending \cap received = {} /\ Pending \cap cancelled = {}
  /\ InFlight \cap received = {} /\ InFlight \cap cancelled = {} /\ received \cap cancelled = {}

Finite == IsFiniteSet(Receivers) /\ IsFiniteSet(received) /\ IsFiniteSet(cancelled)

IInv == TypeOK /\ Taking /\ Putting /\ Apart /\ Finite /\ EachValueOnce

-----------------------------------------------------------------------------
\* r is s without its k-th element.
Without(s, r, k) ==
  /\ Len(r) = Len(s) - 1
  /\ \A i \in 1..Len(r) : r[i] = IF i < k THEN s[i] ELSE s[i + 1]

\* list.pop(0)
LEMMA Popped ==
  ASSUME NEW S, NEW s \in Seq(S), s # <<>>
  PROVE  /\ Tail(s) \in Seq(S) /\ Without(s, Tail(s), 1)
         /\ 1 \in 1..Len(s) /\ Head(s) = s[1] /\ Head(s) \in S
BY DEF Without

\* list.remove(e), for an e that is there once
LEMMA Removed ==
  ASSUME NEW S, NEW s \in Seq(S), NEW k \in 1..Len(s), NEW e, s[k] = e,
         \A i \in 1..Len(s) : s[i] = e => i = k
  PROVE  Remove(s, e) \in Seq(S) /\ Without(s, Remove(s, e), k)
<1> DEFINE r == [i \in 1..(Len(s) - 1) |-> IF i < k THEN s[i] ELSE s[i + 1]]
<1>1. \A i \in 1..(Len(s) - 1) : (\E j \in 1..i : s[j] = e) <=> ~(i < k)
  OBVIOUS
<1>2. Remove(s, e) = r
  BY <1>1 DEF Remove
<1>3. r \in Seq(S) /\ Len(r) = Len(s) - 1
  <2>1. Len(s) \in Nat /\ Len(s) >= 1 /\ Len(s) - 1 \in Nat
    OBVIOUS
  <2>2. ASSUME NEW i \in 1..(Len(s) - 1) PROVE s[i] \in S /\ s[i + 1] \in S
    BY <2>1
  <2>3. r \in [1..(Len(s) - 1) -> S]
    BY <2>2
  <2> HIDE DEF r
  <2> QED
    BY <2>1, <2>3
<1> QED
  BY <1>2, <1>3 DEF Without

\* list.remove of an element that is not there does not happen.
LEMMA NotThere ==
  ASSUME NEW s, NEW e, \A i \in 1..Len(s) : s[i] # e
  PROVE  Remove(s, e) = s
BY DEF Remove

\* The elements of r are those of s but the k-th, in different places.
Others(s, r, k) ==
  /\ \A i \in 1..Len(r) : \E j \in 1..Len(s) : j # k /\ r[i] = s[j]
  /\ \A j \in 1..Len(s) : j # k => \E i \in 1..Len(r) : r[i] = s[j]
  /\ \A i, m \in 1..Len(r) : i # m =>
       \E j, l \in 1..Len(s) : j # l /\ r[i] = s[j] /\ r[m] = s[l]

\* The other elements stay.
LEMMA TheOthers ==
  ASSUME NEW S, NEW s \in Seq(S), NEW r \in Seq(S), NEW k \in 1..Len(s), Without(s, r, k)
  PROVE  Others(s, r, k)
<1> DEFINE skip(i) == IF i < k THEN i ELSE i + 1
<1>1. /\ Len(s) \in Nat /\ k \in Nat /\ k >= 1 /\ k <= Len(s) /\ Len(r) = Len(s) - 1
      /\ Len(r) \in Nat
  BY DEF Without
<1>2. \A i \in 1..Len(r) : skip(i) \in 1..Len(s) /\ skip(i) # k /\ r[i] = s[skip(i)]
  BY <1>1 DEF Without
<1>3. \A i, m \in 1..Len(r) : i # m => skip(i) # skip(m)
  BY <1>1
<1>4. \A j \in 1..Len(s) : j # k => \E i \in 1..Len(r) : r[i] = s[j]
  <2> SUFFICES ASSUME NEW j \in 1..Len(s), j # k PROVE \E i \in 1..Len(r) : r[i] = s[j]
    OBVIOUS
  <2>1. CASE j < k
    <3>1. j \in 1..Len(r) /\ skip(j) = j
      BY <1>1, <2>1
    <3> QED
      BY <1>2, <3>1
  <2>2. CASE j > k
    <3>1. j - 1 \in 1..Len(r) /\ skip(j - 1) = j
      BY <1>1, <2>2
    <3> QED
      BY <1>2, <3>1, Zenon
  <2> QED
    BY <1>1, <2>1, <2>2
<1> HIDE DEF skip
<1> QED
  BY <1>2, <1>3, <1>4, Zenon DEF Others

\* Elements that differ still differ.
LEMMA StillDistinct ==
  ASSUME NEW s, NEW r, NEW k, Others(s, r, k),
         \A i, j \in 1..Len(s) : s[i] = s[j] => i = j
  PROVE  \A i, j \in 1..Len(r) : r[i] = r[j] => i = j
<1> SUFFICES ASSUME NEW i \in 1..Len(r), NEW j \in 1..Len(r), i # j PROVE r[i] # r[j]
  OBVIOUS
<1>1. PICK a, b \in 1..Len(s) : a # b /\ r[i] = s[a] /\ r[j] = s[b]
  BY DEF Others
<1> QED
  BY <1>1

-----------------------------------------------------------------------------
\* The next value is a new one.
LEMMA NewValue ==
  ASSUME IInv, Offer
  PROVE  /\ offered \in Nat /\ offered + 1 \in Nat /\ offered' = offered + 1
         /\ 1..offered' = (1..offered) \cup {offered + 1}
         /\ offered + 1 \notin 1..offered
         /\ offered + 1 \notin Pending /\ offered + 1 \notin InFlight
         /\ offered + 1 \notin received /\ offered + 1 \notin cancelled
         /\ received' = received /\ cancelled' = cancelled
<1>1. /\ offered \in Nat /\ offered + 1 \in Nat /\ offered' = offered + 1
      /\ received' = received /\ cancelled' = cancelled
  BY DEF IInv, TypeOK, Offer
<1>2. 1..offered' = (1..offered) \cup {offered + 1} /\ offered + 1 \notin 1..offered
  BY <1>1
<1> QED
  BY <1>1, <1>2 DEF IInv, EachValueOnce

\* The counts are numbers.
LEMMA Counts ==
  ASSUME IInv
  PROVE  /\ Len(putters) \in Nat /\ Cardinality(Receivers) \in Nat
         /\ Cardinality(received) \in Nat /\ Cardinality(cancelled) \in Nat
BY FS_CardinalityType DEF IInv, TypeOK, Finite

\* An entry of chan.putters is a task, or None, and a value.
LEMMA EntriesTyped ==
  TypeOK => \A i \in 1..Len(putters) :
              putters[i].task \in Tasks \cup {None} /\ putters[i].value \in Nat
<1> SUFFICES ASSUME TypeOK, NEW i \in 1..Len(putters)
             PROVE  putters[i].task \in Tasks \cup {None} /\ putters[i].value \in Nat
  OBVIOUS
<1>1. putters[i] \in Entries
  BY DEF TypeOK
<1> QED
  BY <1>1 DEF Entries

\* A value is handed to the first taker.
LEMMA HandOverKeeps ==
  ASSUME IInv, NEW p \in Tasks \cup {None}, p \in Tasks => ctl[p] = "running",
         Offer, HandOver(p)
  PROVE  IInv'
<1> DEFINE h == Head(takers)
           n == offered + 1
<1>1. /\ takers' \in Seq(Tasks) /\ Without(takers, takers', 1)
      /\ 1 \in 1..Len(takers) /\ h = takers[1] /\ h \in Tasks
  BY Popped DEF IInv, TypeOK, HandOver
<1>2. ctl[h] = "taking" /\ h # p
  BY <1>1 DEF IInv, Taking
<1> HIDE DEF h
<1>3. /\ \A t \in Tasks : ctl'[t] = IF t = h THEN "taken" ELSE IF t = p THEN "sent" ELSE ctl[t]
      /\ \A t \in Tasks : value'[t] = IF t \in {h, p} THEN n ELSE value[t]
      /\ putters' = putters
  BY <1>2 DEF HandOver, Scheduled, h
<1>4. /\ n \in Nat /\ offered' = n /\ received' = received /\ cancelled' = cancelled
      /\ n \notin Pending /\ n \notin InFlight /\ n \notin received /\ n \notin cancelled
      /\ 1..offered' = (1..offered) \cup {n}
  BY NewValue
<1> HIDE DEF n
<1>5. TypeOK'
  <2>1. ctl' \in [Tasks -> States]
    BY <1>2 DEF IInv, TypeOK, HandOver, Scheduled, States
  <2>2. value' \in [Tasks -> Nat]
    BY <1>4 DEF IInv, TypeOK, HandOver, n
  <2> QED
    BY <1>1, <1>3, <1>4, <2>1, <2>2 DEF IInv, TypeOK
<1>6. Taking'
  <2>1. Others(takers, takers', 1)
    <3>1. takers \in Seq(Tasks)
      BY DEF IInv, TypeOK
    <3> QED
      BY <1>1, <3>1, TheOthers
  <2>2. \A j \in 1..Len(takers) : takers[j] \in Tasks /\ ctl[takers[j]] = "taking"
                                  /\ takers[j] # p /\ (j # 1 => takers[j] # h)
    BY <1>1 DEF IInv, TypeOK, Taking
  <2>3. \A i \in 1..Len(takers') : ctl'[takers'[i]] = "taking"
    <3> SUFFICES ASSUME NEW i \in 1..Len(takers') PROVE ctl'[takers'[i]] = "taking"
      OBVIOUS
    <3>1. PICK j \in 1..Len(takers) : j # 1 /\ takers'[i] = takers[j]
      BY <2>1 DEF Others
    <3> QED
      BY <1>3, <2>2, <3>1
  <2>4. \A i, j \in 1..Len(takers') : takers'[i] = takers'[j] => i = j
    BY <2>1, StillDistinct DEF IInv, Taking
  <2>5. ASSUME NEW t \in Tasks, ctl'[t] = "taking"
        PROVE  \E i \in 1..Len(takers') : takers'[i] = t
    <3>1. ctl[t] = "taking" /\ t # h
      BY <1>3, <2>5
    <3>2. PICK j \in 1..Len(takers) : takers[j] = t
      BY <3>1 DEF IInv, Taking
    <3> QED
      BY <1>1, <2>1, <3>1, <3>2, Zenon DEF Others
  <2> QED
    BY <2>3, <2>4, <2>5 DEF Taking
<1>7. Putting'
  <2>1. \A i \in 1..Len(putters) : putters[i].task \in Tasks \cup {None}
    BY EntriesTyped DEF IInv
  <2>2. \A i \in 1..Len(putters) : putters[i].task # None => putters[i].task \in Tasks \ {h, p}
    BY <1>2, <2>1 DEF IInv, Putting
  <2> QED
    BY <1>3, <2>2 DEF IInv, Putting
<1>8. Receivers' = Receivers \cup {h} /\ h \notin Receivers
  BY <1>1, <1>2, <1>3 DEF Receivers
<1>9. \A t \in Receivers : t \in Tasks /\ value'[t] = value[t]
  BY <1>2, <1>3 DEF Receivers
<1>10. InFlight' = InFlight \cup {n} /\ Pending' = Pending
  BY <1>1, <1>3, <1>8, <1>9 DEF InFlight, Pending
<1>11. Apart'
  <2>1. \A t, u \in Receivers' : value'[t] = value'[u] => t = u
    BY <1>1, <1>3, <1>4, <1>8, <1>9 DEF IInv, Apart, InFlight
  <2> QED
    BY <1>3, <1>4, <1>10, <2>1 DEF IInv, Apart
<1>12. Finite' /\ Cardinality(Receivers') = Cardinality(Receivers) + 1
  BY <1>4, <1>8, FS_AddElement DEF IInv, Finite
<1>13. EachValueOnce'
  <2>1. Pending' \cup InFlight' \cup received' \cup cancelled' = 1..offered'
    BY <1>4, <1>10 DEF IInv, EachValueOnce
  <2>2. Len(putters') + Cardinality(Receivers') + Cardinality(received')
          + Cardinality(cancelled') = offered'
    BY <1>3, <1>4, <1>12, Counts DEF IInv, EachValueOnce, n
  <2> QED
    BY <2>1, <2>2 DEF EachValueOnce
<1> QED
  BY <1>5, <1>6, <1>7, <1>11, <1>12, <1>13 DEF IInv

\* Nobody takes: the value waits in chan.putters.
LEMMA EnqueueKeeps ==
  ASSUME IInv, NEW p \in Tasks \cup {None}, p \in Tasks => ctl[p] = "running",
         Offer, Enqueue(p)
  PROVE  IInv'
<1> DEFINE n == offered + 1
           e == [task |-> p, value |-> n]
           l == Len(putters) + 1
<1>1. /\ n \in Nat /\ offered' = n /\ received' = received /\ cancelled' = cancelled
      /\ n \notin Pending /\ n \notin InFlight /\ n \notin received /\ n \notin cancelled
      /\ 1..offered' = (1..offered) \cup {n}
  BY NewValue
<1>2. e \in Entries /\ e.task = p /\ e.value = n
  BY <1>1 DEF Entries
<1>3. /\ takers' = takers /\ putters' = Append(putters, e)
      /\ \A t \in Tasks : ctl'[t] = IF t = p THEN "putting" ELSE ctl[t]
      /\ \A t \in Tasks : value'[t] = IF t = p THEN n ELSE value[t]
  BY DEF Enqueue
<1>4. TypeOK'
  <2>1. putters' \in Seq(Entries)
    BY <1>2, <1>3 DEF IInv, TypeOK
  <2>2. ctl' \in [Tasks -> States] /\ value' \in [Tasks -> Nat]
    BY <1>1 DEF IInv, TypeOK, Enqueue, States
  <2> QED
    BY <1>1, <1>3, <2>1, <2>2 DEF IInv, TypeOK
<1> HIDE DEF n, e
<1>5. /\ Len(putters) \in Nat /\ Len(putters') = l /\ putters'[l] = e
      /\ \A i \in 1..Len(putters) : putters'[i] = putters[i]
  BY <1>2, <1>3 DEF IInv, TypeOK
<1>6. /\ l \in 1..l /\ (\A i \in 1..l : i \in 1..Len(putters) \/ i = l)
      /\ 1..Len(putters) \subseteq 1..l
  BY <1>5
<1>7. Taking'
  <2>1. \A i \in 1..Len(takers) : takers[i] \in Tasks
    BY DEF IInv, TypeOK
  <2> QED
    BY <1>3, <2>1 DEF IInv, Taking
<1>8. Putting'
  <2>1. ASSUME NEW i \in 1..l, putters'[i].task # None
        PROVE  /\ ctl'[putters'[i].task] = "putting"
               /\ value'[putters'[i].task] = putters'[i].value
    <3>1. CASE i = l
      BY <1>2, <1>3, <1>5, <2>1, <3>1
    <3>2. CASE i \in 1..Len(putters)
      <4>1. /\ putters[i].task \in Tasks /\ ctl[putters[i].task] = "putting"
            /\ value[putters[i].task] = putters[i].value
        BY <1>5, <2>1, <3>2, EntriesTyped DEF IInv, Putting
      <4> QED
        BY <1>3, <1>5, <3>2, <4>1
    <3> QED
      BY <1>6, <3>1, <3>2
  <2>2. ASSUME NEW t \in Tasks, ctl'[t] = "putting"
        PROVE  \E i \in 1..l : putters'[i].task = t
    <3>1. CASE t = p
      BY <1>2, <1>5, <1>6, <3>1
    <3>2. CASE t # p
      BY <1>3, <1>5, <1>6, <2>2, <3>2 DEF IInv, Putting
    <3> QED
      BY <3>1, <3>2
  <2> QED
    BY <1>5, <2>1, <2>2 DEF Putting
<1>9. Receivers' = Receivers /\ \A t \in Receivers : t \in Tasks /\ value'[t] = value[t]
  BY <1>3 DEF Receivers
<1>10. InFlight' = InFlight
  BY <1>9 DEF InFlight
<1>11. Pending' = Pending \cup {n}
  <2>1. DOMAIN putters = 1..Len(putters) /\ DOMAIN putters' = 1..l
    BY <1>4, <1>5 DEF IInv, TypeOK
  <2> QED
    BY <1>2, <1>5, <1>6, <2>1 DEF Pending
<1>12. Apart'
  <2>1. \A i \in 1..Len(putters) : putters[i].value # n
    BY <1>1 DEF Pending, IInv, TypeOK
  <2>2. \A i, j \in 1..l : putters'[i].value = putters'[j].value => i = j
    BY <1>2, <1>5, <1>6, <2>1 DEF IInv, Apart
  <2>3. \A t, u \in Receivers' : value'[t] = value'[u] => t = u
    BY <1>9 DEF IInv, Apart
  <2> QED
    BY <1>1, <1>5, <1>10, <1>11, <2>2, <2>3 DEF IInv, Apart
<1>13. Finite'
  BY <1>1, <1>9 DEF IInv, Finite
<1>14. EachValueOnce'
  <2>1. Pending' \cup InFlight' \cup received' \cup cancelled' = 1..offered'
    BY <1>1, <1>10, <1>11 DEF IInv, EachValueOnce
  <2>2. Len(putters') + Cardinality(Receivers') + Cardinality(received')
          + Cardinality(cancelled') = offered'
    BY <1>1, <1>5, <1>9, Counts DEF IInv, EachValueOnce, n
  <2> QED
    BY <2>1, <2>2 DEF EachValueOnce
<1> QED
  BY <1>4, <1>7, <1>8, <1>12, <1>13, <1>14 DEF IInv

\* An entry leaves chan.putters.
LEMMA PutterGone ==
  ASSUME IInv, putters' \in Seq(Entries), NEW k \in 1..Len(putters),
         Without(putters, putters', k)
  PROVE  /\ Others(putters, putters', k)
         /\ \A i, j \in 1..Len(putters') : putters'[i].value = putters'[j].value => i = j
         /\ Pending' = Pending \ {putters[k].value} /\ putters[k].value \in Pending
         /\ Len(putters') = Len(putters) - 1
<1>1. putters \in Seq(Entries)
  BY DEF IInv, TypeOK
<1>2. Others(putters, putters', k)
  BY <1>1, TheOthers
<1>3. ASSUME NEW i \in 1..Len(putters'), NEW j \in 1..Len(putters'), i # j
      PROVE  putters'[i].value # putters'[j].value
  <2>1. PICK a, b \in 1..Len(putters) :
          a # b /\ putters'[i] = putters[a] /\ putters'[j] = putters[b]
    BY <1>2, <1>3, Zenon DEF Others
  <2> QED
    BY <2>1 DEF IInv, Apart
<1>4. DOMAIN putters = 1..Len(putters) /\ DOMAIN putters' = 1..Len(putters')
  BY <1>1
<1>5. ASSUME NEW v PROVE v \in Pending' <=> v \in Pending \ {putters[k].value}
  <2>1. ASSUME v \in Pending' PROVE v \in Pending \ {putters[k].value}
    <3>1. PICK i \in 1..Len(putters') : v = putters'[i].value
      BY <1>4, <2>1 DEF Pending
    <3>2. PICK j \in 1..Len(putters) : j # k /\ putters'[i] = putters[j]
      BY <1>2 DEF Others
    <3>3. putters[j].value # putters[k].value
      BY <3>2 DEF IInv, Apart
    <3> QED
      BY <1>4, <3>1, <3>2, <3>3 DEF Pending
  <2>2. ASSUME v \in Pending \ {putters[k].value} PROVE v \in Pending'
    <3>1. PICK j \in 1..Len(putters) : v = putters[j].value
      BY <1>4, <2>2 DEF Pending
    <3>2. j # k
      BY <2>2, <3>1
    <3>3. PICK i \in 1..Len(putters') : putters'[i] = putters[j]
      BY <1>2, <3>2 DEF Others
    <3> QED
      BY <1>4, <3>1, <3>3 DEF Pending
  <2> QED
    BY <2>1, <2>2
<1>6. putters[k].value \in Pending
  BY <1>4 DEF Pending
<1>7. Pending' = Pending \ {putters[k].value}
  BY <1>5
<1>8. Len(putters') = Len(putters) - 1
  BY DEF Without
<1> QED
  BY <1>2, <1>3, <1>6, <1>7, <1>8

\* Who is in a list of the channel is neither running nor scheduled.
LEMMA ListedTasks ==
  ASSUME IInv
  PROVE  /\ \A i \in 1..Len(takers) : takers[i] \in Tasks /\ ctl[takers[i]] = "taking"
         /\ \A i \in 1..Len(putters) :
              putters[i].task # None => /\ putters[i].task \in Tasks
                                        /\ ctl[putters[i].task] = "putting"
                                        /\ value[putters[i].task] = putters[i].value
         /\ \A i, j \in 1..Len(putters) :
              putters[i].task # None /\ putters[i].task = putters[j].task => i = j
         /\ \A i \in 1..Len(putters) : putters[i] = [task |-> putters[i].task,
                                                     value |-> putters[i].value]
<1>1. \A i \in 1..Len(takers) : takers[i] \in Tasks /\ ctl[takers[i]] = "taking"
  BY DEF IInv, TypeOK, Taking
<1>2. \A i \in 1..Len(putters) :
        putters[i].task # None => /\ putters[i].task \in Tasks
                                  /\ ctl[putters[i].task] = "putting"
                                  /\ value[putters[i].task] = putters[i].value
  BY EntriesTyped DEF IInv, Putting
<1>3. \A i, j \in 1..Len(putters) :
        putters[i].task # None /\ putters[i].task = putters[j].task => i = j
  BY <1>2 DEF IInv, Apart
<1>4. ASSUME NEW i \in 1..Len(putters)
      PROVE  putters[i] = [task |-> putters[i].task, value |-> putters[i].value]
  <2>1. putters[i] \in Entries
    BY DEF IInv, TypeOK
  <2> QED
    BY <2>1 DEF Entries
<1> QED
  BY <1>1, <1>2, <1>3, <1>4

\* take() finds a value.
LEMMA TakeValueKeeps ==
  ASSUME IInv, NEW t \in Tasks, Take(t), putters # <<>>
  PROVE  IInv'
<1> DEFINE e == Head(putters)
           p == e.task
           v == e.value
<1>1. /\ putters' \in Seq(Entries) /\ Without(putters, putters', 1)
      /\ 1 \in 1..Len(putters) /\ e = putters[1]
  <2>1. putters \in Seq(Entries) /\ putters' = Tail(putters)
    BY DEF IInv, TypeOK, Take
  <2> QED
    BY <2>1, Popped
<1>2. ctl[t] = "running" /\ t # None /\ v \in Nat
      /\ (p # None => p \in Tasks /\ ctl[p] = "putting" /\ p # t) /\ p # t
  BY <1>1, ListedTasks, EntriesTyped, NoneAssumption DEF IInv, Take
<1>3. /\ \A u \in Tasks : ctl'[u] = IF u = t THEN "taken" ELSE IF u = p THEN "sent" ELSE ctl[u]
      /\ \A u \in Tasks : value'[u] = IF u = t THEN v ELSE value[u]
      /\ UNCHANGED <<takers, offered, received, cancelled>>
  BY <1>2 DEF IInv, TypeOK, Take, Scheduled
<1>4. TypeOK'
  <2>1. ctl' \in [Tasks -> States]
    BY <1>2 DEF IInv, TypeOK, Take, Scheduled, States
  <2>2. value' \in [Tasks -> Nat]
    BY <1>2 DEF IInv, TypeOK, Take
  <2> QED
    BY <1>1, <1>3, <2>1, <2>2 DEF IInv, TypeOK
<1>5. /\ Others(putters, putters', 1)
      /\ \A i, j \in 1..Len(putters') : putters'[i].value = putters'[j].value => i = j
      /\ Pending' = Pending \ {v} /\ v \in Pending
      /\ Len(putters') = Len(putters) - 1
  BY <1>1, PutterGone
<1> HIDE DEF e
<1>6. Taking'
  <2>1. \A i \in 1..Len(takers) : takers[i] \in Tasks \ {t, p}
    BY <1>2, ListedTasks, NoneAssumption
  <2> QED
    BY <1>3, <2>1 DEF IInv, Taking
<1>7. Putting'
  <2>1. ASSUME NEW i \in 1..Len(putters'), putters'[i].task # None
        PROVE  /\ ctl'[putters'[i].task] = "putting"
               /\ value'[putters'[i].task] = putters'[i].value
    <3>1. PICK j \in 1..Len(putters) : j # 1 /\ putters'[i] = putters[j]
      BY <1>5 DEF Others
    <3>2. /\ putters[j].task \in Tasks /\ ctl[putters[j].task] = "putting"
          /\ value[putters[j].task] = putters[j].value /\ putters[j].task # p
      BY <1>1, <2>1, <3>1, ListedTasks
    <3> QED
      BY <1>2, <1>3, <3>1, <3>2
  <2>2. ASSUME NEW u \in Tasks, ctl'[u] = "putting"
        PROVE  \E i \in 1..Len(putters') : putters'[i].task = u
    <3>1. ctl[u] = "putting" /\ u # p
      BY <1>3, <2>2
    <3>2. PICK j \in 1..Len(putters) : putters[j].task = u
      BY <3>1 DEF IInv, Putting
    <3>3. j # 1
      BY <1>1, <3>1, <3>2
    <3> QED
      BY <1>5, <3>2, <3>3, Zenon DEF Others
  <2> QED
    BY <2>1, <2>2 DEF Putting
<1>8. Receivers' = Receivers \cup {t} /\ t \notin Receivers
  <2>1. \A u \in Tasks : ctl'[u] = "taken" <=> ctl[u] = "taken" \/ u = t
    BY <1>2, <1>3, NoneAssumption
  <2> QED
    BY <1>2, <2>1 DEF Receivers
<1>9. \A u \in Receivers : u \in Tasks /\ value'[u] = value[u] /\ value[u] \in InFlight
  BY <1>2, <1>3 DEF Receivers, InFlight
<1>10. InFlight' = InFlight \cup {v}
  BY <1>3, <1>8, <1>9 DEF InFlight
<1>11. v \notin InFlight /\ v \notin received /\ v \notin cancelled
  BY <1>5 DEF IInv, Apart
<1>12. Apart'
  <2>1. \A u, w \in Receivers' : value'[u] = value'[w] => u = w
    BY <1>3, <1>8, <1>9, <1>11 DEF IInv, Apart
  <2> QED
    BY <1>3, <1>5, <1>10, <1>11, <2>1 DEF IInv, Apart
<1>13. Finite' /\ Cardinality(Receivers') = Cardinality(Receivers) + 1
  BY <1>3, <1>8, FS_AddElement DEF IInv, Finite
<1>14. EachValueOnce'
  <2>1. Pending' \cup InFlight' \cup received' \cup cancelled' = 1..offered'
    BY <1>3, <1>5, <1>10 DEF IInv, EachValueOnce
  <2>2. Len(putters') + Cardinality(Receivers') + Cardinality(received')
          + Cardinality(cancelled') = offered'
    BY <1>3, <1>5, <1>13, Counts DEF IInv, EachValueOnce
  <2> QED
    BY <2>1, <2>2 DEF EachValueOnce
<1> QED
  BY <1>4, <1>6, <1>7, <1>12, <1>13, <1>14 DEF IInv

\* A task that is given no value and holds none: only where it waits can change.
LEMMA ValuesStay ==
  ASSUME IInv, UNCHANGED <<putters, value, offered, received, cancelled>>, Receivers' = Receivers
  PROVE  Apart' /\ Finite' /\ EachValueOnce'
<1>1. Pending' = Pending /\ InFlight' = InFlight
  BY DEF Pending, InFlight
<1>2. Apart'
  BY <1>1 DEF IInv, Apart
<1>3. Finite'
  BY DEF IInv, Finite
<1>4. EachValueOnce'
  BY <1>1 DEF IInv, EachValueOnce
<1> QED
  BY <1>2, <1>3, <1>4

\* take() finds no value, and waits.
LEMMA TakeWaitsKeeps ==
  ASSUME IInv, NEW t \in Tasks, Take(t), putters = <<>>
  PROVE  IInv'
<1> DEFINE l == Len(takers) + 1
<1>1. /\ takers' = Append(takers, t) /\ ctl[t] = "running"
      /\ \A u \in Tasks : ctl'[u] = IF u = t THEN "taking" ELSE ctl[u]
      /\ UNCHANGED <<putters, value, offered, received, cancelled>>
  BY DEF IInv, TypeOK, Take
<1>2. TypeOK'
  <2>1. takers' \in Seq(Tasks)
    BY <1>1 DEF IInv, TypeOK
  <2>2. ctl' \in [Tasks -> States]
    BY Zenon DEF IInv, TypeOK, Take, States
  <2> QED
    BY <1>1, <2>1, <2>2 DEF IInv, TypeOK
<1>3. /\ Len(takers) \in Nat /\ Len(takers') = l /\ takers'[l] = t
      /\ \A i \in 1..Len(takers) : takers'[i] = takers[i]
  BY <1>1 DEF IInv, TypeOK
<1>4. l \in 1..l /\ (\A i \in 1..l : i \in 1..Len(takers) \/ i = l) /\ 1..Len(takers) \subseteq 1..l
  BY <1>3
<1>5. \A i \in 1..Len(takers) : takers[i] \in Tasks /\ ctl[takers[i]] = "taking" /\ takers[i] # t
  BY <1>1, ListedTasks
<1>6. Taking'
  <2>1. \A i \in 1..l : ctl'[takers'[i]] = "taking"
    BY <1>1, <1>3, <1>4, <1>5
  <2>2. \A i, j \in 1..l : takers'[i] = takers'[j] => i = j
    BY <1>3, <1>4, <1>5 DEF IInv, Taking
  <2>3. \A u \in Tasks : ctl'[u] = "taking" => \E i \in 1..l : takers'[i] = u
    BY <1>1, <1>3, <1>4 DEF IInv, Taking
  <2> QED
    BY <1>3, <2>1, <2>2, <2>3 DEF Taking
<1>7. Putting'
  BY <1>1, ListedTasks DEF IInv, Putting
<1>8. Receivers' = Receivers
  BY <1>1 DEF Receivers
<1> QED
  BY <1>1, <1>2, <1>6, <1>7, <1>8, ValuesStay DEF IInv

\* A scheduled receiver has the value, or was cancelled: the value is accounted for.
LEMMA ReceiverKeeps ==
  ASSUME IInv, NEW t \in Tasks, ctl[t] = "taken", ctl' = [ctl EXCEPT ![t] = "running"],
         UNCHANGED <<putters, takers, value, offered>>,
         \/ received' = received \cup {value[t]} /\ UNCHANGED cancelled
         \/ cancelled' = cancelled \cup {value[t]} /\ UNCHANGED received
  PROVE  IInv'
<1> DEFINE v == value[t]
<1>1. \A u \in Tasks : ctl'[u] = IF u = t THEN "running" ELSE ctl[u]
  BY DEF IInv, TypeOK
<1>2. v \in Nat /\ t \in Receivers /\ v \in InFlight
  BY DEF IInv, TypeOK, Receivers, InFlight
<1>3. TypeOK'
  <2>1. ctl' \in [Tasks -> States]
    BY DEF IInv, TypeOK, States
  <2> QED
    BY <1>2, <2>1, Zenon DEF IInv, TypeOK
<1>4. Taking'
  BY <1>1, ListedTasks DEF IInv, Taking
<1>5. Putting'
  BY <1>1, ListedTasks DEF IInv, Putting
<1>6. Receivers' = Receivers \ {t}
  BY <1>1 DEF Receivers
<1>7. InFlight' = InFlight \ {v} /\ Pending' = Pending
  <2>1. Pending' = Pending
    BY DEF Pending
  <2>2. \A u \in Receivers : value[u] = v => u = t
    BY <1>2 DEF IInv, Apart
  <2> QED
    BY <1>2, <1>6, <2>1, <2>2 DEF InFlight
<1>8. v \notin Pending /\ v \notin received /\ v \notin cancelled
  BY <1>2 DEF IInv, Apart
<1>9. Apart'
  <2>1. \A u, w \in Receivers' : value'[u] = value'[w] => u = w
    BY <1>6 DEF IInv, Apart
  <2> QED
    BY <1>7, <1>8, <2>1 DEF IInv, Apart
<1>10. IsFiniteSet(Receivers') /\ Cardinality(Receivers') = Cardinality(Receivers) - 1
  BY <1>2, <1>6, FS_RemoveElement DEF IInv, Finite
<1>11. /\ IsFiniteSet(received') /\ IsFiniteSet(cancelled')
       /\ Cardinality(received') + Cardinality(cancelled')
            = Cardinality(received) + Cardinality(cancelled) + 1
  <2>1. /\ IsFiniteSet(received \cup {v})
        /\ Cardinality(received \cup {v}) = Cardinality(received) + 1
        /\ IsFiniteSet(cancelled \cup {v})
        /\ Cardinality(cancelled \cup {v}) = Cardinality(cancelled) + 1
    BY <1>8, FS_AddElement, Zenon DEF IInv, Finite
  <2>2. IsFiniteSet(received) /\ IsFiniteSet(cancelled)
    BY DEF IInv, Finite
  <2>3. CASE received' = received \cup {v} /\ UNCHANGED cancelled
    BY <2>1, <2>2, <2>3, Counts
  <2>4. CASE cancelled' = cancelled \cup {v} /\ UNCHANGED received
    BY <2>1, <2>2, <2>4, Counts
  <2> QED
    BY <2>3, <2>4
<1>12. EachValueOnce'
  <2>1. Pending' \cup InFlight' \cup received' \cup cancelled' = 1..offered'
    BY <1>2, <1>7 DEF IInv, EachValueOnce
  <2>2. Cardinality(received') \in Nat /\ Cardinality(cancelled') \in Nat
    BY <1>11, FS_CardinalityType
  <2>3. Len(putters') + Cardinality(Receivers') + Cardinality(received')
          + Cardinality(cancelled') = offered'
    <3>1. Len(putters) + Cardinality(Receivers) + Cardinality(received)
            + Cardinality(cancelled) = offered
      BY DEF IInv, EachValueOnce
    <3> QED
      BY <1>10, <1>11, <2>2, <3>1, Counts
  <2> QED
    BY <2>1, <2>3 DEF EachValueOnce
<1> QED
  BY <1>3, <1>4, <1>5, <1>9, <1>10, <1>11, <1>12 DEF IInv, Finite

\* A putter whose value was taken goes on, or is cancelled: nothing is left of it.
LEMMA SentKeeps ==
  ASSUME IInv, NEW t \in Tasks, ctl[t] = "sent", ctl' = [ctl EXCEPT ![t] = "running"],
         UNCHANGED <<putters, takers, value, offered, received, cancelled>>
  PROVE  IInv'
<1>1. \A u \in Tasks : ctl'[u] = IF u = t THEN "running" ELSE ctl[u]
  BY DEF IInv, TypeOK
<1>2. TypeOK'
  BY DEF IInv, TypeOK, States
<1>3. Taking'
  BY <1>1, ListedTasks DEF IInv, Taking
<1>4. Putting'
  BY <1>1, ListedTasks DEF IInv, Putting
<1>5. Receivers' = Receivers
  BY <1>1 DEF Receivers
<1> QED
  BY <1>2, <1>3, <1>4, <1>5, ValuesStay DEF IInv

\* take() is cancelled while it waits: the task leaves chan.takers.
LEMMA TakerLeaves ==
  ASSUME IInv, NEW t \in Tasks, ctl[t] = "taking", Cancel(t)
  PROVE  IInv'
<1>1. /\ \A u \in Tasks : ctl'[u] = IF u = t THEN "running" ELSE ctl[u]
      /\ takers' = Remove(takers, t)
      /\ UNCHANGED <<putters, value, offered, received, cancelled>>
  BY DEF IInv, TypeOK, Cancel
<1>2. PICK k \in 1..Len(takers) : takers[k] = t
  BY DEF IInv, Taking
<1>3. takers \in Seq(Tasks) /\ \A i \in 1..Len(takers) : takers[i] = t => i = k
  BY <1>2 DEF IInv, TypeOK, Taking
<1>4. takers' \in Seq(Tasks) /\ Without(takers, takers', k)
  BY <1>1, <1>2, <1>3, Removed
<1>5. Others(takers, takers', k)
  BY <1>3, <1>4, TheOthers
<1>6. TypeOK'
  <2>1. ctl' \in [Tasks -> States]
    BY DEF IInv, TypeOK, Cancel, States
  <2> QED
    BY <1>1, <1>4, <2>1 DEF IInv, TypeOK
<1>7. Taking'
  <2>1. ASSUME NEW i \in 1..Len(takers') PROVE ctl'[takers'[i]] = "taking"
    <3>1. PICK j \in 1..Len(takers) : j # k /\ takers'[i] = takers[j]
      BY <1>5, Zenon DEF Others
    <3> QED
      BY <1>1, <1>3, <3>1, ListedTasks
  <2>2. \A i, j \in 1..Len(takers') : takers'[i] = takers'[j] => i = j
    BY <1>5, StillDistinct DEF IInv, Taking
  <2>3. ASSUME NEW u \in Tasks, ctl'[u] = "taking"
        PROVE  \E i \in 1..Len(takers') : takers'[i] = u
    <3>1. ctl[u] = "taking" /\ u # t
      BY <1>1, <2>3
    <3>2. PICK j \in 1..Len(takers) : takers[j] = u
      BY <3>1 DEF IInv, Taking
    <3> QED
      BY <1>2, <1>5, <3>1, <3>2, Zenon DEF Others
  <2> QED
    BY <2>1, <2>2, <2>3 DEF Taking
<1>8. Putting'
  BY <1>1, ListedTasks DEF IInv, Putting
<1>9. Receivers' = Receivers
  BY <1>1 DEF Receivers
<1> QED
  BY <1>1, <1>6, <1>7, <1>8, <1>9, ValuesStay DEF IInv

\* put() is cancelled while it waits: the entry leaves chan.putters.
LEMMA PutterLeaves ==
  ASSUME IInv, NEW t \in Tasks, ctl[t] = "putting", Cancel(t)
  PROVE  IInv'
<1> DEFINE v == value[t]
<1>1. /\ \A u \in Tasks : ctl'[u] = IF u = t THEN "running" ELSE ctl[u]
      /\ putters' = Remove(putters, [task |-> t, value |-> v])
      /\ cancelled' = cancelled \cup {v}
      /\ UNCHANGED <<takers, value, offered, received>>
  BY DEF IInv, TypeOK, Cancel
<1>2. PICK k \in 1..Len(putters) : putters[k].task = t
  BY DEF IInv, Putting
<1>3. /\ t # None /\ v \in Nat /\ putters[k].value = v
      /\ putters[k] = [task |-> t, value |-> v]
  BY <1>2, ListedTasks, NoneAssumption, Zenon DEF IInv, TypeOK
<1>4. /\ putters \in Seq(Entries)
      /\ \A i \in 1..Len(putters) : putters[i] = [task |-> t, value |-> v] => i = k
  BY <1>2, <1>3, ListedTasks DEF IInv, TypeOK
<1>5. putters' \in Seq(Entries) /\ Without(putters, putters', k)
  BY <1>1, <1>3, <1>4, Removed
<1>6. /\ Others(putters, putters', k)
      /\ \A i, j \in 1..Len(putters') : putters'[i].value = putters'[j].value => i = j
      /\ Pending' = Pending \ {v} /\ v \in Pending
      /\ Len(putters') = Len(putters) - 1
  BY <1>3, <1>5, PutterGone
<1>7. TypeOK'
  <2>1. ctl' \in [Tasks -> States]
    BY DEF IInv, TypeOK, Cancel, States
  <2> QED
    BY <1>1, <1>3, <1>5, <2>1, Zenon DEF IInv, TypeOK
<1>8. Taking'
  BY <1>1, ListedTasks DEF IInv, Taking
<1>9. Putting'
  <2>1. ASSUME NEW i \in 1..Len(putters'), putters'[i].task # None
        PROVE  /\ ctl'[putters'[i].task] = "putting"
               /\ value'[putters'[i].task] = putters'[i].value
    <3>1. PICK j \in 1..Len(putters) : j # k /\ putters'[i] = putters[j]
      BY <1>6, Zenon DEF Others
    <3>2. /\ putters[j].task \in Tasks /\ ctl[putters[j].task] = "putting"
          /\ value[putters[j].task] = putters[j].value /\ putters[j].task # t
      BY <1>2, <2>1, <3>1, ListedTasks
    <3> QED
      BY <1>1, <3>1, <3>2
  <2>2. ASSUME NEW u \in Tasks, ctl'[u] = "putting"
        PROVE  \E i \in 1..Len(putters') : putters'[i].task = u
    <3>1. ctl[u] = "putting" /\ u # t
      BY <1>1, <2>2
    <3>2. PICK j \in 1..Len(putters) : putters[j].task = u
      BY <3>1 DEF IInv, Putting
    <3>3. j # k
      BY <1>2, <3>1, <3>2
    <3> QED
      BY <1>6, <3>2, <3>3, Zenon DEF Others
  <2> QED
    BY <2>1, <2>2 DEF Putting
<1>10. Receivers' = Receivers
  BY <1>1 DEF Receivers
<1>11. InFlight' = InFlight
  BY <1>1, <1>10 DEF InFlight
<1>12. v \notin InFlight /\ v \notin received /\ v \notin cancelled
  BY <1>6 DEF IInv, Apart
<1>13. Apart'
  <2>1. \A u, w \in Receivers' : value'[u] = value'[w] => u = w
    BY <1>1, <1>10 DEF IInv, Apart
  <2> QED
    BY <1>1, <1>6, <1>11, <1>12, <2>1 DEF IInv, Apart
<1>14. Finite' /\ Cardinality(cancelled') = Cardinality(cancelled) + 1
  BY <1>1, <1>10, <1>12, FS_AddElement DEF IInv, Finite
<1>15. EachValueOnce'
  <2>1. Pending' \cup InFlight' \cup received' \cup cancelled' = 1..offered'
    BY <1>1, <1>6, <1>11 DEF IInv, EachValueOnce
  <2>2. Len(putters') + Cardinality(Receivers') + Cardinality(received')
          + Cardinality(cancelled') = offered'
    <3>1. Len(putters) + Cardinality(Receivers) + Cardinality(received)
            + Cardinality(cancelled) = offered
      BY DEF IInv, EachValueOnce
    <3>2. Cardinality(Receivers') = Cardinality(Receivers)
          /\ Cardinality(received') = Cardinality(received)
      BY <1>1, <1>10
    <3>3. Len(putters') = Len(putters) - 1 /\ offered' = offered
          /\ Cardinality(cancelled') = Cardinality(cancelled) + 1
      BY <1>1, <1>6, <1>14
    <3> QED
      BY <3>1, <3>2, <3>3, Counts
  <2> QED
    BY <2>1, <2>2 DEF EachValueOnce
<1> QED
  BY <1>7, <1>8, <1>9, <1>13, <1>14, <1>15 DEF IInv

\* Every step preserves the invariant.
LEMMA NextIInv == IInv /\ [Next]_vars => IInv'
<1> SUFFICES ASSUME IInv, [Next]_vars PROVE IInv'
  OBVIOUS
<1>1. ASSUME NEW t \in Tasks, Put(t) PROVE IInv'
  BY <1>1, HandOverKeeps, EnqueueKeeps DEF Put
<1>2. CASE Publish
  BY <1>2, HandOverKeeps, EnqueueKeeps, NoneAssumption DEF Publish
<1>3. ASSUME NEW t \in Tasks, Take(t) PROVE IInv'
  BY <1>3, TakeValueKeeps, TakeWaitsKeeps
<1>4. ASSUME NEW t \in Tasks, Resume(t) PROVE IInv'
  <2>1. CASE ctl[t] = "taken"
    BY <1>4, <2>1, ReceiverKeeps, Zenon DEF Resume
  <2>2. CASE ctl[t] = "sent"
    BY <1>4, <2>2, SentKeeps, Zenon DEF Resume
  <2> QED
    BY <1>4, <2>1, <2>2 DEF Resume
<1>5. ASSUME NEW t \in Tasks, Cancel(t) PROVE IInv'
  <2>1. CASE ctl[t] = "taking"
    BY <1>5, <2>1, TakerLeaves
  <2>2. CASE ctl[t] = "putting"
    BY <1>5, <2>2, PutterLeaves
  <2>3. CASE ctl[t] = "taken"
    <3>1. \A i \in 1..Len(takers) : takers[i] # t
      BY <2>3, ListedTasks
    <3>2. takers' = takers
      BY <1>5, <2>3, <3>1, NotThere DEF Cancel
    <3> QED
      BY <1>5, <2>3, <3>2, ReceiverKeeps, Zenon DEF Cancel
  <2>4. CASE ctl[t] = "sent"
    <3>1. \A i \in 1..Len(putters) : putters[i] # [task |-> t, value |-> value[t]]
      BY <2>4, ListedTasks, NoneAssumption
    <3>2. putters' = putters
      BY <1>5, <2>4, <3>1, NotThere DEF Cancel
    <3> QED
      BY <1>5, <2>4, <3>2, SentKeeps, Zenon DEF Cancel
  <2> QED
    BY <1>5, <2>1, <2>2, <2>3, <2>4 DEF Cancel
<1>6. CASE UNCHANGED vars
  <2>1. Receivers' = Receivers /\ TypeOK' /\ Taking' /\ Putting'
    BY <1>6, Zenon DEF vars, Receivers, IInv, TypeOK, Taking, Putting
  <2> QED
    BY <1>6, <2>1, ValuesStay DEF vars, IInv
<1> QED
  BY <1>1, <1>2, <1>3, <1>4, <1>5, <1>6 DEF Next

\* The start.
LEMMA InitIInv == Init => IInv
<1> SUFFICES ASSUME Init PROVE IInv
  OBVIOUS
<1>1. /\ putters = <<>> /\ takers = <<>> /\ Len(putters) = 0 /\ Len(takers) = 0
      /\ offered = 0 /\ received = {} /\ cancelled = {}
      /\ \A t \in Tasks : ctl[t] = "running"
  BY DEF Init
<1>2. TypeOK
  <2>1. putters \in Seq(Entries) /\ takers \in Seq(Tasks)
    BY <1>1
  <2> QED
    BY <1>1, <2>1 DEF Init, TypeOK, States
<1>3. Taking /\ Putting
  BY <1>1 DEF Taking, Putting
<1>4. Receivers = {} /\ InFlight = {} /\ Pending = {}
  BY <1>1 DEF Receivers, InFlight, Pending
<1>5. Apart
  BY <1>1, <1>4 DEF Apart
<1>6. Finite
  BY <1>1, <1>4, FS_EmptySet DEF Finite
<1>7. EachValueOnce
  <2>1. 1..offered = {}
    BY <1>1
  <2> QED
    BY <1>1, <1>4, <2>1, FS_EmptySet DEF EachValueOnce
<1> QED
  BY <1>2, <1>3, <1>5, <1>6, <1>7 DEF IInv

-----------------------------------------------------------------------------
\* The invariant holds in every reachable state.
THEOREM Invariance == Spec => []IInv
BY InitIInv, NextIInv, PTL DEF Spec

\* Whatever tasks put(), publish(), take() and get cancelled in whatever order, no
\* value of a channel is lost or delivered twice.
THEOREM NoValueLost == Spec => []EachValueOnce
<1>1. IInv => EachValueOnce
  BY DEF IInv
<1> QED
  BY <1>1, Invariance, PTL

\* chan.takers and chan.putters list a task exactly while it waits in take() or
\* put(), and once, so that no cancelled task is resumed by a channel.
THEOREM ListsInStep == Spec => []ListedWhileWaiting
<1>1. IInv => ListedWhileWaiting
  <2> SUFFICES ASSUME IInv, NEW t \in Tasks
               PROVE  /\ Cardinality({i \in DOMAIN takers : takers[i] = t})
                           = IF ctl[t] = "taking" THEN 1 ELSE 0
                      /\ Cardinality({i \in DOMAIN putters : putters[i].task = t})
                           = IF ctl[t] = "putting" THEN 1 ELSE 0
    BY DEF ListedWhileWaiting
  <2>1. /\ DOMAIN takers = 1..Len(takers) /\ DOMAIN putters = 1..Len(putters) /\ t # None
    BY NoneAssumption DEF IInv, TypeOK
  <2>2. Cardinality({i \in DOMAIN takers : takers[i] = t}) = IF ctl[t] = "taking" THEN 1 ELSE 0
    <3>1. CASE ctl[t] = "taking"
      <4>1. PICK k \in 1..Len(takers) : takers[k] = t
        BY <3>1 DEF IInv, Taking
      <4>2. {i \in DOMAIN takers : takers[i] = t} = {k}
        BY <2>1, <4>1 DEF IInv, Taking
      <4> QED
        BY <3>1, <4>2, FS_Singleton, Zenon
    <3>2. CASE ctl[t] # "taking"
      <4>1. {i \in DOMAIN takers : takers[i] = t} = {}
        BY <2>1, <3>2 DEF IInv, Taking
      <4> QED
        BY <3>2, <4>1, FS_EmptySet
    <3> QED
      BY <3>1, <3>2
  <2>3. Cardinality({i \in DOMAIN putters : putters[i].task = t})
          = IF ctl[t] = "putting" THEN 1 ELSE 0
    <3>1. CASE ctl[t] = "putting"
      <4>1. PICK k \in 1..Len(putters) : putters[k].task = t
        BY <3>1 DEF IInv, Putting
      <4>2. {i \in DOMAIN putters : putters[i].task = t} = {k}
        BY <2>1, <4>1, ListedTasks
      <4> QED
        BY <3>1, <4>2, FS_Singleton, Zenon
    <3>2. CASE ctl[t] # "putting"
      <4>1. {i \in DOMAIN putters : putters[i].task = t} = {}
        BY <2>1, <3>2, ListedTasks
      <4> QED
        BY <3>2, <4>1, FS_EmptySet, Zenon
    <3> QED
      BY <3>1, <3>2
  <2> QED
    BY <2>2, <2>3
<1> QED
  BY <1>1, Invariance, PTL
=============================================================================
