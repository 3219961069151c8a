---------------------------- MODULE WireSessionProofs ----------------------------
\* Proof that signal_ack() cancels every race that was waiting for a message when it was
\* called, for every set of sessions and of callers.  Each call puts one value into
\* SIGNAL_CHANNEL; while no other call and no ended race interferes, that value passes from
\* one waiting session to the next, and the caller's own take() stands behind them all.
EXTENDS WireSession, TLAPS

\* Some task of q is x.
In(x, q) == \E n \in 1..Len(q) : q[n] = x

\* x is in q once at most.
Once(x, q) == \A m, n \in 1..Len(q) : q[m] = x /\ q[n] = x => m = n

\* No task is in q twice.
Distinct(q) == \A m, n \in 1..Len(q) : q[m] = q[n] => m = n

\* x comes before y in q
Before(q, x, y) == \E m, n \in 1..Len(q) : m < n /\ q[m] = x /\ q[n] = y

Takers == {Signal(s) : s \in Sessions} \cup {Ack(a) : a \in Callers}
Doings == {"read", "race", "resumed", "answer"}
AllTasks == Takers \cup {Session(s) : s \in Sessions}

Types ==
  /\ takers \in Seq(Takers) /\ done \in Nat
  /\ ctl \in [Sessions -> Doings]
  /\ sig \in [Sessions -> {"none", "start", "take", "taken", "write"}]
  /\ ack \in [Callers -> {"none", "put", "take", "got", "reloop"}]
  /\ waited \in [Callers -> SUBSET Sessions] /\ disturbed \subseteq Callers

\* SIGNAL_CHANNEL.takers holds the tasks in take(), each once, unless there are values.
Taking ==
  /\ Distinct(takers)
  /\ \A s \in Sessions : In(Signal(s), takers) <=> sig[s] = "take"
  /\ \A a \in Callers : In(Ack(a), takers) <=> ack[a] = "take"
  /\ done # 0 => \A t : ~In(t, takers)

\* A session that is due is not in a race, and due once.
Due(q, c) ==
  /\ q \in Seq(AllTasks)
  /\ \A s \in Sessions : Once(Session(s), q) /\ (In(Session(s), q) => c[s] = "resumed")

\* A session is in a race or it has no signal().
Racing ==
  /\ \A s \in Sessions : ctl[s] = "race" <=> sig[s] # "none"
  /\ Due(queue, ctl)

\* The signals that were given a value, and the calls that have not got one.
Holders == {s \in Sessions : sig[s] \in {"taken", "write"}}
Waiting == {a \in Callers : ack[a] \in {"put", "take", "reloop"}}

\* S has n elements.
Sized(S, n) ==
  \E f \in [1..n -> S] : /\ \A x \in S : \E i \in 1..n : f[i] = x
                         /\ \A i, j \in 1..n : f[i] = f[j] => i = j

\* The values that are held and the values in the channel are not more than the calls.
Counts(H, W, d) == \E m, n \in Nat : Sized(H, m) /\ Sized(W, n) /\ m + d <= n

\* Each call has put one value into the channel.
Counted == Counts(Holders, Waiting, done)

\* A call of signal_ack() that still waits, and that nothing has interfered with.
Pending(a) == ack[a] \in {"put", "take", "got"} /\ a \notin disturbed

\* A call that nothing interferes with is the only one, and its value the only one.
Alone ==
  \A a \in Callers : Pending(a) =>
    /\ \A b \in Callers : ack[b] \in {"put", "take", "got"} => b = a
    /\ \A s, r \in Holders : s = r
    /\ done <= 1 /\ (Holders # {} => done = 0)
    /\ ack[a] = "got" => Holders = {} /\ done = 0

\* The sessions that it waits for are in front of it in the channel, or have the value.
Ahead ==
  \A a \in Callers : Pending(a) =>
    /\ \A s \in waited[a] : sig[s] \in {"take", "taken", "write"}
    /\ ack[a] = "take" => \A s \in waited[a] : sig[s] = "take" => Before(takers, Signal(s), Ack(a))
    /\ ack[a] = "got" => waited[a] = {}

\* The inductive invariant.
IInv == Types /\ Taking /\ Racing /\ Counted /\ Alone /\ Ahead

-----------------------------------------------------------------------------
\* Only the first element is gone.
LEMMA TailOf ==
  ASSUME NEW S, NEW q \in Seq(S), q # <<>>
  PROVE  /\ Tail(q) \in Seq(S) /\ Len(Tail(q)) = Len(q) - 1 /\ Len(q) \in Nat /\ Len(q) >= 1
         /\ \A n \in 1..Len(Tail(q)) : Tail(q)[n] = q[n + 1] /\ n + 1 \in 1..Len(q)
         /\ Head(q) = q[1] /\ 1 \in 1..Len(q) /\ Head(q) \in S /\ In(Head(q), q)
  BY DEF In

\* pop(0)
LEMMA Popped ==
  ASSUME NEW S, NEW q \in Seq(S), q # <<>>
  PROVE  /\ \A x : In(x, Tail(q)) => In(x, q)
         /\ \A x : In(x, q) => x = Head(q) \/ In(x, Tail(q))
         /\ Distinct(q) => Distinct(Tail(q)) /\ ~In(Head(q), Tail(q))
         /\ \A x, y : x # Head(q) /\ Before(q, x, y) => Before(Tail(q), x, y)
         /\ \A x : Once(x, q) => Once(x, Tail(q)) /\ (x = Head(q) => ~In(x, Tail(q)))
         /\ Distinct(q) => \A x : ~Before(q, x, Head(q))
<1>1. \A x : In(x, Tail(q)) => In(x, q)
  BY TailOf DEF In
<1>2. ASSUME NEW n \in 1..Len(q), n # 1
      PROVE  n - 1 \in 1..Len(Tail(q)) /\ Tail(q)[n - 1] = q[n]
  BY <1>2, TailOf
<1>3. \A x : In(x, q) => x = Head(q) \/ In(x, Tail(q))
  BY <1>2, TailOf, Zenon DEF In
<1>4. ASSUME Distinct(q) PROVE Distinct(Tail(q)) /\ ~In(Head(q), Tail(q))
  <2>1. ASSUME NEW m \in 1..Len(Tail(q)), NEW n \in 1..Len(Tail(q)), Tail(q)[m] = Tail(q)[n]
        PROVE  m = n
    <3>1. m \in Nat /\ n \in Nat /\ m + 1 = n + 1
      BY <1>4, <2>1, TailOf DEF Distinct
    <3> QED
      BY <3>1
  <2>2. ASSUME NEW n \in 1..Len(Tail(q)), Tail(q)[n] = Head(q) PROVE FALSE
    <3>1. n \in Nat /\ n + 1 = 1 /\ n # 0
      BY <1>4, <2>2, TailOf DEF Distinct
    <3> QED
      BY <3>1
  <2> QED
    BY <2>1, <2>2, Zenon DEF Distinct, In
<1>5. ASSUME NEW x, NEW y, x # Head(q), Before(q, x, y) PROVE Before(Tail(q), x, y)
  <2>1. PICK m, n \in 1..Len(q) : m < n /\ q[m] = x /\ q[n] = y
    BY <1>5 DEF Before
  <2>2. m # 1 /\ n # 1 /\ m - 1 < n - 1
    BY <1>5, <2>1, TailOf
  <2> QED
    BY <1>2, <2>1, <2>2, Zenon DEF Before
<1>6. ASSUME NEW x, Once(x, q) PROVE Once(x, Tail(q)) /\ (x = Head(q) => ~In(x, Tail(q)))
  <2>1. ASSUME NEW m \in 1..Len(Tail(q)), NEW n \in 1..Len(Tail(q)),
               Tail(q)[m] = x, Tail(q)[n] = x
        PROVE  m = n
    <3>1. m \in Nat /\ n \in Nat /\ m + 1 = n + 1
      BY <1>6, <2>1, TailOf DEF Once
    <3> QED
      BY <3>1
  <2>2. ASSUME NEW n \in 1..Len(Tail(q)), Tail(q)[n] = x, x = Head(q) PROVE FALSE
    <3>1. n \in Nat /\ n + 1 = 1 /\ n # 0
      BY <1>6, <2>2, TailOf DEF Once
    <3> QED
      BY <3>1
  <2> QED
    BY <2>1, <2>2, Zenon DEF Once, In
<1>7. ASSUME Distinct(q), NEW x, Before(q, x, Head(q)) PROVE FALSE
  <2>1. PICK m, n \in 1..Len(q) : m < n /\ q[n] = q[1]
    BY <1>7, TailOf DEF Before
  <2>2. n = 1
    BY <1>7, <2>1, TailOf DEF Distinct
  <2> QED
    BY <2>1, <2>2
<1> QED
  BY <1>1, <1>3, <1>4, <1>5, <1>6, <1>7

\* append
LEMMA Appended ==
  ASSUME NEW S, NEW q \in Seq(S), NEW e \in S
  PROVE  /\ Append(q, e) \in Seq(S)
         /\ \A x : In(x, Append(q, e)) <=> x = e \/ In(x, q)
         /\ Distinct(q) /\ ~In(e, q) => Distinct(Append(q, e))
         /\ \A x, y : Before(q, x, y) => Before(Append(q, e), x, y)
         /\ \A x : In(x, q) => Before(Append(q, e), x, e)
         /\ \A x : Once(x, q) /\ (x = e => ~In(x, q)) => Once(x, Append(q, e))
<1> DEFINE r == Append(q, e)
<1>1. /\ r \in Seq(S) /\ Len(r) = Len(q) + 1 /\ Len(q) \in Nat
      /\ r[Len(q) + 1] = e /\ Len(q) + 1 \in 1..Len(r)
      /\ \A n \in 1..Len(q) : r[n] = q[n] /\ n \in 1..Len(r)
      /\ \A n \in 1..Len(r) : n \in 1..Len(q) \/ n = Len(q) + 1
  OBVIOUS
<1> HIDE DEF r
<1>2. \A x : In(x, r) <=> x = e \/ In(x, q)
  BY <1>1 DEF In
<1>3. ASSUME Distinct(q), ~In(e, q) PROVE Distinct(r)
  BY <1>1, <1>3 DEF Distinct, In
<1>4. \A x, y : Before(q, x, y) => Before(r, x, y)
  BY <1>1 DEF Before
<1>5. \A x : In(x, q) => Before(r, x, e)
  <2>1. \A n \in 1..Len(q) : n < Len(q) + 1
    BY <1>1
  <2> QED
    BY <1>1, <2>1 DEF Before, In
<1>6. \A x : Once(x, q) /\ (x = e => ~In(x, q)) => Once(x, r)
  BY <1>1 DEF Once, In
<1> QED
  BY <1>1, <1>2, <1>3, <1>4, <1>5, <1>6 DEF r

\* remove, whether e is there or not
LEMMA Removed ==
  ASSUME NEW S, NEW q \in Seq(S), NEW e
  PROVE  /\ Remove(q, e) \in Seq(S)
         /\ \A x : In(x, Remove(q, e)) => In(x, q)
         /\ \A x : x # e /\ In(x, q) => In(x, Remove(q, e))
         /\ Distinct(q) => Distinct(Remove(q, e)) /\ ~In(e, Remove(q, e))
         /\ \A x, y : x # e /\ y # e /\ Before(q, x, y) => Before(Remove(q, e), x, y)
         /\ \A x : Once(x, q) => Once(x, Remove(q, e))
<1> DEFINE r == Remove(q, e)
<1>1. CASE ~In(e, q)
  <2>1. r = q
    BY <1>1 DEF Remove, In
  <2> QED
    BY <1>1, <2>1
<1>2. CASE In(e, q)
  <2> DEFINE past(n) == \E i \in 1..n : q[i] = e
             skip(n) == IF past(n) THEN n + 1 ELSE n
             back(n) == IF past(n) THEN n - 1 ELSE n
  <2>1. r = [n \in 1..(Len(q) - 1) |-> IF past(n) THEN q[n + 1] ELSE q[n]]
    BY <1>2 DEF Remove, In
  <2>2. PICK k \in 1..Len(q) : q[k] = e
    BY <1>2 DEF In
  <2> HIDE DEF r
  <2>3. Len(q) \in Nat /\ k \in Nat /\ k >= 1 /\ Len(q) >= 1 /\ Len(q) - 1 \in Nat
    BY <2>2
  <2>4. /\ \A m, n \in Nat : m <= n /\ past(m) => past(n)
        /\ \A n \in 1..Len(q) : n >= k => past(n)
        /\ ~past(0)
    BY <2>2, <2>3
  <2>5. ASSUME NEW n \in 1..Len(q), q[n] # e, past(n) PROVE past(n - 1)
    BY <2>3, <2>5
  <2>6. ASSUME NEW n \in 1..(Len(q) - 1), Distinct(q) PROVE q[skip(n)] # e
    <3>1. CASE past(n)
      <4>1. PICK i \in 1..n : q[i] = e
        BY <3>1
      <4>2. i \in 1..Len(q) /\ n + 1 \in 1..Len(q) /\ n + 1 # i
        BY <2>3, <4>1
      <4> QED
        BY <2>6, <3>1, <4>1, <4>2 DEF Distinct
    <3>2. CASE ~past(n)
      BY <2>3, <3>2
    <3> QED
      BY <3>1, <3>2
  <2> HIDE DEF past
  <2>7. r \in Seq(S) /\ Len(r) = Len(q) - 1
    <3>1. \A j \in 1..(Len(q) - 1) : (IF past(j) THEN q[j + 1] ELSE q[j]) \in S
      BY <2>3
    <3> QED
      BY <2>1, <2>3, <3>1
  <2>8. \A n \in 1..Len(r) : skip(n) \in 1..Len(q) /\ r[n] = q[skip(n)]
    BY <2>1, <2>3, <2>7
  <2>9. \A n \in 1..Len(q) : q[n] # e => back(n) \in 1..Len(r) /\ r[back(n)] = q[n]
    <3> SUFFICES ASSUME NEW n \in 1..Len(q), q[n] # e
                 PROVE  back(n) \in 1..Len(r) /\ r[back(n)] = q[n]
      OBVIOUS
    <3>1. CASE past(n)
      <4>1. past(n - 1) /\ n - 1 \in 1..Len(r)
        BY <2>3, <2>4, <2>5, <2>7, <3>1
      <4> QED
        BY <2>1, <2>3, <2>7, <3>1, <4>1
    <3>2. CASE ~past(n)
      <4>1. n \in 1..Len(r)
        BY <2>2, <2>3, <2>4, <2>7, <3>2
      <4> QED
        BY <2>1, <2>7, <3>2, <4>1
    <3> QED
      BY <3>1, <3>2
  <2>10. \A m, n \in 1..Len(r) : skip(m) = skip(n) => m = n
    BY <2>3, <2>4, <2>7
  <2>11. \A m, n \in 1..Len(q) : m < n /\ q[m] # e /\ q[n] # e => back(m) < back(n)
    BY <2>3, <2>4, <2>5
  <2>12. Distinct(q) => \A n \in 1..Len(r) : q[skip(n)] # e
    BY <2>6, <2>7
  <2> HIDE DEF skip, back
  <2>13. \A x : In(x, r) => In(x, q)
    BY <2>8 DEF In
  <2>14. \A x : x # e /\ In(x, q) => In(x, r)
    BY <2>9 DEF In
  <2>15. ASSUME Distinct(q) PROVE Distinct(r) /\ ~In(e, r)
    <3>1. \A m, n \in 1..Len(r) : r[m] = r[n] => m = n
      BY <2>8, <2>10, <2>15, Zenon DEF Distinct
    <3>2. \A n \in 1..Len(r) : r[n] # e
      BY <2>8, <2>12, <2>15, Zenon
    <3> QED
      BY <3>1, <3>2, Zenon DEF Distinct, In
  <2>16. \A x, y : x # e /\ y # e /\ Before(q, x, y) => Before(r, x, y)
    BY <2>9, <2>11 DEF Before
  <2>17. \A x : Once(x, q) => Once(x, r)
    BY <2>8, <2>10 DEF Once
  <2> QED
    BY <2>7, <2>13, <2>14, <2>15, <2>16, <2>17 DEF r
<1> QED
  BY <1>1, <1>2

\* The element e has left the list.
Gone(q, r, e) ==
  /\ Distinct(r)
  /\ \A x : In(x, r) <=> In(x, q) /\ x # e
  /\ \A x, y : x # e /\ y # e /\ Before(q, x, y) => Before(r, x, y)

\* pop(0) and remove, of a list without duplicates
LEMMA Leaving ==
  ASSUME NEW S, NEW q \in Seq(S), Distinct(q), NEW e
  PROVE  /\ Remove(q, e) \in Seq(S) /\ Gone(q, Remove(q, e), e)
         /\ q # <<>> => Tail(q) \in Seq(S) /\ Gone(q, Tail(q), Head(q))
<1>1. Remove(q, e) \in Seq(S) /\ Gone(q, Remove(q, e), e)
  BY Removed DEF Gone
<1>2. ASSUME q # <<>> PROVE Tail(q) \in Seq(S) /\ Gone(q, Tail(q), Head(q))
  BY <1>2, TailOf, Popped DEF Gone
<1> QED
  BY <1>1, <1>2

\* Two tasks are scheduled one after the other.
LEMMA TwoAppended ==
  ASSUME NEW S, NEW q \in Seq(S), NEW x \in S, NEW y \in S
  PROVE  q \o <<x, y>> = Append(Append(q, x), y)
  OBVIOUS

-----------------------------------------------------------------------------
\* Tasks of different kinds are different.
LEMMA Tasks ==
  /\ \A s, u : Signal(s) = Signal(u) => s = u
  /\ \A s, u : Session(s) = Session(u) => s = u
  /\ \A a, b : Ack(a) = Ack(b) => a = b
  /\ \A s, u, a : Signal(s) # Session(u) /\ Signal(s) # Ack(a) /\ Session(u) # Ack(a)
  /\ \A s : Signal(s)[1] = "signal" /\ Signal(s)[2] = s
  /\ \A a : Ack(a)[1] = "ack" /\ Ack(a)[2] = a
  BY DEF Signal, Session, Ack

\* The first taker, if it is given a value.
LEMMA FirstTaker ==
  ASSUME Types, Taking, takers # <<>>
  PROVE  \/ \E u \in Sessions :
              /\ Head(takers) = Signal(u) /\ sig[u] = "take"
              /\ \A f : SigTaken(f, Head(takers)) = [f EXCEPT ![u] = "taken"]
              /\ \A f : AckTaken(f, Head(takers)) = f
         \/ \E b \in Callers :
              /\ Head(takers) = Ack(b) /\ ack[b] = "take"
              /\ \A f : AckTaken(f, Head(takers)) = [f EXCEPT ![b] = "got"]
              /\ \A f : SigTaken(f, Head(takers)) = f
<1> DEFINE h == Head(takers)
<1>1. h \in Takers /\ In(h, takers)
  BY TailOf DEF Types
<1> HIDE DEF h
<1>2. CASE \E u \in Sessions : h = Signal(u)
  BY <1>1, <1>2, Tasks DEF Taking, SigTaken, AckTaken, h
<1>3. CASE \E b \in Callers : h = Ack(b)
  BY <1>1, <1>3, Tasks, Zenon DEF Taking, SigTaken, AckTaken, h
<1> QED
  BY <1>1, <1>2, <1>3 DEF Takers

\* A task leaves the channel.
LEMMA GoneTaking ==
  ASSUME Types, Taking, NEW e, Gone(takers, takers', e), done' = done,
         \A s \in Sessions : sig'[s] = "take" <=> sig[s] = "take" /\ Signal(s) # e,
         \A a \in Callers : ack'[a] = "take" <=> ack[a] = "take" /\ Ack(a) # e
  PROVE  Taking'
  BY DEF Taking, Gone

\* Nothing happens in the channel.
LEMMA SameTaking ==
  ASSUME Types, Taking, takers' = takers, done' = done,
         \A s \in Sessions : sig'[s] = "take" <=> sig[s] = "take",
         \A a \in Callers : ack'[a] = "take" <=> ack[a] = "take"
  PROVE  Taking'
  BY DEF Taking

\* A task is put at the end of the takers.
LEMMA AddedTaking ==
  ASSUME Types, Taking, done = 0, done' = 0, NEW e \in Takers, takers' = Append(takers, e),
         ~In(e, takers),
         \A s \in Sessions : sig'[s] = "take" <=> sig[s] = "take" \/ Signal(s) = e,
         \A a \in Callers : ack'[a] = "take" <=> ack[a] = "take" \/ Ack(a) = e
  PROVE  Taking'
<1>1. /\ \A x : In(x, takers') <=> x = e \/ In(x, takers)
      /\ Distinct(takers')
  BY Appended DEF Types, Taking
<1> QED
  BY <1>1 DEF Taking

\* The queue of the event loop: pop, discard and push.
LEMMA DueKeeps ==
  ASSUME NEW q, NEW c, Due(q, c)
  PROVE  /\ q # <<>> => /\ Due(Tail(q), c)
                        /\ \A s \in Sessions : Head(q) = Session(s) => ~In(Session(s), Tail(q))
         /\ \A e : Due(Remove(q, e), c)
         /\ \A t \in Takers : Due(Append(q, t), c)
<1>1. q \in Seq(AllTasks)
  BY DEF Due
<1>2. ASSUME q # <<>>
      PROVE  /\ Due(Tail(q), c)
             /\ \A s \in Sessions : Head(q) = Session(s) => ~In(Session(s), Tail(q))
  <2>1. Tail(q) \in Seq(AllTasks)
    BY <1>1, <1>2, TailOf
  <2> QED
    BY <1>1, <1>2, <2>1, Popped DEF Due
<1>3. \A e : Due(Remove(q, e), c)
  BY <1>1, Removed DEF Due
<1>4. \A t \in Takers : Due(Append(q, t), c)
  <2> TAKE t \in Takers
  <2>1. t \in AllTasks /\ \A s \in Sessions : Session(s) # t
    BY Tasks DEF AllTasks, Takers
  <2> QED
    BY <1>1, <2>1, Appended DEF Due
<1> QED
  BY <1>2, <1>3, <1>4

\* A session is scheduled when its race has ended.
LEMMA DueResumed ==
  ASSUME NEW q, NEW c, Due(q, c), NEW s \in Sessions, c \in [Sessions -> Doings],
         c[s] # "resumed"
  PROVE  Due(Append(q, Session(s)), [c EXCEPT ![s] = "resumed"])
<1>1. q \in Seq(AllTasks) /\ Session(s) \in AllTasks /\ ~In(Session(s), q)
  BY DEF Due, AllTasks
<1>2. \A u \in Sessions : [c EXCEPT ![s] = "resumed"][u] = IF u = s THEN "resumed" ELSE c[u]
  OBVIOUS
<1>3. \A u \in Sessions : Session(u) = Session(s) => u = s
  BY Tasks
<1> QED
  BY <1>1, <1>2, <1>3, Appended DEF Due

\* A session that is not due may do something else.
LEMMA DueOthers ==
  ASSUME NEW q, NEW c, Due(q, c), NEW s \in Sessions, c \in [Sessions -> Doings],
         ~In(Session(s), q), NEW v
  PROVE  Due(q, [c EXCEPT ![s] = v])
<1>1. \A u \in Sessions : [c EXCEPT ![s] = v][u] = IF u = s THEN v ELSE c[u]
  OBVIOUS
<1> QED
  BY <1>1 DEF Due

\* A set, and the same set with one element more or one element less.
LEMMA SizedMore ==
  ASSUME NEW S, NEW n \in Nat, Sized(S, n), NEW x, x \notin S
  PROVE  Sized(S \cup {x}, n + 1)
<1>1. PICK f \in [1..n -> S] : /\ \A y \in S : \E i \in 1..n : f[i] = y
                               /\ \A i, j \in 1..n : f[i] = f[j] => i = j
  BY DEF Sized
<1> DEFINE g == [i \in 1..(n + 1) |-> IF i = n + 1 THEN x ELSE f[i]]
<1>2. /\ \A i \in 1..n : i \in 1..(n + 1) /\ g[i] = f[i] /\ g[i] \in S /\ g[i] # x
      /\ n + 1 \in 1..(n + 1) /\ g[n + 1] = x
      /\ \A i \in 1..(n + 1) : i \in 1..n \/ i = n + 1
  BY <1>1
<1>3. g \in [1..(n + 1) -> S \cup {x}]
  BY <1>1
<1> HIDE DEF g
<1>4. \A y \in S \cup {x} : \E i \in 1..(n + 1) : g[i] = y
  BY <1>1, <1>2
<1>5. \A i, j \in 1..(n + 1) : g[i] = g[j] => i = j
  BY <1>1, <1>2
<1> QED
  BY <1>3, <1>4, <1>5, Zenon DEF Sized

LEMMA SizedLess ==
  ASSUME NEW S, NEW n \in Nat, Sized(S, n), NEW x \in S
  PROVE  n - 1 \in Nat /\ Sized(S \ {x}, n - 1)
<1>1. PICK f \in [1..n -> S] : /\ \A y \in S : \E i \in 1..n : f[i] = y
                               /\ \A i, j \in 1..n : f[i] = f[j] => i = j
  BY DEF Sized
<1>2. PICK k \in 1..n : f[k] = x
  BY <1>1
<1>3. n - 1 \in Nat /\ n \in 1..n /\ \A i \in 1..(n - 1) : i \in 1..n /\ i # n
  BY <1>2
<1> DEFINE g == [i \in 1..(n - 1) |-> IF i = k THEN f[n] ELSE f[i]]
<1>4. \A i \in 1..(n - 1) : g[i] = IF i = k THEN f[n] ELSE f[i]
  OBVIOUS
<1>5. \A i \in 1..(n - 1) : g[i] \in S /\ g[i] # x
  BY <1>1, <1>2, <1>3, <1>4
<1>6. g \in [1..(n - 1) -> S \ {x}]
  BY <1>5
<1> HIDE DEF g
<1>7. \A y \in S \ {x} : \E i \in 1..(n - 1) : g[i] = y
  <2> TAKE y \in S \ {x}
  <2>1. PICK i \in 1..n : f[i] = y
    BY <1>1
  <2>2. i # k
    BY <1>2, <2>1
  <2>3. CASE i = n
    <3>1. k \in 1..(n - 1)
      BY <1>3, <2>2, <2>3
    <3> QED
      BY <1>4, <2>1, <2>3, <3>1
  <2>4. CASE i # n
    <3>1. i \in 1..(n - 1)
      BY <1>3, <2>4
    <3> QED
      BY <1>4, <2>1, <2>2, <3>1
  <2> QED
    BY <2>3, <2>4
<1>8. \A i, j \in 1..(n - 1) : g[i] = g[j] => i = j
  BY <1>1, <1>3, <1>4
<1> QED
  BY <1>3, <1>6, <1>7, <1>8, Zenon DEF Sized

\* The count of the values, after each thing that can happen to a value or to a call.
LEMMA Balance ==
  ASSUME NEW H, NEW W, NEW d \in Nat, Counts(H, W, d), NEW x, NEW y
  PROVE  /\ Counts(H \ {x}, W, d) /\ Counts(H, W \cup {y}, d)
         /\ x \in H => Counts(H \ {x}, W, d + 1)
         /\ x \in H /\ y \in W => Counts(H \ {x}, W \ {y}, d)
         /\ x \notin H /\ d > 0 => Counts(H \cup {x}, W, d - 1)
         /\ x \notin H /\ y \notin W => Counts(H \cup {x}, W \cup {y}, d)
         /\ y \in W /\ d > 0 => Counts(H, W \ {y}, d - 1)
         /\ y \notin W => Counts(H, W \cup {y}, d + 1)
<1>1. PICK m \in Nat, n \in Nat : Sized(H, m) /\ Sized(W, n) /\ m + d <= n
  BY DEF Counts
<1>2. /\ x \in H => m - 1 \in Nat /\ Sized(H \ {x}, m - 1)
      /\ x \notin H => H \ {x} = H /\ m + 1 \in Nat /\ Sized(H \cup {x}, m + 1)
  BY <1>1, SizedLess, SizedMore
<1>3. /\ y \in W => W \cup {y} = W /\ n - 1 \in Nat /\ Sized(W \ {y}, n - 1)
      /\ y \notin W => n + 1 \in Nat /\ Sized(W \cup {y}, n + 1)
  BY <1>1, SizedLess, SizedMore
<1>4. \A i, j \in Nat : \A G, V, c : Sized(G, i) /\ Sized(V, j) /\ i + c <= j => Counts(G, V, c)
  BY DEF Counts
<1>5. Counts(H \ {x}, W, d) /\ (x \in H => Counts(H \ {x}, W, d + 1))
  <2>1. m - 1 + d <= n /\ m - 1 + (d + 1) <= n
    BY <1>1
  <2> QED
    BY <1>1, <1>2, <1>4, <2>1
<1>6. Counts(H, W \cup {y}, d) /\ (y \notin W => Counts(H, W \cup {y}, d + 1))
  <2>1. m + d <= n + 1 /\ m + (d + 1) <= n + 1
    BY <1>1
  <2> QED
    BY <1>1, <1>3, <1>4, <2>1, Zenon
<1>7. x \in H /\ y \in W => Counts(H \ {x}, W \ {y}, d)
  <2>1. m - 1 + d <= n - 1
    BY <1>1
  <2> QED
    BY <1>2, <1>3, <1>4, <2>1
<1>8. x \notin H /\ y \notin W => Counts(H \cup {x}, W \cup {y}, d)
  <2>1. m + 1 + d <= n + 1
    BY <1>1
  <2> QED
    BY <1>2, <1>3, <1>4, <2>1
<1>9. /\ x \notin H /\ d > 0 => Counts(H \cup {x}, W, d - 1)
      /\ y \in W /\ d > 0 => Counts(H, W \ {y}, d - 1)
  <2>1. m + 1 + (d - 1) <= n /\ m + (d - 1) <= n - 1
    BY <1>1
  <2> QED
    BY <1>1, <1>2, <1>3, <1>4, <2>1
<1> QED
  BY <1>5, <1>6, <1>7, <1>8, <1>9

\* A value passes from one signal to another, or a call replaces another.
LEMMA Exchanged ==
  ASSUME NEW H, NEW W, NEW d \in Nat, Counts(H, W, d), NEW x, NEW y, x # y
  PROVE  /\ x \in H /\ y \notin H => Counts((H \ {x}) \cup {y}, W, d)
         /\ x \in W /\ y \notin W => Counts(H, (W \cup {y}) \ {x}, d)
<1>1. ASSUME NEW S, NEW n \in Nat, Sized(S, n), x \in S, y \notin S
      PROVE  Sized((S \ {x}) \cup {y}, n)
  <2>1. n - 1 \in Nat /\ Sized(S \ {x}, n - 1) /\ n - 1 + 1 = n /\ y \notin S \ {x}
    BY <1>1, SizedLess
  <2>2. Sized((S \ {x}) \cup {y}, n - 1 + 1)
    BY <2>1, SizedMore
  <2> QED
    BY <2>1, <2>2
<1>2. (W \cup {y}) \ {x} = (W \ {x}) \cup {y}
  OBVIOUS
<1> QED
  BY <1>1, <1>2 DEF Counts

\* Without calls there are no values.
LEMMA NoCalls ==
  ASSUME NEW H, NEW d \in Nat, Counts(H, {}, d) PROVE H = {} /\ d = 0
<1>1. PICK m \in Nat, n \in Nat : Sized(H, m) /\ Sized({}, n) /\ m + d <= n
  BY DEF Counts
<1>2. PICK f \in [1..n -> {}] : TRUE
  BY <1>1 DEF Sized
<1>3. ~(1 \in 1..n)
  BY <1>2
<1>4. m = 0 /\ d = 0
  BY <1>1, <1>3
<1> QED
  BY <1>1, <1>4 DEF Sized

\* Nothing is counted at the start.
LEMMA NothingCounted == Counts({}, {}, 0)
<1>1. [i \in 1..0 |-> 0] \in [1..0 -> {}]
  OBVIOUS
<1>2. Sized({}, 0)
  BY <1>1, Zenon DEF Sized
<1> QED
  BY <1>2 DEF Counts

\* loop.clear() leaves nothing behind.
LEMMA ClearKeeps == Clear => IInv'
<1> SUFFICES ASSUME Clear PROVE IInv'
  OBVIOUS
<1>1. /\ takers' = <<>> /\ done' = 0 /\ queue' = <<>>
      /\ ctl' = [s \in Sessions |-> "read"] /\ sig' = [s \in Sessions |-> "none"]
      /\ ack' = [a \in Callers |-> "none"]
      /\ waited' = [a \in Callers |-> {}] /\ disturbed' = {}
  BY DEF Clear, Fresh
<1>2. \A x : ~In(x, <<>>) /\ Once(x, <<>>)
  BY DEF In, Once
<1>3. Types'
  BY <1>1 DEF Types, Doings
<1>4. Taking' /\ Racing'
  BY <1>1, <1>2 DEF Taking, Racing, Due, Distinct
<1>5. Holders' = {} /\ Waiting' = {}
  BY <1>1 DEF Holders, Waiting
<1>6. Counted'
  BY <1>1, <1>5, NothingCounted DEF Counted
<1>7. Alone' /\ Ahead'
  BY <1>1 DEF Alone, Ahead, Pending
<1> QED
  BY <1>3, <1>4, <1>6, <1>7 DEF IInv

\* Steps of a session and of signal() that the channel does not see.
LEMMA QuietKeeps ==
  ASSUME IInv, UNCHANGED <<chan, ack, history>>, NEW s \in Sessions, NEW x, NEW v,
         sig' = [sig EXCEPT ![s] = x], ctl' = [ctl EXCEPT ![s] = v],
         \/ sig[s] = "none" /\ x \in {"none", "start"}
         \/ sig[s] = "taken" /\ x = "write",
         v = "race" <=> x # "none", v \in Doings,
         Due(queue', ctl')
  PROVE  IInv'
<1>1. /\ takers' = takers /\ done' = done /\ waited' = waited /\ disturbed' = disturbed
      /\ Types /\ Taking /\ Racing /\ Counted /\ Alone /\ Ahead
      /\ \A u \in Sessions : sig'[u] = IF u = s THEN x ELSE sig[u]
      /\ \A u \in Sessions : ctl'[u] = IF u = s THEN v ELSE ctl[u]
  BY DEF IInv, Types, chan, history
<1>2. Types'
  BY <1>1 DEF Types
<1>3. Taking'
  BY <1>1, SameTaking
<1>4. Racing'
  BY <1>1 DEF Racing
<1>5. Holders' = Holders /\ Waiting' = Waiting
  BY <1>1 DEF Holders, Waiting
<1>6. Counted'
  BY <1>1, <1>5 DEF Counted
<1>7. Alone'
  BY <1>1, <1>5 DEF Alone, Pending
<1>8. Ahead'
  BY <1>1 DEF Ahead, Pending, Types
<1> QED
  BY <1>2, <1>3, <1>4, <1>6, <1>7, <1>8 DEF IInv

\* What an invariant says of the variables.
LEMMA Known ==
  ASSUME IInv
  PROVE  /\ Types /\ Taking /\ Racing /\ Counted /\ Alone /\ Ahead
         /\ takers \in Seq(Takers) /\ Distinct(takers) /\ done \in Nat
         /\ Counts(Holders, Waiting, done)
  BY DEF IInv, Types, Taking, Counted

\* The race of a session ends, and its signal() leaves the channel.  If it had been
\* given a value, every call is disturbed.
LEMMA LeaveKeeps ==
  ASSUME IInv, NEW s \in Sessions, ctl[s] = "race", Leave(s), UNCHANGED <<done, ack>>,
         disturbed' = IF s \in Holders THEN disturbed \cup {a \in Callers : ack[a] # "none"}
                      ELSE disturbed,
         Due(queue', ctl')
  PROVE  IInv'
<1>1. /\ takers' \in Seq(Takers) /\ Gone(takers, takers', Signal(s))
  BY Known, Leaving DEF Leave
<1>2. /\ done' = done /\ ack' = ack
      /\ disturbed' \subseteq Callers /\ disturbed \subseteq disturbed'
      /\ \A u \in Sessions : sig'[u] = IF u = s THEN "none" ELSE sig[u]
      /\ \A u \in Sessions : ctl'[u] = IF u = s THEN "resumed" ELSE ctl[u]
      /\ \A a \in Callers : waited'[a] = waited[a] \ {s}
      /\ waited' \in [Callers -> SUBSET Sessions]
  BY DEF IInv, Types, Leave, Ended
<1>3. Types'
  BY <1>1, <1>2 DEF IInv, Types, Doings, Leave
<1>4. Taking'
  BY <1>1, <1>2, Known, Tasks, GoneTaking
<1>5. Racing'
  BY <1>2 DEF IInv, Racing
<1>6. Holders' = Holders \ {s} /\ Waiting' = Waiting
  BY <1>2 DEF Holders, Waiting
<1>7. Counted'
  BY <1>2, <1>6, Known, Balance, Zenon DEF Counted
<1>8. ASSUME NEW a \in Callers, Pending(a)' PROVE Pending(a) /\ s \notin Holders
  BY <1>2, <1>8 DEF Pending
<1>9. Alone'
  <2>1. ASSUME s \notin Holders PROVE Holders' = Holders
    BY <1>6, <2>1
  <2> QED
    BY <1>2, <1>8, <2>1 DEF IInv, Alone
<1>10. Ahead'
  <2> SUFFICES ASSUME NEW a \in Callers, Pending(a)'
               PROVE  /\ \A u \in waited'[a] : sig'[u] \in {"take", "taken", "write"}
                      /\ ack[a] = "take" => \A u \in waited'[a] : sig'[u] = "take"
                                              => Before(takers', Signal(u), Ack(a))
                      /\ ack[a] = "got" => waited'[a] = {}
    BY <1>2 DEF Ahead
  <2>1. /\ \A u \in waited[a] : u \in Sessions /\ sig[u] \in {"take", "taken", "write"}
        /\ ack[a] = "take" => \A u \in waited[a] : sig[u] = "take"
                                => Before(takers, Signal(u), Ack(a))
        /\ ack[a] = "got" => waited[a] = {}
    BY <1>8 DEF IInv, Ahead, Types
  <2> QED
    BY <1>1, <1>2, <2>1, Tasks DEF Gone
<1> QED
  BY <1>3, <1>4, <1>5, <1>7, <1>9, <1>10 DEF IInv

\* A call ends.
LEMMA ReturnKeeps ==
  ASSUME IInv, NEW a \in Callers, ack[a] \in {"none", "got"}, NEW x \in {"none", "reloop"},
         ack' = [ack EXCEPT ![a] = x], disturbed' \in {disturbed, disturbed \ {a}},
         UNCHANGED <<chan, sig, ctl, waited>>, Due(queue', ctl')
  PROVE  IInv'
<1>1. /\ takers' = takers /\ done' = done /\ sig' = sig /\ ctl' = ctl /\ waited' = waited
      /\ \A b \in Callers : ack'[b] = IF b = a THEN x ELSE ack[b]
  BY DEF IInv, Types, chan
<1>2. Types'
  BY <1>1 DEF IInv, Types
<1>3. Taking'
  BY <1>1, Known, SameTaking
<1>4. Racing'
  BY <1>1 DEF IInv, Racing
<1>5. Holders' = Holders /\ Waiting' = IF x = "reloop" THEN Waiting \cup {a} ELSE Waiting
  BY <1>1 DEF Holders, Waiting
<1>6. Counted'
  BY <1>1, <1>5, Known, Balance, Zenon DEF Counted
<1>7. ASSUME NEW b \in Callers, Pending(b)' PROVE Pending(b) /\ b # a
  BY <1>1, <1>7 DEF Pending
<1>8. Alone'
  BY <1>1, <1>5, <1>7 DEF IInv, Alone
<1>9. Ahead'
  BY <1>1, <1>7 DEF IInv, Ahead
<1> QED
  BY <1>2, <1>3, <1>4, <1>6, <1>8, <1>9 DEF IInv

\* The power button gives up: it was the only call, or the others were disturbed.
LEMMA GiveUpKeeps == ASSUME IInv, NEW a \in Callers, GiveUp(a) PROVE IInv'
<1>1. /\ takers' \in Seq(Takers) /\ Gone(takers, takers', Ack(a))
  BY Known, Leaving DEF GiveUp
<1>2. /\ done' = done /\ sig' = sig /\ ctl' = ctl /\ waited' = waited /\ disturbed' = disturbed
      /\ ack[a] \in {"put", "take", "got"}
      /\ \A b \in Callers : ack'[b] = IF b = a THEN "reloop" ELSE ack[b]
      /\ queue' = Remove(queue, Ack(a))
  BY DEF IInv, Types, GiveUp, history
<1>3. Types'
  BY <1>1, <1>2 DEF IInv, Types, GiveUp
<1>4. Taking'
  BY <1>1, <1>2, Known, Tasks, GoneTaking
<1>5. Racing'
  BY <1>2, DueKeeps DEF IInv, Racing
<1>6. Holders' = Holders /\ Waiting' = Waiting \cup {a}
  BY <1>2 DEF Holders, Waiting
<1>7. Counted'
  BY <1>2, <1>6, Known, Balance, Zenon DEF Counted
<1>8. ASSUME NEW b \in Callers, Pending(b)' PROVE FALSE
  <2>1. b # a /\ Pending(b)
    BY <1>2, <1>8 DEF Pending
  <2> QED
    BY <1>2, <2>1 DEF IInv, Alone
<1> QED
  BY <1>3, <1>4, <1>5, <1>7, <1>8 DEF IInv, Alone, Ahead

\* signal_ack gives "cancel" to the first taker.  If nothing else is going on, that is
\* a signal(), and the only one that holds a value.
LEMMA CancelKeeps == ASSUME IInv, NEW a \in Callers, SignalAck(a), takers # <<>> PROVE IInv'
<1> DEFINE h == Head(takers)
           Silent == \A b \in Callers : ack[b] = "none"
<1>1. /\ takers' \in Seq(Takers) /\ Gone(takers, takers', h) /\ h \in Takers /\ Ack(a) \in Takers
  <2>1. takers' = Tail(takers) /\ Ack(a) \in Takers
    BY DEF SignalAck, Takers
  <2>2. h \in Takers
    BY Known, TailOf
  <2> QED
    BY <2>1, <2>2, Known, Leaving
<1>2. /\ done' = done /\ ctl' = ctl /\ ack[a] = "none"
      /\ sig' = SigTaken(sig, h) /\ ack' = [AckTaken(ack, h) EXCEPT ![a] = "put"]
      /\ queue' = queue \o <<h, Ack(a)>>
      /\ waited' = [waited EXCEPT ![a] = {s \in Sessions : sig[s] = "take"}]
      /\ disturbed \subseteq disturbed' /\ disturbed' \subseteq Callers
      /\ ~Silent => a \in disturbed' /\ \A b \in Callers : ack[b] # "none" => b \in disturbed'
  BY DEF IInv, Types, SignalAck
<1>3. Due(queue', ctl')
  <2>1. queue \in Seq(AllTasks) /\ h \in AllTasks /\ Ack(a) \in AllTasks /\ Due(queue, ctl)
    BY <1>1 DEF IInv, Racing, Due, AllTasks
  <2>2. queue' = Append(Append(queue, h), Ack(a))
    BY <1>2, <2>1, TwoAppended
  <2> QED
    BY <1>1, <1>2, <2>1, <2>2, DueKeeps, Zenon
<1>4. /\ waited' \in [Callers -> SUBSET Sessions]
      /\ waited'[a] = {s \in Sessions : sig[s] = "take"}
  BY <1>2 DEF IInv, Types
<1> HIDE DEF h
<1>5. ASSUME NEW u \in Sessions, h = Signal(u), sig[u] = "take",
             sig' = [sig EXCEPT ![u] = "taken"], ack' = [ack EXCEPT ![a] = "put"]
      PROVE  IInv'
  <2>1. /\ \A s \in Sessions : sig'[s] = IF s = u THEN "taken" ELSE sig[s]
        /\ \A b \in Callers : ack'[b] = IF b = a THEN "put" ELSE ack[b]
        /\ sig' \in [Sessions -> {"none", "start", "take", "taken", "write"}]
        /\ ack' \in [Callers -> {"none", "put", "take", "got", "reloop"}]
    BY <1>5 DEF IInv, Types
  <2>2. Types'
    BY <1>1, <1>2, <1>4, <2>1 DEF IInv, Types
  <2>3. Taking'
    <3>1. /\ \A s \in Sessions : sig'[s] = "take" <=> sig[s] = "take" /\ Signal(s) # h
          /\ \A b \in Callers : ack'[b] = "take" <=> ack[b] = "take" /\ Ack(b) # h
      BY <1>2, <1>5, <2>1, Tasks
    <3> QED
      BY <1>1, <1>2, <3>1, Known, GoneTaking, Zenon
  <2>4. Racing'
    BY <1>2, <1>3, <1>5, <2>1 DEF IInv, Racing
  <2>5. /\ Holders' = Holders \cup {u} /\ u \notin Holders
        /\ Waiting' = Waiting \cup {a} /\ a \notin Waiting
    BY <1>2, <1>5, <2>1 DEF Holders, Waiting
  <2>6. Counted'
    BY <1>2, <2>5, Known, Balance, Zenon DEF Counted
  <2>7. ASSUME NEW b \in Callers, Pending(b)' PROVE b = a /\ Silent
    BY <1>2, <2>1, <2>7 DEF Pending
  <2>8. ASSUME Silent PROVE Holders = {} /\ done = 0
    <3>1. Waiting = {}
      BY <2>8 DEF Waiting
    <3> QED
      BY <3>1, Known, NoCalls
  <2>9. Alone'
    <3>1. ASSUME Silent PROVE /\ \A b \in Callers : ack'[b] \in {"put", "take", "got"} => b = a
                              /\ \A s, r \in Holders' : s = r
                              /\ done' = 0 /\ ack'[a] = "put"
      BY <1>2, <2>1, <2>5, <2>8, <3>1
    <3> QED
      BY <2>7, <3>1 DEF Alone
  <2>10. Ahead'
    <3>1. \A s \in waited'[a] : sig'[s] \in {"take", "taken"}
      BY <1>4, <2>1
    <3> QED
      BY <2>1, <2>7, <3>1 DEF Ahead
  <2> QED
    BY <2>2, <2>3, <2>4, <2>6, <2>9, <2>10 DEF IInv
<1>6. ASSUME NEW b \in Callers, h = Ack(b), ack[b] = "take",
             sig' = sig, ack' = [[ack EXCEPT ![b] = "got"] EXCEPT ![a] = "put"]
      PROVE  IInv'
  <2>1. \A c \in Callers : ack'[c] = IF c = a THEN "put" ELSE IF c = b THEN "got" ELSE ack[c]
    BY <1>6 DEF IInv, Types
  <2>2. Types'
    BY <1>1, <1>2, <1>4, <1>6, Zenon DEF IInv, Types
  <2>3. Taking'
    <3>1. /\ \A s \in Sessions : sig'[s] = "take" <=> sig[s] = "take" /\ Signal(s) # h
          /\ \A c \in Callers : ack'[c] = "take" <=> ack[c] = "take" /\ Ack(c) # h
      BY <1>2, <1>6, <2>1, Tasks
    <3> QED
      BY <1>1, <1>2, <3>1, Known, GoneTaking, Zenon
  <2>4. Racing'
    BY <1>2, <1>3, <1>6 DEF IInv, Racing
  <2>5. /\ Holders' = Holders /\ Waiting' = (Waiting \cup {a}) \ {b}
        /\ a \notin Waiting /\ b \in Waiting
    BY <1>2, <1>6, <2>1 DEF Holders, Waiting
  <2>6. Counted'
    BY <1>2, <2>5, Known, Exchanged, Zenon DEF Counted
  <2>7. ASSUME NEW c \in Callers, Pending(c)' PROVE FALSE
    BY <1>2, <1>6, <2>1, <2>7 DEF Pending
  <2> QED
    BY <2>2, <2>3, <2>4, <2>6, <2>7 DEF IInv, Alone, Ahead
<1> QED
  BY <1>2, <1>5, <1>6, Known, FirstTaker, Zenon DEF h

\* A signal() that starts finds a value in the channel, or waits behind the others.
LEMMA StartSignalKeeps ==
  ASSUME IInv, NEW s \in Sessions, Head(queue) = Signal(s), queue # <<>>, sig[s] = "start",
         Take(Signal(s)), UNCHANGED <<ctl, history>>
  PROVE  IInv'
<1>1. /\ waited' = waited /\ disturbed' = disturbed /\ ctl' = ctl /\ ack' = ack
      /\ Signal(s) \in Takers
      /\ Types /\ Taking /\ Counted /\ Alone /\ Ahead /\ Due(queue, ctl)
  BY Tasks DEF IInv, Racing, history, Takers, Take, AckTaken
<1>2. ASSUME NEW x \in {"take", "taken"}, sig' = [sig EXCEPT ![s] = x],
             takers' \in Seq(Takers), done' \in Nat,
             queue' \in {Tail(queue), Append(Tail(queue), Signal(s))}
      PROVE  /\ Types' /\ Racing' /\ Waiting' = Waiting
             /\ \A u \in Sessions : sig'[u] = IF u = s THEN x ELSE sig[u]
             /\ \A a \in Callers : Pending(a)' <=> Pending(a)
             /\ \A a \in Callers : Pending(a) => s \notin waited[a]
             /\ s \notin Holders
  <2>1. \A u \in Sessions : sig'[u] = IF u = s THEN x ELSE sig[u]
    BY <1>1, <1>2 DEF Types
  <2>2. Types'
    BY <1>1, <1>2 DEF Types
  <2>3. Due(queue', ctl')
    BY <1>1, <1>2, DueKeeps, Zenon
  <2>4. Racing'
    BY <1>1, <2>1, <2>3 DEF IInv, Racing
  <2>5. Waiting' = Waiting /\ s \notin Holders
    BY <1>1 DEF Waiting, Holders
  <2>6. \A a \in Callers : (Pending(a)' <=> Pending(a)) /\ (Pending(a) => s \notin waited[a])
    BY <1>1 DEF Pending, Ahead
  <2> QED
    BY <2>1, <2>2, <2>4, <2>5, <2>6
<1>3. CASE done > 0
  <2>1. /\ done' = done - 1 /\ takers' = takers /\ sig' = [sig EXCEPT ![s] = "taken"]
        /\ queue' = Append(Tail(queue), Signal(s)) /\ takers' \in Seq(Takers) /\ done' \in Nat
    BY <1>1, <1>3, Tasks DEF Take, SigTaken, Types
  <2>2. /\ Types' /\ Racing' /\ Waiting' = Waiting
        /\ \A u \in Sessions : sig'[u] = IF u = s THEN "taken" ELSE sig[u]
        /\ \A a \in Callers : Pending(a)' <=> Pending(a)
        /\ \A a \in Callers : Pending(a) => s \notin waited[a]
        /\ s \notin Holders
    BY <1>2, <2>1
  <2>3. Taking'
    BY <1>1, <1>3, <2>1, <2>2 DEF Taking
  <2>4. Holders' = Holders \cup {s}
    BY <2>2 DEF Holders
  <2>5. Counted'
    BY <1>3, <2>1, <2>2, <2>4, Known, Balance, Zenon DEF Counted
  <2>6. Alone'
    <3>1. ASSUME NEW a \in Callers, Pending(a)
          PROVE  Holders = {} /\ done' = 0 /\ ack[a] # "got"
      BY <1>1, <1>3, <2>1, <3>1, Known DEF Alone
    <3>2. ASSUME NEW a \in Callers, Pending(a)
          PROVE  /\ \A b \in Callers : ack'[b] \in {"put", "take", "got"} => b = a
                 /\ \A u, r \in Holders' : u = r
                 /\ ack'[a] # "got"
      <4>1. Alone /\ ack' = ack
        BY <1>1, Known DEF Take
      <4> QED
        BY <2>4, <3>1, <3>2, <4>1, Zenon DEF Alone
    <3> QED
      BY <2>2, <3>1, <3>2 DEF Alone
  <2>7. Ahead'
    BY <1>1, <2>1, <2>2 DEF Ahead, Types
  <2> QED
    BY <2>2, <2>3, <2>5, <2>6, <2>7 DEF IInv
<1>4. CASE ~(done > 0)
  <2>1. /\ done = 0 /\ done' = 0 /\ takers' = Append(takers, Signal(s))
        /\ sig' = [sig EXCEPT ![s] = "take"]
        /\ queue' = Tail(queue) /\ takers' \in Seq(Takers) /\ done' \in Nat
    <3>1. done = 0 /\ takers \in Seq(Takers)
      BY <1>1, <1>4 DEF Types
    <3>2. /\ done' = done /\ takers' = Append(takers, Signal(s)) /\ queue' = Tail(queue)
          /\ sig' = [sig EXCEPT ![s] = "take"]
      BY <1>4, Tasks DEF Take
    <3> QED
      BY <1>1, <3>1, <3>2, Appended
  <2>2. /\ Types' /\ Racing' /\ Waiting' = Waiting
        /\ \A u \in Sessions : sig'[u] = IF u = s THEN "take" ELSE sig[u]
        /\ \A a \in Callers : Pending(a)' <=> Pending(a)
        /\ \A a \in Callers : Pending(a) => s \notin waited[a]
        /\ s \notin Holders
    BY <1>2, <2>1
  <2>3. Taking'
    <3>1. ~In(Signal(s), takers)
      BY <1>1 DEF Taking
    <3>2. \A u \in Sessions : sig'[u] = "take" <=> sig[u] = "take" \/ Signal(u) = Signal(s)
      BY <2>2, Tasks
    <3>3. \A a \in Callers : ack'[a] = "take" <=> ack[a] = "take" \/ Ack(a) = Signal(s)
      BY <1>1, Tasks
    <3> QED
      BY <1>1, <2>1, <3>1, <3>2, <3>3, AddedTaking
  <2>4. Holders' = Holders
    BY <2>2 DEF Holders
  <2>5. Counted'
    BY <1>1, <2>1, <2>2, <2>4 DEF Counted
  <2>6. Alone'
    BY <1>1, <2>1, <2>2, <2>4 DEF Alone
  <2>7. Ahead'
    <3>1. \A x, y : Before(takers, x, y) => Before(takers', x, y)
      BY <1>1, <2>1, Known, Appended
    <3> QED
      BY <1>1, <2>1, <2>2, <3>1 DEF Ahead, Types
  <2> QED
    BY <2>2, <2>3, <2>5, <2>6, <2>7 DEF IInv
<1> QED
  BY <1>3, <1>4

\* The caller of signal_ack takes the value of the last signal(), or waits behind all
\* that wait.
LEMMA TakeAckKeeps ==
  ASSUME IInv, NEW a \in Callers, Head(queue) = Ack(a), queue # <<>>, ack[a] = "put",
         Take(Ack(a)), UNCHANGED <<ctl, history>>
  PROVE  IInv'
<1>1. /\ waited' = waited /\ disturbed' = disturbed /\ ctl' = ctl /\ sig' = sig
      /\ Ack(a) \in Takers
      /\ Types /\ Taking /\ Counted /\ Alone /\ Ahead /\ Due(queue, ctl)
  BY Tasks DEF IInv, Racing, history, Takers, Take, SigTaken
<1>2. ASSUME NEW x \in {"take", "got"}, ack' = [ack EXCEPT ![a] = x],
             takers' \in Seq(Takers), done' \in Nat,
             queue' \in {Tail(queue), Append(Tail(queue), Ack(a))}
      PROVE  /\ Types' /\ Racing' /\ Holders' = Holders /\ a \in Waiting
             /\ \A b \in Callers : ack'[b] = IF b = a THEN x ELSE ack[b]
             /\ \A b \in Callers : Pending(b)' => b = a /\ Pending(a)
  <2>1. \A b \in Callers : ack'[b] = IF b = a THEN x ELSE ack[b]
    BY <1>1, <1>2 DEF Types
  <2>2. Types'
    BY <1>1, <1>2 DEF Types
  <2>3. Due(queue', ctl')
    BY <1>1, <1>2, DueKeeps, Zenon
  <2>4. Racing'
    BY <1>1, <2>3 DEF IInv, Racing
  <2>5. Holders' = Holders /\ a \in Waiting
    BY <1>1 DEF Waiting, Holders
  <2>6. ASSUME NEW b \in Callers, Pending(b)' PROVE b = a /\ Pending(a)
    <3>1. Pending(b)
      BY <1>1, <2>1, <2>6 DEF Pending
    <3> QED
      BY <1>1, <3>1 DEF Alone
  <2> QED
    BY <2>1, <2>2, <2>4, <2>5, <2>6
<1>3. CASE done > 0
  <2>1. /\ done' = done - 1 /\ takers' = takers /\ ack' = [ack EXCEPT ![a] = "got"]
        /\ queue' = Append(Tail(queue), Ack(a)) /\ takers' \in Seq(Takers) /\ done' \in Nat
    BY <1>1, <1>3, Tasks DEF Take, AckTaken, Types
  <2>2. /\ Types' /\ Racing' /\ Holders' = Holders /\ a \in Waiting
        /\ \A b \in Callers : ack'[b] = IF b = a THEN "got" ELSE ack[b]
        /\ \A b \in Callers : Pending(b)' => b = a /\ Pending(a)
    BY <1>2, <2>1
  <2>3. Taking'
    BY <1>1, <1>3, <2>1, <2>2 DEF Taking
  <2>4. Waiting' = Waiting \ {a}
    BY <2>2 DEF Waiting
  <2>5. Counted'
    BY <1>3, <2>1, <2>2, <2>4, Known, Balance, Zenon DEF Counted
  <2>6. ASSUME Pending(a) PROVE Holders = {} /\ done' = 0 /\ waited[a] = {}
    <3>1. Holders = {} /\ done' = 0
      BY <1>1, <1>3, <2>1, <2>6, Known DEF Alone
    <3>2. ASSUME NEW s \in waited[a] PROVE FALSE
      <4>1. s \in Sessions /\ sig[s] \in {"take", "taken", "write"}
        BY <1>1, <2>6, <3>2 DEF Ahead, Types
      <4>2. sig[s] = "take"
        BY <3>1, <4>1 DEF Holders
      <4> QED
        BY <1>1, <1>3, <4>1, <4>2 DEF Taking
    <3> QED
      BY <3>1, <3>2
  <2>7. Alone'
    <3>1. ASSUME Pending(a), NEW b \in Callers, ack[b] \in {"put", "take", "got"} PROVE b = a
      BY <1>1, <3>1 DEF Alone
    <3> QED
      BY <2>2, <2>6, <3>1 DEF Alone
  <2>8. Ahead'
    BY <1>1, <2>2, <2>6 DEF Ahead
  <2> QED
    BY <2>2, <2>3, <2>5, <2>7, <2>8 DEF IInv
<1>4. CASE ~(done > 0)
  <2>1. /\ done = 0 /\ done' = 0 /\ takers' = Append(takers, Ack(a))
        /\ ack' = [ack EXCEPT ![a] = "take"]
        /\ queue' = Tail(queue) /\ takers' \in Seq(Takers) /\ done' \in Nat
    <3>1. done = 0 /\ takers \in Seq(Takers)
      BY <1>1, <1>4 DEF Types
    <3>2. /\ done' = done /\ takers' = Append(takers, Ack(a)) /\ queue' = Tail(queue)
          /\ ack' = [ack EXCEPT ![a] = "take"]
      BY <1>4, Tasks DEF Take
    <3> QED
      BY <1>1, <3>1, <3>2, Appended
  <2>2. /\ Types' /\ Racing' /\ Holders' = Holders /\ a \in Waiting
        /\ \A b \in Callers : ack'[b] = IF b = a THEN "take" ELSE ack[b]
        /\ \A b \in Callers : Pending(b)' => b = a /\ Pending(a)
    BY <1>2, <2>1
  <2>3. Taking'
    <3>1. ~In(Ack(a), takers)
      BY <1>1 DEF Taking
    <3>2. \A b \in Callers : ack'[b] = "take" <=> ack[b] = "take" \/ Ack(b) = Ack(a)
      BY <2>2, Tasks
    <3>3. \A s \in Sessions : sig'[s] = "take" <=> sig[s] = "take" \/ Signal(s) = Ack(a)
      BY <1>1, Tasks
    <3> QED
      BY <1>1, <2>1, <3>1, <3>2, <3>3, AddedTaking
  <2>4. Waiting' = Waiting
    BY <2>2 DEF Waiting
  <2>5. Counted'
    BY <1>1, <2>1, <2>2, <2>4 DEF Counted
  <2>6. Alone'
    <3>1. ASSUME Pending(a)
          PROVE  /\ \A b \in Callers : ack[b] \in {"put", "take", "got"} => b = a
                 /\ \A s, r \in Holders : s = r
      BY <1>1, <3>1 DEF Alone
    <3> QED
      BY <2>1, <2>2, <3>1 DEF Alone
  <2>7. Ahead'
    <3>1. \A x : In(x, takers) => Before(takers', x, Ack(a))
      BY <1>1, <2>1, Known, Appended
    <3>2. ASSUME Pending(a), NEW s \in waited[a]
          PROVE  /\ sig[s] \in {"take", "taken", "write"}
                 /\ sig[s] = "take" => Before(takers', Signal(s), Ack(a))
      BY <1>1, <3>1, <3>2 DEF Ahead, Taking, Types
    <3> QED
      BY <1>1, <2>2, <3>2 DEF Ahead
  <2> QED
    BY <2>2, <2>3, <2>5, <2>6, <2>7 DEF IInv
<1> QED
  BY <1>3, <1>4

\* The signal() of s has ended.
Off(s) == [sig EXCEPT ![s] = "none"]

\* What has changed when the signal() of s has answered its host.
JustWritten(s) ==
  /\ sig[s] = "write" /\ ctl[s] = "race" /\ s \in Holders /\ Due(queue', ctl')
  /\ disturbed' = disturbed /\ disturbed' \subseteq Callers
  /\ waited' \in [Callers -> SUBSET Sessions] /\ ctl' \in [Sessions -> Doings]
  /\ \A a \in Callers : waited'[a] = waited[a] \ {s}
  /\ \A r \in Sessions : ctl'[r] = IF r = s THEN "resumed" ELSE ctl[r]
  /\ \A r \in Sessions : Off(s)[r] = IF r = s THEN "none" ELSE sig[r]
  /\ Off(s) \in [Sessions -> {"none", "start", "take", "taken", "write"}]

\* The only value of an undisturbed call is the one that s has taken.
OnlyHolder(s) ==
  \A a \in Callers : Pending(a) =>
    /\ Holders = {s} /\ done = 0 /\ ack[a] # "got"
    /\ \A b \in Callers : ack[b] \in {"put", "take", "got"} => b = a
    /\ \A r \in waited[a] : r \in Sessions /\ sig[r] \in {"take", "taken", "write"}
    /\ ack[a] = "take" => \A r \in waited[a] : sig[r] = "take"
                            => Before(takers, Signal(r), Ack(a))

\* A session that answers its host on behalf of an undisturbed call has its only value.
LEMMA HolderAlone ==
  ASSUME IInv, NEW s \in Sessions, sig[s] = "write" PROVE OnlyHolder(s)
<1>1. Alone /\ Ahead /\ Types /\ s \in Holders
  BY Known DEF Holders
<1>2. ASSUME NEW a \in Callers, Pending(a)
      PROVE  /\ Holders = {s} /\ done = 0 /\ ack[a] # "got"
             /\ \A b \in Callers : ack[b] \in {"put", "take", "got"} => b = a
             /\ \A u \in waited[a] : u \in Sessions /\ sig[u] \in {"take", "taken", "write"}
             /\ ack[a] = "take" => \A u \in waited[a] : sig[u] = "take"
                                     => Before(takers, Signal(u), Ack(a))
  BY <1>1, <1>2 DEF Alone, Ahead, Types
<1> QED
  BY <1>2, Zenon DEF OnlyHolder

\* A signal() that answers its host resumes its session.
LEMMA WrittenResumes ==
  ASSUME IInv, NEW s \in Sessions, Written(s) PROVE JustWritten(s)
<1>1. /\ sig[s] = "write" /\ ctl[s] = "race" /\ disturbed' = disturbed
      /\ ctl' = [ctl EXCEPT ![s] = "resumed"] /\ waited' = [a \in Callers |-> waited[a] \ {s}]
      /\ Types /\ Taking /\ Due(queue, ctl) /\ s \in Holders
      /\ queue \in Seq(AllTasks) /\ Session(s) \in AllTasks /\ takers \in Seq(Takers)
  BY DEF IInv, Racing, Types, Written, Ended, Holders, Due, AllTasks
<1>2. ctl \in [Sessions -> Doings] /\ "resumed" \in Doings /\ ctl[s] # "resumed"
  BY <1>1 DEF Types, Doings
<1>3. /\ \A r \in Sessions : ctl'[r] = IF r = s THEN "resumed" ELSE ctl[r]
      /\ ctl' \in [Sessions -> Doings]
  BY <1>1, <1>2
<1>4. /\ \A a \in Callers : waited'[a] = waited[a] \ {s}
      /\ waited' \in [Callers -> SUBSET Sessions] /\ disturbed' \subseteq Callers
  BY <1>1 DEF Types
<1>5. /\ \A r \in Sessions : Off(s)[r] = IF r = s THEN "none" ELSE sig[r]
      /\ Off(s) \in [Sessions -> {"none", "start", "take", "taken", "write"}]
  BY <1>1 DEF Types, Off
<1>6. CASE takers = <<>>
  <2>1. queue' = Append(queue, Session(s))
    BY <1>6 DEF Written
  <2> QED
    <3>1. Due(queue', ctl')
      BY <1>1, <1>2, <2>1, DueResumed, Zenon
    <3> QED
      BY <1>1, <1>3, <1>4, <1>5, <3>1 DEF JustWritten
<1>7. CASE takers # <<>>
  <2>1. queue' = queue \o <<Head(takers), Session(s)>>
    BY <1>7, Zenon DEF Written
  <2>2. Head(takers) \in Takers /\ Head(takers) \in AllTasks
    BY <1>1, <1>7, TailOf, Zenon DEF AllTasks
  <2>3. queue' = Append(Append(queue, Head(takers)), Session(s))
    BY <1>1, <2>1, <2>2, TwoAppended
  <2>4. Due(Append(queue, Head(takers)), ctl)
    BY <1>1, <2>2, DueKeeps, Zenon
  <2>5. Due(queue', ctl')
    BY <1>1, <1>2, <2>2, <2>3, <2>4, DueResumed, Zenon
  <2> QED
    BY <1>1, <1>3, <1>4, <1>5, <2>5 DEF JustWritten
<1> QED
  BY <1>6, <1>7

\* Nobody waits: "done" stays in the channel.
LEMMA WrittenToNobody ==
  ASSUME IInv, NEW s \in Sessions, JustWritten(s), OnlyHolder(s),
         takers = <<>>, done' = done + 1, takers' = takers, sig' = Off(s), ack' = ack
  PROVE  IInv'
<1>0. Types /\ Taking /\ Counted /\ Alone /\ Ahead /\ done \in Nat
  BY Known
<1>2. Types'
  BY <1>0 DEF JustWritten, Types
<1>3. Taking'
  <2>1. \A t : ~In(t, takers)
    BY DEF In
  <2>2. \A u \in Sessions : sig'[u] = "take" <=> sig[u] = "take"
    BY <1>0 DEF JustWritten
  <2> QED
    BY <1>0, <2>1, <2>2 DEF JustWritten, Taking
<1>4. Racing'
  BY <1>0 DEF JustWritten, IInv, Racing
<1>5. Holders' = Holders \ {s} /\ Waiting' = Waiting
  BY <1>0 DEF JustWritten, Holders, Waiting
<1>6. Counted'
  BY <1>0, <1>5, Known, Balance, Zenon DEF Counted, JustWritten
<1>7. \A a \in Callers : Pending(a)' <=> Pending(a)
  BY <1>0 DEF JustWritten, Pending
<1>8. Alone'
  <2>1. ASSUME NEW a \in Callers, Pending(a) PROVE Holders' = {} /\ done' = 1
    BY <1>5, <2>1 DEF OnlyHolder
  <2> QED
    BY <1>7, <2>1 DEF OnlyHolder, Alone
<1>9. Ahead'
  <2>1. ASSUME NEW a \in Callers, Pending(a), NEW r \in waited'[a]
        PROVE  /\ sig'[r] \in {"take", "taken", "write"}
               /\ ack[a] = "take" /\ sig'[r] = "take" => Before(takers, Signal(r), Ack(a))
    <3>1. r \in waited[a] /\ r # s
      BY <2>1 DEF JustWritten
    <3>2. /\ r \in Sessions /\ sig[r] \in {"take", "taken", "write"}
          /\ ack[a] = "take" /\ sig[r] = "take" => Before(takers, Signal(r), Ack(a))
      BY <2>1, <3>1, Zenon DEF OnlyHolder
    <3> QED
      BY <3>1, <3>2 DEF JustWritten
  <2> QED
    BY <1>7, <2>1, Zenon DEF OnlyHolder, Ahead
<1> QED
  BY <1>2, <1>3, <1>4, <1>6, <1>8, <1>9 DEF IInv

\* "done" is the "cancel" of the next signal().
LEMMA WrittenToSignal ==
  ASSUME IInv, NEW s \in Sessions, JustWritten(s), OnlyHolder(s),
         NEW u \in Sessions, sig[u] = "take", ack' = ack, done' = done,
         takers' \in Seq(Takers), Gone(takers, takers', Signal(u)),
         sig' = [Off(s) EXCEPT ![u] = "taken"]
  PROVE  IInv'
<1>0. Types /\ Taking /\ Counted /\ Alone /\ Ahead /\ done \in Nat
  BY Known
<1>1. /\ \A r \in Sessions : sig'[r] = IF r = s THEN "none"
                                       ELSE IF r = u THEN "taken" ELSE sig[r]
      /\ sig' \in [Sessions -> {"none", "start", "take", "taken", "write"}] /\ u # s
  BY <1>0 DEF JustWritten
<1>2. Types'
  BY <1>0, <1>1 DEF JustWritten, Types
<1>3. Taking'
  <2>1. \A r \in Sessions : Signal(r) # Signal(u) <=> r # u
    BY Tasks, Zenon
  <2>2. \A r \in Sessions : sig'[r] = "take" <=> sig[r] = "take" /\ Signal(r) # Signal(u)
    BY <1>1, <2>1 DEF JustWritten
  <2>3. \A b \in Callers : ack'[b] = "take" <=> ack[b] = "take" /\ Ack(b) # Signal(u)
    BY Tasks, Zenon
  <2> QED
    BY <1>0, <2>2, <2>3, GoneTaking, Zenon DEF JustWritten
<1>4. Racing'
  BY <1>0, <1>1 DEF JustWritten, IInv, Racing
<1>5. Holders' = (Holders \ {s}) \cup {u} /\ u \notin Holders \ {s} /\ Waiting' = Waiting
  BY <1>1 DEF Holders, Waiting
<1>6. Counted'
  BY <1>0, <1>5, Known, Exchanged, Zenon DEF Counted, JustWritten
<1>7. \A a \in Callers : Pending(a)' <=> Pending(a)
  BY <1>0 DEF JustWritten, Pending
<1>8. Alone'
  <2>1. ASSUME NEW a \in Callers, Pending(a) PROVE Holders' = {u} /\ done' = 0
    BY <1>5, <2>1, Zenon DEF OnlyHolder
  <2>2. ASSUME NEW a \in Callers, Pending(a)
        PROVE  /\ \A b \in Callers : ack'[b] \in {"put", "take", "got"} => b = a
               /\ \A q, r \in Holders' : q = r
               /\ ack'[a] # "got"
    BY <2>1, <2>2, Zenon DEF OnlyHolder
  <2> QED
    BY <1>7, <2>1, <2>2 DEF Alone
<1>9. Ahead'
  <2>1. ASSUME NEW a \in Callers, Pending(a), NEW r \in waited'[a]
        PROVE  /\ r \in Sessions /\ sig'[r] \in {"take", "taken", "write"}
               /\ ack[a] = "take" /\ sig'[r] = "take" => Before(takers', Signal(r), Ack(a))
    <3>0. r \in waited[a] /\ r # s
      BY <2>1, Zenon DEF JustWritten
    <3>1. r \in waited[a] /\ r # s /\ r \in Sessions /\ sig[r] \in {"take", "taken", "write"}
      BY <2>1, <3>0, Zenon DEF OnlyHolder
    <3>2. sig'[r] = "take" => sig[r] = "take" /\ Signal(r) # Signal(u) /\ Ack(a) # Signal(u)
      BY <1>1, <3>1, Tasks
    <3> QED
      BY <1>1, <2>1, <3>1, <3>2, Zenon DEF OnlyHolder, Gone
  <2> QED
    BY <1>7, <2>1, Zenon DEF OnlyHolder, Ahead
<1> QED
  BY <1>2, <1>3, <1>4, <1>6, <1>8, <1>9 DEF IInv

\* "done" reaches a caller that nobody stood in front of.
LEMMA WrittenToCaller ==
  ASSUME IInv, NEW s \in Sessions, JustWritten(s), OnlyHolder(s),
         NEW b \in Callers, ack[b] = "take", sig' = Off(s), done' = done,
         takers' \in Seq(Takers), Gone(takers, takers', Ack(b)),
         \A t : ~Before(takers, t, Ack(b)), ack' = [ack EXCEPT ![b] = "got"]
  PROVE  IInv'
<1>0. Types /\ Taking /\ Counted /\ Alone /\ Ahead /\ done \in Nat
  BY Known
<1>1. /\ \A c \in Callers : ack'[c] = IF c = b THEN "got" ELSE ack[c]
      /\ ack' \in [Callers -> {"none", "put", "take", "got", "reloop"}]
  BY <1>0 DEF JustWritten, Types
<1>2. Types'
  BY <1>0, <1>1, Zenon DEF JustWritten, Types
<1>3. Taking'
  <2>1. \A r \in Sessions : sig'[r] = "take" <=> sig[r] = "take"
    BY <1>0, Zenon DEF JustWritten
  <2>2. \A r \in Sessions : Signal(r) # Ack(b)
    BY Tasks
  <2>3. \A c \in Callers : Ack(c) # Ack(b) <=> c # b
    BY Tasks
  <2>4. \A c \in Callers : ack'[c] = "take" <=> ack[c] = "take" /\ Ack(c) # Ack(b)
    BY <1>1, <2>3
  <2> QED
    BY <1>0, <2>1, <2>2, <2>4, GoneTaking, Zenon DEF JustWritten
<1>4. Racing'
  BY <1>0, Zenon DEF JustWritten, IInv, Racing
<1>5. Holders' = Holders \ {s} /\ Waiting' = Waiting \ {b} /\ b \in Waiting
  <2>1. Holders' = Holders \ {s}
    BY <1>0, Zenon DEF JustWritten, Holders
  <2>2. Waiting' = Waiting \ {b} /\ b \in Waiting
    BY <1>1 DEF Waiting
  <2> QED
    BY <2>1, <2>2
<1>6. Counted'
  BY <1>0, <1>5, Known, Balance, Zenon DEF Counted, JustWritten
<1>7. ASSUME NEW a \in Callers, Pending(a)'
      PROVE  /\ a = b /\ Pending(b) /\ Holders' = {} /\ done' = 0 /\ waited'[b] = {}
             /\ \A c \in Callers : ack[c] \in {"put", "take", "got"} => c = b
  <2>1. Pending(a)
    BY <1>0, <1>1, <1>7 DEF JustWritten, Pending
  <2>2. a = b /\ Holders' = {} /\ done' = 0
    BY <1>5, <2>1 DEF OnlyHolder
  <2>3. ASSUME NEW r \in waited'[b] PROVE FALSE
    <3>0. r \in waited[b] /\ r # s
      BY <2>3 DEF JustWritten
    <3>1. r \in waited[b] /\ r # s /\ r \in Sessions /\ sig[r] \in {"take", "taken", "write"}
      BY <2>1, <2>2, <3>0, Zenon DEF OnlyHolder
    <3>2. r \notin Holders
      BY <2>1, <3>1, Zenon DEF OnlyHolder
    <3>3. Before(takers, Signal(r), Ack(b))
      BY <2>1, <2>2, <3>1, <3>2 DEF OnlyHolder, Holders
    <3> QED
      BY <3>3
  <2> QED
    BY <2>1, <2>2, <2>3, Zenon DEF OnlyHolder
<1>8. Alone'
  <2>1. ASSUME NEW a \in Callers, Pending(a)'
        PROVE  /\ \A c \in Callers : ack'[c] \in {"put", "take", "got"} => c = a
               /\ Holders' = {} /\ done' = 0
    <3>1. \A c \in Callers : ack[c] \in {"put", "take", "got"} => c = a
      BY <1>7, <2>1
    <3>2. a = b /\ Holders' = {} /\ done' = 0
      BY <1>7, <2>1
    <3> QED
      BY <1>1, <3>1, <3>2
  <2> QED
    BY <2>1 DEF Alone
<1>9. Ahead'
  BY <1>1, <1>7, Zenon DEF Ahead
<1> QED
  BY <1>2, <1>3, <1>4, <1>6, <1>8, <1>9 DEF IInv

\* A signal() has answered its host.  Its "done" is the "cancel" of the next one, or the
\* answer to the caller; then there was nobody in front of the caller any more.
LEMMA WrittenKeeps == ASSUME IInv, NEW s \in Sessions, Written(s) PROVE IInv'
<1> DEFINE h == Head(takers)
<1>1. JustWritten(s) /\ OnlyHolder(s) /\ Types /\ Taking /\ takers \in Seq(Takers)
  BY WrittenResumes, HolderAlone, Known, Zenon DEF JustWritten
<1>2. CASE takers = <<>>
  <2>1. done' = done + 1 /\ takers' = takers /\ sig' = Off(s) /\ ack' = ack
    BY <1>2 DEF Written, Off
  <2> QED
    BY <1>1, <1>2, <2>1, WrittenToNobody
<1>3. CASE takers # <<>>
  <2>1. /\ done' = done /\ takers' = Tail(takers)
        /\ sig' = SigTaken(Off(s), h) /\ ack' = AckTaken(ack, h)
    BY <1>3, Zenon DEF Written, Off
  <2>2. takers' \in Seq(Takers) /\ Gone(takers, takers', h)
    BY <1>1, <1>3, <2>1, Known, Leaving, TailOf, Zenon
  <2>3. \A t : ~Before(takers, t, h)
    BY <1>3, Known, Popped, Zenon
  <2> HIDE DEF h
  <2>4. ASSUME NEW u \in Sessions, h = Signal(u), sig[u] = "take",
               \A f : SigTaken(f, h) = [f EXCEPT ![u] = "taken"], \A f : AckTaken(f, h) = f
        PROVE  IInv'
    <3>1. /\ sig' = [Off(s) EXCEPT ![u] = "taken"] /\ ack' = ack
          /\ Gone(takers, takers', Signal(u))
      BY <2>1, <2>2, <2>4
    <3> QED
      BY <1>1, <2>1, <2>2, <2>4, <3>1, WrittenToSignal
  <2>5. ASSUME NEW b \in Callers, h = Ack(b), ack[b] = "take",
               \A f : AckTaken(f, h) = [f EXCEPT ![b] = "got"], \A f : SigTaken(f, h) = f
        PROVE  IInv'
    <3>1. /\ ack' = [ack EXCEPT ![b] = "got"] /\ sig' = Off(s)
          /\ Gone(takers, takers', Ack(b)) /\ \A t : ~Before(takers, t, Ack(b))
      BY <2>1, <2>2, <2>3, <2>5
    <3> QED
      BY <1>1, <2>1, <2>2, <2>5, <3>1, WrittenToCaller
  <2> QED
    BY <1>1, <1>3, <2>4, <2>5, FirstTaker, Zenon DEF h
<1> QED
  BY <1>2, <1>3

\* Request, Answered and the steps of a session.
LEMMA SessionKeeps ==
  ASSUME IInv, NEW s \in Sessions, Request(s) \/ Answered(s) \/ (queue # <<>> /\ StepSession(s))
  PROVE  IInv'
<1>1. /\ Types /\ Due(queue, ctl) /\ ctl \in [Sessions -> Doings] /\ Signal(s) \in Takers
      /\ ctl[s] # "race" => sig[s] = "none"
      /\ sig \in [Sessions -> {"none", "start", "take", "taken", "write"}]
      /\ [sig EXCEPT ![s] = sig[s]] = sig
  BY DEF IInv, Types, Racing, Takers
<1>2. ASSUME NEW q, Due(q, ctl), ~In(Session(s), q), ctl[s] # "race",
             UNCHANGED <<chan, ack, history>>,
             \/ EnterRace(s) /\ queue' = Append(q, Signal(s))
             \/ ctl' = [ctl EXCEPT ![s] = "answer"] /\ queue' = q /\ UNCHANGED sig
             \/ ctl' = [ctl EXCEPT ![s] = "read"] /\ queue' = q /\ UNCHANGED sig
      PROVE  IInv'
  <2>1. \A v : Due(q, [ctl EXCEPT ![s] = v])
    BY <1>1, <1>2, DueOthers, Zenon
  <2>2. \A v : Due(Append(q, Signal(s)), [ctl EXCEPT ![s] = v])
    BY <1>1, <2>1, DueKeeps, Zenon
  <2>3. CASE EnterRace(s) /\ queue' = Append(q, Signal(s))
    <3>1. sig' = [sig EXCEPT ![s] = "start"] /\ ctl' = [ctl EXCEPT ![s] = "race"]
      BY <2>3 DEF EnterRace
    <3> QED
      BY <1>1, <1>2, <2>2, <2>3, <3>1, QuietKeeps, Zenon DEF Doings
  <2>4. ASSUME NEW v \in {"answer", "read"}, ctl' = [ctl EXCEPT ![s] = v], queue' = q,
               sig' = sig
        PROVE  IInv'
    <3>1. sig[s] = "none" /\ sig' = [sig EXCEPT ![s] = "none"]
      BY <1>1, <1>2, <2>4
    <3> QED
      BY <1>2, <2>1, <2>4, <3>1, QuietKeeps, Zenon DEF Doings
  <2> QED
    BY <1>2, <2>3, <2>4
<1>3. CASE Request(s)
  <2>1. ~In(Session(s), queue) /\ ctl[s] # "race"
    BY <1>1, <1>3 DEF Request, Due
  <2> QED
    BY <1>1, <1>2, <1>3, <2>1 DEF Request
<1>4. CASE Answered(s)
  <2>1. ~In(Session(s), queue) /\ ctl[s] # "race"
    BY <1>1, <1>4 DEF Answered, Due
  <2> QED
    BY <1>1, <1>2, <1>4, <2>1, ClearKeeps DEF Answered
<1>5. CASE queue # <<>> /\ StepSession(s)
  <2>1. Due(Tail(queue), ctl) /\ ~In(Session(s), Tail(queue))
    BY <1>1, <1>5, DueKeeps, Zenon DEF StepSession
  <2>2. In(Session(s), queue)
    BY <1>1, <1>5, TailOf DEF Due, StepSession
  <2>3. ctl[s] # "race"
    BY <1>1, <2>2 DEF Due
  <2> QED
    BY <1>2, <1>5, <2>1, <2>3, Zenon DEF StepSession
<1> QED
  BY <1>3, <1>4, <1>5

\* Finish and WriteFails.
LEMMA RaceEndKeeps == ASSUME IInv, NEW s \in Sessions, Finish(s) \/ WriteFails(s) PROVE IInv'
<1>1. /\ Due(queue, ctl) /\ ctl \in [Sessions -> Doings]
      /\ ctl[s] = "race" <=> sig[s] # "none"
  BY DEF IInv, Types, Racing
<1>2. s \in Holders <=> sig[s] \in {"taken", "write"}
  BY DEF Holders
<1>3. ctl[s] = "race" /\ Leave(s) /\ UNCHANGED <<done, ack>>
  BY <1>1 DEF Finish, WriteFails
<1>4. Due(queue', ctl')
  <2>1. queue' \in {Append(queue, Session(s)), Append(Remove(queue, Signal(s)), Session(s))}
    BY DEF Finish, WriteFails
  <2>2. Due(Remove(queue, Signal(s)), ctl)
    BY <1>1, DueKeeps
  <2>3. ctl' = [ctl EXCEPT ![s] = "resumed"]
    BY <1>3 DEF Leave
  <2>4. \A q : Due(q, ctl) => Due(Append(q, Session(s)), ctl')
    <3>1. ctl[s] # "resumed"
      BY <1>3
    <3> QED
      BY <1>1, <2>3, <3>1, DueResumed, Zenon
  <2> QED
    BY <1>1, <2>1, <2>2, <2>4, Zenon
<1>5. disturbed' = IF s \in Holders THEN disturbed \cup {a \in Callers : ack[a] # "none"}
                   ELSE disturbed
  BY <1>2 DEF Finish, WriteFails
<1> QED
  BY <1>3, <1>4, <1>5, LeaveKeeps, Zenon

\* signal_ack, and the steps of its caller.
LEMMA AckKeeps ==
  ASSUME IInv, NEW a \in Callers, SignalAck(a) \/ (queue # <<>> /\ StepAck(a))
  PROVE  IInv'
<1>1. Due(queue, ctl)
  BY DEF IInv, Racing
<1>2. ASSUME ack[a] \in {"none", "got"}, Return(a), a # "off" => UNCHANGED chan /\ Due(queue', ctl)
      PROVE  IInv'
  <2>1. CASE a = "off" /\ Clear
    BY <2>1, ClearKeeps
  <2>2. CASE ~(a = "off" /\ Clear)
    <3>1. /\ a # "off" /\ UNCHANGED <<ctl, sig, waited>>
          /\ disturbed' \in {disturbed, disturbed \ {a}}
          /\ \E x \in {"none", "reloop"} : ack' = [ack EXCEPT ![a] = x]
      BY <1>2, <2>2 DEF Return, history
    <3> QED
      BY <1>2, <3>1, ReturnKeeps, Zenon
  <2> QED
    BY <2>1, <2>2
<1>3. CASE SignalAck(a) /\ takers = <<>>
  BY <1>1, <1>2, <1>3 DEF SignalAck
<1>4. CASE SignalAck(a) /\ takers # <<>>
  BY <1>4, CancelKeeps
<1>5. CASE queue # <<>> /\ StepAck(a)
  <2>1. Due(Tail(queue), ctl)
    BY <1>1, <1>5, DueKeeps
  <2>2. CASE ack[a] = "put" /\ Take(Ack(a)) /\ UNCHANGED <<ctl, history>>
    BY <1>5, <2>2, TakeAckKeeps DEF StepAck
  <2>3. CASE ack[a] = "got" /\ Return(a) /\ (a # "off" => queue' = Tail(queue) /\ UNCHANGED chan)
    BY <1>2, <2>1, <2>3, Zenon
  <2> QED
    BY <1>5, <2>2, <2>3 DEF StepAck
<1> QED
  BY <1>3, <1>4, <1>5

\* Nothing happens.
LEMMA IdleKeeps == IInv /\ UNCHANGED vars => IInv'
<1> SUFFICES ASSUME IInv, UNCHANGED vars PROVE IInv'
  OBVIOUS
<1>1. /\ takers' = takers /\ done' = done /\ queue' = queue /\ ctl' = ctl /\ sig' = sig
      /\ ack' = ack /\ waited' = waited /\ disturbed' = disturbed
  BY DEF vars
<1>2. Types' /\ Taking' /\ Racing'
  BY <1>1 DEF IInv, Types, Taking, Racing
<1>3. Holders' = Holders /\ Waiting' = Waiting /\ \A a : Pending(a)' <=> Pending(a)
  BY <1>1 DEF Holders, Waiting, Pending
<1> QED
  BY <1>1, <1>2, <1>3, Zenon DEF IInv, Counted, Alone, Ahead

\* Every step keeps the invariant.
LEMMA NextKeeps == IInv /\ [Next]_vars => IInv'
<1> SUFFICES ASSUME IInv, Next PROVE IInv'
  BY IdleKeeps
<1>1. ASSUME NEW s \in Sessions,
             Request(s) \/ Finish(s) \/ Written(s) \/ WriteFails(s) \/ Answered(s)
      PROVE  IInv'
  BY <1>1, SessionKeeps, RaceEndKeeps, WrittenKeeps
<1>2. ASSUME NEW a \in Callers, SignalAck(a) \/ GiveUp(a) \/ InternalReloop(a) PROVE IInv'
  BY <1>2, AckKeeps, GiveUpKeeps, ClearKeeps DEF InternalReloop
<1>3. ASSUME queue # <<>>, NEW s \in Sessions, StepSignal(s) PROVE IInv'
  <2>1. CASE sig[s] = "start" /\ Take(Signal(s))
    BY <1>3, <2>1, StartSignalKeeps DEF StepSignal
  <2>2. CASE /\ sig[s] = "taken" /\ sig' = [sig EXCEPT ![s] = "write"]
             /\ queue' = Tail(queue) /\ UNCHANGED <<chan, ack>>
    <3>1. /\ UNCHANGED <<chan, ack, history>> /\ ctl' = ctl
      BY <1>3, <2>2 DEF StepSignal
    <3>2. ctl[s] = "race" /\ ctl = [ctl EXCEPT ![s] = "race"] /\ Due(queue, ctl)
      BY <2>2 DEF IInv, Racing, Types
    <3>3. Due(queue', ctl')
      BY <1>3, <2>2, <3>1, <3>2, DueKeeps
    <3> QED
      BY <2>2, <3>1, <3>2, <3>3, QuietKeeps, Zenon DEF Doings
  <2> QED
    BY <1>3, <2>1, <2>2 DEF StepSignal
<1>4. CASE Step
  BY <1>3, <1>4, SessionKeeps, AckKeeps DEF Step
<1> QED
  BY <1>1, <1>2, <1>4 DEF Next

\* When signal_ack() returns and nothing has interfered with it, every session that
\* waited when it was called has told its host so, for any number of interfaces and
\* of users of signal_ack.
THEOREM CancelReachesAll == Spec => []AllCancelled
<1>1. Init => IInv
  <2> SUFFICES ASSUME Init PROVE IInv
    OBVIOUS
  <2>1. /\ takers = <<>> /\ done = 0 /\ queue = <<>>
        /\ ctl = [s \in Sessions |-> "read"] /\ sig = [s \in Sessions |-> "none"]
        /\ ack = [a \in Callers |-> "none"]
        /\ waited = [a \in Callers |-> {}] /\ disturbed = {}
    BY DEF Init, Fresh
  <2>2. \A x : ~In(x, <<>>) /\ Once(x, <<>>)
    BY DEF In, Once
  <2>3. Types /\ Taking /\ Racing
    BY <2>1, <2>2 DEF Types, Doings, Taking, Racing, Due, Distinct
  <2>4. Holders = {} /\ Waiting = {}
    BY <2>1 DEF Holders, Waiting
  <2>5. Counted
    BY <2>1, <2>4, NothingCounted DEF Counted
  <2> QED
    BY <2>1, <2>3, <2>5 DEF IInv, Alone, Ahead, Pending
<1>2. IInv => AllCancelled
  BY DEF IInv, Ahead, Pending, AllCancelled
<1> QED
  BY <1>1, <1>2, NextKeeps, PTL DEF Spec
====
