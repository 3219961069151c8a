---------------------------- MODULE SignTxProofs ----------------------------
(***************************************************************************)
(* Proofs that SilentOutputsReturn and ShownIsPaid hold for any number of  *)
(* inputs, outputs, coins, accounts and any amounts.  The second needs     *)
(* what sums over finite sets do; the induction behind it is that every    *)
(* nonempty set of natural numbers has a least element.                    *)
(***************************************************************************)
EXTENDS SignTx, FiniteSetTheorems, WellFoundedInduction, TLAPS

\* The positions that confirmed speaks of: step 2 counts the outputs.
Counted ==
  /\ outs \in Seq(Outputs)
  /\ phase = "step1" => outs = <<>>
  /\ phase = "step2" => i = Len(outs)

\* Nothing is signed while paths and outputs are still collected.
SignedLate == phase \in {"step1", "step2"} => sigs = {}

\* An output that was not shown is the change of the one account of all inputs.
SilentIsChange ==
  \A n \in DOMAIN outs : n \in confirmed \/ OutputIsChange(outs[n])

\* A signature is for the outputs of step 2 and passes check_input.
SignedAsChecked ==
  \A sig \in sigs : sig.outs = outs /\ (path = Mismatch \/ path = truth[sig.coin].script.owner)

IInv == Counted /\ SignedLate /\ SilentIsChange /\ SignedAsChecked

-----------------------------------------------------------------------------
\* The start of a transaction, also after an error, establishes the invariant.
LEMMA StartIInv == Start => IInv'
  BY DEF Start, IInv, Counted, SignedLate, SilentIsChange, SignedAsChecked

\* A step that collects nothing and signs nothing keeps the invariant.
LEMMA QuietIInv ==
  ASSUME IInv, UNCHANGED <<truth, outs, path, confirmed, sigs>>,
         phase \notin {"step1", "step2"}, phase' \notin {"step1", "step2"}
  PROVE  IInv'
  BY DEF IInv, Counted, SignedLate, SilentIsChange, SignedAsChecked, OutputIsChange

\* So does one that signs for the collected outputs after check_input.
LEMMA SignIInv ==
  ASSUME IInv, UNCHANGED <<truth, outs, path, confirmed, phase>>,
         phase \notin {"step1", "step2"},
         NEW txi, CheckInput(txi),
         \A sig \in sigs' \ sigs : sig.outs = outs /\ truth[sig.coin].script = txi.claim.script
  PROVE  IInv'
  BY DEF IInv, Counted, SignedLate, SilentIsChange, SignedAsChecked, OutputIsChange,
         CheckInput

\* What the three ways of signing give out: a coin of the claimed owner and the outputs.
LEMMA SignatureFacts ==
  ASSUME NEW txi, NEW n
  PROVE  /\ \A sig \in LegacySignature(txi, ins, outs) :
              sig.outs = outs /\ truth[sig.coin].script = txi.claim.script
         /\ \A sig \in Bip143Signature(txi) :
              sig.outs = outs /\ truth[sig.coin].script = txi.claim.script
         /\ \A sig \in TaprootSignature(txi, n) :
              sig.outs = outs /\ truth[sig.coin].script = txi.claim.script
  BY DEF LegacySignature, Bip143Signature, TaprootSignature, Signature

\* step1_process_inputs: there are neither outputs nor signatures.
LEMMA Step1IInv == IInv /\ Step1 => IInv'
<1> SUFFICES ASSUME IInv, Step1, ~Fail PROVE IInv'
  BY StartIInv DEF Fail
<1>1. phase = "step1" /\ phase' \in {"step1", "step2"} /\ UNCHANGED <<outs, sigs>>
      /\ (phase' = "step2" => i' = 0)
  BY DEF Step1
<1> QED
  BY <1>1 DEF IInv, Counted, SignedLate, SilentIsChange, SignedAsChecked

\* step2_approve_outputs: the new output is shown, or is change.
LEMMA Step2IInv == IInv /\ Step2 => IInv'
<1> SUFFICES ASSUME IInv, Step2 PROVE IInv'
  OBVIOUS
<1>1. CASE i < OutputsCount
  <2>1. PICK txo \in Outputs :
          /\ outs' = Append(outs, txo)
          /\ confirmed' = IF OutputIsChange(txo) THEN confirmed ELSE confirmed \cup {i + 1}
          /\ i' = i + 1 /\ phase' = phase
    BY <1>1 DEF Step2
  <2>2. phase = "step2" /\ path' = path /\ sigs' = sigs
    BY DEF Step2
  <2>3. outs \in Seq(Outputs) /\ i = Len(outs) /\ sigs = {}
    BY <2>2 DEF IInv, Counted, SignedLate
  <2>4. Counted'
    BY <2>1, <2>2, <2>3 DEF Counted
  <2>5. SilentIsChange'
    <3> SUFFICES ASSUME NEW n \in DOMAIN outs'
                 PROVE  n \in confirmed' \/ OutputIsChange(outs[n])'
      BY DEF SilentIsChange
    <3>1. CASE n \in DOMAIN outs
      <4>1. outs'[n] = outs[n]
        BY <2>1, <2>3, <3>1
      <4>2. n \in confirmed \/ OutputIsChange(outs[n])
        BY <3>1 DEF IInv, SilentIsChange
      <4> QED
        BY <2>1, <2>2, <4>1, <4>2 DEF OutputIsChange
    <3>2. CASE n \notin DOMAIN outs
      <4>1. n = i + 1 /\ outs'[n] = txo
        BY <2>1, <2>3, <3>2
      <4> QED
        BY <2>1, <2>2, <4>1 DEF OutputIsChange
    <3> QED
      BY <3>1, <3>2
  <2> QED
    BY <2>2, <2>3, <2>4, <2>5 DEF IInv, SignedLate, SignedAsChecked
<1>2. CASE ~(i < OutputsCount)
  BY <1>2 DEF Step2, IInv, Counted, SignedLate, SilentIsChange, SignedAsChecked, OutputIsChange
<1> QED
  BY <1>1, <1>2

\* sign_nonsegwit_input and sign_segwit_input sign after check_input, or fail.
LEMMA SigningIInv ==
  ASSUME IInv, phase \notin {"step1", "step2"}, NEW n, SignNonsegwit(n) \/ SignSegwit(n)
  PROVE  IInv'
<1>1. CASE Fail
  BY <1>1, StartIInv DEF Fail
<1>2. ASSUME ~Fail, SignNonsegwit(n) PROVE IInv'
  <2>1. PICK txi \in Inputs :
          /\ CheckInput(txi) /\ sigs' = sigs \cup LegacySignature(txi, ins, outs)
          /\ UNCHANGED <<truth, phase, outs, path, confirmed>>
    BY <1>2 DEF SignNonsegwit, session
  <2> QED
    BY <2>1, SignatureFacts, SignIInv, Zenon
<1>3. ASSUME ~Fail, SignSegwit(n) PROVE IInv'
  <2>1. PICK txi \in Inputs :
          /\ CheckInput(txi)
          /\ sigs' = sigs \cup IF txi.claim.script.type = "taproot" THEN TaprootSignature(txi, n)
                               ELSE Bip143Signature(txi)
          /\ UNCHANGED <<truth, phase, outs, path, confirmed>>
    BY <1>3 DEF SignSegwit, session
  <2> QED
    BY <2>1, SignatureFacts, SignIInv, Zenon
<1> QED
  BY <1>1, <1>2, <1>3

\* Every step keeps the invariant.
LEMMA NextIInv == IInv /\ [Next]_vars => IInv'
<1> SUFFICES ASSUME IInv, [Next]_vars PROVE IInv'
  OBVIOUS
<1>1. CASE Step1
  BY <1>1, Step1IInv
<1>2. CASE Step2
  BY <1>2, Step2IInv
<1>3. CASE ApproveTx
  BY <1>3, StartIInv, QuietIInv DEF ApproveTx, Fail, session
<1>4. CASE Step3
  BY <1>4, StartIInv, QuietIInv DEF Step3, Fail, session
<1>5. CASE Step4
  BY <1>5, SigningIInv, QuietIInv DEF Step4, session
<1>6. CASE Step6
  BY <1>6, SigningIInv, StartIInv, QuietIInv DEF Step6, session
<1>7. CASE UNCHANGED vars
  BY <1>7 DEF vars, IInv, Counted, SignedLate, SilentIsChange, SignedAsChecked, OutputIsChange
<1> QED
  BY <1>1, <1>2, <1>3, <1>4, <1>5, <1>6, <1>7 DEF Next

\* However the host changes its answers between the steps of a transaction of any
\* size, an output that the user has not confirmed in step2_approve_outputs pays
\* the account whose key has signed.
THEOREM SilentReturn == Spec => []SilentOutputsReturn
<1>1. Init => IInv
  BY DEF Init, IInv, Counted, SignedLate, SilentIsChange, SignedAsChecked
<1>2. IInv => SilentOutputsReturn
  BY PathAssumption DEF IInv, SilentIsChange, SignedAsChecked, OutputIsChange, SilentOutputsReturn
<1> QED
  BY <1>1, <1>2, NextIInv, PTL DEF Spec

-----------------------------------------------------------------------------
\* The order of the natural numbers.
Less == {p \in Nat \X Nat : p[1] < p[2]}

\* A set of natural numbers is all of them if it is closed under successor.
LEMMA Induction ==
  ASSUME NEW P \in SUBSET Nat, 0 \in P, \A n \in P : n + 1 \in P
  PROVE  P = Nat
<1> SUFFICES ASSUME NEW k \in Nat, k \notin P PROVE FALSE
  OBVIOUS
<1> DEFINE T == Nat \ P
<1>1. IsWellFoundedOn(Less, Nat)
  <2>1. Less = OpToRel(<, Nat)
    BY DEF OpToRel, Less
  <2> QED
    BY <2>1, NatLessThanWellFounded, Zenon
<1>2. PICK m \in T : \A n \in T : ~(<<n, m>> \in Less)
  BY <1>1, WFMin
<1>3. m \in Nat /\ m \notin P /\ m # 0
  BY <1>2
<1>4. m - 1 \in Nat /\ <<m - 1, m>> \in Less
  BY <1>3 DEF Less
<1>5. m - 1 \in P
  BY <1>2, <1>4
<1>6. (m - 1) + 1 = m
  BY <1>3
<1> QED
  BY <1>3, <1>5, <1>6

-----------------------------------------------------------------------------
\* The element that a fold takes from a set first.
Pick(s) == CHOOSE x \in s : TRUE

\* One step of the fold, if g is the fold of what is left.
Summand(f, g, s) == IF s = {} THEN 0 ELSE f[Pick(s)] + g[s \ {Pick(s)}]

\* The functions that give the sum of f over every part of S.
Sums(f, S) == {g \in [SUBSET S -> Int] : \A s \in SUBSET S : g[s] = Summand(f, g, s)}

\* Finite sets, one element less.
LEMMA Smaller ==
  ASSUME NEW s, IsFiniteSet(s), s # {}
  PROVE  /\ Pick(s) \in s
         /\ IsFiniteSet(s \ {Pick(s)})
         /\ Cardinality(s) \in Nat /\ Cardinality(s) # 0
         /\ Cardinality(s \ {Pick(s)}) = Cardinality(s) - 1
<1>1. Pick(s) \in s
  BY DEF Pick
<1> QED
  BY <1>1, FS_RemoveElement, FS_CardinalityType, FS_EmptySet

\* There is such a function for every finite set.
LEMMA SumsExist ==
  ASSUME NEW S, IsFiniteSet(S), NEW f, \A x \in S : f[x] \in Int
  PROVE  Sums(f, S) # {}
<1> DEFINE Upto(n, g) == \A s \in SUBSET S : Cardinality(s) <= n => g[s] = Summand(f, g, s)
           P == {n \in Nat : \E g \in [SUBSET S -> Int] : Upto(n, g)}
<1>1. \A s \in SUBSET S : /\ IsFiniteSet(s) /\ Cardinality(s) \in Nat
                          /\ Cardinality(s) <= Cardinality(S)
  BY FS_Subset, FS_CardinalityType
<1>2. 0 \in P
  <2> DEFINE g == [s \in SUBSET S |-> 0]
  <2>1. ASSUME NEW s \in SUBSET S, Cardinality(s) <= 0 PROVE g[s] = Summand(f, g, s)
    <3>1. s = {}
      BY <1>1, <2>1, FS_EmptySet
    <3> QED
      BY <3>1 DEF Summand
  <2>2. g \in [SUBSET S -> Int]
    OBVIOUS
  <2> QED
    BY <2>1, <2>2
<1>3. ASSUME NEW n \in P PROVE n + 1 \in P
  <2>1. PICK g \in [SUBSET S -> Int] : Upto(n, g)
    OBVIOUS
  <2> DEFINE h == [s \in SUBSET S |-> IF Cardinality(s) <= n THEN g[s] ELSE Summand(f, g, s)]
  <2>2. \A s \in SUBSET S : s # {} => /\ Pick(s) \in S /\ s \ {Pick(s)} \in SUBSET S
                                      /\ Cardinality(s \ {Pick(s)}) = Cardinality(s) - 1
    BY <1>1, Smaller
  <2>3. \A s \in SUBSET S : Summand(f, g, s) \in Int
    BY <2>2 DEF Summand
  <2>4. h \in [SUBSET S -> Int]
    BY <2>3
  <2>5. ASSUME NEW s \in SUBSET S, Cardinality(s) <= n + 1 PROVE h[s] = Summand(f, h, s)
    <3>1. h[s] = Summand(f, g, s)
      BY <2>1
    <3>2. ASSUME s # {} PROVE h[s \ {Pick(s)}] = g[s \ {Pick(s)}]
      <4>1. s \ {Pick(s)} \in SUBSET S /\ Cardinality(s \ {Pick(s)}) <= n
        BY <1>1, <2>2, <2>5, <3>2
      <4> QED
        BY <4>1
    <3> QED
      BY <3>1, <3>2 DEF Summand
  <2>6. n + 1 \in Nat
    OBVIOUS
  <2> QED
    BY <2>4, <2>5, <2>6
<1>4. Cardinality(S) \in P
  <2> HIDE DEF P
  <2>1. P \in SUBSET Nat
    BY DEF P
  <2> QED
    BY <1>1, <1>2, <1>3, <2>1, Induction
<1> QED
  BY <1>1, <1>4 DEF Sums

\* The sum of f over a subset, as any of these functions gives it.
LEMMA SumsAgree ==
  ASSUME NEW S, IsFiniteSet(S), NEW T \in SUBSET S, NEW f,
         NEW g \in Sums(f, S), NEW h, \A s \in SUBSET T : h[s] = Summand(f, h, s)
  PROVE  \A s \in SUBSET T : g[s] = h[s]
<1> DEFINE P == {n \in Nat : \A s \in SUBSET T : Cardinality(s) = n => g[s] = h[s]}
<1>1. \A s \in SUBSET T : s \in SUBSET S /\ IsFiniteSet(s) /\ Cardinality(s) \in Nat
  BY FS_Subset, FS_CardinalityType
<1>2. \A s \in SUBSET T : g[s] = Summand(f, g, s) /\ h[s] = Summand(f, h, s)
  BY <1>1 DEF Sums
<1>3. 0 \in P
  <2>1. ASSUME NEW s \in SUBSET T, Cardinality(s) = 0 PROVE g[s] = h[s]
    <3>1. s = {}
      BY <1>1, <2>1, FS_EmptySet
    <3> QED
      BY <1>2, <3>1 DEF Summand
  <2> QED
    BY <2>1
<1>4. ASSUME NEW n \in P PROVE n + 1 \in P
  <2>1. ASSUME NEW s \in SUBSET T, Cardinality(s) = n + 1 PROVE g[s] = h[s]
    <3>1. s # {}
      <4>1. n + 1 # 0
        OBVIOUS
      <4> QED
        BY <2>1, <4>1, FS_EmptySet
    <3>2. s \ {Pick(s)} \in SUBSET T /\ Cardinality(s \ {Pick(s)}) = n
      BY <1>1, <2>1, <3>1, Smaller
    <3>3. g[s \ {Pick(s)}] = h[s \ {Pick(s)}]
      BY <3>2
    <3> QED
      BY <1>2, <3>1, <3>3 DEF Summand
  <2>2. n + 1 \in Nat
    OBVIOUS
  <2> QED
    BY <2>1, <2>2
<1>5. P = Nat
  <2> HIDE DEF P
  <2>1. P \in SUBSET Nat
    BY DEF P
  <2> QED
    BY <1>3, <1>4, <2>1, Induction
<1> QED
  BY <1>1, <1>5

\* SumFunctionOnSet of the community modules is the sum over the set.
LEMMA SumIs ==
  ASSUME NEW S, IsFiniteSet(S), NEW f, NEW g \in Sums(f, S), NEW T \in SUBSET S,
         \A x \in S : f[x] \in Int
  PROVE  SumFunctionOnSet(f, T) = g[T]
<1> DEFINE IsIter(h) == h = [s \in SUBSET T |-> Summand(f, h, s)]
           iter == CHOOSE h : IsIter(h)
<1>1. SumFunctionOnSet(f, T) = iter[T]
  BY DEF SumFunctionOnSet, FoldFunctionOnSet, MapThenFoldSet, Summand, Pick
<1>2. IsFiniteSet(T)
  BY FS_Subset
<1>3. \E h : IsIter(h)
  <2>1. PICK h \in Sums(f, T) : TRUE
    BY <1>2, SumsExist
  <2>2. h = [s \in SUBSET T |-> h[s]] /\ \A s \in SUBSET T : h[s] = Summand(f, h, s)
    BY DEF Sums
  <2> QED
    BY <2>2
<1>4. IsIter(iter)
  BY <1>3
<1> HIDE DEF iter
<1>5. g[T] = iter[T]
  <2>1. \A s \in SUBSET T : iter[s] = Summand(f, iter, s)
    BY <1>4
  <2>2. \A s \in SUBSET T : g[s] = iter[s]
    BY <2>1, SumsAgree
  <2> QED
    BY <2>2
<1> QED
  BY <1>1, <1>5

\* The sum over nothing, and over a set one element of which is taken out.
LEMMA SumOfPick ==
  ASSUME NEW S, IsFiniteSet(S), NEW f, \A x \in S : f[x] \in Int
  PROVE  /\ SumFunctionOnSet(f, S) \in Int
         /\ S = {} => SumFunctionOnSet(f, S) = 0
         /\ S # {} => SumFunctionOnSet(f, S)
                        = f[Pick(S)] + SumFunctionOnSet(f, S \ {Pick(S)})
<1>1. PICK g \in Sums(f, S) : TRUE
  BY SumsExist
<1>2. \A T \in SUBSET S : SumFunctionOnSet(f, T) = g[T]
  BY SumIs
<1>3. g[S] \in Int /\ g[S] = Summand(f, g, S)
  BY DEF Sums
<1>4. S \ {Pick(S)} \in SUBSET S /\ S \in SUBSET S
  OBVIOUS
<1> QED
  BY <1>2, <1>3, <1>4 DEF Summand

\* The order does not matter.
LEMMA SumOfRemoved ==
  ASSUME NEW S, IsFiniteSet(S), NEW f, \A x \in S : f[x] \in Int, NEW x \in S
  PROVE  SumFunctionOnSet(f, S) = f[x] + SumFunctionOnSet(f, S \ {x})
<1> DEFINE Sum(s) == SumFunctionOnSet(f, s)
           P == {n \in Nat : \A s \in SUBSET S : Cardinality(s) = n =>
                               \A z \in s : Sum(s) = f[z] + Sum(s \ {z})}
<1>1. \A s \in SUBSET S : /\ IsFiniteSet(s) /\ Cardinality(s) \in Nat /\ Sum(s) \in Int
                          /\ s # {} => Sum(s) = f[Pick(s)] + Sum(s \ {Pick(s)})
  <2> TAKE s \in SUBSET S
  <2>1. IsFiniteSet(s) /\ Cardinality(s) \in Nat
    BY FS_Subset, FS_CardinalityType
  <2> QED
    BY <2>1, SumOfPick
<1> HIDE DEF Sum
<1>2. 0 \in P
  BY <1>1, FS_EmptySet
<1>3. ASSUME NEW n \in P PROVE n + 1 \in P
  <2>1. ASSUME NEW s \in SUBSET S, Cardinality(s) = n + 1, NEW z \in s
        PROVE  Sum(s) = f[z] + Sum(s \ {z})
    <3> DEFINE y == Pick(s)
    <3>1. y \in s /\ Sum(s) = f[y] + Sum(s \ {y})
      BY <1>1, <2>1, Smaller
    <3> HIDE DEF y
    <3>2. CASE y = z
      BY <3>1, <3>2
    <3>3. CASE y # z
      <4>1. /\ s \ {y} \in SUBSET S /\ Cardinality(s \ {y}) = n
            /\ s \ {z} \in SUBSET S /\ Cardinality(s \ {z}) = n
        <5>1. Cardinality(s \ {y}) = Cardinality(s) - 1
          BY <1>1, <3>1, FS_RemoveElement
        <5>2. Cardinality(s \ {z}) = Cardinality(s) - 1
          BY <1>1, FS_RemoveElement
        <5>3. (n + 1) - 1 = n
          OBVIOUS
        <5> QED
          BY <2>1, <5>1, <5>2, <5>3
      <4>2. Sum(s \ {y}) = f[z] + Sum((s \ {y}) \ {z})
        BY <3>3, <4>1
      <4>3. Sum(s \ {z}) = f[y] + Sum((s \ {z}) \ {y})
        BY <3>1, <3>3, <4>1
      <4>4. (s \ {y}) \ {z} = (s \ {z}) \ {y} /\ (s \ {y}) \ {z} \in SUBSET S
        OBVIOUS
      <4> DEFINE rest == Sum((s \ {y}) \ {z})
      <4>5. f[y] \in Int /\ f[z] \in Int /\ rest \in Int
        BY <1>1, <3>1, <4>4
      <4>6. Sum(s) = f[y] + (f[z] + rest) /\ Sum(s \ {z}) = f[y] + rest
        BY <3>1, <4>2, <4>3, <4>4
      <4> HIDE DEF rest
      <4> QED
        BY <4>5, <4>6
    <3> QED
      BY <3>2, <3>3
  <2>2. n + 1 \in Nat
    OBVIOUS
  <2> QED
    BY <2>1, <2>2
<1>4. P = Nat
  <2> HIDE DEF P
  <2>1. P \in SUBSET Nat
    BY DEF P
  <2> QED
    BY <1>2, <1>3, <2>1, Induction
<1>5. Sum(S) = f[x] + Sum(S \ {x})
  BY <1>1, <1>4
<1> QED
  BY <1>5 DEF Sum

\* The sum does not depend on how the elements are called.
LEMMA SumOfRenamed ==
  ASSUME NEW S, IsFiniteSet(S), NEW f, NEW g, NEW h,
         \A x \in S : f[x] \in Int /\ f[x] = g[h[x]],
         \A x, y \in S : h[x] = h[y] => x = y
  PROVE  SumFunctionOnSet(f, S) = SumFunctionOnSet(g, {h[x] : x \in S})
<1> DEFINE Image(s) == {h[x] : x \in s}
           P == {n \in Nat : \A s \in SUBSET S : Cardinality(s) = n =>
                               SumFunctionOnSet(f, s) = SumFunctionOnSet(g, Image(s))}
<1>1. \A s \in SUBSET S : IsFiniteSet(s) /\ Cardinality(s) \in Nat /\ IsFiniteSet(Image(s))
  <2> TAKE s \in SUBSET S
  <2>1. IsFiniteSet(s) /\ Cardinality(s) \in Nat
    BY FS_Subset, FS_CardinalityType
  <2> DEFINE hs == [x \in s |-> h[x]]
  <2>2. hs \in Surjection(s, Image(s))
    BY DEF Surjection
  <2> QED
    BY <2>1, <2>2, FS_Surjection
<1>2. 0 \in P
  <2>1. ASSUME NEW s \in SUBSET S, Cardinality(s) = 0
        PROVE  SumFunctionOnSet(f, s) = SumFunctionOnSet(g, Image(s))
    <3>1. s = {} /\ Image(s) = {}
      BY <1>1, <2>1, FS_EmptySet
    <3>2. IsFiniteSet({})
      BY FS_EmptySet
    <3>3. SumFunctionOnSet(f, {}) = 0 /\ SumFunctionOnSet(g, {}) = 0
      BY <3>2, SumOfPick
    <3> QED
      BY <3>1, <3>3
  <2> QED
    BY <2>1
<1>3. ASSUME NEW n \in P PROVE n + 1 \in P
  <2>1. ASSUME NEW s \in SUBSET S, Cardinality(s) = n + 1
        PROVE  SumFunctionOnSet(f, s) = SumFunctionOnSet(g, Image(s))
    <3>1. s # {}
      <4>1. n + 1 # 0
        OBVIOUS
      <4> QED
        BY <2>1, <4>1, FS_EmptySet
    <3>2. PICK x \in s : TRUE
      BY <3>1
    <3> DEFINE r == s \ {x}
    <3>3. r \in SUBSET S /\ Cardinality(r) = n
      <4>1. Cardinality(r) = Cardinality(s) - 1
        BY <1>1, FS_RemoveElement
      <4>2. (n + 1) - 1 = n
        OBVIOUS
      <4> QED
        BY <2>1, <4>1, <4>2
    <3>4. Image(r) = Image(s) \ {h[x]} /\ h[x] \in Image(s)
      OBVIOUS
    <3>5. SumFunctionOnSet(f, r) = SumFunctionOnSet(g, Image(r))
      BY <3>3
    <3>6. SumFunctionOnSet(f, s) = f[x] + SumFunctionOnSet(f, r)
      <4>1. IsFiniteSet(s) /\ \A z \in s : f[z] \in Int
        BY <1>1
      <4> HIDE DEF r, Image, P
      <4>2. SumFunctionOnSet(f, s) = f[x] + SumFunctionOnSet(f, s \ {x})
        BY <4>1, SumOfRemoved
      <4> QED
        BY <4>2 DEF r
    <3>7. \A z \in Image(s) : g[z] \in Int
      OBVIOUS
    <3> HIDE DEF Image
    <3>8. SumFunctionOnSet(g, Image(s)) = g[h[x]] + SumFunctionOnSet(g, Image(s) \ {h[x]})
      BY <1>1, <3>4, <3>7, SumOfRemoved
    <3> QED
      BY <3>4, <3>5, <3>6, <3>8
  <2>2. n + 1 \in Nat
    OBVIOUS
  <2> QED
    BY <2>1, <2>2
<1>4. P = Nat
  <2> HIDE DEF P
  <2>1. P \in SUBSET Nat
    BY DEF P
  <2> QED
    BY <1>2, <1>3, <2>1, Induction
<1> QED
  BY <1>1, <1>4

\* The sum over a set is that of its parts.
LEMMA SumOfParts ==
  ASSUME NEW S, IsFiniteSet(S), NEW f, \A x \in S : f[x] \in Int, NEW T \in SUBSET S
  PROVE  SumFunctionOnSet(f, S) = SumFunctionOnSet(f, T) + SumFunctionOnSet(f, S \ T)
<1> DEFINE Sum(s) == SumFunctionOnSet(f, s)
           P == {n \in Nat : \A s \in SUBSET S : Cardinality(s) = n =>
                               Sum(S) = Sum(s) + Sum(S \ s)}
<1>1. \A s \in SUBSET S : /\ IsFiniteSet(s) /\ Cardinality(s) \in Nat /\ Sum(s) \in Int
                          /\ s = {} => Sum(s) = 0
                          /\ \A x \in s : Sum(s) = f[x] + Sum(s \ {x})
  <2> TAKE s \in SUBSET S
  <2>1. IsFiniteSet(s) /\ Cardinality(s) \in Nat
    BY FS_Subset, FS_CardinalityType
  <2>2. Sum(s) \in Int /\ (s = {} => Sum(s) = 0)
    BY <2>1, SumOfPick
  <2>3. ASSUME NEW x \in s PROVE Sum(s) = f[x] + Sum(s \ {x})
    BY <2>1, SumOfRemoved
  <2> QED
    BY <2>1, <2>2, <2>3
<1> HIDE DEF Sum
<1>2. 0 \in P
  <2>1. ASSUME NEW s \in SUBSET S, Cardinality(s) = 0 PROVE Sum(S) = Sum(s) + Sum(S \ s)
    <3>1. s = {} /\ S \ s = S
      BY <1>1, <2>1, FS_EmptySet
    <3>2. Sum(s) = 0 /\ Sum(S) \in Int
      BY <1>1, <3>1
    <3> QED
      BY <3>1, <3>2
  <2> QED
    BY <2>1
<1>3. ASSUME NEW n \in P PROVE n + 1 \in P
  <2>1. ASSUME NEW s \in SUBSET S, Cardinality(s) = n + 1 PROVE Sum(S) = Sum(s) + Sum(S \ s)
    <3>1. s # {}
      <4>1. n + 1 # 0
        OBVIOUS
      <4> QED
        BY <2>1, <4>1, FS_EmptySet
    <3>2. PICK x \in s : TRUE
      BY <3>1
    <3> DEFINE r == s \ {x}
    <3>3. r \in SUBSET S /\ Cardinality(r) = n
      <4>1. Cardinality(r) = Cardinality(s) - 1
        BY <1>1, FS_RemoveElement
      <4>2. (n + 1) - 1 = n
        OBVIOUS
      <4> QED
        BY <2>1, <4>1, <4>2
    <3>4. Sum(S) = Sum(r) + Sum(S \ r)
      BY <3>3
    <3>5. Sum(s) = f[x] + Sum(r)
      BY <1>1
    <3>6. Sum(S \ r) = f[x] + Sum(S \ s)
      <4>1. S \ r \in SUBSET S /\ x \in S \ r /\ (S \ r) \ {x} = S \ s
        OBVIOUS
      <4> HIDE DEF r
      <4> QED
        BY <1>1, <4>1
    <3>7. f[x] \in Int /\ Sum(r) \in Int /\ Sum(S \ s) \in Int
      BY <1>1, <3>3
    <3> QED
      BY <3>4, <3>5, <3>6, <3>7
  <2>2. n + 1 \in Nat
    OBVIOUS
  <2> QED
    BY <2>1, <2>2
<1>4. P = Nat
  <2> HIDE DEF P
  <2>1. P \in SUBSET Nat
    BY DEF P
  <2> QED
    BY <1>2, <1>3, <2>1, Induction
<1>5. Sum(S) = Sum(T) + Sum(S \ T)
  BY <1>1, <1>4
<1> QED
  BY <1>5 DEF Sum

\* The elements of S under their new names.
ImageOf(h, S) == {h[x] : x \in S}

\* The names are different, and g has for each what f has for the element.
Named(f, g, h, S) ==
  /\ \A x \in S : f[x] \in Int /\ f[x] = g[h[x]]
  /\ \A x, y \in S : h[x] = h[y] => x = y

\* The sum of what is left of renamed elements.
LEMMA SumOfOthers ==
  ASSUME NEW S, IsFiniteSet(S), NEW f, NEW g, NEW h, Named(f, g, h, S),
         NEW T \in SUBSET S
  PROVE  /\ SumFunctionOnSet(g, ImageOf(h, S)) = SumFunctionOnSet(f, S)
         /\ SumFunctionOnSet(g, ImageOf(h, S \ T)) = SumFunctionOnSet(f, S) - SumFunctionOnSet(f, T)
         /\ SumFunctionOnSet(f, S) \in Int /\ SumFunctionOnSet(f, T) \in Int
<1>1. IsFiniteSet(T) /\ IsFiniteSet(S \ T)
  BY FS_Subset
<1>2. SumFunctionOnSet(f, S) = SumFunctionOnSet(g, {h[x] : x \in S})
  BY SumOfRenamed DEF Named
<1>3. SumFunctionOnSet(f, S \ T) = SumFunctionOnSet(g, {h[x] : x \in S \ T})
  BY <1>1, SumOfRenamed DEF Named
<1>4. SumFunctionOnSet(f, S) = SumFunctionOnSet(f, T) + SumFunctionOnSet(f, S \ T)
  BY SumOfParts DEF Named
<1>5. SumFunctionOnSet(f, T) \in Int /\ SumFunctionOnSet(f, S \ T) \in Int
  BY <1>1, SumOfPick DEF Named
<1> QED
  BY <1>2, <1>3, <1>4, <1>5 DEF ImageOf

-----------------------------------------------------------------------------
\* Step 1 collects the inputs; from then on they are all there.
Streamed ==
  /\ ins \in Seq(Inputs) /\ truth \in Truths /\ i \in Nat
  /\ phase = "step1" => i = Len(ins) /\ Len(ins) <= InputsCount
  /\ phase # "step1" => Len(ins) = InputsCount
  /\ phase = "approve" => i = 0
  /\ \A n \in DOMAIN ins : Nonownership(ins[n])

\* The input n of step 1 is one that step 3 has accepted or need not see.
Passed(n) == Verified(n) => VerifyInput(ins[n], n)

\* What step 3 has seen so far was accepted, if it is what step 1 has seen.
StepVerified ==
  /\ phase = "step3" /\ same => \A n \in DOMAIN ins : n <= i => Passed(n)
  /\ phase \in {"step4", "step6"} /\ ~skip => \A n \in DOMAIN ins : Passed(n)

\* The network only accepts signatures of what was streamed, and of a taproot input
\* only if everything that was said about the other inputs is true.
SignedAsStreamed ==
  \A sig \in sigs :
    /\ phase \in {"step4", "step6"}
    /\ sig.coins = CoinsOf(ins) /\ Spendable(CoinsOf(ins)) /\ sig.outs = outs
    /\ taproot_only => AsClaimed

ShownInv == Streamed /\ StepVerified /\ SignedAsStreamed

\* If everything that the host said is true, the totals of the approver are those
\* of the coins.
LEMMA TrueTotals ==
  ASSUME ins \in Seq(Inputs), truth \in Truths, Spendable(CoinsOf(ins)), AsClaimed,
         NEW sig, sig.coins = CoinsOf(ins)
  PROVE  /\ TrueAmount(Range(sig.coins)) = total_in
         /\ TrueAmount(Range(sig.coins) \ CoinsAs({"presigned", "proof", "empty"}))
              = total_in - external_in
         /\ total_in \in Int /\ external_in \in Int
<1> DEFINE D == DOMAIN ins
           f == [n \in D |-> ins[n].claim.amount]
           g == [c \in Coins |-> truth[c].amount]
           h == CoinsOf(ins)
           E == NotOurs
           others == CoinsAs({"presigned", "proof", "empty"})
<1>1. /\ IsFiniteSet(D) /\ E \in SUBSET D /\ D \ E \in SUBSET D
      /\ IsFiniteSet(E) /\ IsFiniteSet(D \ E)
  <2>1. D = 1..Len(ins) /\ Len(ins) \in Nat
    OBVIOUS
  <2>2. IsFiniteSet(D) /\ E \in SUBSET D
    BY <2>1, FS_Interval DEF NotOurs
  <2> QED
    BY <2>2, FS_Subset
<1>2. ASSUME NEW n \in D
      PROVE  h[n] = ins[n].coin /\ f[n] = g[h[n]] /\ f[n] \in Int
  <2>1. ins[n] \in Inputs
    OBVIOUS
  <2>2. h[n] = ins[n].coin /\ h[n] \in Coins
    BY <2>1 DEF CoinsOf, Inputs
  <2>3. truth[h[n]] = ins[n].claim
    BY <2>2 DEF AsClaimed
  <2>4. truth[h[n]].amount \in Nat
    BY <2>2, TruthsAssumption
  <2> QED
    BY <2>2, <2>3, <2>4
<1>3. \A m, n \in D : h[m] = h[n] => m = n
  BY DEF Spendable, CoinsOf
<1>4. Range(sig.coins) = ImageOf(h, D)
  BY DEF Range, CoinsOf, ImageOf
<1>5. others = {ins[n].coin : n \in E}
  BY DEF CoinsAs, NotOurs
<1> HIDE DEF f, g, h, E, D, others
<1>6. Range(sig.coins) \ others = ImageOf(h, D \ E)
  <2>1. others = {h[n] : n \in E}
    BY <1>1, <1>2, <1>5
  <2> QED
    BY <1>1, <1>3, <1>4, <2>1 DEF ImageOf
<1>7. /\ SumFunctionOnSet(g, ImageOf(h, D)) = SumFunctionOnSet(f, D)
      /\ SumFunctionOnSet(g, ImageOf(h, D \ E)) = SumFunctionOnSet(f, D) - SumFunctionOnSet(f, E)
      /\ SumFunctionOnSet(f, D) \in Int /\ SumFunctionOnSet(f, E) \in Int
  <2>1. Named(f, g, h, D)
    BY <1>2, <1>3 DEF Named
  <2> QED
    BY <1>1, <2>1, SumOfOthers, Zenon
<1>8. total_in = SumFunctionOnSet(f, D) /\ external_in = SumFunctionOnSet(f, E)
  BY DEF total_in, external_in, Total, f, D, E
<1> QED
  BY <1>4, <1>6, <1>7, <1>8 DEF TrueAmount, g, others

\* The signatures that an accepted input gives.
LEMMA SignatureCoins ==
  ASSUME NEW txi, NEW n
  PROVE  /\ \A sig \in LegacySignature(txi, ins, outs) :
              sig.coins = CoinsOf(ins) /\ Spendable(CoinsOf(ins)) /\ sig.outs = outs
         /\ \A sig \in Bip143Signature(txi) :
              sig.coins = CoinsOf(ins) /\ Spendable(CoinsOf(ins)) /\ sig.outs = outs
         /\ \A sig \in TaprootSignature(txi, n) :
              /\ sig.coins = CoinsOf(ins) /\ Spendable(CoinsOf(ins)) /\ sig.outs = outs
              /\ AsClaimed
  BY DEF LegacySignature, Bip143Signature, TaprootSignature, Signature

\* A transaction starts with nothing.
LEMMA StartShown == ShownInv /\ Fail => ShownInv'
<1> SUFFICES ASSUME ShownInv, Fail PROVE ShownInv'
  OBVIOUS
<1>1. /\ phase' = "step1" /\ i' = 0 /\ ins' = <<>> /\ sigs' = {} /\ truth' = truth
  BY DEF Fail, Start
<1>2. Streamed'
  BY <1>1, CountAssumption DEF ShownInv, Streamed
<1> QED
  BY <1>1, <1>2 DEF ShownInv, StepVerified, SignedAsStreamed

\* Inputs that stay the same keep what was found out about them.
LEMMA SameInputs ==
  ASSUME UNCHANGED <<truth, given, ins, outs>>
  PROVE  /\ taproot_only' <=> taproot_only
         /\ \A n : Passed(n)' <=> Passed(n)
         /\ AsClaimed' <=> AsClaimed
         /\ CoinsOf(ins)' = CoinsOf(ins)
         /\ Spendable(CoinsOf(ins))' <=> Spendable(CoinsOf(ins))
  BY DEF taproot_only, internal, Passed, Verified, VerifyInput, PrevtxOutput, Presigned, AsClaimed

\* Steps that sign nothing, after the inputs were collected.
LEMMA QuietShown ==
  ASSUME ShownInv, UNCHANGED <<session, ins, outs, sigs>>, phase # "step1", phase' # "step1",
         phase' # "approve", i' \in Nat, StepVerified',
         sigs # {} => phase' \in {"step4", "step6"}
  PROVE  ShownInv'
<1>1. Streamed'
  BY DEF ShownInv, Streamed, session
<1>2. SignedAsStreamed'
  BY SameInputs DEF ShownInv, SignedAsStreamed, session
<1> QED
  BY <1>1, <1>2 DEF ShownInv

\* Steps that sign.
LEMMA SignShown ==
  ASSUME ShownInv, UNCHANGED <<session, ins, outs, phase, same>>, i' \in Nat,
         phase \in {"step4", "step6"},
         \A sig \in sigs' \ sigs :
           /\ sig.coins = CoinsOf(ins) /\ Spendable(CoinsOf(ins)) /\ sig.outs = outs
           /\ taproot_only => AsClaimed
  PROVE  ShownInv'
<1>1. Streamed'
  BY DEF ShownInv, Streamed, session
<1>2. StepVerified'
  BY SameInputs DEF ShownInv, StepVerified, session
<1>3. SignedAsStreamed'
  BY SameInputs DEF ShownInv, SignedAsStreamed, session
<1> QED
  BY <1>1, <1>2, <1>3 DEF ShownInv

\* step1_process_inputs
LEMMA Step1Shown == ShownInv /\ Step1 => ShownInv'
<1> SUFFICES ASSUME ShownInv, Step1, ~Fail PROVE ShownInv'
  BY StartShown
<1>1. /\ phase = "step1" /\ i = Len(ins) /\ i \in Nat /\ Len(ins) <= InputsCount
      /\ ins \in Seq(Inputs) /\ \A n \in DOMAIN ins : Nonownership(ins[n])
  BY DEF Step1, ShownInv, Streamed
<1>2. phase' \in {"step1", "step2"} /\ truth' = truth /\ sigs' = sigs
  BY DEF Step1, session
<1>3. sigs = {}
  BY <1>1 DEF ShownInv, SignedAsStreamed
<1>4. Streamed'
  <2>1. CASE i < InputsCount
    <3>1. PICK txi \in Inputs :
            Nonownership(txi) /\ ins' = Append(ins, txi) /\ i' = i + 1 /\ phase' = phase
      BY <2>1, CountAssumption DEF Step1
    <3>2. ins' \in Seq(Inputs) /\ Len(ins') = Len(ins) + 1
      BY <1>1, <3>1
    <3>3. ASSUME NEW n \in DOMAIN ins' PROVE Nonownership(ins'[n])
      <4>1. CASE n \in DOMAIN ins
        BY <1>1, <3>1, <4>1
      <4>2. CASE n \notin DOMAIN ins
        BY <1>1, <3>1, <4>2
      <4> QED
        BY <4>1, <4>2
    <3>4. i' \in Nat /\ i' = Len(ins') /\ Len(ins') <= InputsCount
      BY <1>1, <2>1, <3>1, <3>2, CountAssumption
    <3>5. truth' \in Truths
      BY <1>2 DEF ShownInv, Streamed
    <3> QED
      BY <1>1, <3>1, <3>2, <3>3, <3>4, <3>5 DEF Streamed, Nonownership
  <2>2. CASE i = InputsCount
    <3>1. phase' = "step2" /\ i' = 0 /\ ins' = ins
      BY <2>2, CountAssumption DEF Step1
    <3> QED
      BY <1>1, <1>2, <2>2, <3>1 DEF ShownInv, Streamed, Nonownership
  <2> QED
    BY <1>1, <2>1, <2>2, CountAssumption
<1> QED
  BY <1>1, <1>2, <1>3, <1>4 DEF ShownInv, StepVerified, SignedAsStreamed

\* step2_approve_outputs and approve_tx
LEMMA Step2Shown == ShownInv /\ (Step2 \/ ApproveTx) => ShownInv'
<1> SUFFICES ASSUME ShownInv, Step2 \/ ApproveTx PROVE ShownInv'
  OBVIOUS
<1>1. sigs = {} /\ i \in Nat /\ phase \in {"step2", "approve"}
  BY DEF Step2, ApproveTx, ShownInv, SignedAsStreamed, Streamed
<1>2. CASE Step2
  <2>1. /\ UNCHANGED <<truth, ins, sigs>> /\ i' \in Nat /\ phase' \in {"step2", "approve"}
        /\ phase' = "approve" => i' = 0
    BY <1>1, <1>2 DEF Step2, session
  <2> QED
    BY <1>1, <2>1 DEF ShownInv, Streamed, StepVerified, SignedAsStreamed
<1>3. CASE ApproveTx /\ ~Fail
  <2>1. /\ UNCHANGED <<session, i, ins, outs, same, sigs>>
        /\ phase' = IF skip THEN "step4" ELSE "step3"
        /\ i' \in Nat
    BY <1>1, <1>3 DEF ApproveTx
  <2>2. i = 0 /\ phase = "approve"
    BY <1>3 DEF ApproveTx, ShownInv, Streamed
  <2>3. \A n \in DOMAIN ins : ~(n <= i)
    BY <2>2 DEF ShownInv, Streamed
  <2> QED
    BY <1>1, <2>1, <2>2, <2>3 DEF ShownInv, Streamed, StepVerified, SignedAsStreamed, session
<1> QED
  BY <1>2, <1>3, StartShown

\* step3_verify_inputs: an input that is accepted is the one of step 1, or the digests
\* will differ.
LEMMA Step3Shown == ShownInv /\ Step3 => ShownInv'
<1> SUFFICES ASSUME ShownInv, Step3, ~Fail PROVE ShownInv'
  BY StartShown
<1>1. /\ phase = "step3" /\ i \in Nat /\ Len(ins) = InputsCount /\ sigs = {}
      /\ ins \in Seq(Inputs) /\ DOMAIN ins = 1..Len(ins) /\ i + 1 \in Nat
  BY DEF Step3, ShownInv, Streamed, SignedAsStreamed
<1>2. same => \A n \in DOMAIN ins : n <= i => Passed(n)
  BY <1>1 DEF ShownInv, StepVerified
<1>3. ASSUME i < InputsCount, same' => same /\ Passed(i + 1), i' = i + 1,
             UNCHANGED <<session, phase, ins, outs, sigs>>
      PROVE  ShownInv'
  <2>1. ASSUME same', NEW n \in DOMAIN ins, n <= i + 1 PROVE Passed(n)
    <3>1. n <= i \/ n = i + 1
      BY <1>1, <2>1
    <3> QED
      BY <1>2, <1>3, <2>1, <3>1
  <2>2. StepVerified'
    BY <1>1, <1>3, <2>1, SameInputs DEF StepVerified, session
  <2> QED
    BY <1>1, <1>3, <2>2, QuietShown
<1>4. ASSUME i < InputsCount, Verified(i + 1), NEW txi \in Inputs, VerifyInput(txi, i + 1),
             same' = (same /\ txi = ins[i + 1]), i' = i + 1,
             UNCHANGED <<session, phase, ins, outs, sigs>>
      PROVE  ShownInv'
  BY <1>3, <1>4 DEF Passed
<1>5. ASSUME i < InputsCount, ~Verified(i + 1), i' = i + 1,
             UNCHANGED <<session, phase, ins, outs, same, sigs>>
      PROVE  ShownInv'
  BY <1>3, <1>5 DEF Passed
<1>6. ASSUME i = InputsCount, same, phase' = "step4", i' = 0,
             UNCHANGED <<session, ins, outs, same, sigs>>
      PROVE  ShownInv'
  <2>1. \A n \in DOMAIN ins : Passed(n)
    BY <1>1, <1>2, <1>6
  <2>2. StepVerified'
    BY <1>6, <2>1, SameInputs DEF StepVerified, session
  <2> QED
    BY <1>1, <1>6, <2>2, QuietShown
<1> QED
  BY <1>4, <1>5, <1>6 DEF Step3

\* step4_serialize_inputs and step6_sign_segwit_inputs.
LEMMA Step46Shown == ShownInv /\ (Step4 \/ Step6) => ShownInv'
<1> SUFFICES ASSUME ShownInv, Step4 \/ Step6, ~Fail PROVE ShownInv'
  BY StartShown
<1>1. phase \in {"step4", "step6"} /\ i \in Nat /\ i + 1 \in Nat
  BY DEF Step4, Step6, ShownInv, Streamed
<1>2. ASSUME i' \in Nat, phase' \in {"step4", "step6"}, UNCHANGED <<session, ins, outs, sigs>>
      PROVE  ShownInv'
  <2>1. StepVerified'
    BY <1>1, <1>2, SameInputs DEF ShownInv, StepVerified, session
  <2> QED
    BY <1>1, <1>2, <2>1, QuietShown
<1>3. ASSUME SignNonsegwit(i + 1) PROVE ShownInv'
  <2>1. PICK txi \in Inputs :
          /\ ~taproot_only /\ sigs' = sigs \cup LegacySignature(txi, ins, outs)
          /\ i' = i + 1 /\ UNCHANGED <<session, phase, ins, outs, same>>
    BY <1>3 DEF SignNonsegwit
  <2> QED
    BY <1>1, <2>1, SignatureCoins, SignShown
<1>4. ASSUME SignSegwit(i + 1) PROVE ShownInv'
  <2>1. PICK txi \in Inputs :
          /\ txi.claim.script.type = "taproot" \/ ~taproot_only
          /\ sigs' = sigs \cup IF txi.claim.script.type = "taproot" THEN TaprootSignature(txi, i + 1)
                               ELSE Bip143Signature(txi)
          /\ i' = i + 1 /\ UNCHANGED <<session, phase, ins, outs, same>>
    BY <1>4 DEF SignSegwit
  <2> QED
    BY <1>1, <2>1, SignatureCoins, SignShown
<1>5. CASE Step4
  BY <1>1, <1>2, <1>3, <1>5 DEF Step4
<1>6. CASE Step6
  BY <1>1, <1>2, <1>4, <1>6 DEF Step6, Fail
<1> QED
  BY <1>5, <1>6

\* A signature that the network accepts is for a transaction whose real total, and
\* whose fee or cost without the inputs of others, the user was shown in approve_tx.
\* Inputs of this device are not taken for those of others, except if it has signed
\* them for the same transaction before or if they came with an empty proof.
THEOREM PaysWhatIsShown == Spec => []ShownIsPaid
<1>1. Init => ShownInv
  BY CountAssumption DEF Init, ShownInv, Streamed, StepVerified, SignedAsStreamed
<1>2. ShownInv /\ [Next]_vars => ShownInv'
  <2>1. ShownInv /\ UNCHANGED vars => ShownInv'
    <3> SUFFICES ASSUME ShownInv, UNCHANGED vars PROVE ShownInv'
      OBVIOUS
    <3>1. UNCHANGED <<truth, given, skip, phase, i, ins, outs, same, sigs>>
      BY DEF vars
    <3> QED
      BY <3>1, SameInputs DEF ShownInv, Streamed, StepVerified, SignedAsStreamed
  <2> QED
    BY <2>1, Step1Shown, Step2Shown, Step3Shown, Step46Shown DEF Next
<1>3. IInv /\ ShownInv => ShownIsPaid
  <2> SUFFICES ASSUME IInv, ShownInv, NEW sig \in sigs, ~skip, NEW others,
                      others = CoinsAs({"presigned", "proof", "empty"})
               PROVE  /\ TrueAmount(Range(sig.coins)) - change_out = total
                      /\ TrueFee(sig) = fee
                      /\ TrueAmount(Range(sig.coins) \ others) - change_out = spending
                      /\ Ours(sig) \cap others \subseteq SignedBefore(sig) \cup CoinsAs({"empty"})
    BY DEF ShownIsPaid
  <2>1. /\ ins \in Seq(Inputs) /\ truth \in Truths /\ \A n \in DOMAIN ins : Passed(n)
        /\ sig.coins = CoinsOf(ins) /\ Spendable(CoinsOf(ins)) /\ sig.outs = outs
        /\ taproot_only => AsClaimed
    BY DEF ShownInv, Streamed, StepVerified, SignedAsStreamed
  <2>2. AsClaimed
    BY <2>1 DEF Passed, Verified, VerifyInput, PrevtxOutput, AsClaimed
  <2>3. /\ TrueAmount(Range(sig.coins)) = total_in
        /\ TrueAmount(Range(sig.coins) \ others) = total_in - external_in
        /\ total_in \in Int /\ external_in \in Int
    BY <2>1, <2>2, TrueTotals
  <2>4. change_out \in Int
    <3>1. outs \in Seq(Outputs) /\ DOMAIN outs = 1..Len(outs) /\ Len(outs) \in Nat
      BY DEF IInv, Counted
    <3>2. IsFiniteSet(DOMAIN outs)
      BY <3>1, FS_Interval
    <3>3. IsFiniteSet(DOMAIN outs \ confirmed)
      BY <3>2, FS_Subset
    <3> QED
      BY <3>3, FS_CardinalityType DEF change_out
  <2>5. TrueFee(sig) = fee
    BY <2>1, <2>3 DEF TrueFee, fee, total_out
  <2>6. /\ TrueAmount(Range(sig.coins)) - change_out = total
        /\ TrueAmount(Range(sig.coins) \ others) - change_out = spending
    BY <2>3, <2>4 DEF spending, total
  <2>7. ASSUME NEW c \in Ours(sig), c \in others, c \notin CoinsAs({"empty"})
        PROVE  c \in SignedBefore(sig)
    <3>1. PICK n \in DOMAIN ins : c = ins[n].coin /\ ins[n].external \in {"presigned", "proof"}
      BY <2>7 DEF CoinsAs
    <3>2. c \in Range(sig.coins) /\ truth[c].script.owner \in Accounts
      BY DEF Ours
    <3>3. ins[n].claim.script.owner \in Accounts
      BY <2>2, <3>1, <3>2 DEF AsClaimed
    <3>4. ins[n].external = "presigned"
      BY <3>1, <3>3, OwnerAssumption DEF ShownInv, Streamed, Nonownership
    <3>5. Presigned(ins[n])
      BY <2>1, <3>4 DEF Passed, Verified, VerifyInput
    <3>6. Signature(c, CoinsOf(ins), outs) \in given
      BY <2>1, <2>2, <3>1, <3>3, <3>5, OwnerAssumption DEF Presigned
    <3> QED
      BY <2>1, <3>2, <3>6 DEF SignedBefore
  <2> QED
    BY <2>5, <2>6, <2>7
<1>4. Init => IInv
  BY DEF Init, IInv, Counted, SignedLate, SilentIsChange, SignedAsChecked
<1> QED
  BY <1>1, <1>2, <1>3, <1>4, NextIInv, PTL DEF Spec
=============================================================================
