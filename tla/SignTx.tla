------------------------------- MODULE SignTx -------------------------------
(***************************************************************************)
(* Signing a Bitcoin transaction, class Bitcoin of                         *)
(* core/src/apps/bitcoin/sign_tx/bitcoin.py with BasicApprover.  The       *)
(* device cannot hold the transaction.  It asks the host for one input or  *)
(* output at a time, for the same one in several steps, and never knows    *)
(* whether it gets the same answer again.                                  *)
(*                                                                         *)
(* A coin is an unspent output that an input refers to (prev_hash and      *)
(* prev_index).  What it really is worth and who owns it is truth; what    *)
(* the host says about it is a claim.  Digests are the sequences of what   *)
(* was hashed.  Only signatures that the network accepts are kept, those   *)
(* of earlier sessions too, which the host may give back to the device.    *)
(*                                                                         *)
(* The definitions marked Faulty are not part of the specification.  Each  *)
(* is the definition that follows with a mistake built in.                 *)
(***************************************************************************)
EXTENDS Integers, Sequences, FiniteSets, Functions

CONSTANTS Coins,
          Accounts,     \* wallet paths of this device
          Other,        \* the owner of everything else
          Claims,       \* what the host may say about a coin
          Truths,       \* the coins there may be
          InputsCount,
          OutputsCount

Types == {"legacy", "segwit", "taproot"}
Owners == Accounts \cup {Other}

\* The script of an output: its type and whose key it needs.
Scripts == [type : Types, owner : Owners]

ASSUME TruthsAssumption ==
  Truths \subseteq [Coins -> [script : Scripts, amount : Nat]]

\* How an input is external (input_is_external): it comes with a signature, with a
\* proof of ownership, with neither, or with empty ones.
Kinds == {"no", "presigned", "proof", "unverified", "empty"}

\* TxInput: for an internal input the script is derived from script_type and
\* address_n, for an external one it is given.
Inputs ==
  {txi \in [coin : Coins, external : Kinds, claim : Claims] :
     txi.external # "no" \/ txi.claim.script.owner \in Accounts}

\* TxOutput, of amount 1, to the address of somebody or along a wallet path.
Outputs == Owners

None == "UNDEFINED"
Mismatch == "MISMATCH"

\* MatchChecker.MISMATCH is an object of its own, no wallet path.
ASSUME PathAssumption == Mismatch \notin Accounts

\* Nobody else's keys are derived from the seed of this device.
ASSUME OwnerAssumption == Other \notin Accounts

\* SignTx.inputs_count
ASSUME CountAssumption == InputsCount \in Nat

VARIABLES truth,        \* the coins as they are
          skip,         \* skip_verify_inputs
          phase,        \* the step
          i,            \* number of inputs or outputs the step has seen
          ins,          \* inputs streamed in step 1, digest h_inputs_check
          outs,         \* outputs streamed in step 2; with ins, digest h_tx_check
          path,         \* wallet_path.attribute
          confirmed,    \* positions of the outputs the user has seen
          same,         \* the digest of step 3 is so far that of step 1
          sigs,         \* the signatures given out that the network accepts
          given         \* those given out in earlier sessions

vars == <<truth, skip, phase, i, ins, outs, path, confirmed, same, sigs, given>>
session == <<truth, skip, given>>

\* The constructor of Bitcoin.
Start ==
  /\ phase' = "step1" /\ i' = 0 /\ ins' = <<>> /\ outs' = <<>> /\ path' = None
  /\ confirmed' = {} /\ same' = TRUE /\ sigs' = {}
  /\ given' = given \cup sigs /\ skip' \in BOOLEAN /\ UNCHANGED truth

Init ==
  /\ truth \in Truths /\ skip \in BOOLEAN
  /\ phase = "step1" /\ i = 0 /\ ins = <<>> /\ outs = <<>> /\ path = None
  /\ confirmed = {} /\ same = TRUE /\ sigs = {} /\ given = {}

\* An error or a refusal ends the workflow.  The signatures made so far are with
\* the host.
Fail == Start

-----------------------------------------------------------------------------
\* add_external_input: the inputs that count as paid by somebody else.
NotOurs == {n \in DOMAIN ins : ins[n].external \in {"presigned", "proof", "empty"}}

\* The totals of the approver.
Total(S) == SumFunctionOnSet([n \in DOMAIN ins |-> ins[n].claim.amount], S)
total_in == Total(DOMAIN ins)
external_in == Total(NotOurs)
total_out == Len(outs)
change_out == Cardinality(DOMAIN outs \ confirmed)
fee == total_in - total_out
total == total_in - change_out
spending == total - external_in

internal(n) == ins[n].external = "no"
taproot_only == \A n \in DOMAIN ins : internal(n) => ins[n].claim.script.type = "taproot"
segwit(n) == internal(n) => ins[n].claim.script.type \in {"segwit", "taproot"}

\* WalletPathChecker.add_input and check_input.
AddInput(txi) ==
  CASE path = Mismatch -> Mismatch
    [] path = None     -> txi.claim.script.owner
    [] OTHER           -> IF path = txi.claim.script.owner THEN path ELSE Mismatch

CheckInput(txi) == path = Mismatch \/ path = txi.claim.script.owner

\* verify_nonownership: only the owner can make a proof, and this device knows its own.
Nonownership(txi) == txi.external = "proof" => txi.claim.script.owner = Other

\* step1_process_inputs: an input that cannot be verified is an error if safety
\* checks are on, an invalid proof always.
Step1 ==
  /\ phase = "step1"
  /\ \/ /\ i < InputsCount
        /\ \E txi \in Inputs :
             \/ txi.external \in {"unverified", "proof"} /\ Fail
             \/ /\ Nonownership(txi)
                /\ ins' = Append(ins, txi)
                /\ path' = IF txi.external = "no" THEN AddInput(txi) ELSE path
                /\ i' = i + 1
                /\ UNCHANGED <<session, phase, outs, confirmed, same, sigs>>
     \/ /\ i = InputsCount
        /\ phase' = "step2" /\ i' = 0
        /\ UNCHANGED <<session, ins, outs, path, confirmed, same, sigs>>

\* output_is_change
OutputIsChange(txo) == txo \in Accounts /\ path = txo

\* step2_approve_outputs: change is not shown to the user.
Step2 ==
  /\ phase = "step2"
  /\ IF i < OutputsCount
     THEN \E txo \in Outputs :
            /\ outs' = Append(outs, txo)
            /\ confirmed' = IF OutputIsChange(txo) THEN confirmed ELSE confirmed \cup {i + 1}
            /\ i' = i + 1
            /\ UNCHANGED phase
     ELSE phase' = "approve" /\ i' = 0 /\ UNCHANGED <<outs, confirmed>>
  /\ UNCHANGED <<session, ins, path, same, sigs>>

\* approve_tx: the user is shown the total and the fee, or if there are external
\* inputs what this device spends and the total, and may refuse.
ApproveTx ==
  /\ phase = "approve"
  /\ \/ Fail
     \/ /\ total_in >= total_out
        /\ phase' = IF skip THEN "step4" ELSE "step3"
        /\ UNCHANGED <<session, i, ins, outs, path, confirmed, same, sigs>>

-----------------------------------------------------------------------------
\* What the network asks of every transaction: no coin is spent twice.
Spendable(coins) == \A m, n \in DOMAIN coins : coins[m] = coins[n] => m = n
CoinsOf(inputs) == [n \in DOMAIN inputs |-> inputs[n].coin]

\* A signature for a coin commits to the coins and the outputs of a transaction.
Signature(coin, coins, outputs) == [coin |-> coin, coins |-> coins, outs |-> outputs]

\* The host has told the truth about all inputs.
AsClaimed == \A n \in DOMAIN ins : truth[ins[n].coin] = ins[n].claim

\* verify_presigned_external_input: somebody else has signed the coin for this
\* transaction, or this device has in an earlier session.  If not all is true that
\* the host claims, a signature shows nothing.
Presigned(txi) ==
  Spendable(CoinsOf(ins)) /\ AsClaimed =>
    txi.claim.script.owner = Other \/ Signature(txi.coin, CoinsOf(ins), outs) \in given

\* Faulty: the amount is not compared with that of the previous transaction.
PrevtxScript(txi) == txi.claim.script = truth[txi.coin].script

\* get_prevtx_output finds the real output, because prev_hash is a digest of it.
PrevtxOutput(txi) == txi.claim = truth[txi.coin]

VerifyInput(txi, n) ==
  /\ ~taproot_only => PrevtxOutput(txi)
  /\ ins[n].external = "presigned" => Presigned(txi)

\* The inputs that step 3 asks for.
Verified(n) == ~taproot_only \/ ins[n].external = "presigned"

\* step3_verify_inputs
Step3 ==
  /\ phase = "step3"
  /\ \/ /\ i < InputsCount /\ Verified(i + 1)
        /\ \/ Fail
           \/ \E txi \in Inputs :
                /\ VerifyInput(txi, i + 1)
                /\ same' = (same /\ txi = ins[i + 1])
                /\ i' = i + 1
                /\ UNCHANGED <<session, phase, ins, outs, path, confirmed, sigs>>
     \/ /\ i < InputsCount /\ ~Verified(i + 1)
        /\ i' = i + 1
        /\ UNCHANGED <<session, phase, ins, outs, path, confirmed, same, sigs>>
     \/ /\ i = InputsCount
        /\ IF same
           THEN /\ phase' = "step4" /\ i' = 0
                /\ UNCHANGED <<session, ins, outs, path, confirmed, same, sigs>>
           ELSE Fail

-----------------------------------------------------------------------------
\* A legacy signature commits to the inputs and outputs of the transaction.
LegacySignature(txi, inputs, outputs) ==
  IF truth[txi.coin].script = txi.claim.script /\ Spendable(CoinsOf(inputs))
  THEN {Signature(txi.coin, CoinsOf(inputs), outputs)} ELSE {}

\* hash143: the coins and outputs of steps 1 and 2, and the one input that is
\* signed with its amount.
Bip143Signature(txi) ==
  IF /\ truth[txi.coin] = txi.claim
     /\ \E n \in DOMAIN ins : ins[n].coin = txi.coin
     /\ Spendable(CoinsOf(ins))
  THEN {Signature(txi.coin, CoinsOf(ins), outs)} ELSE {}

\* hash341: the coins, amounts, scripts and outputs of steps 1 and 2.
TaprootSignature(txi, n) ==
  IF truth[ins[n].coin].script = txi.claim.script /\ AsClaimed /\ Spendable(CoinsOf(ins))
  THEN {Signature(ins[n].coin, CoinsOf(ins), outs)} ELSE {}

\* sign_nonsegwit_input: everything is streamed again, and has to be the same.
\* A change of any input or output is an error.
SignNonsegwit(n) ==
  \/ Fail
  \/ \E txi \in Inputs :
       /\ ~taproot_only /\ CheckInput(txi) /\ txi.external = "no" /\ txi.claim.script.type = "legacy"
       /\ [ins EXCEPT ![n] = txi] = ins
       /\ sigs' = sigs \cup LegacySignature(txi, ins, outs)
       /\ i' = i + 1
       /\ UNCHANGED <<session, phase, ins, outs, path, confirmed, same>>

\* step4_serialize_inputs.  Inputs that are only serialized are not modelled.
Step4 ==
  /\ phase = "step4"
  /\ \/ i < InputsCount /\ ~segwit(i + 1) /\ SignNonsegwit(i + 1)
     \/ /\ i < InputsCount /\ segwit(i + 1)
        /\ i' = i + 1
        /\ UNCHANGED <<session, phase, ins, outs, path, confirmed, same, sigs>>
     \/ /\ i = InputsCount
        /\ phase' = "step6" /\ i' = 0
        /\ UNCHANGED <<session, ins, outs, path, confirmed, same, sigs>>

\* Faulty: the wallet path is not looked at again.
SignSegwitAnyPath(n) ==
  \/ Fail
  \/ \E txi \in Inputs :
       /\ txi.external = "no"
       /\ txi.claim.script.type = "taproot" \/ (txi.claim.script.type = "segwit" /\ ~taproot_only)
       /\ sigs' = sigs \cup IF txi.claim.script.type = "taproot" THEN TaprootSignature(txi, n)
                            ELSE Bip143Signature(txi)
       /\ i' = i + 1
       /\ UNCHANGED <<session, phase, ins, outs, path, confirmed, same>>

\* sign_segwit_input: the input is asked for once more, and is not compared
\* with what was approved except for its wallet path.
SignSegwit(n) ==
  \/ Fail
  \/ \E txi \in Inputs :
       /\ CheckInput(txi) /\ txi.external = "no"
       /\ txi.claim.script.type = "taproot" \/ (txi.claim.script.type = "segwit" /\ ~taproot_only)
       /\ sigs' = sigs \cup IF txi.claim.script.type = "taproot" THEN TaprootSignature(txi, n)
                            ELSE Bip143Signature(txi)
       /\ i' = i + 1
       /\ UNCHANGED <<session, phase, ins, outs, path, confirmed, same>>

\* step6_sign_segwit_inputs and step7_finish
Step6 ==
  /\ phase = "step6"
  /\ \/ i < InputsCount /\ segwit(i + 1) /\ internal(i + 1) /\ SignSegwit(i + 1)
     \/ /\ i < InputsCount /\ ~(segwit(i + 1) /\ internal(i + 1))
        /\ i' = i + 1
        /\ UNCHANGED <<session, phase, ins, outs, path, confirmed, same, sigs>>
     \/ i = InputsCount /\ Start

Next == Step1 \/ Step2 \/ ApproveTx \/ Step3 \/ Step4 \/ Step6

Spec == Init /\ [][Next]_vars

-----------------------------------------------------------------------------
\* What coins are really worth, and those of them that belong to this device.
TrueAmount(S) == SumFunctionOnSet([c \in Coins |-> truth[c].amount], S)
TrueFee(sig) == TrueAmount(Range(sig.coins)) - Len(sig.outs)
Ours(sig) == {c \in Range(sig.coins) : truth[c].script.owner \in Accounts}

\* The coins of the inputs of the given kinds.
CoinsAs(kinds) == {ins[n].coin : n \in {m \in DOMAIN ins : ins[m].external \in kinds}}

\* The coins that this device has signed for the same transaction before.
SignedBefore(sig) ==
  {c \in Range(sig.coins) : Signature(c, sig.coins, sig.outs) \in given}

\* A signature that the network accepts is for a transaction whose real total, and
\* whose fee (confirm_total) or cost without the inputs of others
\* (confirm_joint_total), the user was shown in approve_tx, whatever the host said
\* about the inputs and however it changed its answers between the steps.  What
\* passes for an input of others is one, or was signed by this device for this very
\* transaction in an earlier session, or came with an empty proof, which counts as
\* verified.  All this holds unless the inputs are not verified at all
\* (skip_verify_inputs, when scanning a code).
ShownIsPaid ==
  \A sig \in sigs : ~skip =>
    LET others == CoinsAs({"presigned", "proof", "empty"})
    IN  /\ TrueAmount(Range(sig.coins)) - change_out = total
        /\ external_in = 0 => TrueFee(sig) = fee
        /\ TrueAmount(Range(sig.coins) \ others) - change_out = spending
        /\ Ours(sig) \cap others \subseteq SignedBefore(sig) \cup CoinsAs({"empty"})

\* An output of a signed transaction that the user has not confirmed in step 2
\* pays the account whose key has signed, even if the inputs are not verified.
SilentOutputsReturn ==
  \A sig \in sigs : \A n \in DOMAIN sig.outs :
    (n \in confirmed /\ sig.outs[n] = outs[n]) \/ sig.outs[n] = truth[sig.coin].script.owner
=============================================================================
