---------------------------- MODULE ConsentProofs ----------------------------
(***************************************************************************)
(* Proofs about what the device asks of its user before it uses a key: the *)
(* PIN in the two secure chips, for any set of PINs, any number of tries   *)
(* and any number of power losses; and the dialogues of DialogManager, for *)
(* any sets of requests and channels.                                      *)
(***************************************************************************)
EXTENDS SePin, FidoDialog, Integers, TLAPS

-----------------------------------------------------------------------------
(***************************************************************************)
(* The PIN in the two secure chips.                                        *)
(***************************************************************************)

Chip == [pin : Pins \cup {NoPin}, tries : 0..RETRY_MAX]

Resting   == {"idle", "verify finger", "change master", "reset and restart"}
Setting   == {"set master", "set finger"}
Wiping    == {"reset master", "reset finger"}
Repairing == {"repair set", "repair verify"}
Locations == Resting \cup Setting \cup Wiping \cup Repairing
               \cup {"off", "change finger", "repair reset"}

SePinTypeOK ==
  /\ chip \in [Chips -> Chip]
  /\ initialized \in BOOLEAN /\ has_pin \in BOOLEAN
  /\ onboarding \in {"no", "pin", "seed"}
  /\ pc \in Locations
  /\ call \in Calls
  /\ torn \in BOOLEAN

\* A chip without a PIN has all of its tries.
BlankChip == \A c \in Chips : chip[c].pin = NoPin => chip[c].tries = RETRY_MAX

\* A seed implies a PIN, and has_pin knows of it while the device is running.
Seeded ==
  /\ initialized => chip["master"].pin # NoPin
  /\ initialized /\ pc # "off" => has_pin
  /\ pc \in Setting => ~has_pin
  /\ pc = "reset finger" => ~initialized /\ chip["master"].pin = NoPin

\* The onboarding is alone with the chips; when it comes to the seed, change_pin
\* has put a PIN into both.
Onboarding ==
  /\ pc = "off" => onboarding = "no"
  /\ onboarding = "pin" => ~initialized /\ (pc \in Setting \/ pc = "change master" \/ Halfway)
  /\ onboarding = "seed" => /\ ~initialized /\ pc = "idle" /\ has_pin
                            /\ chip["master"].pin # NoPin
                            /\ ~torn => chip["master"].pin = chip["finger"].pin

\* The chips of a device with a seed agree where no call is between them.
Agree ==
  ~torn /\ initialized /\ pc \in Resting \cup {"off", "reset master"}
    => chip["master"].pin = chip["finger"].pin

\* Where a call is between the two chips, the first of them has its PIN.
Between ==
  /\ pc = "change master" \/ Halfway => has_pin
  /\ pc = "set finger" \/ Halfway => chip["master"].pin = call.new
  /\ pc = "repair set" => chip["finger"].pin = NoPin
  /\ pc = "repair verify" => chip["finger"].pin = call.new

Rest == BlankChip /\ Seeded /\ Onboarding /\ Agree /\ Between

SePinIInv == SePinTypeOK /\ Rest

-----------------------------------------------------------------------------
USE SePinAssumption DEF Chips, Resting, Setting, Wiping, Repairing, Locations

\* A chip after an erase.
LEMMA ErasedChip == Erased \in Chip /\ Erased.pin = NoPin /\ Erased.tries = RETRY_MAX
  BY DEF Erased, Chip

\* The commands, each on one chip; the other chip is not touched.
LEMMA SetChip ==
  ASSUME NEW c \in Chips, NEW value \in Chip, chip \in [Chips -> Chip], Set(c, value)
  PROVE  /\ chip' \in [Chips -> Chip]
         /\ chip'[c] = value
         /\ \A d \in Chips \ {c} : chip'[d] = chip[d]
  BY DEF Set

\* reset_storage on one chip: no PIN and all tries.
LEMMA EraseChip ==
  ASSUME NEW c \in Chips, chip \in [Chips -> Chip], Set(c, Erased)
  PROVE  /\ chip' \in [Chips -> Chip]
         /\ chip'[c].pin = NoPin /\ chip'[c].tries = RETRY_MAX
         /\ \A d \in Chips \ {c} : chip'[d] = chip[d]
  BY SetChip, ErasedChip

\* A chip that refuses a PIN keeps its own, and one without a PIN its tries.
LEMMA RefuseChip ==
  ASSUME NEW c \in Chips, chip \in [Chips -> Chip], Set(c, Refused(c))
  PROVE  /\ chip' \in [Chips -> Chip]
         /\ chip'[c].pin = chip[c].pin
         /\ chip[c].pin = NoPin => chip'[c].tries = chip[c].tries
         /\ \A d \in Chips \ {c} : chip'[d] = chip[d]
<1>1. PICK r \in Chip : r = chip[c]
  OBVIOUS
<1> DEFINE n == IF r.tries = 0 \/ r.pin = NoPin THEN r.tries ELSE r.tries - 1
<1>2. Refused(c) = [r EXCEPT !.tries = n]
  BY <1>1 DEF Refused
<1>3. n \in 0..RETRY_MAX /\ (r.pin = NoPin => n = r.tries)
  BY DEF Chip
<1> HIDE DEF n
<1>4. /\ [r EXCEPT !.tries = n] \in Chip
      /\ [r EXCEPT !.tries = n].pin = r.pin
      /\ [r EXCEPT !.tries = n].tries = n
  BY <1>3 DEF Chip
<1>5. /\ chip' \in [Chips -> Chip] /\ chip'[c] = [r EXCEPT !.tries = n]
      /\ \A d \in Chips \ {c} : chip'[d] = chip[d]
  BY <1>2, <1>4, SetChip, Zenon
<1> QED
  BY <1>1, <1>3, <1>4, <1>5, Zenon

\* So does a chip that verifies a PIN.
LEMMA VerifyChip ==
  ASSUME NEW c \in Chips, chip \in [Chips -> Chip], NEW pin, Set(c, Verified(c, pin))
  PROVE  /\ chip' \in [Chips -> Chip]
         /\ chip'[c].pin = chip[c].pin
         /\ chip[c].pin = NoPin => chip'[c].tries \in {chip[c].tries, RETRY_MAX}
         /\ \A d \in Chips \ {c} : chip'[d] = chip[d]
<1>1. CASE Accepts(c, pin)
  <2>1. PICK r \in Chip : r = chip[c]
    OBVIOUS
  <2>2. /\ [r EXCEPT !.tries = RETRY_MAX] \in Chip
        /\ [r EXCEPT !.tries = RETRY_MAX].pin = r.pin
        /\ [r EXCEPT !.tries = RETRY_MAX].tries = RETRY_MAX
    BY DEF Chip
  <2>3. Set(c, [r EXCEPT !.tries = RETRY_MAX])
    BY <1>1, <2>1, Zenon DEF Verified
  <2>4. /\ chip' \in [Chips -> Chip] /\ chip'[c] = [r EXCEPT !.tries = RETRY_MAX]
        /\ \A d \in Chips \ {c} : chip'[d] = chip[d]
    BY <2>2, <2>3, SetChip, Zenon
  <2> QED
    BY <2>1, <2>2, <2>4, Zenon
<1>2. CASE ~Accepts(c, pin)
  BY <1>2, RefuseChip, Zenon DEF Verified
<1> QED
  BY <1>1, <1>2, Zenon

\* set_pin on a chip writes its PIN and nothing else.
LEMMA SetPinOfChip ==
  ASSUME NEW c \in Chips, chip \in [Chips -> Chip], NEW pin \in Pins,
         Set(c, [chip[c] EXCEPT !.pin = pin])
  PROVE  /\ chip' \in [Chips -> Chip]
         /\ chip'[c].pin = pin
         /\ \A d \in Chips \ {c} : chip'[d] = chip[d]
<1>1. PICK r \in Chip : r = chip[c]
  OBVIOUS
<1>2. [r EXCEPT !.pin = pin] \in Chip /\ [r EXCEPT !.pin = pin].pin = pin
  BY DEF Chip
<1>3. /\ chip' \in [Chips -> Chip] /\ chip'[c] = [r EXCEPT !.pin = pin]
      /\ \A d \in Chips \ {c} : chip'[d] = chip[d]
  BY <1>1, <1>2, SetChip, Zenon
<1> QED
  BY <1>2, <1>3, Zenon

\* change_pin on a chip also gives it back its tries.
LEMMA ChangePinOfChip ==
  ASSUME NEW c \in Chips, chip \in [Chips -> Chip], NEW pin \in Pins,
         Set(c, [chip[c] EXCEPT !.pin = pin, !.tries = RETRY_MAX])
  PROVE  /\ chip' \in [Chips -> Chip]
         /\ chip'[c].pin = pin
         /\ \A d \in Chips \ {c} : chip'[d] = chip[d]
<1>1. PICK r \in Chip : r = [chip[c] EXCEPT !.pin = pin]
  BY Zenon DEF Chip
<1>2. r.pin = pin
  <2>1. PICK q \in Chip : q = chip[c]
    OBVIOUS
  <2>2. r = [q EXCEPT !.pin = pin]
    BY <1>1, <2>1, Zenon
  <2> QED
    BY <2>2 DEF Chip
<1>3. [chip[c] EXCEPT !.pin = pin, !.tries = RETRY_MAX] = [r EXCEPT !.tries = RETRY_MAX]
  BY <1>1, Zenon
<1>4. [r EXCEPT !.tries = RETRY_MAX] \in Chip /\ [r EXCEPT !.tries = RETRY_MAX].pin = r.pin
  BY DEF Chip
<1>a. Set(c, [r EXCEPT !.tries = RETRY_MAX])
  BY <1>3, Zenon
<1>5. /\ chip' \in [Chips -> Chip] /\ chip'[c] = [r EXCEPT !.tries = RETRY_MAX]
      /\ \A d \in Chips \ {c} : chip'[d] = chip[d]
  BY <1>4, <1>a, SetChip, Zenon
<1> QED
  BY <1>2, <1>4, <1>5, Zenon

\* The PINs of a call.
LEMMA CallType == ASSUME call \in Calls PROVE call.new \in Pins /\ call.new # NoPin
  BY DEF Calls

\* The start of the device.
LEMMA InitSePin == SePinInit => SePinIInv
<1> SUFFICES ASSUME SePinInit PROVE SePinIInv
  OBVIOUS
<1>1. SePinTypeOK
  <2>1. chip \in [Chips -> Chip]
    BY ErasedChip DEF SePinInit
  <2> QED
    BY <2>1, Zenon DEF SePinInit, SePinTypeOK
<1>2. Rest
  BY ErasedChip DEF SePinInit, Rest, BlankChip, Seeded, Onboarding, Agree, Between, Halfway
<1> QED
  BY <1>1, <1>2 DEF SePinIInv

\* The chips keep their type.
LEMMA ChipsType == SePinTypeOK /\ [SePinNext]_se_vars => chip' \in [Chips -> Chip]
<1> SUFFICES ASSUME SePinTypeOK, [SePinNext]_se_vars PROVE chip' \in [Chips -> Chip]
  OBVIOUS
<1>a. chip \in [Chips -> Chip] /\ call.new \in Pins
  BY CallType, Zenon DEF SePinTypeOK
<1>1. CASE Boot \/ ResetMaster \/ ResetFinger \/ ResetAndRestart \/ RepairReset
  BY <1>1, <1>a, ErasedChip, EraseChip, Zenon
     DEF Boot, AfterHasPin, ResetMaster, ResetFinger, ResetAndRestart, RepairReset
<1>2. CASE VerifyFinger \/ RepairVerify \/ (\E pin \in Pins : VerifyMaster(pin))
  BY <1>2, <1>a, VerifyChip, Zenon DEF VerifyFinger, RepairVerify, VerifyMaster
<1>3. CASE ChangeMaster \/ ChangeFinger
  BY <1>3, <1>a, RefuseChip, ChangePinOfChip, Zenon DEF ChangeMaster, ChangeFinger
<1>4. CASE SetMaster \/ SetFinger \/ RepairSet
  BY <1>4, <1>a, SetPinOfChip, Zenon DEF SetMaster, SetFinger, RepairSet
<1>5. CASE StoreSeed \/ EndOnboarding \/ PowerLoss \/ Wipe \/ (\E pin \in Pins : Onboard(pin))
             \/ (\E c \in Calls : ChangePin(c)) \/ UNCHANGED se_vars
  BY <1>5, <1>a, Zenon
     DEF StoreSeed, EndOnboarding, PowerLoss, Wipe, Onboard, ChangePin, Begin, se_vars
<1> QED
  BY <1>1, <1>2, <1>3, <1>4, <1>5 DEF SePinNext

\* Every variable keeps its type.
LEMMA NextTypeOK == SePinTypeOK /\ [SePinNext]_se_vars => SePinTypeOK'
<1> SUFFICES ASSUME SePinTypeOK, [SePinNext]_se_vars PROVE SePinTypeOK'
  OBVIOUS
<1> USE DEF Goto, Keep
<1> DEFINE Others ==
      /\ initialized \in BOOLEAN /\ has_pin \in BOOLEAN
      /\ onboarding \in {"no", "pin", "seed"}
      /\ pc \in Locations
      /\ call \in Calls
      /\ torn \in BOOLEAN
<1>a. Others
  BY Zenon DEF SePinTypeOK
<1>1. ASSUME Boot \/ Wipe \/ ResetMaster \/ ResetFinger \/ ResetAndRestart PROVE Others'
  BY <1>1, <1>a, Zenon DEF Boot, Wipe, ResetMaster, ResetFinger, ResetAndRestart
<1>2. ASSUME VerifyFinger \/ SetMaster \/ SetFinger \/ ChangeMaster \/ ChangeFinger
      PROVE  Others'
  BY <1>2, <1>a, Zenon
     DEF VerifyFinger, SetMaster, SetFinger, ChangeMaster, ChangeFinger, Return
<1>3. ASSUME RepairReset \/ RepairSet \/ RepairVerify PROVE Others'
  BY <1>3, <1>a, Zenon DEF RepairReset, RepairSet, RepairVerify, Return
<1>4. ASSUME NEW pin \in Pins, VerifyMaster(pin) \/ Onboard(pin) PROVE Others'
  <2>1. [old |-> pin, new |-> pin] \in Calls /\ [old |-> NoPin, new |-> pin] \in Calls
    BY DEF Calls
  <2> QED
    BY <1>4, <1>a, <2>1, Zenon DEF VerifyMaster, Onboard, Begin
<1>5. ASSUME NEW c \in Calls, ChangePin(c) PROVE Others'
  BY <1>5, <1>a, Zenon DEF ChangePin, Begin
<1>6. ASSUME StoreSeed \/ EndOnboarding \/ PowerLoss PROVE Others'
  BY <1>6, <1>a, Zenon DEF StoreSeed, EndOnboarding, PowerLoss
<1>7. ASSUME UNCHANGED se_vars PROVE Others'
  BY <1>7, <1>a, Zenon DEF se_vars
<1>b. Others'
  BY <1>1, <1>2, <1>3, <1>4, <1>5, <1>6, <1>7, Zenon DEF SePinNext
<1> QED
  BY <1>b, ChipsType, Zenon DEF SePinTypeOK

\* A step that leaves the seed, the cached flag and the master's PIN alone.
LEMMA SeedKept ==
  ASSUME Seeded, UNCHANGED <<initialized, has_pin>>,
         chip'["master"].pin = chip["master"].pin,
         pc # "off", pc' \notin Setting \cup {"reset finger"}
  PROVE  Seeded'
<1>1. initialized' => chip'["master"].pin # NoPin
  BY Zenon DEF Seeded
<1>2. initialized' /\ pc' # "off" => has_pin'
  BY Zenon DEF Seeded
<1> QED
  BY <1>1, <1>2, Zenon DEF Seeded

\* Every step keeps the invariant.
LEMMA NextSePin == SePinIInv /\ [SePinNext]_se_vars => SePinIInv'
<1> SUFFICES ASSUME SePinIInv, [SePinNext]_se_vars PROVE SePinIInv'
  OBVIOUS
<1>a. SePinTypeOK' /\ Rest /\ pc \in Locations /\ onboarding \in {"no", "pin", "seed"}
  BY NextTypeOK, Zenon DEF SePinIInv, SePinTypeOK
<1>b. chip \in [Chips -> Chip] /\ call.new \in Pins /\ call.new # NoPin
  BY CallType, Zenon DEF SePinIInv, SePinTypeOK
<1> USE DEF Rest, BlankChip, Seeded, Onboarding, Agree, Between, Halfway
<1>1. ASSUME Boot PROVE Rest'
  BY <1>1, <1>a, <1>b, ErasedChip, Zenon DEF Boot, AfterHasPin, RetryTimes, Goto
<1>2. ASSUME Wipe PROVE Rest'
  BY <1>2, <1>a, Zenon DEF Wipe, Goto, Keep
<1>3. ASSUME ResetMaster PROVE Rest'
  <2>1. /\ chip'["master"].pin = NoPin /\ chip'["master"].tries = RETRY_MAX
        /\ chip'["finger"] = chip["finger"]
    BY <1>3, <1>b, EraseChip, Zenon DEF ResetMaster
  <2> QED
    BY <1>3, <1>a, <2>1, Zenon DEF ResetMaster, Goto
<1>4. ASSUME ResetFinger PROVE Rest'
  <2>1. /\ chip'["finger"].pin = NoPin /\ chip'["finger"].tries = RETRY_MAX
        /\ chip'["master"] = chip["master"]
    BY <1>4, <1>b, EraseChip, Zenon DEF ResetFinger
  <2> QED
    BY <1>4, <1>a, <2>1, Zenon DEF ResetFinger, Goto
<1>5. ASSUME ResetAndRestart PROVE Rest'
  BY <1>5, <1>a, ErasedChip, Zenon DEF ResetAndRestart, Goto
<1>6. ASSUME NEW pin \in Pins, VerifyMaster(pin) PROVE Rest'
  <2>1. /\ chip'["master"].pin = chip["master"].pin
        /\ chip["master"].pin = NoPin => chip'["master"].tries \in {chip["master"].tries, RETRY_MAX}
        /\ chip'["finger"] = chip["finger"]
    BY <1>6, <1>b, VerifyChip, Zenon DEF VerifyMaster
  <2>2. /\ pc = "idle" /\ pc' \in {"idle", "verify finger", "reset and restart"}
        /\ onboarding = "no" /\ UNCHANGED <<initialized, has_pin, onboarding, torn>>
    BY <1>6, Zenon DEF VerifyMaster, Keep
  <2> QED
    BY <1>a, <2>1, <2>2, Zenon
<1>7. ASSUME VerifyFinger PROVE Rest'
  <2>1. /\ chip'["finger"].pin = chip["finger"].pin
        /\ chip["finger"].pin = NoPin => chip'["finger"].tries \in {chip["finger"].tries, RETRY_MAX}
        /\ chip'["master"] = chip["master"]
    BY <1>7, <1>b, VerifyChip, Zenon DEF VerifyFinger
  <2>2. /\ pc = "verify finger" /\ pc' \in {"idle", "reset and restart"}
        /\ UNCHANGED <<initialized, has_pin, onboarding, torn>>
    BY <1>7, Zenon DEF VerifyFinger, Goto, Keep
  <2>3. BlankChip' /\ Agree' /\ Between' /\ Onboarding'
    BY <1>a, <2>1, <2>2, Zenon
  <2>4. Seeded'
    BY <1>a, <2>1, <2>2, SeedKept, Zenon
  <2> QED
    BY <2>3, <2>4, Zenon
<1>8. ASSUME NEW pin \in Pins, Onboard(pin) PROVE Rest'
  BY <1>8, <1>a, Zenon DEF Onboard, Begin, Keep
<1>9. ASSUME NEW c \in Calls, ChangePin(c) PROVE Rest'
  BY <1>9, <1>a, Zenon DEF ChangePin, Begin, Keep
<1>10. ASSUME SetMaster PROVE Rest'
  <2>1. CASE chip["master"].pin # NoPin
    BY <1>10, <1>a, <2>1, Zenon DEF SetMaster, Return, Keep
  <2>2. CASE chip["master"].pin = NoPin
    <3>1. Set("master", [chip["master"] EXCEPT !.pin = call.new]) /\ pc' = "set finger"
      BY <1>10, <2>2, Zenon DEF SetMaster, Goto
    <3>2. chip'["master"].pin = call.new /\ chip'["finger"] = chip["finger"]
      BY <1>b, <3>1, SetPinOfChip, Zenon
    <3>3. pc = "set master" /\ UNCHANGED <<initialized, has_pin, onboarding, torn, call>>
      BY <1>10, <2>2, Zenon DEF SetMaster, Goto, Keep
    <3> QED
      BY <1>a, <1>b, <2>2, <3>1, <3>2, <3>3, Zenon
  <2> QED
    BY <2>1, <2>2, Zenon
<1>11. ASSUME SetFinger PROVE Rest'
  <2>1. CASE chip["finger"].pin # NoPin
    BY <1>11, <1>a, <2>1, Zenon DEF SetFinger, Return
  <2>2. CASE chip["finger"].pin = NoPin
    <3>1. Set("finger", [chip["finger"] EXCEPT !.pin = call.new]) /\ has_pin'
      BY <1>11, <2>2, Zenon DEF SetFinger
    <3>2. chip'["finger"].pin = call.new /\ chip'["master"] = chip["master"]
      BY <1>b, <3>1, SetPinOfChip, Zenon
    <3>3. /\ pc = "set finger" /\ pc' = "idle" /\ onboarding' \in {"no", "seed"}
          /\ UNCHANGED <<initialized, torn, call>>
      BY <1>11, <2>2, Zenon DEF SetFinger, Return
    <3> QED
      BY <1>a, <1>b, <2>2, <3>1, <3>2, <3>3, Zenon
  <2> QED
    BY <2>1, <2>2, Zenon
<1>12. ASSUME ChangeMaster PROVE Rest'
  <2>0. pc = "change master" /\ UNCHANGED <<initialized, has_pin, torn, call>>
    BY <1>12, Zenon DEF ChangeMaster, Goto, Return, Keep
  <2>1. CASE pc' = "change finger"
    <3>1. /\ Set("master", [chip["master"] EXCEPT !.pin = call.new, !.tries = RETRY_MAX])
          /\ UNCHANGED onboarding
      BY <1>12, <2>1, Zenon DEF ChangeMaster, Goto, Return
    <3>2. chip'["master"].pin = call.new /\ chip'["finger"] = chip["finger"]
      BY <1>b, <3>1, ChangePinOfChip, Zenon
    <3> QED
      BY <1>a, <1>b, <2>0, <2>1, <3>1, <3>2, Zenon
  <2>2. CASE pc' # "change finger"
    <3>1. Set("master", Refused("master")) /\ pc' = "idle" /\ onboarding' = "no"
      BY <1>12, <2>2, Zenon DEF ChangeMaster, Goto, Return
    <3>2. /\ chip'["master"].pin = chip["master"].pin
          /\ chip["master"].pin = NoPin => chip'["master"].tries = chip["master"].tries
          /\ chip'["finger"] = chip["finger"]
      BY <1>b, <3>1, RefuseChip, Zenon
    <3> QED
      BY <1>a, <2>0, <3>1, <3>2, Zenon
  <2> QED
    BY <2>1, <2>2, Zenon
<1>13. ASSUME ChangeFinger PROVE Rest'
  <2>0. pc = "change finger" /\ UNCHANGED <<initialized, has_pin, call>>
    BY <1>13, Zenon DEF ChangeFinger, Goto, Return
  <2>1. CASE pc' = "idle"
    <3>1. /\ Set("finger", [chip["finger"] EXCEPT !.pin = call.new, !.tries = RETRY_MAX])
          /\ onboarding' = IF onboarding = "pin" THEN "seed" ELSE "no"
      BY <1>13, <2>1, Zenon DEF ChangeFinger, Goto, Return
    <3>2. chip'["finger"].pin = call.new /\ chip'["master"] = chip["master"]
      BY <1>b, <3>1, ChangePinOfChip, Zenon
    <3>3. BlankChip' /\ Agree' /\ Between'
      BY <1>a, <1>b, <2>0, <2>1, <3>2, Zenon
    <3>4. Onboarding'
      BY <1>a, <1>b, <2>0, <2>1, <3>1, <3>2, Zenon
    <3>5. Seeded'
      BY <1>a, <2>0, <2>1, <3>2, SeedKept, Zenon
    <3> QED
      BY <3>3, <3>4, <3>5, Zenon
  <2>2. CASE pc' # "idle"
    <3>1. Set("finger", Refused("finger")) /\ pc' = "repair reset" /\ UNCHANGED onboarding
      BY <1>13, <2>2, Zenon DEF ChangeFinger, Goto, Return
    <3>2. /\ chip'["finger"].pin = chip["finger"].pin
          /\ chip["finger"].pin = NoPin => chip'["finger"].tries = chip["finger"].tries
          /\ chip'["master"] = chip["master"]
      BY <1>b, <3>1, RefuseChip, Zenon
    <3>3. BlankChip' /\ Agree' /\ Between' /\ Onboarding'
      BY <1>a, <2>0, <3>1, <3>2, Zenon
    <3>4. Seeded'
      BY <1>a, <2>0, <3>1, <3>2, SeedKept, Zenon
    <3> QED
      BY <3>3, <3>4, Zenon
  <2> QED
    BY <2>1, <2>2, Zenon
<1>14. ASSUME RepairReset PROVE Rest'
  <2>0. /\ pc = "repair reset" /\ pc' = "repair set"
        /\ UNCHANGED <<initialized, has_pin, onboarding, torn, call>>
    BY <1>14, Zenon DEF RepairReset, Goto, Keep
  <2>1. /\ chip'["master"] = chip["master"]
        /\ chip'["finger"].pin = NoPin /\ chip'["finger"].tries = RETRY_MAX
    BY <1>14, <1>a, <1>b, EraseChip, Zenon DEF RepairReset
  <2> QED
    BY <1>a, <2>0, <2>1, Zenon
<1>15. ASSUME RepairSet PROVE Rest'
  <2>0. /\ pc = "repair set" /\ pc' = "repair verify"
        /\ UNCHANGED <<initialized, has_pin, onboarding, torn, call>>
    BY <1>15, Zenon DEF RepairSet, Goto, Keep
  <2>1. chip'["master"] = chip["master"] /\ chip'["finger"].pin = call.new
    BY <1>15, <1>b, SetPinOfChip, Zenon DEF RepairSet
  <2> QED
    BY <1>a, <1>b, <2>0, <2>1, Zenon
<1>16. ASSUME RepairVerify PROVE Rest'
  <2>0. /\ pc = "repair verify" /\ pc' = "idle"
        /\ onboarding' = IF onboarding = "pin" THEN "seed" ELSE "no"
        /\ UNCHANGED <<initialized, has_pin, call>>
    BY <1>16, Zenon DEF RepairVerify, Return
  <2>1. chip'["master"] = chip["master"] /\ chip'["finger"].pin = chip["finger"].pin
    BY <1>16, <1>b, VerifyChip, Zenon DEF RepairVerify
  <2>2. BlankChip' /\ Agree' /\ Between'
    BY <1>a, <1>b, <2>0, <2>1, Zenon
  <2>3. Onboarding'
    BY <1>a, <1>b, <2>0, <2>1, Zenon
  <2>4. Seeded'
    BY <1>a, <2>0, <2>1, SeedKept, Zenon
  <2> QED
    BY <2>2, <2>3, <2>4, Zenon
<1>17. ASSUME StoreSeed \/ EndOnboarding PROVE Rest'
  BY <1>17, <1>a, Zenon DEF StoreSeed, EndOnboarding
<1>18. ASSUME PowerLoss PROVE Rest'
  <2>1. /\ pc # "off" /\ pc' = "off" /\ onboarding' = "no"
        /\ UNCHANGED <<chip, initialized, has_pin, call>>
    BY <1>18, Zenon DEF PowerLoss
  <2>2. ~torn' => ~torn /\ ~Halfway
    BY <1>18, Zenon DEF PowerLoss
  <2>3. BlankChip' /\ Onboarding' /\ Between'
    BY <1>a, <2>1, Zenon
  <2>4. Seeded'
    BY <1>a, <2>1, SeedKept, Zenon
  <2>5. Agree'
    <3> SUFFICES ASSUME ~torn', initialized
                 PROVE  chip["master"].pin = chip["finger"].pin
      BY <2>1
    <3>1. pc \in Resting \cup {"reset master"}
      BY <1>a, <2>1, <2>2, Zenon
    <3> QED
      BY <1>a, <2>2, <3>1, Zenon
  <2> QED
    BY <2>3, <2>4, <2>5, Zenon
<1>19. ASSUME UNCHANGED se_vars PROVE Rest'
  BY <1>19, <1>a, Zenon DEF se_vars
<1>c. Rest'
  BY <1>1, <1>2, <1>3, <1>4, <1>5, <1>6, <1>7, <1>8, <1>9, <1>10, <1>11, <1>12, <1>13,
     <1>14, <1>15, <1>16, <1>17, <1>18, <1>19, Zenon DEF SePinNext
<1> QED
  BY <1>a, <1>c, Zenon DEF SePinIInv

\* The invariant, over any sequence of calls to the chips and power losses.
THEOREM SePinInvariance == SePinSpec => []SePinIInv
  BY InitSePin, NextSePin, PTL DEF SePinSpec

\* The two secure chips of a device with a seed hold the same PIN whenever it
\* waits for a call, but for a power loss in se_changePin: se_setPin,
\* se_reset_storage and the verification cannot bring them apart.
THEOREM ChipsInStep == SePinSpec => []ChipsAgree
<1>1. SePinIInv => ChipsAgree
  BY DEF SePinIInv, Rest, Agree, ChipsAgree
<1> QED
  BY <1>1, SePinInvariance, PTL

\* There is no seed without a PIN, and none that the cached has_pin denies, for all
\* that a wipe, clear() and a se_setPin in one chip only leave the cache as it is.
THEOREM SeedIsProtected == SePinSpec => []SeedHasPin
<1>1. SePinIInv => SeedHasPin
  BY DEF SePinIInv, Rest, Seeded, SeedHasPin
<1> QED
  BY <1>1, SePinInvariance, PTL

\* se_changePin ends with the new PIN in both chips, with or without a repair of
\* the finger chip.
THEOREM ChangeReachesBoth == SePinSpec => ChangeSynchronises
<1> DEFINE A == Halfway /\ pc' = "idle" => \A c \in Chips : chip'[c].pin = call.new
<1>1. SePinIInv /\ [SePinNext]_se_vars => A
  <2> SUFFICES ASSUME SePinIInv, [SePinNext]_se_vars, Halfway, pc' = "idle"
               PROVE  \A c \in Chips : chip'[c].pin = call.new
    OBVIOUS
  <2>a. chip \in [Chips -> Chip] /\ chip["master"].pin = call.new /\ call.new \in Pins
    BY CallType, Zenon DEF SePinIInv, SePinTypeOK, Rest, Between
  <2>1. CASE ChangeFinger
    <3>1. Set("finger", [chip["finger"] EXCEPT !.pin = call.new, !.tries = RETRY_MAX])
      BY <2>1, Zenon DEF ChangeFinger, Goto
    <3> QED
      BY <2>a, <3>1, ChangePinOfChip, Zenon
  <2>2. CASE RepairVerify
    <3>1. chip["finger"].pin = call.new /\ Set("finger", Verified("finger", call.new))
      BY <2>2, Zenon DEF RepairVerify, SePinIInv, Rest, Between
    <3> QED
      BY <2>a, <3>1, VerifyChip
  <2>3. CASE ~ChangeFinger /\ ~RepairVerify
    BY <2>3, Zenon DEF SePinNext, se_vars, Halfway, Boot, Wipe, ResetMaster, ResetFinger,
       ResetAndRestart, VerifyMaster, VerifyFinger, ChangePin, Onboard, SetMaster, SetFinger,
       ChangeMaster, RepairReset, RepairSet, StoreSeed, EndOnboarding, PowerLoss, Goto
  <2> QED
    BY <2>1, <2>2, <2>3
<1> QED
  BY <1>1, SePinInvariance, PTL DEF SePinSpec, ChangeSynchronises

-----------------------------------------------------------------------------
(***************************************************************************)
(* The dialogues of DialogManager.                                         *)
(***************************************************************************)
HIDE DEF Chips, Resting, Setting, Wiping, Repairing, Locations

Classes == {"U2fUnlock", "U2fConfirm", "Fido2Unlock", "Fido2Confirm", "Fido2ConfirmNoPin"}
Choices == {"confirm", "decline", "error", "Fido2Confirm", "Fido2ConfirmNoPin"}

Results == {"none", "confirm", "decline", "cancel", "timeout"}
Steps   == {"none", "start", "dialog", "chosen", "confirm", "popup", "done"}
Consents == {"none", "given", "used", "forged"}

Dialog == [req : Requests, class : Classes, finished : BOOLEAN]

Mgr == [state   : Dialog \cup {None}, expired : BOOLEAN,
        result  : Results, task : Steps, choice : Choices \cup {"none"},
        loops   : Int, ref : BOOLEAN, asked : SUBSET Ctap,
        answers : [Ctap -> Nat], cancels : [Ctap -> Nat], dropped : SUBSET Ctap,
        consent : [U2f -> Consents]]

\* A state has the class of its request; a CTAP2 request that has one was accepted.
Classed(m) ==
  m.state # None =>
    IF m.state.class \in {"U2fUnlock", "U2fConfirm"} THEN m.state.req \in U2f
    ELSE m.state.req \in m.asked

\* No CTAP2 request has two answers; one whose dialogue can still answer has none.
Unanswered(m) ==
  /\ \A r \in Ctap : m.answers[r] \in {0, 1} /\ (r \notin m.asked => m.answers[r] = 0)
  /\ m.task \in {"start", "dialog", "chosen", "confirm"} =>
       m.state # None /\ (Fido2State(m.state) => m.answers[m.state.req] = 0)
  /\ m.task = "confirm" => Fido2State(m.state)

\* What a dialogue may return.
Chosen(m) ==
  m.task = "chosen" =>
    /\ m.choice \in Choices
    /\ m.choice \in {"Fido2Confirm", "Fido2ConfirmNoPin"} => m.state.class = "Fido2Unlock"
    /\ m.state.class = "Fido2ConfirmNoPin" => m.choice = "decline"

Unforged(m) == \A r \in U2f : m.consent[r] # "forged"

Base(m) == m \in Mgr /\ Classed(m) /\ Unanswered(m) /\ Unforged(m)

Sound(m) == Base(m) /\ Chosen(m)

\* Until the deadline, a confirmation in hand is the user's consent to the request.
Given(m) ==
  /\ m.state # None
  /\ m.state.class = "U2fConfirm"
  /\ ~m.expired
  /\ m.result = "confirm" \/ (m.task = "chosen" /\ m.choice = "confirm")
  => m.consent[m.state.req] = "given"

IInv == Sound(mgr) /\ Given(mgr)

-----------------------------------------------------------------------------
(***************************************************************************)
(* Changes of one attribute.  The model changes several at once; a chain   *)
(* of these is easier to reason about.                                     *)
(***************************************************************************)
WithState(m, v) == [m EXCEPT !.state = v]
WithExpired(m, v) == [m EXCEPT !.expired = v]
WithResult(m, v) == [m EXCEPT !.result = v]
WithTask(m, v) == [m EXCEPT !.task = v]
WithChoice(m, v) == [m EXCEPT !.choice = v]
WithLoops(m, v) == [m EXCEPT !.loops = v]
WithRef(m, v) == [m EXCEPT !.ref = v]
WithAsked(m, v) == [m EXCEPT !.asked = v]
WithAnswers(m, v) == [m EXCEPT !.answers = v]
WithCancels(m, v) == [m EXCEPT !.cancels = v]
WithDropped(m, v) == [m EXCEPT !.dropped = v]
WithConsent(m, v) == [m EXCEPT !.consent = v]

\* The attributes that the invariant is about.
Core(n, m) ==
  /\ n.state = m.state /\ n.expired = m.expired /\ n.result = m.result /\ n.task = m.task
  /\ n.choice = m.choice /\ n.asked = m.asked /\ n.answers = m.answers
  /\ n.consent = m.consent

\* Changing a state changes nothing else.
LEMMA StateSet ==
  \A m \in Mgr, v \in Dialog \cup {None} :
    LET n == WithState(m, v)
    IN  /\ n \in Mgr /\ n.state = v
        /\ n.expired = m.expired /\ n.result = m.result /\ n.task = m.task /\ n.choice = m.choice
        /\ n.asked = m.asked /\ n.answers = m.answers /\ n.consent = m.consent
BY DEF WithState, Mgr

\* Changing the deadline changes nothing else.
LEMMA ExpiredSet ==
  \A m \in Mgr, v \in BOOLEAN :
    LET n == WithExpired(m, v)
    IN  /\ n \in Mgr /\ n.expired = v
        /\ n.state = m.state /\ n.result = m.result /\ n.task = m.task /\ n.choice = m.choice
        /\ n.asked = m.asked /\ n.answers = m.answers /\ n.consent = m.consent
BY DEF WithExpired, Mgr

\* Changing the result changes nothing else.
LEMMA ResultSet ==
  \A m \in Mgr, v \in Results :
    LET n == WithResult(m, v)
    IN  /\ n \in Mgr /\ n.result = v
        /\ n.state = m.state /\ n.expired = m.expired /\ n.task = m.task /\ n.choice = m.choice
        /\ n.asked = m.asked /\ n.answers = m.answers /\ n.consent = m.consent
BY DEF WithResult, Mgr

\* Changing the progress of the task changes nothing else.
LEMMA TaskSet ==
  \A m \in Mgr, v \in Steps :
    LET n == WithTask(m, v)
    IN  /\ n \in Mgr /\ n.task = v
        /\ n.state = m.state /\ n.expired = m.expired /\ n.result = m.result /\ n.choice = m.choice
        /\ n.asked = m.asked /\ n.answers = m.answers /\ n.consent = m.consent
BY DEF WithTask, Mgr

\* Changing the choice changes nothing else.
LEMMA ChoiceSet ==
  \A m \in Mgr, v \in Choices \cup {"none"} :
    LET n == WithChoice(m, v)
    IN  /\ n \in Mgr /\ n.choice = v
        /\ n.state = m.state /\ n.expired = m.expired /\ n.result = m.result /\ n.task = m.task
        /\ n.asked = m.asked /\ n.answers = m.answers /\ n.consent = m.consent
BY DEF WithChoice, Mgr

\* Changing the accepted requests changes nothing else.
LEMMA AskedSet ==
  \A m \in Mgr, v \in SUBSET Ctap :
    LET n == WithAsked(m, v)
    IN  /\ n \in Mgr /\ n.asked = v
        /\ n.state = m.state /\ n.expired = m.expired /\ n.result = m.result /\ n.task = m.task
        /\ n.choice = m.choice /\ n.answers = m.answers /\ n.consent = m.consent
BY DEF WithAsked, Mgr

\* Changing the answers changes nothing else.
LEMMA AnswersSet ==
  \A m \in Mgr, v \in [Ctap -> Nat] :
    LET n == WithAnswers(m, v)
    IN  /\ n \in Mgr /\ n.answers = v
        /\ n.state = m.state /\ n.expired = m.expired /\ n.result = m.result /\ n.task = m.task
        /\ n.choice = m.choice /\ n.asked = m.asked /\ n.consent = m.consent
BY DEF WithAnswers, Mgr

\* Changing the consent changes nothing else.
LEMMA ConsentSet ==
  \A m \in Mgr, v \in [U2f -> Consents] :
    LET n == WithConsent(m, v)
    IN  /\ n \in Mgr /\ n.consent = v
        /\ n.state = m.state /\ n.expired = m.expired /\ n.result = m.result /\ n.task = m.task
        /\ n.choice = m.choice /\ n.asked = m.asked /\ n.answers = m.answers
BY DEF WithConsent, Mgr

\* The loops and the history of cancels and drops do not matter here.
LEMMA OthersSet ==
  /\ \A m \in Mgr, v \in Int : WithLoops(m, v) \in Mgr /\ Core(WithLoops(m, v), m)
  /\ \A m \in Mgr, v \in BOOLEAN : WithRef(m, v) \in Mgr /\ Core(WithRef(m, v), m)
  /\ \A m \in Mgr, v \in [Ctap -> Nat] : WithCancels(m, v) \in Mgr /\ Core(WithCancels(m, v), m)
  /\ \A m \in Mgr, v \in SUBSET Ctap : WithDropped(m, v) \in Mgr /\ Core(WithDropped(m, v), m)
<1>1. \A m \in Mgr, v \in Int : WithLoops(m, v) \in Mgr /\ Core(WithLoops(m, v), m)
  BY DEF WithLoops, Mgr, Core
<1>2. \A m \in Mgr, v \in BOOLEAN : WithRef(m, v) \in Mgr /\ Core(WithRef(m, v), m)
  BY DEF WithRef, Mgr, Core
<1>3. \A m \in Mgr, v \in [Ctap -> Nat] : WithCancels(m, v) \in Mgr /\ Core(WithCancels(m, v), m)
  BY DEF WithCancels, Mgr, Core
<1>4. \A m \in Mgr, v \in SUBSET Ctap : WithDropped(m, v) \in Mgr /\ Core(WithDropped(m, v), m)
  BY DEF WithDropped, Mgr, Core
<1> QED
  BY <1>1, <1>2, <1>3, <1>4

\* A change of what does not matter.
LEMMA CoreSound ==
  ASSUME NEW m, NEW n \in Mgr, Core(n, m)
  PROVE  (Sound(m) => Sound(n)) /\ (Given(m) => Given(n))
<1>1. (Classed(m) => Classed(n)) /\ (Unforged(m) => Unforged(n)) /\ (Given(m) => Given(n))
  BY DEF Core, Classed, Unforged, Given
<1>2. (Unanswered(m) => Unanswered(n)) /\ (Chosen(m) => Chosen(n))
  BY DEF Core, Unanswered, Chosen
<1> QED
  BY <1>1, <1>2 DEF Sound, Base

-----------------------------------------------------------------------------
\* None is not a state.
LEMMA NoneIsNoState == None \notin Dialog
BY CidAssumption DEF Dialog, Classes

\* loop.close(self.keepalive)
LEMMA Keepalive ==
  ASSUME NEW m \in Mgr
  PROVE  CloseKeepalive(m) \in Mgr /\ Core(CloseKeepalive(m), m)
<1>1. CloseKeepalive(m) = IF m.ref THEN WithRef(WithLoops(m, m.loops - 1), FALSE) ELSE m
  BY Zenon DEF CloseKeepalive, WithRef, WithLoops
<1>2. m.loops \in Int /\ m.loops - 1 \in Int
  BY DEF Mgr
<1>3. WithLoops(m, m.loops - 1) \in Mgr /\ Core(WithLoops(m, m.loops - 1), m)
  BY <1>2, OthersSet
<1>4. /\ WithRef(WithLoops(m, m.loops - 1), FALSE) \in Mgr
      /\ Core(WithRef(WithLoops(m, m.loops - 1), FALSE), WithLoops(m, m.loops - 1))
  BY <1>3, OthersSet, Zenon
<1> QED
  BY <1>1, <1>3, <1>4, Zenon DEF Core

\* An answer is counted, and the state is finished.
LEMMA Answering ==
  ASSUME NEW m \in Mgr, m.state \in Dialog, NEW r \in Ctap
  PROVE  LET n == Answered(m, r)
         IN  /\ n \in Mgr
             /\ n.state \in Dialog /\ n.state.req = m.state.req /\ n.state.class = m.state.class
             /\ n.answers = [m.answers EXCEPT ![r] = m.answers[r] + 1]
             /\ n.expired = m.expired /\ n.result = m.result /\ n.task = m.task
             /\ n.choice = m.choice /\ n.asked = m.asked /\ n.consent = m.consent
<1> DEFINE a == [m.answers EXCEPT ![r] = m.answers[r] + 1]
           l == WithAnswers(m, a)
           s == [m.state EXCEPT !.finished = TRUE]
<1>1. a \in [Ctap -> Nat]
  BY DEF Mgr
<1>2. s \in Dialog /\ s.req = m.state.req /\ s.class = m.state.class
  BY Zenon DEF Dialog
<1>3. Answered(m, r) = WithState(l, s)
  <2>1. Answered(m, r) = LET n == [m EXCEPT !.answers[r] = @ + 1]
                         IN  [n EXCEPT !.state.finished = TRUE]
    BY Zenon DEF Answered
  <2>2. [m EXCEPT !.answers[r] = @ + 1] = l
    BY DEF WithAnswers, Mgr
  <2>3. l.state = m.state
    BY <1>1, AnswersSet
  <2> QED
    BY <2>1, <2>2, <2>3, Zenon DEF WithState
<1> HIDE DEF a, s
<1>4. /\ l \in Mgr /\ l.answers = a
      /\ l.expired = m.expired /\ l.result = m.result /\ l.task = m.task
      /\ l.choice = m.choice /\ l.asked = m.asked /\ l.consent = m.consent
  BY <1>1, AnswersSet
<1> HIDE DEF l
<1>5. WithState(l, s) \in Mgr /\ WithState(l, s).state = s /\ WithState(l, s).answers = a
      /\ WithState(l, s).expired = m.expired /\ WithState(l, s).result = m.result
      /\ WithState(l, s).task = m.task /\ WithState(l, s).choice = m.choice
      /\ WithState(l, s).asked = m.asked /\ WithState(l, s).consent = m.consent
  BY <1>2, <1>4, StateSet
<1> QED
  BY <1>2, <1>3, <1>5 DEF a

\* The finally clause of dialog_workflow: what is answered was not answered before.
LEMMA Finishing ==
  ASSUME NEW m, Base(m), m.task \in {"dialog", "chosen"}
  PROVE  LET n == Finally(m)
         IN  /\ Sound(n) /\ (Given(m) => Given(n))
             /\ n.task = "done" /\ n.asked = m.asked /\ n.consent = m.consent
<1> DEFINE k == CloseKeepalive(m)
           d == WithTask(k, "done")
<1>1. m \in Mgr /\ k \in Mgr /\ Core(k, m)
  BY Keepalive DEF Sound, Base
<1> HIDE DEF k
<1>2. /\ d \in Mgr /\ d.task = "done" /\ d.state = m.state /\ d.expired = m.expired
      /\ d.result = m.result /\ d.choice = m.choice /\ d.asked = m.asked
      /\ d.answers = m.answers /\ d.consent = m.consent
  BY <1>1, TaskSet DEF Core, Steps
<1>3. Finally(m) = IF m.result = "cancel" THEN d ELSE OnDecline(d)
  BY DEF Finally, WithTask, k
<1> HIDE DEF d
<1>4. Sound(d)
  BY <1>2 DEF Sound, Base, Classed, Unanswered, Chosen, Unforged
<1>5. Given(m) => Given(d)
  BY <1>2 DEF Given
<1>6. CASE ~Fido2State(m.state) \/ m.result = "cancel"
  <2>1. Finally(m) = d
    BY <1>2, <1>3, <1>6 DEF OnDecline
  <2> QED
    BY <1>2, <1>4, <1>5, <2>1
<1>7. CASE Fido2State(m.state) /\ m.result # "cancel"
  <2> DEFINE r == m.state.req
             n == Answered(d, r)
  <2>1. Finally(m) = n
    BY <1>2, <1>3, <1>7 DEF OnDecline
  <2>2. m.state # None /\ m.state \in Dialog /\ r \in m.asked /\ r \in Ctap /\ m.answers[r] = 0
    BY <1>1, <1>7 DEF Sound, Base, Classed, Unanswered, Chosen, Fido2State, Mgr
  <2>3. /\ n \in Mgr
        /\ n.state \in Dialog /\ n.state.req = r /\ n.state.class = m.state.class
        /\ n.answers = [m.answers EXCEPT ![r] = m.answers[r] + 1]
        /\ n.expired = m.expired /\ n.result = m.result /\ n.task = "done"
        /\ n.choice = m.choice /\ n.asked = m.asked /\ n.consent = m.consent
    <3>1. d.state \in Dialog
      BY <1>2, <2>2
    <3> HIDE DEF r
    <3>2. /\ n \in Mgr
          /\ n.state \in Dialog /\ n.state.req = d.state.req /\ n.state.class = d.state.class
          /\ n.answers = [d.answers EXCEPT ![r] = d.answers[r] + 1]
          /\ n.expired = d.expired /\ n.result = d.result /\ n.task = d.task
          /\ n.choice = d.choice /\ n.asked = d.asked /\ n.consent = d.consent
      BY <1>2, <2>2, <3>1, Answering, Zenon
    <3> HIDE DEF n
    <3> QED
      BY <1>2, <3>2 DEF r
  <2>4. m.answers \in [Ctap -> Nat]
    BY <1>1 DEF Mgr
  <2> HIDE DEF n, r
  <2>5. Classed(n) /\ Unforged(n) /\ (Given(m) => Given(n))
    BY <1>7, <2>2, <2>3 DEF Sound, Base, Classed, Unforged, Given, Fido2State, r
  <2>6. \A q \in Ctap : n.answers[q] \in {0, 1} /\ (q \notin n.asked => n.answers[q] = 0)
    BY <2>2, <2>3, <2>4 DEF Sound, Base, Unanswered, Chosen
  <2>7. Unanswered(n) /\ Chosen(n)
    BY <2>3, <2>6 DEF Unanswered, Chosen
  <2> QED
    BY <2>1, <2>3, <2>5, <2>7 DEF Sound, Base
<1> QED
  BY <1>6, <1>7

\* workflow.close()
LEMMA Closing ==
  ASSUME NEW m, Sound(m)
  PROVE  LET n == CloseWorkflow(m)
         IN  /\ Sound(n) /\ (Given(m) => Given(n))
             /\ n.asked = m.asked /\ n.consent = m.consent
             /\ n.task \in {"none", "done"}
<1>1. m \in Mgr /\ m.task \in Steps
  BY DEF Sound, Base, Mgr
<1>2. CASE ~Running(m)
  <2>1. CloseWorkflow(m) = m /\ m.task \in {"none", "done"}
    BY <1>2 DEF CloseWorkflow, Running
  <2> QED
    BY <2>1
<1>3. CASE m.task \in {"dialog", "chosen"}
  <2>1. CloseWorkflow(m) = Finally(m)
    BY <1>3 DEF CloseWorkflow, Running
  <2> QED
    BY <1>3, <2>1, Finishing DEF Sound
<1>4. CASE m.task \in {"start", "confirm", "popup"}
  <2> DEFINE k == IF m.task = "popup" THEN m ELSE Dropped(m)
             d == WithTask(k, "done")
  <2>1. CloseWorkflow(m) = d
    BY <1>4 DEF CloseWorkflow, Running, WithTask
  <2>2. k \in Mgr /\ Core(k, m)
    <3>1. CASE m.task = "popup" \/ m.state.req \notin Ctap
      BY <1>1, <3>1 DEF Dropped, Core
    <3>2. CASE m.task # "popup" /\ m.state.req \in Ctap
      <4>1. k = WithDropped(m, m.dropped \cup {m.state.req})
        BY <3>2 DEF Dropped, WithDropped
      <4>2. m.dropped \cup {m.state.req} \in SUBSET Ctap
        BY <1>1, <3>2 DEF Mgr
      <4> QED
        BY <1>1, <4>1, <4>2, OthersSet
    <3> QED
      BY <3>1, <3>2
  <2> HIDE DEF k
  <2>3. /\ d \in Mgr /\ d.task = "done" /\ d.state = m.state /\ d.expired = m.expired
        /\ d.result = m.result /\ d.choice = m.choice /\ d.asked = m.asked
        /\ d.answers = m.answers /\ d.consent = m.consent
    BY <2>2, TaskSet DEF Core, Steps
  <2> HIDE DEF d
  <2>4. Sound(d) /\ (Given(m) => Given(d))
    BY <2>3 DEF Sound, Base, Classed, Unanswered, Chosen, Unforged, Given
  <2> QED
    BY <2>1, <2>3, <2>4
<1> QED
  BY <1>1, <1>2, <1>3, <1>4 DEF Running, Steps

Withdrawn(c) == [r \in U2f |-> IF c[r] = "given" THEN "none" ELSE c[r]]

\* reset() and the deadline withdraw a consent that was not used, and forge none.
LEMMA Withdrawing ==
  ASSUME NEW c \in [U2f -> Consents]
  PROVE  /\ Withdrawn(c) \in [U2f -> Consents]
         /\ (\A r \in U2f : c[r] # "forged") => (\A r \in U2f : Withdrawn(c)[r] # "forged")
BY DEF Withdrawn, Consents

\* reset() leaves no dialogue, no result and no consent.
LEMMA Resetting ==
  ASSUME NEW m, Sound(m)
  PROVE  LET n == Reset(m)
         IN  /\ Sound(n) /\ Given(n)
             /\ n.state = None /\ n.result = "none" /\ n.task = "none" /\ n.asked = m.asked
<1> DEFINE w == CloseWorkflow(m)
           k == CloseKeepalive(w)
           c1 == WithState(k, None)
           c2 == WithExpired(c1, TRUE)
           c3 == WithResult(c2, "none")
           c4 == WithTask(c3, "none")
           c5 == WithChoice(c4, "none")
           c6 == WithRef(c5, FALSE)
           n == WithConsent(c6, Withdrawn(c6.consent))
<1>1. Reset(m) = n
  <2>1. Cleared(k) = c6
    BY Zenon DEF Cleared, WithState, WithExpired, WithResult, WithTask, WithChoice, WithRef
  <2> QED
    BY <2>1 DEF Reset, WithConsent, Withdrawn
<1>2. Sound(w) /\ w.asked = m.asked
  BY Closing
<1>3. k \in Mgr /\ Core(k, w)
  BY <1>2, Keepalive DEF Sound, Base
<1>4. Sound(k) /\ k.asked = m.asked
  BY <1>2, <1>3, CoreSound DEF Core
<1> HIDE DEF w, k
<1>5. c1 \in Mgr /\ c1.state = None /\ c1.asked = k.asked /\ c1.answers = k.answers
      /\ c1.consent = k.consent
  BY <1>3, StateSet
<1> HIDE DEF c1
<1>6. c2 \in Mgr /\ c2.state = None /\ c2.asked = k.asked /\ c2.answers = k.answers
      /\ c2.consent = k.consent
  BY <1>5, ExpiredSet, Zenon
<1> HIDE DEF c2
<1>7. c3 \in Mgr /\ c3.state = None /\ c3.result = "none" /\ c3.asked = k.asked
      /\ c3.answers = k.answers /\ c3.consent = k.consent
  BY <1>6, ResultSet DEF Results
<1> HIDE DEF c3
<1>8. c4 \in Mgr /\ c4.state = None /\ c4.result = "none" /\ c4.task = "none" /\ c4.asked = k.asked
      /\ c4.answers = k.answers /\ c4.consent = k.consent
  BY <1>7, TaskSet DEF Steps
<1> HIDE DEF c4
<1>9. c5 \in Mgr /\ c5.state = None /\ c5.result = "none" /\ c5.task = "none" /\ c5.asked = k.asked
      /\ c5.answers = k.answers /\ c5.consent = k.consent
  BY <1>8, ChoiceSet
<1> HIDE DEF c5
<1>10. c6 \in Mgr /\ c6.state = None /\ c6.result = "none" /\ c6.task = "none" /\ c6.asked = k.asked
       /\ c6.answers = k.answers /\ c6.consent = k.consent
  BY <1>9, OthersSet, Zenon DEF Core
<1> HIDE DEF c6
<1>11. k.consent \in [U2f -> Consents]
  BY <1>3 DEF Mgr
<1>12. n \in Mgr /\ n.state = None /\ n.result = "none" /\ n.task = "none" /\ n.asked = k.asked
       /\ n.answers = k.answers /\ n.consent = Withdrawn(k.consent)
  BY <1>10, <1>11, Withdrawing, ConsentSet
<1> HIDE DEF n
<1>13. Unforged(n)
  BY <1>4, <1>11, <1>12, Withdrawing, Zenon DEF Sound, Base, Unforged
<1>14. Classed(n) /\ Unanswered(n) /\ Chosen(n) /\ Given(n)
  BY <1>4, <1>12 DEF Sound, Base, Classed, Unanswered, Chosen, Given
<1> QED
  BY <1>1, <1>4, <1>12, <1>13, <1>14 DEF Sound, Base

\* is_busy()
LEMMA Refreshing ==
  ASSUME NEW m, Sound(m), Given(m)
  PROVE  LET n == Refresh(m)
         IN  /\ Sound(n) /\ Given(n) /\ n.asked = m.asked
             /\ n.state = None \/ ~n.expired
BY Resetting DEF Refresh

\* The second half of set_state.
LEMMA Opening ==
  ASSUME NEW m \in Mgr, NEW s \in Dialog
  PROVE  LET n == NewDialog(m, s)
         IN  /\ n \in Mgr /\ n.state = s /\ n.expired = FALSE /\ n.result = "none"
             /\ n.task = "start" /\ n.asked = m.asked /\ n.answers = m.answers
             /\ n.consent = m.consent
<1> DEFINE d1 == WithState(m, s)
           d2 == WithExpired(d1, FALSE)
           d3 == WithResult(d2, "none")
           d4 == WithTask(d3, "start")
           d5 == WithLoops(d4, m.loops + 1)
           d6 == WithRef(d5, TRUE)
<1>1. NewDialog(m, s) = d6
  BY Zenon DEF NewDialog, WithState, WithExpired, WithResult, WithTask, WithLoops, WithRef
<1>2. m.loops + 1 \in Int
  BY DEF Mgr
<1>3. d1 \in Mgr /\ d1.state = s /\ d1.asked = m.asked /\ d1.answers = m.answers
      /\ d1.consent = m.consent
  BY StateSet
<1> HIDE DEF d1
<1>4. d2 \in Mgr /\ d2.state = s /\ d2.expired = FALSE /\ d2.asked = m.asked
      /\ d2.answers = m.answers /\ d2.consent = m.consent
  BY <1>3, ExpiredSet, Zenon
<1> HIDE DEF d2
<1>5. d3 \in Mgr /\ d3.state = s /\ d3.expired = FALSE /\ d3.result = "none"
      /\ d3.asked = m.asked /\ d3.answers = m.answers /\ d3.consent = m.consent
  BY <1>4, ResultSet DEF Results
<1> HIDE DEF d3
<1>6. d4 \in Mgr /\ d4.state = s /\ d4.expired = FALSE /\ d4.result = "none" /\ d4.task = "start"
      /\ d4.asked = m.asked /\ d4.answers = m.answers /\ d4.consent = m.consent
  BY <1>5, TaskSet DEF Steps
<1> HIDE DEF d4
<1>7. d5 \in Mgr /\ Core(d5, d4)
  BY <1>2, <1>6, OthersSet
<1>8. d6 \in Mgr /\ Core(d6, d5)
  BY <1>7, OthersSet, Zenon
<1> QED
  BY <1>1, <1>6, <1>7, <1>8, Zenon DEF Core

\* A new state is a state.
LEMMA NewState ==
  ASSUME NEW r \in Requests, NEW class \in Classes
  PROVE  LET s == State(r, class)
         IN  s \in Dialog /\ s # None /\ s.req = r /\ s.class = class
<1>1. State(r, class) \in Dialog /\ State(r, class).req = r /\ State(r, class).class = class
  BY DEF State, Dialog
<1> QED
  BY <1>1, NoneIsNoState

\* set_state for a U2F request
LEMMA SettingU2f ==
  ASSUME NEW m, Sound(m), Given(m), m.state = None \/ ~m.expired,
         NEW r \in U2f, NEW class \in {"U2fUnlock", "U2fConfirm"}
  PROVE  LET n == SetState(m, State(r, class))
         IN  Sound(n) /\ Given(n) /\ (n.state = None \/ ~n.expired)
<1> DEFINE s == State(r, class)
           f == Refresh(m)
           n == NewDialog(f, s)
<1>1. SetState(m, s) \in {m, f, n}
  BY DEF SetState
<1>2. Sound(f) /\ Given(f) /\ (f.state = None \/ ~f.expired)
  BY Refreshing
<1>3. s \in Dialog /\ s # None /\ s.req = r /\ s.class = class
  BY NewState DEF Requests, Classes
<1> HIDE DEF s, f
<1>4. /\ n \in Mgr /\ n.state = s /\ n.expired = FALSE /\ n.result = "none"
      /\ n.task = "start" /\ n.asked = f.asked /\ n.answers = f.answers
      /\ n.consent = f.consent
  BY <1>2, <1>3, Opening, Zenon DEF Sound, Base
<1> HIDE DEF n
<1>5. Sound(n) /\ Given(n)
  BY <1>2, <1>3, <1>4 DEF Sound, Base, Classed, Unanswered, Chosen, Unforged, Given, Fido2State
<1> QED
  BY <1>1, <1>2, <1>4, <1>5 DEF s

\* msg_register and msg_authenticate: what is signed has the user's consent.
LEMMA U2fRequestKeeps ==
  ASSUME IInv, NEW r \in U2f, U2fRequest(r)
  PROVE  IInv'
<1> DEFINE m == Refresh(mgr)
           class == IF locked THEN "U2fUnlock" ELSE "U2fConfirm"
           n == SetState(m, State(r, class))
           c == [n.consent EXCEPT ![r] = "used"]
<1>1. Sound(m) /\ Given(m) /\ (m.state = None \/ ~m.expired)
  BY Refreshing DEF IInv
<1> HIDE DEF m
<1>2. Sound(n) /\ Given(n) /\ (n.state = None \/ ~n.expired)
  BY <1>1, SettingU2f
<1>3. CASE mgr' = m \/ mgr' = n
  BY <1>1, <1>2, <1>3 DEF IInv
<1>4. CASE /\ Equal(n.state, State(r, "U2fConfirm")) /\ n.result = "confirm"
           /\ mgr' = Reset([n EXCEPT !.consent[r] = IF @ = "given" THEN "used" ELSE "forged"])
  <2> HIDE DEF n
  <2>1. State(r, "U2fConfirm").class = "U2fConfirm" /\ State(r, "U2fConfirm").req = r
    BY NewState DEF Requests, Classes
  <2>2. n.state # None /\ n.state.class = "U2fConfirm" /\ n.state.req = r
    BY <1>4, <2>1 DEF Equal
  <2>3. n.consent[r] = "given" /\ n \in Mgr /\ n.consent \in [U2f -> Consents]
    BY <1>2, <1>4, <2>2 DEF Given, Sound, Base, Mgr
  <2>4. [n EXCEPT !.consent[r] = IF @ = "given" THEN "used" ELSE "forged"] = WithConsent(n, c)
    BY <2>3 DEF WithConsent, Mgr
  <2>5. c \in [U2f -> Consents] /\ \A q \in U2f : c[q] = IF q = r THEN "used" ELSE n.consent[q]
    BY <2>3 DEF Consents
  <2> DEFINE w == WithConsent(n, c)
  <2> HIDE DEF c
  <2>6. /\ w \in Mgr /\ w.consent = c /\ w.state = n.state /\ w.task = n.task
        /\ w.choice = n.choice /\ w.asked = n.asked /\ w.answers = n.answers
    BY <2>3, <2>5, ConsentSet
  <2> HIDE DEF w
  <2>7. Sound(w)
    BY <1>2, <2>5, <2>6 DEF Sound, Base, Classed, Unanswered, Chosen, Unforged
  <2> QED
    BY <1>4, <2>4, <2>7, Resetting DEF IInv, w
<1> QED
  BY <1>3, <1>4 DEF U2fRequest, m

\* cbor_make_credential, cbor_get_assertion and cbor_reset: an accepted request is new.
LEMMA CtapRequestKeeps ==
  ASSUME IInv, NEW r \in Ctap, CtapRequest(r)
  PROVE  IInv'
<1> DEFINE m == Refresh(mgr)
           f == Refresh(m)
<1>1. Sound(m) /\ Given(m) /\ m.asked = mgr.asked
  BY Refreshing DEF IInv
<1>2. PICK class \in {"Fido2Unlock", "Fido2Confirm"} :
        mgr' = m \/ mgr' = [SetState(m, State(r, class)) EXCEPT !.asked = @ \cup {r}]
  BY DEF CtapRequest
<1>3. r \notin m.asked
  BY <1>1 DEF CtapRequest
<1> HIDE DEF m
<1> DEFINE s == State(r, class)
           n == NewDialog(f, s)
<1>4. Sound(f) /\ Given(f) /\ f.asked = m.asked
  BY <1>1, Refreshing
<1>5. s \in Dialog /\ s # None /\ s.req = r /\ s.class = class
  BY NewState DEF Requests, Classes
<1>6. SetState(m, s) \in {m, f, n}
  BY DEF SetState
<1> HIDE DEF s, f
<1>7. ASSUME NEW x, Sound(x), Given(x) PROVE LET y == [x EXCEPT !.asked = @ \cup {r}]
                                             IN  Sound(y) /\ Given(y)
  <2> DEFINE y == WithAsked(x, x.asked \cup {r})
  <2>1. x \in Mgr /\ x.asked \cup {r} \in SUBSET Ctap
    BY <1>7 DEF Sound, Base, Mgr
  <2>2. [x EXCEPT !.asked = @ \cup {r}] = y
    BY DEF WithAsked
  <2>3. /\ y \in Mgr /\ y.asked = x.asked \cup {r} /\ y.state = x.state /\ y.expired = x.expired
        /\ y.result = x.result /\ y.task = x.task /\ y.choice = x.choice
        /\ y.answers = x.answers /\ y.consent = x.consent
    BY <2>1, AskedSet
  <2> HIDE DEF y
  <2>4. Sound(y) /\ Given(y)
    BY <1>7, <2>3 DEF Sound, Base, Classed, Unanswered, Chosen, Unforged, Given
  <2> QED
    BY <2>2, <2>4
<1>8. /\ n \in Mgr /\ n.state = s /\ n.expired = FALSE /\ n.result = "none"
      /\ n.task = "start" /\ n.asked = f.asked /\ n.answers = f.answers
      /\ n.consent = f.consent
  BY <1>4, <1>5, Opening, Zenon DEF Sound, Base
<1>9. LET y == [n EXCEPT !.asked = @ \cup {r}] IN Sound(y) /\ Given(y)
  <2> HIDE DEF n
  <2> DEFINE y == WithAsked(n, n.asked \cup {r})
  <2>1. n.asked \cup {r} \in SUBSET Ctap
    BY <1>8 DEF Mgr
  <2>2. [n EXCEPT !.asked = @ \cup {r}] = y
    BY DEF WithAsked
  <2>3. /\ y \in Mgr /\ y.asked = f.asked \cup {r} /\ y.state = s /\ y.expired = FALSE
        /\ y.result = "none" /\ y.task = "start" /\ y.answers = f.answers
        /\ y.consent = f.consent
    BY <1>8, <2>1, AskedSet
  <2> HIDE DEF y
  <2>4. f.answers[r] = 0
    BY <1>3, <1>4 DEF Sound, Base, Unanswered, Chosen
  <2>5. Classed(y) /\ Unforged(y) /\ Given(y)
    BY <1>4, <1>5, <2>3 DEF Sound, Base, Classed, Unforged, Given
  <2>6. Unanswered(y) /\ Chosen(y)
    BY <1>4, <1>5, <2>3, <2>4 DEF Sound, Base, Unanswered, Chosen
  <2> QED
    BY <2>2, <2>3, <2>5, <2>6 DEF Sound, Base
<1> HIDE DEF n
<1>10. CASE mgr' = m
  BY <1>1, <1>10 DEF IInv
<1>11. CASE mgr' = [SetState(m, s) EXCEPT !.asked = @ \cup {r}]
  BY <1>1, <1>4, <1>6, <1>7, <1>9, <1>11 DEF IInv
<1> QED
  BY <1>2, <1>10, <1>11 DEF s

\* cmd_cancel
LEMMA CmdCancelKeeps ==
  ASSUME IInv, NEW cid \in Channels, CmdCancel(cid)
  PROVE  IInv'
<1> DEFINE m == Refresh(mgr)
           l == WithResult(m, "cancel")
           n == Reset(l)
<1>1. Sound(m) /\ Given(m) /\ m \in Mgr
  BY Refreshing DEF IInv, Sound, Base
<1>2. [m EXCEPT !.result = "cancel"] = l
  BY DEF WithResult
<1> HIDE DEF m
<1>3. /\ l \in Mgr /\ l.state = m.state /\ l.task = m.task /\ l.choice = m.choice
      /\ l.asked = m.asked /\ l.answers = m.answers /\ l.consent = m.consent
  BY <1>1, ResultSet DEF Results
<1> HIDE DEF l
<1>4. Sound(l)
  BY <1>1, <1>3 DEF Sound, Base, Classed, Unanswered, Chosen, Unforged
<1>5. Sound(n) /\ Given(n)
  BY <1>4, Resetting
<1> HIDE DEF n
<1>6. CASE mgr' = m \/ mgr' = n
  BY <1>1, <1>5, <1>6 DEF IInv
<1>7. CASE Fido2State(m.state) /\ mgr' = [n EXCEPT !.cancels[m.state.req] = @ + 1]
  <2> DEFINE r == m.state.req
             c == [n.cancels EXCEPT ![r] = n.cancels[r] + 1]
  <2>1. r \in Ctap /\ n \in Mgr
    BY <1>1, <1>5, <1>7 DEF Sound, Base, Classed, Fido2State, Mgr
  <2>2. c \in [Ctap -> Nat]
    BY <2>1 DEF Mgr
  <2>3. mgr' = WithCancels(n, c)
    BY <1>7, <2>1 DEF WithCancels, Mgr
  <2>4. mgr' \in Mgr /\ Core(mgr', n)
    BY <2>1, <2>2, <2>3, OthersSet
  <2> QED
    BY <1>5, <2>4, CoreSound DEF IInv
<1> QED
  BY <1>2, <1>6, <1>7 DEF CmdCancel, m, n

\* dialog_workflow shows its dialogue, or its last pop-up ends.
LEMMA StartDoneKeep ==
  ASSUME IInv, Start \/ Done
  PROVE  IInv'
<1>1. PICK v \in {"dialog", "done"} :
        mgr' = WithTask(mgr, v) /\ (v = "dialog" => mgr.task = "start")
  BY DEF Start, Done, WithTask
<1>2. /\ mgr' \in Mgr /\ mgr'.task = v /\ mgr'.state = mgr.state /\ mgr'.expired = mgr.expired
      /\ mgr'.result = mgr.result /\ mgr'.choice = mgr.choice /\ mgr'.asked = mgr.asked
      /\ mgr'.answers = mgr.answers /\ mgr'.consent = mgr.consent
  BY <1>1, TaskSet DEF IInv, Sound, Base, Steps
<1>3. Sound(mgr')
  BY <1>1, <1>2 DEF IInv, Sound, Base, Classed, Unanswered, Chosen, Unforged
<1>4. Given(mgr')
  BY <1>1, <1>2 DEF IInv, Given
<1> QED
  BY <1>3, <1>4 DEF IInv

\* The user decides: a confirmation is the consent to the request that is shown.
LEMMA ChooseKeeps ==
  ASSUME IInv, NEW choice \in Choices, Choose(choice)
  PROVE  IInv'
<1> DEFINE c == IF choice = "confirm" /\ mgr.state.class = "U2fConfirm"
                THEN [mgr.consent EXCEPT ![mgr.state.req] = "given"] ELSE mgr.consent
           l == WithTask(mgr, "chosen")
           k == WithChoice(l, choice)
           n == WithConsent(k, c)
<1>1. mgr' = n
  BY Zenon DEF Choose, WithTask, WithChoice, WithConsent
<1>2. mgr \in Mgr /\ mgr.consent \in [U2f -> Consents] /\ mgr.task = "dialog" /\ mgr.state # None
  BY DEF IInv, Sound, Base, Mgr, Unanswered, Chosen, Choose
<1>3. c \in [U2f -> Consents] /\ \A r \in U2f : c[r] \in {mgr.consent[r], "given"}
  BY <1>2, Zenon DEF Consents
<1>4. choice = "confirm" /\ mgr.state.class = "U2fConfirm" => c[mgr.state.req] = "given"
  BY <1>2 DEF IInv, Sound, Base, Classed
<1>5. mgr.state.class = "U2fConfirm" => mgr.state.req \in U2f
  BY <1>2 DEF IInv, Sound, Base, Classed
<1> HIDE DEF c
<1>6. /\ l \in Mgr /\ l.task = "chosen" /\ l.state = mgr.state /\ l.expired = mgr.expired
      /\ l.result = mgr.result /\ l.asked = mgr.asked
      /\ l.answers = mgr.answers
  BY <1>2, TaskSet DEF Steps
<1> HIDE DEF l
<1>7. /\ k \in Mgr /\ k.task = "chosen" /\ k.choice = choice /\ k.state = mgr.state
      /\ k.expired = mgr.expired /\ k.result = mgr.result /\ k.asked = mgr.asked
      /\ k.answers = mgr.answers
  BY <1>6, ChoiceSet
<1> HIDE DEF k
<1>8. /\ n \in Mgr /\ n.task = "chosen" /\ n.choice = choice /\ n.state = mgr.state
      /\ n.expired = mgr.expired /\ n.result = mgr.result /\ n.asked = mgr.asked
      /\ n.answers = mgr.answers /\ n.consent = c
  BY <1>3, <1>7, ConsentSet
<1> HIDE DEF n
<1>9. Classed(n) /\ Unforged(n)
  BY <1>3, <1>8 DEF IInv, Sound, Base, Classed, Unforged
<1>10. Unanswered(n) /\ Chosen(n)
  BY <1>2, <1>8 DEF IInv, Sound, Base, Unanswered, Chosen, Choose
<1>11. Given(n)
  BY <1>3, <1>4, <1>5, <1>8 DEF IInv, Given
<1> QED
  BY <1>1, <1>8, <1>9, <1>10, <1>11 DEF IInv, Sound, Base

\* on_confirm of a CTAP2 state answers.
LEMMA OnConfirmKeeps ==
  ASSUME IInv, OnConfirm, mgr' # [Dropped(mgr) EXCEPT !.task = "done"]
  PROVE  IInv'
<1> DEFINE r == mgr.state.req
           a == [mgr.answers EXCEPT ![r] = mgr.answers[r] + 1]
           s == [mgr.state EXCEPT !.finished = (mgr.state.class = "Fido2Confirm")]
           l == WithAnswers(mgr, a)
           k == WithTask(l, "popup")
           n == WithState(k, s)
<1>1. mgr \in Mgr /\ mgr.state # None /\ mgr.state \in Dialog /\ Fido2State(mgr.state)
      /\ r \in mgr.asked /\ r \in Ctap /\ mgr.answers \in [Ctap -> Nat] /\ mgr.answers[r] = 0
  BY DEF IInv, Sound, Base, Mgr, Classed, Unanswered, Chosen, Fido2State, OnConfirm
<1>2. a \in [Ctap -> Nat]
  BY <1>1
<1>3. s \in Dialog /\ s.req = r /\ s.class = mgr.state.class
  BY <1>1, Zenon DEF Dialog
<1>4. mgr' = n
  <2>1. mgr' = LET x == [mgr EXCEPT !.answers[r] = @ + 1]
                   y == [x EXCEPT !.task = "popup"]
               IN  [y EXCEPT !.state.finished = (mgr.state.class = "Fido2Confirm")]
    BY Zenon DEF OnConfirm
  <2>2. [mgr EXCEPT !.answers[r] = @ + 1] = l
    BY <1>1 DEF WithAnswers, Mgr
  <2>3. l \in Mgr /\ l.state = mgr.state
    BY <1>1, <1>2, AnswersSet
  <2>4. k.state = mgr.state
    BY <2>3, TaskSet DEF Steps
  <2> QED
    BY <2>1, <2>2, <2>4, Zenon DEF WithState, WithTask
<1> HIDE DEF a, s
<1>5. /\ l \in Mgr /\ l.answers = a /\ l.expired = mgr.expired /\ l.result = mgr.result
      /\ l.asked = mgr.asked /\ l.consent = mgr.consent
  BY <1>1, <1>2, AnswersSet
<1> HIDE DEF l
<1>6. /\ k \in Mgr /\ k.task = "popup" /\ k.answers = a /\ k.expired = mgr.expired
      /\ k.result = mgr.result /\ k.asked = mgr.asked /\ k.consent = mgr.consent
  BY <1>5, TaskSet DEF Steps
<1> HIDE DEF k
<1>7. /\ n \in Mgr /\ n.state = s /\ n.task = "popup" /\ n.answers = a
      /\ n.asked = mgr.asked /\ n.consent = mgr.consent
  BY <1>3, <1>6, StateSet
<1> HIDE DEF n
<1>8. Classed(n) /\ Unforged(n) /\ Given(n)
  BY <1>1, <1>3, <1>7 DEF IInv, Sound, Base, Classed, Unforged, Given, Fido2State
<1>9. \A q \in Ctap : n.answers[q] \in {0, 1} /\ (q \notin n.asked => n.answers[q] = 0)
  BY <1>1, <1>7 DEF IInv, Sound, Base, Unanswered, Chosen, a
<1>10. Unanswered(n) /\ Chosen(n)
  BY <1>7, <1>9 DEF Unanswered, Chosen
<1> QED
  BY <1>4, <1>7, <1>8, <1>10 DEF IInv, Sound, Base

\* The deadline passes, and ends a consent that was not used.
LEMMA ExpireKeeps ==
  ASSUME IInv, Expire
  PROVE  IInv'
<1> DEFINE c == Withdrawn(mgr.consent)
           l == WithExpired(mgr, TRUE)
           n == WithConsent(l, c)
<1>1. mgr' = n
  BY Zenon DEF Expire, WithExpired, WithConsent, Withdrawn
<1>2. mgr \in Mgr /\ mgr.consent \in [U2f -> Consents]
  BY DEF IInv, Sound, Base, Mgr
<1>3. c \in [U2f -> Consents] /\ \A r \in U2f : c[r] # "forged"
  BY <1>2, Withdrawing DEF IInv, Sound, Base, Unforged
<1> HIDE DEF c
<1>4. /\ l \in Mgr /\ l.expired = TRUE /\ l.state = mgr.state /\ l.result = mgr.result
      /\ l.task = mgr.task /\ l.choice = mgr.choice /\ l.asked = mgr.asked
      /\ l.answers = mgr.answers
  BY <1>2, ExpiredSet, Zenon
<1> HIDE DEF l
<1>5. /\ n \in Mgr /\ n.expired = TRUE /\ n.state = mgr.state /\ n.result = mgr.result
      /\ n.task = mgr.task /\ n.choice = mgr.choice /\ n.asked = mgr.asked
      /\ n.answers = mgr.answers /\ n.consent = c
  BY <1>3, <1>4, ConsentSet
<1> HIDE DEF n
<1>6. Sound(n) /\ Given(n)
  BY <1>3, <1>5 DEF IInv, Sound, Base, Classed, Unanswered, Chosen, Unforged, Given
<1> QED
  BY <1>1, <1>6 DEF IInv

\* keepalive_loop finds that the deadline has passed.
LEMMA TimeoutKeeps ==
  ASSUME IInv, Timeout
  PROVE  IInv'
<1> DEFINE l == WithLoops(mgr, mgr.loops - 1)
           k == WithRef(l, FALSE)
           n == WithResult(k, "timeout")
<1>1. mgr' = Reset(n)
  <2>1. [mgr EXCEPT !.loops = @ - 1, !.ref = FALSE, !.result = "timeout"] = n
    BY Zenon DEF WithLoops, WithRef, WithResult
  <2> QED
    BY <2>1 DEF Timeout
<1>2. mgr \in Mgr /\ mgr.loops - 1 \in Int
  BY DEF IInv, Sound, Base, Mgr
<1>3. l \in Mgr /\ Core(l, mgr)
  BY <1>2, OthersSet
<1>4. k \in Mgr /\ Core(k, l)
  BY <1>3, OthersSet, Zenon
<1>5. Sound(k)
  BY <1>3, <1>4, CoreSound, Zenon DEF IInv
<1> HIDE DEF k
<1>6. /\ n \in Mgr /\ n.state = k.state /\ n.task = k.task /\ n.choice = k.choice
      /\ n.asked = k.asked /\ n.answers = k.answers /\ n.consent = k.consent
  BY <1>4, ResultSet DEF Results
<1> HIDE DEF n
<1>7. Sound(n)
  BY <1>5, <1>6 DEF Sound, Base, Classed, Unanswered, Chosen, Unforged
<1> QED
  BY <1>1, <1>7, Resetting DEF IInv

\* dialog_workflow goes on with the next state of an unlocked device.
LEMMA NextStateKeeps ==
  ASSUME IInv, GoOn, mgr.choice \in {"Fido2Confirm", "Fido2ConfirmNoPin"}
  PROVE  IInv'
<1> DEFINE r == mgr.state.req
           s == State(r, mgr.choice)
           m == WithChoice(mgr, "none")
           n1 == WithState(m, s)
           n2 == WithExpired(n1, FALSE)
           n == WithTask(n2, "dialog")
<1>1. /\ mgr \in Mgr /\ mgr.task = "chosen" /\ mgr.state # None /\ mgr.state \in Dialog
      /\ mgr.state.class = "Fido2Unlock" /\ r \in mgr.asked /\ r \in Ctap
      /\ mgr.answers \in [Ctap -> Nat] /\ mgr.answers[r] = 0
  BY DEF IInv, Sound, Base, Mgr, Classed, Unanswered, Chosen, Fido2State, GoOn
<1>2. s \in Dialog /\ s # None /\ s.req = r /\ s.class = mgr.choice
  BY <1>1, NewState DEF Requests, Classes
<1>3. /\ m \in Mgr /\ m.state = mgr.state /\ m.result = mgr.result /\ m.asked = mgr.asked
      /\ m.answers = mgr.answers /\ m.consent = mgr.consent
  BY <1>1, ChoiceSet
<1>4. mgr' = IF mgr.choice = "Fido2Confirm" THEN n ELSE Answered(n, r)
  <2>1. [mgr EXCEPT !.choice = "none"] = m
    BY DEF WithChoice
  <2> DEFINE x == [mgr EXCEPT !.choice = "none"]
             next == [x EXCEPT !.state = State(x.state.req, mgr.choice), !.expired = FALSE,
                               !.task = "dialog"]
  <2>2. next = n
    <3> HIDE DEF m
    <3>1. State(x.state.req, mgr.choice) = s
      BY <1>3, <2>1
    <3> HIDE DEF s
    <3> QED
      BY <2>1, <3>1, Zenon DEF WithState, WithExpired, WithTask
  <2>3. mgr.choice = "Fido2Confirm" => mgr' = next
    BY Zenon DEF GoOn
  <2>4. mgr.choice = "Fido2ConfirmNoPin" => mgr' = Answered(next, x.state.req)
    BY Zenon DEF GoOn
  <2>5. x.state.req = r
    BY <1>3, <2>1
  <2> HIDE DEF next, n, x
  <2> QED
    BY <2>2, <2>3, <2>4, <2>5
<1> HIDE DEF s, m
<1>5. /\ n1 \in Mgr /\ n1.state = s /\ n1.result = mgr.result /\ n1.asked = mgr.asked
      /\ n1.answers = mgr.answers /\ n1.consent = mgr.consent
  BY <1>2, <1>3, StateSet
<1> HIDE DEF n1
<1>6. /\ n2 \in Mgr /\ n2.state = s /\ n2.result = mgr.result /\ n2.asked = mgr.asked
      /\ n2.answers = mgr.answers /\ n2.consent = mgr.consent
  BY <1>5, ExpiredSet, Zenon
<1> HIDE DEF n2
<1>7. /\ n \in Mgr /\ n.state = s /\ n.task = "dialog" /\ n.asked = mgr.asked
      /\ n.answers = mgr.answers /\ n.consent = mgr.consent
  BY <1>6, TaskSet DEF Steps
<1> HIDE DEF n
<1>8. CASE mgr.choice = "Fido2Confirm"
  <2>1. Sound(n) /\ Given(n)
    BY <1>1, <1>2, <1>7, <1>8
       DEF IInv, Sound, Base, Classed, Unanswered, Chosen, Unforged, Given, Fido2State
  <2> QED
    BY <1>4, <1>8, <2>1 DEF IInv
<1>9. CASE mgr.choice = "Fido2ConfirmNoPin"
  <2> DEFINE a == Answered(n, r)
  <2>1. /\ a \in Mgr
        /\ a.state \in Dialog /\ a.state.req = r /\ a.state.class = "Fido2ConfirmNoPin"
        /\ a.answers = [mgr.answers EXCEPT ![r] = mgr.answers[r] + 1]
        /\ a.task = "dialog" /\ a.asked = mgr.asked /\ a.consent = mgr.consent
    <3> HIDE DEF r
    <3>1. /\ a \in Mgr
          /\ a.state \in Dialog /\ a.state.req = n.state.req /\ a.state.class = n.state.class
          /\ a.answers = [n.answers EXCEPT ![r] = n.answers[r] + 1]
          /\ a.expired = n.expired /\ a.result = n.result /\ a.task = n.task
          /\ a.choice = n.choice /\ a.asked = n.asked /\ a.consent = n.consent
      <4>1. n \in Mgr /\ n.state \in Dialog /\ r \in Ctap
        BY <1>1, <1>2, <1>7
      <4> QED
        BY <4>1, Answering, Zenon
    <3> HIDE DEF a
    <3> QED
      BY <1>2, <1>7, <1>9, <3>1
  <2>2. a.state # None
    BY <2>1, NoneIsNoState
  <2> HIDE DEF a
  <2>3. Classed(a) /\ Unforged(a) /\ Given(a)
    BY <1>1, <2>1 DEF IInv, Sound, Base, Classed, Unforged, Given
  <2>4. \A q \in Ctap : a.answers[q] \in {0, 1} /\ (q \notin a.asked => a.answers[q] = 0)
    <3> HIDE DEF r
    <3>1. \A q \in Ctap : a.answers[q] = IF q = r THEN 1 ELSE mgr.answers[q]
      BY <1>1, <2>1
    <3>2. \A q \in Ctap :
            mgr.answers[q] \in {0, 1} /\ (q \notin mgr.asked => mgr.answers[q] = 0)
      BY DEF IInv, Sound, Base, Unanswered
    <3> QED
      BY <1>1, <2>1, <3>1, <3>2
  <2>5. Unanswered(a) /\ Chosen(a)
    BY <2>1, <2>2, <2>4 DEF Unanswered, Chosen, Fido2State
  <2> QED
    BY <1>4, <1>9, <2>1, <2>3, <2>5 DEF IInv, Sound, Base, a
<1> QED
  BY <1>8, <1>9

\* dialog_workflow goes on with the user's decision, or with an error.
LEMMA DecisionKeeps ==
  ASSUME IInv, GoOn, mgr.choice \in {"confirm", "decline", "error"}
  PROVE  IInv'
<1> DEFINE m == WithChoice(mgr, "none")
<1>1. mgr \in Mgr /\ mgr.task = "chosen" /\ mgr.state # None
  BY DEF IInv, Sound, Base, Unanswered, GoOn
<1>2. /\ m \in Mgr /\ m.choice = "none" /\ m.state = mgr.state /\ m.expired = mgr.expired
      /\ m.result = mgr.result /\ m.task = "chosen" /\ m.asked = mgr.asked
      /\ m.answers = mgr.answers /\ m.consent = mgr.consent
  BY <1>1, ChoiceSet
<1>3. [mgr EXCEPT !.choice = "none"] = m
  BY DEF WithChoice
<1>4. CASE mgr.choice = "error"
  <2>1. mgr' = Finally([mgr EXCEPT !.choice = "none"])
    BY <1>4, Zenon DEF GoOn
  <2> HIDE DEF m
  <2>2. Base(m) /\ Given(m)
    <3>1. Classed(m) /\ Unforged(m)
      BY <1>2 DEF IInv, Sound, Base, Classed, Unforged
    <3>2. Unanswered(m)
      BY <1>1, <1>2 DEF IInv, Sound, Base, Unanswered
    <3>3. Given(m)
      BY <1>1, <1>2 DEF IInv, Given
    <3> QED
      BY <1>2, <3>1, <3>2, <3>3 DEF Base
  <2> QED
    BY <1>2, <1>3, <2>1, <2>2, Finishing DEF IInv
<1>5. CASE mgr.choice = "decline"
  <2> DEFINE d == WithResult(m, "decline")
  <2>1. mgr' = Finally(d)
    <3>1. mgr' = LET x == [mgr EXCEPT !.choice = "none"] IN Finally([x EXCEPT !.result = "decline"])
      BY <1>5, Zenon DEF GoOn
    <3> QED
      BY <1>3, <3>1, Zenon DEF WithResult
  <2> HIDE DEF m
  <2>2. /\ d \in Mgr /\ d.choice = "none" /\ d.state = mgr.state /\ d.result = "decline"
        /\ d.task = "chosen" /\ d.asked = mgr.asked /\ d.answers = mgr.answers
        /\ d.consent = mgr.consent
    BY <1>2, ResultSet DEF Results
  <2> HIDE DEF d
  <2>3. Base(d) /\ Given(d)
    <3>1. Classed(d) /\ Unforged(d)
      BY <2>2 DEF IInv, Sound, Base, Classed, Unforged
    <3>2. Unanswered(d)
      BY <1>1, <2>2 DEF IInv, Sound, Base, Unanswered
    <3>3. Given(d)
      BY <1>1, <2>2 DEF IInv, Given
    <3> QED
      BY <2>2, <3>1, <3>2, <3>3 DEF Base
  <2> QED
    BY <2>1, <2>2, <2>3, Finishing DEF IInv
<1>6. CASE mgr.choice = "confirm"
  <2> DEFINE k == CloseKeepalive(m)
             c == WithResult(k, "confirm")
             v == IF Fido2State(mgr.state) THEN "confirm" ELSE "done"
             n == WithTask(c, v)
  <2>1. mgr' = n
    <3>1. mgr' = LET x == [mgr EXCEPT !.choice = "none"]
                     y == [CloseKeepalive(x) EXCEPT !.result = "confirm"]
                 IN  [y EXCEPT !.task = IF Fido2State(x.state) THEN "confirm" ELSE "done"]
      BY <1>6, Zenon DEF GoOn
    <3> QED
      BY <1>2, <1>3, <3>1, Zenon DEF WithResult, WithTask
  <2> HIDE DEF m
  <2>2. k \in Mgr /\ Core(k, m)
    BY <1>2, Keepalive
  <2> HIDE DEF k
  <2>3. /\ c \in Mgr /\ c.result = "confirm" /\ c.state = mgr.state /\ c.expired = mgr.expired
        /\ c.asked = mgr.asked /\ c.answers = mgr.answers /\ c.consent = mgr.consent
    BY <1>2, <2>2, ResultSet DEF Core, Results
  <2> HIDE DEF c
  <2>4. v \in Steps /\ v \in {"confirm", "done"} /\ (v = "confirm" => Fido2State(mgr.state))
    BY DEF Steps
  <2> HIDE DEF v
  <2>5. /\ n \in Mgr /\ n.task = v /\ n.result = "confirm" /\ n.state = mgr.state
        /\ n.expired = mgr.expired /\ n.asked = mgr.asked /\ n.answers = mgr.answers
        /\ n.consent = mgr.consent
    BY <2>3, <2>4, TaskSet
  <2> HIDE DEF n
  <2>6. Classed(n) /\ Unforged(n) /\ Chosen(n)
    BY <2>4, <2>5 DEF IInv, Sound, Base, Classed, Unforged, Chosen
  <2>7. Unanswered(n)
    BY <1>1, <2>4, <2>5 DEF IInv, Sound, Base, Unanswered
  <2>8. Given(n)
    BY <1>1, <1>6, <2>5 DEF IInv, Given
  <2> QED
    BY <2>1, <2>5, <2>6, <2>7, <2>8 DEF IInv, Sound, Base
<1> QED
  BY <1>4, <1>5, <1>6

-----------------------------------------------------------------------------
\* No dialogue, no answer and no consent at first.
LEMMA InitIInv == Init => IInv
<1> SUFFICES ASSUME Init PROVE IInv
  OBVIOUS
<1>1. /\ mgr.state = None /\ mgr.result = "none" /\ mgr.task = "none" /\ mgr.choice = "none"
      /\ mgr.answers = [r \in Ctap |-> 0] /\ mgr.consent = [r \in U2f |-> "none"]
  BY DEF Init
<1>2. mgr \in Mgr
  BY DEF Init, Mgr, Results, Steps, Consents
<1> QED
  BY <1>1, <1>2
     DEF IInv, Sound, Base, Classed, Unanswered, Chosen, Unforged, Given

\* Every step keeps the invariant.
LEMMA NextIInv == IInv /\ [Next]_vars => IInv'
<1> SUFFICES ASSUME IInv, [Next]_vars PROVE IInv'
  OBVIOUS
<1>1. CASE \E r \in U2f : U2fRequest(r)
  BY <1>1, U2fRequestKeeps
<1>2. CASE \E r \in Ctap : CtapRequest(r)
  BY <1>2, CtapRequestKeeps
<1>3. CASE \E cid \in Channels : CmdCancel(cid)
  BY <1>3, CmdCancelKeeps
<1>4. CASE \E choice \in Choices : Choose(choice)
  BY <1>4, ChooseKeeps
<1>5. CASE Start \/ Done
  BY <1>5, StartDoneKeep
<1>6. CASE GoOn
  <2>1. mgr.choice \in Choices
    BY <1>6 DEF IInv, Sound, Chosen, GoOn
  <2> QED
    BY <1>6, <2>1, NextStateKeeps, DecisionKeeps DEF Choices
<1>7. CASE OnConfirm
  <2>1. CASE mgr' = [Dropped(mgr) EXCEPT !.task = "done"]
    <3>1. mgr' = CloseWorkflow(mgr)
      BY <1>7, <2>1 DEF OnConfirm, CloseWorkflow, Running
    <3> QED
      BY <3>1, Closing DEF IInv
  <2>2. CASE mgr' # [Dropped(mgr) EXCEPT !.task = "done"]
    BY <1>7, <2>2, OnConfirmKeeps
  <2> QED
    BY <2>1, <2>2
<1>8. CASE Expire
  BY <1>8, ExpireKeeps
<1>9. CASE Timeout
  BY <1>9, TimeoutKeeps
<1>10. CASE CloseOthers
  BY <1>10, Closing DEF CloseOthers, IInv
<1>11. CASE OtherTask \/ UNCHANGED vars
  BY <1>11 DEF OtherTask, vars, IInv
<1> QED
  BY <1>1, <1>2, <1>3, <1>4, <1>5, <1>6, <1>7, <1>8, <1>9, <1>10, <1>11 DEF Next, Choices

\* The inductive invariant of DialogManager and its dialogues.
THEOREM Invariance == Spec => []IInv
BY InitIInv, NextIInv, PTL DEF Spec

(***************************************************************************)
(* msg_register and msg_authenticate sign only what the user has consented *)
(* to in the dialogue of this very request, and once for each consent.     *)
(***************************************************************************)
THEOREM SignsOnlyConsented == Spec => []SignedIsConsented
<1>1. IInv => SignedIsConsented
  BY Zenon DEF IInv, Sound, Base, Unforged, SignedIsConsented
<1> QED
  BY <1>1, Invariance, PTL

(***************************************************************************)
(* However a decision, the deadline, cmd_cancel and close_others meet, no  *)
(* dialogue answers its CTAP2 request twice.                               *)
(***************************************************************************)
THEOREM NoSecondAnswer == Spec => []AnsweredOnce
<1>1. IInv => AnsweredOnce
  <2> SUFFICES ASSUME IInv, NEW r \in Ctap PROVE mgr.answers[r] <= 1
    BY DEF AnsweredOnce
  <2>1. mgr.answers[r] \in {0, 1}
    BY DEF IInv, Sound, Base, Unanswered
  <2> QED
    BY <2>1
<1> QED
  BY <1>1, Invariance, PTL

=============================================================================
