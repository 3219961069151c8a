------------------------------- MODULE SePin -------------------------------
(***************************************************************************)
(* The PIN of the device: kept in two secure chips (master and finger),    *)
(* driven by se_thd89.c one command at a time, with the cached flag        *)
(* pin_state.has_pin of modtrezorconfig.c in front of them, boot.py's      *)
(* clear() at power-on, and the onboarding that sets a PIN and then stores *)
(* the seed.                                                               *)
(*                                                                         *)
(* The chips' firmware is not in the repository.  What a command does is   *)
(* inferred from its callers: a chip refuses to set a PIN over another one *)
(* (se_changePin resets it first), counts wrong PINs, and forgets the      *)
(* count at a right one.  Whether a chip without a PIN lets one be changed *)
(* from the empty PIN is left open.  What a chip holds as verified is not  *)
(* modelled, and neither is the cache of is_unlocked, which depends on it. *)
(***************************************************************************)
EXTENDS Naturals

CONSTANTS Pins, NoPin, RETRY_MAX, MaxLosses

ASSUME SePinAssumption ==
  /\ NoPin \notin Pins
  /\ RETRY_MAX \in Nat \ {0}
  /\ MaxLosses \in Nat

VARIABLES chip,         \* the two secure chips
          initialized,  \* se_isInitialized: the master chip holds a seed
          has_pin,      \* pin_state.has_pin, filled by clear() at every boot
          onboarding,   \* setup_onboarding: setting the PIN, then the seed
          pc, call,     \* the running call: its next command and arguments
          torn,         \* power was lost between the halves of se_changePin
          losses

se_vars == <<chip, initialized, has_pin, onboarding, pc, call, torn, losses>>

Chips  == {"master", "finger"}
Erased == [pin |-> NoPin, tries |-> RETRY_MAX]
Calls  == [old : Pins \cup {NoPin}, new : Pins]

SePinInit ==
  /\ chip = [c \in Chips |-> Erased]
  /\ initialized = FALSE /\ has_pin = FALSE /\ onboarding = "no"
  /\ pc = "off" /\ call \in {c \in Calls : c.old = NoPin}
  /\ torn = FALSE /\ losses = 0

-----------------------------------------------------------------------------
Accepts(c, pin) == chip[c].pin = pin /\ chip[c].tries > 0

\* A wrong PIN costs a try.
Refused(c) ==
  [chip[c] EXCEPT !.tries = IF @ = 0 \/ chip[c].pin = NoPin THEN @ ELSE @ - 1]

\* What a chip does with a PIN it is to verify.
Verified(c, pin) ==
  IF Accepts(c, pin) THEN [chip[c] EXCEPT !.tries = RETRY_MAX] ELSE Refused(c)

\* se_getRetryTimes: the smaller of the two counters.
RetryTimes(ch) ==
  IF ch["master"].tries > ch["finger"].tries THEN ch["finger"].tries ELSE ch["master"].tries

Set(c, value) == chip' = [chip EXCEPT ![c] = value]
Goto(p)       == pc' = p /\ UNCHANGED <<call, onboarding>>
Keep          == UNCHANGED <<initialized, has_pin, torn, losses>>

\* mod_trezorconfig_change_pin returns: setup_onboarding goes on to the seed, or
\* ends with "Failed to set PIN".
Return(ok) ==
  /\ pc' = "idle"
  /\ onboarding' = IF onboarding = "pin" /\ ok THEN "seed" ELSE "no"
  /\ UNCHANGED call

\* se_hasPin: a finger chip without PIN beside a master with one is reset.
AfterHasPin ==
  IF chip["master"].pin # NoPin /\ chip["finger"].pin = NoPin
  THEN [chip EXCEPT !["finger"] = Erased]
  ELSE chip

\* boot.py: clear().  The first call of has_pin fills the cache.
Boot ==
  /\ pc = "off"
  /\ has_pin' = (chip["master"].pin # NoPin)
  /\ chip' = AfterHasPin
  /\ Goto(IF has_pin' /\ (~initialized \/ RetryTimes(chip') = 0) THEN "reset master" ELSE "idle")
  /\ UNCHANGED <<initialized, torn, losses>>

\* Faulty: the device still answers the host during the onboarding.
WipeInOnboarding ==
  /\ pc = "idle"
  /\ Goto("reset master")
  /\ UNCHANGED chip /\ Keep

\* wipe_device, while the device is running and goes on running; not during the
\* onboarding, which has taken the host interfaces down (play_dead).
Wipe ==
  /\ pc = "idle" /\ onboarding = "no"
  /\ Goto("reset master")
  /\ UNCHANGED chip /\ Keep

\* se_reset_storage: the master chip, which also holds the seed, comes first.
ResetMaster ==
  /\ pc = "reset master"
  /\ Set("master", Erased)
  /\ initialized' = FALSE
  /\ Goto("reset finger")
  /\ UNCHANGED <<has_pin, torn, losses>>

ResetFinger ==
  /\ pc = "reset finger"
  /\ Set("finger", Erased)
  /\ torn' = FALSE
  /\ Goto("idle")
  /\ UNCHANGED <<initialized, has_pin, losses>>

-----------------------------------------------------------------------------
\* mod_trezorconfig_unlock and check_pin: se_verifyPin on the master chip.
VerifyMaster(pin) ==
  /\ pc = "idle" /\ onboarding = "no"
  /\ Set("master", Verified("master", pin))
  /\ call' = [old |-> pin, new |-> pin]
  /\ pc' = CASE Accepts("master", pin)  -> "verify finger"
             [] RetryTimes(chip') = 0   -> "reset and restart"
             [] OTHER                   -> "idle"
  /\ UNCHANGED onboarding /\ Keep

\* The finger chip's turn; a chip out of tries ends in reset_storage_and_restart.
VerifyFinger ==
  /\ pc = "verify finger"
  /\ Set("finger", Verified("finger", call.old))
  /\ Goto(IF chip["finger"].tries = 0 THEN "reset and restart" ELSE "idle")
  /\ Keep

\* reset_storage_and_restart (a power loss inside it is one inside Wipe).
ResetAndRestart ==
  /\ pc = "reset and restart"
  /\ chip' = [c \in Chips |-> Erased]
  /\ initialized' = FALSE /\ torn' = FALSE
  /\ Goto("off")
  /\ UNCHANGED <<has_pin, losses>>

-----------------------------------------------------------------------------
\* mod_trezorconfig_change_pin chooses by the cached flag.
Begin(c) ==
  /\ call' = c
  /\ pc' = IF has_pin THEN "change master" ELSE "set master"
  /\ UNCHANGED chip /\ Keep

\* change_pin: refused without a seed.
ChangePin(c) ==
  /\ pc = "idle" /\ onboarding = "no" /\ initialized
  /\ c.old # NoPin
  /\ Begin(c)
  /\ UNCHANGED onboarding

\* setup_onboarding: the old PIN is empty.
Onboard(pin) ==
  /\ pc = "idle" /\ onboarding = "no" /\ ~initialized
  /\ Begin([old |-> NoPin, new |-> pin])
  /\ onboarding' = "pin"

\* store_mnemonic_secret, at the end of reset_device or recovery_device.
StoreSeed ==
  /\ pc = "idle" /\ onboarding = "seed"
  /\ initialized' = TRUE
  /\ onboarding' = "no"
  /\ UNCHANGED <<chip, has_pin, pc, call, torn, losses>>

\* An exception ends setup_onboarding, or the chip has not taken the seed: the
\* result of se_import_mnemonic is not looked at.
EndOnboarding ==
  /\ pc = "idle" /\ onboarding = "seed"
  /\ onboarding' = "no"
  /\ UNCHANGED <<chip, initialized, has_pin, pc, call, torn, losses>>

-----------------------------------------------------------------------------
\* se_setPin
SetMaster ==
  /\ pc = "set master"
  /\ IF chip["master"].pin = NoPin
     THEN Set("master", [chip["master"] EXCEPT !.pin = call.new]) /\ Goto("set finger")
     ELSE UNCHANGED chip /\ Return(FALSE)
  /\ Keep

\* Faulty: the finger chip's refusal goes unnoticed.
SetFingerUnchecked ==
  /\ pc = "set finger"
  /\ IF chip["finger"].pin = NoPin
     THEN Set("finger", [chip["finger"] EXCEPT !.pin = call.new])
     ELSE UNCHANGED chip
  /\ has_pin' = TRUE
  /\ Return(TRUE)
  /\ UNCHANGED <<initialized, torn, losses>>

SetFinger ==
  /\ pc = "set finger"
  /\ IF chip["finger"].pin = NoPin
     THEN Set("finger", [chip["finger"] EXCEPT !.pin = call.new]) /\ has_pin' = TRUE /\ Return(TRUE)
     ELSE UNCHANGED <<chip, has_pin>> /\ Return(FALSE)
  /\ UNCHANGED <<initialized, torn, losses>>

\* se_changePin; a wrong old PIN is a failed attempt.
ChangeMaster ==
  /\ pc = "change master"
  /\ \/ /\ Accepts("master", call.old)
        /\ Set("master", [chip["master"] EXCEPT !.pin = call.new, !.tries = RETRY_MAX])
        /\ Goto("change finger")
     \/ /\ ~Accepts("master", call.old) \/ call.old = NoPin
        /\ Set("master", Refused("master"))
        /\ Return(FALSE)
  /\ Keep

\* Faulty: a finger chip that refuses is left as it is.
ChangeFingerNoRepair ==
  /\ pc = "change finger"
  /\ IF Accepts("finger", call.old)
     THEN Set("finger", [chip["finger"] EXCEPT !.pin = call.new, !.tries = RETRY_MAX])
     ELSE Set("finger", Refused("finger"))
  /\ Return(TRUE)
  /\ Keep

ChangeFinger ==
  /\ pc = "change finger"
  /\ \/ /\ Accepts("finger", call.old)
        /\ Set("finger", [chip["finger"] EXCEPT !.pin = call.new, !.tries = RETRY_MAX])
        /\ torn' = FALSE
        /\ Return(TRUE)
     \/ /\ ~Accepts("finger", call.old) \/ call.old = NoPin
        /\ Set("finger", Refused("finger"))
        /\ Goto("repair reset")
        /\ UNCHANGED torn
  /\ UNCHANGED <<initialized, has_pin, losses>>

\* The finger chip refused: se_fp_reset_storage if it has a PIN.
RepairReset ==
  /\ pc = "repair reset"
  /\ IF chip["finger"].pin # NoPin THEN Set("finger", Erased) ELSE UNCHANGED chip
  /\ Goto("repair set")
  /\ Keep

\* se_fp_setPin
RepairSet ==
  /\ pc = "repair set"
  /\ Set("finger", [chip["finger"] EXCEPT !.pin = call.new])
  /\ Goto("repair verify")
  /\ Keep

\* se_fp_verifyPin
RepairVerify ==
  /\ pc = "repair verify"
  /\ Set("finger", Verified("finger", call.new))
  /\ torn' = FALSE
  /\ Return(TRUE)
  /\ UNCHANGED <<initialized, has_pin, losses>>

\* Changing is under way in the master but not in the finger chip.
Halfway == pc \in {"change finger", "repair reset", "repair set", "repair verify"}

PowerLoss ==
  /\ pc # "off"
  /\ losses < MaxLosses
  /\ losses' = losses + 1
  /\ torn' = (torn \/ Halfway)
  /\ pc' = "off"
  /\ onboarding' = "no"
  /\ UNCHANGED <<chip, initialized, has_pin, call>>

SePinNext ==
  \/ Boot \/ Wipe \/ ResetMaster \/ ResetFinger \/ ResetAndRestart
  \/ \E pin \in Pins : VerifyMaster(pin) \/ Onboard(pin)
  \/ VerifyFinger
  \/ \E c \in Calls : ChangePin(c)
  \/ SetMaster \/ SetFinger \/ ChangeMaster \/ ChangeFinger
  \/ RepairReset \/ RepairSet \/ RepairVerify
  \/ StoreSeed \/ EndOnboarding \/ PowerLoss

SePinSpec == SePinInit /\ [][SePinNext]_se_vars

-----------------------------------------------------------------------------
\* Whenever a device with a seed waits for a call, its two chips hold the same
\* PIN, unless power was lost in se_changePin after the master chip had changed;
\* losses in se_setPin and se_reset_storage are made good by clear() at boot, and
\* setup_onboarding stores no seed after a se_setPin that one chip refused.
ChipsAgree ==
  pc = "idle" /\ initialized /\ ~torn => chip["master"].pin = chip["finger"].pin

\* A se_changePin that returns true leaves the new PIN in both chips, whatever
\* the finger chip held before.
ChangeSynchronises ==
  [][Halfway /\ pc' = "idle" => \A c \in Chips : chip'[c].pin = call.new]_se_vars

\* A seed lies behind a PIN, and the cached has_pin says so, although nothing but
\* a restart takes the cache back: it stays true over a wipe and over clear(), and
\* false when se_setPin reaches one chip only.  setup_onboarding stores no seed
\* over such a cache unless change_pin has put a PIN there.
SeedHasPin ==
  /\ initialized => chip["master"].pin # NoPin
  /\ initialized /\ pc = "idle" => has_pin
============================================================================
