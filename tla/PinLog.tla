------------------------------- MODULE PinLog -------------------------------
(***************************************************************************)
(* PIN verification of storage/storage.c: the two logs in flash that count *)
(* failed attempts, unlock(), storage_change_pin and                       *)
(* storage_change_wipe_code, with a power loss between any two writes.     *)
(*                                                                         *)
(* A word of a log holds Slots data bits, cleared from the top.  Guard     *)
(* bits carry no information and are left out, so a word is the number of  *)
(* its cleared bits: 0 is the code's "unused", Slots its "guard".          *)
(* norcow_set replaces an entry at once; how it does is the subject of     *)
(* module Norcow.                                                          *)
(***************************************************************************)
EXTENDS Naturals

CONSTANTS Words,           \* PIN_LOG_WORDS
          Slots,           \* data bits of a word, 16 in the code
          PIN_MAX_TRIES,
          Pins,            \* PINs, PIN_EMPTY among them
          PIN_EMPTY,
          WIPE_CODE_EMPTY, \* no wipe code
          Torn,            \* wipe code entry allocated but not written
          MaxLosses        \* bound on the number of power losses

ASSUME LogAssumption ==
  /\ Words \in Nat /\ Words >= 2
  /\ Slots \in Nat
  /\ PIN_MAX_TRIES \in 1..Slots

\* Ten tries and sixteen bits: the last tries cannot fill the last word.
ASSUME RoomAssumption == PIN_MAX_TRIES < Slots

ASSUME PinAssumption ==
  /\ PIN_EMPTY \in Pins
  /\ WIPE_CODE_EMPTY \notin Pins
  /\ Torn \notin Pins \cup {WIPE_CODE_EMPTY}

VARIABLES entry,     \* PIN_LOGS_KEY: pin_entry_log
          success,   \* PIN_LOGS_KEY: pin_success_log
          edek,      \* the PIN that decrypts EDEK_PVC_KEY
          has_pin,   \* PIN_NOT_SET_KEY is FALSE_BYTE
          wipe_code, \* WIPE_CODE_DATA_KEY
          pc,        \* where the running call is
          call,      \* its arguments
          ctr,       \* unlock(): failures before this attempt
          i,         \* pin_fails_reset(): loop variable
          unlocked,
          wrong,     \* wrong PINs checked since the last right one
          since,     \* attempts since the log was last cleared
          lost_init, \* a power loss kept a used last word from being replaced
          lost_flag, \* a power loss came between the two writes of the last set_pin
          out,       \* how the last call ended
          losses

flash   == <<entry, success, edek, has_pin, wipe_code>>
history == <<wrong, since, lost_init, lost_flag, losses>>
vars    == <<flash, pc, call, ctr, i, unlocked, history, out>>

Word  == 0..(Words - 1)
Blank == [w \in Word |-> 0]
Idle  == [op |-> "unlock", pin |-> PIN_EMPTY, new |-> PIN_EMPTY]
Calls == [op : {"unlock", "pin", "wipe"}, pin : Pins, new : Pins]

Init ==
  /\ entry = Blank /\ success = Blank
  /\ edek = PIN_EMPTY /\ has_pin = FALSE /\ wipe_code = WIPE_CODE_EMPTY
  /\ pc = "idle" /\ call = Idle /\ ctr = 0 /\ i = 0 /\ unlocked = FALSE
  /\ wrong = 0 /\ since = 0 /\ lost_init = FALSE /\ lost_flag = FALSE
  /\ out = "ok" /\ losses = 0

-----------------------------------------------------------------------------
Exhausted(e) == \A w \in Word : e[w] = Slots

\* The first word with an uncleared bit.
Current(e) == CHOOSE w \in Word : e[w] # Slots /\ \A v \in Word : v < w => e[v] = Slots

\* The checks that make pin_get_fails call handle_fault.
WellFormed(e, s) ==
  /\ ~Exhausted(e)
  /\ \A w \in Word : s[w] <= e[w]
  /\ \A w \in Word : w > Current(e) => e[w] = 0

\* Faulty: only the current word is looked at.
FailsOfOneWord(e, s) == e[Current(e)] - s[Current(e)]

\* The counter that pin_get_fails returns.
Fails(e, s) ==
  LET c == IF Current(e) = 0 THEN 1 ELSE Current(e)
  IN  (e[c - 1] - s[c - 1]) + (e[c] - s[c])

\* The word that storage_pin_fails_increase writes.
Increased(e) == [e EXCEPT ![Current(e)] = @ + 1]

\* storage_wipe and the restart after it, or the restart alone.
Wiped(how) ==
  /\ entry' = Blank /\ success' = Blank
  /\ edek' = PIN_EMPTY /\ has_pin' = FALSE /\ wipe_code' = WIPE_CODE_EMPTY
  /\ pc' = "idle" /\ unlocked' = FALSE /\ out' = how
  /\ wrong' = 0 /\ since' = 0 /\ lost_init' = FALSE /\ lost_flag' = FALSE
  /\ UNCHANGED <<call, ctr, i, losses>>

\* handle_fault: count the fault, wipe if that is impossible, and halt.
HandleFault ==
  IF /\ WellFormed(entry, success)
     /\ WellFormed(Increased(entry), success)
     /\ Fails(Increased(entry), success) = Fails(entry, success) + 1
  THEN /\ entry' = Increased(entry)
       /\ pc' = "idle" /\ unlocked' = FALSE /\ out' = "fault"
       /\ since' = since + 1
       /\ UNCHANGED <<success, edek, has_pin, wipe_code, call, ctr, i, wrong,
                      lost_init, lost_flag, losses>>
  ELSE Wiped("fault")

Return(p) == pc' = p /\ out' = "ok"

-----------------------------------------------------------------------------
\* Faulty: one attempt too few before the wipe.
BeginEarly(c) ==
  /\ pc = "idle"
  /\ ~(c.op = "wipe" /\ c.pin # PIN_EMPTY /\ c.pin = c.new)
  /\ IF wipe_code = Torn THEN HandleFault
     ELSE IF c.pin = wipe_code THEN Wiped("wipe_code")
     ELSE IF ~WellFormed(entry, success) THEN HandleFault
     ELSE IF Fails(entry, success) >= PIN_MAX_TRIES - 1 THEN Wiped("max_tries")
     ELSE /\ Return("increase")
          /\ call' = c
          /\ ctr' = Fails(entry, success)
          /\ UNCHANGED <<flash, i, unlocked, history>>

\* unlock() up to the first write, called by storage_unlock, storage_change_pin
\* or storage_change_wipe_code.
Begin(c) ==
  /\ pc = "idle"
  /\ ~(c.op = "wipe" /\ c.pin # PIN_EMPTY /\ c.pin = c.new)
  /\ IF wipe_code = Torn THEN HandleFault
     ELSE IF c.pin = wipe_code THEN Wiped("wipe_code")
     ELSE IF ~WellFormed(entry, success) THEN HandleFault
     ELSE IF Fails(entry, success) >= PIN_MAX_TRIES THEN Wiped("max_tries")
     ELSE /\ Return("increase")
          /\ call' = c
          /\ ctr' = Fails(entry, success)
          /\ UNCHANGED <<flash, i, unlocked, history>>

\* storage_pin_fails_increase
Increase ==
  /\ pc = "increase"
  /\ entry' = Increased(entry)
  /\ since' = since + 1
  /\ Return("check")
  /\ UNCHANGED <<success, edek, has_pin, wipe_code, call, ctr, i, unlocked,
                 wrong, lost_init, lost_flag, losses>>

\* The increment is read back, then the PIN is tried.
Check ==
  /\ pc = "check"
  /\ IF ~WellFormed(entry, success) \/ Fails(entry, success) # ctr + 1 THEN HandleFault
     ELSE IF call.pin # edek
     THEN IF ctr + 1 >= PIN_MAX_TRIES THEN Wiped("max_tries")
          ELSE /\ Return("idle")
               /\ wrong' = wrong + 1
               /\ UNCHANGED <<flash, call, ctr, i, unlocked, since, lost_init,
                              lost_flag, losses>>
     ELSE /\ Return("reset")
          /\ unlocked' = TRUE
          /\ i' = 0
          /\ wrong' = 0
          /\ UNCHANGED <<flash, call, ctr, since, lost_init, lost_flag, losses>>

\* Faulty: the new PIN is not compared with the wipe code.
AfterUnlockUnchecked ==
  CASE call.op = "pin"  -> "edek"
    [] call.op = "wipe" -> "allocate"
    [] OTHER            -> "idle"

\* What the caller of unlock() does next.
AfterUnlock ==
  CASE call.op = "pin" /\ call.new # wipe_code -> "edek"
    [] call.op = "wipe"                        -> "allocate"
    [] OTHER                                   -> "idle"

\* Faulty: a log whose last word is in use is not replaced.
ResetKeepLog ==
  /\ pc = "reset"
  /\ IF i < Words /\ entry[i] # 0
     THEN /\ success' = [success EXCEPT ![i] = entry[i]]
          /\ i' = i + 1
          /\ Return("reset")
          /\ UNCHANGED <<entry, since>>
     ELSE /\ Return(AfterUnlock)
          /\ since' = 0
          /\ UNCHANGED <<entry, success, i>>
  /\ UNCHANGED <<edek, has_pin, wipe_code, call, ctr, unlocked, wrong, lost_init, lost_flag,
                 losses>>

\* An iteration of pin_fails_reset, and pin_logs_init(0) after the last one.
Reset ==
  /\ pc = "reset"
  /\ IF i < Words /\ entry[i] # 0
     THEN /\ success' = [success EXCEPT ![i] = entry[i]]
          /\ i' = i + 1
          /\ Return("reset")
          /\ UNCHANGED <<entry, since>>
     ELSE /\ entry' = IF i = Words THEN Blank ELSE entry
          /\ success' = IF i = Words THEN Blank ELSE success
          /\ Return(AfterUnlock)
          /\ since' = 0
          /\ UNCHANGED i
  /\ UNCHANGED <<edek, has_pin, wipe_code, call, ctr, unlocked, wrong, lost_init, lost_flag,
                 losses>>

\* set_pin writes two entries.
SetEdek ==
  /\ pc = "edek"
  /\ edek' = call.new
  /\ Return("flag")
  /\ UNCHANGED <<entry, success, has_pin, wipe_code, call, ctr, i, unlocked, history>>

\* Faulty: the flag is not set back when the PIN is removed.
SetFlagOnly ==
  /\ pc = "flag"
  /\ has_pin' = (has_pin \/ call.new # PIN_EMPTY)
  /\ lost_flag' = FALSE
  /\ Return("idle")
  /\ UNCHANGED <<entry, success, edek, wipe_code, call, ctr, i, unlocked, wrong, since,
                 lost_init, losses>>

SetFlag ==
  /\ pc = "flag"
  /\ has_pin' = (call.new # PIN_EMPTY)
  /\ lost_flag' = FALSE
  /\ Return("idle")
  /\ UNCHANGED <<entry, success, edek, wipe_code, call, ctr, i, unlocked, wrong, since,
                 lost_init, losses>>

\* set_wipe_code allocates an entry and then fills it.
AllocateWipeCode ==
  /\ pc = "allocate"
  /\ wipe_code' = Torn
  /\ Return("wipe_code")
  /\ UNCHANGED <<entry, success, edek, has_pin, call, ctr, i, unlocked, history>>

WriteWipeCode ==
  /\ pc = "wipe_code"
  /\ wipe_code' = IF call.new = PIN_EMPTY THEN WIPE_CODE_EMPTY ELSE call.new
  /\ Return("idle")
  /\ UNCHANGED <<entry, success, edek, has_pin, call, ctr, i, unlocked, history>>

\* storage_lock
Lock ==
  /\ pc = "idle"
  /\ unlocked
  /\ unlocked' = FALSE
  /\ Return("idle")
  /\ UNCHANGED <<flash, call, ctr, i, history>>

\* Power is lost; a word of the success log may have been written in part.
PowerLoss ==
  /\ losses < MaxLosses
  /\ losses' = losses + 1
  /\ IF pc = "reset" /\ i < Words /\ entry[i] # 0
     THEN \E n \in success[i]..entry[i] : success' = [success EXCEPT ![i] = n]
     ELSE UNCHANGED success
  /\ lost_init' = (lost_init \/ (pc = "reset" /\ i >= Words - 1 /\ entry[Words - 1] # 0))
  /\ lost_flag' = (lost_flag \/ pc = "flag")
  /\ Return("idle")
  /\ unlocked' = FALSE
  /\ UNCHANGED <<entry, edek, has_pin, wipe_code, call, ctr, i, wrong, since>>

Next ==
  \/ \E c \in Calls : Begin(c)
  \/ Increase \/ Check \/ Reset
  \/ SetEdek \/ SetFlag \/ AllocateWipeCode \/ WriteWipeCode
  \/ Lock
  \/ PowerLoss

Spec == Init /\ [][Next]_vars

-----------------------------------------------------------------------------
\* The counter that pin_get_fails reads is never below the number of wrong PINs
\* tried since the last right one, although it looks at two words only and
\* although power may be lost while pin_fails_reset copies the entry log.
NoUndercount ==
  WellFormed(entry, success) => wrong <= Fails(entry, success)

\* The storage is wiped for too many tries only if that many attempts have been
\* made since the log was last cleared; a power loss counts as a failure.
NoEarlyWipe ==
  [][out' = "max_tries" => since >= PIN_MAX_TRIES]_vars

\* handle_fault ("PIN log exhausted", the format checks, "PIN counter
\* increment", "wipe code tag") is reached only after a power loss in one of two
\* windows: between the two writes of set_wipe_code, or before pin_fails_reset
\* has replaced a log whose last word is in use.
FaultsOnlyAfterPowerLoss ==
  [][out' = "fault" => wipe_code = Torn \/ lost_init]_vars

\* The PIN is never the wipe code, whichever of the two is changed.
PinIsNotWipeCode == edek # wipe_code

\* storage_has_pin contradicts the keys only between the two writes of set_pin,
\* or if power was lost right there.  Neither a power loss anywhere else, nor
\* failed attempts, faults or wipes bring the two apart, and the next set_pin that
\* completes, or a wipe, puts right what a power loss has left.
FlagAgrees ==
  (has_pin <=> edek # PIN_EMPTY) \/ pc = "flag" \/ lost_flag
=============================================================================
