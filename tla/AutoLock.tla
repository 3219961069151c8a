------------------------------ MODULE AutoLock ------------------------------
(***************************************************************************)
(* Automatic locking: the three idle callbacks of core/src/apps/base.py on *)
(* the timer of module IdleTimer, the lock state, the screen, the choice   *)
(* of the message handler, and a host request on one wire interface.       *)
(*                                                                         *)
(* The device has a seed and a PIN.  With fingerprints in use, lock_device *)
(* locks only the fingerprint, and a finger or the PIN unlocks.  The power *)
(* button and the USB lock have handlers of their own (uart.py) and are    *)
(* not part of this module.  The delays are those of the settings, which   *)
(* the user sets independently of each other; they do not change here.     *)
(***************************************************************************)
EXTENDS Naturals

CONSTANTS None, MaxActivity, Autolock, ShortLock, LowDelay, Autoshutdown, MaxTimeout,
          MAX_FP_ATTEMPTS

ASSUME LockAssumption ==
  /\ \A ms \in {Autolock, ShortLock, LowDelay, Autoshutdown} : ms \in 1..MaxTimeout
  /\ MaxTimeout \in Nat /\ Autolock + LowDelay <= MaxTimeout
  /\ None \notin Nat /\ MAX_FP_ATTEMPTS \in Nat

VARIABLES timer,           \* the idle timer, as in IdleTimer
          quiet,           \* time since the last activity, up to MaxTimeout
          idle,            \* the same without touches that leave the screen dimmed
          activity,
          pin_unlocked, fp_unlocked,   \* config.is_unlocked, fingerprints.is_unlocked
          finger,          \* fingerprints are enrolled and enabled
          failed_count,    \* fingers that did not match since the last unlock
          find_handler,    \* wire.find_handler
          backlight,
          auto_power_off,  \* utils.AUTO_POWER_OFF
          turn_off,        \* turn_off_lcd() is scheduled
          request,         \* the request of the host, if one is being handled;
                           \* "self": its handler has locked the device and goes on
          charging, power

lock == <<pin_unlocked, fp_unlocked, find_handler>>
vars == <<timer, quiet, idle, activity, lock, finger, failed_count, backlight,
          auto_power_off, turn_off, request, charging, power>>

SCREEN_OFF == "screen_off_if_possible"
LOCK       == "lock_device_if_unlocked"
SHUTDOWN   == "shutdown_device"

T == INSTANCE IdleTimer WITH Callbacks <- {SCREEN_OFF, LOCK, SHUTDOWN}

-----------------------------------------------------------------------------
\* fingerprints.is_available
Available == finger /\ pin_unlocked /\ failed_count < MAX_FP_ATTEMPTS

\* device_is_unlocked
DeviceUnlocked == IF Available THEN fp_unlocked ELSE pin_unlocked

\* Faulty: the timer that is to lock the device is not removed.
ReloadSettingsKeepsLock(t, ms, off) ==
  LET s == T!SetTimeout(t, SCREEN_OFF, ms)
  IN  IF off THEN T!SetTimeout(s, SHUTDOWN, Autoshutdown) ELSE T!Remove(s, SHUTDOWN)

\* reload_settings_from_storage(timeout_ms)
ReloadSettings(t, ms, off) ==
  LET s == T!SetTimeout(T!Remove(t, LOCK), SCREEN_OFF, ms)
  IN  IF off THEN T!SetTimeout(s, SHUTDOWN, Autoshutdown) ELSE T!Remove(s, SHUTDOWN)

\* loop.clear() drops every scheduled task.
Cleared(t) == [t EXCEPT !.left = [k \in T!Tasks |-> None]]

\* base.boot() chooses the handler.
BootHandler == IF pin_unlocked' /\ fp_unlocked' THEN "registered" ELSE "pinlocked"

Init ==
  /\ timer = ReloadSettings(T!EmptyTimer, Autolock, FALSE)
  /\ quiet = 0 /\ idle = 0 /\ activity = 0
  /\ pin_unlocked = FALSE /\ fp_unlocked = FALSE /\ find_handler = "pinlocked"
  /\ finger \in BOOLEAN /\ failed_count = 0
  /\ backlight = "on" /\ auto_power_off = FALSE
  /\ turn_off = FALSE /\ request = "none" /\ charging = FALSE /\ power = TRUE

\* Activity of the user or of the host; scheduled work comes first.
Awake ==
  /\ power /\ ~turn_off
  /\ activity < MaxActivity
  /\ activity' = activity + 1
  /\ quiet' = 0

Active == Awake /\ idle' = 0

\* lcd_resume: a screen that is not at full brightness is switched on, with a
\* shorter timeout while the device is locked.
Resume(t) ==
  IF backlight = "on"
  THEN timer' = t /\ UNCHANGED <<backlight, auto_power_off>>
  ELSE /\ backlight' = "on" /\ auto_power_off' = FALSE
       /\ timer' = ReloadSettings(t, IF pin_unlocked THEN Autolock ELSE ShortLock, FALSE)

\* The user touches the screen, and lvgl_tick tells the timer.
Press ==
  /\ Awake
  /\ idle' = IF backlight = "on" THEN 0 ELSE idle
  /\ timer' = T!Touch(timer)
  /\ UNCHANGED <<lock, finger, failed_count, backlight, auto_power_off, turn_off, request,
                 charging, power>>

\* The touch is a click: the event handler of the screen calls lcd_resume.
Click ==
  /\ Active
  /\ Resume(T!Touch(timer))
  /\ UNCHANGED <<lock, finger, failed_count, turn_off, request, charging, power>>

\* A message that needs an unlocked device: get_pinlocked_handler puts
\* unlock_device in front of the handler, find_registered_handler does not.
Message ==
  /\ Active
  /\ request = "none"
  /\ Resume(T!Touch(timer))
  /\ request' = IF find_handler = "registered" THEN "running" ELSE "unlock"
  /\ UNCHANGED <<lock, finger, failed_count, turn_off, charging, power>>

\* unlock_device, for a waiting request, for a handler that has locked the device
\* or for the user: PIN or finger are verified, the timers are set again, and the
\* request goes on.
Unlock ==
  /\ Active
  /\ \/ pin_unlocked' = TRUE /\ fp_unlocked' = TRUE
     \/ Available /\ fp_unlocked' = TRUE /\ UNCHANGED pin_unlocked
  /\ timer' = ReloadSettings(timer, Autolock, auto_power_off)
  /\ find_handler' = "registered"
  /\ request' = IF request \in {"unlock", "self"} THEN "running" ELSE request
  /\ backlight # "off"
  /\ failed_count' = IF finger THEN 0 ELSE failed_count
  /\ UNCHANGED <<finger, backlight, auto_power_off, turn_off, charging, power>>

\* handle_fingerprint: a finger does not match; too many of them lock the PIN too.
FingerFails ==
  /\ power /\ ~turn_off /\ backlight # "off"
  /\ Available /\ ~fp_unlocked
  /\ failed_count' = failed_count + 1
  /\ pin_unlocked' = (failed_count' < MAX_FP_ATTEMPTS)
  /\ UNCHANGED <<timer, quiet, idle, activity, fp_unlocked, find_handler, finger, backlight,
                 auto_power_off, turn_off, request, charging, power>>

\* The handler answers; handle_session clears the loop, main starts it again.
Answer ==
  /\ Active
  /\ request # "none"
  /\ request' = "none"
  /\ timer' = ReloadSettings(Cleared(timer), Autolock, auto_power_off)
  /\ UNCHANGED <<pin_unlocked, fp_unlocked>>
  /\ find_handler' = BootHandler
  /\ UNCHANGED <<finger, failed_count, backlight, auto_power_off, turn_off, charging, power>>

-----------------------------------------------------------------------------
Fired(c) ==
  /\ power
  /\ \E k \in T!Tasks : k[1] = c /\ T!Due(timer, k)
  /\ UNCHANGED <<quiet, idle, activity, finger, failed_count, charging>>

Fire(c) == T!Fire(timer, T!TaskOf(timer, c))

\* Faulty: the screen is dimmed and nothing else.
ScreenOffOnly ==
  /\ Fired(SCREEN_OFF)
  /\ backlight' = IF backlight = "on" /\ pin_unlocked THEN "low" ELSE backlight
  /\ timer' = Fire(SCREEN_OFF)
  /\ UNCHANGED <<lock, auto_power_off, turn_off, request, power>>

\* screen_off_if_possible
ScreenOff ==
  /\ Fired(SCREEN_OFF)
  /\ IF backlight = "off"
     THEN timer' = Fire(SCREEN_OFF) /\ UNCHANGED backlight
     ELSE /\ backlight' = IF pin_unlocked THEN "low" ELSE backlight
          /\ timer' = T!SetTimeout(Fire(SCREEN_OFF), LOCK, LowDelay)
  /\ UNCHANGED <<lock, auto_power_off, turn_off, request, power>>

\* lock_device, up to close_others
Locked ==
  /\ IF Available THEN fp_unlocked' = FALSE /\ UNCHANGED pin_unlocked
                  ELSE pin_unlocked' = FALSE /\ UNCHANGED fp_unlocked
  /\ find_handler' = "pinlocked"

\* Faulty: lock_device leaves the workflows running.
LockKeepsRequest ==
  /\ Fired(LOCK)
  /\ Locked
  /\ turn_off' = TRUE
  /\ timer' = Fire(LOCK)
  /\ UNCHANGED <<backlight, auto_power_off, request, power>>

\* lock_device_if_unlocked and lock_device, which closes all workflows.
LockDevice ==
  /\ Fired(LOCK)
  /\ IF pin_unlocked THEN Locked /\ request' = "none" ELSE UNCHANGED <<lock, request>>
  /\ turn_off' = TRUE
  /\ timer' = Fire(LOCK)
  /\ UNCHANGED <<backlight, auto_power_off, power>>

\* A handler calls lock_device (ApplySettings, PassphraseAck): close_others closes
\* every workflow but the one that is running.
LockInHandler ==
  /\ power /\ ~turn_off
  /\ request = "running"
  /\ Locked
  /\ request' = "self"
  /\ UNCHANGED <<timer, quiet, idle, activity, finger, failed_count, backlight, auto_power_off,
                 turn_off, charging, power>>

\* turn_off_lcd: signal_ack cancels a request that still waits, the loop is
\* cleared, and boot() sets everything up again.
TurnOff ==
  /\ power /\ turn_off
  /\ turn_off' = FALSE
  /\ backlight' = "off"
  /\ auto_power_off' = (auto_power_off \/ backlight # "off")
  /\ request' = "none"
  /\ timer' = ReloadSettings(Cleared(timer), Autolock, auto_power_off')
  /\ UNCHANGED <<pin_unlocked, fp_unlocked>>
  /\ find_handler' = BootHandler
  /\ UNCHANGED <<quiet, idle, activity, finger, failed_count, charging, power>>

\* shutdown_device
Shutdown ==
  /\ Fired(SHUTDOWN)
  /\ power' = charging
  /\ timer' = Fire(SHUTDOWN)
  /\ UNCHANGED <<lock, backlight, auto_power_off, turn_off, request>>

\* Power is switched on again.
PowerOn ==
  /\ ~power
  /\ activity < MaxActivity
  /\ activity' = activity + 1
  /\ power' = TRUE
  /\ timer' = ReloadSettings(T!EmptyTimer, Autolock, FALSE)
  /\ quiet' = 0 /\ idle' = 0
  /\ pin_unlocked' = FALSE /\ fp_unlocked' = FALSE /\ find_handler' = "pinlocked"
  /\ backlight' = "on" /\ auto_power_off' = FALSE /\ turn_off' = FALSE /\ request' = "none"
  /\ UNCHANGED <<finger, failed_count, charging>>

\* handle_usb_state: the screen is switched on and the settings are reloaded.
Plug ==
  /\ Active
  /\ charging' = ~charging
  /\ backlight' = "on"
  /\ auto_power_off' = (auto_power_off /\ backlight = "on")
  /\ timer' = ReloadSettings(timer, Autolock, auto_power_off')
  /\ UNCHANGED <<lock, finger, failed_count, turn_off, request, power>>

Later(n) == IF n < MaxTimeout THEN n + 1 ELSE n

\* Time passes when nothing is due: the queue of the loop is ordered by time, so
\* a task never overtakes one that was due a unit earlier.
Tick ==
  /\ ~power \/ (~turn_off /\ \A k \in T!Tasks : ~T!Due(timer, k))
  /\ timer' = IF power THEN T!Elapse(timer) ELSE timer
  /\ quiet' = Later(quiet) /\ idle' = Later(idle)
  /\ UNCHANGED <<activity, lock, finger, failed_count, backlight, auto_power_off, turn_off,
                 request, charging, power>>

Next ==
  \/ Press \/ Click \/ Message \/ Unlock \/ FingerFails \/ Answer
  \/ ScreenOff \/ LockDevice \/ LockInHandler \/ Shutdown
  \/ TurnOff \/ PowerOn \/ Plug \/ Tick

\* Time passes and loop.run takes up what is due; nobody has to be active.
Fairness ==
  /\ WF_vars(Tick) /\ WF_vars(TurnOff)
  /\ WF_vars(ScreenOff) /\ WF_vars(LockDevice) /\ WF_vars(Shutdown)

Spec == Init /\ [][Next]_vars /\ Fairness

-----------------------------------------------------------------------------
\* A request that needs an unlocked device is never being handled on a locked
\* one, although it may take long and locking is up to a timer: only a handler
\* that calls lock_device itself goes on, until the device is unlocked again.
RunningOnlyUnlocked == request = "running" => DeviceUnlocked

\* Only the task in the dictionary of a registered callback is ever scheduled:
\* however the callbacks set, remove and renew each other's timers, no second
\* task is left behind that would fire as well.
OnlyCurrentScheduled ==
  \A k \in T!Tasks : timer.left[k] # None =>
    T!Registered(timer, k[1]) /\ k = T!TaskOf(timer, k[1])

\* The timer locks the device only when the whole delay, and the time at low
\* brightness on top of it, has passed since the last activity at full brightness,
\* and the time at low brightness since the last touch: touching the dimmed screen
\* without a click puts the lock off but does not light the screen.  This is so
\* however timers were set, removed and lost with the loop before.
LockedAfterQuiet ==
  [][DeviceUnlocked /\ ~DeviceUnlocked' /\ power /\ power' /\ request' # "self" =>
       idle >= Autolock + LowDelay /\ quiet >= LowDelay]_vars

\* A device left alone is locked in the end, and stays so.
QuietLocks == <>[](~power \/ ~DeviceUnlocked)
=============================================================================
