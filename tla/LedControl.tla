----------------------------- MODULE LedControl -----------------------------
(***************************************************************************)
(* The LED (led.c), the light sensor (light_sensor.c), the LED and sensor  *)
(* commands of device_control.c and the automation that switches the LED   *)
(* when the light changes.  The light changes at any time, also between    *)
(* the reading of the sensor and the action taken on it.                   *)
(*                                                                         *)
(* Only the device thread uses these variables while it runs, and          *)
(* server_cleanup joins it first, so a command is one step.                *)
(***************************************************************************)
EXTENDS Integers

CONSTANT Levels \* the brightness levels clients ask for, valid or not

ASSUME LevelsAssumption == Levels \subseteq Int

VARIABLES
  led_initialized, led_state, \* led.c
  pwm,                        \* the duty value written last; it is inverted
  sensor_initialized,         \* light_sensor.c
  pin,                        \* what the sensor puts on its pin
  led_on, led_brightness, sensor_monitoring, \* ServerState
  last_bright_state, is_bright, \* handle_sensor_monitoring
  device                      \* where the device thread is

ledVars == <<led_initialized, led_state, pwm, led_on, led_brightness>>
sensorVars == <<sensor_initialized, sensor_monitoring, last_bright_state, is_bright>>
vars == <<ledVars, sensorVars, pin, device>>

PWM_LOW == 33
PWM_MEDIUM == 66
PWM_HIGH == 100

\* The duty value of each valid level; anything else is refused.
Duty == <<PWM_HIGH - PWM_LOW, PWM_HIGH - PWM_MEDIUM, 0>>

Lit == pwm # PWM_HIGH
LOW == 0
HIGH == 1

\* The code takes LOW for light.  light_sensor/README.md says the opposite (0 is
\* dark, 1 is bright, is_bright is true on HIGH; "some sensors work the other way
\* round"), so which level means light is left to the module that is attached, and
\* the properties about the pin speak of levels.
light_sensor_is_bright == sensor_initialized /\ pin = LOW

LedInit == led_initialized = TRUE /\ led_state = FALSE /\ pwm = PWM_HIGH
SensorInit == sensor_initialized = TRUE /\ pin \in {LOW, HIGH}

\* After server_init.
Init ==
  /\ LedInit /\ SensorInit
  /\ led_on = FALSE /\ led_brightness = 0 /\ sensor_monitoring = FALSE
  /\ last_bright_state = FALSE /\ is_bright = FALSE
  /\ device = "idle"

-----------------------------------------------------------------------------
(***************************************************************************)
(* The device thread                                                       *)
(***************************************************************************)

\* led_on, led_off and led_set_brightness do nothing after led_cleanup.
LedWrite(value, on) ==
  /\ pwm' = IF led_initialized THEN value ELSE pwm
  /\ led_state' = IF led_initialized THEN on ELSE led_state
  /\ UNCHANGED led_initialized

\* The thread takes a command; afterwards it looks at sensor_monitoring.
Command ==
  /\ device = "idle"
  /\ device' = "check"
  /\ UNCHANGED <<pin, sensor_initialized, last_bright_state, is_bright>>

ProcessLedOn ==
  /\ Command
  /\ LedWrite(0, TRUE)
  /\ led_on' = (led_initialized \/ led_on)
  /\ UNCHANGED <<led_brightness, sensor_monitoring>>

\* Mutant of ProcessLedOff: the LED goes out but led_on stays set.
ProcessLedOff_KeepsFlag ==
  /\ Command
  /\ LedWrite(PWM_HIGH, FALSE)
  /\ UNCHANGED <<led_on, led_brightness, sensor_monitoring>>

ProcessLedOff ==
  /\ Command
  /\ LedWrite(PWM_HIGH, FALSE)
  /\ led_on' = (~led_initialized /\ led_on)
  /\ UNCHANGED <<led_brightness, sensor_monitoring>>

\* Mutant of ProcessSetBrightness: the level is not tested first.
ProcessSetBrightness_Unchecked(level) ==
  /\ Command
  /\ led_brightness' = level
  /\ UNCHANGED <<led_initialized, led_state, pwm, led_on, sensor_monitoring>>

\* SET BRIGHTNESS lights the LED but leaves led_on alone.
ProcessSetBrightness(level) ==
  /\ Command
  /\ IF level \in 1 .. 3
     THEN LedWrite(Duty[level], TRUE)
          /\ led_brightness' = IF led_initialized THEN level ELSE led_brightness
     ELSE UNCHANGED <<led_initialized, led_state, pwm, led_brightness>>
  /\ UNCHANGED <<led_on, sensor_monitoring>>

ProcessSensor(on) ==
  /\ Command
  /\ sensor_monitoring' = on
  /\ UNCHANGED ledVars

\* Any other command.
ProcessOther ==
  /\ Command
  /\ UNCHANGED <<ledVars, sensor_monitoring>>

\* The test of sensor_monitoring after a command.
CheckMonitoring ==
  /\ device = "check"
  /\ device' = IF sensor_monitoring THEN "look" ELSE "idle"
  /\ UNCHANGED <<ledVars, sensorVars, pin>>

\* The wait for a command ends after a second and monitoring is on.
Tick ==
  /\ device = "idle" /\ sensor_monitoring
  /\ device' = "look"
  /\ UNCHANGED <<ledVars, sensorVars, pin>>

ReadSensor ==
  /\ device = "look"
  /\ is_bright' = light_sensor_is_bright
  /\ device' = "act"
  /\ UNCHANGED <<ledVars, pin, sensor_initialized, sensor_monitoring, last_bright_state>>

\* The automation writes the LED only when its flag says that it has to.
Switch(on) ==
  /\ led_on' = on
  /\ IF led_on = on
     THEN UNCHANGED <<led_initialized, led_state, pwm>>
     ELSE LedWrite(IF on THEN 0 ELSE PWM_HIGH, on)

\* Mutant of Automate: a change to bright is noted but nothing is done.
Automate_NoOff ==
  /\ device = "act"
  /\ IF is_bright # last_bright_state /\ ~is_bright
     THEN Switch(~is_bright)
     ELSE UNCHANGED <<led_initialized, led_state, pwm, led_on>>
  /\ last_bright_state' = is_bright
  /\ device' = "idle"
  /\ UNCHANGED <<led_brightness, pin, sensor_initialized, sensor_monitoring, is_bright>>

Automate ==
  /\ device = "act"
  /\ IF is_bright # last_bright_state
     THEN Switch(~is_bright)
     ELSE UNCHANGED <<led_initialized, led_state, pwm, led_on>>
  /\ last_bright_state' = is_bright
  /\ device' = "idle"
  /\ UNCHANGED <<led_brightness, pin, sensor_initialized, sensor_monitoring, is_bright>>

\* The server stops.
DeviceExit ==
  /\ device = "idle"
  /\ device' = "done"
  /\ UNCHANGED <<ledVars, sensorVars, pin>>

LedCleanup == pwm' = PWM_HIGH /\ led_state' = FALSE /\ led_initialized' = FALSE
SensorCleanup == sensor_initialized' = FALSE

\* server_cleanup, once it has joined the device thread.
Cleanup ==
  /\ device = "done" /\ led_initialized
  /\ SensorCleanup /\ LedCleanup
  /\ UNCHANGED <<led_on, led_brightness, sensor_monitoring, last_bright_state,
                 is_bright, pin, device>>

\* The sensor sees the light go on or out.
LightChange ==
  /\ pin' \in {LOW, HIGH}
  /\ UNCHANGED <<ledVars, sensorVars, device>>

-----------------------------------------------------------------------------
DeviceWork == CheckMonitoring \/ Tick \/ ReadSensor \/ Automate

DeviceCommand ==
  \/ ProcessLedOn \/ ProcessLedOff
  \/ \E level \in Levels : ProcessSetBrightness(level)
  \/ \E on \in BOOLEAN : ProcessSensor(on)
  \/ ProcessOther

Next == DeviceWork \/ DeviceCommand \/ DeviceExit \/ Cleanup \/ LightChange

Spec == Init /\ [][Next]_vars

(***************************************************************************)
(* Fairness: the device thread does not stop on its own; nothing makes     *)
(* clients send commands or the light change.                              *)
(***************************************************************************)
FairSpec == Spec /\ WF_vars(DeviceWork)

-----------------------------------------------------------------------------
(***************************************************************************)
(* Properties                                                              *)
(***************************************************************************)

\* The variables hold values of their C types; led_brightness is a level once
\* one was set, whatever clients asked for.
TypeOK ==
  /\ led_initialized \in BOOLEAN /\ led_state \in BOOLEAN
  /\ pwm \in {0, 34, 67, 100}
  /\ sensor_initialized \in BOOLEAN /\ pin \in {LOW, HIGH}
  /\ led_on \in BOOLEAN /\ led_brightness \in 0 .. 3
  /\ sensor_monitoring \in BOOLEAN
  /\ last_bright_state \in BOOLEAN /\ is_bright \in BOOLEAN
  /\ device \in {"idle", "check", "look", "act", "done"}

\* While the library is up, the flag led_on, on which the automation relies,
\* is never set with the LED out; and the library agrees with its own pin.
FlagMeansLit ==
  led_initialized => (led_on => led_state) /\ (led_state <=> Lit)

\* Whenever the automation notes that it has become dark, the LED is lit
\* afterwards, whatever commands were given before.
DarknessLights == [][last_bright_state /\ ~last_bright_state' => Lit']_vars

\* If monitoring is on, LOW was noted last and the pin is HIGH, then the LED gets
\* lit, unless the pin falls again or monitoring ends; also if commands keep
\* coming, so that the wait for a command never times out.  Likewise led_on is
\* cleared when the pin falls after HIGH was noted.  With a sensor that is LOW in
\* the light, as light_sensor_is_bright expects, this is "on when dark"; with one
\* as light_sensor/README.md describes it, the LED would be lit in the light.  The
\* first look is no change if it finds HIGH, and is not covered.
AutomationReacts ==
  /\ sensor_monitoring /\ last_bright_state /\ pin = HIGH
       ~> Lit \/ pin = LOW \/ ~sensor_monitoring \/ device = "done"
  /\ sensor_monitoring /\ ~last_bright_state /\ pin = LOW
       ~> ~led_on \/ pin = HIGH \/ ~sensor_monitoring \/ device = "done"

\* Whenever the automation notes that it has become bright, the LED is out
\* afterwards.  Does not hold: SET BRIGHTNESS lights the LED without led_on.
BrightnessDarkens == [][~last_bright_state /\ last_bright_state' => ~Lit']_vars
=============================================================================
