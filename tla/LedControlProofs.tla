-------------------------- MODULE LedControlProofs --------------------------
(***************************************************************************)
(* Proofs about the LED and its automation, for every set of brightness    *)
(* levels clients may ask for.                                             *)
(***************************************************************************)
EXTENDS LedControl, TLAPS

\* The device thread only works while the libraries are up: they are cleaned
\* up after it has been joined.
Up == device # "done" => led_initialized /\ sensor_initialized

IInv == TypeOK /\ Up /\ FlagMeansLit

USE DEF LedInit, SensorInit, LedCleanup, SensorCleanup, PWM_HIGH, PWM_LOW, PWM_MEDIUM, LOW, HIGH, Lit

\* A valid level stands for a duty value below full, so the LED is lit.
LEMMA DutyLit ==
  \A level \in 1 .. 3 : Duty[level] \in {0, 34, 67}
BY DEF Duty

\* A write by the device thread reaches the pin.
LEMMA Written ==
  ASSUME IInv, device # "done", NEW value, NEW on, LedWrite(value, on)
  PROVE  pwm' = value /\ led_state' = on /\ led_initialized' = led_initialized /\ led_initialized
BY DEF IInv, Up, LedWrite

\* Init establishes the invariant.
LEMMA InitIInv == Init => IInv
<1> SUFFICES ASSUME Init PROVE IInv
  OBVIOUS
<1>1. TypeOK
  <2>1. 0 \in 0 .. 3
    OBVIOUS
  <2> QED BY <2>1, Zenon DEF Init, TypeOK
<1>2. Up /\ ~led_on /\ ~led_state /\ pwm = 100
  BY DEF Init, Up
<1> QED BY <1>1, <1>2 DEF IInv, FlagMeansLit

\* Every step preserves the invariant.
LEMMA NextIInv == IInv /\ [Next]_vars => IInv'
<1> SUFFICES ASSUME IInv, [Next]_vars PROVE IInv'
  OBVIOUS
<1> USE DEF IInv
<1>1. CASE ProcessLedOn
  <2>1. device = "idle" /\ LedWrite(0, TRUE)
    BY <1>1 DEF ProcessLedOn, Command
  <2>2. pwm' = 0 /\ led_state' = TRUE /\ led_initialized' = led_initialized
    BY <2>1, Written
  <2>3. FlagMeansLit'
    <3>1. pwm' # 100
      BY <2>2
    <3> QED BY <2>2, <3>1 DEF FlagMeansLit
  <2> QED BY <1>1, <2>2, <2>3 DEF ProcessLedOn, Command, TypeOK, Up
<1>2. CASE ProcessLedOff
  <2>1. device = "idle" /\ LedWrite(100, FALSE)
    BY <1>2 DEF ProcessLedOff, Command
  <2>2. pwm' = 100 /\ led_state' = FALSE /\ led_initialized' = led_initialized
        /\ led_initialized
    BY <2>1, Written
  <2> QED BY <1>2, <2>2 DEF ProcessLedOff, Command, TypeOK, Up, FlagMeansLit
<1>3. ASSUME NEW level \in Levels, ProcessSetBrightness(level) PROVE IInv'
  <2>1. CASE level \in 1 .. 3
    <3>1. device = "idle" /\ LedWrite(Duty[level], TRUE)
      BY <1>3, <2>1 DEF ProcessSetBrightness, Command
    <3>2. Duty[level] \in {0, 34, 67}
      BY <2>1, DutyLit
    <3>3. pwm' = Duty[level] /\ led_state' = TRUE /\ led_initialized' = led_initialized
      BY <3>1, <3>2, Written
    <3>4. pwm' # 100 /\ pwm' \in {0, 34, 67, 100}
      BY <3>2, <3>3
    <3>5. FlagMeansLit'
      <4>1. Lit' /\ led_state'
        BY <3>3, <3>4
      <4> QED BY <4>1 DEF FlagMeansLit
    <3>6. TypeOK'
      <4>1. led_brightness' \in 0 .. 3
        <5>1. led_brightness' = level \/ led_brightness' = led_brightness
          BY <1>3, <2>1, Zenon DEF ProcessSetBrightness
        <5>2. level \in 0 .. 3
          BY <2>1
        <5> QED BY <5>1, <5>2, Zenon DEF TypeOK
      <4> QED
        BY <1>3, <2>1, <3>3, <3>4, <4>1, Zenon DEF ProcessSetBrightness, Command, TypeOK
    <3>7. Up'
      BY <1>3, <2>1, <3>3 DEF ProcessSetBrightness, Command, Up
    <3> QED BY <3>5, <3>6, <3>7
  <2>2. CASE level \notin 1 .. 3
    BY <1>3, <2>2 DEF ProcessSetBrightness, Command, TypeOK, Up, FlagMeansLit
  <2> QED BY <2>1, <2>2
<1>4. ASSUME NEW on \in BOOLEAN, ProcessSensor(on) PROVE IInv'
  BY <1>4 DEF ProcessSensor, Command, ledVars, TypeOK, Up, FlagMeansLit
<1>5. CASE ProcessOther
  BY <1>5 DEF ProcessOther, Command, ledVars, TypeOK, Up, FlagMeansLit
<1>6. CASE CheckMonitoring \/ Tick \/ DeviceExit
  BY <1>6 DEF CheckMonitoring, Tick, DeviceExit, ledVars, sensorVars, TypeOK, Up, FlagMeansLit
<1>7. CASE ReadSensor
  BY <1>7 DEF ReadSensor, light_sensor_is_bright, ledVars, TypeOK, Up, FlagMeansLit
<1>8. CASE Automate
  <2>1. CASE is_bright # last_bright_state /\ led_on = is_bright
    <3>1. device = "act" /\ led_on' = ~is_bright
          /\ LedWrite(IF ~is_bright THEN 0 ELSE 100, ~is_bright)
      BY <1>8, <2>1 DEF Automate, Switch, TypeOK
    <3>2. pwm' = (IF is_bright THEN 100 ELSE 0) /\ led_state' = ~is_bright
          /\ led_initialized' = led_initialized
      BY <3>1, Written
    <3>3. Lit' <=> ~is_bright
      BY <3>2
    <3> QED BY <1>8, <3>1, <3>2, <3>3 DEF Automate, TypeOK, Up, FlagMeansLit
  <2>2. CASE ~(is_bright # last_bright_state /\ led_on = is_bright)
    <3>1. UNCHANGED <<led_initialized, led_state, pwm, led_on>>
      BY <1>8, <2>2 DEF Automate, Switch, TypeOK
    <3> QED BY <1>8, <3>1 DEF Automate, TypeOK, Up, FlagMeansLit
  <2> QED BY <2>1, <2>2
<1>9. CASE Cleanup
  BY <1>9 DEF Cleanup, TypeOK, Up, FlagMeansLit
<1>10. CASE LightChange
  BY <1>10 DEF LightChange, ledVars, sensorVars, TypeOK, Up, FlagMeansLit
<1>11. CASE UNCHANGED vars
  BY <1>11 DEF vars, ledVars, sensorVars, TypeOK, Up, FlagMeansLit
<1> QED
  BY <1>1, <1>2, <1>3, <1>4, <1>5, <1>6, <1>7, <1>8, <1>9, <1>10, <1>11
     DEF Next, DeviceWork, DeviceCommand

\* A step that notes darkness leaves the LED lit: only the automation writes
\* last_bright_state, and if it does not write the LED then led_on was set.
LEMMA NextDarkness ==
  IInv /\ [Next]_vars => [last_bright_state /\ ~last_bright_state' => Lit']_vars
<1> SUFFICES ASSUME IInv, [Next]_vars, last_bright_state, ~last_bright_state' PROVE Lit'
  OBVIOUS
<1>1. Automate
  BY DEF Next, DeviceWork, DeviceCommand, ProcessLedOn, ProcessLedOff, ProcessSetBrightness,
         ProcessSensor, ProcessOther, Command, CheckMonitoring, Tick, ReadSensor, DeviceExit,
         Cleanup, LightChange, vars, sensorVars
<1>2. ~is_bright /\ device = "act" /\ Switch(TRUE)
  BY <1>1 DEF Automate, IInv, TypeOK
<1>3. CASE led_on
  BY <1>2, <1>3 DEF Switch, IInv, Up, FlagMeansLit
<1>4. CASE ~led_on
  <2>1. LedWrite(0, TRUE)
    BY <1>2, <1>4 DEF Switch
  <2>2. pwm' = 0
    BY <1>2, <2>1, Written
  <2> QED BY <2>2
<1> QED BY <1>3, <1>4

\* Inductive: the invariant holds of the specification.
THEOREM Inductive == Spec => []IInv
BY InitIInv, NextIInv, PTL DEF Spec

\* Types: led_brightness is a valid level and the duty value one of four,
\* whatever levels clients ask for.
THEOREM TypeCorrect == Spec => []TypeOK
BY Inductive, PTL DEF IInv

\* The flag led_on is never set with the LED out.
THEOREM FlagSound == Spec => []FlagMeansLit
BY Inductive, PTL DEF IInv

\* Darkness noted by the automation always finds or makes the LED lit.
THEOREM DarknessSeen == Spec => DarknessLights
BY Inductive, NextDarkness, PTL DEF Spec, DarknessLights
=============================================================================
