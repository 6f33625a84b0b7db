------------------------------ MODULE MCPanel -------------------------------
(* Instance of the modules for the hardware of one panel: a button, the keys *)
(* of the ADC channels, the outputs and the clock.  In the code they share   *)
(* no state, so a behaviour takes the steps of one part and the others stay  *)
(* as they start.                                                            *)
EXTENDS Button, AdcKeys, Outputs, ClockChip

VARIABLE part   \* the module whose steps this behaviour takes

MCRegistered == <<"PRESS_DOWN", "PRESS_UP", "LONG_PRESS_START">>

PanelInit ==
    /\ part \in {"button", "keys", "outputs", "clock"}
    /\ ButtonInit /\ AdcInit /\ OutInit /\ ClockInit

PanelNext ==
    /\ UNCHANGED part
    /\ \/ /\ part = "button" /\ ButtonNext
          /\ UNCHANGED <<adcVars, outVars, clockVars>>
       \/ /\ part = "keys" /\ AdcNext
          /\ UNCHANGED <<btnVars, outVars, clockVars>>
       \/ /\ part = "outputs" /\ OutNext
          /\ UNCHANGED <<btnVars, adcVars, clockVars>>
       \/ /\ part = "clock" /\ ClockNext
          /\ UNCHANGED <<btnVars, adcVars, outVars>>

PanelSpec == PanelInit /\ [][PanelNext]_<<part, btnVars, adcVars, outVars, clockVars>>

-----------------------------------------------------------------------------
\* Every variable of the four modules keeps its type.
PanelTypes == ButtonTypeOK /\ AdcTypeOK /\ OutTypeOK /\ ClockTypeOK

\* What the inputs promise: an event says what was pressed and for how long, and
\* a key is judged by a voltage of its own channel.
InputsAreTrue == EventsAreEarned /\ ChannelsDistinct /\ JudgedByMeasured

\* What the devices on the I2C bus and the lights keep: the levels commanded, the
\* settings of the clock, its flags, and the time.
OutputsKept ==
    /\ PinsKeepLevels /\ LightsKeepLevels /\ DisabledTogether
    /\ SettingsKept /\ FlagsKept /\ ReadsAreTrue

\* What these follow from.
PanelInv == ButtonInv /\ AdcInv /\ OutInv /\ ClockInv
=============================================================================
