------------------------------- MODULE MCLamp -------------------------------
(* Instances of Lamp: the five classes side by side, with the flags of     *)
(* each that change what its functions do.                                  *)
EXTENDS Lamp

Light(kind, fire, welcome, active, sensor_on) ==
    [kind |-> kind, fire |-> fire, welcome |-> welcome, active |-> active,
     sensor_on |-> sensor_on]

FireLamp == Light("lamp", TRUE, FALSE, TRUE, TRUE)
PwmLight == Light("pwm", FALSE, TRUE, TRUE, TRUE)

AllLights == {FireLamp, PwmLight,
              Light("lamp", FALSE, TRUE, TRUE, TRUE),
              Light("lamp", TRUE, TRUE, FALSE, TRUE),
              Light("rgb", TRUE, TRUE, TRUE, TRUE),
              Light("klima", FALSE, FALSE, TRUE, FALSE),
              Light("room", FALSE, FALSE, TRUE, FALSE)}
FireLamps == {FireLamp}
=============================================================================
