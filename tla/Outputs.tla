------------------------------ MODULE Outputs ------------------------------
(***************************************************************************)
(* The output ports: class Base_Port over iot_out.c, and under it the pins *)
(* of one PCF8574 port expander (out_8574.c, ice_pcf8574.c) and the        *)
(* dimmed lights (out_pwm.c).  The timer task and the application switch   *)
(* ports without a lock.  A pin of the expander is written by reading the  *)
(* whole port and writing it back; each transfer on the I2C bus is atomic. *)
(***************************************************************************)
EXTENDS Naturals, FiniteSets

CONSTANTS
    OutTasks,
    Pins,       \* the ports on the expander
    Reversed,   \* those of them with config.reverse
    Lights,     \* the ports of type PORT_PWM
    Colors,     \* the duty cycles asked for
    MAX_DUTY,   \* the one of a light that has none yet: 4000 in the code
    MaxCommands \* bound: commands of each task

ASSUME OutAssumption ==
    /\ Reversed \subseteq Pins /\ Pins \cap Lights = {}
    /\ Colors \subseteq Nat \ {0} /\ MAX_DUTY \in Nat \ {0} /\ MaxCommands \in Nat

VARIABLES
    chip,       \* the pins that are high
    pwm,        \* per light: state, color, and the duty it fades to
    port,       \* per port: active, disable of the out_dev_t under it, status
    otask,      \* per task: the call it is in
    wanted,      \* ghost: per port, the level last commanded
    crossed_out,\* ghost: ports whose commands met one of the other task
    commands    \* ghost: commands of each task so far

outVars == <<chip, pwm, port, otask, wanted, crossed_out, commands>>

Ports  == Pins \union Lights
IdleO  == [pc |-> "idle", port |-> "none", op |-> "none", arg |-> 0, seen |-> {}]
Level01(b) == IF b THEN 1 ELSE 0

OutTypeOK ==
    /\ chip \subseteq Pins
    /\ pwm \in [Lights -> [state : {0, 1}, color : Colors \union {0, MAX_DUTY}, duty : Nat]]
    /\ port \in [Ports -> [active : BOOLEAN, disable : BOOLEAN, status : BOOLEAN]]
    /\ wanted \in [Ports -> {0, 1}]
    /\ otask \in [OutTasks -> [pc : {"idle", "level", "read", "write", "back", "fade",
                                    "check", "dim", "disable"},
                              port : Ports \union {"none"}, arg : Nat, seen : SUBSET Pins,
                              op : {"none", "set", "toggle", "color", "active"}]]
    /\ crossed_out \subseteq Ports
    /\ commands \in [OutTasks -> 0 .. MaxCommands]

OutInit ==
    /\ chip = {}
    /\ pwm = [l \in Lights |-> [state |-> 0, color |-> 0, duty |-> 0]]
    /\ port = [p \in Ports |-> [active |-> TRUE, disable |-> FALSE, status |-> FALSE]]
    /\ otask = [t \in OutTasks |-> IdleO]
    /\ wanted = [p \in Ports |-> IF p \in Reversed THEN 1 ELSE 0]
    /\ crossed_out = {}
    /\ commands = [t \in OutTasks |-> 0]

-----------------------------------------------------------------------------

Goto(t, pc) == otask' = [otask EXCEPT ![t].pc = pc]
OutReturn(t) == otask' = [otask EXCEPT ![t] = IdleO]

\* The ports two calls disturb each other on: the pins of the expander are one
\* port of the chip.
Together(p, q) == p = q \/ {p, q} \subseteq Pins
Meets(t, p) == {otask[u].port : u \in {v \in OutTasks \ {t} :
                   otask[v].pc # "idle" /\ Together(otask[v].port, p)}}

OutCall(t, p, op, arg, pc) ==
    /\ otask[t].pc = "idle"
    /\ commands[t] < MaxCommands
    /\ commands' = [commands EXCEPT ![t] = @ + 1]
    /\ otask' = [otask EXCEPT ![t] = [pc |-> pc, port |-> p, op |-> op, arg |-> arg,
                                      seen |-> {}]]
    /\ crossed_out' = IF Meets(t, p) = {} THEN crossed_out
                      ELSE crossed_out \union Meets(t, p) \union {p}

\* Base_Port::set_status; a port that is not active is left alone.
SetStatus(t, p, l) ==
    /\ port[p].active
    /\ OutCall(t, p, "set", l, "level")
    /\ port' = [port EXCEPT ![p].status = (l = 1)]
    /\ UNCHANGED <<chip, pwm, wanted>>

SetToggle(t, p) ==
    /\ port[p].active
    /\ OutCall(t, p, "toggle", 0, "level")
    /\ UNCHANGED <<chip, pwm, port, wanted>>

\* Base_Port::set_color does not look at active.
SetColor(t, p, c) ==
    /\ p \in Lights
    /\ OutCall(t, p, "color", c, "level")
    /\ UNCHANGED <<chip, pwm, port, wanted>>

\* set_active and set_active_admin: the port, then the output under it.
SetActive(t, p, b) ==
    /\ OutCall(t, p, "active", Level01(b), "disable")
    /\ port' = [port EXCEPT ![p].active = b]
    /\ UNCHANGED <<chip, pwm, wanted>>

SetDisableOut(t) == otask[t].pc = "disable" /\
    /\ port' = [port EXCEPT ![otask[t].port].disable = (otask[t].arg = 0)]
    /\ OutReturn(t)
    /\ UNCHANGED <<chip, pwm, wanted, crossed_out, commands>>

\* iot_out: a disabled output returns 255, which is true as a status.  set_color
\* stores no status.
OutDisabled(t) == LET me == otask[t] IN
    /\ me.pc = "level" /\ port[me.port].disable
    /\ port' = IF me.op = "color" THEN port ELSE [port EXCEPT ![me.port].status = TRUE]
    /\ OutReturn(t)
    /\ UNCHANGED <<chip, pwm, wanted, crossed_out, commands>>

-----------------------------------------------------------------------------
(* The expander.                                                           *)

PinLevel(p, high) == Level01((p \in high) # (p \in Reversed))

\* out_read: the opposite of the level of the pin.
OutRead(p, high) == 1 - PinLevel(p, high)

\* out_write and pcf8574_pin_write: one bit of what was read.
PinWritten_Alone(p, l, seen) == IF (l = 1) # (p \in Reversed) THEN {p} ELSE {}
PinWritten(p, l, seen) ==
    IF (l = 1) # (p \in Reversed) THEN seen \union {p} ELSE seen \ {p}

\* A toggle writes the opposite of what out_read returns: the level the pin
\* has.
PinEnter(t) == LET me == otask[t] IN
    /\ me.pc = "level" /\ ~port[me.port].disable /\ me.port \in Pins
    /\ otask' = [otask EXCEPT ![t].pc = "read",
                     ![t].arg = IF me.op = "toggle" THEN 1 - OutRead(me.port, chip) ELSE @]
    /\ wanted' = [wanted EXCEPT ![me.port] = otask'[t].arg]
    /\ UNCHANGED <<chip, pwm, port, crossed_out, commands>>

PinRead(t) ==
    /\ otask[t].pc = "read"
    /\ otask' = [otask EXCEPT ![t].pc = "write", ![t].seen = chip]
    /\ UNCHANGED <<chip, pwm, port, wanted, crossed_out, commands>>

PinWrite(t) == LET me == otask[t] IN
    /\ me.pc = "write"
    /\ chip' = PinWritten(me.port, me.arg, me.seen)
    /\ IF me.op = "toggle"
       THEN /\ port' = [port EXCEPT ![me.port].status = (me.arg = 1)]
            /\ OutReturn(t)
       ELSE Goto(t, "back") /\ UNCHANGED port
    /\ UNCHANGED <<pwm, wanted, crossed_out, commands>>

\* 10 ms later set reads the level back; a read that fails gives 0 for the port.
PinReadBack(t) == \E high \in {chip, {}} :
    /\ otask[t].pc = "back"
    /\ port' = [port EXCEPT ![otask[t].port].status = (OutRead(otask[t].port, high) = 1)]
    /\ crossed_out' = IF high = chip THEN crossed_out ELSE crossed_out \union {otask[t].port}
    /\ OutReturn(t)
    /\ UNCHANGED <<chip, pwm, wanted, commands>>

-----------------------------------------------------------------------------
(* The dimmed lights.                                                      *)

\* out_pwm_set_level up to the fade.
Dimmed(w, l) == [w EXCEPT !.state = l, !.color = IF @ = 0 THEN MAX_DUTY ELSE @]

LightEnter(t) == LET me == otask[t]
                     l == IF me.op = "toggle" THEN 1 - pwm[me.port].state ELSE me.arg IN
    /\ me.pc = "level" /\ me.port \in Lights /\ ~port[me.port].disable
    /\ me.op # "color"
    /\ pwm' = [pwm EXCEPT ![me.port] = Dimmed(@, l)]
    /\ wanted' = [wanted EXCEPT ![me.port] = l]
    /\ otask' = [otask EXCEPT ![t].pc = "fade",
                     ![t].arg = IF l = 1 THEN pwm'[me.port].color ELSE 0]
    /\ UNCHANGED <<chip, port, crossed_out, commands>>

\* The fade starts, and the level returned becomes the status.
LightFade(t) == LET me == otask[t] IN
    /\ me.pc = "fade"
    /\ pwm' = [pwm EXCEPT ![me.port].duty = me.arg]
    /\ port' = IF me.op = "color" THEN port
               ELSE [port EXCEPT ![me.port].status = (me.arg # 0)]
    /\ OutReturn(t)
    /\ UNCHANGED <<chip, wanted, crossed_out, commands>>

\* out_pwm_set_color, then its look at the state.
LightColor(t) == LET me == otask[t] IN
    /\ me.pc = "level" /\ me.op = "color" /\ ~port[me.port].disable
    /\ pwm' = [pwm EXCEPT ![me.port].color = me.arg]
    /\ Goto(t, "check")
    /\ UNCHANGED <<chip, port, wanted, crossed_out, commands>>

Recolors_Always(p) == TRUE
Recolors(p) == pwm[p].state = 1

LightCheck(t) == LET me == otask[t] IN
    /\ me.pc = "check"
    /\ IF Recolors(me.port)
       THEN otask' = [otask EXCEPT ![t].pc = "dim"]
       ELSE OutReturn(t)
    /\ UNCHANGED <<chip, pwm, port, wanted, crossed_out, commands>>

LightDim(t) == LET me == otask[t] IN
    /\ me.pc = "dim"
    /\ pwm' = [pwm EXCEPT ![me.port] = Dimmed(@, 1)]
    /\ otask' = [otask EXCEPT ![t].pc = "fade", ![t].arg = pwm'[me.port].color]
    /\ UNCHANGED <<chip, port, wanted, crossed_out, commands>>

-----------------------------------------------------------------------------

OutNext == \E t \in OutTasks :
    \/ \E p \in Ports :
          \/ \E l \in {0, 1} : SetStatus(t, p, l)
          \/ SetToggle(t, p)
          \/ \E c \in Colors : SetColor(t, p, c)
          \/ \E b \in BOOLEAN : SetActive(t, p, b)
    \/ SetDisableOut(t) \/ OutDisabled(t)
    \/ PinEnter(t) \/ PinRead(t) \/ PinWrite(t) \/ PinReadBack(t)
    \/ LightEnter(t) \/ LightFade(t) \/ LightColor(t) \/ LightCheck(t) \/ LightDim(t)

OutSpec == OutInit /\ [][OutNext]_outVars

-----------------------------------------------------------------------------
(* Properties.                                                             *)

OutResting(p) == \A t \in OutTasks : otask[t].pc = "idle" \/ ~Together(otask[t].port, p)

\* A pin that is not at the level of its last command was lost to a command of
\* the other task that overlapped: the expander's port is read and written
\* back without its mutex, which ice_pcf8574.c has commented out.
PinsKeepLevels == \A p \in Pins :
    OutResting(p) /\ p \notin crossed_out => PinLevel(p, chip) = wanted[p]

\* A light that no two commands met on burns as it was last commanded: changing
\* its color never switches it on.
LightsKeepLevels == \A l \in Lights :
    OutResting(l) /\ l \notin crossed_out
        => /\ pwm[l].state = wanted[l]
           /\ pwm[l].duty = IF wanted[l] = 1 THEN pwm[l].color ELSE 0

\* An output is disabled as its port is inactive, unless two commands met: the
\* two are stored one after the other, and between them a command is answered
\* with 255, a status of true for a port that was not switched.
DisabledTogether == \A p \in Ports :
    OutResting(p) /\ p \notin crossed_out => port[p].disable = ~port[p].active

-----------------------------------------------------------------------------
(* The inductive strengthening.                                            *)

\* Where a call on a port of each kind can be.
CallInv == \A t \in OutTasks : LET me == otask[t] IN
    /\ me.pc # "idle" => me.port \in Ports
    /\ me.pc \in {"read", "write", "back"} => me.port \in Pins /\ me.arg \in {0, 1}
    /\ me.pc \in {"fade", "check", "dim"} => me.port \in Lights
    /\ me.pc = "level" /\ me.op = "set" => me.arg \in {0, 1}
    /\ me.pc = "level" /\ me.op = "color" => me.port \in Lights /\ me.arg \in Colors
    /\ me.pc = "level" => me.op \in {"set", "toggle", "color"}

\* Calls that meet are noted, at the ports of both.
At(t, p) == otask[t].pc # "idle" /\ otask[t].port = p
MetInv == \A t, u \in OutTasks :
    t # u /\ otask[t].pc # "idle" /\ otask[u].pc # "idle" /\ Together(otask[t].port, otask[u].port)
        => otask[t].port \in crossed_out

\* A pin nobody met on is at its level, or the one call at it will write it; and
\* what another call writes back leaves it alone.
Writing(t, p) == At(t, p) /\ otask[t].pc \in {"read", "write"}
PinInv == \A p \in Pins \ crossed_out :
    /\ PinLevel(p, chip) = wanted[p] \/ \E t \in OutTasks : Writing(t, p)
    /\ \A t \in OutTasks :
          /\ Writing(t, p) => otask[t].arg = wanted[p]
          /\ otask[t].pc = "write" => (p \in otask[t].seen <=> p \in chip)

\* The same for a light: the one call at it fades it, or is about to.
Settled(l, duty) == duty = IF wanted[l] = 1 THEN pwm[l].color ELSE 0
Fading(t, l) ==
    /\ At(t, l)
    /\ otask[t].pc = "fade" \/ (otask[t].pc \in {"check", "dim"} /\ wanted[l] = 1)
LightInv == \A l \in Lights \ crossed_out :
    /\ pwm[l].state = wanted[l]
    /\ Settled(l, pwm[l].duty) \/ \E t \in OutTasks : Fading(t, l)
    /\ \A t \in OutTasks : At(t, l) =>
          /\ otask[t].pc = "fade" => Settled(l, otask[t].arg)
          /\ otask[t].pc = "dim" => wanted[l] = 1

\* An output is disabled as its port, or the one call at it will see to that.
Disabling(t, p) == At(t, p) /\ otask[t].pc = "disable"
DisableInv == \A p \in Ports \ crossed_out :
    /\ (port[p].disable <=> ~port[p].active) \/ \E t \in OutTasks : Disabling(t, p)
    /\ \A t \in OutTasks : Disabling(t, p) => (otask[t].arg = 0 <=> ~port[p].active)

OutInv == OutTypeOK /\ CallInv /\ MetInv /\ PinInv /\ LightInv /\ DisableInv
=============================================================================
