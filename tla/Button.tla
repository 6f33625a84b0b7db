------------------------------- MODULE Button -------------------------------
(***************************************************************************)
(* One button of iot_button.c.  The timer task samples its level each      *)
(* 12 ms, debounces it and runs the press state machine (button_handler);  *)
(* another task registers its callbacks, as Base_Port::set_port_type does, *)
(* and disables it.  The timer runs from the creation of the first button, *)
(* and neither task takes a lock.  Level 1 is active.                      *)
(***************************************************************************)
EXTENDS Naturals, Sequences

CONSTANTS
    DEBOUNCE_TICKS,   \* samples a level must hold: 5 in the code
    SHORT_TICKS,      \* 150 in the code
    LONG_TICKS,       \* 416 in the code
    TickBound,        \* ticks is uint16_t: 65536 in the code
    RepeatBound,      \* repeat is uint8_t: 256 in the code
    Registered,       \* the events set_port_type registers, in that order
    MaxSwitches       \* bound: calls of set_disable

Events == {"PRESS_DOWN", "PRESS_UP", "PRESS_REPEAT", "SINGLE_CLICK", "DOUBLE_CLICK",
           "LONG_PRESS_START", "LONG_PRESS_HOLD"}

ASSUME ButtonAssumption ==
    /\ DEBOUNCE_TICKS \in 1 .. 7
    /\ {SHORT_TICKS, LONG_TICKS, TickBound, RepeatBound, MaxSwitches} \subseteq Nat
    /\ LONG_TICKS + 1 < TickBound /\ SHORT_TICKS <= LONG_TICKS /\ RepeatBound > 2
    /\ Registered \in Seq(Events)

VARIABLES
    btn,        \* the machine: state, ticks, repeat, event, debounce_cnt, button_level
    disable,
    stores,     \* stores of iot_button_register_cb so far, two for each event
    calls,      \* calls of button_callback_call in the last step
    level,      \* ghost: level of the last sample
    stable,     \* ghost: samples in a row with that level, up to DEBOUNCE_TICKS
    held,       \* ghost: samples since the button level changed, up to LongEnough
    lasted,     \* ghost: length of the last press, up to LongEnough
    presses,    \* ghost: presses since the machine was at rest, up to RepeatBound
    wrapped,    \* ghost: ticks passed TickBound since the machine was at rest
    told,       \* ghost: what the callbacks said last, "down" or "up"
    switched    \* ghost: calls of set_disable so far

btnVars == <<btn, disable, stores, calls, level, stable, held, lasted, presses, wrapped, told,
             switched>>

LongEnough == LONG_TICKS + 2

\* An event has its callback after the first of its two stores; the second
\* one, of usr_data, stores the same value for every event.
cb(ev)   == \E i \in DOMAIN Registered : Registered[i] = ev /\ stores >= 2 * i - 1
usr_data == stores >= 2

ButtonTypeOK ==
    /\ btn \in [state : {0, 1, 2, 3, 5}, ticks : 0 .. TickBound - 1,
                repeat : 0 .. RepeatBound - 1, event : Events \union {"NONE_PRESS"},
                debounce_cnt : 0 .. 7, button_level : {0, 1}]
    /\ disable \in BOOLEAN /\ stores \in 0 .. 2 * Len(Registered)
    /\ calls \in Seq([ev : Events, heard : BOOLEAN, usr : BOOLEAN])
    /\ level \in {0, 1} /\ stable \in 0 .. DEBOUNCE_TICKS
    /\ held \in 0 .. LongEnough /\ lasted \in 0 .. LongEnough /\ wrapped \in BOOLEAN
    /\ presses \in 0 .. RepeatBound /\ told \in {"up", "down", "unknown"}

\* button_create_com
ButtonInit ==
    /\ btn = [state |-> 0, ticks |-> 0, repeat |-> 0, event |-> "NONE_PRESS",
              debounce_cnt |-> 0, button_level |-> 0]
    /\ disable = FALSE /\ stores = 0 /\ calls = <<>>
    /\ level = 0 /\ stable = 0 /\ held = 0 /\ lasted = 0 /\ presses = 0
    /\ wrapped = FALSE /\ told = "up" /\ switched = 0

-----------------------------------------------------------------------------
(* button_handler.                                                         *)

\* The level the machine sees; debounce_cnt has three bits.
Debounced_KeepsCount(b, r) ==
    LET n == (b.debounce_cnt + 1) % 8
    IN  IF r = b.button_level THEN b
        ELSE IF n >= DEBOUNCE_TICKS THEN [b EXCEPT !.button_level = r, !.debounce_cnt = 0]
        ELSE [b EXCEPT !.debounce_cnt = n]
Debounced(b, r) ==
    LET n == (b.debounce_cnt + 1) % 8
    IN  IF r = b.button_level THEN [b EXCEPT !.debounce_cnt = 0]
        ELSE IF n >= DEBOUNCE_TICKS THEN [b EXCEPT !.button_level = r, !.debounce_cnt = 0]
        ELSE [b EXCEPT !.debounce_cnt = n]

Counted(b) == IF b.state > 0 THEN [b EXCEPT !.ticks = (@ + 1) % TickBound] ELSE b

\* The new button, and button_callback_call for some events.
Fires(b, evs) ==
    /\ btn' = b
    /\ calls' = [i \in DOMAIN evs |->
                    [ev |-> evs[i], heard |-> cb(evs[i]) /\ ~disable, usr |-> usr_data]]

Down(b, state, n) ==
    [b EXCEPT !.event = "PRESS_DOWN", !.ticks = 0, !.repeat = n, !.state = state]

\* b is the button with its level and its ticks of this sample.
Resting(b) ==
    /\ b.state = 0
    /\ IF b.button_level = 1 THEN Fires(Down(b, 1, 1), <<"PRESS_DOWN">>)
       ELSE Fires([b EXCEPT !.event = "NONE_PRESS"], <<>>)

Pressed(b) ==
    /\ b.state = 1
    /\ CASE b.button_level = 0 ->
              Fires([b EXCEPT !.event = "PRESS_UP", !.ticks = 0, !.state = 2], <<"PRESS_UP">>)
         [] b.button_level = 1 /\ b.ticks > LONG_TICKS ->
              Fires([b EXCEPT !.event = "LONG_PRESS_START", !.state = 5], <<"LONG_PRESS_START">>)
         [] OTHER -> Fires(b, <<>>)

Click(n) == CASE n = 1 -> "SINGLE_CLICK" [] n = 2 -> "DOUBLE_CLICK" [] OTHER -> "none"

\* Two callbacks for the next press, both with the event of the first.
Released(b) ==
    /\ b.state = 2
    /\ CASE b.button_level = 1 ->
              Fires(Down(b, 3, (b.repeat + 1) % RepeatBound), <<"PRESS_DOWN", "PRESS_REPEAT">>)
         [] b.button_level = 0 /\ b.ticks > SHORT_TICKS ->
              IF Click(b.repeat) = "none" THEN Fires([b EXCEPT !.state = 0], <<>>)
              ELSE Fires([b EXCEPT !.event = Click(b.repeat), !.state = 0], <<Click(b.repeat)>>)
         [] OTHER -> Fires(b, <<>>)

PressedAgain_Silent(b) ==
    /\ b.state = 3
    /\ IF b.button_level = 1 THEN Fires(b, <<>>)
       ELSE IF b.ticks < SHORT_TICKS
       THEN Fires([b EXCEPT !.event = "PRESS_UP", !.ticks = 0, !.state = 2], <<"PRESS_UP">>)
       ELSE Fires([b EXCEPT !.state = 0], <<>>)

\* A press after the first has no long press, only an end.
PressedAgain(b) ==
    /\ b.state = 3
    /\ IF b.button_level = 1 THEN Fires(b, <<>>)
       ELSE IF b.ticks < SHORT_TICKS
       THEN Fires([b EXCEPT !.event = "PRESS_UP", !.ticks = 0, !.state = 2], <<"PRESS_UP">>)
       ELSE Fires([b EXCEPT !.event = "PRESS_UP", !.state = 0], <<"PRESS_UP">>)

HeldLong(b) ==
    /\ b.state = 5
    /\ IF b.button_level = 1
       THEN Fires([b EXCEPT !.event = "LONG_PRESS_HOLD"], <<"LONG_PRESS_HOLD">>)
       ELSE Fires([b EXCEPT !.event = "PRESS_UP", !.state = 0], <<"PRESS_UP">>)

Hears(cs, ev) == \E i \in DOMAIN cs : cs[i].ev = ev /\ cs[i].heard
UpTo(max, n)  == IF n < max THEN n ELSE max

ButtonSample ==
    \E r \in {0, 1} :
        LET b == Debounced(Counted(btn), r)
            turned == b.button_level # btn.button_level
        IN  /\ Resting(b) \/ Pressed(b) \/ Released(b) \/ PressedAgain(b) \/ HeldLong(b)
            /\ level' = r
            /\ stable' = IF r # level THEN 1 ELSE UpTo(DEBOUNCE_TICKS, stable + 1)
            /\ held' = IF turned THEN 0 ELSE UpTo(LongEnough, held + 1)
            /\ lasted' = IF turned /\ b.button_level = 0 THEN UpTo(LongEnough, held + 1) ELSE lasted
            /\ presses' = CASE turned /\ b.button_level = 1 /\ btn.state = 0 -> 1
                             [] turned /\ b.button_level = 1 /\ btn.state # 0 ->
                                  UpTo(RepeatBound, presses + 1)
                             [] OTHER -> presses
            /\ wrapped' = (btn.state # 0 /\ (wrapped \/ btn.ticks + 1 = TickBound))
            /\ told' = CASE Hears(calls', "PRESS_DOWN") -> "down"
                          [] Hears(calls', "PRESS_UP") -> "up"
                          [] OTHER -> told
    /\ UNCHANGED <<disable, stores, switched>>

-----------------------------------------------------------------------------
(* iot_button_register_cb and iot_button_set_disable, from another task.   *)

RegisterStore ==
    /\ stores < 2 * Len(Registered)
    /\ stores' = stores + 1
    /\ told' = "unknown" /\ calls' = <<>>
    /\ UNCHANGED <<btn, disable, level, stable, held, lasted, presses, wrapped, switched>>

SetDisable ==
    /\ switched < MaxSwitches
    /\ switched' = switched + 1
    /\ disable' = ~disable
    /\ told' = "unknown" /\ calls' = <<>>
    /\ UNCHANGED <<btn, stores, level, stable, held, lasted, presses, wrapped>>

ButtonNext == ButtonSample \/ RegisterStore \/ SetDisable
ButtonSpec == ButtonInit /\ [][ButtonNext]_btnVars

-----------------------------------------------------------------------------
(* Properties.                                                             *)

\* A press or a release is reported only for a level that held for
\* DEBOUNCE_TICKS samples; a long press only for the first press, after more
\* than LONG_TICKS; a click for as many presses as its name says, none of them
\* too long, and after more than SHORT_TICKS of rest.  Two counters spoil that:
\* repeat after RepeatBound presses in a row, ticks in a press of TickBound.
\* A callback is without its usr_data only between the first two stores.
EventsAreEarned ==
    \A i \in DOMAIN calls :
        LET ev == calls[i].ev
            Clicks(n) == presses \in {n, RepeatBound} /\ held >= SHORT_TICKS
        IN  /\ ev \in {"PRESS_DOWN", "PRESS_UP"} => stable = DEBOUNCE_TICKS
            /\ ev = "LONG_PRESS_START" => presses = 1 /\ held > LONG_TICKS
            /\ ev = "SINGLE_CLICK" => Clicks(1) /\ (lasted <= LONG_TICKS + 1 \/ presses # 1)
            /\ ev = "DOUBLE_CLICK" => Clicks(2) /\ (lasted < SHORT_TICKS \/ wrapped)
            /\ calls[i].heard /\ ~calls[i].usr => ev = Registered[1]

\* The callbacks say press and release in turn, as func_callback of the classes
\* takes for granted, unless registration is not over or the button is disabled
\* or enabled in between.
PressesArePaired ==
    [][stores = 2 * Len(Registered) =>
          /\ Hears(calls', "PRESS_DOWN") => told # "down"
          /\ Hears(calls', "PRESS_UP") => told # "up"]_btnVars

-----------------------------------------------------------------------------
(* The inductive strengthening.                                            *)

\* The debounce counter is the number of samples since the level changed.
DebounceInv ==
    IF level = btn.button_level THEN btn.debounce_cnt = 0
    ELSE btn.debounce_cnt = stable /\ stable < DEBOUNCE_TICKS

\* In each state, how long the level has held and how many presses came before.
MachineInv ==
    /\ btn.button_level = 1 <=> btn.state \in {1, 3, 5}
    /\ btn.state \in {1, 2} => btn.ticks = held
    /\ btn.state = 1 => held <= LONG_TICKS /\ presses = 1
    /\ btn.state = 2 => /\ held <= SHORT_TICKS
                        /\ IF presses = 1 THEN lasted <= LONG_TICKS + 1
                           ELSE lasted < SHORT_TICKS \/ wrapped
    /\ btn.state = 3 => presses # 1 /\ (wrapped \/ held = UpTo(LongEnough, btn.ticks))
    /\ btn.state \in {1, 2, 3} => presses = RepeatBound \/ (presses > 0 /\ btn.repeat = presses)

\* What was said last is the level, once both events have their callback.
ToldInv ==
    stores = 2 * Len(Registered) =>
        /\ told = "down" => ~disable /\ btn.button_level = 1
        /\ told = "up" => ~disable /\ btn.button_level = 0

ButtonInv == ButtonTypeOK /\ DebounceInv /\ MachineInv /\ EventsAreEarned
=============================================================================
