-------------------------------- MODULE Lamp --------------------------------
(***************************************************************************)
(* One function of a room: the lights, class Lamp and its two near copies  *)
(* PwmLed and RgbLed, which differ in the type of output port each         *)
(* function looks for, the air conditioner Klima and the room's own        *)
(* contactor Room, which have no minutes and whose timers nothing starts.  *)
(* Two tasks change it without a lock: the ESP timer task, where the       *)
(* buttons, the minute timer xtimer and the welcome timer qtimer call      *)
(* back, and the application, which calls set_status, fire, senaryo and    *)
(* room_event.  A callback copies the status, moves the output, and then   *)
(* writes its copy back over whatever the status has become.               *)
(*                                                                         *)
(* The status keeps stat and counter (minutes left); relay is the level of *)
(* the output ports, which are all set together.                           *)
(***************************************************************************)
EXTENDS Naturals

CONSTANTS
    Devices,   \* the lights to look at, one at a time
    MaxCount,  \* bound: minutes a command asks for
    MaxTimed   \* bound: commands with a counter

ASSUME LampAssumption ==
    /\ Devices \subseteq [kind : {"lamp", "pwm", "rgb", "klima", "room"}, fire : BOOLEAN,
                          welcome : BOOLEAN, active : BOOLEAN,
                          sensor_on : BOOLEAN]
    /\ MaxCount \in Nat
    /\ MaxTimed \in Nat

VARIABLES
    dev,        \* the definition: class, global bits, genel.active, sensor port
    status,
    relay,
    main_temp_status,
    qtimer,     \* the welcome timer runs
    xtimer,     \* the minute timer runs
    room_on,
    disk,       \* the status in the status file
    drv,        \* the timer task: where it is in a callback and its copy
    app,        \* the application: where it is in set_status
    alarm,      \* ghost: no fire alarm, one, or repeated
    before,     \* ghost: stat when the alarm came
    timed,      \* ghost: switched on for a number of minutes
    timedCalls, \* ghost: commands with a counter so far
    restored,   \* ghost: status comes from the file, nothing was commanded yet
    mixed       \* ghost: the two tasks were at the light at the same time

ghosts == <<alarm, before, timed, timedCalls, restored, mixed>>
vars == <<dev, status, relay, main_temp_status, qtimer, xtimer, room_on, disk,
          drv, app, alarm, before, timed, timedCalls, restored, mixed>>

Status == [stat : BOOLEAN, counter : 0 .. MaxCount]
Off    == [stat |-> FALSE, counter |-> 0]

\* Which functions find the ports of the class.  Buttons and init look for the
\* type set_status uses, except in RgbLed; the timers always for PORT_OUTPORT.
\* Room's callback has its body commented out, and its init does not look.
Handles(e) == CASE dev.kind = "rgb" \/ dev.kind = "room" -> FALSE
                [] dev.kind = "klima" -> e \in {"down", "up"}
                [] OTHER -> TRUE
InitFindsPort   == dev.kind \notin {"rgb", "room"}
TimersFindPort_None == FALSE
TimersFindPort  == dev.kind = "lamp"

\* The lights count minutes; the other two carry the counter along.
HasMinutes == dev.kind \in {"lamp", "pwm", "rgb"}

Callbacks == {"down", "up", "puls", "sensor", "minute", "welcome"}
Writes    == {"button_write", "timer_write"}
DrvStates == [pc : {"idle"} \union Callbacks \union Writes, stat : Status]

StatusTypes ==
    /\ status \in Status /\ main_temp_status \in Status /\ disk \in Status
    /\ drv \in DrvStates

FlagTypes ==
    /\ relay \in BOOLEAN /\ qtimer \in BOOLEAN /\ xtimer \in BOOLEAN /\ room_on \in BOOLEAN
    /\ before \in BOOLEAN /\ timed \in BOOLEAN /\ restored \in BOOLEAN /\ mixed \in BOOLEAN

ControlTypes ==
    /\ dev \in Devices
    /\ qtimer => dev.welcome
    /\ app \in {"idle", "port", "write"}
    /\ alarm \in {"no", "once", "again"}
    /\ timedCalls \in 0 .. MaxTimed

TypeOK == StatusTypes /\ FlagTypes /\ ControlTypes

\* main_temp_status is not initialized: the memory of a new object is anything.
Init ==
    /\ dev \in Devices
    /\ status = Off
    /\ relay = FALSE
    /\ main_temp_status \in {Off, [stat |-> TRUE, counter |-> MaxCount]}
    /\ qtimer = FALSE
    /\ xtimer = FALSE
    /\ room_on = FALSE
    /\ disk = Off
    /\ drv = [pc |-> "idle", stat |-> Off]
    /\ app = "idle"
    /\ alarm = "no"
    /\ before = FALSE
    /\ timed = FALSE
    /\ timedCalls = 0
    /\ restored = FALSE
    /\ mixed = FALSE

-----------------------------------------------------------------------------
(* The timer task.                                                         *)

\* Every callback begins with a copy of the status.
Begin(pc) ==
    /\ drv.pc = "idle"
    /\ drv' = [pc |-> pc, stat |-> status]
    /\ mixed' = (mixed \/ app # "idle")

End == drv' = [pc |-> "idle", stat |-> Off]

\* func_callback: a switch (down, up), a push button (puls) or the sensor.  An
\* event that changes nothing is not a step.
Press(e) ==
    /\ e \in {"down", "up", "puls", "sensor"}
    /\ dev.active /\ Handles(e)
    /\ IF e = "sensor" THEN dev.sensor_on ELSE room_on
    /\ Begin(e)
    /\ UNCHANGED <<dev, status, relay, main_temp_status, qtimer, xtimer,
                   room_on, disk, app, alarm, before, timed, timedCalls,
                   restored>>

Level(e) == CASE e = "down"   -> TRUE
              [] e = "up"     -> FALSE
              [] e = "puls"   -> ~relay
              [] e = "sensor" -> TRUE

\* tim_start, which only a welcome lamp has a timer for.
WelcomeStarts_NoNullTest(e) == e = "sensor"
WelcomeStarts(e) == e = "sensor" /\ dev.welcome

\* The port, then tim_stop, and for the sensor tim_start.
ButtonPort ==
    /\ drv.pc \in {"down", "up", "puls", "sensor"}
    /\ relay' = Level(drv.pc)
    /\ drv' = [pc |-> "button_write", stat |-> [drv.stat EXCEPT !.stat = relay']]
    /\ qtimer' = WelcomeStarts(drv.pc)
    /\ UNCHANGED <<dev, status, main_temp_status, xtimer, room_on, disk, app,
                   ghosts>>

ButtonWrite ==
    /\ drv.pc = "button_write"
    /\ xtimer' = FALSE
    /\ status' = IF HasMinutes THEN [drv.stat EXCEPT !.counter = 0] ELSE drv.stat
    /\ disk' = status'
    /\ End
    /\ timed' = FALSE
    /\ UNCHANGED <<dev, relay, main_temp_status, qtimer, room_on, app, alarm,
                   before, timedCalls, restored, mixed>>

\* xtim_callback, once a minute.
MinuteTick ==
    /\ xtimer
    /\ Begin("minute")
    /\ UNCHANGED <<dev, status, relay, main_temp_status, qtimer, xtimer,
                   room_on, disk, app, alarm, before, timed, timedCalls,
                   restored>>

Counted(s) == IF s.counter > 0 THEN [s EXCEPT !.counter = @ - 1] ELSE s

MinutePort ==
    /\ drv.pc = "minute"
    /\ LET s == Counted(drv.stat)
       IN  IF s.counter > 0
           THEN /\ drv' = [pc |-> "timer_write", stat |-> s]
                /\ UNCHANGED <<xtimer, relay>>
           ELSE /\ xtimer' = FALSE
                /\ IF TimersFindPort
                   THEN /\ relay' = FALSE
                        /\ drv' = [pc |-> "timer_write",
                                   stat |-> [s EXCEPT !.stat = FALSE]]
                   ELSE /\ UNCHANGED relay
                        /\ IF s = drv.stat THEN End
                           ELSE drv' = [pc |-> "timer_write", stat |-> s]
    /\ UNCHANGED <<dev, status, main_temp_status, qtimer, room_on, disk, app,
                   ghosts>>

\* lamp_tim_callback; the one-shot timer has ended by then.
WelcomeOver ==
    /\ qtimer
    /\ qtimer' = FALSE
    /\ IF TimersFindPort THEN Begin("welcome")
       ELSE drv.pc = "idle" /\ UNCHANGED <<drv, mixed>>
    /\ UNCHANGED <<dev, status, relay, main_temp_status, xtimer, room_on, disk,
                   app, alarm, before, timed, timedCalls, restored>>

WelcomePort ==
    /\ drv.pc = "welcome"
    /\ relay' = FALSE
    /\ drv' = [pc |-> "timer_write", stat |-> [drv.stat EXCEPT !.stat = FALSE]]
    /\ UNCHANGED <<dev, status, main_temp_status, qtimer, xtimer, room_on, disk,
                   app, ghosts>>

TimerWrite_PortOnly ==
    /\ drv.pc = "timer_write"
    /\ End
    /\ UNCHANGED <<dev, status, relay, main_temp_status, qtimer, xtimer,
                   room_on, disk, app, ghosts>>

TimerWrite ==
    /\ drv.pc = "timer_write"
    /\ status' = drv.stat
    /\ disk' = status'
    /\ End
    /\ UNCHANGED <<dev, relay, main_temp_status, qtimer, xtimer, room_on, app,
                   ghosts>>

-----------------------------------------------------------------------------
(* The application.                                                        *)

\* set_status, up to the loop over the ports; running says whether the minute
\* timer runs when it is called.
SetStatus(s, running) ==
    /\ app = "idle"
    /\ app' = "port"
    /\ status' = [stat    |-> s.stat /\ dev.active,
                  counter |-> IF s.stat \/ ~HasMinutes THEN s.counter ELSE 0]
    /\ xtimer' = (HasMinutes /\ s.stat /\ (running \/ s.counter > 0))
    /\ timed' = (HasMinutes /\ s.stat /\ s.counter > 0)
    /\ restored' = FALSE
    /\ mixed' = (mixed \/ drv.pc # "idle")
    /\ UNCHANGED <<dev, relay, qtimer, room_on, disk, drv>>

AppPort ==
    /\ app = "port"
    /\ relay' = status.stat
    /\ app' = "write"
    /\ UNCHANGED <<dev, status, main_temp_status, qtimer, xtimer, room_on, disk,
                   drv, ghosts>>

AppWrite ==
    /\ app = "write"
    /\ disk' = status
    /\ app' = "idle"
    /\ UNCHANGED <<dev, status, relay, main_temp_status, qtimer, xtimer,
                   room_on, drv, ghosts>>

Command(s) ==
    /\ s.counter > 0 => timedCalls < MaxTimed
    /\ timedCalls' = IF s.counter > 0 THEN timedCalls + 1 ELSE timedCalls
    /\ SetStatus(s, xtimer)
    /\ UNCHANGED <<main_temp_status, alarm, before>>

SavedStatus_AsShown == [stat |-> dev.fire, counter |-> 0]
SavedStatus == IF HasMinutes THEN [status EXCEPT !.counter = 0] ELSE status

\* fire(true): the minute timer stops, the status is kept for later, the fire
\* lamp goes on and every other function off.
FireStatus == [stat |-> dev.fire /\ HasMinutes, counter |-> SavedStatus.counter]

FireOn ==
    /\ main_temp_status' = SavedStatus
    /\ SetStatus(FireStatus, FALSE)
    /\ alarm' = IF alarm = "no" THEN "once" ELSE "again"
    /\ before' = status.stat
    /\ UNCHANGED timedCalls

\* fire(false); a garbage counter in main_temp_status counts as a command.
FireOff ==
    /\ main_temp_status.counter > 0 => timedCalls < MaxTimed
    /\ timedCalls' = timedCalls + (IF main_temp_status.counter > 0 THEN 1 ELSE 0)
    /\ SetStatus(main_temp_status, FALSE)
    /\ alarm' = "no"
    /\ UNCHANGED <<main_temp_status, before>>

Senaryo(on) ==
    /\ SetStatus([status EXCEPT !.stat = on], xtimer)
    /\ UNCHANGED <<main_temp_status, alarm, before, timedCalls>>

RoomEvent(on) ==
    /\ app = "idle"
    /\ room_on' = (on /\ dev.kind # "room")
    /\ UNCHANGED <<dev, status, relay, main_temp_status, qtimer, xtimer, disk,
                   drv, app, ghosts>>

\* A restart: init reads the file, then the level of the outputs, which may
\* have kept theirs or not; neither timer runs.
Reboot ==
    /\ relay' \in {relay, FALSE}
    /\ status' = IF InitFindsPort THEN [disk EXCEPT !.stat = relay'] ELSE disk
    /\ main_temp_status' \in {Off, [stat |-> TRUE, counter |-> MaxCount]}
    /\ qtimer' = FALSE
    /\ xtimer' = FALSE
    /\ room_on' = FALSE
    /\ drv' = [pc |-> "idle", stat |-> Off]
    /\ app' = "idle"
    /\ alarm' = "no"
    /\ timed' = FALSE
    /\ restored' = TRUE
    /\ mixed' = FALSE
    /\ UNCHANGED <<dev, disk, before, timedCalls>>

-----------------------------------------------------------------------------
DriverStep == ButtonPort \/ ButtonWrite \/ MinutePort \/ WelcomePort \/ TimerWrite
AppStep    == AppPort \/ AppWrite

Next ==
    \/ \E e \in {"down", "up", "puls", "sensor"} : Press(e)
    \/ MinuteTick \/ WelcomeOver
    \/ DriverStep
    \/ \E s \in Status : Command(s)
    \/ FireOn \/ FireOff
    \/ \E on \in BOOLEAN : Senaryo(on) \/ RoomEvent(on)
    \/ AppStep
    \/ Reboot

Spec == Init /\ [][Next]_vars

\* Both tasks run, and the minute timer fires while it is started.
FairSpec ==
    /\ Spec
    /\ WF_vars(DriverStep)
    /\ WF_vars(AppStep)
    /\ WF_vars(MinuteTick)

-----------------------------------------------------------------------------
Idle == drv.pc = "idle" /\ app = "idle"

\* Whenever neither task is at the light, the status that is reported and
\* stored is the level of the output, unless the two met at the light since
\* the last restart (lamp.cpp:17-55, 203-219, 228-239 against 67-84): a
\* callback that was overtaken writes an old status back.  RgbLed::init and
\* Room::init never read their outputs, so their status is the stored one
\* until the next command.
StatusMatchesRelay ==
    Idle => \/ status.stat = relay
            \/ mixed
            \/ dev.kind \in {"rgb", "room"} /\ restored

\* The end of an alarm brings back the state before it, unless the alarm was
\* raised again, which keeps the alarm's own state (lamp.cpp:148-162).
FireRestores ==
    [][ FireOff => \/ alarm = "again" \/ alarm = "no"
                   \/ ~dev.active \/ mixed'
                   \/ status'.stat = before ]_vars

\* A lamp that was switched on for some minutes does not stay on: it goes off,
\* or a button or a command without minutes takes over (lamp.cpp:199-221,
\* 355).
TimedLampGoesOff ==
    (dev.kind = "lamp" /\ timed /\ relay) ~> (~timed \/ ~relay \/ mixed)

(* What the comments say.                                                  *)

\* lamp.cpp:312-313 "Yangın alarmı alındığında bu lamba sönükse yakılır ve ana
\* kontaktör kapanana kadar yanık kalır": a fire lamp that is on during an
\* alarm stays on until the alarm is taken back.
FireLampStaysOn ==
    [][ /\ dev.fire /\ relay /\ ~mixed'
        /\ alarm # "no" /\ alarm' # "no"
        => relay' ]_vars

(* The inductive strengthening of the properties.                          *)

\* Where the status and the level agree when nobody is at the light.
Agree(s) == s.stat = relay \/ (dev.kind \in {"rgb", "room"} /\ restored)

\* As long as the two tasks do not meet, one of them at most is at the light,
\* and it carries the status that belongs to the level.
MatchInv ==
    ~mixed =>
        /\ drv.pc = "idle" \/ app = "idle"
        /\ Idle => Agree(status)
        /\ app = "port" => ~restored
        /\ app = "write" => status.stat = relay
        /\ drv.pc \in Callbacks => drv.stat = status /\ Agree(status)
        /\ drv.pc \in Writes => Agree(drv.stat)

\* What fire(true) kept, while the alarm was raised once.
AlarmInv == alarm = "once" => main_temp_status.stat = before

IInv == TypeOK /\ MatchInv /\ AlarmInv
=============================================================================
