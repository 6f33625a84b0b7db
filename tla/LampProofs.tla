---------------------------- MODULE LampProofs ------------------------------
(* Proofs about Lamp, for every set of lights and every number of minutes a  *)
(* command may ask for.                                                      *)
EXTENDS Lamp, TLAPS

-----------------------------------------------------------------------------
(* The records a status is.                                                 *)

LEMMA StatusMembers ==
  /\ Off \in Status /\ Off.stat = FALSE
  /\ \A s \in Status : s.stat \in BOOLEAN /\ s.counter \in 0 .. MaxCount
  /\ \A b \in BOOLEAN, c \in 0 .. MaxCount :
        [stat |-> b, counter |-> c] \in Status /\ [stat |-> b, counter |-> c].stat = b
  /\ \A s \in Status, b \in BOOLEAN :
        [s EXCEPT !.stat = b] \in Status /\ [s EXCEPT !.stat = b].stat = b
  /\ \A s \in Status :
        [s EXCEPT !.counter = 0] \in Status /\ [s EXCEPT !.counter = 0].stat = s.stat
<1>. QED
  BY LampAssumption DEF Status, Off

\* A minute less changes the counter and nothing else.
LEMMA CountedKeepsStat ==
  ASSUME NEW s \in Status
  PROVE  Counted(s) \in Status /\ Counted(s).stat = s.stat
<1>. QED
  BY LampAssumption DEF Counted, Status

\* What fire(true) keeps is the status with another counter.
LEMMA SavedKeepsStat ==
  ASSUME status \in Status
  PROVE  /\ SavedStatus \in Status /\ SavedStatus.stat = status.stat
         /\ FireStatus.counter = SavedStatus.counter
<1>. QED
  BY StatusMembers DEF SavedStatus, FireStatus

\* The flags and the kind of any device have their types.
LEMMA DeviceFlags ==
  ASSUME NEW d \in Devices
  PROVE  /\ d.fire \in BOOLEAN /\ d.welcome \in BOOLEAN /\ d.active \in BOOLEAN
         /\ d.kind \in {"lamp", "pwm", "rgb", "klima", "room"}
<1>. QED
  BY LampAssumption

\* Every place a callback can be in.
LEMMA Places ==
  /\ \A p \in {"down", "up", "puls", "sensor", "minute", "welcome"} :
        p \in Callbacks /\ p \notin Writes /\ p # "idle"
  /\ \A p \in {"button_write", "timer_write"} :
        p \in Writes /\ p \notin Callbacks /\ p # "idle"
  /\ "idle" \notin Callbacks /\ "idle" \notin Writes
<1>. QED
  BY DEF Callbacks, Writes

\* Which records are states of the driver task, and what the fields of one are.
LEMMA DrvMembers ==
  /\ \A p \in {"idle"} \union Callbacks \union Writes, s \in Status :
        [pc |-> p, stat |-> s] \in DrvStates
  /\ \A d \in DrvStates :
        d.stat \in Status /\ (d.pc = "idle" \/ d.pc \in Callbacks \/ d.pc \in Writes)
<1>. QED
  BY DEF DrvStates

\* set_status is called with a status, whoever calls it.
LEMMA WhoSets ==
  ASSUME TypeOK, (\E s \in Status : Command(s)) \/ FireOn \/ FireOff \/ (\E on \in BOOLEAN : Senaryo(on))
  PROVE  \E s \in Status, r \in BOOLEAN : SetStatus(s, r)
<1>0. status \in Status /\ main_temp_status \in Status /\ xtimer \in BOOLEAN /\ dev \in Devices
  BY DEF TypeOK, StatusTypes, FlagTypes, ControlTypes
<1>1. CASE \E s \in Status : Command(s)
  BY <1>0, <1>1 DEF Command
<1>2. CASE FireOn
  <2>1. FireStatus \in Status
    <3>1. (dev.fire /\ HasMinutes) \in BOOLEAN
      OBVIOUS
    <3>2. SavedStatus.counter \in 0 .. MaxCount
      BY Zenon, <1>0, SavedKeepsStat, StatusMembers
    <3>. QED
      BY Zenon, <3>1, <3>2, StatusMembers DEF FireStatus
  <2>. QED
    BY Zenon, <2>1, <1>2 DEF FireOn
<1>3. CASE FireOff
  BY Zenon, <1>0, <1>3 DEF FireOff
<1>4. CASE \E on \in BOOLEAN : Senaryo(on)
  <2>1. PICK on \in BOOLEAN : SetStatus([status EXCEPT !.stat = on], xtimer)
    BY Zenon, <1>4 DEF Senaryo
  <2>2. [status EXCEPT !.stat = on] \in Status
    BY Zenon, <1>0, StatusMembers
  <2>. QED
    BY Zenon, <1>0, <2>1, <2>2
<1>. QED
  BY <1>1, <1>2, <1>3, <1>4

\* Where set_status leaves the status.
LEMMA SetStatusSets ==
  ASSUME TypeOK, NEW s \in Status, NEW r \in BOOLEAN, SetStatus(s, r)
  PROVE  status' \in Status /\ (dev.active => status'.stat = s.stat)
<1>0. dev \in Devices
  BY DEF TypeOK, ControlTypes
<1> DEFINE b == s.stat /\ dev.active
           c == IF s.stat \/ ~HasMinutes THEN s.counter ELSE 0
<1>1. b \in BOOLEAN /\ (dev.active => b = s.stat)
  BY Zenon, <1>0, DeviceFlags, StatusMembers
<1>2. c \in 0 .. MaxCount
  BY StatusMembers, LampAssumption
<1>3. status' = [stat |-> b, counter |-> c]
  BY Zenon DEF SetStatus
<1> HIDE DEF b, c
<1>. QED
  BY Zenon, <1>1, <1>2, <1>3, StatusMembers

-----------------------------------------------------------------------------
(* Types.                                                                   *)

LEMMA InitType == Init => TypeOK
<1> SUFFICES ASSUME Init PROVE TypeOK
  OBVIOUS
<1>0. [stat |-> TRUE, counter |-> MaxCount] \in Status
  BY LampAssumption DEF Status
<1>1. StatusTypes
  BY Zenon, <1>0, StatusMembers, DrvMembers DEF Init, StatusTypes
<1>2. FlagTypes
  BY DEF Init, FlagTypes
<1>3. ControlTypes
  BY LampAssumption DEF Init, ControlTypes
<1>. QED
  BY <1>1, <1>2, <1>3 DEF TypeOK

\* Every step keeps the three copies of the status well typed.
LEMMA StatusType == TypeOK /\ [Next]_vars => StatusTypes'
<1> SUFFICES ASSUME TypeOK, [Next]_vars PROVE StatusTypes'
  OBVIOUS
<1>0. /\ status \in Status /\ main_temp_status \in Status /\ disk \in Status
      /\ drv \in DrvStates /\ drv.stat \in Status
      /\ dev \in Devices /\ relay \in BOOLEAN
  BY DrvMembers DEF TypeOK, StatusTypes, FlagTypes, ControlTypes
<1>1. \A p \in Callbacks : Begin(p) => drv' \in DrvStates
  BY Zenon, <1>0, DrvMembers DEF Begin
<1>2. End => drv' \in DrvStates
  BY StatusMembers, DrvMembers DEF End
<1>3. CASE \E e \in {"down", "up", "puls", "sensor"} : Press(e)
  BY Zenon, <1>0, <1>1, <1>3, Places DEF Press, StatusTypes
<1>4. CASE MinuteTick
  BY Zenon, <1>0, <1>1, <1>4, Places DEF MinuteTick, StatusTypes
<1>5. CASE WelcomeOver
  BY Zenon, <1>0, <1>1, <1>5, Places DEF WelcomeOver, StatusTypes
<1>6. CASE ButtonPort
  <2>1. relay' \in BOOLEAN
    BY Zenon, <1>0, <1>6 DEF ButtonPort, Level
  <2>. QED
    BY Zenon, <1>0, <1>6, <2>1, Places, StatusMembers, DrvMembers DEF ButtonPort, StatusTypes
<1>7. CASE ButtonWrite
  <2>1. status' \in Status
    BY Zenon, <1>0, <1>7, StatusMembers DEF ButtonWrite
  <2>. QED
    BY Zenon, <1>0, <1>2, <1>7, <2>1 DEF ButtonWrite, StatusTypes
<1>8. CASE MinutePort
  <2>1. drv' \in DrvStates
    <3> DEFINE s == Counted(drv.stat)
    <3>1. s \in Status
      BY <1>0, CountedKeepsStat
    <3> HIDE DEF s
    <3>2. /\ [pc |-> "timer_write", stat |-> s] \in DrvStates
          /\ [pc |-> "timer_write", stat |-> [s EXCEPT !.stat = FALSE]] \in DrvStates
      BY Zenon, <3>1, Places, StatusMembers, DrvMembers
    <3>3. \/ drv' = [pc |-> "timer_write", stat |-> s]
          \/ drv' = [pc |-> "timer_write", stat |-> [s EXCEPT !.stat = FALSE]]
          \/ End
      BY Zenon, <1>8 DEF MinutePort, s
    <3>. QED
      BY Zenon, <3>2, <3>3, <1>2
  <2>. QED
    BY Zenon, <1>0, <1>8, <2>1 DEF MinutePort, StatusTypes
<1>9. CASE WelcomePort
  BY Zenon, <1>0, <1>9, Places, StatusMembers, DrvMembers DEF WelcomePort, StatusTypes
<1>10. CASE TimerWrite
  BY Zenon, <1>0, <1>2, <1>10 DEF TimerWrite, StatusTypes
<1>11. CASE (\E s \in Status : Command(s)) \/ FireOn \/ FireOff \/ (\E on \in BOOLEAN : Senaryo(on))
  <2>1. PICK s \in Status, r \in BOOLEAN : SetStatus(s, r)
    BY <1>11, WhoSets
  <2>2. status' \in Status
    BY <2>1, SetStatusSets
  <2>3. disk' = disk /\ drv' = drv
    BY Zenon, <2>1 DEF SetStatus
  <2>4. main_temp_status' = main_temp_status \/ main_temp_status' = SavedStatus
    BY Zenon, <1>11 DEF Command, FireOn, FireOff, Senaryo
  <2>. QED
    BY Zenon, <1>0, <2>2, <2>3, <2>4, SavedKeepsStat DEF StatusTypes
<1>12. CASE \E on \in BOOLEAN : RoomEvent(on)
  BY Zenon, <1>0, <1>12 DEF RoomEvent, StatusTypes
<1>13. CASE AppPort
  BY Zenon, <1>0, <1>13 DEF AppPort, StatusTypes
<1>14. CASE AppWrite
  BY Zenon, <1>0, <1>14 DEF AppWrite, StatusTypes
<1>15. CASE Reboot
  <2>1. relay' \in BOOLEAN
    BY Zenon, <1>0, <1>15 DEF Reboot
  <2>2. status' \in Status
    BY Zenon, <1>0, <1>15, <2>1, StatusMembers DEF Reboot
  <2>3. [stat |-> TRUE, counter |-> MaxCount] \in Status
    BY LampAssumption DEF Status
  <2>4. drv' \in DrvStates
    BY Zenon, <1>15, StatusMembers, DrvMembers DEF Reboot
  <2>5. main_temp_status' \in Status
    BY Zenon, <1>15, <2>3, StatusMembers DEF Reboot
  <2>. QED
    BY Zenon, <1>0, <1>15, <2>2, <2>4, <2>5 DEF Reboot, StatusTypes
<1>16. CASE UNCHANGED vars
  BY Zenon, <1>0, <1>16 DEF vars, StatusTypes
<1>. QED
  BY Zenon, <1>3, <1>4, <1>5, <1>6, <1>7, <1>8, <1>9, <1>10, <1>11, <1>12, <1>13, <1>14, <1>15,
     <1>16 DEF Next, DriverStep, AppStep

\* The Boolean variables, by what can change them.
LEMMA FlagType == TypeOK /\ [Next]_vars => FlagTypes'
<1> SUFFICES ASSUME TypeOK, [Next]_vars PROVE FlagTypes'
  OBVIOUS
<1>0. /\ status \in Status /\ drv \in DrvStates /\ dev \in Devices /\ FlagTypes
      /\ status.stat \in BOOLEAN /\ relay \in BOOLEAN
      /\ dev.welcome \in BOOLEAN
  BY StatusMembers, DeviceFlags DEF TypeOK, StatusTypes, FlagTypes, ControlTypes
<1>1. CASE \E e \in {"down", "up", "puls", "sensor"} : Press(e)
  BY Zenon, <1>0, <1>1 DEF Press, Begin, FlagTypes
<1>2. CASE MinuteTick
  BY Zenon, <1>0, <1>2 DEF MinuteTick, Begin, FlagTypes
<1>3. CASE WelcomeOver
  BY Zenon, <1>0, <1>3 DEF WelcomeOver, Begin, FlagTypes
<1>4. CASE ButtonPort
  <2>1. relay' \in BOOLEAN
    BY Zenon, <1>0, <1>4 DEF ButtonPort, Level
  <2>2. qtimer' \in BOOLEAN
    BY Zenon, <1>4 DEF ButtonPort, WelcomeStarts
  <2>. QED
    BY Zenon, <1>0, <1>4, <2>1, <2>2 DEF ButtonPort, FlagTypes, ghosts
<1>5. CASE ButtonWrite \/ MinutePort \/ WelcomePort \/ TimerWrite
  BY ZenonT(40), <1>0, <1>5 DEF ButtonWrite, MinutePort, WelcomePort, TimerWrite, FlagTypes, ghosts
<1>6. CASE (\E s \in Status : Command(s)) \/ FireOn \/ FireOff \/ (\E on \in BOOLEAN : Senaryo(on))
  <2>1. PICK s \in Status, r \in BOOLEAN : SetStatus(s, r)
    BY <1>6, WhoSets
  <2>2. /\ UNCHANGED <<relay, qtimer, room_on>>
        /\ xtimer' \in BOOLEAN /\ timed' \in BOOLEAN /\ restored' \in BOOLEAN /\ mixed' \in BOOLEAN
    BY Zenon, <2>1 DEF SetStatus
  <2>3. before' = before \/ before' = status.stat
    BY Zenon, <1>6 DEF Command, FireOn, FireOff, Senaryo
  <2>. QED
    BY Zenon, <1>0, <2>2, <2>3 DEF FlagTypes
<1>7. CASE \E on \in BOOLEAN : RoomEvent(on)
  BY Zenon, <1>0, <1>7 DEF RoomEvent, FlagTypes, ghosts
<1>8. CASE AppPort \/ AppWrite
  BY Zenon, <1>0, <1>8 DEF AppPort, AppWrite, FlagTypes, ghosts
<1>9. CASE Reboot
  BY Zenon, <1>0, <1>9 DEF Reboot, FlagTypes
<1>10. CASE UNCHANGED vars
  BY Zenon, <1>0, <1>10 DEF vars, FlagTypes
<1>. QED
  BY Zenon, <1>1, <1>2, <1>3, <1>4, <1>5, <1>6, <1>7, <1>8, <1>9, <1>10 DEF Next, DriverStep, AppStep

\* Steps that take a command with a counter test the bound before they count it.
LEMMA TimedCallsType == TypeOK /\ [Next]_vars => timedCalls' \in 0 .. MaxTimed
<1> SUFFICES ASSUME TypeOK, [Next]_vars PROVE timedCalls' \in 0 .. MaxTimed
  OBVIOUS
<1>0. timedCalls \in 0 .. MaxTimed /\ MaxTimed \in Nat
  BY LampAssumption DEF TypeOK, ControlTypes
<1>1. \/ timedCalls' = timedCalls
      \/ timedCalls < MaxTimed /\ timedCalls' = timedCalls + 1
  <2>1. CASE \E s \in Status : Command(s)
    BY Zenon, <2>1 DEF Command
  <2>2. CASE FireOff
    <3>1. CASE main_temp_status.counter > 0
      BY Zenon, <2>2, <3>1 DEF FireOff
    <3>2. CASE ~ (main_temp_status.counter > 0)
      <4>1. timedCalls' = timedCalls + 0
        BY Zenon, <2>2, <3>2 DEF FireOff
      <4>. QED
        BY <1>0, <4>1
    <3>. QED
      BY <3>1, <3>2
  <2>3. CASE ~ (\E s \in Status : Command(s)) /\ ~ FireOff
    BY Zenon, <2>3 DEF Next, vars, ghosts, DriverStep, AppStep, Press, Begin, ButtonPort, ButtonWrite,
       MinuteTick, MinutePort, WelcomeOver, WelcomePort, TimerWrite, AppPort, AppWrite, FireOn,
       Senaryo, RoomEvent, Reboot
  <2>. QED
    BY <2>1, <2>2, <2>3
<1>. QED
  BY <1>0, <1>1

\* Only a light with a welcome timer starts it, and nothing else is a control
\* variable of the lights that a step could set to something new.
LEMMA ControlType == TypeOK /\ [Next]_vars => ControlTypes'
<1> SUFFICES ASSUME TypeOK, [Next]_vars PROVE ControlTypes'
  OBVIOUS
<1>0. ControlTypes
  BY DEF TypeOK
<1>1. UNCHANGED dev
  BY Zenon DEF Next, vars, ghosts, DriverStep, AppStep, Press, Begin, ButtonPort, ButtonWrite,
     MinuteTick, MinutePort, WelcomeOver, WelcomePort, TimerWrite, AppPort, AppWrite, Command,
     FireOn, FireOff, SetStatus, Senaryo, RoomEvent, Reboot
<1>2. qtimer' => dev.welcome
  <2>1. ButtonPort \/ qtimer' = qtimer \/ qtimer' = FALSE
    BY Zenon DEF Next, vars, ghosts, DriverStep, AppStep, Press, Begin, ButtonWrite,
       MinuteTick, MinutePort, WelcomeOver, WelcomePort, TimerWrite, AppPort, AppWrite, Command,
       FireOn, FireOff, SetStatus, Senaryo, RoomEvent, Reboot
  <2>. QED
    BY Zenon, <2>1, <1>0 DEF ButtonPort, WelcomeStarts, ControlTypes
<1>3. app' \in {"idle", "port", "write"}
  <2>1. app' = app \/ app' \in {"idle", "port", "write"}
    BY Zenon DEF Next, vars, ghosts, DriverStep, AppStep, Press, Begin, ButtonPort, ButtonWrite,
       MinuteTick, MinutePort, WelcomeOver, WelcomePort, TimerWrite, AppPort, AppWrite, Command,
       FireOn, FireOff, SetStatus, Senaryo, RoomEvent, Reboot
  <2>. QED
    BY Zenon, <1>0, <2>1 DEF ControlTypes
<1>4. alarm' \in {"no", "once", "again"}
  <2>1. alarm' = alarm \/ alarm' \in {"no", "once", "again"}
    BY Zenon DEF Next, vars, ghosts, DriverStep, AppStep, Press, Begin, ButtonPort, ButtonWrite,
       MinuteTick, MinutePort, WelcomeOver, WelcomePort, TimerWrite, AppPort, AppWrite, Command,
       FireOn, FireOff, SetStatus, Senaryo, RoomEvent, Reboot
  <2>. QED
    BY Zenon, <1>0, <2>1 DEF ControlTypes
<1>. QED
  BY Zenon, <1>0, <1>1, <1>2, <1>3, <1>4, TimedCallsType DEF ControlTypes

\* Every step keeps the whole type invariant.
LEMMA TypesKept == TypeOK /\ [Next]_vars => TypeOK'
<1>. QED
  BY StatusType, FlagType, ControlType DEF TypeOK

-----------------------------------------------------------------------------
(* What the alarm keeps.                                                    *)

LEMMA AlarmKept == TypeOK /\ AlarmInv /\ [Next]_vars => AlarmInv'
<1> SUFFICES ASSUME TypeOK, AlarmInv, [Next]_vars PROVE AlarmInv'
  OBVIOUS
<1>1. CASE FireOn
  <2>1. main_temp_status'.stat = status.stat
    BY Zenon, <1>1, SavedKeepsStat DEF FireOn, TypeOK, StatusTypes
  <2>. QED
    BY Zenon, <1>1, <2>1 DEF FireOn, AlarmInv
<1>2. CASE FireOff \/ Reboot
  <2>1. alarm' = "no"
    BY Zenon, <1>2 DEF FireOff, Reboot
  <2>. QED
    BY <2>1 DEF AlarmInv
<1>3. CASE ~ FireOn /\ ~ FireOff /\ ~ Reboot
  <2>1. UNCHANGED <<main_temp_status, alarm, before>>
    BY Zenon, <1>3 DEF Next, vars, ghosts, DriverStep, AppStep, Press, Begin, ButtonPort,
       ButtonWrite, MinuteTick, MinutePort, WelcomeOver, WelcomePort, TimerWrite, AppPort, AppWrite,
       Command, Senaryo, RoomEvent
  <2>. QED
    BY Zenon, <2>1 DEF AlarmInv
<1>. QED
  BY <1>1, <1>2, <1>3

-----------------------------------------------------------------------------
(* One task at the light at a time.                                         *)

\* A callback that finds nobody at the light begins with what belongs to it.
LEMMA BeginKeeps ==
  ASSUME TypeOK, MatchInv, NEW p \in Callbacks, Begin(p),
         UNCHANGED <<dev, status, relay, app, restored>>
  PROVE  MatchInv'
<1> SUFFICES ASSUME ~ mixed' PROVE MatchInv'
  BY Zenon DEF MatchInv
<1>1. ~ mixed /\ app = "idle" /\ drv.pc = "idle"
  BY Zenon DEF Begin
<1>2. Agree(status)
  BY Zenon, <1>1 DEF MatchInv, Idle
<1>3. drv'.pc = p /\ drv'.stat = status' /\ app' = "idle"
  <2>1. drv' = [pc |-> p, stat |-> status]
    BY Zenon DEF Begin
  <2>. QED
    BY <1>1, <2>1
<1>4. p \notin Writes /\ p # "idle"
  BY Zenon, Places DEF Callbacks
<1>5. Agree(status)'
  BY Zenon, <1>2 DEF Agree
<1>6. Agree(drv.stat)'
  BY Zenon, <1>3, <1>5 DEF Agree
<1>. QED
  BY Zenon, <1>3, <1>4, <1>5, <1>6 DEF MatchInv, Idle

\* A callback is alone as long as the tasks do not meet, and stays it while it
\* moves the port: what it is going to write agrees with the level.
LEMMA PortKeeps ==
  ASSUME TypeOK, MatchInv, drv.pc \in Callbacks, UNCHANGED <<app, mixed>>,
         drv'.pc \in Writes, Agree(drv.stat)' \/ mixed
  PROVE  MatchInv'
<1> SUFFICES ASSUME ~ mixed' PROVE MatchInv'
  BY Zenon DEF MatchInv
<1>1. app' = "idle"
  BY Zenon, Places DEF MatchInv
<1>2. drv'.pc \notin Callbacks /\ drv'.pc # "idle"
  BY Places DEF Writes
<1>. QED
  BY Zenon, <1>1, <1>2 DEF MatchInv, Idle

\* And when it is through, the status agrees.
LEMMA EndKeeps ==
  ASSUME TypeOK, MatchInv, drv.pc # "idle", UNCHANGED <<app, mixed>>,
         End, Agree(status)' \/ mixed
  PROVE  MatchInv'
<1> SUFFICES ASSUME ~ mixed' PROVE MatchInv'
  BY Zenon DEF MatchInv
<1>1. app' = "idle"
  BY Zenon DEF MatchInv
<1>2. drv'.pc = "idle"
  BY DEF End
<1>. QED
  BY Zenon, <1>1, <1>2, Places DEF MatchInv, Idle

\* The port the minute timer found, or did not find.
LEMMA MinuteKeeps == TypeOK /\ MatchInv /\ MinutePort => MatchInv'
<1> SUFFICES ASSUME TypeOK, MatchInv, MinutePort PROVE MatchInv'
  OBVIOUS
<1> DEFINE s == Counted(drv.stat)
<1>0. /\ drv.stat \in Status /\ drv.pc \in Callbacks /\ drv.pc # "idle"
      /\ UNCHANGED <<dev, status, app, restored, mixed>>
      /\ mixed \/ (drv.stat = status /\ Agree(drv.stat))
  <2>1. drv.pc \in Callbacks /\ drv.pc # "idle"
    BY Zenon, Places DEF MinutePort
  <2>. QED
    BY Zenon, <2>1, DrvMembers DEF TypeOK, StatusTypes, MatchInv, MinutePort, ghosts
<1>1. s \in Status /\ s.stat = drv.stat.stat
  BY Zenon, <1>0, CountedKeepsStat
<1> HIDE DEF s
<1>2. /\ "timer_write" \in Writes
      /\ [s EXCEPT !.stat = FALSE].stat = FALSE
  BY Zenon, <1>1, StatusMembers, Places
<1>3. CASE relay' = relay /\ drv' = [pc |-> "timer_write", stat |-> s]
  <2>1. drv'.pc = "timer_write" /\ drv'.stat = s
    BY <1>3
  <2>2. Agree(drv.stat)' \/ mixed
    BY Zenon, <1>0, <1>1, <1>3, <2>1 DEF Agree
  <2>. QED
    BY Zenon, <1>0, <1>2, <2>1, <2>2, PortKeeps
<1>4. CASE relay' = FALSE /\ drv' = [pc |-> "timer_write", stat |-> [s EXCEPT !.stat = FALSE]]
  <2>1. drv'.pc = "timer_write" /\ drv'.stat = [s EXCEPT !.stat = FALSE]
    BY <1>4
  <2>2. Agree(drv.stat)'
    BY Zenon, <1>2, <1>4, <2>1 DEF Agree
  <2>. QED
    BY Zenon, <1>0, <1>2, <2>1, <2>2, PortKeeps
<1>5. CASE relay' = relay /\ End
  <2>1. Agree(status)' \/ mixed
    BY Zenon, <1>0, <1>5 DEF Agree
  <2>. QED
    BY Zenon, <1>0, <1>5, <2>1, EndKeeps
<1>6. \/ relay' = relay /\ drv' = [pc |-> "timer_write", stat |-> s]
      \/ relay' = FALSE /\ drv' = [pc |-> "timer_write", stat |-> [s EXCEPT !.stat = FALSE]]
      \/ relay' = relay /\ End
  BY Zenon DEF MinutePort, s
<1>. QED
  BY <1>3, <1>4, <1>5, <1>6

\* set_status holds the light for the application.
LEMMA SetKeeps ==
  ASSUME TypeOK, MatchInv, NEW s \in Status, NEW r \in BOOLEAN, SetStatus(s, r)
  PROVE  MatchInv'
<1> SUFFICES ASSUME ~ mixed' PROVE MatchInv'
  BY Zenon DEF MatchInv
<1>1. drv'.pc = "idle" /\ app' = "port" /\ ~ restored'
  BY Zenon DEF SetStatus
<1>. QED
  BY Zenon, <1>1, Places DEF MatchInv, Idle

\* Every step keeps the status in step with the relay while the two tasks do not
\* meet.
LEMMA MatchKept == TypeOK /\ MatchInv /\ [Next]_vars => MatchInv'
<1> SUFFICES ASSUME TypeOK, MatchInv, [Next]_vars PROVE MatchInv'
  OBVIOUS
<1>0. /\ status \in Status /\ drv \in DrvStates /\ drv.stat \in Status
      /\ dev \in Devices /\ relay \in BOOLEAN /\ disk \in Status
  BY DrvMembers DEF TypeOK, StatusTypes, FlagTypes, ControlTypes
<1>1. CASE \E e \in {"down", "up", "puls", "sensor"} : Press(e)
  BY Zenon, <1>1, Places, BeginKeeps DEF Press
<1>2. CASE MinuteTick
  BY Zenon, <1>2, Places, BeginKeeps DEF MinuteTick
<1>3. CASE WelcomeOver
  <2>1. CASE TimersFindPort
    BY Zenon, <1>3, <2>1, Places, BeginKeeps DEF WelcomeOver
  <2>2. CASE ~ TimersFindPort
    BY Zenon, <1>3, <2>2 DEF WelcomeOver, MatchInv, Idle, Agree
  <2>. QED
    BY <2>1, <2>2
<1>4. CASE ButtonPort
  <2>1. relay' \in BOOLEAN
    BY Zenon, <1>0, <1>4 DEF ButtonPort, Level
  <2>2. drv'.pc = "button_write" /\ drv'.stat = [drv.stat EXCEPT !.stat = relay']
    <3>1. drv' = [pc |-> "button_write", stat |-> [drv.stat EXCEPT !.stat = relay']]
      BY Zenon, <1>4 DEF ButtonPort
    <3>. QED
      BY <3>1
  <2>3. drv'.stat.stat = relay'
    BY <1>0, <2>2 DEF Status
  <2>4. Agree(drv.stat)'
    BY Zenon, <2>3 DEF Agree
  <2>. QED
    BY Zenon, <1>4, <2>2, <2>4, Places, PortKeeps DEF ButtonPort, ghosts
<1>5. CASE ButtonWrite
  <2>1. drv.pc \in Writes /\ drv.pc # "idle"
    BY Zenon, <1>5, Places DEF ButtonWrite
  <2>2. status'.stat = drv.stat.stat
    BY Zenon, <1>0, <1>5, StatusMembers DEF ButtonWrite
  <2>3. Agree(status)' \/ mixed
    BY Zenon, <1>5, <2>1, <2>2 DEF ButtonWrite, MatchInv, Agree
  <2>. QED
    BY Zenon, <1>5, <2>1, <2>3, EndKeeps DEF ButtonWrite
<1>6. CASE MinutePort
  BY <1>6, MinuteKeeps
<1>7. CASE WelcomePort
  <2>1. drv'.pc = "timer_write" /\ drv'.stat = [drv.stat EXCEPT !.stat = FALSE]
    <3>1. drv' = [pc |-> "timer_write", stat |-> [drv.stat EXCEPT !.stat = FALSE]]
      BY Zenon, <1>7 DEF WelcomePort
    <3>. QED
      BY <3>1
  <2>2. drv'.stat.stat = FALSE
    BY <1>0, <2>1 DEF Status
  <2>3. Agree(drv.stat)'
    BY Zenon, <1>7, <2>2 DEF WelcomePort, Agree
  <2>. QED
    BY Zenon, <1>7, <2>1, <2>3, Places, PortKeeps DEF WelcomePort, ghosts
<1>8. CASE TimerWrite
  <2>1. drv.pc \in Writes /\ drv.pc # "idle"
    BY Zenon, <1>8, Places DEF TimerWrite
  <2>2. Agree(status)' \/ mixed
    BY Zenon, <1>8, <2>1 DEF TimerWrite, MatchInv, Agree, ghosts
  <2>. QED
    BY Zenon, <1>8, <2>1, <2>2, EndKeeps DEF TimerWrite, ghosts
<1>9. CASE (\E s \in Status : Command(s)) \/ FireOn \/ FireOff \/ (\E on \in BOOLEAN : Senaryo(on))
  BY Zenon, <1>9, WhoSets, SetKeeps
<1>10. CASE \E on \in BOOLEAN : RoomEvent(on)
  <2>1. UNCHANGED <<dev, status, relay, drv, app, restored, mixed>>
    BY Zenon, <1>10 DEF RoomEvent, ghosts
  <2>. QED
    BY Zenon, <2>1 DEF MatchInv, Idle, Agree
<1>11. CASE AppPort
  <2>1. mixed \/ drv.pc = "idle"
    BY Zenon, <1>11 DEF AppPort, MatchInv
  <2>. QED
    BY Zenon, <1>11, <2>1, Places DEF AppPort, MatchInv, Idle, ghosts
<1>12. CASE AppWrite
  <2>1. mixed \/ (drv.pc = "idle" /\ status.stat = relay)
    BY Zenon, <1>12 DEF AppWrite, MatchInv
  <2>. QED
    BY Zenon, <1>12, <2>1, Places DEF AppWrite, MatchInv, Idle, Agree, ghosts
<1>13. CASE Reboot
  <2>1. drv'.pc = "idle" /\ app' = "idle" /\ relay' \in BOOLEAN
    BY <1>0, <1>13 DEF Reboot
  <2>2. Agree(status)'
    <3>1. CASE InitFindsPort
      BY Zenon, <1>0, <1>13, <2>1, <3>1, StatusMembers DEF Reboot, Agree
    <3>2. CASE ~ InitFindsPort
      BY Zenon, <1>13, <3>2 DEF Reboot, Agree, InitFindsPort
    <3>. QED
      BY <3>1, <3>2
  <2>. QED
    BY Zenon, <2>1, <2>2, Places DEF MatchInv
<1>14. CASE UNCHANGED vars
  BY Zenon, <1>14 DEF vars, MatchInv, Idle, Agree
<1>. QED
  BY Zenon, <1>1, <1>2, <1>3, <1>4, <1>5, <1>6, <1>7, <1>8, <1>9, <1>10, <1>11, <1>12, <1>13,
     <1>14 DEF Next, DriverStep, AppStep

-----------------------------------------------------------------------------
(* The invariant is inductive, and what it says about the light.            *)

LEMMA InitInv == Init => IInv
<1> SUFFICES ASSUME Init PROVE IInv
  OBVIOUS
<1>1. MatchInv
  <2>1. /\ drv.pc = "idle" /\ app = "idle"
        /\ status.stat = relay
    BY DEF Init, Off
  <2>. QED
    BY Zenon, <2>1, Places DEF MatchInv, Agree
<1>2. AlarmInv
  BY DEF Init, AlarmInv
<1>. QED
  BY <1>1, <1>2, InitType DEF IInv

\* The inductive invariant of the lamp survives every step.
LEMMA StepInv == IInv /\ [Next]_vars => IInv'
<1>. QED
  BY TypesKept, MatchKept, AlarmKept DEF IInv

\* IInv is an inductive invariant of the lights.
THEOREM Inductive == Spec => []IInv
<1>. QED
  BY InitInv, StepInv, PTL DEF Spec

\* Every variable stays within its type, and a welcome timer only runs on a
\* light that has one (lamp.cpp:199-255).
THEOREM TypesHold == Spec => []TypeOK
<1>1. IInv => TypeOK
  BY DEF IInv
<1>. QED
  BY <1>1, Inductive, PTL

\* With nobody at the light, the status that is reported and stored is the
\* level of the output, unless the two tasks met at the light or the class does
\* not read its output when it starts (lamp.cpp:17-55, 67-84, 203-239).
THEOREM StatusIsTheLevel == Spec => []StatusMatchesRelay
<1>1. IInv => StatusMatchesRelay
  BY Zenon DEF IInv, MatchInv, Agree, StatusMatchesRelay
<1>. QED
  BY <1>1, Inductive, PTL

\* What fire(false) does to the status when the alarm was raised once.
LEMMA RestoreStep ==
  ASSUME TypeOK, AlarmInv, FireOff, alarm = "once", dev.active
  PROVE  status'.stat = before
<1>1. main_temp_status \in Status /\ FALSE \in BOOLEAN
  BY DEF TypeOK, StatusTypes
<1>2. SetStatus(main_temp_status, FALSE)
  BY Zenon DEF FireOff
<1>3. status'.stat = main_temp_status.stat
  BY Zenon, <1>1, <1>2, SetStatusSets
<1>. QED
  BY <1>3 DEF AlarmInv

\* The end of an alarm brings back the state before it, unless the alarm was
\* raised again (lamp.cpp:148-162).
THEOREM AlarmsEndAsTheyBegan == Spec => FireRestores
<1>1. ASSUME IInv, [Next]_vars
      PROVE  [ FireOff => \/ alarm = "again" \/ alarm = "no"
                          \/ ~ dev.active \/ mixed'
                          \/ status'.stat = before ]_vars
  <2>1. alarm \in {"no", "once", "again"}
    BY <1>1 DEF IInv, TypeOK, ControlTypes
  <2>. QED
    BY Zenon, <1>1, <2>1, RestoreStep DEF IInv
<1>. QED
  BY <1>1, Inductive, PTL DEF Spec, FireRestores
=============================================================================
