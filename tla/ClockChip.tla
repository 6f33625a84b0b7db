------------------------------ MODULE ClockChip ------------------------------
\* The real-time clock PCF8563 behind the I2C device layer (pcf8563.c, i2cdev.c).
\* Several tasks call the driver; each call takes the device's mutex, makes its
\* transfers one after the other and gives the mutex back, early when a transfer
\* fails. CONFIG_I2CDEV_NOLOCK is defined as the word y, which #if reads as 0, so
\* the mutexes are compiled in. A control register is changed by reading it and
\* writing it back, and the chip raises its flags meanwhile.
\* A register of bits is the set of the bits that are 1; months and years are the
\* bytes on the wire, the century being bit 7 of the month.
EXTENDS Integers, Sequences

CONSTANTS
    ClockTasks,    \* the tasks that use the clock
    Years,         \* tm_year of the times that are set, years since 1900
    MaxChip,       \* bound: how often the chip acts by itself
    MaxCalls       \* bound: how many calls are made

ASSUME ClockAssumption ==
    /\ Years \subseteq 100..299 /\ "free" \notin ClockTasks
    /\ {MaxChip, MaxCalls} \subseteq Nat

VARIABLES
    regs,     \* the chip's registers
    mutex,    \* the task holding the device's mutex, or Free
    call,     \* the call each task is in: transfers left, contents read, result
    asked,    \* the registers as the writes that reached the chip asked for
    date,     \* the year the clock should show, and whether its power was lost
    due,      \* the flags raised while nobody was changing their register
    chips,    \* how often the chip acted
    made      \* how many calls were made

clockVars == <<regs, mutex, call, asked, date, due, chips, made>>

Free == "free"
Flags == {"TF", "AF"}
Month == 12

dec2bcd(v) == ((v \div 10) * 16 + (v % 10)) % 256
bcd2dec(b) == (b \div 16) * 10 + (b % 16)

\* The bytes of a time: a year from 2100 on sets the century bit.
TimeBytes_NoCentury(year) ==
    [VL |-> FALSE, month |-> dec2bcd(Month), year |-> dec2bcd((year - 100) % 100)]
TimeBytes(year) ==
    LET ovf == year >= 200 IN
    [VL |-> FALSE,
     month |-> dec2bcd(Month) + (IF ovf THEN 128 ELSE 0),
     year |-> dec2bcd(year - (IF ovf THEN 200 ELSE 100))]

TimeOf(bytes) ==
    [valid |-> ~bytes.VL,
     month |-> bcd2dec(bytes.month % 32),
     year |-> bcd2dec(bytes.year) + (IF bytes.month >= 128 THEN 200 ELSE 100)]

\* The transfers a driver function is made of. An update reads the register, then
\* writes it with the bits of mask replaced.
Read(reg) == [kind |-> "read", reg |-> reg]
Write(reg, data) == [kind |-> "write", reg |-> reg, data |-> data]
Update(reg, mask, bits) ==
    <<Read(reg), [kind |-> "update", reg |-> reg, mask |-> mask, bits |-> bits]>>

If(b, s) == IF b THEN s ELSE {}

SetTime(year) ==
    <<[kind |-> "write", reg |-> "time", data |-> TimeBytes(year), year |-> year]>>
GetTime == <<Read("time")>>
SetTimerSettings_SameRegister(on, clock) ==
    Update("ctl2", {"TIE"}, If(on, {"TIE"})) \o Update("ctl2", {"TD0", "TD1"}, clock)
SetTimerSettings(on, clock) ==
    Update("ctl2", {"TIE"}, If(on, {"TIE"})) \o Update("tctl", {"TD0", "TD1"}, clock)
GetTimerSettings == <<Read("ctl2"), Read("tctl")>>
StartTimer == Update("tctl", {"TE"}, {"TE"})
StopTimer == Update("tctl", {"TE"}, {})
ClearTimerFlag == Update("ctl2", {"TF"}, {})
SetAlarm(on, matches) ==
    Update("ctl2", {"AIE"}, If(on, {"AIE"})) \o <<Write("alarm", matches)>>
GetAlarm == <<Read("ctl2"), Read("alarm")>>
ClearAlarmFlag == Update("ctl2", {"AF"}, {})
SetClkout(on) == <<Write("clkout", If(on, {"FE"}))>>
GetClkout == <<Read("clkout")>>
SetTimerValue(bits) == <<Write("timer", bits)>>
GetTimerValue == <<Read("timer")>>

Readings == {GetTime, GetTimerSettings, GetAlarm, GetClkout, GetTimerValue}

TimeSettings == {SetTime(y) : y \in Years}
TimerSettings == {SetTimerSettings(on, {}) : on \in BOOLEAN}
                 \union {SetTimerSettings(on, {"TD0", "TD1"}) : on \in BOOLEAN}
AlarmSettings == {SetAlarm(on, {}) : on \in BOOLEAN}
                 \union {SetAlarm(on, {"MIN", "DAY"}) : on \in BOOLEAN}
OtherCalls == {SetClkout(TRUE), SetTimerValue({"V0"}), StartTimer, StopTimer,
           ClearTimerFlag, ClearAlarmFlag}

Functions == Readings \union TimeSettings \union TimerSettings \union AlarmSettings
             \union OtherCalls

Transfers == UNION {{f[i] : i \in DOMAIN f} : f \in Functions}

Idle == [of |-> <<>>, left |-> <<>>, seen |-> <<>>, truth |-> <<>>, at |-> "idle"]

\* A chip that just got power: its time is not valid until it is set.
FirstRegs ==
    [ctl2 |-> {}, tctl |-> {}, alarm |-> {}, clkout |-> {}, timer |-> {},
     time |-> [TimeBytes(100) EXCEPT !.VL = TRUE]]

ClockInit ==
    /\ regs = FirstRegs /\ asked = FirstRegs
    /\ mutex = Free
    /\ call = [t \in ClockTasks |-> Idle]
    /\ date = [year |-> 100, lost |-> TRUE]
    /\ due = {}
    /\ chips = 0 /\ made = 0

-----------------------------------------------------------------------------
Call(t) ==
    /\ call[t].at = "idle"
    /\ made < MaxCalls
    /\ \E f \in Functions : call' = [call EXCEPT ![t] = [Idle EXCEPT !.of = f, !.left = f, !.at = "take"]]
    /\ made' = made + 1
    /\ UNCHANGED <<regs, mutex, asked, date, due, chips>>

\* I2C_DEV_TAKE_MUTEX; its timeout of 0xFFFFFF ms is never reached.
MutexFree_Compiled(t) == TRUE
MutexFree(t) == mutex = Free

TakeMutex(t) ==
    /\ call[t].at = "take"
    /\ MutexFree(t)
    /\ mutex' = t
    /\ call' = [call EXCEPT ![t].at = "transfer"]
    /\ UNCHANGED <<regs, asked, date, due, chips, made>>

GiveMutex(t) ==
    /\ call[t].at \in {"done", "failed"}
    /\ mutex' = Free
    /\ call' = [call EXCEPT ![t] = Idle]
    /\ UNCHANGED <<regs, asked, date, due, chips, made>>

\* The call's next transfer is over; after the last one the mutex is given back.
Advanced(c) == [c EXCEPT !.left = Tail(@), !.at = IF Len(c.left) = 1 THEN "done" ELSE @]

AlsoRead(c, reg) ==
    [Advanced(c) EXCEPT
        !.seen = [r \in DOMAIN c.seen \union {reg} |-> IF r = reg THEN regs[r] ELSE c.seen[r]],
        !.truth = date]

ReadTransfer(t) ==
    /\ call[t].at = "transfer" /\ Head(call[t].left).kind = "read"
    /\ call' = [call EXCEPT ![t] = AlsoRead(@, Head(@.left).reg)]
    /\ UNCHANGED <<regs, mutex, asked, date, due, chips, made>>

\* What a write leaves in the chip: a flag written 0 is cleared, one written 1 stays
\* as the chip has it.
Stored(reg, data) ==
    IF reg = "ctl2" THEN (data \ Flags) \union (data \intersect Flags \intersect regs.ctl2)
                    ELSE data

\* update_reg_nolock: the value written back from the value read before.
Replaced_Whole(seen, mask, bits) == bits
Replaced(seen, mask, bits) == (seen \ mask) \union bits

\* The write reaches the chip.
Lands(t) ==
    LET step == Head(call[t].left)
        data == IF step.kind = "write" THEN step.data
                ELSE Replaced(call[t].seen[step.reg], step.mask, step.bits)
    IN /\ regs' = [regs EXCEPT ![step.reg] = Stored(step.reg, data)]
       /\ asked' = [asked EXCEPT ![step.reg] =
              IF step.kind = "write" THEN data ELSE (@ \ step.mask) \union step.bits]
       /\ date' = IF step.reg = "time" THEN [year |-> step.year, lost |-> FALSE]
                  ELSE date
       /\ due' = IF step.kind = "update" THEN due \ step.mask ELSE due

WriteTransfer(t) ==
    /\ call[t].at = "transfer" /\ Head(call[t].left).kind # "read"
    /\ Lands(t)
    /\ call' = [call EXCEPT ![t] = Advanced(@)]
    /\ UNCHANGED <<mutex, chips, made>>

\* I2C_DEV_CHECK: a transfer reports an error, the rest of the call is left out. A
\* write that fails may have reached the chip.
TransferFails(t) ==
    /\ call[t].at = "transfer"
    /\ call' = [call EXCEPT ![t].at = "failed"]
    /\ \/ UNCHANGED <<regs, asked, date, due>>
       \/ Head(call[t].left).kind # "read" /\ Lands(t)
    /\ UNCHANGED <<mutex, chips, made>>

\* A task that has read ctl2 and will write it back.
Changing(t) ==
    /\ call[t].at = "transfer"
    /\ Head(call[t].left).kind = "update"
    /\ Head(call[t].left).reg = "ctl2"

\* The chip raises a flag.
FlagRaised(flag) ==
    /\ chips < MaxChip
    /\ flag \notin regs.ctl2
    /\ regs' = [regs EXCEPT !.ctl2 = @ \union {flag}]
    /\ due' = IF \E t \in ClockTasks : Changing(t) THEN due ELSE due \union {flag}
    /\ chips' = chips + 1
    /\ UNCHANGED <<mutex, call, asked, date, made>>

\* A year ends: 99 is followed by 00 and the century bit changes.
NextYear(bytes) ==
    LET year == bcd2dec(bytes.year) IN
    [bytes EXCEPT !.year = dec2bcd((year + 1) % 100),
                  !.month = IF year = 99 THEN (bytes.month + 128) % 256 ELSE bytes.month]

YearEnds ==
    /\ chips < MaxChip
    /\ date.year < 299
    /\ regs' = [regs EXCEPT !.time = NextYear(@)]
    /\ date' = [date EXCEPT !.year = @ + 1]
    /\ chips' = chips + 1
    /\ UNCHANGED <<mutex, call, asked, due, made>>

\* The supply drops too low for the clock: the chip sets VL.
PowerDrops ==
    /\ chips < MaxChip
    /\ regs' = [regs EXCEPT !.time.VL = TRUE]
    /\ date' = [date EXCEPT !.lost = TRUE]
    /\ chips' = chips + 1
    /\ UNCHANGED <<mutex, call, asked, due, made>>

ChipActs == (\E flag \in Flags : FlagRaised(flag)) \/ YearEnds \/ PowerDrops

ClockNext ==
    \/ ChipActs
    \/ \E t \in ClockTasks :
        \/ Call(t) \/ TakeMutex(t) \/ GiveMutex(t)
        \/ ReadTransfer(t) \/ WriteTransfer(t) \/ TransferFails(t)

ClockSpec == ClockInit /\ [][ClockNext]_clockVars

-----------------------------------------------------------------------------
Registers ==
    [ctl2 : SUBSET ({"TIE", "AIE"} \union Flags), tctl : SUBSET {"TE", "TD0", "TD1"},
     alarm : SUBSET {"MIN", "DAY"}, clkout : SUBSET {"FE"}, timer : SUBSET {"V0"},
     time : [VL : BOOLEAN, month : 0..255, year : 0..255]]

\* Every variable keeps its type.
ClockTypeOK ==
    /\ regs \in Registers /\ asked \in Registers
    /\ mutex \in ClockTasks \union {Free}
    /\ DOMAIN call = ClockTasks
    /\ \A t \in ClockTasks :
          /\ DOMAIN call[t] = DOMAIN Idle
          /\ call[t].at \in {"idle", "take", "transfer", "done", "failed"}
          /\ call[t].left \in Seq(Transfers)
    /\ date \in [year : 100..299, lost : BOOLEAN]
    /\ due \subseteq Flags
    /\ chips \in 0..MaxChip /\ made \in 0..MaxCalls

\* No call undoes another's setting: the interrupt enables, the timer's enable and
\* clock, the alarm and the rest are what the last write that was meant for them
\* asked, with any calls, failures and flags of the chip in between.
SettingsKept ==
    /\ regs.ctl2 \ Flags = asked.ctl2 \ Flags
    /\ regs.tctl = asked.tctl
    /\ \A reg \in {"alarm", "clkout", "timer"} : regs[reg] = asked[reg]

\* A flag that was raised while no call was between reading and writing its register
\* stays until the call that clears this very flag.
FlagsKept == due \subseteq regs.ctl2

\* The contents that a call has read are those asked for, all of one moment; the year
\* is the date's, and the time is valid only if the supply lasted since it was set.
ReportsTrue(me, settings) == \A reg \in DOMAIN me.seen :
    IF reg = "time"
    THEN TimeOf(me.seen.time) =
            [valid |-> ~me.truth.lost, month |-> Month, year |-> me.truth.year]
    ELSE me.seen[reg] \ Flags = settings[reg] \ Flags

\* What a call reports is the chip's: the settings are those asked for, both of one
\* moment, the year is the year the clock reached from the one set, over the change
\* of century, and the time is valid only if the supply lasted since it was set.
ReadsAreTrue == \A t \in ClockTasks :
    call[t].at = "done" /\ call[t].of \in Readings => ReportsTrue(call[t], asked)

-----------------------------------------------------------------------------
(* The inductive strengthening.                                            *)

MutexInv == \A t \in ClockTasks :
    mutex = t <=> call[t].at \in {"transfer", "done", "failed"}

\* The bytes of the time are those of the date, the century included.
TimeInv == regs.time = [TimeBytes(date.year) EXCEPT !.VL = date.lost]

\* A register that is about to be written back is as it was read, but for flags
\* raised since.
ReadBefore(me, contents, raised) ==
    /\ me.at = "transfer" /\ me.left[1].reg \in DOMAIN me.seen
    /\ me.left[1].reg = "tctl" => me.seen.tctl = contents.tctl
    /\ me.left[1].reg = "ctl2" =>
          /\ raised \subseteq me.seen.ctl2 /\ me.seen.ctl2 \subseteq contents.ctl2
          /\ me.seen.ctl2 \ Flags = contents.ctl2 \ Flags

Updating(me, contents, raised) == me.at \in {"take", "transfer"} =>
    /\ me.left # <<>>
    /\ \A i \in 1..Len(me.left) : me.left[i].kind = "update" =>
          IF i > 1 THEN me.left[i - 1] = Read(me.left[i].reg)
          ELSE ReadBefore(me, contents, raised)

UpdateInv == \A t \in ClockTasks : Updating(call[t], regs, due)

\* A call that reads reads only, and the time by itself.
Reading(me, settings) == me.of \in Readings =>
    /\ me.at \in {"take", "transfer"} =>
          /\ "time" \notin DOMAIN me.seen
          /\ \A i \in 1..Len(me.left) : /\ me.left[i].kind = "read"
                                        /\ me.left[i].reg = "time" => Len(me.left) = 1
    /\ me.at = "take" => DOMAIN me.seen = {}
    /\ me.at \in {"transfer", "done"} => ReportsTrue(me, settings)

ReadingInv == \A t \in ClockTasks : Reading(call[t], asked)

ClockInv == ClockTypeOK /\ MutexInv /\ TimeInv /\ UpdateInv /\ ReadingInv
            /\ SettingsKept /\ FlagsKept
=============================================================================
