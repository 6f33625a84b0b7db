---------------------------- MODULE UartWatchdog ----------------------------
(***************************************************************************)
(* The two watchdogs of class UART.  A device that called ping_start pings *)
(* the other one each PING_TIMEOUT; the other one, which called pong_start *)
(* (app_main does), answers, and counts an error each PONG_TIMEOUT that    *)
(* passes without a ping.  Both call back when they count more than        *)
(* ERRORS, and go on counting.                                             *)
(*                                                                         *)
(* Time passes in ticks; the 100 ms wait of a ping is shorter than one.  A *)
(* ping or a pong that is on its way when the wait ends may still arrive,  *)
(* and its semaphore is then there for the wait of the next ping.          *)
(***************************************************************************)
EXTENDS Naturals, Sequences

CONSTANTS
    PING_TIMEOUT,   \* period of the ping timer: 5 s in the code
    PONG_TIMEOUT,   \* period of the pong timer: 8 s in the code
    ERRORS,         \* errors that are not reported yet: 5 in the code
    CounterBound    \* the error counters are uint8_t: 256 in the code

ASSUME WatchdogAssumption ==
    /\ PING_TIMEOUT \in Nat \ {0} /\ PONG_TIMEOUT \in Nat \ {0}
    /\ ERRORS \in Nat /\ CounterBound \in Nat /\ ERRORS + 1 < CounterBound

VARIABLES
    ping_tim, pong_tim,                       \* ticks until the timers fire
    ping_error_counter, pong_error_counter,
    pinging,                                  \* the timer callback waits in ping
    ping_stat, uart_ping_sem,
    linkBusy,                                 \* busy of the pinging device
    wire,                                     \* pings and pongs on their way
    unheard,      \* ghost: pings in a row that waited the 100 ms for nothing
    silence,      \* ghost: ticks since a ping was read, up to MaxSilence
    latePong,     \* ghost: a pong outlived the wait for it
    pingAlarm, pongAlarm   \* ghost: what was true when the callbacks were called

watchVars == <<ping_tim, pong_tim, ping_error_counter, pong_error_counter, pinging, ping_stat,
               uart_ping_sem, linkBusy, wire, unheard, silence, latePong, pingAlarm, pongAlarm>>

MaxSilence == (ERRORS + 1) * PONG_TIMEOUT + 1

WatchdogTypeOK ==
    /\ ping_tim \in 0 .. PING_TIMEOUT /\ pong_tim \in 0 .. PONG_TIMEOUT
    /\ {ping_error_counter, pong_error_counter} \subseteq 0 .. CounterBound - 1
    /\ {pinging, ping_stat, linkBusy, latePong} \subseteq BOOLEAN
    /\ uart_ping_sem \in {0, 1}
    /\ wire \in Seq({"ping", "pong"})

WatchdogInit ==
    /\ ping_tim = PING_TIMEOUT /\ pong_tim = PONG_TIMEOUT
    /\ ping_error_counter = 0 /\ pong_error_counter = 0
    /\ pinging = FALSE /\ ping_stat = FALSE /\ uart_ping_sem = 0
    /\ linkBusy = FALSE
    /\ wire = <<>>
    /\ unheard = 0 /\ silence = 0 /\ latePong = FALSE
    /\ pingAlarm = "none" /\ pongAlarm = "none"

Capped(n, max) == IF n < max THEN n ELSE max

\* A timer that is due runs before time goes on.
Tick ==
    /\ ~pinging /\ ping_tim > 0 /\ pong_tim > 0
    /\ ping_tim' = ping_tim - 1 /\ pong_tim' = pong_tim - 1
    /\ silence' = Capped(silence + 1, MaxSilence)
    /\ UNCHANGED <<ping_error_counter, pong_error_counter, pinging, ping_stat, uart_ping_sem,
                   linkBusy, wire, unheard, latePong, pingAlarm, pongAlarm>>

BusyChanges ==
    /\ ~pinging
    /\ linkBusy' = ~linkBusy
    /\ UNCHANGED <<ping_tim, pong_tim, ping_error_counter, pong_error_counter, pinging,
                   ping_stat, uart_ping_sem, wire, unheard, silence, latePong, pingAlarm, pongAlarm>>

-----------------------------------------------------------------------------
(* ping_timer_callback and ping.                                           *)

\* The end of the callback: the counter, and beyond ERRORS the call back.
PingResult(ok, miss) ==
    /\ ping_error_counter' = IF ok THEN 0 ELSE (ping_error_counter + 1) % CounterBound
    /\ unheard' = IF miss THEN Capped(unheard + 1, ERRORS + 1) ELSE 0
    /\ pingAlarm' = IF ping_error_counter' <= ERRORS THEN pingAlarm
                    ELSE IF unheard' > ERRORS \/ latePong THEN "right" ELSE "wrong"

\* A device in the middle of Sender does not ping, and that counts as answered.
PingWhileBusy ==
    /\ ~pinging /\ ping_tim = 0 /\ linkBusy
    /\ ping_tim' = PING_TIMEOUT
    /\ PingResult(TRUE, FALSE)
    /\ UNCHANGED <<pong_tim, pong_error_counter, pinging, ping_stat, uart_ping_sem, linkBusy, wire,
                   silence, latePong, pongAlarm>>

PingSent ==
    /\ ~pinging /\ ping_tim = 0 /\ ~linkBusy
    /\ ping_tim' = PING_TIMEOUT
    /\ ping_stat' = FALSE
    /\ pinging' = TRUE
    /\ wire' \in {wire, Append(wire, "ping")} /\ Len(wire') <= 2
    /\ UNCHANGED <<pong_tim, ping_error_counter, pong_error_counter, uart_ping_sem, linkBusy,
                   unheard, silence, latePong, pingAlarm, pongAlarm>>

\* The driver takes less than the header: no answer is waited for.
PingCutShort ==
    /\ ~pinging /\ ping_tim = 0 /\ ~linkBusy
    /\ ping_tim' = PING_TIMEOUT
    /\ ping_stat' = FALSE
    /\ PingResult(FALSE, TRUE)
    /\ UNCHANGED <<pong_tim, pong_error_counter, pinging, uart_ping_sem, linkBusy, wire,
                   silence, latePong, pongAlarm>>

Taken_Stale == UNCHANGED uart_ping_sem
Taken == uart_ping_sem' = 0

\* The semaphore, or 100 ms; what counts is ping_stat.
PingWaited ==
    /\ pinging
    /\ pinging' = FALSE
    /\ Taken
    /\ PingResult(ping_stat, ~ping_stat /\ uart_ping_sem = 0)
    /\ latePong' = (latePong \/ wire # <<>>)
    /\ UNCHANGED <<ping_tim, pong_tim, pong_error_counter, ping_stat, linkBusy, wire, silence,
                   pongAlarm>>

-----------------------------------------------------------------------------
(* _event_task at both ends, and the pong timer.                           *)

Rearm_KeepsCount == pong_tim' = PONG_TIMEOUT /\ UNCHANGED pong_error_counter
Rearm == pong_tim' = PONG_TIMEOUT /\ pong_error_counter' = 0

\* Only a ping restarts the pong timer.  A packet of the same device restarts
\* the ping timer, which a device that answers pings does not have.
ReadPing ==
    /\ wire # <<>> /\ Head(wire) = "ping"
    /\ Rearm
    /\ silence' = 0
    /\ wire' \in {Tail(wire), Append(Tail(wire), "pong")}
    /\ UNCHANGED <<ping_tim, ping_error_counter, pinging, ping_stat, uart_ping_sem, linkBusy,
                   unheard, latePong, pingAlarm, pongAlarm>>

ReadPong ==
    /\ wire # <<>> /\ Head(wire) = "pong"
    /\ ping_stat' = TRUE /\ uart_ping_sem' = 1
    /\ wire' = Tail(wire)
    /\ UNCHANGED <<ping_tim, pong_tim, ping_error_counter, pong_error_counter, pinging,
                   linkBusy, unheard, silence, latePong, pingAlarm, pongAlarm>>

PongTimer ==
    /\ pong_tim = 0
    /\ pong_tim' = PONG_TIMEOUT
    /\ pong_error_counter' = (pong_error_counter + 1) % CounterBound
    /\ pongAlarm' = IF pong_error_counter' <= ERRORS THEN pongAlarm
                    ELSE IF silence >= (ERRORS + 1) * PONG_TIMEOUT THEN "right" ELSE "wrong"
    /\ UNCHANGED <<ping_tim, ping_error_counter, pinging, ping_stat, uart_ping_sem, linkBusy, wire,
                   unheard, silence, latePong, pingAlarm>>

WatchdogNext ==
    \/ Tick \/ BusyChanges \/ PingWhileBusy \/ PingSent \/ PingCutShort \/ PingWaited
    \/ ReadPing \/ ReadPong \/ PongTimer

WatchdogSpec == WatchdogInit /\ [][WatchdogNext]_watchVars

-----------------------------------------------------------------------------
(* Properties.                                                             *)

\* ping_reset_callback is called only after more than ERRORS pings in a row
\* waited in vain or were not written, except when a pong was once late: its
\* semaphore ends the wait of the next ping before the answer can come, whose
\* semaphore ends the one after it.  pong_reset_callback is called only after
\* ERRORS + 1 periods without a ping, and is called when they have passed.
AlarmsAreDue ==
    /\ pingAlarm # "wrong" /\ pongAlarm # "wrong"
    /\ silence = MaxSilence => pongAlarm = "right"
=============================================================================
