---------------------------- MODULE FieldProofs -----------------------------
(***************************************************************************)
(* Theorems about the links to the devices of the house and upwards.  Each *)
(* part has an inductive invariant of its own, the one of the bus being    *)
(* that of BusProofs; in the composition a step of one part leaves the     *)
(* variables of the others alone, so that the invariants hold together.    *)
(***************************************************************************)
EXTENDS MCField, BusProofs, FiniteSetTheorems, WellFoundedInduction

-----------------------------------------------------------------------------
(* The watchdog: what the counters are worth.                               *)

\* While every pong came in time, nothing is on the wire between two pings and
\* the semaphore means that the ping in progress was answered.
PongsInTime ==
    ~latePong =>
        /\ ~pinging => wire = <<>> /\ uart_ping_sem = 0
        /\ uart_ping_sem = 1 => ping_stat

\* The error counter has no more than the pings that waited in vain; once those
\* are beyond ERRORS it may also have wrapped.
MissesCounted ==
    /\ unheard \in 0 .. ERRORS + 1
    /\ ~latePong => ping_error_counter <= unheard \/ unheard = ERRORS + 1
    /\ pingAlarm \in {"none", "right"}

\* The silence is the periods counted and what has passed of this one, until
\* there are more of them than ERRORS; from then on the alarm was given.
SilenceCounted ==
    /\ silence \in 0 .. MaxSilence
    /\ \/ /\ silence = pong_error_counter * PONG_TIMEOUT + (PONG_TIMEOUT - pong_tim)
          /\ pong_error_counter <= ERRORS + 1
          /\ pong_error_counter = ERRORS + 1 => pongAlarm = "right"
       \/ silence = MaxSilence /\ pongAlarm = "right"
    /\ pongAlarm \in {"none", "right"}

WatchdogInv == WatchdogTypeOK /\ PongsInTime /\ MissesCounted /\ SilenceCounted

-----------------------------------------------------------------------------
(* The uplink: what is still in the queue, and what it will do.             *)

LinkSignals == {Signal("GOT_IP"), Signal("ETH_DOWN")}
StaSignals  == {Signal("STA_START"), Signal("STA_DISCONNECTED")}
EthLeds     == {Led("eth", 0), Led("eth", 1)}
MqttLeds    == {Led("mqtt", 0), Led("mqtt", 1)}
Resets      == {Signal("SYSTEM_RESET")}
Datas       == {MQTT_DATA(n) : n \in Nat}
LoopEvents  == LinkSignals \union StaSignals \union EthLeds \union MqttLeds \union Resets \union Datas

PastBits == {"ledset", "ledpost", "mqtt", "mstart", "mwait", "mwake", "run"}

UplinkTypes ==
    /\ UplinkTypeOK
    /\ loopq \in Seq(LoopEvents)
    /\ hand = NoHand \/ hand \in [busy : {TRUE}, state : {0, 1}]
    /\ address \in {"none", "down", "ip"} /\ losses \in Nat
    /\ clients \in Nat /\ mqbuf \in Nat /\ errors \in Nat /\ linked \in Nat
    /\ {crossedLed, eaten, late, misread} \subseteq BOOLEAN

\* Which network there is, and what it posts.
OneNetwork ==
    /\ wan = "eth" => ~Has(loopq, StaSignals)
    /\ wan = "wifi" => ~Has(loopq, {Signal("ETH_DOWN")}) /\ ~Has(loopq, EthLeds) /\ ~hand.busy
    /\ boot \in {"ledset", "ledpost"} => wan = "eth"
    /\ boot = "start" => loopq = <<>> /\ link = "off" /\ address = "none"

\* Nothing goes on to the services before the link had shown something.
AddressFirst ==
    address = "none" =>
        ~Has(loopq, LinkSignals) /\ ~hand.busy /\ bits = {} /\ boot \notin PastBits

\* The last word about the Ethernet, in the queue, in the handler, in a lamp
\* event or in the lamp, is the state of the link.
Means(ip) == IF ip THEN Signal("GOT_IP") ELSE Signal("ETH_DOWN")
Shows(ip) == IF ip THEN 0 ELSE 1

LastWord ==
    wan = "eth" /\ boot # "queuefull" /\ address # "none" =>
        /\ LastIn(loopq, LinkSignals, {Means(link = "ip")})
        /\ ~Has(loopq, LinkSignals) =>
              /\ hand.busy => hand.state = Shows(link = "ip")
              /\ ~hand.busy /\ ~crossedLed =>
                    /\ LastIn(loopq, EthLeds, {Led("eth", Shows(link = "ip"))})
                    /\ ~Has(loopq, EthLeds) => leds["eth"] = Shows(link = "ip")

\* The Wi-Fi is tried again once for each disconnect, and none is in the queue
\* together with another or with the start.
GotIp == {Signal("GOT_IP")}
Lost  == {Signal("STA_DISCONNECTED")}

Retries ==
    /\ AtMostOne(loopq, StaSignals)
    /\ Has(loopq, StaSignals) => link = "off"
    /\ Before(loopq, GotIp, StaSignals)
    /\ Has(loopq, Lost) => losses >= 1
    /\ ~Has(loopq, GotIp) =>
          losses >= retry /\ (Has(loopq, Lost) => losses >= retry + 1)
    /\ boot = "noretry" => losses > WIFI_MAXIMUM_RETRY
    /\ wan = "eth" => retry = 0

\* The events the client's task has, and how far the handler is.
ClientState ==
    /\ mqev \in {<<>>, <<"CONNECTED">>, <<"DISCONNECTED">>, <<"ERROR", "DISCONNECTED">>, <<"DATA">>}
    /\ mqev \in {<<"CONNECTED">>, <<"DATA">>} => broker = "connected"
    /\ mqev \in {<<"DISCONNECTED">>, <<"ERROR", "DISCONNECTED">>} => broker = "trying"
    /\ mqpc = "led" => mqev \notin {<<>>, <<"DATA">>}
    /\ mqpc = "delay" => mqev = <<"DATA">>
    /\ Alive => (Initialised <=> broker # "none")
    /\ Alive /\ boot \notin {"mwait", "mwake", "run"} => ~eaten
    /\ broker = "none" => clients = 0 /\ mqev = <<>> /\ ~eaten

\* After the bits are set they tell of the broker.
BitsTell ==
    Initialised /\ (mqpc = "bits" => mqev \in {<<>>, <<"DATA">>}) =>
        /\ broker = "connected" => "F" \notin mbits
        /\ "F" \notin mbits => broker = "connected" \/ clients = 0 \/ eaten

\* A command in the queue is the one in the buffer, whose handler still waits.
DataKept ==
    ~late =>
        /\ ~misread
        /\ mqpc # "delay" => ~Has(loopq, Datas)
        /\ LastIn(loopq, Datas, {MQTT_DATA(mqbuf)}) /\ AtMostOne(loopq, Datas)

UplinkInv ==
    /\ UplinkTypes /\ OneNetwork /\ AddressFirst /\ LastWord /\ Retries
    /\ ClientState /\ BitsTell /\ DataKept

-----------------------------------------------------------------------------
(* Proofs about the watchdog.                                               *)

\* The initial state.
LEMMA WatchdogInvInit == WatchdogInit => WatchdogInv
<1> SUFFICES ASSUME WatchdogInit PROVE WatchdogInv
  OBVIOUS
<1> USE WatchdogAssumption DEF WatchdogInit
<1>1. WatchdogTypeOK
  <2>1. {pinging, ping_stat, linkBusy, latePong} \subseteq BOOLEAN
    BY Zenon
  <2>2. wire \in Seq({"ping", "pong"})
    OBVIOUS
  <2>3. {ping_error_counter, pong_error_counter} \subseteq 0 .. CounterBound - 1
    OBVIOUS
  <2>4. ping_tim \in 0 .. PING_TIMEOUT /\ pong_tim \in 0 .. PONG_TIMEOUT /\ uart_ping_sem \in {0, 1}
    OBVIOUS
  <2> QED
    BY <2>1, <2>2, <2>3, <2>4, Zenon DEF WatchdogTypeOK
<1>2. PongsInTime
  BY DEF PongsInTime
<1>3. MissesCounted
  BY DEF MissesCounted
<1>4. MaxSilence \in Nat
  BY DEF MaxSilence
<1>5. 0 * PONG_TIMEOUT + (PONG_TIMEOUT - PONG_TIMEOUT) = 0
  OBVIOUS
<1>6. SilenceCounted
  BY <1>4, <1>5 DEF SilenceCounted
<1> QED
  BY <1>1, <1>2, <1>3, <1>6 DEF WatchdogInv

\* What a step may do to the wire: take the first frame, put one at the end.
LEMMA WireTypes ==
  ASSUME NEW w \in Seq({"ping", "pong"}), NEW f \in {"ping", "pong"}
  PROVE  /\ Append(w, f) \in Seq({"ping", "pong"})
         /\ w # <<>> => Tail(w) \in Seq({"ping", "pong"}) /\ Append(Tail(w), f) \in Seq({"ping", "pong"})
OBVIOUS

\* The counters count modulo CounterBound.
LEMMA CountWraps ==
  ASSUME NEW c \in 0 .. CounterBound - 1
  PROVE  /\ (c + 1) % CounterBound \in 0 .. CounterBound - 1
         /\ c + 1 < CounterBound => (c + 1) % CounterBound = c + 1
         /\ (c + 1) % CounterBound \in {0, c + 1}
BY WatchdogAssumption, SMTT(30)

\* What PingResult does to the counters.
LEMMA PingCounts ==
  ASSUME WatchdogInv, NEW ok \in BOOLEAN, NEW miss \in BOOLEAN, PingResult(ok, miss),
         ok \/ miss \/ latePong
  PROVE  /\ ping_error_counter' \in 0 .. CounterBound - 1
         /\ unheard' \in 0 .. ERRORS + 1
         /\ ~latePong => ping_error_counter' <= unheard' \/ unheard' = ERRORS + 1
         /\ pingAlarm' \in {"none", "right"}
<1> USE WatchdogAssumption
<1>1. ping_error_counter \in 0 .. CounterBound - 1 /\ latePong \in BOOLEAN
  BY DEF WatchdogInv, WatchdogTypeOK
<1>2. /\ (ping_error_counter + 1) % CounterBound \in 0 .. CounterBound - 1
      /\ (ping_error_counter + 1) % CounterBound \in {0, ping_error_counter + 1}
  BY <1>1, CountWraps
<1> DEFINE n == (ping_error_counter + 1) % CounterBound
<1>3. ping_error_counter' = IF ok THEN 0 ELSE n
  BY DEF PingResult
<1>4. ping_error_counter' \in 0 .. CounterBound - 1
  BY <1>2, <1>3
<1>5. unheard \in 0 .. ERRORS + 1 /\ pingAlarm \in {"none", "right"}
  BY DEF WatchdogInv, MissesCounted
<1>6. unheard' \in 0 .. ERRORS + 1
  BY <1>5 DEF PingResult, Capped
<1>7. ASSUME ~latePong
      PROVE  ping_error_counter' <= unheard' \/ unheard' = ERRORS + 1
  <2>1. CASE ok
    BY <1>3, <1>6, <2>1
  <2>2. CASE ~ok
    <3>1. unheard' = IF unheard + 1 < ERRORS + 1 THEN unheard + 1 ELSE ERRORS + 1
      BY <1>7, <2>2 DEF PingResult, Capped
    <3>2. ping_error_counter <= unheard \/ unheard = ERRORS + 1
      BY <1>7 DEF WatchdogInv, MissesCounted
    <3>3. ping_error_counter' \in {0, ping_error_counter + 1}
      BY <1>2, <1>3, <2>2
    <3> QED
      BY <1>1, <1>5, <1>6, <3>1, <3>2, <3>3
  <2> QED
    BY <2>1, <2>2
<1>8. pingAlarm' \in {"none", "right"}
  BY <1>4, <1>5, <1>6, <1>7 DEF PingResult
<1> QED
  BY <1>4, <1>6, <1>7, <1>8

\* Every step keeps the types.
LEMMA WatchdogTypesStep == WatchdogInv /\ WatchdogNext => WatchdogTypeOK'
<1> SUFFICES ASSUME WatchdogInv, WatchdogNext PROVE WatchdogTypeOK'
  OBVIOUS
<1> USE WatchdogAssumption
<1>t. WatchdogTypeOK
  BY DEF WatchdogInv
<1>c. /\ (pong_error_counter + 1) % CounterBound \in 0 .. CounterBound - 1
  BY <1>t, CountWraps DEF WatchdogTypeOK
<1>1. CASE Tick
  BY <1>1, <1>t DEF Tick, WatchdogTypeOK
<1>2. CASE BusyChanges
  BY <1>2, <1>t DEF BusyChanges, WatchdogTypeOK
<1>3. CASE PingWhileBusy
  <2>1. ping_error_counter' \in 0 .. CounterBound - 1
    BY <1>3, PingCounts DEF PingWhileBusy
  <2> QED
    BY <1>3, <1>t, <2>1 DEF PingWhileBusy, WatchdogTypeOK
<1>4. CASE PingSent
  <2>1. wire' \in Seq({"ping", "pong"})
    BY <1>4, <1>t, WireTypes DEF PingSent, WatchdogTypeOK
  <2>2. {pinging, ping_stat, linkBusy, latePong}' \subseteq BOOLEAN
    BY <1>4, <1>t, Zenon DEF PingSent, WatchdogTypeOK
  <2>3. ping_tim' \in 0 .. PING_TIMEOUT
    BY <1>4 DEF PingSent
  <2> QED
    BY <1>4, <1>t, <2>1, <2>2, <2>3, Zenon DEF PingSent, WatchdogTypeOK
<1>5. CASE PingCutShort
  <2>1. ping_error_counter' \in 0 .. CounterBound - 1
    BY <1>5, PingCounts DEF PingCutShort
  <2>2. {pinging, ping_stat, linkBusy, latePong}' \subseteq BOOLEAN
    BY <1>5, <1>t, Zenon DEF PingCutShort, WatchdogTypeOK
  <2>3. ping_tim' \in 0 .. PING_TIMEOUT /\ pong_error_counter' = pong_error_counter
    BY <1>5 DEF PingCutShort
  <2>4. pong_error_counter \in 0 .. CounterBound - 1
    BY <1>t DEF WatchdogTypeOK
  <2>5. {ping_error_counter, pong_error_counter}' \subseteq 0 .. CounterBound - 1
    BY <2>1, <2>3, <2>4, Zenon
  <2> QED
    BY <1>5, <1>t, <2>2, <2>3, <2>5, Zenon DEF PingCutShort, WatchdogTypeOK
<1>6. CASE PingWaited
  <2>1. ping_stat \in BOOLEAN /\ uart_ping_sem \in {0, 1}
    BY <1>t DEF WatchdogTypeOK
  <2>2. ping_stat \/ (~ping_stat /\ uart_ping_sem = 0) \/ latePong
    BY <2>1, <1>6 DEF WatchdogInv, PongsInTime
  <2>3. (~ping_stat /\ uart_ping_sem = 0) \in BOOLEAN
    OBVIOUS
  <2>4. ping_error_counter' \in 0 .. CounterBound - 1
    BY <1>6, <2>1, <2>2, <2>3, PingCounts, Zenon DEF PingWaited
  <2>5. latePong' \in BOOLEAN
    BY <1>6, <1>t DEF PingWaited, WatchdogTypeOK
  <2> QED
    BY <1>6, <1>t, <2>4, <2>5 DEF PingWaited, WatchdogTypeOK, Taken
<1>7. CASE ReadPing
  <2>1. wire' \in Seq({"ping", "pong"})
    BY <1>7, <1>t, WireTypes DEF ReadPing, WatchdogTypeOK
  <2> QED
    BY <1>7, <1>t, <2>1 DEF ReadPing, WatchdogTypeOK, Rearm
<1>8. CASE ReadPong
  <2>1. wire' \in Seq({"ping", "pong"})
    BY <1>8, <1>t, WireTypes DEF ReadPong, WatchdogTypeOK
  <2> QED
    BY <1>8, <1>t, <2>1 DEF ReadPong, WatchdogTypeOK
<1>9. CASE PongTimer
  BY <1>9, <1>t, <1>c DEF PongTimer, WatchdogTypeOK
<1> QED
  BY <1>1, <1>2, <1>3, <1>4, <1>5, <1>6, <1>7, <1>8, <1>9 DEF WatchdogNext

\* Every step keeps PongsInTime.
LEMMA PongsInTimeStep == WatchdogInv /\ WatchdogNext => PongsInTime'
<1> SUFFICES ASSUME WatchdogInv, WatchdogNext PROVE PongsInTime'
  OBVIOUS
<1>t. PongsInTime /\ pinging \in BOOLEAN /\ ping_stat \in BOOLEAN /\ latePong \in BOOLEAN
  BY DEF WatchdogInv, WatchdogTypeOK
<1>1. CASE Tick \/ BusyChanges \/ PingWhileBusy \/ PongTimer
  BY <1>1, <1>t DEF Tick, BusyChanges, PingWhileBusy, PongTimer, PongsInTime
<1>2. CASE PingSent
  BY <1>2, <1>t DEF PingSent, PongsInTime
<1>3. CASE PingCutShort
  BY <1>3, <1>t DEF PingCutShort, PongsInTime
<1>4. CASE PingWaited
  <2>1. /\ uart_ping_sem' = 0 /\ wire' = wire
        /\ ~latePong' => wire = <<>>
    BY <1>4, Zenon DEF PingWaited, Taken
  <2> QED
    BY <2>1 DEF PongsInTime
<1>5. CASE ReadPing
  BY <1>5, <1>t DEF ReadPing, PongsInTime
<1>6. CASE ReadPong
  BY <1>6, <1>t DEF ReadPong, PongsInTime
<1> QED
  BY <1>1, <1>2, <1>3, <1>4, <1>5, <1>6 DEF WatchdogNext

\* Every step keeps MissesCounted.
LEMMA MissesCountedStep == WatchdogInv /\ WatchdogNext => MissesCounted'
<1> SUFFICES ASSUME WatchdogInv, WatchdogNext PROVE MissesCounted'
  OBVIOUS
<1>t. MissesCounted /\ ping_stat \in BOOLEAN /\ latePong \in BOOLEAN /\ uart_ping_sem \in {0, 1}
  BY DEF WatchdogInv, WatchdogTypeOK
<1>1. CASE Tick \/ BusyChanges \/ PongTimer \/ PingSent \/ ReadPing \/ ReadPong
  BY <1>1, <1>t, Zenon DEF Tick, BusyChanges, PongTimer, PingSent, ReadPing, ReadPong, MissesCounted
<1>2. CASE PingWhileBusy
  <2>1. PingResult(TRUE, FALSE) /\ latePong' = latePong
    BY <1>2 DEF PingWhileBusy
  <2> QED
    BY <2>1, PingCounts DEF MissesCounted
<1>3. CASE PingCutShort
  <2>1. PingResult(FALSE, TRUE) /\ latePong' = latePong
    BY <1>3 DEF PingCutShort
  <2> QED
    BY <2>1, PingCounts DEF MissesCounted
<1>4. CASE PingWaited
  <2>1. PingResult(ping_stat, ~ping_stat /\ uart_ping_sem = 0) /\ (~latePong' => ~latePong)
    BY <1>4, Zenon DEF PingWaited
  <2>2. ping_stat \/ (~ping_stat /\ uart_ping_sem = 0) \/ latePong
    BY <1>t, <1>4 DEF WatchdogInv, PongsInTime
  <2>3. (~ping_stat /\ uart_ping_sem = 0) \in BOOLEAN
    OBVIOUS
  <2>4. /\ unheard' \in 0 .. ERRORS + 1
        /\ ~latePong => ping_error_counter' <= unheard' \/ unheard' = ERRORS + 1
        /\ pingAlarm' \in {"none", "right"}
    BY <1>t, <2>1, <2>2, <2>3, PingCounts, Zenon
  <2> QED
    BY <2>1, <2>4, Zenon DEF MissesCounted
<1> QED
  BY <1>1, <1>2, <1>3, <1>4 DEF WatchdogNext

\* The product c * p by its steps.
LEMMA Periods ==
  ASSUME NEW p \in Nat \ {0}, NEW c \in Nat, NEW e \in Nat
  PROVE  /\ c * p \in Nat
         /\ (c + 1) * p = c * p + p
         /\ c <= e => c * p <= e * p
<1>1. c * p \in Nat /\ (c + 1) * p = c * p + p
  BY SMTT(30)
<1>2. ASSUME c <= e PROVE c * p <= e * p
  <2>1. PICK d \in Nat : e = c + d
    BY <1>2
  <2>2. e * p = c * p + d * p /\ d * p \in Nat
    BY <2>1, SMTT(30)
  <2> QED
    BY <1>1, <2>2
<1> QED
  BY <1>1, <1>2

\* Every step keeps SilenceCounted.
LEMMA SilenceCountedStep == WatchdogInv /\ WatchdogNext => SilenceCounted'
<1> SUFFICES ASSUME WatchdogInv, WatchdogNext PROVE SilenceCounted'
  OBVIOUS
<1> USE WatchdogAssumption
<1> DEFINE c == pong_error_counter
           E == (ERRORS + 1) * PONG_TIMEOUT
<1>t. /\ SilenceCounted /\ c \in 0 .. CounterBound - 1 /\ pong_tim \in 0 .. PONG_TIMEOUT
      /\ MaxSilence = E + 1
  BY DEF WatchdogInv, WatchdogTypeOK, MaxSilence
<1>m. /\ c * PONG_TIMEOUT \in Nat /\ E \in Nat
      /\ (c + 1) * PONG_TIMEOUT = c * PONG_TIMEOUT + PONG_TIMEOUT
      /\ c <= ERRORS => (c + 1) * PONG_TIMEOUT <= E
  <2>1. c + 1 \in Nat /\ ERRORS + 1 \in Nat /\ c \in Nat
    BY <1>t
  <2> QED
    BY <2>1, Periods
<1> HIDE DEF E
<1>1. CASE Tick
  <2>1. /\ pong_tim > 0 /\ pong_tim' = pong_tim - 1 /\ c' = c /\ pongAlarm' = pongAlarm
        /\ silence' = IF silence + 1 < MaxSilence THEN silence + 1 ELSE MaxSilence
    BY <1>1 DEF Tick, Capped
  <2>2. CASE silence = MaxSilence /\ pongAlarm = "right"
    <3>1. silence' = MaxSilence /\ MaxSilence \in Nat
      BY <1>t, <1>m, <2>1, <2>2
    <3> QED
      BY <2>1, <2>2, <3>1 DEF SilenceCounted, MaxSilence
  <2>3. CASE /\ silence = c * PONG_TIMEOUT + (PONG_TIMEOUT - pong_tim)
             /\ c <= ERRORS + 1
             /\ c = ERRORS + 1 => pongAlarm = "right"
    <3>1. CASE silence < MaxSilence
      <4>1. silence' = silence + 1
        BY <1>t, <1>m, <2>1, <2>3, <3>1
      <4>2. /\ silence' \in 0 .. MaxSilence
            /\ silence' = c * PONG_TIMEOUT + (PONG_TIMEOUT - pong_tim')
        BY <1>t, <1>m, <2>1, <2>3, <3>1, <4>1
      <4>3. c' * PONG_TIMEOUT = c * PONG_TIMEOUT
        BY <2>1
      <4> QED
        BY <1>t, <2>1, <2>3, <4>2, <4>3, Zenon DEF SilenceCounted, MaxSilence
    <3>2. CASE silence >= MaxSilence
      <4>1. silence = MaxSilence /\ silence' = MaxSilence
        BY <1>t, <1>m, <2>1, <2>3, <3>2 DEF SilenceCounted
      <4>2. ~(c <= ERRORS)
        BY <1>t, <1>m, <2>1, <2>3, <4>1
      <4>3. c = ERRORS + 1
        BY <1>t, <2>3, <4>2
      <4>4. MaxSilence \in 0 .. MaxSilence
        BY <1>t, <1>m
      <4> QED
        BY <2>1, <2>3, <4>1, <4>3, <4>4, Zenon DEF SilenceCounted, MaxSilence
    <3> QED
      BY <1>t, <1>m, <3>1, <3>2 DEF SilenceCounted
  <2> QED
    BY <1>t, <2>2, <2>3 DEF SilenceCounted
<1>2. CASE ReadPing
  <2>1. silence' = 0 /\ pong_tim' = PONG_TIMEOUT /\ c' = 0 /\ pongAlarm' = pongAlarm
    BY <1>2 DEF ReadPing, Rearm
  <2>2. 0 = c' * PONG_TIMEOUT + (PONG_TIMEOUT - pong_tim') /\ 0 \in 0 .. MaxSilence
    BY <1>t, <1>m, <2>1
  <2>3. c' <= ERRORS + 1 /\ c' # ERRORS + 1
    BY <2>1
  <2> QED
    BY <1>t, <2>1, <2>2, <2>3, Zenon DEF SilenceCounted, MaxSilence
<1>3. CASE PongTimer
  <2>1. /\ pong_tim = 0 /\ pong_tim' = PONG_TIMEOUT /\ silence' = silence
        /\ c' = (c + 1) % CounterBound
        /\ pongAlarm' = IF c' <= ERRORS THEN pongAlarm
                        ELSE IF silence >= E THEN "right" ELSE "wrong"
    BY <1>3 DEF PongTimer, E
  <2>2. /\ c' \in 0 .. CounterBound - 1 /\ c' \in {0, c + 1}
        /\ c + 1 < CounterBound => c' = c + 1
    BY <1>t, <2>1, CountWraps, Zenon
  <2>3. CASE silence = MaxSilence /\ pongAlarm = "right"
    <3>1. pongAlarm' = "right" /\ MaxSilence \in 0 .. MaxSilence
      BY <1>t, <1>m, <2>1, <2>2, <2>3
    <3> QED
      BY <2>1, <2>3, <3>1, Zenon DEF SilenceCounted, MaxSilence
  <2>4. CASE /\ silence = c * PONG_TIMEOUT + (PONG_TIMEOUT - pong_tim)
             /\ c <= ERRORS + 1
             /\ c = ERRORS + 1 => pongAlarm = "right"
    <3>1. silence = (c + 1) * PONG_TIMEOUT
      BY <1>t, <1>m, <2>1, <2>4
    <3>2. CASE c <= ERRORS
      <4>1. c' = c + 1
        BY <1>t, <2>2, <3>2
      <4>2. silence' = c' * PONG_TIMEOUT + (PONG_TIMEOUT - pong_tim')
        BY <1>m, <2>1, <3>1, <4>1
      <4>3. c' <= ERRORS + 1
        BY <1>t, <3>2, <4>1
      <4>4. c' = ERRORS + 1 => silence = E
        BY <3>1, <4>1 DEF E
      <4>5. c' > ERRORS => c' = ERRORS + 1
        BY <1>t, <3>2, <4>1
      <4>6. c' <= ERRORS => pongAlarm' = pongAlarm
        BY <2>1
      <4>7. c' = ERRORS + 1 => pongAlarm' = "right"
        BY <1>m, <2>1, <4>4
      <4>8. pongAlarm' \in {"none", "right"}
        BY <1>t, <2>2, <4>5, <4>6, <4>7 DEF SilenceCounted
      <4>9. silence' \in 0 .. MaxSilence
        BY <1>t, <2>1 DEF SilenceCounted
      <4> QED
        BY <4>2, <4>3, <4>7, <4>8, <4>9, Zenon DEF SilenceCounted, MaxSilence
    <3>3. CASE c = ERRORS + 1
      <4>1. (c + 1) * PONG_TIMEOUT = E + PONG_TIMEOUT
        BY <1>m, <3>3 DEF E
      <4>2. silence = MaxSilence
        BY <1>t, <1>m, <3>1, <4>1 DEF SilenceCounted
      <4>3. pongAlarm' = "right"
        BY <1>t, <1>m, <2>1, <2>2, <2>4, <3>3, <4>2
      <4>4. MaxSilence \in 0 .. MaxSilence
        BY <1>t, <1>m
      <4> QED
        BY <2>1, <4>2, <4>3, <4>4, Zenon DEF SilenceCounted, MaxSilence
    <3> QED
      BY <1>t, <2>4, <3>2, <3>3
  <2> QED
    BY <1>t, <2>3, <2>4 DEF SilenceCounted
<1>4. CASE BusyChanges \/ PingWhileBusy \/ PingSent \/ PingCutShort \/ PingWaited \/ ReadPong
  <2>1. UNCHANGED <<silence, pong_tim, pong_error_counter, pongAlarm>>
    BY <1>4, Zenon DEF BusyChanges, PingWhileBusy, PingSent, PingCutShort, PingWaited, ReadPong
  <2> QED
    BY <1>t, <2>1, Zenon DEF SilenceCounted, MaxSilence
<1> QED
  BY <1>1, <1>2, <1>3, <1>4 DEF WatchdogNext

\* Together: the invariant is inductive.
LEMMA WatchdogInvStep == WatchdogInv /\ [WatchdogNext]_watchVars => WatchdogInv'
<1>1. WatchdogInv /\ WatchdogNext => WatchdogInv'
  BY WatchdogTypesStep, PongsInTimeStep, MissesCountedStep, SilenceCountedStep, Zenon DEF WatchdogInv
<1>2. WatchdogInv /\ UNCHANGED watchVars => WatchdogInv'
  <2> SUFFICES ASSUME WatchdogInv, UNCHANGED watchVars PROVE WatchdogInv'
    OBVIOUS
  <2>1. /\ UNCHANGED <<ping_tim, pong_tim, ping_error_counter, pong_error_counter, pinging, ping_stat>>
        /\ UNCHANGED <<uart_ping_sem, linkBusy, wire, unheard, silence, latePong, pingAlarm, pongAlarm>>
    BY DEF watchVars
  <2>2. WatchdogTypeOK'
    BY <2>1, Zenon DEF WatchdogInv, WatchdogTypeOK
  <2>3. PongsInTime' /\ MissesCounted'
    BY <2>1, Zenon DEF WatchdogInv, PongsInTime, MissesCounted
  <2>4. SilenceCounted'
    BY <2>1, Zenon DEF WatchdogInv, SilenceCounted, MaxSilence
  <2> QED
    BY <2>2, <2>3, <2>4 DEF WatchdogInv
<1> QED
  BY <1>1, <1>2, Zenon

\* The alarms are due.
LEMMA WatchdogInvAlarms == WatchdogInv => AlarmsAreDue
<1> SUFFICES ASSUME WatchdogInv PROVE AlarmsAreDue
  OBVIOUS
<1> USE WatchdogAssumption
<1>1. pingAlarm # "wrong" /\ pongAlarm # "wrong"
  BY DEF WatchdogInv, MissesCounted, SilenceCounted
<1>2. ASSUME silence = MaxSilence
      PROVE  pongAlarm = "right"
  <2> DEFINE c == pong_error_counter
             E == (ERRORS + 1) * PONG_TIMEOUT
  <2>1. /\ c \in 0 .. CounterBound - 1 /\ pong_tim \in 0 .. PONG_TIMEOUT
        /\ MaxSilence = E + 1
    BY DEF WatchdogInv, WatchdogTypeOK, MaxSilence
  <2>2. /\ c * PONG_TIMEOUT \in Nat /\ E \in Nat
        /\ (c + 1) * PONG_TIMEOUT = c * PONG_TIMEOUT + PONG_TIMEOUT
        /\ c <= ERRORS => (c + 1) * PONG_TIMEOUT <= E
    <3>1. c + 1 \in Nat /\ ERRORS + 1 \in Nat /\ c \in Nat
      BY <2>1
    <3> QED
      BY <3>1, Periods
  <2> HIDE DEF E
  <2>3. CASE /\ silence = c * PONG_TIMEOUT + (PONG_TIMEOUT - pong_tim)
             /\ c <= ERRORS + 1
             /\ c = ERRORS + 1 => pongAlarm = "right"
    <3>1. ~(c <= ERRORS)
      BY <1>2, <2>1, <2>2, <2>3
    <3> QED
      BY <2>1, <2>3, <3>1
  <2> QED
    BY <2>3 DEF WatchdogInv, SilenceCounted
<1> QED
  BY <1>1, <1>2 DEF AlarmsAreDue

-----------------------------------------------------------------------------
(* The events of the loop.                                                  *)

\* The type of an event tells which it is.
LEMMA EventKinds ==
  ASSUME NEW e \in LoopEvents
  PROVE  /\ e.type = "GOT_IP" => e = Signal("GOT_IP")
         /\ e.type = "ETH_DOWN" => e = Signal("ETH_DOWN")
         /\ e.type = "STA_START" => e = Signal("STA_START")
         /\ e.type = "STA_DISCONNECTED" => e = Signal("STA_DISCONNECTED")
         /\ e.type = "SYSTEM_RESET" => e = Signal("SYSTEM_RESET")
         /\ e.type = "led" => e \in EthLeds \union MqttLeds
         /\ e.type = "data" => e \in Datas /\ e = MQTT_DATA(e.n)
<1>1. CASE e \in LinkSignals \union StaSignals \union Resets
  BY <1>1 DEF LinkSignals, StaSignals, Resets, Signal
<1>2. CASE e \in EthLeds \union MqttLeds
  BY <1>2 DEF EthLeds, MqttLeds, Led
<1>3. CASE e \in Datas
  BY <1>3 DEF Datas, MQTT_DATA
<1> QED
  BY <1>1, <1>2, <1>3, Zenon DEF LoopEvents

\* Which set an event is in.
LEMMA EventSets ==
  /\ Signal("GOT_IP") \in LinkSignals /\ Signal("ETH_DOWN") \in LinkSignals
  /\ Signal("STA_START") \in StaSignals /\ Signal("STA_DISCONNECTED") \in StaSignals
  /\ Signal("GOT_IP") \in GotIp /\ Signal("STA_DISCONNECTED") \in Lost
  /\ Signal("ETH_DOWN") \notin GotIp /\ Signal("STA_START") \notin Lost
  /\ Signal("GOT_IP") # Signal("ETH_DOWN")
  /\ Led("eth", 0) \in EthLeds /\ Led("eth", 1) \in EthLeds
  /\ Led("mqtt", 0) \in MqttLeds /\ Led("mqtt", 1) \in MqttLeds
  /\ Led("eth", 0) # Led("eth", 1)
  /\ Signal("SYSTEM_RESET") \in Resets
  /\ \A n \in Nat : MQTT_DATA(n) \in Datas
BY DEF LinkSignals, StaSignals, GotIp, Lost, EthLeds, MqttLeds, Resets, Datas, Signal, Led, MQTT_DATA

\* The sets are apart.
LEMMA EventsApart ==
  ASSUME NEW e
  PROVE  /\ e \in LinkSignals => e \notin StaSignals \union EthLeds \union MqttLeds \union Resets \union Datas
         /\ e \in StaSignals => e \notin EthLeds \union MqttLeds \union Resets \union Datas
         /\ e \in EthLeds => e \notin MqttLeds \union Resets \union Datas
         /\ e \in MqttLeds => e \notin Resets \union Datas
         /\ e \in Resets => e \notin Datas
         /\ GotIp \subseteq LinkSignals /\ Lost \subseteq StaSignals
<1>1. e \in LinkSignals \union StaSignals \union Resets => e.type \notin {"led", "data"}
  BY DEF LinkSignals, StaSignals, Resets, Signal
<1>2. e \in EthLeds \union MqttLeds => e.type = "led"
  BY DEF EthLeds, MqttLeds, Led
<1>3. e \in Datas => e.type = "data"
  BY DEF Datas, MQTT_DATA
<1>4. /\ e \in LinkSignals => e \notin StaSignals \union Resets
      /\ e \in StaSignals => e \notin Resets
      /\ e \in EthLeds => e \notin MqttLeds
  BY DEF LinkSignals, StaSignals, Resets, EthLeds, MqttLeds, Signal, Led
<1>5. GotIp \subseteq LinkSignals /\ Lost \subseteq StaSignals
  BY DEF GotIp, Lost, LinkSignals, StaSignals
<1> QED
  BY <1>1, <1>2, <1>3, <1>4, <1>5

-----------------------------------------------------------------------------
(* The steps of the uplink, by who takes them, and what they leave alone.   *)

MainSteps ==
    \/ StartEth \/ StartSta \/ EthWaitEnds \/ EthLedState \/ EthLedPost \/ StaWaitEnds
    \/ MqttStart \/ MqttWait \/ MqttStarted
LinkSteps == LinkUp \/ LinkAddress \/ EthLost \/ StaLost
LoopSteps ==
    \/ EthGotIp \/ HandleDown \/ HandlerPosts \/ StaGotIp \/ StaDisconnected \/ StaStarted
    \/ HandleLed \/ HandleData \/ HandleReset
ClientSteps ==
    \/ ClientConnects \/ ClientFails \/ ClientLoses \/ ClientData
    \/ MqttBits \/ MqttLed \/ MqttData \/ MqttDataEnds

\* They are all the steps.
LEMMA StepsByActor == UplinkNext => MainSteps \/ LinkSteps \/ LoopSteps \/ ClientSteps
BY Zenon DEF UplinkNext, MainSteps, LinkSteps, LoopSteps, ClientSteps

\* The link and the event loop leave the MQTT client alone, and the program
\* ends or goes on.
LEMMA LinkKeeps == LinkSteps =>
  /\ UNCHANGED <<boot, broker, mqev, mqpc, mbits, errors, mqbuf, clients, eaten, late>>
  /\ UNCHANGED <<wan, bits, ld, retry, crossedLed, hand, leds, misread>>
  /\ Alive /\ boot # "start"
BY DEF LinkSteps, LinkUp, LinkAddress, EthLost, StaLost, LinkChange, clientVars

\* A handler of the event loop leaves the client and the link alone.
LEMMA LoopKeeps == LoopSteps =>
  /\ UNCHANGED <<broker, mqev, mqpc, mbits, errors, mqbuf, clients, eaten, late>>
  /\ UNCHANGED <<wan, linked, address, losses>>
  /\ Alive /\ (boot' = boot \/ boot' \in {"queuefull", "noretry"})
BY DEF LoopSteps, EthGotIp, HandleDown, HandlerPosts, StaGotIp, StaDisconnected, StaStarted, HandleLed,
       HandleData, HandleReset, Handles, EthBit, clientVars, netVars

\* The client leaves the link alone, and wakes app_main or not.
LEMMA ClientKeeps == ClientSteps =>
  /\ UNCHANGED <<wan, link, bits, ld, retry, linked, address, losses, crossedLed>>
  /\ UNCHANGED <<hand, leds, misread>>
  /\ Alive /\ (boot' = boot \/ (boot = "mwait" /\ boot' = "mwake"))
<1> USE DEF netVars
<1>1. ClientConnects \/ ClientFails \/ ClientLoses \/ ClientData =>
         /\ UNCHANGED <<wan, link, bits, ld, retry, linked, address, losses, crossedLed>>
         /\ UNCHANGED <<hand, leds, misread, boot>> /\ Alive
  BY DEF ClientConnects, ClientFails, ClientLoses, ClientData, ClientEvents
<1>2. MqttLed \/ MqttData \/ MqttDataEnds =>
         /\ UNCHANGED <<wan, link, bits, ld, retry, linked, address, losses, crossedLed>>
         /\ UNCHANGED <<hand, leds, misread, boot>> /\ Alive
  BY DEF MqttLed, MqttData, MqttDataEnds, MqttRest
<1>3. MqttBits =>
         /\ UNCHANGED <<wan, link, bits, ld, retry, linked, address, losses, crossedLed>>
         /\ UNCHANGED <<hand, leds, misread>> /\ Alive
         /\ (boot' = boot \/ (boot = "mwait" /\ boot' = "mwake"))
  BY DEF MqttBits, SetBit
<1> QED
  BY <1>1, <1>2, <1>3 DEF ClientSteps

\* app_main does not touch what the others keep.
LEMMA MainKeeps == MainSteps =>
  /\ UNCHANGED <<wan, linked, address, losses, hand, leds, misread, late, clients, mqev, mqpc, mqbuf>>
  /\ Alive
<1>1. StartEth \/ StartSta \/ EthWaitEnds \/ EthLedState \/ EthLedPost \/ StaWaitEnds =>
         /\ UNCHANGED <<wan, linked, address, losses, hand, leds, misread, late, clients, mqev, mqpc, mqbuf>>
         /\ Alive
  BY DEF StartEth, StartSta, EthWaitEnds, EthLedState, EthLedPost, StaWaitEnds, MainRest, clientVars, Alive
<1>2. MqttStart \/ MqttWait \/ MqttStarted =>
         /\ UNCHANGED <<wan, linked, address, losses, hand, leds, misread, late, clients, mqev, mqpc, mqbuf>>
         /\ Alive
  BY DEF MqttStart, MqttWait, MqttStarted, MainRest, Alive
<1> QED
  BY <1>1, <1>2 DEF MainSteps

\* The client's task posts lamp, reset and data events only.
ClientPosts == MqttLeds \union Resets \union Datas

\* The client posts events of its own kinds, if anything.
LEMMA ClientQueue == UplinkInv /\ ClientSteps =>
  \/ loopq' = loopq
  \/ \E e \in ClientPosts : Post(e)
<1> SUFFICES ASSUME UplinkInv, ClientSteps
             PROVE  loopq' = loopq \/ \E e \in ClientPosts : Post(e)
  OBVIOUS
<1>1. CASE ClientConnects \/ ClientFails \/ ClientLoses \/ ClientData \/ MqttDataEnds
  BY <1>1 DEF ClientConnects, ClientFails, ClientLoses, ClientData, MqttDataEnds, ClientEvents
<1>2. CASE MqttBits
  <2>1. loopq' = loopq \/ Post(Signal("SYSTEM_RESET"))
    BY <1>2 DEF MqttBits
  <2> QED
    BY <2>1, EventSets, Zenon DEF ClientPosts
<1>3. CASE MqttLed
  <2>1. Post(Led("mqtt", 0)) \/ Post(Led("mqtt", 1))
    BY <1>3 DEF MqttLed
  <2> QED
    BY <2>1, EventSets, Zenon DEF ClientPosts
<1>4. CASE MqttData
  <2>1. Post(MQTT_DATA(mqbuf)) /\ mqbuf \in Nat
    BY <1>4 DEF MqttData, UplinkInv, UplinkTypes
  <2> QED
    BY <2>1, EventSets, Zenon DEF ClientPosts
<1> QED
  BY <1>1, <1>2, <1>3, <1>4 DEF ClientSteps

\* What they post is in no other set.
LEMMA ClientPostsApart ==
  ASSUME NEW e \in ClientPosts
  PROVE  /\ e \in LoopEvents /\ e \notin LinkSignals /\ e \notin StaSignals /\ e \notin EthLeds
         /\ e \notin GotIp /\ e \notin Lost /\ e \notin {Signal("ETH_DOWN")}
<1>1. e \notin LinkSignals /\ e \notin StaSignals /\ e \notin EthLeds
  BY EventsApart, Zenon DEF ClientPosts
<1>2. GotIp \subseteq LinkSignals /\ Lost \subseteq StaSignals /\ Signal("ETH_DOWN") \in LinkSignals
  BY EventsApart, EventSets, Zenon
<1> QED
  BY <1>1, <1>2 DEF ClientPosts, LoopEvents

-----------------------------------------------------------------------------
(* Types of the uplink.                                                     *)

\* The queue after a post and after an event is taken.
LEMMA QueueTypes ==
  ASSUME UplinkInv
  PROVE  /\ loopq \in Seq(LoopEvents) /\ Len(loopq) <= LoopLength
         /\ \A e \in LoopEvents : Post(e) => loopq' \in Seq(LoopEvents) /\ Len(loopq') <= LoopLength
         /\ \A t : Handles(t) => loopq' \in Seq(LoopEvents) /\ Len(loopq') <= LoopLength
                                 /\ Head(loopq) \in LoopEvents /\ loopq # <<>> /\ loopq' = Tail(loopq)
<1> USE UplinkAssumption
<1>1. loopq \in Seq(LoopEvents) /\ Len(loopq) <= LoopLength
  BY DEF UplinkInv, UplinkTypes, UplinkTypeOK
<1>2. ASSUME NEW e \in LoopEvents, Post(e)
      PROVE  loopq' \in Seq(LoopEvents) /\ Len(loopq') <= LoopLength
  BY <1>1, <1>2 DEF Post
<1>3. ASSUME NEW t, Handles(t)
      PROVE  loopq' \in Seq(LoopEvents) /\ Len(loopq') <= LoopLength
             /\ Head(loopq) \in LoopEvents /\ loopq # <<>> /\ loopq' = Tail(loopq)
  <2>1. loopq # <<>> /\ loopq' = Tail(loopq)
    BY <1>3 DEF Handles
  <2> QED
    BY <1>1, <2>1
<1> QED
  BY <1>1, <1>2, <1>3

\* Every step keeps the queue's type.
LEMMA QueueStep == UplinkInv /\ UplinkNext => loopq' \in Seq(LoopEvents) /\ Len(loopq') <= LoopLength
<1> SUFFICES ASSUME UplinkInv, UplinkNext PROVE loopq' \in Seq(LoopEvents) /\ Len(loopq') <= LoopLength
  OBVIOUS
<1>s. UNCHANGED loopq => loopq' \in Seq(LoopEvents) /\ Len(loopq') <= LoopLength
  BY QueueTypes
<1>p. \A e \in LoopEvents : Post(e) => loopq' \in Seq(LoopEvents) /\ Len(loopq') <= LoopLength
  BY QueueTypes, Zenon
<1>e. /\ LinkSignals \subseteq LoopEvents /\ StaSignals \subseteq LoopEvents /\ EthLeds \subseteq LoopEvents
      /\ ClientPosts \subseteq LoopEvents
  BY DEF LoopEvents, ClientPosts
<1>1. CASE MainSteps
  <2>1. CASE StartSta
    BY <1>p, <1>e, <2>1, EventSets DEF StartSta
  <2>2. CASE EthLedPost
    <3>1. Post(Led("eth", ld)) /\ ld \in {0, 1}
      BY <2>2 DEF EthLedPost, UplinkInv, UplinkTypes, UplinkTypeOK
    <3>2. Led("eth", ld) \in EthLeds
      BY <3>1, EventSets
    <3> QED
      BY <1>p, <1>e, <3>1, <3>2
  <2>3. CASE StartEth \/ EthWaitEnds \/ EthLedState \/ StaWaitEnds \/ MqttStart \/ MqttWait \/ MqttStarted
    BY <1>s, <2>3 DEF StartEth, EthWaitEnds, EthLedState, StaWaitEnds, MqttStart, MqttWait, MqttStarted
  <2> QED
    BY <1>1, <2>1, <2>2, <2>3, Zenon DEF MainSteps
<1>2. CASE LinkSteps
  <2>1. UNCHANGED loopq \/ Post(Signal("GOT_IP")) \/ Post(Signal("ETH_DOWN")) \/ Post(Signal("STA_DISCONNECTED"))
    BY <1>2 DEF LinkSteps, LinkUp, LinkAddress, EthLost, StaLost
  <2> QED
    BY <1>s, <1>p, <1>e, <2>1, EventSets, Zenon
<1>3. CASE LoopSteps
  <2>1. CASE HandlerPosts
    <3>1. UNCHANGED loopq \/ Post(Led("eth", ld))
      BY <2>1 DEF HandlerPosts, Post
    <3>2. Led("eth", ld) \in EthLeds
      <4>1. ld \in {0, 1}
        BY DEF UplinkInv, UplinkTypes, UplinkTypeOK
      <4> QED
        BY <4>1, EventSets
    <3> QED
      BY <1>s, <1>p, <1>e, <3>1, <3>2
  <2>2. CASE ~HandlerPosts
    <3>1. \E t : Handles(t)
      BY <1>3, <2>2, Zenon DEF LoopSteps, EthGotIp, HandleDown, StaGotIp, StaDisconnected, StaStarted, HandleLed,
            HandleData, HandleReset
    <3> QED
      BY <3>1, QueueTypes, Zenon
  <2> QED
    BY <2>1, <2>2
<1>4. CASE ClientSteps
  BY <1>s, <1>p, <1>e, <1>4, ClientQueue
<1> QED
  BY <1>1, <1>2, <1>3, <1>4, StepsByActor

\* The ghosts that say yes or no.
LEMMA FlagsStep == UplinkInv /\ UplinkNext => {crossedLed, eaten, late, misread}' \subseteq BOOLEAN
<1> SUFFICES ASSUME UplinkInv, UplinkNext PROVE {crossedLed, eaten, late, misread}' \subseteq BOOLEAN
  OBVIOUS
<1>t. crossedLed \in BOOLEAN /\ eaten \in BOOLEAN /\ late \in BOOLEAN /\ misread \in BOOLEAN
  BY DEF UplinkInv, UplinkTypes
<1>1. CASE MainSteps
  <2>1. UNCHANGED <<late, misread>>
    BY <1>1, MainKeeps
  <2>2. UNCHANGED crossedLed \/ crossedLed' = ((ld = 1) # (link # "ip"))
    BY <1>1 DEF MainSteps, StartEth, StartSta, EthWaitEnds, EthLedState, EthLedPost, StaWaitEnds,
          MqttStart, MqttWait, MqttStarted
  <2>3. \/ UNCHANGED eaten
        \/ eaten' = TRUE /\ "F" \in mbits
        \/ eaten' = FALSE /\ "F" \notin mbits
    <3>1. CASE MqttWait
      <4>1. eaten' = ("F" \in mbits)
        BY <3>1 DEF MqttWait
      <4>2. CASE "F" \in mbits
        BY <4>1, <4>2
      <4>3. CASE "F" \notin mbits
        <5>1. ("F" \in mbits) = FALSE
          BY <4>3
        <5> QED
          BY <4>1, <5>1, Zenon
      <4> QED
        BY <4>2, <4>3
    <3>2. CASE ~MqttWait
      BY <1>1, <3>2 DEF MainSteps, StartEth, StartSta, EthWaitEnds, EthLedState, EthLedPost, StaWaitEnds,
            MqttStart, MqttStarted, clientVars
    <3> QED
      BY <3>1, <3>2
  <2>4. crossedLed' \in BOOLEAN
    BY <1>t, <2>2, Zenon
  <2>5. eaten' \in BOOLEAN
    BY <1>t, <2>3, Zenon
  <2> QED
    BY <1>t, <2>1, <2>4, <2>5
<1>2. CASE LinkSteps
  BY <1>2, <1>t, LinkKeeps
<1>3. CASE LoopSteps
  <2>1. UNCHANGED <<eaten, late>>
    BY <1>3, LoopKeeps
  <2>2. UNCHANGED crossedLed \/ crossedLed' = (ld # hand.state)
    BY <1>3 DEF LoopSteps, EthGotIp, HandleDown, HandlerPosts, StaGotIp, StaDisconnected, StaStarted, HandleLed,
          HandleData, HandleReset, EthBit, netVars
  <2>3. UNCHANGED misread \/ misread' = (misread \/ mqbuf # Head(loopq).n)
    BY <1>3 DEF LoopSteps, EthGotIp, HandleDown, HandlerPosts, StaGotIp, StaDisconnected, StaStarted, HandleLed,
          HandleData, HandleReset, EthBit
  <2>4. crossedLed' \in BOOLEAN
    BY <1>t, <2>2, Zenon
  <2>5. misread' \in BOOLEAN
    BY <1>t, <2>3, Zenon
  <2> QED
    BY <1>t, <2>1, <2>4, <2>5
<1>4. CASE ClientSteps
  <2>1. UNCHANGED <<crossedLed, misread>>
    BY <1>4, ClientKeeps
  <2>2. eaten' = eaten \/ eaten' = FALSE \/ \E b \in {"C", "F"} : eaten' = (b = "F")
    <3>1. CASE MqttBits
      BY <3>1 DEF MqttBits, SetBit, AfterEvent
    <3>2. CASE ClientConnects \/ ClientFails \/ ClientLoses \/ ClientData
      BY <3>2 DEF ClientConnects, ClientFails, ClientLoses, ClientData, ClientEvents
    <3>3. CASE MqttLed \/ MqttData \/ MqttDataEnds
      BY <3>3 DEF MqttLed, MqttData, MqttDataEnds
    <3> QED
      BY <1>4, <3>1, <3>2, <3>3, Zenon DEF ClientSteps
  <2>3. late' = late \/ late' = (late \/ Waited)
    BY <1>4 DEF ClientSteps, ClientConnects, ClientFails, ClientLoses, ClientData, ClientEvents, MqttBits,
          MqttLed, MqttData, MqttDataEnds, MqttRest
  <2>4. eaten' \in BOOLEAN
    BY <1>t, <2>2, Zenon
  <2>5. late' \in BOOLEAN
    BY <1>t, <2>3, Zenon
  <2> QED
    BY <1>t, <2>1, <2>4, <2>5
<1> QED
  BY <1>1, <1>2, <1>3, <1>4, StepsByActor

\* The places of app_main, the link and the client's task.
LEMMA PlacesStep == UplinkInv /\ UplinkNext =>
  /\ wan' \in {"eth", "wifi"}
  /\ boot' \in {"start", "wait", "ledset", "ledpost", "mqtt", "mstart", "mwait", "mwake",
                "run", "nolink", "noretry", "queuefull"}
  /\ link' \in {"off", "down", "trying", "up", "ip"}
  /\ broker' \in {"none", "trying", "connected"}
  /\ mqpc' \in {"bits", "led", "delay"}
  /\ address' \in {"none", "down", "ip"}
<1> SUFFICES ASSUME UplinkInv, UplinkNext
             PROVE  /\ wan' \in {"eth", "wifi"}
                    /\ boot' \in {"start", "wait", "ledset", "ledpost", "mqtt", "mstart", "mwait", "mwake",
                                  "run", "nolink", "noretry", "queuefull"}
                    /\ link' \in {"off", "down", "trying", "up", "ip"}
                    /\ broker' \in {"none", "trying", "connected"}
                    /\ mqpc' \in {"bits", "led", "delay"}
                    /\ address' \in {"none", "down", "ip"}
  OBVIOUS
<1>t. /\ wan \in {"eth", "wifi"}
      /\ boot \in {"start", "wait", "ledset", "ledpost", "mqtt", "mstart", "mwait", "mwake",
                   "run", "nolink", "noretry", "queuefull"}
      /\ link \in {"off", "down", "trying", "up", "ip"}
      /\ broker \in {"none", "trying", "connected"}
      /\ mqpc \in {"bits", "led", "delay"}
      /\ address \in {"none", "down", "ip"}
  BY DEF UplinkInv, UplinkTypes, UplinkTypeOK
<1>1. CASE MainSteps
  <2>1. UNCHANGED <<wan, address, mqpc>>
    BY <1>1, MainKeeps
  <2> QED
    BY <1>1, <1>t, <2>1 DEF MainSteps, StartEth, StartSta, EthWaitEnds, EthLedState, EthLedPost, StaWaitEnds,
       MqttStart, MqttWait, MqttStarted, clientVars
<1>2. CASE LinkSteps
  <2>1. UNCHANGED <<wan, boot, broker, mqpc>>
    BY <1>2, LinkKeeps
  <2> QED
    BY <1>2, <1>t, <2>1 DEF LinkSteps, LinkUp, LinkAddress, EthLost, StaLost, LinkChange, First
<1>3. CASE LoopSteps
  <2>1. UNCHANGED <<wan, broker, mqpc, address>> /\ (boot' = boot \/ boot' \in {"queuefull", "noretry"})
    BY <1>3, LoopKeeps
  <2>2. link' = link \/ link' = Connecting
    BY <1>3 DEF LoopSteps, EthGotIp, HandleDown, HandlerPosts, StaGotIp, StaDisconnected, StaStarted, HandleLed,
       HandleData, HandleReset, EthBit, netVars
  <2> QED
    BY <1>t, <2>1, <2>2 DEF Connecting
<1>4. CASE ClientSteps
  <2>1. UNCHANGED <<wan, link, address>> /\ (boot' = boot \/ boot' = "mwake")
    BY <1>4, ClientKeeps
  <2>2. broker' \in {broker, "connected", "trying"} /\ mqpc' \in {mqpc, "bits", "led", "delay"}
    BY <1>4 DEF ClientSteps, ClientConnects, ClientFails, ClientLoses, ClientData, ClientEvents, MqttBits,
       MqttLed, MqttData, MqttDataEnds, MqttRest
  <2> QED
    BY <1>t, <2>1, <2>2
<1> QED
  BY <1>1, <1>2, <1>3, <1>4, StepsByActor, Zenon

\* The bits and the counters.
LEMMA NumbersStep == UplinkInv /\ UplinkNext =>
  /\ bits' \subseteq {"C", "F"} /\ mbits' \subseteq {"C", "F"}
  /\ ld' \in {0, 1} /\ retry' \in 0 .. WIFI_MAXIMUM_RETRY
  /\ losses' \in Nat /\ clients' \in Nat /\ mqbuf' \in Nat /\ errors' \in Nat /\ linked' \in Nat
<1> SUFFICES ASSUME UplinkInv, UplinkNext
             PROVE  /\ bits' \subseteq {"C", "F"} /\ mbits' \subseteq {"C", "F"}
                    /\ ld' \in {0, 1} /\ retry' \in 0 .. WIFI_MAXIMUM_RETRY
                    /\ losses' \in Nat /\ clients' \in Nat /\ mqbuf' \in Nat /\ errors' \in Nat /\ linked' \in Nat
  OBVIOUS
<1> USE UplinkAssumption
<1>t. /\ bits \subseteq {"C", "F"} /\ mbits \subseteq {"C", "F"}
      /\ ld \in {0, 1} /\ retry \in 0 .. WIFI_MAXIMUM_RETRY
      /\ losses \in Nat /\ clients \in Nat /\ mqbuf \in Nat /\ errors \in Nat /\ linked \in Nat
  BY DEF UplinkInv, UplinkTypes, UplinkTypeOK
<1>1. CASE MainSteps
  <2>1. UNCHANGED <<linked, losses, clients, mqbuf>>
    BY <1>1, MainKeeps
  <2>2. /\ bits' \in {bits, {}} /\ mbits' \in {mbits, {}} /\ ld' \in {ld, 0} /\ retry' = retry
        /\ errors' \in {errors, 0}
    BY <1>1 DEF MainSteps, StartEth, StartSta, EthWaitEnds, EthLedState, EthLedPost, StaWaitEnds,
       MqttStart, MqttWait, MqttStarted, clientVars
  <2> QED
    BY <1>t, <2>1, <2>2
<1>2. CASE LinkSteps
  <2>1. UNCHANGED <<bits, mbits, ld, retry, clients, mqbuf, errors>>
    BY <1>2, LinkKeeps
  <2>2. linked' = linked + 1 /\ losses' \in {0, losses, losses + 1}
    BY <1>2 DEF LinkSteps, LinkUp, LinkAddress, EthLost, StaLost, LinkChange
  <2> QED
    BY <1>t, <2>1, <2>2
<1>3. CASE LoopSteps
  <2>1. UNCHANGED <<mbits, losses, clients, mqbuf, errors, linked>>
    BY <1>3, LoopKeeps
  <2>2. /\ bits' \in {bits, bits \union {"C"}, bits \union {"F"}} /\ ld' \in {ld, 0, 1}
    BY <1>3 DEF LoopSteps, EthGotIp, HandleDown, HandlerPosts, StaGotIp, StaDisconnected, StaStarted, HandleLed,
       HandleData, HandleReset, EthBit, netVars
  <2>3. retry' \in {retry, 0} \/ (retry < WIFI_MAXIMUM_RETRY /\ retry' = retry + 1)
    BY <1>3 DEF LoopSteps, EthGotIp, HandleDown, HandlerPosts, StaGotIp, StaDisconnected, StaStarted, HandleLed,
       HandleData, HandleReset, EthBit, netVars, RetryLeft
  <2>4. retry' \in 0 .. WIFI_MAXIMUM_RETRY
    BY <1>t, <2>3
  <2>5. bits' \subseteq {"C", "F"} /\ ld' \in {0, 1}
    BY <1>t, <2>2
  <2> QED
    BY <1>t, <2>1, <2>4, <2>5, Zenon
<1>4. CASE ClientSteps
  <2>1. UNCHANGED <<bits, ld, retry, losses, linked>>
    BY <1>4, ClientKeeps
  <2>2. CASE ClientConnects \/ ClientFails \/ ClientLoses \/ ClientData
    <3>1. clients' = clients + 1 /\ mqbuf' \in {mqbuf, clients + 1} /\ UNCHANGED <<mbits, errors>>
      BY <2>2 DEF ClientConnects, ClientFails, ClientLoses, ClientData, ClientEvents
    <3> QED
      BY <1>t, <2>1, <3>1
  <2>3. CASE MqttLed \/ MqttData \/ MqttDataEnds
    <3>1. UNCHANGED <<clients, mqbuf, mbits, errors>>
      BY <2>3 DEF MqttLed, MqttData, MqttDataEnds, MqttRest
    <3> QED
      BY <1>t, <2>1, <3>1
  <2>4. CASE MqttBits
    <3>1. UNCHANGED <<clients, mqbuf>> /\ errors' \in {errors, errors + 1}
      BY <2>4 DEF MqttBits
    <3>2. mbits' = {} \/ \E b, c \in {"C", "F"} : mbits' = (mbits \ {c}) \union {b}
      BY <2>4 DEF MqttBits, SetBit, AfterEvent
    <3>3. mbits' \subseteq {"C", "F"}
      BY <1>t, <3>2
    <3> QED
      BY <1>t, <2>1, <3>1, <3>3
  <2> QED
    BY <1>4, <2>2, <2>3, <2>4, Zenon DEF ClientSteps
<1> QED
  BY <1>1, <1>2, <1>3, <1>4, StepsByActor, Zenon

\* The handler that has not posted yet.
LEMMA HandStep == UplinkInv /\ UplinkNext => hand' = NoHand \/ hand' \in [busy : {TRUE}, state : {0, 1}]
<1> SUFFICES ASSUME UplinkInv, UplinkNext PROVE hand' = NoHand \/ hand' \in [busy : {TRUE}, state : {0, 1}]
  OBVIOUS
<1>t. hand = NoHand \/ hand \in [busy : {TRUE}, state : {0, 1}]
  BY DEF UplinkInv, UplinkTypes
<1>1. CASE LoopSteps
  <2>1. \/ hand' = hand \/ hand' = NoHand
        \/ hand' = [busy |-> TRUE, state |-> 0] \/ hand' = [busy |-> TRUE, state |-> 1]
    BY <1>1 DEF LoopSteps, EthGotIp, HandleDown, HandlerPosts, StaGotIp, StaDisconnected, StaStarted, HandleLed,
       HandleData, HandleReset, EthBit
  <2>2. /\ [busy |-> TRUE, state |-> 0] \in [busy : {TRUE}, state : {0, 1}]
        /\ [busy |-> TRUE, state |-> 1] \in [busy : {TRUE}, state : {0, 1}]
    OBVIOUS
  <2> QED
    BY <1>t, <2>1, <2>2, Zenon
<1>2. CASE MainSteps \/ LinkSteps \/ ClientSteps
  <2>1. hand' = hand
    BY <1>2, MainKeeps, LinkKeeps, ClientKeeps
  <2> QED
    BY <1>t, <2>1, Zenon
<1> QED
  BY <1>1, <1>2, StepsByActor

\* The two lamps.
LEMMA LampsStep == UplinkInv /\ UplinkNext => leds' \in [{"eth", "mqtt"} -> {0, 1}]
<1> SUFFICES ASSUME UplinkInv, UplinkNext PROVE leds' \in [{"eth", "mqtt"} -> {0, 1}]
  OBVIOUS
<1>t. leds \in [{"eth", "mqtt"} -> {0, 1}]
  BY DEF UplinkInv, UplinkTypes, UplinkTypeOK
<1>1. CASE HandleLed
  <2>1. Head(loopq) \in LoopEvents /\ Head(loopq).type = "led"
    BY <1>1, QueueTypes DEF HandleLed, Handles
  <2>2. Head(loopq) \in EthLeds \union MqttLeds
    BY <2>1, EventKinds
  <2>3. Head(loopq).lamp \in {"eth", "mqtt"} /\ Head(loopq).n \in {0, 1}
    BY <2>2 DEF EthLeds, MqttLeds, Led
  <2> QED
    BY <1>1, <1>t, <2>3 DEF HandleLed
<1>2. CASE LoopSteps /\ ~HandleLed
  BY <1>2, <1>t DEF LoopSteps, EthGotIp, HandleDown, HandlerPosts, StaGotIp, StaDisconnected, StaStarted,
     HandleData, HandleReset, EthBit
<1>3. CASE MainSteps \/ LinkSteps \/ ClientSteps
  BY <1>3, <1>t, MainKeeps, LinkKeeps, ClientKeeps
<1> QED
  BY <1>1, <1>2, <1>3, StepsByActor

\* Together: the types are kept.
LEMMA UplinkTypesStep == UplinkInv /\ UplinkNext => UplinkTypes'
BY FlagsStep, PlacesStep, NumbersStep, HandStep, LampsStep, QueueStep, Zenon DEF UplinkTypes, UplinkTypeOK, NoHand

-----------------------------------------------------------------------------
(* The network's part of the queue.                                         *)

\* Nothing the network posts came into the queue or was taken from it.
NetQueueKept ==
  /\ Has(loopq', LinkSignals) <=> Has(loopq, LinkSignals)
  /\ Has(loopq', StaSignals) <=> Has(loopq, StaSignals)
  /\ Has(loopq', {Signal("ETH_DOWN")}) <=> Has(loopq, {Signal("ETH_DOWN")})
  /\ Has(loopq', EthLeds) <=> Has(loopq, EthLeds)
  /\ Has(loopq', GotIp) <=> Has(loopq, GotIp)
  /\ Has(loopq', Lost) <=> Has(loopq, Lost)
  /\ \A V : LastIn(loopq, LinkSignals, V) => LastIn(loopq', LinkSignals, V)
  /\ \A V : LastIn(loopq, EthLeds, V) => LastIn(loopq', EthLeds, V)
  /\ AtMostOne(loopq, StaSignals) => AtMostOne(loopq', StaSignals)
  /\ Before(loopq, GotIp, StaSignals) => Before(loopq', GotIp, StaSignals)

\* So it is when the queue stays, and when an event of the client comes or goes.
LEMMA KeptWhenStays == UNCHANGED loopq => NetQueueKept
BY Zenon DEF NetQueueKept

\* An event of the client leaves the network's part of the queue as it was.
LEMMA KeptByPost ==
  ASSUME UplinkInv, NEW e \in ClientPosts, Post(e)
  PROVE  NetQueueKept
<1>1. loopq \in Seq(LoopEvents) /\ loopq' = Append(loopq, e)
  BY QueueTypes DEF Post
<1>2. /\ e \in LoopEvents /\ e \notin LinkSignals /\ e \notin StaSignals /\ e \notin EthLeds
      /\ e \notin GotIp /\ e \notin Lost /\ e \notin {Signal("ETH_DOWN")}
  BY ClientPostsApart, Zenon
<1>3. \A T : e \notin T => (Has(loopq', T) <=> Has(loopq, T))
  BY <1>1, <1>2, HasAppend, Zenon
<1>4. \A T, V : e \notin T /\ LastIn(loopq, T, V) => LastIn(loopq', T, V)
  BY <1>1, <1>2, LastInAppend, Zenon
<1>5. AtMostOne(loopq, StaSignals) => AtMostOne(loopq', StaSignals)
  BY <1>1, <1>2, AtMostOneAppend, Zenon
<1>6. Before(loopq, GotIp, StaSignals) => Before(loopq', GotIp, StaSignals)
  BY <1>1, <1>2, BeforeAppend, Zenon
<1> QED
  BY <1>2, <1>3, <1>4, <1>5, <1>6, Zenon DEF NetQueueKept

\* Taking one of the client's events does so, too.
LEMMA KeptByTail ==
  ASSUME UplinkInv, loopq # <<>>, loopq' = Tail(loopq), Head(loopq) \in ClientPosts
  PROVE  NetQueueKept
<1>1. loopq \in Seq(LoopEvents)
  BY QueueTypes
<1> DEFINE e == Head(loopq)
<1>2. /\ e \in LoopEvents /\ e \notin LinkSignals /\ e \notin StaSignals /\ e \notin EthLeds
      /\ e \notin GotIp /\ e \notin Lost /\ e \notin {Signal("ETH_DOWN")}
  BY ClientPostsApart, Zenon
<1>3. \A T : e \notin T => (Has(loopq', T) <=> Has(loopq, T))
  BY <1>1, HasTail, Zenon
<1>4. \A T, V : LastIn(loopq, T, V) => LastIn(loopq', T, V)
  BY <1>1, LastInTail, Zenon
<1>5. AtMostOne(loopq, StaSignals) => AtMostOne(loopq', StaSignals)
  BY <1>1, AtMostOneTail, Zenon
<1>6. Before(loopq, GotIp, StaSignals) => Before(loopq', GotIp, StaSignals)
  BY <1>1, BeforeTail, Zenon
<1> QED
  BY <1>2, <1>3, <1>4, <1>5, <1>6, Zenon DEF NetQueueKept

NetInv == OneNetwork /\ AddressFirst /\ LastWord /\ Retries

\* The rest of the network's state stays, and app_main wakes up at most.
NetStays ==
  /\ UNCHANGED <<wan, hand, address, link, crossedLed, losses, retry, bits>>
  /\ leds'["eth"] = leds["eth"]
  /\ boot' = boot \/ (boot = "mwait" /\ boot' = "mwake")

\* A step that leaves the network's queue and variables alone keeps its invariant.
LEMMA NetKept ==
  ASSUME UplinkInv, NetQueueKept, NetStays, boot' # "start" \/ loopq' = loopq
  PROVE  NetInv'
<1>s. /\ wan' = wan /\ hand' = hand /\ address' = address /\ link' = link /\ crossedLed' = crossedLed
      /\ losses' = losses /\ retry' = retry /\ bits' = bits
      /\ leds'["eth"] = leds["eth"]
  BY DEF NetStays
<1>b. boot' = boot \/ (boot = "mwait" /\ boot' = "mwake")
  BY DEF NetStays
<1>1. OneNetwork'
  BY <1>s, <1>b DEF UplinkInv, OneNetwork, NetQueueKept
<1>2. AddressFirst'
  BY <1>s, <1>b DEF UplinkInv, AddressFirst, NetQueueKept, PastBits
<1>3. LastWord'
  <2>1. boot' # "queuefull" => boot # "queuefull"
    BY <1>b
  <2> QED
    BY <1>s, <2>1, Zenon DEF UplinkInv, LastWord, NetQueueKept
<1>4. Retries'
  <2>1. boot' = "noretry" => boot = "noretry"
    BY <1>b
  <2> QED
    BY <1>s, <2>1, Zenon DEF UplinkInv, Retries, NetQueueKept
<1> QED
  BY <1>1, <1>2, <1>3, <1>4 DEF NetInv

\* The client's task.
LEMMA ClientNet == UplinkInv /\ ClientSteps => NetInv'
<1> SUFFICES ASSUME UplinkInv, ClientSteps PROVE NetInv'
  OBVIOUS
<1>1. NetStays
  BY ClientKeeps DEF NetStays
<1>2. NetQueueKept
  BY ClientQueue, KeptWhenStays, KeptByPost, Zenon
<1>3. boot' # "start" \/ loopq' = loopq
  <2>1. CASE boot' = "start"
    <3>1. boot = "start" /\ Alive
      BY <2>1, ClientKeeps
    <3>2. broker = "none" /\ mqev = <<>> /\ mqpc = "bits"
      BY <3>1 DEF UplinkInv, ClientState, Alive, Initialised, UplinkTypes, UplinkTypeOK
    <3> QED
      BY <3>2 DEF ClientSteps, ClientConnects, ClientFails, ClientLoses, ClientData, ClientEvents,
         MqttBits, MqttLed, MqttData, MqttDataEnds
  <2> QED
    BY <2>1
<1> QED
  BY <1>1, <1>2, <1>3, NetKept

-----------------------------------------------------------------------------
(* The network's part, app_main.                                            *)

\* The steps of app_main that post nothing keep the invariant of the network.
LEMMA MainNetQuiet ==
  ASSUME UplinkInv, EthWaitEnds \/ EthLedState \/ StaWaitEnds \/ MqttStart \/ MqttWait \/ MqttStarted
  PROVE  NetInv'
<1>k. /\ UNCHANGED <<wan, address, losses, hand, leds>> /\ Alive
  BY MainKeeps DEF MainSteps
<1>s. /\ UNCHANGED <<loopq, link, retry, crossedLed>>
      /\ bits' \in {bits, {}} /\ boot # "start"
      /\ boot' = "nolink" \/ (boot' \in PastBits /\ (boot \in PastBits \/ bits # {}))
      /\ boot' \in {"ledset", "ledpost"} => wan = "eth"
  BY DEF EthWaitEnds, EthLedState, StaWaitEnds, MqttStart, MqttWait, MqttStarted, MainRest, PastBits,
         UplinkInv, OneNetwork
<1>b. boot' \notin {"queuefull", "noretry", "start"} /\ boot \notin {"queuefull", "noretry"}
  BY <1>k, <1>s DEF PastBits, Alive
<1>1. OneNetwork'
  BY <1>k, <1>s, <1>b DEF UplinkInv, OneNetwork
<1>2. AddressFirst'
  BY <1>k, <1>s DEF UplinkInv, AddressFirst, PastBits
<1>3. LastWord'
  <2>1. UNCHANGED <<wan, address, losses, hand, leds>> /\ UNCHANGED <<loopq, link, retry, crossedLed>>
    BY <1>k, <1>s
  <2>2. boot # "queuefull"
    BY <1>b
  <2> QED
    BY <2>1, <2>2, Zenon DEF UplinkInv, LastWord
<1>4. Retries'
  <2>1. UNCHANGED <<wan, address, losses, hand, leds>> /\ UNCHANGED <<loopq, link, retry, crossedLed>>
    BY <1>k, <1>s
  <2>2. boot' # "noretry"
    BY <1>b
  <2> QED
    BY <2>1, <2>2, Zenon DEF UplinkInv, Retries
<1> QED
  BY <1>1, <1>2, <1>3, <1>4 DEF NetInv

\* Starting the Ethernet keeps it.
LEMMA StartEthNet == UplinkInv /\ StartEth => NetInv'
<1> SUFFICES ASSUME UplinkInv, StartEth PROVE NetInv'
  OBVIOUS
<1>s. /\ loopq' = loopq /\ wan' = wan /\ address' = address /\ losses' = losses /\ hand' = hand
      /\ retry' = retry /\ bits' = {} /\ boot' = "wait" /\ boot = "start" /\ wan = "eth"
  BY DEF StartEth, MainRest
<1>e. loopq = <<>> /\ address = "none"
  BY <1>s DEF UplinkInv, OneNetwork
<1>n. \A T : ~Has(loopq, T)
  BY <1>e, EmptyQueue, Zenon
<1>1. OneNetwork'
  BY <1>s, <1>e, <1>n DEF UplinkInv, OneNetwork
<1>2. AddressFirst'
  BY <1>s, <1>e, <1>n DEF UplinkInv, AddressFirst, PastBits
<1>3. LastWord'
  BY <1>s, <1>e DEF LastWord
<1>4. Retries'
  <2>1. boot' # "noretry"
    BY <1>s
  <2> QED
    BY <1>s, <1>n, <2>1, Zenon DEF UplinkInv, Retries
<1> QED
  BY <1>1, <1>2, <1>3, <1>4 DEF NetInv

\* Starting the Wi-Fi keeps it.
LEMMA StartStaNet == UplinkInv /\ StartSta => NetInv'
<1> SUFFICES ASSUME UplinkInv, StartSta PROVE NetInv'
  OBVIOUS
<1> DEFINE e == Signal("STA_START")
<1>s. /\ Post(e) /\ wan' = wan /\ address' = address /\ losses' = losses /\ hand' = hand /\ link' = link
      /\ retry' = retry /\ bits' = {} /\ boot' = "wait" /\ boot = "start" /\ wan = "wifi"
  BY DEF StartSta, MainRest
<1>q. loopq = <<>> /\ address = "none" /\ link = "off" /\ loopq \in Seq(LoopEvents) /\ loopq' = Append(loopq, e)
  BY <1>s, QueueTypes DEF UplinkInv, OneNetwork, Post
<1>n. \A T : ~Has(loopq, T)
  BY <1>q, EmptyQueue, Zenon
<1>e. /\ e \in LoopEvents /\ e \in StaSignals /\ e \notin LinkSignals /\ e \notin EthLeds /\ e \notin GotIp
      /\ e \notin Lost /\ e \notin {Signal("ETH_DOWN")}
  <2>1. e \in StaSignals /\ e \notin Lost /\ Signal("ETH_DOWN") \in LinkSignals
    BY EventSets
  <2>2. e \notin LinkSignals /\ e \notin EthLeds /\ GotIp \subseteq LinkSignals
    BY <2>1, EventsApart, Zenon
  <2> QED
    BY <2>1, <2>2 DEF LoopEvents
<1>h. \A T : Has(loopq', T) => e \in T
  BY <1>q, <1>n, <1>e, HasAppend, Zenon
<1>1. OneNetwork'
  BY <1>s, <1>e, <1>h DEF UplinkInv, OneNetwork
<1>2. AddressFirst'
  BY <1>s, <1>e, <1>h DEF UplinkInv, AddressFirst, PastBits
<1>3. LastWord'
  BY <1>s DEF LastWord
<1>4. Retries'
  <2>1. boot' # "noretry"
    BY <1>s
  <2>2. AtMostOne(loopq', StaSignals)
    BY <1>q, <1>e, <1>n, AtMostOneAppend, Zenon DEF UplinkInv, Retries
  <2>3. Before(loopq', GotIp, StaSignals)
    BY <1>q, <1>e, <1>n, BeforeAppend, Zenon DEF UplinkInv, Retries
  <2> QED
    BY <1>s, <1>q, <1>e, <1>h, <1>n, <2>1, <2>2, <2>3, Zenon DEF UplinkInv, Retries
<1> QED
  BY <1>1, <1>2, <1>3, <1>4 DEF NetInv

\* Posting the state of the Ethernet lamp keeps it.
LEMMA EthLedPostNet == UplinkInv /\ EthLedPost => NetInv'
<1> SUFFICES ASSUME UplinkInv, EthLedPost PROVE NetInv'
  OBVIOUS
<1> DEFINE e == Led("eth", ld)
<1>s. /\ Post(e) /\ wan' = wan /\ address' = address /\ losses' = losses /\ hand' = hand /\ link' = link
      /\ retry' = retry /\ leds' = leds /\ bits' = {} /\ boot' = "mqtt" /\ boot = "ledpost"
  BY DEF EthLedPost, MainRest
<1>w. wan = "eth" /\ address # "none" /\ ld \in {0, 1}
  BY <1>s DEF UplinkInv, OneNetwork, AddressFirst, PastBits, UplinkTypes, UplinkTypeOK
<1>q. loopq \in Seq(LoopEvents) /\ loopq' = Append(loopq, e)
  BY <1>s, QueueTypes DEF Post
<1>e. /\ e \in LoopEvents /\ e \notin StaSignals /\ e \notin LinkSignals /\ e \in EthLeds /\ e \notin GotIp
      /\ e \notin Lost
  <2>1. e \in EthLeds
    BY <1>w, EventSets
  <2>2. e \notin LinkSignals /\ e \notin StaSignals /\ GotIp \subseteq LinkSignals /\ Lost \subseteq StaSignals
    BY <2>1, EventsApart, Zenon
  <2> QED
    BY <2>1, <2>2 DEF LoopEvents
<1>h. \A T : Has(loopq', T) <=> Has(loopq, T) \/ e \in T
  BY <1>q, <1>e, HasAppend, Zenon
<1>1. OneNetwork'
  BY <1>s, <1>w, <1>e, <1>h DEF UplinkInv, OneNetwork
<1>2. AddressFirst'
  BY <1>s, <1>w DEF AddressFirst
<1>3. LastWord'
  <2>1. LastIn(loopq', LinkSignals, {Means(link = "ip")})
    <3>1. LastIn(loopq, LinkSignals, {Means(link = "ip")})
      BY <1>s, <1>w DEF UplinkInv, LastWord
    <3> QED
      BY <1>q, <1>e, <3>1, LastInAppend, Zenon
  <2>2. ~Has(loopq', LinkSignals) /\ hand.busy => hand.state = Shows(link = "ip")
    BY <1>s, <1>w, <1>e, <1>h DEF UplinkInv, LastWord
  <2>3. ASSUME ~crossedLed' PROVE LastIn(loopq', EthLeds, {Led("eth", Shows(link = "ip"))})
    <3>1. ~((ld = 1) # (link # "ip"))
      BY <2>3, Zenon DEF EthLedPost
    <3>2. ld = Shows(link = "ip")
      BY <3>1, <1>w DEF Shows
    <3>3. e \in {Led("eth", Shows(link = "ip"))}
      BY <3>2
    <3> QED
      BY <1>q, <1>e, <3>3, LastInAppend, Zenon
  <2>4. Has(loopq', EthLeds)
    BY <1>e, <1>h, Zenon
  <2> QED
    BY <1>s, <2>1, <2>2, <2>3, <2>4, Zenon DEF LastWord
<1>4. Retries'
  <2>1. boot' # "noretry"
    BY <1>s
  <2>2. AtMostOne(loopq', StaSignals)
    BY <1>q, <1>e, AtMostOneAppend, Zenon DEF UplinkInv, Retries
  <2>3. Before(loopq', GotIp, StaSignals)
    BY <1>q, <1>e, BeforeAppend, Zenon DEF UplinkInv, Retries
  <2> QED
    BY <1>s, <1>e, <1>h, <2>1, <2>2, <2>3, Zenon DEF UplinkInv, Retries
<1> QED
  BY <1>1, <1>2, <1>3, <1>4 DEF NetInv

\* app_main keeps the network's part of the invariant.
LEMMA MainNet == UplinkInv /\ MainSteps => NetInv'
BY MainNetQuiet, StartEthNet, StartStaNet, EthLedPostNet, Zenon DEF MainSteps

-----------------------------------------------------------------------------
(* The network's part, the link.                                            *)

\* An event of a set is an event of a larger one.
LEMMA HasMore == ASSUME NEW q, NEW T, NEW U, T \subseteq U, Has(q, T) PROVE Has(q, U)
BY DEF Has

\* The station's events say that the link is off.
LEMMA NoStaWhenLinked ==
  ASSUME UplinkInv, link # "off"
  PROVE  ~Has(loopq, StaSignals) /\ ~Has(loopq, Lost)
<1>1. ~Has(loopq, StaSignals)
  BY DEF UplinkInv, Retries
<1>2. \A e : Lost \subseteq StaSignals
  BY EventsApart, Zenon
<1> QED
  BY <1>1, <1>2, HasMore, Zenon

\* The link coming up keeps it.
LEMMA LinkUpNet == UplinkInv /\ LinkUp => NetInv'
<1> SUFFICES ASSUME UplinkInv, LinkUp PROVE NetInv'
  OBVIOUS
<1>k. /\ UNCHANGED <<boot, wan, bits, retry, crossedLed, hand, leds>> /\ boot # "start"
  BY LinkKeeps DEF LinkSteps
<1>s. loopq' = loopq /\ address' = address /\ losses' = losses /\ link # "ip" /\ link' # "ip" /\ link # "off"
  BY DEF LinkUp, LinkChange
<1>n. ~Has(loopq, StaSignals) /\ (link = "ip") = (link' = "ip")
  BY <1>s, NoStaWhenLinked
<1>1. OneNetwork'
  BY <1>k, <1>s, Zenon DEF UplinkInv, OneNetwork
<1>2. AddressFirst'
  BY <1>k, <1>s, Zenon DEF UplinkInv, AddressFirst
<1>3. LastWord'
  <2>1. Means(link' = "ip") = Means(link = "ip") /\ Shows(link' = "ip") = Shows(link = "ip")
    BY <1>s DEF Means, Shows
  <2> QED
    BY <1>k, <1>s, <2>1, Zenon DEF UplinkInv, LastWord
<1>4. Retries'
  BY <1>k, <1>s, <1>n, Zenon DEF UplinkInv, Retries
<1> QED
  BY <1>1, <1>2, <1>3, <1>4 DEF NetInv

\* An event of the link: the address is known, the queue has a last word.
LEMMA AddressNet == UplinkInv /\ LinkAddress => NetInv'
<1> SUFFICES ASSUME UplinkInv, LinkAddress PROVE NetInv'
  OBVIOUS
<1> DEFINE e == Signal("GOT_IP")
<1>k. /\ UNCHANGED <<boot, wan, bits, retry, crossedLed, hand, leds>> /\ boot # "start" /\ Alive
  BY LinkKeeps DEF LinkSteps
<1>s. Post(e) /\ link = "up" /\ link' = "ip" /\ losses' = 0 /\ address' # "none"
  BY DEF LinkAddress, LinkChange, First
<1>n. ~Has(loopq, StaSignals) /\ ~Has(loopq, Lost)
  BY <1>s, NoStaWhenLinked
<1>q. loopq \in Seq(LoopEvents) /\ loopq' = Append(loopq, e)
  BY <1>s, QueueTypes DEF Post
<1>e. /\ e \in LoopEvents /\ e \notin StaSignals /\ e \in LinkSignals /\ e \notin EthLeds /\ e \in GotIp
      /\ e \notin Lost /\ e \notin {Signal("ETH_DOWN")}
  <2>1. e \in LinkSignals /\ e \in GotIp /\ e # Signal("ETH_DOWN")
    BY EventSets
  <2>2. e \notin EthLeds /\ e \notin StaSignals /\ Lost \subseteq StaSignals
    BY <2>1, EventsApart, Zenon
  <2> QED
    BY <2>1, <2>2 DEF LoopEvents
<1>h. \A T : Has(loopq', T) <=> Has(loopq, T) \/ e \in T
  BY <1>q, <1>e, HasAppend, Zenon
<1>1. OneNetwork'
  BY <1>k, <1>e, <1>h DEF UplinkInv, OneNetwork
<1>2. AddressFirst'
  BY <1>s DEF AddressFirst
<1>3. LastWord'
  <2>1. e \in {Means(link' = "ip")}
    BY <1>s DEF Means
  <2>2. LastIn(loopq', LinkSignals, {Means(link' = "ip")})
    BY <1>q, <1>e, <2>1, LastInAppend, Zenon
  <2>3. Has(loopq', LinkSignals)
    BY <1>e, <1>h, Zenon
  <2> QED
    BY <2>2, <2>3, Zenon DEF LastWord
<1>4. Retries'
  <2>1. boot' # "noretry"
    BY <1>k DEF Alive
  <2>2. AtMostOne(loopq', StaSignals)
    BY <1>q, <1>e, AtMostOneAppend, Zenon DEF UplinkInv, Retries
  <2>3. Before(loopq', GotIp, StaSignals)
    BY <1>q, <1>e, <1>n, BeforeAppend, Zenon DEF UplinkInv, Retries
  <2>4. retry' = retry
    BY <1>k
  <2> QED
    BY <1>k, <1>e, <1>h, <1>n, <2>1, <2>2, <2>3, Zenon DEF UplinkInv, Retries
<1> QED
  BY <1>1, <1>2, <1>3, <1>4 DEF NetInv

\* The loss of the Ethernet keeps it.
LEMMA EthLostNet == UplinkInv /\ EthLost => NetInv'
<1> SUFFICES ASSUME UplinkInv, EthLost PROVE NetInv'
  OBVIOUS
<1> DEFINE e == Signal("ETH_DOWN")
<1>k. /\ UNCHANGED <<boot, wan, bits, retry, crossedLed, hand, leds>> /\ boot # "start" /\ Alive
  BY LinkKeeps DEF LinkSteps
<1>s. Post(e) /\ link # "off" /\ link' = "down" /\ losses' = losses /\ address' # "none" /\ wan = "eth"
  BY DEF EthLost, LinkChange, First
<1>n. ~Has(loopq, StaSignals) /\ ~Has(loopq, Lost)
  BY <1>s, NoStaWhenLinked
<1>q. loopq \in Seq(LoopEvents) /\ loopq' = Append(loopq, e)
  BY <1>s, QueueTypes DEF Post
<1>e. /\ e \in LoopEvents /\ e \notin StaSignals /\ e \in LinkSignals /\ e \notin GotIp /\ e \notin Lost
  <2>1. e \in LinkSignals /\ e \notin GotIp
    BY EventSets
  <2>2. e \notin StaSignals /\ Lost \subseteq StaSignals
    BY <2>1, EventsApart, Zenon
  <2> QED
    BY <2>1, <2>2 DEF LoopEvents
<1>h. \A T : Has(loopq', T) <=> Has(loopq, T) \/ e \in T
  BY <1>q, <1>e, HasAppend, Zenon
<1>1. OneNetwork'
  BY <1>k, <1>s, <1>e, <1>h DEF UplinkInv, OneNetwork
<1>2. AddressFirst'
  BY <1>s DEF AddressFirst
<1>3. LastWord'
  <2>1. e \in {Means(link' = "ip")}
    BY <1>s DEF Means
  <2>2. LastIn(loopq', LinkSignals, {Means(link' = "ip")})
    BY <1>q, <1>e, <2>1, LastInAppend, Zenon
  <2>3. Has(loopq', LinkSignals)
    BY <1>e, <1>h, Zenon
  <2> QED
    BY <2>2, <2>3, Zenon DEF LastWord
<1>4. Retries'
  <2>1. boot' # "noretry"
    BY <1>k DEF Alive
  <2>2. AtMostOne(loopq', StaSignals)
    BY <1>q, <1>e, AtMostOneAppend, Zenon DEF UplinkInv, Retries
  <2>3. Before(loopq', GotIp, StaSignals)
    BY <1>q, <1>e, <1>n, BeforeAppend, Zenon DEF UplinkInv, Retries
  <2> QED
    BY <1>k, <1>s, <1>e, <1>h, <1>n, <2>1, <2>2, <2>3, Zenon DEF UplinkInv, Retries
<1> QED
  BY <1>1, <1>2, <1>3, <1>4 DEF NetInv

\* The loss of the Wi-Fi keeps it.
LEMMA StaLostNet == UplinkInv /\ StaLost => NetInv'
<1> SUFFICES ASSUME UplinkInv, StaLost PROVE NetInv'
  OBVIOUS
<1> USE UplinkAssumption
<1> DEFINE e == Signal("STA_DISCONNECTED")
<1>k. /\ UNCHANGED <<boot, wan, bits, retry, crossedLed, hand, leds>> /\ boot # "start" /\ Alive
  BY LinkKeeps DEF LinkSteps
<1>s. Post(e) /\ link # "off" /\ link' = "off" /\ losses' = losses + 1 /\ address' = address /\ wan = "wifi"
  BY DEF StaLost, LinkChange
<1>n. ~Has(loopq, StaSignals) /\ ~Has(loopq, Lost)
  BY <1>s, NoStaWhenLinked
<1>q. loopq \in Seq(LoopEvents) /\ loopq' = Append(loopq, e)
  BY <1>s, QueueTypes DEF Post
<1>e. /\ e \in LoopEvents /\ e \in StaSignals /\ e \notin LinkSignals /\ e \notin GotIp /\ e \notin EthLeds
      /\ e \notin {Signal("ETH_DOWN")}
  <2>1. e \in StaSignals /\ Signal("ETH_DOWN") \in LinkSignals
    BY EventSets
  <2>2. e \notin LinkSignals /\ e \notin EthLeds /\ GotIp \subseteq LinkSignals
    BY <2>1, EventsApart, Zenon
  <2> QED
    BY <2>1, <2>2 DEF LoopEvents
<1>h. \A T : Has(loopq', T) <=> Has(loopq, T) \/ e \in T
  BY <1>q, <1>e, HasAppend, Zenon
<1>1. OneNetwork'
  BY <1>k, <1>s, <1>e, <1>h DEF UplinkInv, OneNetwork
<1>2. AddressFirst'
  BY <1>k, <1>s, <1>e, <1>h DEF UplinkInv, AddressFirst
<1>3. LastWord'
  BY <1>k, <1>s DEF LastWord
<1>4. Retries'
  <2>1. boot' # "noretry" /\ wan' # "eth"
    BY <1>k, <1>s DEF Alive
  <2>2. AtMostOne(loopq', StaSignals)
    BY <1>q, <1>e, <1>n, AtMostOneAppend, Zenon DEF UplinkInv, Retries
  <2>3. Before(loopq', GotIp, StaSignals)
    BY <1>q, <1>e, BeforeAppend, Zenon DEF UplinkInv, Retries
  <2>4. losses \in Nat /\ retry \in Nat /\ retry' = retry
    BY <1>k DEF UplinkInv, UplinkTypes, UplinkTypeOK
  <2>5. losses' >= 1
    BY <1>s, <2>4
  <2>6. ~Has(loopq', GotIp) => losses' >= retry' /\ losses' >= retry' + 1
    <3>1. ~Has(loopq', GotIp) => losses >= retry
      BY <1>e, <1>h, Zenon DEF UplinkInv, Retries
    <3> QED
      BY <1>s, <2>4, <3>1
  <2> QED
    BY <1>s, <2>1, <2>2, <2>3, <2>5, <2>6, Zenon DEF Retries
<1> QED
  BY <1>1, <1>2, <1>3, <1>4 DEF NetInv

\* The link keeps the network's part of the invariant.
LEMMA LinkNet == UplinkInv /\ LinkSteps => NetInv'
BY LinkUpNet, AddressNet, EthLostNet, StaLostNet, Zenon DEF LinkSteps

-----------------------------------------------------------------------------
(* The network's part, the event loop.                                      *)

\* The first event of the queue, when a handler of its type is called.
LEMMA Handled ==
  ASSUME UplinkInv, NEW t, Handles(t)
  PROVE  /\ loopq \in Seq(LoopEvents) /\ loopq # <<>> /\ loopq' = Tail(loopq)
         /\ Head(loopq) \in LoopEvents /\ Head(loopq).type = t /\ ~hand.busy /\ Alive
         /\ \A T : Has(loopq, T) <=> Has(loopq', T) \/ Head(loopq) \in T
         /\ \A T, V : LastIn(loopq, T, V) =>
                LastIn(loopq', T, V) /\ (Head(loopq) \in T /\ ~Has(loopq', T) => Head(loopq) \in V)
         /\ AtMostOne(loopq', StaSignals)
         /\ Head(loopq) \in StaSignals => ~Has(loopq', StaSignals)
         /\ Before(loopq', GotIp, StaSignals)
         /\ Head(loopq) \in StaSignals => ~Has(loopq', GotIp) /\ Head(loopq) \notin GotIp
<1>1. /\ loopq \in Seq(LoopEvents) /\ loopq # <<>> /\ loopq' = Tail(loopq)
      /\ Head(loopq) \in LoopEvents /\ Head(loopq).type = t /\ ~hand.busy /\ Alive
  BY QueueTypes, Zenon DEF Handles
<1>2. \A T : Has(loopq, T) <=> Has(loopq', T) \/ Head(loopq) \in T
  BY <1>1, HasTail, Zenon
<1>3. \A T, V : LastIn(loopq, T, V) =>
          LastIn(loopq', T, V) /\ (Head(loopq) \in T /\ ~Has(loopq', T) => Head(loopq) \in V)
  BY <1>1, LastInTail, Zenon
<1>4. AtMostOne(loopq, StaSignals) /\ Before(loopq, GotIp, StaSignals)
  BY DEF UplinkInv, Retries
<1>5. AtMostOne(loopq', StaSignals) /\ (Head(loopq) \in StaSignals => ~Has(loopq', StaSignals))
  BY <1>1, <1>4, AtMostOneTail, Zenon
<1>6. /\ Before(loopq', GotIp, StaSignals)
      /\ Head(loopq) \in StaSignals => ~Has(loopq', GotIp) /\ Head(loopq) \notin GotIp
  BY <1>1, <1>4, BeforeTail, Zenon
<1> QED
  BY <1>1, <1>2, <1>3, <1>5, <1>6, Zenon

\* A handler of the Ethernet's events.
LEMMA EthBitNet ==
  ASSUME UplinkInv, wan = "eth", NEW b \in {"C", "F"}, NEW s \in {0, 1}, EthBit(b, s),
         \/ Handles("GOT_IP") /\ s = 0
         \/ Handles("ETH_DOWN") /\ s = 1
  PROVE  NetInv'
<1> DEFINE e == Head(loopq)
<1>s. /\ boot' = boot /\ wan' = wan /\ address' = address /\ link' = link /\ losses' = losses
      /\ retry' = retry /\ hand' = [busy |-> TRUE, state |-> s]
  BY DEF EthBit
<1>t. PICK t \in {"GOT_IP", "ETH_DOWN"} : Handles(t) /\ (s = 0 <=> t = "GOT_IP")
  OBVIOUS
<1>f. /\ loopq \in Seq(LoopEvents) /\ loopq' = Tail(loopq) /\ e \in LoopEvents /\ e.type = t /\ Alive
      /\ \A T : Has(loopq, T) <=> Has(loopq', T) \/ e \in T
      /\ \A T, V : LastIn(loopq, T, V) =>
             LastIn(loopq', T, V) /\ (e \in T /\ ~Has(loopq', T) => e \in V)
      /\ AtMostOne(loopq', StaSignals) /\ Before(loopq', GotIp, StaSignals)
  BY <1>t, Handled, Zenon
<1>e. e = Means(s = 0) /\ e \in LinkSignals
  BY <1>t, <1>f, EventKinds, EventSets DEF Means
<1>a. address # "none"
  BY <1>e, <1>f, Zenon DEF UplinkInv, AddressFirst
<1>b. ~Has(loopq', StaSignals) /\ ~Has(loopq', Lost)
  <2>1. ~Has(loopq', StaSignals)
    BY <1>f DEF UplinkInv, OneNetwork
  <2> QED
    BY <2>1, EventsApart, HasMore, Zenon
<1>1. OneNetwork'
  <2>1. boot # "start"
    BY <1>a DEF UplinkInv, OneNetwork
  <2> QED
    BY <1>s, <1>b, <2>1 DEF UplinkInv, OneNetwork
<1>2. AddressFirst'
  BY <1>s, <1>a DEF AddressFirst
<1>3. LastWord'
  <2>1. LastIn(loopq, LinkSignals, {Means(link = "ip")})
    BY <1>a, <1>f DEF UplinkInv, LastWord, Alive
  <2>2. LastIn(loopq', LinkSignals, {Means(link = "ip")})
    BY <1>f, <2>1, Zenon
  <2>3. ~Has(loopq', LinkSignals) => s = Shows(link = "ip")
    <3>1. ~Has(loopq', LinkSignals) => e \in {Means(link = "ip")}
      BY <1>e, <1>f, <2>1, Zenon
    <3> QED
      BY <1>e, <3>1, EventSets DEF Means, Shows
  <2>4. hand'.busy /\ hand'.state = s
    BY <1>s
  <2> QED
    BY <1>s, <2>2, <2>3, <2>4, Zenon DEF LastWord
<1>4. Retries'
  <2>1. boot' # "noretry"
    BY <1>s, <1>f DEF Alive
  <2>2. losses >= retry
    BY DEF UplinkInv, Retries, UplinkTypes
  <2> QED
    BY <1>s, <1>b, <1>f, <2>1, <2>2, Zenon DEF UplinkInv, Retries
<1> QED
  BY <1>1, <1>2, <1>3, <1>4 DEF NetInv

\* A handler that posts the lamp keeps it.
LEMMA HandlerPostsNet == UplinkInv /\ HandlerPosts => NetInv'
<1> SUFFICES ASSUME UplinkInv, HandlerPosts PROVE NetInv'
  OBVIOUS
<1> DEFINE e == Led("eth", ld)
<1>s. /\ wan' = wan /\ address' = address /\ link' = link /\ losses' = losses /\ bits' = bits
      /\ retry' = retry /\ hand' = NoHand /\ leds' = leds /\ hand.busy /\ Alive
  BY DEF HandlerPosts
<1>n. ~NoHand.busy
  BY DEF NoHand
<1>w. wan = "eth" /\ address # "none" /\ ld \in {0, 1} /\ boot # "start"
  BY <1>s DEF UplinkInv, OneNetwork, AddressFirst, UplinkTypes, UplinkTypeOK
<1>1. CASE boot' = "queuefull" /\ loopq' = loopq
  <2>1. OneNetwork'
    BY <1>1, <1>s, <1>n, <1>w DEF UplinkInv, OneNetwork
  <2>2. AddressFirst'
    BY <1>s, <1>w DEF AddressFirst
  <2>3. LastWord'
    BY <1>1 DEF LastWord
  <2>4. Retries'
    <3>1. boot' # "noretry"
      BY <1>1
    <3> QED
      BY <1>1, <1>s, <3>1, Zenon DEF UplinkInv, Retries
  <2> QED
    BY <2>1, <2>2, <2>3, <2>4 DEF NetInv
<1>2. CASE boot' = boot /\ Post(e)
  <2>q. loopq \in Seq(LoopEvents) /\ loopq' = Append(loopq, e)
    BY <1>2, QueueTypes DEF Post
  <2>e. /\ e \in LoopEvents /\ e \notin StaSignals /\ e \notin LinkSignals /\ e \in EthLeds /\ e \notin GotIp
        /\ e \notin Lost
    <3>1. e \in EthLeds
      BY <1>w, EventSets
    <3>2. e \notin LinkSignals /\ e \notin StaSignals /\ GotIp \subseteq LinkSignals /\ Lost \subseteq StaSignals
      BY <3>1, EventsApart, Zenon
    <3> QED
      BY <3>1, <3>2 DEF LoopEvents
  <2>h. \A T : Has(loopq', T) <=> Has(loopq, T) \/ e \in T
    BY <2>q, <2>e, HasAppend, Zenon
  <2>1. OneNetwork'
    BY <1>2, <1>s, <1>n, <1>w, <2>e, <2>h DEF UplinkInv, OneNetwork
  <2>2. AddressFirst'
    BY <1>s, <1>w DEF AddressFirst
  <2>3. LastWord'
    <3>0. boot # "queuefull"
      BY <1>s DEF Alive
    <3>1. LastIn(loopq', LinkSignals, {Means(link = "ip")})
      <4>1. LastIn(loopq, LinkSignals, {Means(link = "ip")})
        BY <1>w, <3>0, Zenon DEF UplinkInv, LastWord
      <4> QED
        BY <2>q, <2>e, <4>1, LastInAppend, Zenon
    <3>2. ASSUME ~crossedLed', ~Has(loopq', LinkSignals)
          PROVE  LastIn(loopq', EthLeds, {Led("eth", Shows(link = "ip"))})
      <4>1. hand.state = Shows(link = "ip")
        BY <1>s, <1>w, <2>e, <2>h, <3>0, <3>2, Zenon DEF UplinkInv, LastWord
      <4>2. crossedLed' = (ld # hand.state)
        BY <1>2 DEF HandlerPosts, Post
      <4>3. ld = hand.state
        BY <3>2, <4>2, Zenon
      <4>4. e \in {Led("eth", Shows(link = "ip"))}
        BY <4>1, <4>3
      <4> QED
        BY <2>q, <2>e, <4>4, LastInAppend, Zenon
    <3>3. Has(loopq', EthLeds)
      BY <2>e, <2>h, Zenon
    <3> QED
      BY <1>s, <1>n, <3>1, <3>2, <3>3, Zenon DEF LastWord
  <2>4. Retries'
    <3>1. boot' # "noretry"
      BY <1>2, <1>s DEF Alive
    <3>2. AtMostOne(loopq', StaSignals)
      BY <2>q, <2>e, AtMostOneAppend, Zenon DEF UplinkInv, Retries
    <3>3. Before(loopq', GotIp, StaSignals)
      BY <2>q, <2>e, BeforeAppend, Zenon DEF UplinkInv, Retries
    <3> QED
      BY <1>s, <2>e, <2>h, <3>1, <3>2, <3>3, Zenon DEF UplinkInv, Retries
  <2> QED
    BY <2>1, <2>2, <2>3, <2>4 DEF NetInv
<1> QED
  BY <1>1, <1>2 DEF HandlerPosts, Post

\* A handler of the station's events.
LEMMA StaHandlerNet ==
  ASSUME UplinkInv, StaGotIp \/ StaDisconnected \/ StaStarted
  PROVE  NetInv'
<1> USE UplinkAssumption
<1> DEFINE e == Head(loopq)
<1>s. /\ wan' = wan /\ address' = address /\ losses' = losses /\ hand' = hand /\ leds' = leds
  BY DEF StaGotIp, StaDisconnected, StaStarted
<1>t. PICK t \in {"GOT_IP", "STA_DISCONNECTED", "STA_START"} :
        /\ Handles(t)
        /\ t = "GOT_IP" => StaGotIp
        /\ t = "STA_DISCONNECTED" => StaDisconnected
        /\ t = "STA_START" => StaStarted
  BY Zenon DEF StaGotIp, StaDisconnected, StaStarted
<1>f. /\ e \in LoopEvents /\ e.type = t /\ Alive /\ loopq # <<>>
      /\ \A T : Has(loopq, T) <=> Has(loopq', T) \/ e \in T
      /\ AtMostOne(loopq', StaSignals) /\ Before(loopq', GotIp, StaSignals)
      /\ e \in StaSignals => ~Has(loopq', StaSignals) /\ ~Has(loopq', GotIp) /\ e \notin GotIp
  BY <1>t, Handled, Zenon
<1>e. e = Signal(t) /\ e \in LinkSignals \union StaSignals
  BY <1>t, <1>f, EventKinds, EventSets
<1>w. wan = "wifi"
  <2>1. CASE t = "GOT_IP"
    BY <1>t, <2>1 DEF StaGotIp
  <2>2. CASE t # "GOT_IP"
    <3>1. e \in StaSignals
      BY <1>t, <1>e, <2>2, EventSets
    <3>2. Has(loopq, StaSignals)
      BY <1>f, <3>1, Zenon
    <3> QED
      BY <3>2 DEF UplinkInv, OneNetwork, UplinkTypes, UplinkTypeOK
  <2> QED
    BY <2>1, <2>2
<1>n. losses \in Nat /\ retry \in Nat /\ boot # "start"
  BY <1>f DEF UplinkInv, UplinkTypes, UplinkTypeOK, OneNetwork
<1>b. boot' = boot \/ boot' = "noretry"
  BY DEF StaGotIp, StaDisconnected, StaStarted
<1>a. bits' = bits \/ (bits' = bits \union {"C"} /\ e \in LinkSignals)
  BY <1>t, <1>e, EventSets DEF StaGotIp, StaDisconnected, StaStarted
<1>1. OneNetwork'
  BY <1>s, <1>f, <1>w, <1>n, <1>b DEF UplinkInv, OneNetwork
<1>2. AddressFirst'
  BY <1>s, <1>f, <1>a, <1>b DEF UplinkInv, AddressFirst, PastBits
<1>3. LastWord'
  BY <1>s, <1>w DEF LastWord
<1>4. Retries'
  <2>0. Lost \subseteq StaSignals
    BY EventsApart, Zenon
  <2>1. CASE t = "GOT_IP"
    <3>1. retry' = 0 /\ boot' = boot /\ link' = link
      BY <1>t, <2>1 DEF StaGotIp
    <3>2. boot # "noretry"
      BY <1>f DEF Alive
    <3>3. Has(loopq', StaSignals) => link' = "off"
      BY <1>f, <3>1, Zenon DEF UplinkInv, Retries
    <3>4. Has(loopq', Lost) => losses >= 1
      BY <1>f, Zenon DEF UplinkInv, Retries
    <3>5. losses >= retry' /\ (Has(loopq', Lost) => losses >= retry' + 1)
      BY <1>n, <3>1, <3>4
    <3>6. wan' # "eth" /\ boot' # "noretry"
      BY <1>s, <1>w, <3>1, <3>2
    <3> QED
      BY <1>s, <1>f, <3>3, <3>4, <3>5, <3>6, Zenon DEF Retries
  <2>2. CASE t # "GOT_IP"
    <3>1. e \in StaSignals
      BY <1>t, <1>e, <2>2, EventSets
    <3>2. ~Has(loopq', StaSignals) /\ ~Has(loopq', Lost)
      BY <1>f, <2>0, <3>1, HasMore, Zenon
    <3>3. losses >= retry
      BY <1>f, <3>1, Zenon DEF UplinkInv, Retries
    <3>4. losses >= retry' /\ (boot' = "noretry" => losses > WIFI_MAXIMUM_RETRY)
      <4>1. CASE t = "STA_START"
        <5>1. retry' = 0 /\ boot' = boot
          BY <1>t, <4>1 DEF StaStarted
        <5> QED
          BY <1>f, <1>n, <5>1 DEF Alive
      <4>2. CASE t = "STA_DISCONNECTED"
        <5>1. Has(loopq, Lost) /\ ~Has(loopq, GotIp)
          BY <1>e, <1>f, <3>1, <4>2, EventSets
        <5>2. losses >= retry + 1
          BY <5>1 DEF UplinkInv, Retries
        <5>3. \/ retry' = retry + 1 /\ boot' = boot
              \/ ~(retry < WIFI_MAXIMUM_RETRY) /\ retry' = retry
          BY <1>t, <4>2 DEF StaDisconnected, RetryLeft
        <5> QED
          BY <1>f, <1>n, <5>2, <5>3 DEF Alive
      <4> QED
        BY <1>t, <2>2, <4>1, <4>2
    <3>5. wan' # "eth"
      BY <1>s, <1>w
    <3> QED
      BY <1>s, <1>f, <3>2, <3>4, <3>5, Zenon DEF Retries
  <2> QED
    BY <2>1, <2>2
<1> QED
  BY <1>1, <1>2, <1>3, <1>4 DEF NetInv

\* Switching the lamp keeps it.
LEMMA HandleLedNet == UplinkInv /\ HandleLed => NetInv'
<1> SUFFICES ASSUME UplinkInv, HandleLed PROVE NetInv'
  OBVIOUS
<1> DEFINE e == Head(loopq)
<1>s. /\ wan' = wan /\ address' = address /\ losses' = losses /\ hand' = hand /\ link' = link
      /\ boot' = boot /\ retry' = retry /\ crossedLed' = crossedLed /\ bits' = bits
      /\ leds' = [leds EXCEPT ![e.lamp] = e.n] /\ Handles("led")
  BY DEF HandleLed, netVars
<1>f. /\ e \in LoopEvents /\ e.type = "led" /\ Alive /\ ~hand.busy /\ loopq # <<>> /\ loopq' = Tail(loopq)
      /\ \A T : Has(loopq, T) <=> Has(loopq', T) \/ e \in T
      /\ \A T, V : LastIn(loopq, T, V) =>
             LastIn(loopq', T, V) /\ (e \in T /\ ~Has(loopq', T) => e \in V)
      /\ AtMostOne(loopq', StaSignals) /\ Before(loopq', GotIp, StaSignals)
  BY <1>s, Handled, Zenon
<1>l. leds \in [{"eth", "mqtt"} -> {0, 1}]
  BY DEF UplinkInv, UplinkTypes, UplinkTypeOK
<1>n. boot # "start"
  BY <1>f DEF UplinkInv, OneNetwork
<1>1. CASE e \in MqttLeds
  <2>1. leds'["eth"] = leds["eth"]
    BY <1>1, <1>l, <1>s DEF MqttLeds, Led
  <2>2. NetStays
    BY <1>s, <2>1 DEF NetStays
  <2>3. NetQueueKept
    BY <1>1, <1>f, KeptByTail DEF ClientPosts
  <2> QED
    BY <1>s, <1>n, <2>2, <2>3, NetKept
<1>2. CASE e \in EthLeds
  <2>e. e \notin LinkSignals /\ e \notin StaSignals /\ e \notin GotIp /\ e \notin Lost
    BY <1>2, EventsApart, Zenon
  <2>h. Has(loopq, EthLeds)
    BY <1>2, <1>f, Zenon
  <2>w. wan = "eth"
    BY <2>h DEF UplinkInv, OneNetwork, UplinkTypes, UplinkTypeOK
  <2>1. OneNetwork'
    BY <1>s, <1>f, <1>n, <2>w DEF UplinkInv, OneNetwork
  <2>2. AddressFirst'
    BY <1>s, <1>f, Zenon DEF UplinkInv, AddressFirst
  <2>3. LastWord'
    <3> SUFFICES ASSUME boot # "queuefull", address # "none"
                 PROVE  LastWord'
      BY <1>s, Zenon DEF LastWord
    <3>1. LastIn(loopq', LinkSignals, {Means(link = "ip")})
      BY <1>f, <2>w, Zenon DEF UplinkInv, LastWord
    <3>2. ASSUME ~Has(loopq', LinkSignals), ~crossedLed
          PROVE  /\ LastIn(loopq', EthLeds, {Led("eth", Shows(link = "ip"))})
                 /\ ~Has(loopq', EthLeds) => leds'["eth"] = Shows(link = "ip")
      <4>1. LastIn(loopq, EthLeds, {Led("eth", Shows(link = "ip"))})
        BY <1>f, <2>e, <2>w, <3>2, Zenon DEF UplinkInv, LastWord
      <4>2. LastIn(loopq', EthLeds, {Led("eth", Shows(link = "ip"))})
        BY <1>f, <4>1, Zenon
      <4>3. ~Has(loopq', EthLeds) => e = Led("eth", Shows(link = "ip"))
        BY <1>2, <1>f, <4>1
      <4>4. e = Led("eth", Shows(link = "ip")) => leds'["eth"] = Shows(link = "ip")
        BY <1>s, <1>l DEF Led
      <4> QED
        BY <4>2, <4>3, <4>4
    <3> QED
      BY <1>s, <1>f, <3>1, <3>2, Zenon DEF LastWord
  <2>4. Retries'
    <3>1. boot' # "noretry"
      BY <1>s, <1>f DEF Alive
    <3> QED
      BY <1>s, <1>f, <2>e, <3>1, Zenon DEF UplinkInv, Retries
  <2> QED
    BY <2>1, <2>2, <2>3, <2>4 DEF NetInv
<1> QED
  BY <1>1, <1>2, <1>f, EventKinds

\* The loop keeps the network's part of the invariant.
LEMMA LoopNet == UplinkInv /\ LoopSteps => NetInv'
<1> SUFFICES ASSUME UplinkInv, LoopSteps PROVE NetInv'
  OBVIOUS
<1>1. CASE EthGotIp \/ HandleDown
  <2>1. CASE EthGotIp
    BY <2>1, EthBitNet DEF EthGotIp
  <2>2. CASE HandleDown
    BY <2>2, EthBitNet DEF HandleDown
  <2> QED
    BY <1>1, <2>1, <2>2
<1>2. CASE HandleData \/ HandleReset
  <2>1. NetStays
    BY <1>2 DEF HandleData, HandleReset, netVars, NetStays
  <2>2. PICK t \in {"data", "SYSTEM_RESET"} : Handles(t)
    BY <1>2 DEF HandleData, HandleReset
  <2>3. /\ loopq # <<>> /\ loopq' = Tail(loopq) /\ Head(loopq) \in LoopEvents /\ Head(loopq).type = t
    BY <2>2, Handled, Zenon
  <2>4. Head(loopq) \in ClientPosts
    BY <2>2, <2>3, EventKinds, EventSets DEF ClientPosts
  <2>5. NetQueueKept
    BY <2>3, <2>4, KeptByTail
  <2>6. boot' # "start"
    <3>1. boot # "start"
      BY <2>3 DEF UplinkInv, OneNetwork
    <3> QED
      BY <2>1, <3>1 DEF NetStays
  <2> QED
    BY <2>1, <2>5, <2>6, NetKept
<1> QED
  BY <1>1, <1>2, HandlerPostsNet, StaHandlerNet, HandleLedNet, Zenon DEF LoopSteps

-----------------------------------------------------------------------------
(* The client's part.                                                       *)

ClientInv == ClientState /\ BitsTell /\ DataKept

\* app_main.
LEMMA MainClient == UplinkInv /\ MainSteps => ClientState' /\ BitsTell'
<1> SUFFICES ASSUME UplinkInv, MainSteps PROVE ClientState' /\ BitsTell'
  OBVIOUS
<1>k. UNCHANGED <<clients, mqev, mqpc, mqbuf>> /\ Alive
  BY MainKeeps
<1>c. ClientState /\ BitsTell
  BY DEF UplinkInv
<1>1. CASE StartEth \/ StartSta \/ EthWaitEnds \/ EthLedState \/ EthLedPost \/ StaWaitEnds
  <2>1. UNCHANGED <<broker, mbits, eaten>>
    BY <1>1 DEF StartEth, StartSta, EthWaitEnds, EthLedState, EthLedPost, StaWaitEnds, clientVars
  <2>2. ~Initialised /\ ~Initialised' /\ boot' \notin {"mwait", "mwake", "run"}
        /\ boot \notin {"mwait", "mwake", "run"}
    BY <1>1 DEF StartEth, StartSta, EthWaitEnds, EthLedState, EthLedPost, StaWaitEnds, Initialised
  <2>3. broker = "none" /\ ~eaten
    BY <1>k, <1>c, <2>2 DEF ClientState
  <2> QED
    BY <1>k, <1>c, <2>1, <2>2, <2>3, Zenon DEF ClientState, BitsTell
<1>2. CASE MqttStart
  <2>1. /\ boot = "mqtt" /\ boot' = "mstart" /\ mbits' = {} /\ broker' = "trying" /\ eaten' = eaten
    BY <1>2 DEF MqttStart
  <2>2. ~Initialised /\ Initialised' /\ boot' \notin {"mwait", "mwake", "run"}
    BY <2>1 DEF Initialised
  <2>3. broker = "none" /\ ~eaten /\ clients = 0 /\ mqev = <<>>
    BY <1>k, <1>c, <2>2, Zenon DEF ClientState
  <2> QED
    BY <1>k, <1>c, <2>1, <2>2, <2>3 DEF ClientState, BitsTell
<1>3. CASE MqttWait
  <2>1. /\ boot = "mstart" /\ boot' \in {"mwait", "mwake"} /\ mbits' = {} /\ broker' = broker
        /\ (eaten' <=> "F" \in mbits)
    BY <1>3 DEF MqttWait
  <2>2. Initialised /\ Initialised' /\ boot' \in {"mwait", "mwake", "run"} /\ ~eaten
    BY <1>k, <1>c, <2>1 DEF Initialised, ClientState
  <2>3. broker # "none"
    BY <1>k, <1>c, <2>1, <2>2, Zenon DEF ClientState
  <2>4. ClientState'
    BY <1>k, <1>c, <2>1, <2>2, <2>3, Zenon DEF ClientState
  <2>5. BitsTell'
    BY <1>k, <1>c, <2>1, <2>2 DEF BitsTell
  <2> QED
    BY <2>4, <2>5
<1>4. CASE MqttStarted
  <2>1. boot = "mwake" /\ boot' = "run" /\ UNCHANGED <<broker, mbits, eaten>>
    BY <1>4 DEF MqttStarted
  <2>2. Initialised /\ Initialised' /\ boot' \in {"mwait", "mwake", "run"}
    BY <2>1 DEF Initialised
  <2> QED
    BY <1>k, <1>c, <2>1, <2>2, Zenon DEF ClientState, BitsTell
<1> QED
  BY <1>1, <1>2, <1>3, <1>4, Zenon DEF MainSteps

\* The link and the event loop.
LEMMA OtherClient == UplinkInv /\ (LinkSteps \/ LoopSteps) => ClientState' /\ BitsTell'
<1> SUFFICES ASSUME UplinkInv, LinkSteps \/ LoopSteps PROVE ClientState' /\ BitsTell'
  OBVIOUS
<1>k. /\ UNCHANGED <<broker, mqev, mqpc, mbits, mqbuf, clients, eaten>>
      /\ Alive /\ (boot' = boot \/ boot' \in {"queuefull", "noretry"})
  BY LinkKeeps, LoopKeeps
<1>c. ClientState /\ BitsTell
  BY DEF UplinkInv
<1>1. CASE boot' = boot
  BY <1>k, <1>c, <1>1, Zenon DEF ClientState, BitsTell, Alive, Initialised
<1>2. CASE boot' \in {"queuefull", "noretry"}
  <2>1. ~Initialised' /\ ~Alive'
    BY <1>2 DEF Initialised, Alive
  <2> QED
    BY <1>k, <1>c, <2>1, Zenon DEF ClientState, BitsTell
<1> QED
  BY <1>k, <1>1, <1>2

\* The client's task begins with an event.
LEMMA EventsClient ==
  UplinkInv /\ (ClientConnects \/ ClientFails \/ ClientLoses \/ ClientData) => ClientState' /\ BitsTell'
<1> SUFFICES ASSUME UplinkInv, ClientConnects \/ ClientFails \/ ClientLoses \/ ClientData
             PROVE  ClientState' /\ BitsTell'
  OBVIOUS
<1>k. /\ Alive /\ mqev = <<>> /\ broker # "none" /\ broker' # "none" /\ UNCHANGED <<boot, mqpc, mbits, eaten>>
      /\ \/ mqev' = <<"CONNECTED">> /\ broker' = "connected"
         \/ mqev' = <<"ERROR", "DISCONNECTED">> /\ broker' = "trying"
         \/ mqev' = <<"DISCONNECTED">> /\ broker' = "trying"
         \/ mqev' = <<"DATA">> /\ broker' = "connected" /\ broker = "connected"
  BY DEF ClientConnects, ClientFails, ClientLoses, ClientData, ClientEvents, netVars
<1>c. ClientState /\ BitsTell
  BY DEF UplinkInv
<1>p. mqpc = "bits"
  BY <1>k, <1>c DEF ClientState, UplinkInv, UplinkTypes, UplinkTypeOK
<1>i. Initialised /\ Initialised'
  BY <1>k, <1>c DEF ClientState, Initialised
<1>1. ClientState'
  BY <1>k, <1>c, <1>p, <1>i DEF ClientState, Initialised, Alive
<1>2. BitsTell'
  <2>1. broker = "connected" => "F" \notin mbits
    BY <1>k, <1>c, <1>i DEF BitsTell
  <2> QED
    BY <1>k, <1>p, <1>i, <2>1 DEF BitsTell
<1> QED
  BY <1>1, <1>2

\* The handler sets the bits of its event.
LEMMA BitsClient == UplinkInv /\ MqttBits => ClientState' /\ BitsTell'
<1> SUFFICES ASSUME UplinkInv, MqttBits PROVE ClientState' /\ BitsTell'
  OBVIOUS
<1>c. ClientState /\ BitsTell
  BY DEF UplinkInv
<1>k. /\ Alive /\ mqpc = "bits" /\ mqev # <<>> /\ Head(mqev) # "DATA" /\ mqpc' = "led"
      /\ UNCHANGED <<broker, mqev, clients>>
  BY DEF MqttBits
<1>e. /\ mqev \in {<<"CONNECTED">>, <<"DISCONNECTED">>, <<"ERROR", "DISCONNECTED">>}
      /\ Head(mqev) = "CONNECTED" <=> broker = "connected"
      /\ broker # "none"
  <2>1. mqev \in {<<"CONNECTED">>, <<"DISCONNECTED">>, <<"ERROR", "DISCONNECTED">>}
    BY <1>k, <1>c DEF ClientState
  <2>2. /\ mqev = <<"CONNECTED">> => Head(mqev) = "CONNECTED" /\ broker = "connected"
        /\ mqev = <<"DISCONNECTED">> => Head(mqev) = "DISCONNECTED" /\ broker = "trying"
        /\ mqev = <<"ERROR", "DISCONNECTED">> => Head(mqev) = "ERROR" /\ broker = "trying"
    <3>1. /\ mqev = <<"CONNECTED">> => broker = "connected"
          /\ mqev \in {<<"DISCONNECTED">>, <<"ERROR", "DISCONNECTED">>} => broker = "trying"
      BY <1>c, Zenon DEF ClientState
    <3> QED
      BY <3>1
  <2> QED
    BY <2>1, <2>2
<1> DEFINE b == AfterEvent(Head(mqev))
<1>b. b \in {"C", "F"} /\ (b = "C" <=> broker = "connected")
  BY <1>e DEF AfterEvent
<1>s. SetBit(b, IF b = "C" THEN "F" ELSE "C")
  BY DEF MqttBits
<1>i. Initialised
  BY <1>k, <1>c, <1>e DEF ClientState
<1>1. CASE boot = "mwait"
  <2>1. boot' = "mwake" /\ mbits' = {} /\ (eaten' <=> b = "F")
    BY <1>1, <1>s DEF SetBit
  <2>2. Initialised' /\ boot' \in {"mwait", "mwake", "run"}
    BY <2>1 DEF Initialised
  <2>3. ClientState'
    BY <1>k, <1>c, <1>e, <2>2 DEF ClientState
  <2>4. BitsTell'
    BY <1>k, <1>b, <2>1 DEF BitsTell
  <2> QED
    BY <2>3, <2>4
<1>2. CASE boot # "mwait"
  <2>1. boot' = boot /\ ~eaten' /\ mbits' = (mbits \ {IF b = "C" THEN "F" ELSE "C"}) \union {b}
    BY <1>2, <1>s DEF SetBit
  <2>2. Initialised'
    BY <1>i, <2>1 DEF Initialised
  <2>3. ClientState'
    BY <1>k, <1>c, <1>e, <2>1, <2>2 DEF ClientState
  <2>4. b = "C" => "F" \notin mbits'
    BY <2>1
  <2>5. b = "F" => "F" \in mbits'
    BY <2>1
  <2>6. BitsTell'
    BY <1>k, <1>b, <2>4, <2>5 DEF BitsTell
  <2> QED
    BY <2>3, <2>6
<1> QED
  BY <1>1, <1>2

\* The handler goes on and ends.
LEMMA HandlerClient == UplinkInv /\ (MqttLed \/ MqttData \/ MqttDataEnds) => ClientState' /\ BitsTell'
<1> SUFFICES ASSUME UplinkInv, MqttLed \/ MqttData \/ MqttDataEnds PROVE ClientState' /\ BitsTell'
  OBVIOUS
<1>c. ClientState /\ BitsTell
  BY DEF UplinkInv
<1>k. /\ UNCHANGED <<boot, broker, clients, mbits, eaten>>
      /\ \/ mqpc = "led" /\ mqpc' = "bits" /\ mqev' = Tail(mqev)
         \/ mqpc = "bits" /\ mqpc' = "delay" /\ mqev' = mqev /\ mqev # <<>> /\ Head(mqev) = "DATA"
         \/ mqpc = "delay" /\ mqpc' = "bits" /\ mqev' = Tail(mqev)
  BY DEF MqttLed, MqttData, MqttDataEnds, MqttRest, netVars
<1>e. /\ mqev # <<>>
      /\ mqpc' = "delay" => mqev = <<"DATA">> /\ mqev' = <<"DATA">>
      /\ mqpc = "delay" => mqev = <<"DATA">> /\ mqev' = <<>>
      /\ mqpc = "led" => \/ mqev \in {<<"CONNECTED">>, <<"DISCONNECTED">>} /\ mqev' = <<>>
                         \/ mqev = <<"ERROR", "DISCONNECTED">> /\ mqev' = <<"DISCONNECTED">>
  <2>1. mqpc = "delay" => mqev = <<"DATA">>
    BY <1>c, Zenon DEF ClientState
  <2>2. mqpc = "led" => mqev \in {<<"CONNECTED">>, <<"DISCONNECTED">>, <<"ERROR", "DISCONNECTED">>}
    BY <1>c DEF ClientState
  <2>3. mqev # <<>> /\ Head(mqev) = "DATA" => mqev = <<"DATA">>
    BY <1>c DEF ClientState
  <2>4. /\ Tail(<<"CONNECTED">>) = <<>> /\ Tail(<<"DISCONNECTED">>) = <<>> /\ Tail(<<"DATA">>) = <<>>
        /\ Tail(<<"ERROR", "DISCONNECTED">>) = <<"DISCONNECTED">>
        /\ <<"DATA">> # <<>> /\ <<"CONNECTED">> # <<>> /\ <<"DISCONNECTED">> # <<>>
        /\ <<"ERROR", "DISCONNECTED">> # <<>>
    OBVIOUS
  <2>5. CASE mqpc = "led" /\ mqpc' = "bits" /\ mqev' = Tail(mqev)
    BY <2>2, <2>4, <2>5
  <2>6. CASE mqpc = "bits" /\ mqpc' = "delay" /\ mqev' = mqev /\ mqev # <<>> /\ Head(mqev) = "DATA"
    BY <2>3, <2>6
  <2>7. CASE mqpc = "delay" /\ mqpc' = "bits" /\ mqev' = Tail(mqev)
    BY <2>1, <2>4, <2>7
  <2> QED
    BY <1>k, <2>5, <2>6, <2>7, Zenon
<1>1. ClientState'
  BY <1>k, <1>c, <1>e DEF ClientState, Alive, Initialised
<1>2. BitsTell'
  <2>1. Initialised' = Initialised
    BY <1>k DEF Initialised
  <2>2. mqpc = "bits" => mqev \in {<<>>, <<"DATA">>}
    BY <1>k, <1>e
  <2>3. Initialised => /\ broker = "connected" => "F" \notin mbits
                       /\ "F" \notin mbits => broker = "connected" \/ clients = 0 \/ eaten
    BY <1>c, <2>2 DEF BitsTell
  <2> QED
    BY <1>k, <2>1, <2>3, Zenon DEF BitsTell
<1> QED
  BY <1>1, <1>2

\* The command in the buffer.
LEMMA DataKeptStep == UplinkInv /\ UplinkNext => DataKept'
<1> SUFFICES ASSUME UplinkInv, UplinkNext, ~late'
             PROVE  /\ ~misread'
                    /\ mqpc' # "delay" => ~Has(loopq', Datas)
                    /\ LastIn(loopq', Datas, {MQTT_DATA(mqbuf')}) /\ AtMostOne(loopq', Datas)
  BY DEF DataKept
<1>l. ~late
  <2>1. CASE MqttDataEnds
    BY <2>1 DEF MqttDataEnds
  <2>2. CASE UplinkNext /\ ~MqttDataEnds
    <3>1. late' = late
      <4>1. CASE MainSteps \/ LinkSteps \/ LoopSteps
        BY <4>1, MainKeeps, LinkKeeps, LoopKeeps
      <4>2. CASE ClientSteps
        BY <2>2, <4>2 DEF ClientSteps, ClientConnects, ClientFails, ClientLoses, ClientData, ClientEvents,
           MqttBits, MqttLed, MqttData
      <4> QED
        BY <4>1, <4>2, StepsByActor
    <3> QED
      BY <3>1
  <2> QED
    BY <2>1, <2>2
<1>d. /\ ~misread
      /\ mqpc # "delay" => ~Has(loopq, Datas)
      /\ LastIn(loopq, Datas, {MQTT_DATA(mqbuf)}) /\ AtMostOne(loopq, Datas)
  BY <1>l DEF UplinkInv, DataKept
<1>q. loopq \in Seq(LoopEvents)
  BY QueueTypes
<1>n. ASSUME NEW e \in LoopEvents, e \notin Datas, loopq' = Append(loopq, e)
      PROVE  /\ Has(loopq', Datas) <=> Has(loopq, Datas)
             /\ LastIn(loopq', Datas, {MQTT_DATA(mqbuf)}) /\ AtMostOne(loopq', Datas)
  BY <1>d, <1>q, <1>n, HasAppend, LastInAppend, AtMostOneAppend, Zenon
<1>o. LinkSignals \subseteq LoopEvents /\ StaSignals \subseteq LoopEvents /\ EthLeds \subseteq LoopEvents
      /\ MqttLeds \subseteq LoopEvents /\ Resets \subseteq LoopEvents /\ Datas \subseteq LoopEvents
  BY DEF LoopEvents
<1>x. \A e \in LinkSignals \union StaSignals \union EthLeds \union MqttLeds \union Resets :
          e \in LoopEvents /\ e \notin Datas
  BY <1>o, EventsApart, Zenon
<1>v. Led("eth", ld) \in EthLeds
  <2>1. ld \in {0, 1}
    BY DEF UplinkInv, UplinkTypes, UplinkTypeOK
  <2> QED
    BY <2>1, EventSets
<1>1. CASE MainSteps \/ LinkSteps \/ HandlerPosts
  <2>1. UNCHANGED <<misread, mqpc, mqbuf>>
    <3>1. CASE MainSteps \/ LinkSteps
      BY <3>1, MainKeeps, LinkKeeps
    <3>2. CASE HandlerPosts
      BY <3>2 DEF HandlerPosts, clientVars
    <3> QED
      BY <1>1, <3>1, <3>2
  <2>2. \/ loopq' = loopq
        \/ loopq' = Append(loopq, Signal("STA_START")) \/ loopq' = Append(loopq, Signal("STA_DISCONNECTED"))
        \/ loopq' = Append(loopq, Signal("GOT_IP")) \/ loopq' = Append(loopq, Signal("ETH_DOWN"))
        \/ loopq' = Append(loopq, Led("eth", ld))
    BY <1>1 DEF MainSteps, StartEth, StartSta, EthWaitEnds, EthLedState, EthLedPost, StaWaitEnds,
       MqttStart, MqttWait, MqttStarted, LinkSteps, LinkUp, LinkAddress, EthLost, StaLost, HandlerPosts, Post
  <2>3. loopq' = loopq \/ \E e \in LoopEvents : e \notin Datas /\ loopq' = Append(loopq, e)
    BY <1>x, <1>v, <2>2, EventSets, Zenon
  <2> QED
    BY <1>d, <1>n, <2>1, <2>3, Zenon
<1>2. CASE LoopSteps /\ ~HandlerPosts
  <2>1. PICK t : Handles(t)
    BY <1>2, Zenon DEF LoopSteps, EthGotIp, HandleDown, StaGotIp, StaDisconnected, StaStarted, HandleLed,
       HandleData, HandleReset
  <2>2. /\ loopq # <<>> /\ loopq' = Tail(loopq) /\ Head(loopq) \in LoopEvents
        /\ \A T : Has(loopq, T) <=> Has(loopq', T) \/ Head(loopq) \in T
        /\ \A T, V : LastIn(loopq, T, V) =>
              LastIn(loopq', T, V) /\ (Head(loopq) \in T /\ ~Has(loopq', T) => Head(loopq) \in V)
    BY <2>1, Handled, Zenon
  <2>3. AtMostOne(loopq', Datas) /\ (Head(loopq) \in Datas => ~Has(loopq', Datas))
    BY <1>d, <1>q, <2>2, AtMostOneTail, Zenon
  <2>4. mqpc' = mqpc /\ mqbuf' = mqbuf
    BY <1>2, LoopKeeps
  <2>5. ~misread'
    <3>1. CASE HandleData
      <4>1. misread' = (misread \/ mqbuf # Head(loopq).n) /\ Head(loopq).type = "data"
        BY <3>1 DEF HandleData, Handles
      <4>2. Head(loopq) \in Datas
        BY <2>2, <4>1, EventKinds
      <4>3. Head(loopq) = MQTT_DATA(mqbuf)
        BY <1>d, <2>2, <2>3, <4>2
      <4>4. Head(loopq).n = mqbuf
        BY <4>3 DEF MQTT_DATA
      <4> QED
        BY <1>d, <4>1, <4>4, Zenon
    <3>2. CASE ~HandleData
      <4>1. misread' = misread
        BY <1>2, <3>2 DEF LoopSteps, EthGotIp, HandleDown, StaGotIp, StaDisconnected, StaStarted, HandleLed,
           HandleReset, EthBit
      <4> QED
        BY <1>d, <4>1
    <3> QED
      BY <3>1, <3>2
  <2> QED
    BY <1>d, <2>2, <2>3, <2>4, <2>5, Zenon
<1>3. CASE ClientConnects \/ ClientFails \/ ClientLoses \/ ClientData
  <2>1. UNCHANGED <<misread, mqpc, loopq>> /\ mqev = <<>>
    BY <1>3 DEF ClientConnects, ClientFails, ClientLoses, ClientData, ClientEvents
  <2>2. mqpc # "delay"
    BY <2>1 DEF UplinkInv, ClientState
  <2>3. ~Has(loopq, Datas)
    BY <1>d, <2>2
  <2>4. \A V : LastIn(loopq, Datas, V)
    BY <2>3, LastOfNone, Zenon
  <2> QED
    BY <1>d, <2>1, <2>2, <2>3, <2>4, Zenon
<1>4. CASE MqttBits \/ MqttLed
  <2>1. UNCHANGED <<misread, mqbuf>> /\ mqpc # "delay" /\ mqpc' # "delay"
    BY <1>4 DEF MqttBits, MqttLed, MqttRest
  <2>2. \/ loopq' = loopq \/ loopq' = Append(loopq, Signal("SYSTEM_RESET"))
        \/ loopq' = Append(loopq, Led("mqtt", 0)) \/ loopq' = Append(loopq, Led("mqtt", 1))
    BY <1>4 DEF MqttBits, MqttLed, Post
  <2>3. loopq' = loopq \/ \E e \in LoopEvents : e \notin Datas /\ loopq' = Append(loopq, e)
    BY <1>x, <2>2, EventSets, Zenon
  <2> QED
    BY <1>d, <1>n, <2>1, <2>3, Zenon
<1>5. CASE MqttData
  <2>1. UNCHANGED <<misread, mqbuf>> /\ mqpc = "bits" /\ mqpc' = "delay"
        /\ loopq' = Append(loopq, MQTT_DATA(mqbuf))
    BY <1>5 DEF MqttData, MqttRest, Post
  <2>2. MQTT_DATA(mqbuf) \in Datas
    <3>1. mqbuf \in Nat
      BY DEF UplinkInv, UplinkTypes
    <3> QED
      BY <3>1, EventSets
  <2>3. ~Has(loopq, Datas)
    BY <1>d, <2>1
  <2>4. AtMostOne(loopq', Datas)
    BY <1>d, <1>o, <1>q, <2>1, <2>2, <2>3, AtMostOneAppend, Zenon
  <2>5. LastIn(loopq', Datas, {MQTT_DATA(mqbuf)})
    <3>1. MQTT_DATA(mqbuf) \in {MQTT_DATA(mqbuf)}
      OBVIOUS
    <3> QED
      BY <1>d, <1>o, <1>q, <2>1, <2>2, <3>1, LastInAppend, Zenon
  <2> QED
    BY <1>d, <2>1, <2>4, <2>5, Zenon
<1>6. CASE MqttDataEnds
  <2>1. UNCHANGED <<misread, mqbuf, loopq>> /\ mqpc' = "bits" /\ ~Waited
    BY <1>6 DEF MqttDataEnds, MqttRest
  <2>2. ~Has(loopq, Datas)
    <3>1. \A e \in Datas : e.type = "data"
      BY DEF Datas, MQTT_DATA
    <3> QED
      BY <2>1, <3>1 DEF Has, Waited
  <2> QED
    BY <1>d, <2>1, <2>2, Zenon
<1> QED
  BY <1>1, <1>2, <1>3, <1>4, <1>5, <1>6, StepsByActor, Zenon DEF ClientSteps

-----------------------------------------------------------------------------
(* The uplink's invariant.                                                  *)

\* It holds at the start.
LEMMA UplinkInvInit == UplinkInit => UplinkInv
<1> SUFFICES ASSUME UplinkInit PROVE UplinkInv
  OBVIOUS
<1> USE UplinkAssumption
<1>e. \A T, U, V : /\ ~Has(loopq, T) /\ LastIn(loopq, T, V)
                   /\ AtMostOne(loopq, T) /\ Before(loopq, T, U)
  <2>1. loopq = <<>>
    BY DEF UplinkInit
  <2> QED
    BY <2>1, EmptyQueue, Zenon
<1>1. UplinkTypeOK
  BY DEF UplinkInit, UplinkTypeOK
<1>2. {crossedLed, eaten, late, misread} \subseteq BOOLEAN
  BY Zenon DEF UplinkInit
<1>3. /\ loopq \in Seq(LoopEvents) /\ address \in {"none", "down", "ip"} /\ losses \in Nat
      /\ clients \in Nat /\ mqbuf \in Nat /\ errors \in Nat /\ linked \in Nat /\ hand = NoHand
  BY DEF UplinkInit
<1>4. UplinkTypes
  BY <1>1, <1>2, <1>3, Zenon DEF UplinkTypes
<1>5. OneNetwork
  BY <1>e DEF UplinkInit, OneNetwork, NoHand
<1>6. AddressFirst
  BY <1>e DEF UplinkInit, AddressFirst, NoHand, PastBits
<1>7. LastWord
  BY DEF UplinkInit, LastWord
<1>8. Retries
  <2>1. losses = 0 /\ retry = 0 /\ boot = "start" /\ 0 >= 0
    BY DEF UplinkInit
  <2> QED
    BY <1>e, <2>1, Zenon DEF Retries
<1>9. ClientState
  BY DEF UplinkInit, ClientState, Initialised
<1>10. BitsTell
  BY DEF UplinkInit, BitsTell, Initialised
<1>11. DataKept
  BY <1>e DEF UplinkInit, DataKept
<1> QED
  BY <1>4, <1>5, <1>6, <1>7, <1>8, <1>9, <1>10, <1>11, Zenon DEF UplinkInv

\* Every step keeps it.
LEMMA UplinkInvStep == UplinkInv /\ [UplinkNext]_uplinkVars => UplinkInv'
<1>1. ASSUME UplinkInv, UplinkNext PROVE UplinkInv'
  <2>1. NetInv'
    BY <1>1, StepsByActor, MainNet, LinkNet, LoopNet, ClientNet, Zenon
  <2>2. ClientState' /\ BitsTell'
    BY <1>1, StepsByActor, MainClient, OtherClient, EventsClient, BitsClient, HandlerClient, Zenon DEF ClientSteps
  <2>3. UplinkTypes' /\ DataKept'
    BY <1>1, UplinkTypesStep, DataKeptStep, Zenon
  <2> QED
    BY <2>1, <2>2, <2>3, Zenon DEF UplinkInv, NetInv
<1>2. ASSUME UplinkInv, UNCHANGED uplinkVars PROVE UplinkInv'
  <2>1. /\ UNCHANGED <<wan, boot, link, bits, ld, retry, linked, address, losses, crossedLed>>
        /\ UNCHANGED <<loopq, hand, leds, misread>>
        /\ UNCHANGED <<broker, mqev, mqpc, mbits, errors, mqbuf, clients, eaten, late>>
    BY <1>2 DEF uplinkVars, netVars, clientVars
  <2>t. UplinkTypes
    BY <1>2 DEF UplinkInv
  <2>a. UplinkTypeOK'
    BY <2>1, <2>t DEF UplinkTypes, UplinkTypeOK
  <2>b. {crossedLed, eaten, late, misread}' \subseteq BOOLEAN
    BY <2>1, <2>t, Zenon DEF UplinkTypes
  <2>2. UplinkTypes'
    BY <2>1, <2>t, <2>a, <2>b, Zenon DEF UplinkTypes, NoHand
  <2>3. OneNetwork' /\ AddressFirst'
    BY <1>2, <2>1, Zenon DEF UplinkInv, OneNetwork, AddressFirst
  <2>4. LastWord'
    BY <1>2, <2>1, Zenon DEF UplinkInv, LastWord
  <2>5. Retries'
    BY <1>2, <2>1, Zenon DEF UplinkInv, Retries
  <2>6. ClientState' /\ BitsTell' /\ DataKept'
    BY <1>2, <2>1, Zenon DEF UplinkInv, ClientState, BitsTell, DataKept, Alive, Initialised
  <2> QED
    BY <2>2, <2>3, <2>4, <2>5, <2>6 DEF UplinkInv
<1> QED
  BY <1>1, <1>2, Zenon

\* The reports are true.
LEMMA UplinkInvTruth == UplinkInv => LinkTruth /\ MqttTruth
<1> SUFFICES ASSUME UplinkInv PROVE LinkTruth /\ MqttTruth
  OBVIOUS
<1>1. ASSUME wan = "eth", boot = "run", loopq = <<>>, ~hand.busy, ~crossedLed
      PROVE  leds["eth"] = 1 <=> link # "ip"
  <2>1. address # "none" /\ boot # "queuefull"
    BY <1>1 DEF UplinkInv, AddressFirst, PastBits
  <2>2. ~Has(loopq, LinkSignals) /\ ~Has(loopq, EthLeds)
    BY <1>1, EmptyQueue, Zenon
  <2>3. leds["eth"] = Shows(link = "ip")
    BY <1>1, <2>1, <2>2, Zenon DEF UplinkInv, LastWord
  <2> QED
    BY <2>3 DEF Shows
<1>2. Initialised => address # "none"
  BY DEF UplinkInv, AddressFirst, PastBits, Initialised
<1>3. boot = "noretry" => losses > WIFI_MAXIMUM_RETRY
  BY DEF UplinkInv, Retries
<1>4. mqev = <<>> /\ Initialised =>
          /\ broker = "connected" => is_avaible
          /\ is_avaible => broker = "connected" \/ clients = 0 \/ eaten
  BY Zenon DEF UplinkInv, BitsTell, is_avaible
<1>5. misread => late
  BY DEF UplinkInv, DataKept
<1> QED
  BY <1>1, <1>2, <1>3, <1>4, <1>5, Zenon DEF LinkTruth, MqttTruth

-----------------------------------------------------------------------------
(* The least of some numbers.                                              *)

\* Some natural numbers, not none, have a least one.
LEMMA LeastNumber ==
  ASSUME NEW S, S \subseteq Nat, S # {}
  PROVE  \E i \in S : \A j \in S : i <= j
<1> DEFINE U(i) == {j \in S : j <= i}
           F == {U(i) : i \in S}
<1>1. \A i \in S : U(i) \in SUBSET Nat /\ IsFiniteSet(U(i))
  <2> SUFFICES ASSUME NEW i \in S PROVE U(i) \in SUBSET Nat /\ IsFiniteSet(U(i))
    BY Zenon
  <2>1. U(i) \in SUBSET Nat /\ i \in Nat /\ \A s \in U(i) : s <= i
    OBVIOUS
  <2>2. IsFiniteSet(U(i))
    BY <2>1, FS_BoundedSetOfNaturals, Zenon
  <2> QED
    BY <2>1, <2>2
<1>2. F \subseteq FiniteSubsetsOf(Nat) /\ F # {}
  BY <1>1 DEF FiniteSubsetsOf
<1>3. IsWellFoundedOn(StrictSubsetOrdering(Nat), FiniteSubsetsOf(Nat))
  BY FS_StrictSubsetOrderingWellFounded, Zenon
<1>4. \E x \in F : \A y \in F : ~(<<y, x>> \in StrictSubsetOrdering(Nat))
  <2> HIDE DEF F
  <2> QED
    BY <1>2, <1>3, WFMin, Zenon
<1>5. PICK i \in S : \A y \in F : ~(<<y, U(i)>> \in StrictSubsetOrdering(Nat))
  BY <1>4, Zenon
<1>6. ASSUME NEW j \in S, ~(i <= j) PROVE FALSE
  <2>0. i \in Nat /\ j \in Nat /\ j <= i /\ i <= i
    BY <1>6
  <2>1. i \in U(i) /\ i \notin U(j) /\ U(j) \subseteq U(i)
    <3>1. i \in U(i) /\ i \notin U(j)
      BY <1>6, <2>0, Zenon
    <3>2. ASSUME NEW k \in U(j) PROVE k \in U(i)
      <4>1. k \in S /\ k <= j /\ k \in Nat
        OBVIOUS
      <4>2. k <= i
        BY <4>1, <2>0
      <4> QED
        BY <4>1, <4>2, Zenon
    <3> QED
      BY <3>1, <3>2, Zenon
  <2>2. <<U(j), U(i)>> \in StrictSubsetOrdering(Nat)
    <3>1. U(j) \in SUBSET Nat /\ U(i) \in SUBSET Nat /\ U(j) # U(i)
      BY <1>1, <2>1, Zenon
    <3> HIDE DEF U
    <3> QED
      BY <2>1, <3>1 DEF StrictSubsetOrdering
  <2> QED
    BY <1>5, <2>2, Zenon
<1> QED
  BY <1>6, Zenon

-----------------------------------------------------------------------------
(* Reception over ESP-NOW: what the queue and the slots hold of a peer.     *)

Room == [1 .. MaxTotal -> 0 .. MaxIncoming]

RecvTypes ==
    /\ receive_queue \in Seq(Frames) /\ Len(receive_queue) <= QUEUE_SIZE
    /\ out \in [Peers -> [msg : 0 .. MaxIncoming, total : 0 .. MaxTotal, sent : 0 .. MaxTotal]]
    /\ \A p \in Peers : out[p].sent <= out[p].total /\ (out[p].total # 0 => out[p].msg # 0)
    /\ paket \in [Slots -> {FreeSlot} \union [id : Peers, size : 1 .. MaxTotal, data : Room]]
    /\ rtask \in {"run", "dead"} /\ wild \in BOOLEAN /\ spoilt \subseteq Peers
    /\ started \in 0 .. MaxIncoming
    /\ got = <<>> \/ got \in Frames \X Room

FramesOf(p) == {f \in Frames : f.from = p}

\* The packet that comes after another one: the next of the message, or the
\* first of the next message.
Follows ==
    {g \in Frames \X Frames :
        IF g[1].pk < g[1].total THEN g[2] = [g[1] EXCEPT !.pk = @ + 1] ELSE g[2].pk = 1}

\* k packets of message m of t packets were taken from p, and no other packet.
Upto(k, m) == [n \in 1 .. MaxTotal |-> IF n <= k THEN m ELSE 0]
Held(p, m, t, k) ==
    IF k \in {0, t} THEN \A i \in Slots : paket[i].id # p
    ELSE \E i \in Slots : paket[i] = [id |-> p, size |-> t, data |-> Upto(k, m)]

\* The frames that may come next from p, and the one p may have sent last.
Expected(p) == {f \in FramesOf(p) : f.pk <= f.total /\ Held(p, f.msg, f.total, f.pk - 1)}
Sent(p) == {f \in FramesOf(p) : IF out[p].sent = 0 THEN f.pk = f.total
                                 ELSE f = FrameOf(p, out[p].sent)}

\* The slot of a peer, its frames in the queue and what it sends next make one
\* unbroken row of packets.
Orderly(p) ==
    /\ Adjacent(receive_queue, FramesOf(p), Follows)
    /\ FirstIn(receive_queue, FramesOf(p), Expected(p))
    /\ LastIn(receive_queue, FramesOf(p), Sent(p))
    /\ ~Has(receive_queue, FramesOf(p)) => Held(p, out[p].msg, out[p].total, out[p].sent)

OneSlotEach == \A i, j \in Slots : paket[i].id = paket[j].id /\ paket[i].id # 0 => i = j

NoSlotLeft ==
    rtask = "dead" =>
        receive_queue # <<>> /\ \A i \in Slots : paket[i].id \notin {0, Head(receive_queue).from}

RecvInv ==
    /\ RecvTypes /\ OneSlotEach /\ CleanUntilSpoilt /\ NoSlotLeft
    /\ \A p \in Peers \ spoilt : Orderly(p)

-----------------------------------------------------------------------------
(* The slot that findpk and findfreepk choose.                              *)

\* The lowest of some slots is one of them.
LEMMA LowestIsOne ==
  ASSUME NEW S \in SUBSET Slots, S # {}
  PROVE  LowestOf(S) \in S
<1>1. S \subseteq Nat
  BY DEF Slots
<1>2. \E i \in S : \A j \in S : i <= j
  BY <1>1, LeastNumber, Zenon
<1> QED
  BY <1>2, Zenon DEF LowestOf

\* A packet goes to the slot of its peer or, when it has none, to a free one;
\* it finds none only when every slot is held by another peer.
LEMMA SlotChosen ==
  ASSUME NEW p
  PROVE  /\ SlotFor(p) # 0 =>
              /\ SlotFor(p) \in Slots
              /\ \/ paket[SlotFor(p)].id = p
                 \/ paket[SlotFor(p)].id = 0 /\ \A i \in Slots : paket[i].id # p
         /\ SlotFor(p) = 0 => \A i \in Slots : paket[i].id \notin {0, p}
<1> DEFINE mine == {i \in Slots : paket[i].id = p}
           free == {i \in Slots : paket[i].id = 0}
<1>1. SlotFor(p) = IF mine # {} THEN LowestOf(mine) ELSE IF free # {} THEN LowestOf(free) ELSE 0
  BY Zenon DEF SlotFor
<1>2. 0 \notin Slots
  BY DEF Slots
<1>3. mine \in SUBSET Slots /\ free \in SUBSET Slots
  BY Zenon
<1>4. CASE mine # {}
  <2>1. SlotFor(p) \in mine
    BY <1>1, <1>3, <1>4, LowestIsOne, Zenon
  <2> QED
    BY <2>1, <1>2, Zenon
<1>5. CASE mine = {} /\ free # {}
  <2>1. SlotFor(p) = LowestOf(free)
    BY <1>1, <1>5, Zenon
  <2>2. SlotFor(p) \in free
    BY <2>1, <1>3, <1>5, LowestIsOne, Zenon
  <2> QED
    BY <2>2, <1>2, <1>5, Zenon
<1>6. CASE mine = {} /\ free = {}
  BY <1>1, <1>6
<1> QED
  BY <1>4, <1>5, <1>6, Zenon

-----------------------------------------------------------------------------
(* Types.                                                                   *)

\* A packet of a peer is a frame, and names the peer's message.
LEMMA FrameIsFrame ==
  ASSUME RecvTypes, NEW p \in Peers, NEW k \in 1 .. out[p].total
  PROVE  /\ FrameOf(p, k) \in Frames /\ FrameOf(p, k) \in FramesOf(p)
         /\ FrameOf(p, k).pk = k /\ FrameOf(p, k).total = out[p].total
         /\ FrameOf(p, k).msg = out[p].msg /\ FrameOf(p, k).from = p
<1> USE RecvAssumption
<1>1. /\ out[p].msg \in 0 .. MaxIncoming /\ out[p].total \in 0 .. MaxTotal
      /\ out[p].total # 0 => out[p].msg # 0
  BY DEF RecvTypes
<1>2. out[p].msg \in 1 .. MaxIncoming /\ out[p].total \in 1 .. MaxTotal /\ k \in 1 .. MaxTotal
  BY <1>1
<1>3. FrameOf(p, k) \in Frames
  BY <1>2 DEF FrameOf, Frames
<1> QED
  BY <1>3 DEF FrameOf, FramesOf

\* A packet put in the queue is there, or its peer is spoilt.
LEMMA QueuedTypes ==
  ASSUME RecvTypes, NEW f \in Frames, NEW S \in SUBSET Peers, Queued(f, S)
  PROVE  /\ receive_queue' \in Seq(Frames) /\ Len(receive_queue') <= QUEUE_SIZE
         /\ spoilt' \subseteq Peers /\ spoilt \subseteq spoilt'
         /\ \/ receive_queue' = Append(receive_queue, f) /\ spoilt' = spoilt \union S
            \/ receive_queue' = receive_queue /\ f.from \in spoilt'
<1> USE RecvAssumption
<1>0. f.from \in Peers
  BY DEF Frames
<1>1. receive_queue \in Seq(Frames) /\ Len(receive_queue) <= QUEUE_SIZE /\ spoilt \subseteq Peers
  BY DEF RecvTypes
<1>2. CASE Len(receive_queue) < QUEUE_SIZE
  <2>1. receive_queue' = Append(receive_queue, f) /\ spoilt' = spoilt \union S
    BY <1>2, Zenon DEF Queued
  <2> QED
    BY <1>1, <1>2, <2>1
<1>3. CASE ~(Len(receive_queue) < QUEUE_SIZE)
  <2>1. receive_queue' = receive_queue /\ spoilt' = spoilt \union {f.from}
    BY <1>3, Zenon DEF Queued
  <2> QED
    BY <1>0, <1>1, <2>1
<1> QED
  BY <1>2, <1>3, Zenon

\* A packet that is received goes to a slot that was free or its peer's.
Taking(f, i, s) ==
    /\ f = Head(receive_queue) /\ i = SlotFor(f.from)
    /\ \/ paket[i].id = f.from
       \/ paket[i].id = 0 /\ \A j \in Slots : paket[j].id # f.from
    /\ s = [Opened(i, f) EXCEPT !.data[f.pk] = f.msg]
    /\ s.id = f.from
    /\ wild' = (wild \/ f.pk > s.size)
    /\ paket' = [paket EXCEPT ![i] = IF f.pk = f.total THEN FreeSlot ELSE s]
    /\ got' = IF f.pk = f.total THEN <<f, s.data>> ELSE got
    /\ receive_queue' = Tail(receive_queue)

\* Taking a packet writes one slot with a record of the right kind.
LEMMA ReceivedSlot ==
  ASSUME RecvTypes, ReceivePacket
  PROVE  \E f \in Frames, i \in Slots, s \in [id : Peers, size : 1 .. MaxTotal, data : Room] :
            Taking(f, i, s)
<1> USE RecvAssumption
<1> DEFINE f == Head(receive_queue)
           i == SlotFor(f.from)
           s == [Opened(i, f) EXCEPT !.data[f.pk] = f.msg]
<1>1. f \in Frames
  BY DEF RecvTypes, ReceivePacket
<1>2. i \in Slots /\ \/ paket[i].id = f.from
                     \/ paket[i].id = 0 /\ \A j \in Slots : paket[j].id # f.from
  <2>1. i # 0
    BY Zenon DEF ReceivePacket
  <2> QED
    BY <2>1, SlotChosen, Zenon
<1>3. /\ wild' = (wild \/ f.pk > s.size)
      /\ paket' = [paket EXCEPT ![i] = IF f.pk = f.total THEN FreeSlot ELSE s]
      /\ got' = IF f.pk = f.total THEN <<f, s.data>> ELSE got
      /\ receive_queue' = Tail(receive_queue)
  BY Zenon DEF ReceivePacket, LastPacket, Released
<1> HIDE DEF f, i
<1>4. /\ f.from \in Peers /\ f.msg \in 0 .. MaxIncoming /\ f.total \in 1 .. MaxTotal
      /\ f.pk \in 1 .. MaxTotal
  BY <1>1 DEF Frames
<1>5. /\ Opened(i, f) \in [id : Peers, size : 1 .. MaxTotal, data : Room]
      /\ Opened(i, f).id = f.from
  <2>1. CASE paket[i].id = 0
    <3>1. Opened(i, f) = [id |-> f.from, size |-> f.total, data |-> [k \in 1 .. MaxTotal |-> 0]]
      BY <2>1, Zenon DEF Opened
    <3>2. [k \in 1 .. MaxTotal |-> 0] \in Room
      BY DEF Room
    <3> QED
      BY <1>4, <3>1, <3>2
  <2>2. CASE paket[i].id # 0
    <3>1. Opened(i, f) = paket[i]
      BY <2>2, Zenon DEF Opened
    <3>2. paket[i] \in {FreeSlot} \union [id : Peers, size : 1 .. MaxTotal, data : Room]
      BY <1>2, Zenon DEF RecvTypes
    <3>3. paket[i] # FreeSlot
      BY <2>2 DEF FreeSlot
    <3> QED
      BY <1>2, <2>2, <3>1, <3>2, <3>3
  <2> QED
    BY <2>1, <2>2
<1>6. s \in [id : Peers, size : 1 .. MaxTotal, data : Room] /\ s.id = f.from
  <2> DEFINE o == Opened(i, f)
  <2>1. o \in [id : Peers, size : 1 .. MaxTotal, data : Room] /\ o.id = f.from
    BY <1>5, Zenon
  <2> HIDE DEF o
  <2>2. o.data \in Room /\ [o.data EXCEPT ![f.pk] = f.msg] \in Room
    BY <2>1, <1>4 DEF Room
  <2>3. [o EXCEPT !.data[f.pk] = f.msg] = [id |-> o.id, size |-> o.size, data |-> [o.data EXCEPT ![f.pk] = f.msg]]
    BY <2>1
  <2> QED
    BY <2>1, <2>2, <2>3 DEF o
<1>7. f = Head(receive_queue) /\ i = SlotFor(f.from)
  BY Zenon DEF f, i
<1> HIDE DEF s
<1>8. s = [Opened(i, f) EXCEPT !.data[f.pk] = f.msg]
  BY Zenon DEF s
<1> QED
  BY <1>1, <1>2, <1>3, <1>6, <1>7, <1>8, Zenon DEF Taking

\* A step keeps the types.
LEMMA RecvTypesStep == RecvTypes /\ RecvNext => RecvTypes'
<1> USE RecvAssumption
<1> SUFFICES ASSUME RecvTypes, RecvNext PROVE RecvTypes'
  OBVIOUS
<1>0. /\ receive_queue \in Seq(Frames) /\ Len(receive_queue) <= QUEUE_SIZE
      /\ out \in [Peers -> [msg : 0 .. MaxIncoming, total : 0 .. MaxTotal, sent : 0 .. MaxTotal]]
      /\ \A p \in Peers : out[p].sent <= out[p].total /\ (out[p].total # 0 => out[p].msg # 0)
      /\ paket \in [Slots -> {FreeSlot} \union [id : Peers, size : 1 .. MaxTotal, data : Room]]
      /\ rtask \in {"run", "dead"} /\ wild \in BOOLEAN /\ spoilt \subseteq Peers
      /\ started \in 0 .. MaxIncoming
      /\ got = <<>> \/ got \in Frames \X Room
  BY Zenon DEF RecvTypes
<1>1. ASSUME NEW p \in Peers, PeerStart(p) PROVE RecvTypes'
  <2>1. PICK n \in 1 .. MaxTotal :
            /\ started < MaxIncoming /\ started' = started + 1
            /\ out' = [out EXCEPT ![p] = [msg |-> started + 1, total |-> n, sent |-> 0]]
            /\ UNCHANGED <<receive_queue, paket, rtask, got, wild, spoilt>>
    BY <1>1, Zenon DEF PeerStart
  <2>2. [msg |-> started + 1, total |-> n, sent |-> 0]
            \in [msg : 0 .. MaxIncoming, total : 0 .. MaxTotal, sent : 0 .. MaxTotal]
    BY <1>0, <2>1
  <2>3. out' \in [Peers -> [msg : 0 .. MaxIncoming, total : 0 .. MaxTotal, sent : 0 .. MaxTotal]]
    BY <1>0, <2>1, <2>2
  <2>4. \A r \in Peers : out'[r].sent <= out'[r].total /\ (out'[r].total # 0 => out'[r].msg # 0)
    BY <1>0, <2>1
  <2>5. started' \in 0 .. MaxIncoming
    BY <1>0, <2>1
  <2>6. /\ receive_queue' = receive_queue /\ paket' = paket /\ rtask' = rtask /\ got' = got
        /\ wild' = wild /\ spoilt' = spoilt
    BY <2>1
  <2> QED
    BY <1>0, <2>3, <2>4, <2>5, <2>6, Zenon DEF RecvTypes
<1>2. ASSUME NEW p \in Peers, PeerSends(p) PROVE RecvTypes'
  <2>1. /\ out[p].sent < out[p].total /\ Queued(FrameOf(p, out[p].sent + 1), {})
        /\ out' = [out EXCEPT ![p].sent = @ + 1]
        /\ UNCHANGED <<paket, rtask, got, wild, started>>
    BY <1>2, Zenon DEF PeerSends
  <2>2. out[p].sent + 1 \in 1 .. out[p].total /\ out[p].sent + 1 \in 0 .. MaxTotal
    BY <1>0, <2>1
  <2>3. FrameOf(p, out[p].sent + 1) \in Frames
    BY <2>2, FrameIsFrame, Zenon
  <2>4. /\ receive_queue' \in Seq(Frames) /\ Len(receive_queue') <= QUEUE_SIZE /\ spoilt' \subseteq Peers
    <3>1. {} \in SUBSET Peers
      OBVIOUS
    <3> QED
      BY <2>1, <2>3, <3>1, QueuedTypes, Zenon
  <2>5. out' \in [Peers -> [msg : 0 .. MaxIncoming, total : 0 .. MaxTotal, sent : 0 .. MaxTotal]]
    BY <1>0, <2>1, <2>2
  <2>6. \A r \in Peers : out'[r].sent <= out'[r].total /\ (out'[r].total # 0 => out'[r].msg # 0)
    BY <1>0, <2>1, <2>2
  <2>7. paket' = paket /\ rtask' = rtask /\ got' = got /\ wild' = wild /\ started' = started
    BY <2>1
  <2> QED
    BY <1>0, <2>4, <2>5, <2>6, <2>7, Zenon DEF RecvTypes
<1>3. ASSUME NEW p \in Peers, PeerRepeats(p) PROVE RecvTypes'
  <2>1. /\ out[p].sent > 0 /\ Queued(FrameOf(p, out[p].sent), {p})
        /\ UNCHANGED <<out, paket, rtask, got, wild, started>>
    BY <1>3, Zenon DEF PeerRepeats
  <2>2. out[p].sent \in 1 .. out[p].total
    BY <1>0, <2>1
  <2>3. FrameOf(p, out[p].sent) \in Frames
    BY <2>2, FrameIsFrame, Zenon
  <2>4. /\ receive_queue' \in Seq(Frames) /\ Len(receive_queue') <= QUEUE_SIZE /\ spoilt' \subseteq Peers
    <3>1. {p} \in SUBSET Peers
      OBVIOUS
    <3> QED
      BY <2>1, <2>3, <3>1, QueuedTypes, Zenon
  <2>5. out' = out /\ paket' = paket /\ rtask' = rtask /\ got' = got /\ wild' = wild /\ started' = started
    BY <2>1
  <2> QED
    BY <1>0, <2>4, <2>5, Zenon DEF RecvTypes
<1>4. ASSUME NEW p \in Peers, PeerGivesUp(p) PROVE RecvTypes'
  <2>1. /\ out' = [out EXCEPT ![p].sent = out[p].total] /\ spoilt' = spoilt \union {p}
        /\ UNCHANGED <<receive_queue, paket, rtask, got, wild, started>>
    BY <1>4, Zenon DEF PeerGivesUp
  <2>2. out' \in [Peers -> [msg : 0 .. MaxIncoming, total : 0 .. MaxTotal, sent : 0 .. MaxTotal]]
    BY <1>0, <2>1
  <2>3. \A r \in Peers : out'[r].sent <= out'[r].total /\ (out'[r].total # 0 => out'[r].msg # 0)
    BY <1>0, <2>1
  <2>4. /\ receive_queue' = receive_queue /\ paket' = paket /\ rtask' = rtask /\ got' = got
        /\ wild' = wild /\ started' = started /\ spoilt' \subseteq Peers
    BY <1>0, <2>1
  <2> QED
    BY <1>0, <2>2, <2>3, <2>4, Zenon DEF RecvTypes
<1>5. CASE ReceivePacket
  <2>0. PICK f \in Frames, i \in Slots, s \in [id : Peers, size : 1 .. MaxTotal, data : Room] :
            Taking(f, i, s)
    BY <1>5, ReceivedSlot, Zenon
  <2>1. /\ wild' = (wild \/ f.pk > s.size)
        /\ paket' = [paket EXCEPT ![i] = IF f.pk = f.total THEN FreeSlot ELSE s]
        /\ got' = IF f.pk = f.total THEN <<f, s.data>> ELSE got
        /\ receive_queue' = Tail(receive_queue)
    BY <2>0, Zenon DEF Taking
  <2>2. (IF f.pk = f.total THEN FreeSlot ELSE s) \in {FreeSlot} \union [id : Peers, size : 1 .. MaxTotal, data : Room]
    BY Zenon
  <2>3. paket' \in [Slots -> {FreeSlot} \union [id : Peers, size : 1 .. MaxTotal, data : Room]]
    BY <1>0, <2>1, <2>2
  <2>4. got' = <<>> \/ got' \in Frames \X Room
    BY <1>0, <2>1
  <2>5. receive_queue' \in Seq(Frames) /\ Len(receive_queue') <= QUEUE_SIZE
    <3>1. receive_queue # <<>>
      BY <1>5 DEF ReceivePacket
    <3> QED
      BY <1>0, <2>1, <3>1
  <2>6. wild' \in BOOLEAN
    BY <2>1, Zenon
  <2>7. out' = out /\ rtask' = rtask /\ started' = started /\ spoilt' = spoilt
    BY <1>5 DEF ReceivePacket
  <2> QED
    BY <1>0, <2>3, <2>4, <2>5, <2>6, <2>7, Zenon DEF RecvTypes
<1>6. CASE ReceiveTaskReturns
  <2>1. /\ rtask' = "dead"
        /\ out' = out /\ receive_queue' = receive_queue /\ paket' = paket /\ got' = got
        /\ wild' = wild /\ started' = started /\ spoilt' = spoilt
    BY <1>6 DEF ReceiveTaskReturns
  <2> QED
    BY <1>0, <2>1, Zenon DEF RecvTypes
<1> QED
  BY <1>1, <1>2, <1>3, <1>4, <1>5, <1>6, Zenon DEF RecvNext

-----------------------------------------------------------------------------
(* The order of the packets of one peer.                                    *)

\* What is held of p is not touched by what happens in other slots.
LEMMA HeldSame ==
  ASSUME NEW p, \A i \in Slots : paket'[i] = paket[i] \/ (paket'[i].id # p /\ paket[i].id # p)
  PROVE  \A m, t, k : Held(p, m, t, k)' <=> Held(p, m, t, k)
<1> SUFFICES ASSUME NEW m, NEW t, NEW k PROVE Held(p, m, t, k)' <=> Held(p, m, t, k)
  OBVIOUS
<1>1. (\A i \in Slots : paket'[i].id # p) <=> (\A i \in Slots : paket[i].id # p)
  OBVIOUS
<1> DEFINE r == [id |-> p, size |-> t, data |-> Upto(k, m)]
<1>2. r.id = p
  OBVIOUS
<1> HIDE DEF r
<1>3. (\E i \in Slots : paket'[i] = r) <=> (\E i \in Slots : paket[i] = r)
  BY <1>2
<1> QED
  BY <1>1, <1>3 DEF Held, r

\* A peer whose frames, slots and progress stay as they are stays orderly.
LEMMA OrderlySame ==
  ASSUME NEW p, Orderly(p), out'[p] = out[p],
         \A m, t, k : Held(p, m, t, k)' <=> Held(p, m, t, k),
         Adjacent(receive_queue', FramesOf(p), Follows),
         FirstIn(receive_queue', FramesOf(p), Expected(p)),
         LastIn(receive_queue', FramesOf(p), Sent(p)),
         Has(receive_queue', FramesOf(p)) <=> Has(receive_queue, FramesOf(p))
  PROVE  Orderly(p)'
<1>1. Expected(p)' = Expected(p)
  BY Zenon DEF Expected, FramesOf
<1>2. Sent(p)' = Sent(p)
  BY Zenon DEF Sent, FrameOf, FramesOf
<1>3. Held(p, out[p].msg, out[p].total, out[p].sent)' <=> Held(p, out[p].msg, out[p].total, out[p].sent)
  BY Zenon
<1> QED
  BY <1>1, <1>2, <1>3, Zenon DEF Orderly, FramesOf

\* A frame of another peer in the queue makes no difference.
LEMMA OrderlyAppend ==
  ASSUME RecvTypes, NEW p, Orderly(p), NEW f \in Frames, f.from # p,
         out'[p] = out[p], paket' = paket, receive_queue' = Append(receive_queue, f)
  PROVE  Orderly(p)'
<1>1. receive_queue \in Seq(Frames) /\ f \notin FramesOf(p)
  BY DEF RecvTypes, FramesOf
<1>2. Has(receive_queue', FramesOf(p)) <=> Has(receive_queue, FramesOf(p))
  BY <1>1, HasAppend, Zenon
<1>3. Adjacent(receive_queue', FramesOf(p), Follows)
  BY <1>1, AdjacentAppend, Zenon DEF Orderly
<1>4. FirstIn(receive_queue', FramesOf(p), Expected(p))
  BY <1>1, FirstInAppend, Zenon DEF Orderly
<1>5. LastIn(receive_queue', FramesOf(p), Sent(p))
  BY <1>1, LastInAppend, Zenon DEF Orderly
<1>6. \A m, t, k : Held(p, m, t, k)' <=> Held(p, m, t, k)
  BY HeldSame, Zenon
<1> QED
  BY <1>2, <1>3, <1>4, <1>5, <1>6, OrderlySame, Zenon

\* A peer starts a message.
LEMMA OrderlyStart ==
  ASSUME RecvTypes, NEW p \in Peers, NEW r \in Peers, Orderly(p), PeerStart(r)
  PROVE  Orderly(p)'
<1> USE RecvAssumption
<1>1. PICK n \in 1 .. MaxTotal :
          /\ out[r].sent = out[r].total
          /\ out' = [out EXCEPT ![r] = [msg |-> started + 1, total |-> n, sent |-> 0]]
          /\ UNCHANGED <<receive_queue, paket, rtask, got, wild, spoilt>>
  BY Zenon DEF PeerStart
<1>2. receive_queue' = receive_queue /\ paket' = paket
  BY <1>1
<1>3. \A m, t, k : Held(p, m, t, k)' <=> Held(p, m, t, k)
  BY <1>2, HeldSame, Zenon
<1>4. CASE p # r
  <2>1. out'[p] = out[p]
    BY <1>1, <1>4 DEF RecvTypes
  <2> QED
    BY <1>2, <1>3, <2>1, OrderlySame, Zenon DEF Orderly
<1>5. CASE p = r
  <2>1. out'[p] = [msg |-> started + 1, total |-> n, sent |-> 0]
    BY <1>1, <1>5 DEF RecvTypes
  <2>2. \A f \in FramesOf(p) : f \in Sent(p) => f \in Sent(p)'
    <3> SUFFICES ASSUME NEW f \in FramesOf(p), f \in Sent(p) PROVE f.pk = f.total
      BY <2>1 DEF Sent
    <3>1. CASE out[p].sent = 0
      BY <3>1 DEF Sent
    <3>2. CASE out[p].sent # 0
      BY <1>1, <1>5, <3>2 DEF Sent, FrameOf
    <3> QED
      BY <3>1, <3>2
  <2>3. LastIn(receive_queue, FramesOf(p), Sent(p)')
    BY <2>2, FirstLastWeaker, Zenon DEF Orderly
  <2>4. Held(p, out[p].msg, out[p].total, out[p].sent)
            => Held(p, out[p].msg, out[p].total, out[p].sent)'
    BY <1>1, <1>2, <1>5, <2>1 DEF Held
  <2>5. Expected(p)' = Expected(p)
    BY <1>3, Zenon DEF Expected, FramesOf
  <2> QED
    BY <1>2, <2>3, <2>4, <2>5, Zenon DEF Orderly, FramesOf
<1> QED
  BY <1>4, <1>5

\* A peer sends its next packet, and it is taken or the peer is spoilt.
LEMMA OrderlySends ==
  ASSUME RecvTypes, NEW p \in Peers, NEW r \in Peers, p \notin spoilt', Orderly(p), PeerSends(r)
  PROVE  Orderly(p)'
<1> USE RecvAssumption
<1> DEFINE f == FrameOf(r, out[r].sent + 1)
<1>1. /\ out[r].sent < out[r].total /\ Queued(f, {})
      /\ out' = [out EXCEPT ![r].sent = @ + 1]
      /\ UNCHANGED <<paket, rtask, got, wild, started>>
  BY Zenon DEF PeerSends
<1>2. /\ out[r].sent + 1 \in 1 .. out[r].total /\ out[r].sent \in Nat /\ out[r].total \in Nat
      /\ out[p].sent \in Nat /\ out[p].total \in Nat /\ paket' = paket
      /\ receive_queue \in Seq(Frames)
  BY <1>1 DEF RecvTypes
<1>3. /\ f \in Frames /\ f \in FramesOf(r) /\ f.pk = out[r].sent + 1 /\ f.total = out[r].total
      /\ f.msg = out[r].msg /\ f.from = r
  <2> DEFINE k == out[r].sent + 1
  <2>1. k \in 1 .. out[r].total
    BY <1>2
  <2> HIDE DEF k
  <2>2. /\ FrameOf(r, k) \in Frames /\ FrameOf(r, k) \in FramesOf(r)
        /\ FrameOf(r, k).pk = k /\ FrameOf(r, k).total = out[r].total
        /\ FrameOf(r, k).msg = out[r].msg /\ FrameOf(r, k).from = r
    BY <2>1, FrameIsFrame, Zenon
  <2> QED
    BY <2>2, Zenon DEF k
<1>4. /\ \/ receive_queue' = Append(receive_queue, f) /\ spoilt' = spoilt \union {}
         \/ receive_queue' = receive_queue /\ f.from \in spoilt'
      /\ spoilt \subseteq spoilt'
  <2>1. {} \in SUBSET Peers
    OBVIOUS
  <2> QED
    BY <1>1, <1>3, <2>1, QueuedTypes, Zenon
<1>5. \A m, t, k : Held(p, m, t, k)' <=> Held(p, m, t, k)
  BY <1>2, HeldSame, Zenon
<1>6. CASE p # r
  <2>1. out'[p] = out[p]
    BY <1>1, <1>6 DEF RecvTypes
  <2>2. CASE receive_queue' = Append(receive_queue, f)
    <3> HIDE DEF f
    <3> QED
      BY <1>2, <1>3, <1>6, <2>1, <2>2, OrderlyAppend, Zenon
  <2>3. CASE receive_queue' = receive_queue
    BY <1>5, <2>1, <2>3, OrderlySame, Zenon DEF Orderly
  <2> QED
    BY <1>4, <2>2, <2>3, Zenon
<1>7. CASE p = r
  <2> DEFINE T == FramesOf(p)
  <2>0. receive_queue' = Append(receive_queue, f)
    BY <1>3, <1>4, <1>7, Zenon
  <2>1. /\ out'[p].sent = out[p].sent + 1 /\ out'[p].total = out[p].total /\ out'[p].msg = out[p].msg
    BY <1>1, <1>7 DEF RecvTypes
  <2>2. f \in Sent(p)'
    BY <1>2, <1>3, <1>7, <2>1 DEF Sent, FrameOf
  <2>3. ASSUME NEW g \in Sent(p) PROVE <<g, f>> \in Follows
    <3>1. g \in Frames /\ g \in T
      BY DEF Sent, FramesOf
    <3>2. CASE out[p].sent = 0
      <4>1. g.pk = g.total /\ f.pk = 1
        BY <1>3, <1>7, <3>2 DEF Sent
      <4>2. ~(g.pk < g.total)
        BY <4>1, <3>1 DEF Frames
      <4> HIDE DEF f
      <4> QED
        BY <1>3, <3>1, <4>1, <4>2 DEF Follows
    <3>3. CASE out[p].sent # 0
      <4>1. g = FrameOf(p, out[p].sent)
        BY <3>3 DEF Sent
      <4>2. g.pk < g.total /\ f = [g EXCEPT !.pk = @ + 1]
        BY <1>1, <1>7, <4>1 DEF FrameOf
      <4> HIDE DEF f
      <4> QED
        BY <1>3, <3>1, <4>2 DEF Follows
    <3> QED
      BY <3>2, <3>3
  <2>4. ~Has(receive_queue, T) => f \in Expected(p)
    <3> SUFFICES ASSUME ~Has(receive_queue, T) PROVE f \in Expected(p)
      OBVIOUS
    <3>1. Held(p, out[p].msg, out[p].total, out[p].sent)
      BY Zenon DEF Orderly
    <3>2. f.pk - 1 = out[p].sent /\ f.pk <= f.total
      BY <1>2, <1>3, <1>7
    <3> HIDE DEF f
    <3>3. Held(p, f.msg, f.total, f.pk - 1)
      BY <1>3, <1>7, <3>1, <3>2, Zenon
    <3> QED
      BY <1>3, <1>7, <3>2, <3>3, Zenon DEF Expected
  <2>5. Expected(p)' = Expected(p)
    BY <1>5, Zenon DEF Expected, FramesOf
  <2> HIDE DEF f
  <2>6. Has(receive_queue', T)
    BY <1>2, <1>3, <1>7, <2>0, HasAppend, Zenon
  <2>7. Adjacent(receive_queue', T, Follows)
    BY <1>2, <1>3, <2>0, <2>3, AdjacentAppend, Zenon DEF Orderly
  <2>8. FirstIn(receive_queue', T, Expected(p))
    BY <1>2, <1>3, <2>0, <2>4, FirstInAppend, Zenon DEF Orderly
  <2>9. LastIn(receive_queue', T, Sent(p)')
    BY <1>2, <1>3, <1>7, <2>0, <2>2, LastInAppend, Zenon
  <2> QED
    BY <2>5, <2>6, <2>7, <2>8, <2>9, Zenon DEF Orderly, FramesOf
<1> QED
  BY <1>6, <1>7

\* A peer that repeats or gives up is spoilt; the others do not notice.
LEMMA OrderlyOthers ==
  ASSUME RecvTypes, NEW p \in Peers, NEW r \in Peers, p \notin spoilt', Orderly(p),
         PeerRepeats(r) \/ PeerGivesUp(r)
  PROVE  Orderly(p)'
<1> USE RecvAssumption
<1>1. CASE PeerRepeats(r)
  <2> DEFINE f == FrameOf(r, out[r].sent)
  <2>1. /\ out[r].sent > 0 /\ Queued(f, {r})
        /\ UNCHANGED <<out, paket, rtask, got, wild, started>>
    BY <1>1, Zenon DEF PeerRepeats
  <2>2. out[r].sent \in 1 .. out[r].total /\ paket' = paket /\ out' = out
    BY <2>1 DEF RecvTypes
  <2>3. f \in Frames /\ f.from = r
    BY <2>2, FrameIsFrame, Zenon
  <2> HIDE DEF f
  <2>4. {r} \in SUBSET Peers
    OBVIOUS
  <2>5. \/ receive_queue' = Append(receive_queue, f) /\ spoilt' = spoilt \union {r}
        \/ receive_queue' = receive_queue /\ f.from \in spoilt'
    BY <2>1, <2>3, <2>4, QueuedTypes, Zenon
  <2>6. p # r
    BY <2>3, <2>5
  <2>7. \A m, t, k : Held(p, m, t, k)' <=> Held(p, m, t, k)
    BY <2>2, HeldSame, Zenon
  <2>8. CASE receive_queue' = Append(receive_queue, f)
    BY <2>2, <2>3, <2>6, <2>8, OrderlyAppend, Zenon
  <2>9. CASE receive_queue' = receive_queue
    BY <2>2, <2>7, <2>9, OrderlySame, Zenon DEF Orderly
  <2> QED
    BY <2>5, <2>8, <2>9, Zenon
<1>2. CASE PeerGivesUp(r)
  <2>1. /\ out' = [out EXCEPT ![r].sent = out[r].total] /\ spoilt' = spoilt \union {r}
        /\ receive_queue' = receive_queue /\ paket' = paket
    BY <1>2 DEF PeerGivesUp
  <2>2. p # r
    BY <2>1
  <2>3. out'[p] = out[p]
    BY <2>1, <2>2 DEF RecvTypes
  <2>4. \A m, t, k : Held(p, m, t, k)' <=> Held(p, m, t, k)
    BY <2>1, HeldSame, Zenon
  <2> QED
    BY <2>1, <2>3, <2>4, OrderlySame, Zenon DEF Orderly
<1> QED
  BY <1>1, <1>2

\* After the packet that was expected, what is held of its peer has it too.
LEMMA HeldAfter ==
  ASSUME RecvTypes, OneSlotEach, ReceivePacket, NEW f \in Frames, f = Head(receive_queue),
         f \in Expected(f.from)
  PROVE  /\ Held(f.from, f.msg, f.total, f.pk)'
         /\ wild' = wild
         /\ got' = got \/ got' = <<f, Upto(f.total, f.msg)>>
<1> USE RecvAssumption
<1> DEFINE p == f.from
<1>0. PICK g \in Frames, i \in Slots, s \in [id : Peers, size : 1 .. MaxTotal, data : Room] :
          Taking(g, i, s)
  BY ReceivedSlot, Zenon
<1>1. /\ \/ paket[i].id = f.from
         \/ paket[i].id = 0 /\ \A j \in Slots : paket[j].id # f.from
      /\ s = [Opened(i, f) EXCEPT !.data[f.pk] = f.msg]
      /\ wild' = (wild \/ f.pk > s.size)
      /\ paket' = [paket EXCEPT ![i] = IF f.pk = f.total THEN FreeSlot ELSE s]
      /\ got' = IF f.pk = f.total THEN <<f, s.data>> ELSE got
  <2>1. g = f
    BY <1>0, Zenon DEF Taking
  <2> QED
    BY <1>0, <2>1, Zenon DEF Taking
<1>2. /\ f.pk \in 1 .. MaxTotal /\ f.total \in 1 .. MaxTotal /\ f.msg \in 0 .. MaxIncoming /\ p \in Peers
      /\ p # 0
  BY DEF Frames
<1>3. f.pk <= f.total /\ Held(p, f.msg, f.total, f.pk - 1)
  BY Zenon DEF Expected
<1> DEFINE o == Opened(i, f)
<1>4. o = [id |-> p, size |-> f.total, data |-> Upto(f.pk - 1, f.msg)]
  <2>1. CASE f.pk = 1
    <3>1. \A j \in Slots : paket[j].id # p
      BY <1>2, <1>3, <2>1 DEF Held
    <3>2. paket[i].id = 0
      BY <1>1, <3>1
    <3>3. Upto(f.pk - 1, f.msg) = [k \in 1 .. MaxTotal |-> 0]
      BY <1>2, <2>1 DEF Upto
    <3> QED
      BY <3>2, <3>3 DEF Opened
  <2>2. CASE f.pk # 1
    <3>1. f.pk - 1 \notin {0, f.total}
      BY <1>2, <1>3, <2>2
    <3> DEFINE r == [id |-> p, size |-> f.total, data |-> Upto(f.pk - 1, f.msg)]
    <3>2. PICK j \in Slots : paket[j] = r
      BY <1>3, <3>1, Zenon DEF Held
    <3>3. r.id = p
      OBVIOUS
    <3> HIDE DEF r
    <3>4. paket[i].id = p
      BY <1>1, <3>2, <3>3
    <3>5. i = j
      BY <1>2, <3>2, <3>3, <3>4 DEF OneSlotEach
    <3>6. o = paket[i]
      BY <1>2, <3>4 DEF Opened
    <3> QED
      BY <3>2, <3>5, <3>6, Zenon DEF r
  <2> QED
    BY <2>1, <2>2
<1> HIDE DEF o
<1>5. [Upto(f.pk - 1, f.msg) EXCEPT ![f.pk] = f.msg] = Upto(f.pk, f.msg)
  <2> DEFINE u == Upto(f.pk - 1, f.msg)
             v == [u EXCEPT ![f.pk] = f.msg]
             w == Upto(f.pk, f.msg)
  <2>1. DOMAIN v = 1 .. MaxTotal /\ DOMAIN w = 1 .. MaxTotal
    BY DEF Upto
  <2>2. ASSUME NEW n \in 1 .. MaxTotal PROVE v[n] = w[n]
    <3>1. n <= f.pk - 1 \/ n = f.pk \/ n > f.pk
      BY <1>2
    <3> QED
      BY <1>2, <3>1 DEF Upto
  <2>3. v = [n \in 1 .. MaxTotal |-> v[n]] /\ w = [n \in 1 .. MaxTotal |-> w[n]]
    BY <2>1, Zenon DEF Upto
  <2> HIDE DEF v, w
  <2>4. v = w
    BY <2>2, <2>3
  <2> QED
    BY <2>4, Zenon DEF v, w
<1>6. s = [id |-> p, size |-> f.total, data |-> Upto(f.pk, f.msg)]
  <2>1. s = [o EXCEPT !.data[f.pk] = f.msg]
    BY <1>1, Zenon DEF o
  <2> DEFINE u == Upto(f.pk - 1, f.msg)
  <2>2. o = [id |-> p, size |-> f.total, data |-> u]
    BY <1>4, Zenon
  <2>3. [u EXCEPT ![f.pk] = f.msg] = Upto(f.pk, f.msg)
    BY <1>5, Zenon
  <2> HIDE DEF u
  <2>4. s = [id |-> p, size |-> f.total, data |-> [u EXCEPT ![f.pk] = f.msg]]
    BY <2>1, <2>2
  <2> QED
    BY <2>3, <2>4
<1>7. wild' = wild
  <2>1. ~(f.pk > s.size)
    BY <1>2, <1>3, <1>6
  <2>2. wild \in BOOLEAN
    BY DEF RecvTypes
  <2> QED
    BY <1>1, <2>1, <2>2, Zenon
<1>8. got' = got \/ got' = <<f, Upto(f.total, f.msg)>>
  <2>1. s.data = Upto(f.pk, f.msg)
    BY <1>6
  <2> QED
    BY <1>1, <2>1
<1>9. Held(f.from, f.msg, f.total, f.pk)'
  <2>0. paket \in [Slots -> {FreeSlot} \union [id : Peers, size : 1 .. MaxTotal, data : Room]]
    BY DEF RecvTypes
  <2>1. CASE f.pk = f.total
    <3>1. paket' = [paket EXCEPT ![i] = FreeSlot] /\ FreeSlot.id = 0
      BY <1>1, <2>1 DEF FreeSlot
    <3>2. \A j \in Slots : j # i => paket[j].id # p
      <4> SUFFICES ASSUME NEW j \in Slots, paket[j].id = p PROVE j = i
        OBVIOUS
      <4>1. paket[i].id = p
        BY <1>1
      <4> QED
        BY <1>2, <4>1 DEF OneSlotEach
    <3>3. \A j \in Slots : paket'[j].id # p
      BY <1>2, <2>0, <3>1, <3>2
    <3> QED
      BY <2>1, <3>3 DEF Held
  <2>2. CASE f.pk # f.total
    <3>1. paket'[i] = s
      BY <1>1, <2>0, <2>2
    <3>2. f.pk \notin {0, f.total}
      BY <1>2, <2>2
    <3>3. paket'[i] = [id |-> f.from, size |-> f.total, data |-> Upto(f.pk, f.msg)]
      BY <1>6, <3>1, Zenon
    <3> QED
      BY <1>1, <3>2, <3>3, Zenon DEF Held, Upto
  <2> QED
    BY <2>1, <2>2
<1> QED
  BY <1>7, <1>8, <1>9

\* A packet is received.
LEMMA OrderlyReceive ==
  ASSUME RecvTypes, OneSlotEach, NEW p \in Peers, Orderly(p), ReceivePacket
  PROVE  Orderly(p)'
<1> USE RecvAssumption
<1> DEFINE q == receive_queue
           T == FramesOf(p)
<1>1. q \in Seq(Frames) /\ q # <<>> /\ receive_queue' = Tail(q) /\ out' = out
  BY DEF RecvTypes, ReceivePacket
<1>2. Head(q) \in Frames
  BY <1>1
<1>3. PICK f \in Frames : f = Head(q)
  BY <1>2, Zenon
<1>4. Adjacent(Tail(q), T, Follows) /\ LastIn(Tail(q), T, Sent(p))
  BY <1>1, AdjacentTail, LastInTail, Zenon DEF Orderly
<1>5. CASE f.from # p
  <2>1. f \notin T
    BY <1>5 DEF FramesOf
  <2>2. FirstIn(Tail(q), T, Expected(p)) /\ (Has(Tail(q), T) <=> Has(q, T))
    BY <1>1, <1>3, <2>1, FirstInTail, HasTail, Zenon DEF Orderly
  <2>3a. PICK g \in Frames, i \in Slots, s \in [id : Peers, size : 1 .. MaxTotal, data : Room] :
            Taking(g, i, s)
    BY ReceivedSlot, Zenon
  <2>3. /\ g = Head(receive_queue)
        /\ \/ paket[i].id = g.from
           \/ paket[i].id = 0 /\ \A j \in Slots : paket[j].id # g.from
        /\ s.id = g.from
        /\ paket' = [paket EXCEPT ![i] = IF g.pk = g.total THEN FreeSlot ELSE s]
    BY <2>3a, Zenon DEF Taking
  <2>4. paket \in [Slots -> {FreeSlot} \union [id : Peers, size : 1 .. MaxTotal, data : Room]]
    BY DEF RecvTypes
  <2>5. \A j \in Slots : paket'[j] = paket[j] \/ (paket'[j].id # p /\ paket[j].id # p)
    <3>1. paket[i].id # p /\ g = f
      BY <1>3, <1>5, <2>3
    <3>2. (IF g.pk = g.total THEN FreeSlot ELSE s).id # p
      BY <1>5, <2>3, <3>1 DEF FreeSlot
    <3> DEFINE n == IF g.pk = g.total THEN FreeSlot ELSE s
    <3>3. paket' = [paket EXCEPT ![i] = n] /\ n.id # p
      BY <2>3, <3>2, Zenon
    <3> HIDE DEF n
    <3> QED
      BY <2>4, <3>1, <3>3
  <2>6. \A m, t, k : Held(p, m, t, k)' <=> Held(p, m, t, k)
    BY <2>5, HeldSame, Zenon
  <2>7. out'[p] = out[p]
    BY <1>1
  <2> QED
    BY <1>1, <1>4, <2>2, <2>6, <2>7, OrderlySame, Zenon
<1>6. CASE f.from = p
  <2>1. f \in T
    BY <1>6 DEF FramesOf
  <2>2. f \in Expected(p)
    BY <1>1, <1>3, <2>1, FirstInTail, Zenon DEF Orderly
  <2>3. Held(p, f.msg, f.total, f.pk)'
    BY <1>3, <1>6, <2>2, HeldAfter, Zenon
  <2>4. f.pk <= f.total
    BY <2>2 DEF Expected
  <2>5. \A g \in T : g \in {h \in Frames : <<f, h>> \in Follows} => g \in Expected(p)'
    <3> SUFFICES ASSUME NEW g \in T, <<f, g>> \in Follows PROVE g \in Expected(p)'
      BY Zenon
    <3>2. /\ f.pk \in 1 .. MaxTotal /\ f.total \in 1 .. MaxTotal
          /\ g \in Frames /\ g.pk \in 1 .. MaxTotal /\ g.total \in 1 .. MaxTotal /\ g.from = p
      BY DEF Frames, FramesOf
    <3>3. IF f.pk < f.total THEN g = [f EXCEPT !.pk = @ + 1] ELSE g.pk = 1
      BY DEF Follows
    <3>4. Held(p, g.msg, g.total, g.pk - 1)' /\ g.pk <= g.total
      <4>1. CASE f.pk < f.total
        <5>1. g.pk - 1 = f.pk /\ g.pk <= g.total /\ g.total = f.total /\ g.msg = f.msg
          BY <3>2, <3>3, <4>1 DEF Frames
        <5> QED
          BY <2>3, <5>1, Zenon
      <4>2. CASE ~(f.pk < f.total)
        <5>1. f.pk = f.total /\ g.pk - 1 = 0 /\ g.pk <= g.total
          BY <2>4, <3>2, <3>3, <4>2
        <5>2. \A i \in Slots : paket'[i].id # p
          BY <2>3, <5>1 DEF Held
        <5> QED
          BY <5>1, <5>2 DEF Held
      <4> QED
        BY <4>1, <4>2
    <3> QED
      BY <3>4, Zenon DEF Expected, FramesOf
  <2>6. FirstIn(Tail(q), T, {h \in Frames : <<f, h>> \in Follows})
    <3>1. FirstIn(Tail(q), T, {h \in Frames : <<Head(q), h>> \in Follows})
      <4>1. Head(q) \in T /\ Adjacent(q, T, Follows)
        BY <1>3, <2>1, Zenon DEF Orderly
      <4> HIDE DEF q, T
      <4> QED
        BY <1>1, <4>1, AdjacentTail
    <3> QED
      BY <1>3, <3>1
  <2>7. FirstIn(Tail(q), T, Expected(p)')
    BY <2>5, <2>6, FirstLastWeaker, Zenon
  <2>8. Sent(p)' = Sent(p)
    BY <1>1, Zenon DEF Sent, FrameOf, FramesOf
  <2>9. ~Has(Tail(q), T) => Held(p, out[p].msg, out[p].total, out[p].sent)'
    <3> SUFFICES ASSUME ~Has(Tail(q), T) PROVE Held(p, out[p].msg, out[p].total, out[p].sent)'
      OBVIOUS
    <3>1. f \in Sent(p)
      BY <1>1, <1>3, <2>1, LastInTail, Zenon DEF Orderly
    <3>2. CASE out[p].sent = 0
      <4>1. f.pk = f.total
        BY <3>1, <3>2 DEF Sent
      <4>2. \A i \in Slots : paket'[i].id # p
        BY <2>3, <4>1 DEF Held
      <4> QED
        BY <1>1, <3>2, <4>2 DEF Held
    <3>3. CASE out[p].sent # 0
      <4>1. f = FrameOf(p, out[p].sent)
        BY <3>1, <3>3 DEF Sent
      <4>2. f.msg = out'[p].msg /\ f.total = out'[p].total /\ f.pk = out'[p].sent
        BY <1>1, <4>1 DEF FrameOf
      <4> QED
        BY <2>3, <4>2, Zenon
    <3> QED
      BY <3>2, <3>3
  <2> QED
    BY <1>1, <1>4, <2>7, <2>8, <2>9, Zenon DEF Orderly, FramesOf
<1> QED
  BY <1>5, <1>6

-----------------------------------------------------------------------------
(* The whole invariant.                                                     *)

\* The invariant of reception holds at the start.
LEMMA RecvInvInit == RecvInit => RecvInv
<1> USE RecvAssumption
<1> SUFFICES ASSUME RecvInit PROVE RecvInv
  OBVIOUS
<1>0. /\ out = [p \in Peers |-> NoneOut] /\ receive_queue = <<>> /\ paket = [i \in Slots |-> FreeSlot]
      /\ rtask = "run" /\ got = <<>> /\ wild = FALSE /\ started = 0 /\ spoilt = {}
  BY Zenon DEF RecvInit
<1>1. RecvTypes
  <2>1. /\ receive_queue \in Seq(Frames) /\ Len(receive_queue) <= QUEUE_SIZE
    BY <1>0
  <2>2. /\ NoneOut \in [msg : 0 .. MaxIncoming, total : 0 .. MaxTotal, sent : 0 .. MaxTotal]
        /\ NoneOut.sent <= NoneOut.total /\ NoneOut.total = 0
    BY DEF NoneOut
  <2>3. out \in [Peers -> [msg : 0 .. MaxIncoming, total : 0 .. MaxTotal, sent : 0 .. MaxTotal]]
    BY <1>0, <2>2, Zenon
  <2>4. \A p \in Peers : out[p].sent <= out[p].total /\ (out[p].total # 0 => out[p].msg # 0)
    BY <1>0, <2>2
  <2>5. paket \in [Slots -> {FreeSlot} \union [id : Peers, size : 1 .. MaxTotal, data : Room]]
    BY <1>0, Zenon
  <2>6. started \in 0 .. MaxIncoming
    BY <1>0
  <2> QED
    BY <1>0, <2>1, <2>3, <2>4, <2>5, <2>6, Zenon DEF RecvTypes
<1>2. OneSlotEach
  BY <1>0 DEF OneSlotEach, FreeSlot
<1>3. CleanUntilSpoilt /\ NoSlotLeft
  BY <1>0 DEF CleanUntilSpoilt, NoSlotLeft
<1>4. ASSUME NEW p \in Peers PROVE Orderly(p)
  <2>1. /\ Adjacent(receive_queue, FramesOf(p), Follows)
        /\ FirstIn(receive_queue, FramesOf(p), Expected(p))
        /\ LastIn(receive_queue, FramesOf(p), Sent(p))
    BY <1>0 DEF Adjacent, FirstIn, LastIn
  <2>2. out[p].sent = 0 /\ \A i \in Slots : paket[i].id # p
    BY <1>0 DEF NoneOut, FreeSlot
  <2> QED
    BY <2>1, <2>2 DEF Orderly, Held
<1> QED
  BY <1>1, <1>2, <1>3, <1>4, Zenon DEF RecvInv

\* A step of reception leaves no peer with two slots.
LEMMA OneSlotStep == RecvTypes /\ OneSlotEach /\ RecvNext => OneSlotEach'
<1> USE RecvAssumption
<1> SUFFICES ASSUME RecvTypes, OneSlotEach, RecvNext PROVE OneSlotEach'
  OBVIOUS
<1>1. CASE ReceivePacket
  <2>0. PICK f \in Frames, i \in Slots, s \in [id : Peers, size : 1 .. MaxTotal, data : Room] :
            Taking(f, i, s)
    BY <1>1, ReceivedSlot, Zenon
  <2>1. /\ \/ paket[i].id = f.from
           \/ paket[i].id = 0 /\ \A j \in Slots : paket[j].id # f.from
        /\ s.id = f.from
        /\ paket' = [paket EXCEPT ![i] = IF f.pk = f.total THEN FreeSlot ELSE s]
    BY <2>0, Zenon DEF Taking
  <2> DEFINE n == IF f.pk = f.total THEN FreeSlot ELSE s
  <2>2. paket' = [paket EXCEPT ![i] = n] /\ n.id \in {0, f.from}
    BY <2>1 DEF FreeSlot
  <2>3. paket \in [Slots -> {FreeSlot} \union [id : Peers, size : 1 .. MaxTotal, data : Room]]
    BY DEF RecvTypes
  <2> HIDE DEF n
  <2>4. \A j \in Slots : j # i /\ paket[j].id # 0 => paket[j].id # f.from
    BY <2>1 DEF OneSlotEach
  <2> QED
    BY <2>2, <2>3, <2>4 DEF OneSlotEach
<1>2. CASE ~ReceivePacket
  <2>1. paket' = paket
    BY <1>2 DEF RecvNext, PeerStart, PeerSends, PeerRepeats, PeerGivesUp, ReceiveTaskReturns
  <2> QED
    BY <2>1 DEF OneSlotEach
<1> QED
  BY <1>1, <1>2

\* A peer that is spoilt stays so.
LEMMA SpoiltGrows == RecvTypes /\ RecvNext => spoilt \subseteq spoilt'
<1> USE RecvAssumption
<1> SUFFICES ASSUME RecvTypes, RecvNext PROVE spoilt \subseteq spoilt'
  OBVIOUS
<1>1. \A f, S : Queued(f, S) => spoilt \subseteq spoilt'
  BY DEF Queued
<1> QED
  BY <1>1 DEF RecvNext, PeerStart, PeerSends, PeerRepeats, PeerGivesUp, ReceivePacket, ReceiveTaskReturns

\* The packets of a peer that is not spoilt stay in order, from the slot over
\* the queue to the peer.
LEMMA OrderlyStep == RecvInv /\ RecvNext => \A p \in Peers \ spoilt' : Orderly(p)'
<1> SUFFICES ASSUME RecvInv, RecvNext, NEW p \in Peers, p \notin spoilt' PROVE Orderly(p)'
  BY Zenon
<1>1. RecvTypes /\ OneSlotEach /\ Orderly(p)
  <2>1. spoilt \subseteq spoilt'
    BY SpoiltGrows, Zenon DEF RecvInv
  <2>2. p \in Peers \ spoilt
    BY <2>1
  <2> QED
    BY <2>2, Zenon DEF RecvInv
<1>2. ASSUME NEW r \in Peers, PeerStart(r) PROVE Orderly(p)'
  BY <1>1, <1>2, OrderlyStart, Zenon
<1>3. ASSUME NEW r \in Peers, PeerSends(r) PROVE Orderly(p)'
  BY <1>1, <1>3, OrderlySends, Zenon
<1>4. ASSUME NEW r \in Peers, PeerRepeats(r) \/ PeerGivesUp(r) PROVE Orderly(p)'
  BY <1>1, <1>4, OrderlyOthers, Zenon
<1>5. CASE ReceivePacket
  BY <1>1, <1>5, OrderlyReceive, Zenon
<1>6. CASE ReceiveTaskReturns
  <2>1. paket' = paket /\ out' = out /\ receive_queue' = receive_queue
    BY <1>6 DEF ReceiveTaskReturns
  <2>2. \A m, t, k : Held(p, m, t, k)' <=> Held(p, m, t, k)
    BY <2>1, HeldSame, Zenon
  <2>3. out'[p] = out[p]
    BY <2>1
  <2> QED
    BY <1>1, <2>1, <2>2, <2>3, OrderlySame, Zenon DEF Orderly
<1> QED
  BY <1>2, <1>3, <1>4, <1>5, <1>6, Zenon DEF RecvNext

\* What the callback gets stays clean.
LEMMA CleanStep == RecvInv /\ RecvNext => CleanUntilSpoilt'
<1> USE RecvAssumption
<1> SUFFICES ASSUME RecvInv, RecvNext PROVE CleanUntilSpoilt'
  OBVIOUS
<1>0. RecvTypes /\ OneSlotEach /\ CleanUntilSpoilt /\ spoilt \subseteq spoilt'
  BY SpoiltGrows, Zenon DEF RecvInv
<1>1. CASE ReceivePacket
  <2>1. receive_queue \in Seq(Frames) /\ receive_queue # <<>> /\ spoilt' = spoilt
    BY <1>0, <1>1 DEF RecvTypes, ReceivePacket
  <2>2. Head(receive_queue) \in Frames
    BY <2>1
  <2>3. PICK f \in Frames : f = Head(receive_queue)
    BY <2>2, Zenon
  <2>4. f.from \in Peers
    BY DEF Frames
  <2>5. CASE f.from \notin spoilt
    <3>1. FirstIn(receive_queue, FramesOf(f.from), Expected(f.from))
      BY <2>4, <2>5, Zenon DEF RecvInv, Orderly
    <3>2. f \in FramesOf(f.from)
      BY DEF FramesOf
    <3>3. f \in Expected(f.from)
      BY <2>1, <2>3, <3>1, <3>2, FirstInTail, Zenon
    <3>4. wild' = wild /\ (got' = got \/ got' = <<f, Upto(f.total, f.msg)>>)
      BY <1>0, <1>1, <2>3, <3>3, HeldAfter, Zenon
    <3>5. ASSUME got' = <<f, Upto(f.total, f.msg)>>
          PROVE  got'[2] = [k \in 1 .. MaxTotal |-> IF k <= got'[1].total THEN got'[1].msg ELSE 0]
      BY <3>5 DEF Upto
    <3> QED
      BY <1>0, <2>1, <3>4, <3>5 DEF CleanUntilSpoilt
  <2>6. CASE f.from \in spoilt
    <3>1. got' = got \/ (got' # <<>> /\ got'[1] = f)
      <4>0. PICK g \in Frames, i \in Slots, s \in [id : Peers, size : 1 .. MaxTotal, data : Room] :
                Taking(g, i, s)
        BY <1>0, <1>1, ReceivedSlot, Zenon
      <4>1. g = Head(receive_queue) /\ got' = IF g.pk = g.total THEN <<g, s.data>> ELSE got
        BY <4>0, Zenon DEF Taking
      <4> QED
        BY <2>3, <4>1
    <3>2. spoilt' # {}
      BY <2>1, <2>6
    <3> QED
      BY <1>0, <2>1, <2>6, <3>1, <3>2 DEF CleanUntilSpoilt
  <2> QED
    BY <2>5, <2>6
<1>2. CASE ~ReceivePacket
  <2>1. got' = got /\ wild' = wild
    BY <1>2 DEF RecvNext, PeerStart, PeerSends, PeerRepeats, PeerGivesUp, ReceiveTaskReturns
  <2> QED
    BY <1>0, <2>1 DEF CleanUntilSpoilt
<1> QED
  BY <1>1, <1>2

\* A receive task that ended stays without a slot for the packet it had.
LEMMA NoSlotLeftStep == RecvTypes /\ NoSlotLeft /\ RecvNext => NoSlotLeft'
<1> USE RecvAssumption
<1> SUFFICES ASSUME RecvTypes, NoSlotLeft, RecvNext, rtask' = "dead"
             PROVE  receive_queue' # <<>> /\ \A i \in Slots : paket'[i].id \notin {0, Head(receive_queue').from}
  BY Zenon DEF NoSlotLeft
<1>1. CASE ReceivePacket
  BY <1>1 DEF ReceivePacket
<1>2. CASE ReceiveTaskReturns
  <2>1. receive_queue' = receive_queue /\ receive_queue # <<>> /\ paket' = paket
        /\ SlotFor(Head(receive_queue).from) = 0
    BY <1>2 DEF ReceiveTaskReturns
  <2>2. \A i \in Slots : paket[i].id \notin {0, Head(receive_queue).from}
    BY <2>1, SlotChosen, Zenon
  <2> QED
    BY <2>1, <2>2
<1>3. ASSUME NEW p \in Peers, PeerStart(p) \/ PeerSends(p) \/ PeerRepeats(p) \/ PeerGivesUp(p)
      PROVE  receive_queue' # <<>> /\ \A i \in Slots : paket'[i].id \notin {0, Head(receive_queue').from}
  <2>1. paket' = paket /\ rtask' = rtask
    BY <1>3 DEF PeerStart, PeerSends, PeerRepeats, PeerGivesUp
  <2>2. receive_queue # <<>> /\ \A i \in Slots : paket[i].id \notin {0, Head(receive_queue).from}
    BY <2>1 DEF NoSlotLeft
  <2>3. receive_queue' = receive_queue \/ \E e : receive_queue' = Append(receive_queue, e)
    BY <1>3 DEF PeerStart, PeerSends, PeerRepeats, PeerGivesUp, Queued
  <2>4. receive_queue' # <<>> /\ Head(receive_queue') = Head(receive_queue)
    <3>1. receive_queue \in Seq(Frames)
      BY DEF RecvTypes
    <3>2. ASSUME NEW e, receive_queue' = Append(receive_queue, e)
          PROVE  receive_queue' # <<>> /\ Head(receive_queue') = Head(receive_queue)
      <4>1. receive_queue \in Seq(Frames \union {e})
        BY <3>1
      <4> QED
        BY <2>2, <3>2, <4>1
    <3> QED
      BY <2>2, <2>3, <3>2
  <2> QED
    BY <2>1, <2>2, <2>4
<1> QED
  BY <1>1, <1>2, <1>3, Zenon DEF RecvNext

\* Each step of reception keeps its invariant.
LEMMA RecvInvStep == RecvInv /\ [RecvNext]_recvVars => RecvInv'
<1>1. RecvInv /\ RecvNext => RecvInv'
  BY RecvTypesStep, OneSlotStep, CleanStep, NoSlotLeftStep, OrderlyStep, Zenon DEF RecvInv
<1>2. RecvInv /\ UNCHANGED recvVars => RecvInv'
  <2> SUFFICES ASSUME RecvInv, UNCHANGED recvVars PROVE RecvInv'
    OBVIOUS
  <2>1. /\ out' = out /\ receive_queue' = receive_queue /\ paket' = paket /\ rtask' = rtask
        /\ got' = got /\ wild' = wild /\ started' = started /\ spoilt' = spoilt
    BY DEF recvVars
  <2>2. RecvTypes' /\ OneSlotEach' /\ CleanUntilSpoilt' /\ NoSlotLeft'
    BY <2>1, Zenon DEF RecvInv, RecvTypes, OneSlotEach, CleanUntilSpoilt, NoSlotLeft
  <2>3. ASSUME NEW p \in Peers, p \notin spoilt PROVE Orderly(p)'
    <3>1. \A m, t, k : Held(p, m, t, k)' <=> Held(p, m, t, k)
      BY <2>1, HeldSame, Zenon
    <3>2. Orderly(p)
      BY <2>3, Zenon DEF RecvInv
    <3>3. out'[p] = out[p]
      BY <2>1
    <3> QED
      BY <2>1, <3>1, <3>2, <3>3, OrderlySame, Zenon DEF Orderly
  <2> QED
    BY <2>1, <2>2, <2>3, Zenon DEF RecvInv
<1> QED
  BY <1>1, <1>2, Zenon

\* What the invariant says of the state: its type, and that a task that ended
\* had no slot to take.
LEMMA RecvInvMeans == RecvInv => RecvTypeOK /\ CleanUntilSpoilt /\ DeathNeedsHeldSlots
<1> USE RecvAssumption
<1> SUFFICES ASSUME RecvInv PROVE RecvTypeOK /\ CleanUntilSpoilt /\ DeathNeedsHeldSlots
  OBVIOUS
<1>1. RecvTypes /\ CleanUntilSpoilt /\ NoSlotLeft /\ \A p \in Peers \ spoilt : Orderly(p)
  BY Zenon DEF RecvInv
<1>2. ASSUME NEW i \in Slots
      PROVE  /\ paket[i].id \in Peers \union {0} /\ paket[i].size \in 0 .. MaxTotal
             /\ paket[i].id = 0 <=> paket[i] = FreeSlot
  <2>1. paket[i] \in {FreeSlot} \union [id : Peers, size : 1 .. MaxTotal, data : Room]
    BY <1>1, Zenon DEF RecvTypes
  <2> QED
    BY <2>1 DEF FreeSlot
<1>3. RecvTypeOK
  BY <1>1, <1>2, Zenon DEF RecvTypes, RecvTypeOK
<1>4. ASSUME rtask = "dead", NEW i \in Slots
      PROVE  \/ paket[i].id \in spoilt
             \/ out[paket[i].id].sent < out[paket[i].id].total
             \/ \E k \in 1 .. Len(receive_queue) : receive_queue[k].from = paket[i].id
  <2> DEFINE p == paket[i].id
  <2>1. p \in Peers
    BY <1>1, <1>2, <1>4 DEF NoSlotLeft
  <2>2. CASE p \notin spoilt /\ ~Has(receive_queue, FramesOf(p))
    <3>1. Held(p, out[p].msg, out[p].total, out[p].sent)
      BY <1>1, <2>1, <2>2, Zenon DEF Orderly
    <3>2. out[p].sent # out[p].total
      BY <1>4, <3>1 DEF Held
    <3>3. out[p].sent <= out[p].total /\ out[p].sent \in Nat /\ out[p].total \in Nat
      BY <1>1, <2>1 DEF RecvTypes
    <3> QED
      BY <3>2, <3>3
  <2>3. CASE Has(receive_queue, FramesOf(p))
    BY <2>3 DEF Has, FramesOf
  <2> QED
    BY <2>2, <2>3
<1>5. DeathNeedsHeldSlots
  BY <1>1, <1>4, Zenon DEF DeathNeedsHeldSlots, NoSlotLeft
<1> QED
  BY <1>1, <1>3, <1>5

-----------------------------------------------------------------------------
(* The list of devices: chains of nodes.  n stands for node before or after *)
(* a step.                                                                  *)

ClosedIn(n, S) == \A a \in S : n[a].next \in S \union {NULLPTR}
Way(n, p) ==
    {a \in Addresses :
        \A S \in SUBSET Addresses : ClosedIn(n, S) /\ p \in S \union {NULLPTR} => a \in S}

\* The nodes from h on are those of W, each once, allocated, and in no circle.
Chain(n, h, W) ==
    /\ {n[a].mac : a \in Way(n, h)} = W
    /\ \A a, b \in Way(n, h) : n[a].mac = n[b].mac => a = b
    /\ \A a \in Way(n, h) : n[a].live
    /\ \E r \in [Addresses -> Nat] :
          \A a \in Way(n, h) : n[a].next = NULLPTR \/ r[n[a].next] < r[a]

DeviceNodes == [mac : Macs \union {"none"}, next : Addresses \union {NULLPTR},
           active : {0, 1}, old : 0 .. OldBound - 1, live : BOOLEAN]

\* From is the way through the nodes of the state, here and in the next one.
LEMMA FromIsWay ==
  /\ \A p : From(p) = Way(node, p)
  /\ \A p : From(p)' = Way(node', p)
<1>1. \A S : Closed(S) <=> ClosedIn(node, S)
  BY Zenon DEF Closed, ClosedIn
<1>2. \A S : Closed(S)' <=> ClosedIn(node', S)
  BY Zenon DEF Closed, ClosedIn
<1>3. ASSUME NEW p PROVE From(p) = Way(node, p)
  BY <1>1 DEF From, Way
<1>4. ASSUME NEW p PROVE From(p)' = Way(node', p)
  BY <1>2 DEF From, Way, Addresses
<1> QED
  BY <1>3, <1>4

\* A way is closed under next and starts where it starts.
LEMMA WayClosed ==
  ASSUME NEW n \in [Addresses -> DeviceNodes], NEW p \in Addresses \union {NULLPTR}
  PROVE  /\ Way(n, p) \subseteq Addresses /\ ClosedIn(n, Way(n, p))
         /\ p \in Way(n, p) \union {NULLPTR}
<1>1. Way(n, p) \subseteq Addresses
  BY DEF Way
<1>2. p \in Way(n, p) \union {NULLPTR}
  BY DEF Way
<1>3. ASSUME NEW a \in Way(n, p), n[a].next # NULLPTR PROVE n[a].next \in Way(n, p)
  <2>1. a \in Addresses /\ n[a].next \in Addresses
    BY <1>1, <1>3 DEF DeviceNodes
  <2>2. ASSUME NEW S \in SUBSET Addresses, ClosedIn(n, S), p \in S \union {NULLPTR}
        PROVE  n[a].next \in S
    <3>1. a \in S
      BY <2>2 DEF Way
    <3> QED
      BY <1>3, <2>2, <3>1 DEF ClosedIn
  <2> QED
    BY <2>1, <2>2 DEF Way
<1> QED
  BY <1>1, <1>2, <1>3 DEF ClosedIn

\* A way is in every set that is closed and has its start.
LEMMA WayLeast ==
  ASSUME NEW n, NEW p, NEW S \in SUBSET Addresses, ClosedIn(n, S), p \in S \union {NULLPTR}
  PROVE  Way(n, p) \subseteq S
BY DEF Way

\* No way leads from NULL.
LEMMA WayOfNull ==
  ASSUME NEW n
  PROVE  Way(n, NULLPTR) = {} /\ Chain(n, NULLPTR, {})
<1>1. Way(n, NULLPTR) = {}
  <2>1. ClosedIn(n, {})
    BY DEF ClosedIn
  <2> QED
    BY <2>1 DEF Way
<1>2. [a \in Addresses |-> 0] \in [Addresses -> Nat]
  OBVIOUS
<1> QED
  BY <1>1, <1>2 DEF Chain

\* A chain depends on its own nodes only.
LEMMA ChainSame ==
  ASSUME NEW n \in [Addresses -> DeviceNodes], NEW m \in [Addresses -> DeviceNodes],
         NEW h \in Addresses \union {NULLPTR},
         \A a \in Way(n, h) : m[a].next = n[a].next /\ m[a].mac = n[a].mac /\ m[a].live = n[a].live
  PROVE  /\ Way(m, h) = Way(n, h)
         /\ \A W : Chain(n, h, W) => Chain(m, h, W)
<1>1. Way(m, h) = Way(n, h)
  <2>1. Way(m, h) \subseteq Way(n, h)
    <3>1. /\ Way(n, h) \subseteq Addresses /\ ClosedIn(n, Way(n, h))
          /\ h \in Way(n, h) \union {NULLPTR}
      BY WayClosed, Zenon
    <3>2. ClosedIn(m, Way(n, h))
      BY <3>1 DEF ClosedIn
    <3>3. Way(n, h) \in SUBSET Addresses
      BY <3>1
    <3> QED
      BY <3>1, <3>2, <3>3, WayLeast, Zenon
  <2>2. Way(n, h) \subseteq Way(m, h)
    <3>1. /\ Way(m, h) \subseteq Addresses /\ ClosedIn(m, Way(m, h))
          /\ h \in Way(m, h) \union {NULLPTR}
      BY WayClosed, Zenon
    <3>2. ClosedIn(n, Way(m, h))
      BY <3>1, <2>1 DEF ClosedIn
    <3>3. Way(m, h) \in SUBSET Addresses
      BY <3>1
    <3> QED
      BY <3>1, <3>2, <3>3, WayLeast, Zenon
  <2> QED
    BY <2>1, <2>2
<1>2. ASSUME NEW W, Chain(n, h, W) PROVE Chain(m, h, W)
  <2>1. {m[a].mac : a \in Way(n, h)} = {n[a].mac : a \in Way(n, h)}
    OBVIOUS
  <2>2. {m[a].mac : a \in Way(m, h)} = W
    BY <1>1, <1>2, <2>1, Zenon DEF Chain
  <2>3. PICK r \in [Addresses -> Nat] : \A a \in Way(n, h) : n[a].next = NULLPTR \/ r[n[a].next] < r[a]
    BY <1>2, Zenon DEF Chain
  <2>4. \A a \in Way(m, h) : m[a].next = NULLPTR \/ r[m[a].next] < r[a]
    BY <1>1, <2>3
  <2>5. /\ \A a, b \in Way(m, h) : m[a].mac = m[b].mac => a = b
        /\ \A a \in Way(m, h) : m[a].live
    BY <1>1, <1>2 DEF Chain
  <2> QED
    BY <2>2, <2>4, <2>5, Zenon DEF Chain
<1> QED
  BY <1>1, <1>2

\* A new node in front.
LEMMA ChainAdd ==
  ASSUME NEW n \in [Addresses -> DeviceNodes], NEW h \in Addresses \union {NULLPTR}, NEW W,
         Chain(n, h, W), NEW x \in Addresses, x \notin Way(n, h),
         n[x].next = h, n[x].live, n[x].mac \notin W
  PROVE  Way(n, h) \subseteq Way(n, x) /\ Chain(n, x, W \union {n[x].mac})
<1>0. NULLPTR \notin Addresses
  BY DEF NULLPTR, Addresses
<1>1. /\ Way(n, h) \subseteq Addresses /\ ClosedIn(n, Way(n, h))
      /\ h \in Way(n, h) \union {NULLPTR}
  BY WayClosed, Zenon
<1>2. /\ Way(n, x) \subseteq Addresses /\ ClosedIn(n, Way(n, x))
      /\ x \in Way(n, x) \union {NULLPTR}
  BY WayClosed, Zenon
<1>3. Way(n, x) = Way(n, h) \union {x}
  <2>1. Way(n, x) \subseteq Way(n, h) \union {x}
    <3>1. ClosedIn(n, Way(n, h) \union {x})
      BY <1>1 DEF ClosedIn
    <3>2. Way(n, h) \union {x} \in SUBSET Addresses /\ x \in (Way(n, h) \union {x}) \union {NULLPTR}
      BY <1>1
    <3> QED
      BY <3>1, <3>2, WayLeast, Zenon
  <2>2. x \in Way(n, x)
    BY <1>0, <1>2
  <2>3. h \in Way(n, x) \union {NULLPTR}
    BY <1>2, <2>2 DEF ClosedIn
  <2>4. Way(n, x) \in SUBSET Addresses
    BY <1>2
  <2>5. Way(n, h) \subseteq Way(n, x)
    BY <1>2, <2>3, <2>4, WayLeast, Zenon
  <2> QED
    BY <2>1, <2>2, <2>5
<1>4. {n[a].mac : a \in Way(n, x)} = W \union {n[x].mac}
  <2>1. {n[a].mac : a \in Way(n, h)} = W
    BY Zenon DEF Chain
  <2>2. {n[a].mac : a \in Way(n, h) \union {x}} = {n[a].mac : a \in Way(n, h)} \union {n[x].mac}
    OBVIOUS
  <2> QED
    BY <1>3, <2>1, <2>2, Zenon
<1>5. \A a \in Way(n, h) : n[a].mac # n[x].mac
  BY DEF Chain
<1>6. /\ \A a, b \in Way(n, x) : n[a].mac = n[b].mac => a = b
      /\ \A a \in Way(n, x) : n[a].live
  BY <1>3, <1>5 DEF Chain
<1>7. PICK r \in [Addresses -> Nat] : \A a \in Way(n, h) : n[a].next = NULLPTR \/ r[n[a].next] < r[a]
  BY Zenon DEF Chain
<1> DEFINE s == [r EXCEPT ![x] = IF h = NULLPTR THEN 0 ELSE r[h] + 1]
<1>8. s \in [Addresses -> Nat] /\ \A a \in Addresses \ {x} : s[a] = r[a]
  OBVIOUS
<1>9. h # NULLPTR => s[x] = r[h] + 1 /\ s[h] = r[h] /\ r[h] \in Nat
  BY <1>1
<1> HIDE DEF s
<1>10. ASSUME NEW a \in Way(n, x) PROVE n[a].next = NULLPTR \/ s[n[a].next] < s[a]
  <2>1. CASE a = x
    BY <1>9, <2>1
  <2>2. CASE a \in Way(n, h)
    <3>1. n[a].next = NULLPTR \/ (n[a].next \in Addresses \ {x} /\ a \in Addresses \ {x})
      BY <1>1, <2>2 DEF ClosedIn
    <3> QED
      BY <1>7, <1>8, <2>2, <3>1
  <2> QED
    BY <1>3, <2>1, <2>2
<1> QED
  BY <1>3, <1>4, <1>6, <1>8, <1>10 DEF Chain

\* A node is taken out.
Cut(n, h, x) ==
    [b \in Addresses |->
        IF b = x THEN [n[x] EXCEPT !.live = FALSE]
        ELSE IF b \in Way(n, h) /\ n[b].next = x THEN [n[b] EXCEPT !.next = n[x].next]
        ELSE n[b]]

\* A chain from which one node is cut out is the chain of the other devices.
LEMMA ChainCut ==
  ASSUME NEW n \in [Addresses -> DeviceNodes], NEW h \in Addresses \union {NULLPTR}, NEW W,
         Chain(n, h, W), NEW x \in Way(n, h), NEW g, g = IF x = h THEN n[x].next ELSE h
  PROVE  Chain(Cut(n, h, x), g, W \ {n[x].mac})
<1> DEFINE m == Cut(n, h, x)
           Y == Way(n, h) \ {x}
<1>0. NULLPTR \notin Addresses
  BY DEF NULLPTR, Addresses
<1>1. /\ Way(n, h) \subseteq Addresses /\ ClosedIn(n, Way(n, h))
      /\ h \in Way(n, h) \union {NULLPTR} /\ x \in Addresses
  BY WayClosed
<1>2. PICK r \in [Addresses -> Nat] : \A a \in Way(n, h) : n[a].next = NULLPTR \/ r[n[a].next] < r[a]
  BY Zenon DEF Chain
<1>3. n[x].next # x /\ n[x].next \in Y \union {NULLPTR}
  <2>1. n[x].next # x
    BY <1>0, <1>1, <1>2
  <2> QED
    BY <1>1, <2>1 DEF ClosedIn
<1>4. \A b \in Addresses :
          /\ m[b].mac = n[b].mac
          /\ b # x => m[b].live = n[b].live
          /\ b # x /\ ~(b \in Way(n, h) /\ n[b].next = x) => m[b].next = n[b].next
          /\ b # x /\ b \in Way(n, h) /\ n[b].next = x => m[b].next = n[x].next
          /\ b = x => m[b].next = n[x].next
  <2> SUFFICES ASSUME NEW b \in Addresses
               PROVE  /\ m[b].mac = n[b].mac
                      /\ b # x => m[b].live = n[b].live
                      /\ b # x /\ ~(b \in Way(n, h) /\ n[b].next = x) => m[b].next = n[b].next
                      /\ b # x /\ b \in Way(n, h) /\ n[b].next = x => m[b].next = n[x].next
                      /\ b = x => m[b].next = n[x].next
    BY Zenon
  <2>1. n[b] \in DeviceNodes /\ n[x] \in DeviceNodes
    BY <1>1
  <2>2. CASE b = x
    BY <1>1, <2>1, <2>2 DEF Cut, DeviceNodes
  <2>3. CASE b # x /\ ~(b \in Way(n, h) /\ n[b].next = x)
    BY <1>1, <2>1, <2>3 DEF Cut
  <2>4. CASE b # x /\ b \in Way(n, h) /\ n[b].next = x
    BY <1>1, <2>1, <2>4 DEF Cut, DeviceNodes
  <2> QED
    BY <2>2, <2>3, <2>4, Zenon
<1> HIDE DEF m
<1>5. g \in Y \union {NULLPTR}
  BY <1>1, <1>3
<1>6. ClosedIn(m, Y)
  BY <1>1, <1>3, <1>4 DEF ClosedIn
<1>7. Way(m, g) \subseteq Y
  <2>1. Y \in SUBSET Addresses
    BY <1>1
  <2> QED
    BY <1>5, <1>6, <2>1, WayLeast, Zenon
<1>8. ASSUME NEW S \in SUBSET Addresses, ClosedIn(m, S), g \in S \union {NULLPTR}
      PROVE  Y \subseteq S
  <2>1. CASE n[x].next \in S \union {NULLPTR}
    <3>1. ClosedIn(n, S \union {x})
      BY <1>1, <1>4, <1>8, <2>1 DEF ClosedIn
    <3>2. S \union {x} \in SUBSET Addresses /\ h \in (S \union {x}) \union {NULLPTR}
      BY <1>1, <1>8
    <3>3. Way(n, h) \subseteq S \union {x}
      BY <3>1, <3>2, WayLeast, Zenon
    <3> QED
      BY <3>3
  <2>2. CASE n[x].next \notin S \union {NULLPTR}
    <3>1. x # h
      BY <1>8, <2>2
    <3>2. x \notin S
      BY <1>4, <1>8, <2>2 DEF ClosedIn
    <3>3. \A b \in S : b \notin Way(n, h) \/ n[b].next # x
      BY <1>4, <1>8, <2>2, <3>2 DEF ClosedIn
    <3>4. ClosedIn(n, S)
      BY <1>4, <1>8, <3>2, <3>3 DEF ClosedIn
    <3>5. h \in S \union {NULLPTR}
      BY <1>8, <3>1
    <3>6. Way(n, h) \subseteq S
      BY <3>4, <3>5, WayLeast, Zenon
    <3> QED
      BY <3>6
  <2> QED
    BY <2>1, <2>2
<1>9. Way(m, g) = Y
  <2>1. Y \subseteq Way(m, g)
    BY <1>1, <1>8 DEF Way
  <2> QED
    BY <1>7, <2>1
<1>10. {m[a].mac : a \in Y} = W \ {n[x].mac}
  <2>1. {m[a].mac : a \in Y} = {n[a].mac : a \in Y}
    BY <1>1, <1>4
  <2>2. \A a \in Y : n[a].mac # n[x].mac
    BY DEF Chain
  <2>3. {n[a].mac : a \in Y} = {n[a].mac : a \in Way(n, h)} \ {n[x].mac}
    BY <2>2
  <2> QED
    BY <2>1, <2>3 DEF Chain
<1>11. /\ \A a, b \in Y : m[a].mac = m[b].mac => a = b
       /\ \A a \in Y : m[a].live
  BY <1>1, <1>4 DEF Chain
<1>12. ASSUME NEW a \in Y PROVE m[a].next = NULLPTR \/ r[m[a].next] < r[a]
  <2>1. CASE n[a].next # x
    BY <1>1, <1>2, <1>4, <2>1
  <2>2. CASE n[a].next = x
    <3>1. m[a].next = n[x].next /\ r[x] < r[a]
      BY <1>0, <1>1, <1>2, <1>4, <2>2
    <3>2. n[x].next = NULLPTR \/ (r[n[x].next] < r[x] /\ r[n[x].next] \in Nat)
      BY <1>1, <1>2, <1>3
    <3>3. r[x] \in Nat /\ r[a] \in Nat
      BY <1>1
    <3> QED
      BY <3>1, <3>2, <3>3
  <2> QED
    BY <2>1, <2>2
<1> QED
  BY <1>9, <1>10, <1>11, <1>12, Zenon DEF Chain, m

\* As many nodes as devices.
LEMMA ChainCounts ==
  ASSUME NEW n, NEW h, NEW W, Chain(n, h, W)
  PROVE  Cardinality(Way(n, h)) = Cardinality(W)
<1> DEFINE Y == Way(n, h)
           f == [a \in Y |-> n[a].mac]
<1>1. IsFiniteSet(Y)
  <2>1. IsFiniteSet(Addresses)
    BY ListAssumption, FS_Interval DEF Addresses
  <2>2. Y \in SUBSET Addresses
    BY DEF Way
  <2> QED
    BY <2>1, <2>2, FS_Subset, Zenon
<1>2. {n[a].mac : a \in Y} = W /\ \A a, b \in Y : n[a].mac = n[b].mac => a = b
  BY Zenon DEF Chain
<1> HIDE DEF Y
<1>3. f \in Bijection(Y, W)
  BY <1>2 DEF Bijection, Injection, Surjection, IsInjective
<1>4. ExistsBijection(Y, W)
  BY <1>3, Zenon DEF ExistsBijection
<1> QED
  BY <1>1, <1>4, FS_Bijection, Zenon DEF Y

UpdRecords == [pc : {"idle", "link", "head", "store", "null"},
               mac : Macs \union {"none"}, ptr : Addresses \union {NULLPTR}]

ListTypes ==
    /\ dev_handle \in Addresses \union {NULLPTR}
    /\ node \in [Addresses -> DeviceNodes]
    /\ upd \in [Updaters -> UpdRecords]
    /\ \A u \in Updaters : upd[u].pc \in {"link", "head"} => upd[u].ptr # NULLPTR
    /\ walk \in [pc : {"rest", "ping", "write", "next"}, at : Addresses \union {NULLPTR}, ret : BOOLEAN]
    /\ walk.pc # "rest" => walk.at # NULLPTR
    /\ crossed \in BOOLEAN /\ cut \in BOOLEAN /\ touched \in BOOLEAN

Resting(u) == upd[u].pc = "idle"

OneCaller == \A u, v \in Updaters : ~Resting(u) /\ ~Resting(v) => u = v

\* Between the stores of a call: the list from dev_handle is whole until a node
\* is taken out; then it is the list from the pointer that the call will store.
CallsChain ==
    /\ (\A u \in Updaters : Resting(u)) => Chain(node, dev_handle, want)
    /\ \A u \in Updaters :
          /\ upd[u].pc \in {"link", "head"} =>
                /\ Chain(node, dev_handle, want)
                /\ upd[u].ptr \notin Way(node, dev_handle)
                /\ node[upd[u].ptr].live /\ node[upd[u].ptr].mac = upd[u].mac
                /\ upd[u].mac \notin want
          /\ upd[u].pc = "head" => node[upd[u].ptr].next = dev_handle
          /\ upd[u].pc = "store" => Chain(node, upd[u].ptr, want \ {upd[u].mac})

\* The walk is at a node of the list as long as none was freed under it.
WalkInList ==
    walk.pc # "rest" /\ ~cut =>
        /\ walk.at \in Way(node, dev_handle)
        /\ \A u \in Updaters : /\ upd[u].pc # "null"
                               /\ upd[u].pc = "store" => upd[u].ptr = dev_handle

ListInv ==
    /\ ListTypes
    /\ ~crossed => OneCaller /\ CallsChain /\ WalkInList /\ (touched => cut)

-----------------------------------------------------------------------------

\* The invariant of the list holds at the start.
LEMMA ListInvInit == ListInit => ListInv
<1> USE ListAssumption
<1> SUFFICES ASSUME ListInit PROVE ListInv
  OBVIOUS
<1>0. /\ dev_handle = NULLPTR /\ node = [a \in Addresses |-> NoNode] /\ upd = [u \in Updaters |-> IdleUpd]
      /\ walk = AtRest /\ want = {} /\ crossed = FALSE /\ cut = FALSE /\ touched = FALSE
  BY Zenon DEF ListInit
<1>1. ListTypes
  <2>1. NoNode \in DeviceNodes /\ IdleUpd \in UpdRecords /\ IdleUpd.pc = "idle"
    BY DEF NoNode, IdleUpd, DeviceNodes, UpdRecords
  <2>2. node \in [Addresses -> DeviceNodes] /\ upd \in [Updaters -> UpdRecords]
    BY <1>0, <2>1, Zenon
  <2>3. \A u \in Updaters : upd[u].pc \notin {"link", "head"}
    BY <1>0, <2>1
  <2>4. /\ walk \in [pc : {"rest", "ping", "write", "next"}, at : Addresses \union {NULLPTR}, ret : BOOLEAN]
        /\ walk.pc = "rest"
    BY <1>0 DEF AtRest
  <2> QED
    BY <1>0, <2>2, <2>3, <2>4, Zenon DEF ListTypes
<1>2. \A u \in Updaters : upd[u].pc = "idle"
  BY <1>0 DEF IdleUpd
<1>3. Chain(node, dev_handle, want)
  BY <1>0, WayOfNull, Zenon
<1>4. walk.pc = "rest"
  BY <1>0 DEF AtRest
<1>5. OneCaller /\ CallsChain /\ WalkInList
  <2>1. OneCaller
    BY <1>2, Zenon DEF OneCaller, Resting
  <2>2. WalkInList
    BY <1>4, Zenon DEF WalkInList
  <2>3. CallsChain
    BY <1>2, <1>3 DEF CallsChain
  <2> QED
    BY <2>1, <2>2, <2>3
<1> QED
  BY <1>0, <1>1, <1>5 DEF ListInv

\* A call begins: alone, or the behaviour is crossed from then on.
LEMMA BeginFacts ==
  ASSUME ListTypes, NEW u \in Updaters, Begin(u)
  PROVE  /\ Resting(u) /\ crossed' \in BOOLEAN
         /\ ~crossed' => ~crossed /\ \A v \in Updaters : Resting(v)
BY Zenon DEF Begin, Resting, ListTypes

\* Adding a device that is known keeps the invariant of the list.
LEMMA AddKnownStep ==
  ASSUME ListInv, NEW u \in Updaters, AddKnown(u)
  PROVE  ListInv'
<1>1. PICK mac \in Macs : /\ Begin(u) /\ Found(mac) # {} /\ want' = want \union {mac}
                          /\ UNCHANGED <<dev_handle, node, upd, walk, cut, touched>>
  BY Zenon DEF AddKnown
<1>2. /\ dev_handle' = dev_handle /\ node' = node /\ upd' = upd /\ walk' = walk /\ cut' = cut
      /\ touched' = touched
  BY <1>1
<1>3. ListTypes /\ (~crossed => OneCaller /\ CallsChain /\ WalkInList /\ (touched => cut))
  BY Zenon DEF ListInv
<1>4. crossed' \in BOOLEAN /\ (~crossed' => ~crossed /\ \A v \in Updaters : Resting(v))
  BY <1>1, <1>3, BeginFacts, Zenon
<1>5. ListTypes'
  BY <1>2, <1>3, <1>4, Zenon DEF ListTypes
<1>6. ~crossed' => OneCaller' /\ CallsChain' /\ WalkInList' /\ (touched' => cut')
  <2> SUFFICES ASSUME ~crossed' PROVE OneCaller' /\ CallsChain' /\ WalkInList' /\ (touched' => cut')
    OBVIOUS
  <2>1. OneCaller /\ WalkInList /\ (touched => cut) /\ Chain(node, dev_handle, want)
        /\ \A v \in Updaters : Resting(v)
    BY <1>3, <1>4, Zenon DEF CallsChain
  <2>2. want' = want
    <3>1. PICK a \in From(dev_handle) : node[a].mac = mac
      BY <1>1, Zenon DEF Found
    <3>2. a \in Way(node, dev_handle)
      BY <3>1, FromIsWay, Zenon
    <3>3. mac \in want
      BY <2>1, <3>1, <3>2 DEF Chain
    <3> QED
      BY <1>1, <3>3
  <2>3. CallsChain'
    BY <1>2, <2>1, <2>2 DEF CallsChain, Resting
  <2>4. OneCaller' /\ WalkInList'
    BY <1>2, <2>1, Zenon DEF OneCaller, Resting, WalkInList
  <2> QED
    BY <1>2, <2>1, <2>3, <2>4, Zenon
<1> QED
  BY <1>5, <1>6, Zenon DEF ListInv

\* Taking memory for a new device keeps it.
LEMMA AddNewStep ==
  ASSUME ListInv, NEW u \in Updaters, AddNew(u)
  PROVE  ListInv'
<1> USE ListAssumption
<1>1. PICK mac \in Macs, a \in Addresses :
          /\ Begin(u) /\ Found(mac) = {} /\ ~node[a].live
          /\ node' = [node EXCEPT ![a] = [NoNode EXCEPT !.mac = mac, !.live = TRUE]]
          /\ upd' = [upd EXCEPT ![u] = [pc |-> "link", mac |-> mac, ptr |-> a]]
          /\ UNCHANGED <<dev_handle, walk, want, cut, touched>>
  BY Zenon DEF AddNew
<1>2. dev_handle' = dev_handle /\ walk' = walk /\ cut' = cut /\ touched' = touched /\ want' = want
  BY <1>1
<1>3. ListTypes /\ (~crossed => OneCaller /\ CallsChain /\ WalkInList /\ (touched => cut))
  BY Zenon DEF ListInv
<1>4. crossed' \in BOOLEAN /\ (~crossed' => ~crossed /\ \A v \in Updaters : Resting(v))
  BY <1>1, <1>3, BeginFacts, Zenon
<1> DEFINE e == [NoNode EXCEPT !.mac = mac, !.live = TRUE]
           w == [pc |-> "link", mac |-> mac, ptr |-> a]
<1>5. e \in DeviceNodes /\ e.mac = mac /\ e.live /\ w \in UpdRecords /\ a # NULLPTR
  <2>1. a # NULLPTR
    BY DEF NULLPTR, Addresses
  <2>2. w \in UpdRecords
    BY DEF UpdRecords
  <2>3. 0 \in 0 .. OldBound - 1
    BY ListAssumption
  <2>4. NoNode \in DeviceNodes
    BY <2>3 DEF NoNode, DeviceNodes
  <2>5. e \in DeviceNodes /\ e.mac = mac /\ e.live
    BY <2>4 DEF DeviceNodes
  <2> QED
    BY <2>1, <2>2, <2>5
<1>6. node \in [Addresses -> DeviceNodes] /\ upd \in [Updaters -> UpdRecords] /\ dev_handle \in Addresses \union {NULLPTR}
  BY <1>3, Zenon DEF ListTypes
<1>7. node' \in [Addresses -> DeviceNodes] /\ node'[a] = e /\ \A b \in Addresses : b # a => node'[b] = node[b]
  <2>1. node' = [node EXCEPT ![a] = e]
    BY <1>1, Zenon
  <2> HIDE DEF e
  <2> QED
    BY <1>5, <1>6, <2>1
<1>8. upd' \in [Updaters -> UpdRecords] /\ upd'[u] = w /\ \A v \in Updaters : v # u => upd'[v] = upd[v]
  <2>1. upd' = [upd EXCEPT ![u] = w]
    BY <1>1, Zenon
  <2> HIDE DEF w
  <2> QED
    BY <1>5, <1>6, <2>1
<1>9. ListTypes'
  <2>1. \A v \in Updaters : upd'[v].pc \in {"link", "head"} => upd'[v].ptr # NULLPTR
    BY <1>3, <1>5, <1>8 DEF ListTypes
  <2> QED
    BY <1>2, <1>3, <1>4, <1>7, <1>8, <2>1, Zenon DEF ListTypes
<1> HIDE DEF e
<1>10. ~crossed' => OneCaller' /\ CallsChain' /\ WalkInList' /\ (touched' => cut')
  <2> SUFFICES ASSUME ~crossed' PROVE OneCaller' /\ CallsChain' /\ WalkInList' /\ (touched' => cut')
    OBVIOUS
  <2>1. /\ OneCaller /\ WalkInList /\ (touched => cut) /\ Chain(node, dev_handle, want)
        /\ \A v \in Updaters : Resting(v)
    BY <1>3, <1>4, Zenon DEF CallsChain
  <2>2. a \notin Way(node, dev_handle)
    BY <1>1, <2>1, Zenon DEF Chain
  <2>3. Way(node, dev_handle) \subseteq Addresses
    BY <1>6, WayClosed, Zenon
  <2>4. \A b \in Way(node, dev_handle) : node'[b].next = node[b].next /\ node'[b].mac = node[b].mac
                                         /\ node'[b].live = node[b].live
    BY <1>7, <2>2, <2>3
  <2>5. Way(node', dev_handle) = Way(node, dev_handle) /\ Chain(node', dev_handle, want)
    BY <1>6, <1>7, <2>1, <2>4, ChainSame, Zenon
  <2>6. mac \notin want
    <3>1. \A b \in From(dev_handle) : node[b].mac # mac
      BY <1>1 DEF Found
    <3>2. \A b \in Way(node, dev_handle) : node[b].mac # mac
      BY <3>1, FromIsWay, Zenon
    <3> QED
      BY <2>1, <3>2 DEF Chain
  <2>7. CallsChain'
    <3>1. /\ Chain(node', dev_handle', want') /\ upd'[u].ptr \notin Way(node', dev_handle')
          /\ node'[upd'[u].ptr].live /\ node'[upd'[u].ptr].mac = upd'[u].mac
          /\ upd'[u].mac \notin want' /\ upd'[u].pc = "link"
      BY <1>2, <1>5, <1>7, <1>8, <2>2, <2>5, <2>6
    <3>2. \A v \in Updaters : v # u => upd'[v].pc = "idle"
      BY <1>8, <2>1, Zenon DEF Resting
    <3>3. ASSUME NEW v \in Updaters, v # u
          PROVE  upd'[v].pc \notin {"link", "head", "store"}
      BY <3>2, <3>3
    <3> QED
      BY <3>1, <3>3 DEF CallsChain, Resting
  <2>8. OneCaller'
    BY <1>8, <2>1, Zenon DEF OneCaller, Resting
  <2>9. WalkInList'
    BY <1>2, <1>8, <2>1, <2>5 DEF WalkInList, Resting
  <2> QED
    BY <1>2, <2>1, <2>7, <2>8, <2>9, Zenon
<1> QED
  BY <1>9, <1>10, Zenon DEF ListInv

\* Linking the new node before the head keeps it.
LEMMA AddLinkStep ==
  ASSUME ListInv, NEW u \in Updaters, AddLink(u)
  PROVE  ListInv'
<1> USE ListAssumption
<1> DEFINE a == upd[u].ptr
<1>1. /\ upd[u].pc = "link"
      /\ node' = [node EXCEPT ![a].next = dev_handle]
      /\ upd' = [upd EXCEPT ![u].pc = "head"]
      /\ dev_handle' = dev_handle /\ walk' = walk /\ cut' = cut /\ touched' = touched /\ want' = want
      /\ crossed' = crossed
  BY DEF AddLink, OldHead
<1>3. ListTypes /\ (~crossed => OneCaller /\ CallsChain /\ WalkInList /\ (touched => cut))
  BY Zenon DEF ListInv
<1>6. /\ node \in [Addresses -> DeviceNodes] /\ upd \in [Updaters -> UpdRecords]
      /\ dev_handle \in Addresses \union {NULLPTR}
  BY <1>3, Zenon DEF ListTypes
<1>5. a \in Addresses
  BY <1>1, <1>3, <1>6 DEF ListTypes, UpdRecords
<1>7. /\ node' \in [Addresses -> DeviceNodes] /\ node'[a].next = dev_handle /\ node'[a].mac = node[a].mac
      /\ node'[a].live = node[a].live
      /\ \A b \in Addresses : b # a => node'[b] = node[b]
  <2>1. node[a] \in DeviceNodes
    BY <1>5, <1>6
  <2> DEFINE e == [node[a] EXCEPT !.next = dev_handle]
  <2>2. e \in DeviceNodes /\ e.next = dev_handle /\ e.mac = node[a].mac /\ e.live = node[a].live
    BY <1>6, <2>1 DEF DeviceNodes
  <2>3. node' = [node EXCEPT ![a] = e]
    BY <1>1
  <2> HIDE DEF e
  <2> QED
    BY <1>5, <1>6, <2>2, <2>3
<1>8. /\ upd' \in [Updaters -> UpdRecords] /\ upd'[u].pc = "head" /\ upd'[u].ptr = a /\ upd'[u].mac = upd[u].mac
      /\ \A v \in Updaters : v # u => upd'[v] = upd[v]
  BY <1>1, <1>6 DEF UpdRecords
<1>9. ListTypes'
  <2>1. \A v \in Updaters : upd'[v].pc \in {"link", "head"} => upd'[v].ptr # NULLPTR
    BY <1>1, <1>3, <1>8 DEF ListTypes
  <2> QED
    BY <1>1, <1>3, <1>6, <1>7, <1>8, <2>1, Zenon DEF ListTypes
<1>10. ~crossed' => OneCaller' /\ CallsChain' /\ WalkInList' /\ (touched' => cut')
  <2> SUFFICES ASSUME ~crossed' PROVE OneCaller' /\ CallsChain' /\ WalkInList' /\ (touched' => cut')
    OBVIOUS
  <2> HIDE DEF a
  <2>1. /\ OneCaller /\ WalkInList /\ (touched => cut) /\ CallsChain
    BY <1>1, <1>3, Zenon
  <2>2. /\ Chain(node, dev_handle, want) /\ a \notin Way(node, dev_handle)
        /\ node[a].live /\ node[a].mac = upd[u].mac /\ upd[u].mac \notin want
    BY <1>1, <2>1 DEF CallsChain, a
  <2>3. Way(node, dev_handle) \subseteq Addresses
    BY <1>6, WayClosed, Zenon
  <2>4. \A b \in Way(node, dev_handle) : node'[b].next = node[b].next /\ node'[b].mac = node[b].mac
                                         /\ node'[b].live = node[b].live
    BY <1>7, <2>2, <2>3
  <2>5. Way(node', dev_handle) = Way(node, dev_handle) /\ Chain(node', dev_handle, want)
    BY <1>6, <1>7, <2>2, <2>4, ChainSame, Zenon
  <2>6. \A v \in Updaters : v # u => upd'[v].pc = "idle"
    BY <1>1, <1>8, <2>1 DEF OneCaller, Resting
  <2>7. CallsChain'
    <3>1. /\ Chain(node', dev_handle', want') /\ upd'[u].ptr \notin Way(node', dev_handle')
          /\ node'[upd'[u].ptr].live /\ node'[upd'[u].ptr].mac = upd'[u].mac
          /\ upd'[u].mac \notin want' /\ upd'[u].pc = "head" /\ node'[upd'[u].ptr].next = dev_handle'
      BY <1>1, <1>7, <1>8, <2>2, <2>5
    <3>3. ASSUME NEW v \in Updaters, v # u
          PROVE  upd'[v].pc \notin {"link", "head", "store"}
      BY <2>6, <3>3
    <3> QED
      BY <3>1, <3>3 DEF CallsChain, Resting
  <2>8. OneCaller'
    BY <2>6 DEF OneCaller, Resting
  <2>9. WalkInList'
    BY <1>1, <1>8, <2>1, <2>5, <2>6 DEF WalkInList
  <2> QED
    BY <1>1, <2>1, <2>7, <2>8, <2>9, Zenon
<1> QED
  BY <1>9, <1>10, Zenon DEF ListInv

\* The end of a call: the store of the head.
LEMMA StoreTypes ==
  ASSUME ListTypes, NEW u \in Updaters, upd' = [upd EXCEPT ![u] = IdleUpd],
         dev_handle' \in Addresses \union {NULLPTR},
         node' = node /\ walk' = walk /\ cut' = cut /\ touched' = touched /\ crossed' = crossed
  PROVE  /\ ListTypes' /\ upd'[u].pc = "idle"
         /\ \A v \in Updaters : v # u => upd'[v] = upd[v]
<1>1. IdleUpd \in UpdRecords /\ IdleUpd.pc = "idle"
  BY DEF IdleUpd, UpdRecords, NULLPTR
<1>2. upd \in [Updaters -> UpdRecords]
  BY DEF ListTypes
<1>3. upd' \in [Updaters -> UpdRecords] /\ upd'[u] = IdleUpd
      /\ \A v \in Updaters : v # u => upd'[v] = upd[v]
  BY <1>1, <1>2
<1>4. \A v \in Updaters : upd'[v].pc \in {"link", "head"} => upd'[v].ptr # NULLPTR
  BY <1>1, <1>3 DEF ListTypes
<1>5. ListTypes'
  BY <1>3, <1>4, Zenon DEF ListTypes
<1> QED
  BY <1>1, <1>3, <1>5

\* Storing the new head keeps it.
LEMMA StoreStep ==
  ASSUME ListInv, NEW u \in Updaters, AddHead(u) \/ RemoveStore(u) \/ ClearNull(u)
  PROVE  ListInv'
<1> USE ListAssumption
<1>1. /\ upd' = [upd EXCEPT ![u] = IdleUpd]
      /\ node' = node /\ walk' = walk /\ cut' = cut /\ touched' = touched /\ crossed' = crossed
  BY DEF AddHead, RemoveStore, ClearNull
<1>2. ListTypes /\ (~crossed => OneCaller /\ CallsChain /\ WalkInList /\ (touched => cut))
  BY Zenon DEF ListInv
<1>3. /\ node \in [Addresses -> DeviceNodes] /\ upd \in [Updaters -> UpdRecords]
      /\ dev_handle \in Addresses \union {NULLPTR}
  BY <1>2, Zenon DEF ListTypes
<1>4. upd[u].ptr \in Addresses \union {NULLPTR}
  BY <1>3 DEF UpdRecords
<1>5. dev_handle' \in Addresses \union {NULLPTR}
  BY <1>4 DEF AddHead, RemoveStore, ClearNull, NULLPTR
<1>6. /\ ListTypes' /\ upd'[u].pc = "idle"
      /\ \A v \in Updaters : v # u => upd'[v] = upd[v]
  BY <1>1, <1>2, <1>5, StoreTypes, Zenon
<1>7. ~crossed' => OneCaller' /\ CallsChain' /\ WalkInList' /\ (touched' => cut')
  <2> SUFFICES ASSUME ~crossed' PROVE OneCaller' /\ CallsChain' /\ WalkInList' /\ (touched' => cut')
    OBVIOUS
  <2>1. /\ OneCaller /\ WalkInList /\ (touched => cut) /\ CallsChain
    BY <1>1, <1>2, Zenon
  <2>2. \A v \in Updaters : upd'[v].pc = "idle"
    <3>1. ~Resting(u)
      BY DEF AddHead, RemoveStore, ClearNull, Resting
    <3> QED
      BY <1>6, <2>1, <3>1 DEF OneCaller, Resting
  <2>3. Chain(node, dev_handle', want')
        /\ (walk.pc # "rest" /\ ~cut => walk.at \in Way(node, dev_handle'))
    <3>1. CASE AddHead(u)
      <4>1. /\ upd[u].pc = "head" /\ dev_handle' = upd[u].ptr /\ want' = want \union {upd[u].mac}
        BY <3>1 DEF AddHead
      <4> DEFINE x == upd[u].ptr
      <4>2. /\ Chain(node, dev_handle, want) /\ x \notin Way(node, dev_handle)
            /\ node[x].live /\ node[x].mac = upd[u].mac /\ upd[u].mac \notin want
            /\ node[x].next = dev_handle
        BY <2>1, <4>1 DEF CallsChain
      <4>3. x \in Addresses
        BY <1>2, <1>4, <4>1 DEF ListTypes
      <4> HIDE DEF x
      <4>4. Way(node, dev_handle) \subseteq Way(node, x) /\ Chain(node, x, want \union {node[x].mac})
        BY <1>3, <4>2, <4>3, ChainAdd, Zenon
      <4>5. dev_handle' = x /\ want' = want \union {node[x].mac}
        BY <4>1, <4>2 DEF x
      <4>6. walk.pc # "rest" /\ ~cut => walk.at \in Way(node, x)
        BY <2>1, <4>4 DEF WalkInList
      <4> QED
        BY <4>4, <4>5, <4>6, Zenon
    <3>2. CASE RemoveStore(u)
      <4>1. /\ upd[u].pc = "store" /\ dev_handle' = upd[u].ptr /\ want' = want \ {upd[u].mac}
        BY <3>2 DEF RemoveStore
      <4>2. Chain(node, upd[u].ptr, want \ {upd[u].mac})
        BY <2>1, <4>1, Zenon DEF CallsChain
      <4>3. walk.pc # "rest" /\ ~cut => walk.at \in Way(node, dev_handle')
        BY <2>1, <4>1, Zenon DEF WalkInList
      <4> QED
        BY <4>1, <4>2, <4>3, Zenon
    <3>3. CASE ClearNull(u)
      <4>1. upd[u].pc = "null" /\ dev_handle' = NULLPTR /\ want' = {}
        BY <3>3 DEF ClearNull
      <4>2. ~(walk.pc # "rest" /\ ~cut)
        BY <2>1, <4>1, Zenon DEF WalkInList
      <4> QED
        BY <4>1, <4>2, WayOfNull, Zenon
    <3> QED
      BY <3>1, <3>2, <3>3
  <2>4. CallsChain'
    <3>1. ASSUME NEW v \in Updaters PROVE upd'[v].pc \notin {"link", "head", "store"}
      BY <2>2
    <3> QED
      BY <1>1, <2>3, <3>1 DEF CallsChain
  <2>5. WalkInList'
    <3>1. ASSUME NEW v \in Updaters PROVE upd'[v].pc \notin {"null", "store"}
      BY <2>2
    <3> QED
      BY <1>1, <2>3, <3>1 DEF WalkInList
  <2>6. OneCaller'
    BY <2>2, Zenon DEF OneCaller, Resting
  <2> QED
    BY <1>1, <2>1, <2>4, <2>5, <2>6, Zenon
<1> QED
  BY <1>6, <1>7, Zenon DEF ListInv

\* A removal leaves, from the pointer it returns, the list without the device.
LEMMA RemoveStep ==
  ASSUME ListInv, NEW u \in Updaters, Remove(u)
  PROVE  ListInv'
<1>1. PICK mac \in Macs :
        /\ Begin(u)
        /\ IF Found(mac) = {}
           THEN /\ upd' = [upd EXCEPT ![u] = [pc |-> "store", mac |-> mac, ptr |-> dev_handle]]
                /\ UNCHANGED <<node, cut>>
           ELSE \E a \in Found(mac) :
                  /\ node' = Unlinked(dev_handle, a)
                  /\ cut' = (cut \/ walk.pc # "rest")
                  /\ upd' = [upd EXCEPT ![u] = [pc |-> "store", mac |-> mac,
                        ptr |-> IF a = dev_handle THEN node[a].next ELSE dev_handle]]
        /\ UNCHANGED <<dev_handle, walk, want, touched>>
  BY Zenon DEF Remove
<1>2. dev_handle' = dev_handle /\ walk' = walk /\ touched' = touched /\ want' = want
  BY <1>1
<1>3. ListTypes /\ (~crossed => OneCaller /\ CallsChain /\ WalkInList /\ (touched => cut))
  BY Zenon DEF ListInv
<1>4. crossed' \in BOOLEAN /\ (~crossed' => ~crossed /\ \A v \in Updaters : Resting(v))
  BY <1>1, <1>3, BeginFacts, Zenon
<1>5. node \in [Addresses -> DeviceNodes] /\ upd \in [Updaters -> UpdRecords] /\ dev_handle \in Addresses \union {NULLPTR}
      /\ cut \in BOOLEAN
  BY <1>3, Zenon DEF ListTypes
\* What both branches give: g is the pointer returned.
<1>6. \E g \in Addresses \union {NULLPTR} :
        /\ upd' = [upd EXCEPT ![u] = [pc |-> "store", mac |-> mac, ptr |-> g]]
        /\ node' \in [Addresses -> DeviceNodes] /\ cut' \in BOOLEAN
        /\ cut => cut'
        /\ Chain(node, dev_handle, want) => Chain(node', g, want \ {mac})
        /\ walk.pc # "rest" /\ ~cut' => node' = node /\ g = dev_handle
  <2>1. CASE Found(mac) = {}
    <3>1. upd' = [upd EXCEPT ![u] = [pc |-> "store", mac |-> mac, ptr |-> dev_handle]]
          /\ node' = node /\ cut' = cut
      BY <1>1, <2>1
    <3>2. \A b \in Way(node, dev_handle) : node[b].mac # mac
      <4>1. \A b \in From(dev_handle) : node[b].mac # mac
        BY <2>1 DEF Found
      <4> QED
        BY <4>1, FromIsWay, Zenon
    <3>3. ASSUME Chain(node, dev_handle, want) PROVE Chain(node, dev_handle, want \ {mac})
      <4>1. want \ {mac} = want
        BY <3>2, <3>3 DEF Chain
      <4> QED
        BY <3>3, <4>1, Zenon
    <3> QED
      BY <1>5, <3>1, <3>3, Zenon
  <2>2. CASE Found(mac) # {}
    <3>1. PICK a \in Found(mac) :
            /\ node' = Unlinked(dev_handle, a)
            /\ cut' = (cut \/ walk.pc # "rest")
            /\ upd' = [upd EXCEPT ![u] = [pc |-> "store", mac |-> mac,
                  ptr |-> IF a = dev_handle THEN node[a].next ELSE dev_handle]]
      BY <1>1, <2>2, Zenon
    <3>2. a \in Way(node, dev_handle) /\ node[a].mac = mac
      BY FromIsWay DEF Found
    <3>3. Way(node, dev_handle) \subseteq Addresses
      BY <1>5, WayClosed, Zenon
    <3> DEFINE g == IF a = dev_handle THEN node[a].next ELSE dev_handle
    <3>4. a \in Addresses /\ node[a] \in DeviceNodes
      BY <1>5, <3>2, <3>3
    <3>5. g \in Addresses \union {NULLPTR}
      BY <1>5, <3>4 DEF DeviceNodes
    <3>6. node' = Cut(node, dev_handle, a)
      <4>1. From(dev_handle) = Way(node, dev_handle)
        BY FromIsWay, Zenon
      <4> QED
        BY <3>1, <4>1 DEF Unlinked, Cut
    <3>7. node' \in [Addresses -> DeviceNodes]
      <4>1. ASSUME NEW b \in Addresses PROVE Cut(node, dev_handle, a)[b] \in DeviceNodes
        <5>1. node[b] \in DeviceNodes
          BY <1>5
        <5>2. [node[a] EXCEPT !.live = FALSE] \in DeviceNodes
          BY <3>4 DEF DeviceNodes
        <5>3. [node[b] EXCEPT !.next = node[a].next] \in DeviceNodes
          BY <3>4, <5>1 DEF DeviceNodes
        <5> QED
          BY <5>1, <5>2, <5>3, Zenon DEF Cut
      <4>2. Cut(node, dev_handle, a) = [b \in Addresses |-> Cut(node, dev_handle, a)[b]]
        BY DEF Cut
      <4> QED
        BY <3>6, <4>1, <4>2
    <3>8. g = IF a = dev_handle THEN node[a].next ELSE dev_handle
      OBVIOUS
    <3>9. upd' = [upd EXCEPT ![u] = [pc |-> "store", mac |-> mac, ptr |-> g]]
      BY <3>1
    <3> HIDE DEF g
    <3>10. ASSUME Chain(node, dev_handle, want) PROVE Chain(node', g, want \ {mac})
      <4>1. Chain(Cut(node, dev_handle, a), g, want \ {node[a].mac})
        BY <1>5, <3>2, <3>8, <3>10, ChainCut
      <4> QED
        BY <3>2, <3>6, <4>1, Zenon
    <3>11. cut' \in BOOLEAN /\ (cut => cut') /\ ~(walk.pc # "rest" /\ ~cut')
      BY <3>1, <1>5, Zenon
    <3> QED
      BY <3>5, <3>7, <3>9, <3>10, <3>11, Zenon
  <2> QED
    BY <2>1, <2>2
<1>7. PICK g \in Addresses \union {NULLPTR} :
        /\ upd' = [upd EXCEPT ![u] = [pc |-> "store", mac |-> mac, ptr |-> g]]
        /\ node' \in [Addresses -> DeviceNodes] /\ cut' \in BOOLEAN
        /\ cut => cut'
        /\ Chain(node, dev_handle, want) => Chain(node', g, want \ {mac})
        /\ walk.pc # "rest" /\ ~cut' => node' = node /\ g = dev_handle
  BY <1>6, Zenon
<1> DEFINE w == [pc |-> "store", mac |-> mac, ptr |-> g]
<1>8. w \in UpdRecords /\ w.pc = "store" /\ w.mac = mac /\ w.ptr = g
  BY DEF UpdRecords
<1>9. upd' \in [Updaters -> UpdRecords] /\ upd'[u] = w /\ \A v \in Updaters : v # u => upd'[v] = upd[v]
  <2>1. upd' = [upd EXCEPT ![u] = w]
    BY <1>7, Zenon
  <2> HIDE DEF w
  <2> QED
    BY <1>5, <1>8, <2>1
<1> HIDE DEF w
<1>10. ListTypes'
  <2>1. \A v \in Updaters : upd'[v].pc \in {"link", "head"} => upd'[v].ptr # NULLPTR
    BY <1>3, <1>8, <1>9 DEF ListTypes
  <2> QED
    BY <1>2, <1>3, <1>4, <1>5, <1>7, <1>9, <2>1, Zenon DEF ListTypes
<1>11. ~crossed' => OneCaller' /\ CallsChain' /\ WalkInList' /\ (touched' => cut')
  <2> SUFFICES ASSUME ~crossed' PROVE OneCaller' /\ CallsChain' /\ WalkInList' /\ (touched' => cut')
    OBVIOUS
  <2>1. /\ OneCaller /\ WalkInList /\ (touched => cut) /\ Chain(node, dev_handle, want)
        /\ \A v \in Updaters : Resting(v)
    BY <1>3, <1>4, Zenon DEF CallsChain
  <2>2. \A v \in Updaters : v # u => upd'[v].pc = "idle"
    BY <1>9, <2>1 DEF Resting
  <2>3. CallsChain'
    <3>1. /\ upd'[u].pc = "store"
          /\ Chain(node', upd'[u].ptr, want' \ {upd'[u].mac})
      BY <1>2, <1>7, <1>8, <1>9, <2>1, Zenon
    <3>2. ASSUME NEW v \in Updaters, v # u PROVE upd'[v].pc \notin {"link", "head", "store"}
      BY <2>2, <3>2
    <3> QED
      BY <3>1, <3>2 DEF CallsChain, Resting
  <2>4. OneCaller'
    BY <2>2 DEF OneCaller, Resting
  <2>5. WalkInList'
    <3> SUFFICES ASSUME walk'.pc # "rest", ~cut' PROVE
          /\ walk'.at \in Way(node', dev_handle')
          /\ \A v \in Updaters : upd'[v].pc # "null" /\ (upd'[v].pc = "store" => upd'[v].ptr = dev_handle')
      BY Zenon DEF WalkInList
    <3>1. node' = node /\ g = dev_handle /\ ~cut /\ walk.pc # "rest"
      BY <1>2, <1>7
    <3>2. walk'.at \in Way(node', dev_handle')
      BY <1>2, <2>1, <3>1, Zenon DEF WalkInList
    <3>3. upd'[u].pc = "store" /\ upd'[u].ptr = dev_handle'
      BY <1>2, <1>8, <1>9, <3>1
    <3>4. ASSUME NEW v \in Updaters, v # u PROVE upd'[v].pc \notin {"null", "store"}
      BY <2>2, <3>4
    <3> QED
      BY <3>2, <3>3, <3>4
  <2> QED
    BY <1>2, <1>7, <2>1, <2>3, <2>4, <2>5, Zenon
<1> QED
  BY <1>10, <1>11, Zenon DEF ListInv

\* Freeing the whole list keeps it.
LEMMA ClearStep ==
  ASSUME ListInv, NEW u \in Updaters, Clear(u)
  PROVE  ListInv'
<1>1. /\ Begin(u)
      /\ node' = [a \in Addresses |-> IF a \in From(dev_handle)
                                      THEN [node[a] EXCEPT !.live = FALSE] ELSE node[a]]
      /\ cut' = (cut \/ walk.pc # "rest")
      /\ upd' = [upd EXCEPT ![u].pc = "null"]
      /\ dev_handle' = dev_handle /\ walk' = walk /\ touched' = touched /\ want' = want
  BY DEF Clear
<1>3. ListTypes /\ (~crossed => OneCaller /\ CallsChain /\ WalkInList /\ (touched => cut))
  BY Zenon DEF ListInv
<1>4. crossed' \in BOOLEAN /\ (~crossed' => ~crossed /\ \A v \in Updaters : Resting(v))
  BY <1>1, <1>3, BeginFacts, Zenon
<1>5. node \in [Addresses -> DeviceNodes] /\ upd \in [Updaters -> UpdRecords] /\ dev_handle \in Addresses \union {NULLPTR}
      /\ cut \in BOOLEAN
  BY <1>3, Zenon DEF ListTypes
<1>6. node' \in [Addresses -> DeviceNodes]
  <2>1. ASSUME NEW a \in Addresses PROVE [node[a] EXCEPT !.live = FALSE] \in DeviceNodes
    <3>1. node[a] \in DeviceNodes
      BY <1>5
    <3> QED
      BY <3>1 DEF DeviceNodes
  <2> QED
    BY <1>1, <1>5, <2>1
<1>7. /\ upd' \in [Updaters -> UpdRecords] /\ upd'[u].pc = "null"
      /\ \A v \in Updaters : v # u => upd'[v] = upd[v]
  BY <1>1, <1>5 DEF UpdRecords
<1>8. ListTypes'
  <2>1. \A v \in Updaters : upd'[v].pc \in {"link", "head"} => upd'[v].ptr # NULLPTR
    BY <1>3, <1>7 DEF ListTypes
  <2>2. cut' \in BOOLEAN
    BY <1>1, <1>5
  <2> QED
    BY <1>1, <1>3, <1>4, <1>5, <1>6, <1>7, <2>1, <2>2, Zenon DEF ListTypes
<1>9. ~crossed' => OneCaller' /\ CallsChain' /\ WalkInList' /\ (touched' => cut')
  <2> SUFFICES ASSUME ~crossed' PROVE OneCaller' /\ CallsChain' /\ WalkInList' /\ (touched' => cut')
    OBVIOUS
  <2>1. (touched => cut) /\ \A v \in Updaters : Resting(v)
    BY <1>3, <1>4, Zenon
  <2>2. \A v \in Updaters : v # u => upd'[v].pc = "idle"
    BY <1>7, <2>1 DEF Resting
  <2>3. \A v \in Updaters : upd'[v].pc \notin {"link", "head", "store"}
    BY <1>7, <2>2
  <2>4. CallsChain' /\ OneCaller'
    BY <1>7, <2>2, <2>3 DEF CallsChain, OneCaller, Resting
  <2>5. WalkInList'
    BY <1>1, Zenon DEF WalkInList
  <2> QED
    BY <1>1, <2>1, <2>4, <2>5, Zenon
<1> QED
  BY <1>8, <1>9, Zenon DEF ListInv

-----------------------------------------------------------------------------
\* The walk writes the ping result only, which the list does not depend on.
LEMMA WalkKeeps ==
  ASSUME ListTypes, ListStays, node' \in [Addresses -> DeviceNodes],
         \A a \in Addresses : /\ node'[a].next = node[a].next /\ node'[a].mac = node[a].mac
                              /\ node'[a].live = node[a].live
  PROVE  /\ Way(node', dev_handle') = Way(node, dev_handle)
         /\ OneCaller => OneCaller'
         /\ CallsChain => CallsChain'
<1>1. dev_handle' = dev_handle /\ upd' = upd /\ want' = want
  BY DEF ListStays
<1>2. node \in [Addresses -> DeviceNodes] /\ upd \in [Updaters -> UpdRecords] /\ dev_handle \in Addresses \union {NULLPTR}
  BY Zenon DEF ListTypes
<1>3. ASSUME NEW h \in Addresses \union {NULLPTR}
      PROVE  Way(node', h) = Way(node, h) /\ \A W : Chain(node, h, W) => Chain(node', h, W)
  <2>1. Way(node, h) \subseteq Addresses
    BY <1>2, WayClosed, Zenon
  <2>2. \A a \in Way(node, h) : node'[a].next = node[a].next /\ node'[a].mac = node[a].mac
                                /\ node'[a].live = node[a].live
    BY <2>1
  <2> QED
    BY <1>2, <2>2, ChainSame, Zenon
<1>4. OneCaller => OneCaller'
  BY <1>1, Zenon DEF OneCaller, Resting
<1>5. CallsChain => CallsChain'
  <2> SUFFICES ASSUME CallsChain PROVE CallsChain'
    OBVIOUS
  <2>1. (\A u \in Updaters : upd'[u].pc = "idle") => Chain(node', dev_handle', want')
    BY <1>1, <1>2, <1>3, Zenon DEF CallsChain, Resting
  <2>2. ASSUME NEW u \in Updaters, upd[u].pc \in {"link", "head"}
        PROVE  /\ Chain(node', dev_handle', want')
               /\ upd'[u].ptr \notin Way(node', dev_handle')
               /\ node'[upd'[u].ptr].live /\ node'[upd'[u].ptr].mac = upd'[u].mac
               /\ upd'[u].mac \notin want'
    <3>1. /\ Chain(node, dev_handle, want)
          /\ upd[u].ptr \notin Way(node, dev_handle)
          /\ node[upd[u].ptr].live /\ node[upd[u].ptr].mac = upd[u].mac
          /\ upd[u].mac \notin want
      BY <2>2, Zenon DEF CallsChain
    <3>2. upd[u].ptr \in Addresses
      BY <1>2, <2>2 DEF ListTypes, UpdRecords
    <3> QED
      BY <1>1, <1>2, <1>3, <3>1, <3>2
  <2>3. ASSUME NEW u \in Updaters, upd[u].pc = "head"
        PROVE  node'[upd'[u].ptr].next = dev_handle'
    <3>1. node[upd[u].ptr].next = dev_handle
      BY <2>3, Zenon DEF CallsChain
    <3>2. upd[u].ptr \in Addresses
      BY <1>2, <2>3 DEF ListTypes, UpdRecords
    <3> QED
      BY <1>1, <3>1, <3>2
  <2>4. ASSUME NEW u \in Updaters, upd[u].pc = "store"
        PROVE  Chain(node', upd'[u].ptr, want' \ {upd'[u].mac})
    <3>1. Chain(node, upd[u].ptr, want \ {upd[u].mac})
      BY <2>4, Zenon DEF CallsChain
    <3>2. upd[u].ptr \in Addresses \union {NULLPTR}
      BY <1>2 DEF UpdRecords
    <3> QED
      BY <1>1, <1>3, <3>1, <3>2, Zenon
  <2> QED
    BY <1>1, <2>1, <2>2, <2>3, <2>4, Zenon DEF CallsChain, Resting
<1> QED
  BY <1>1, <1>2, <1>3, <1>4, <1>5, Zenon

\* The walk is at an allocated node as long as none was freed under it.
LEMMA WalkAtLive ==
  ASSUME ListTypes, CallsChain, WalkInList, walk.pc # "rest", ~cut
  PROVE  node[walk.at].live
<1>1. /\ walk.at \in Way(node, dev_handle)
      /\ \A u \in Updaters : upd[u].pc # "null" /\ (upd[u].pc = "store" => upd[u].ptr = dev_handle)
  BY Zenon DEF WalkInList
<1>2. \E W : Chain(node, dev_handle, W)
  <2>1. CASE \A u \in Updaters : Resting(u)
    BY <2>1, Zenon DEF CallsChain
  <2>2. ASSUME NEW u \in Updaters, ~Resting(u) PROVE \E W : Chain(node, dev_handle, W)
    <3>1. upd[u].pc \in {"link", "head", "store"}
      BY <1>1, <2>2 DEF ListTypes, UpdRecords, Resting
    <3>2. CASE upd[u].pc \in {"link", "head"}
      BY <3>2, Zenon DEF CallsChain
    <3>3. CASE upd[u].pc = "store"
      BY <1>1, <3>3, Zenon DEF CallsChain
    <3> QED
      BY <3>1, <3>2, <3>3
  <2> QED
    BY <2>1, <2>2, Zenon
<1> QED
  BY <1>1, <1>2, Zenon DEF Chain

WalkRecords == [pc : {"rest", "ping", "write", "next"}, at : Addresses \union {NULLPTR}, ret : BOOLEAN]

\* A step of the walk over the list keeps it.
LEMMA WalkStep1 ==
  ASSUME ListInv, WalkStart \/ WalkStep
  PROVE  ListInv'
<1>1. ListTypes /\ (~crossed => OneCaller /\ CallsChain /\ WalkInList /\ (touched => cut))
  BY Zenon DEF ListInv
<1>2. ListStays /\ dev_handle' = dev_handle /\ upd' = upd /\ want' = want /\ crossed' = crossed
  BY DEF WalkStart, WalkStep, WalkPing, WalkWrite, WalkNext, ListStays
<1>3. /\ node \in [Addresses -> DeviceNodes] /\ dev_handle \in Addresses \union {NULLPTR}
      /\ walk \in WalkRecords /\ cut \in BOOLEAN /\ touched \in BOOLEAN
      /\ walk.pc # "rest" => walk.at # NULLPTR
  BY <1>1, Zenon DEF ListTypes, WalkRecords
<1>4. /\ node' \in [Addresses -> DeviceNodes]
      /\ \A a \in Addresses : /\ node'[a].next = node[a].next /\ node'[a].mac = node[a].mac
                              /\ node'[a].live = node[a].live
  <2>1. CASE WalkWrite
    <3>1. walk.at \in Addresses
      BY <1>3, <2>1 DEF WalkWrite, WalkRecords
    <3> DEFINE d == node[walk.at]
               e == Pinged(d, walk.ret)
    <3>2. d \in DeviceNodes
      BY <1>3, <3>1
    <3>3. node' = [node EXCEPT ![walk.at] = e]
      BY <2>1 DEF WalkWrite
    <3> HIDE DEF d
    <3>4. d.old \in 0 .. OldBound - 1
      BY <3>2 DEF DeviceNodes
    <3> DEFINE k == (d.old + 1) % OldBound
    <3>5. 0 \in 0 .. OldBound - 1 /\ k \in 0 .. OldBound - 1
      BY <3>4, ListAssumption
    <3>6. e = IF walk.ret THEN [d EXCEPT !.active = 1, !.old = 0]
              ELSE [d EXCEPT !.active = 0, !.old = k]
      BY DEF Pinged
    <3> HIDE DEF k, e
    <3>7. e \in DeviceNodes /\ e.next = d.next /\ e.mac = d.mac /\ e.live = d.live
      BY <3>2, <3>5, <3>6 DEF DeviceNodes
    <3> QED
      BY <1>3, <3>1, <3>3, <3>7 DEF d
  <2>2. CASE ~WalkWrite
    <3>1. node' = node
      BY <2>2 DEF WalkStart, WalkStep, WalkPing, WalkNext
    <3> QED
      BY <1>3, <3>1
  <2> QED
    BY <2>1, <2>2
<1>5. /\ Way(node', dev_handle') = Way(node, dev_handle)
      /\ OneCaller => OneCaller'
      /\ CallsChain => CallsChain'
  BY <1>1, <1>2, <1>4, WalkKeeps, Zenon
<1>6. /\ walk' \in WalkRecords /\ cut' \in BOOLEAN /\ touched' \in BOOLEAN
      /\ walk'.pc # "rest" => walk'.at # NULLPTR
      /\ ~crossed => (WalkInList' /\ (touched' => cut'))
  <2>1. CASE WalkStart
    <3>1. /\ dev_handle # NULLPTR /\ touched' = FALSE
          /\ walk' = [AtRest EXCEPT !.pc = "ping", !.at = dev_handle]
          /\ cut' = \E u \in Updaters : upd[u].pc \in {"store", "null"}
      BY <2>1 DEF WalkStart
    <3>2. walk' \in WalkRecords /\ walk'.at = dev_handle
      BY <1>3, <3>1 DEF WalkRecords, AtRest
    <3>3. dev_handle \in Way(node, dev_handle)
      <4>1. dev_handle \in Way(node, dev_handle) \union {NULLPTR}
        BY <1>3, WayClosed, Zenon
      <4> QED
        BY <3>1, <4>1
    <3>4. ~cut' => \A u \in Updaters : upd[u].pc \notin {"store", "null"}
      BY <3>1, Zenon
    <3>5. WalkInList'
      <4> SUFFICES ASSUME walk'.pc # "rest", ~cut' PROVE
            /\ walk'.at \in Way(node', dev_handle')
            /\ \A v \in Updaters : upd'[v].pc # "null" /\ (upd'[v].pc = "store" => upd'[v].ptr = dev_handle')
        BY Zenon DEF WalkInList
      <4> QED
        BY <1>2, <1>5, <3>2, <3>3, <3>4
    <3>6. cut' \in BOOLEAN /\ touched' \in BOOLEAN
      BY <3>1, Zenon
    <3> QED
      BY <3>1, <3>2, <3>5, <3>6
  <2>2. CASE WalkStep
    <3>1. walk.pc # "rest" /\ cut' = cut /\ touched' = (touched \/ ~node[walk.at].live)
      BY <2>2 DEF WalkStep, WalkPing, WalkWrite, WalkNext, Touch
    <3>2. walk.at \in Addresses
      BY <1>3, <3>1 DEF WalkRecords
    <3>3. touched' \in BOOLEAN
      BY <3>1, Zenon
    <3>4. ~crossed => (touched' => cut')
      BY <1>1, <3>1, WalkAtLive, Zenon
    <3>5. node[walk.at].next \in Addresses \union {NULLPTR}
      BY <1>3, <3>2 DEF DeviceNodes
    <3>6. /\ walk' \in WalkRecords
          /\ walk'.at = walk.at \/ walk'.pc = "rest" \/ walk'.at = node[walk.at].next
          /\ walk'.pc # "rest" => walk'.at # NULLPTR
      <4>1. CASE WalkPing
        <5>1. PICK r \in BOOLEAN : walk' = [walk EXCEPT !.pc = "write", !.ret = r]
          BY <4>1 DEF WalkPing
        <5> QED
          BY <1>3, <3>1, <5>1 DEF WalkRecords
      <4>2. CASE WalkWrite
        BY <1>3, <3>1, <4>2 DEF WalkRecords, WalkWrite
      <4>3. CASE WalkNext
        <5>1. CASE node[walk.at].next = NULLPTR
          <6>1. walk' = AtRest
            BY <4>3, <5>1 DEF WalkNext
          <6> QED
            BY <6>1 DEF AtRest, WalkRecords
        <5>2. CASE node[walk.at].next # NULLPTR
          <6>1. walk' = [walk EXCEPT !.pc = "ping", !.at = node[walk.at].next]
            BY <4>3, <5>2 DEF WalkNext
          <6> DEFINE nx == node[walk.at].next
          <6>2. nx \in Addresses \union {NULLPTR} /\ nx # NULLPTR /\ walk' = [walk EXCEPT !.pc = "ping", !.at = nx]
            BY <3>5, <5>2, <6>1
          <6> HIDE DEF nx
          <6>3. walk' \in WalkRecords /\ walk'.at = nx
            BY <1>3, <6>2 DEF WalkRecords
          <6> QED
            BY <6>2, <6>3 DEF nx
        <5> QED
          BY <5>1, <5>2
      <4> QED
        BY <2>2, <4>1, <4>2, <4>3, Zenon DEF WalkStep
    <3>7. ~crossed => WalkInList'
      <4> SUFFICES ASSUME ~crossed, walk'.pc # "rest", ~cut' PROVE
            /\ walk'.at \in Way(node', dev_handle')
            /\ \A v \in Updaters : upd'[v].pc # "null" /\ (upd'[v].pc = "store" => upd'[v].ptr = dev_handle')
        BY Zenon DEF WalkInList
      <4>1. /\ walk.at \in Way(node, dev_handle)
            /\ \A v \in Updaters : upd[v].pc # "null" /\ (upd[v].pc = "store" => upd[v].ptr = dev_handle)
        BY <1>1, <3>1, Zenon DEF WalkInList
      <4>2. walk'.at \in Way(node, dev_handle)
        <5>1. ClosedIn(node, Way(node, dev_handle))
          BY <1>3, WayClosed, Zenon
        <5>2. walk'.at = walk.at \/ (walk'.at = node[walk.at].next /\ walk'.at # NULLPTR)
          BY <3>6
        <5> QED
          BY <4>1, <5>1, <5>2 DEF ClosedIn
      <4> QED
        BY <1>2, <1>5, <4>1, <4>2, Zenon
    <3> QED
      BY <1>3, <3>1, <3>3, <3>4, <3>6, <3>7, Zenon
  <2> QED
    BY <2>1, <2>2
<1>7. ListTypes'
  BY <1>1, <1>2, <1>4, <1>6, Zenon DEF ListTypes, WalkRecords
<1> QED
  BY <1>1, <1>2, <1>5, <1>6, <1>7, Zenon DEF ListInv

\* Every step keeps the invariant.
LEMMA ListInvStep == ListInv /\ [ListNext]_listVars => ListInv'
<1> SUFFICES ASSUME ListInv, [ListNext]_listVars PROVE ListInv'
  OBVIOUS
<1>1. ASSUME NEW u \in Updaters,
             AddKnown(u) \/ AddNew(u) \/ AddLink(u) \/ AddHead(u)
             \/ Remove(u) \/ RemoveStore(u) \/ Clear(u) \/ ClearNull(u)
      PROVE  ListInv'
  BY <1>1, AddKnownStep, AddNewStep, AddLinkStep, StoreStep, RemoveStep, ClearStep, Zenon
<1>2. CASE WalkStart \/ WalkPing \/ WalkWrite \/ WalkNext
  BY <1>2, WalkStep1, Zenon DEF WalkStep
<1>3. CASE UNCHANGED listVars
  BY <1>3 DEF listVars, ListInv, ListTypes, OneCaller, CallsChain, WalkInList, Resting
<1> QED
  BY <1>1, <1>2, <1>3, Zenon DEF ListNext

\* The invariant is as strong as the properties.
LEMMA ListInvMeans == ListInv => ListTypeOK /\ ListHoldsDevices
<1> SUFFICES ASSUME ListInv PROVE ListTypeOK /\ ListHoldsDevices
  OBVIOUS
<1>1. ListTypes /\ (~crossed => CallsChain /\ (touched => cut))
  BY Zenon DEF ListInv
<1>2. ListTypeOK
  BY <1>1 DEF ListTypes, ListTypeOK, DeviceNodes, UpdRecords
<1>3. ListHoldsDevices
  <2>1. From(dev_handle) = Way(node, dev_handle)
    BY FromIsWay, Zenon
  <2>2. ASSUME ~crossed, \A u \in Updaters : upd[u].pc = "idle"
        PROVE  /\ {node[a].mac : a \in Way(node, dev_handle)} = want
               /\ Cardinality(Way(node, dev_handle)) = Cardinality(want)
               /\ \A a \in Way(node, dev_handle) : node[a].live
    <3>1. Chain(node, dev_handle, want)
      BY <1>1, <2>2, Zenon DEF CallsChain, Resting
    <3> QED
      BY <3>1, ChainCounts, Zenon DEF Chain
  <2> QED
    BY <1>1, <2>1, <2>2, Zenon DEF ListHoldsDevices
<1> QED
  BY <1>2, <1>3

-----------------------------------------------------------------------------
(* Sending over ESP-NOW.                                                    *)

SndRecords == [pc : {"idle", "mark", "send", "clear", "wait"}, id : 0 .. MaxEspOps,
               pk : 0 .. MaxPackets, total : 0 .. MaxPackets, cnt : 0 .. TryAgain + 1,
               ret : {"none", "ESP_OK", "ESP_FAIL"}]
PngRecords == [pc : {"idle", "send", "ackwait", "clear", "wait"}, id : 0 .. MaxEspOps,
               ret : {"none", "true", "false"}]
AirRecords == [use : {"data", "ping"}, id : Calls, pk : 0 .. MaxPackets]
RepRecords == [use : {"data", "ping"}, id : Calls, ok : BOOLEAN]

EspTypes ==
    /\ send_active \in BOOLEAN /\ ping_active \in BOOLEAN
    /\ send_ok \in BOOLEAN /\ ping_ok \in BOOLEAN
    /\ ack_sem \in {0, 1} /\ pingack_sem \in {0, 1} /\ ping_sem \in {0, 1}
    /\ snd \in [Tasks -> SndRecords]
    /\ png \in [PingTasks -> PngRecords]
    /\ air \in Seq(AirRecords) /\ cbq \in Seq(RepRecords)
    /\ ops \in 0 .. MaxEspOps
    /\ aired \in [Calls -> [1 .. MaxPackets -> 0 .. 2]]
    /\ odd \subseteq {"early", "late", "crossed", "overlap", "unacked"}

Calling(t) == snd[t].pc # "idle"
Sending(t) == snd[t].pc \in {"send", "clear", "wait"}
Handed(t)  == snd[t].pc \in {"clear", "wait"}

HasData(q) == \E i \in 1 .. Len(q) : q[i].use = "data"
AtMostOneData(q) == \A i, j \in 1 .. Len(q) : q[i].use = "data" /\ q[j].use = "data" => i = j

\* No two calls that are in progress have one id, nor a call and a ping.
IdsDiffer ==
    /\ \A t \in Tasks : Calling(t) => /\ snd[t].id \in 1 .. ops /\ snd[t].total >= 1
                                      /\ snd[t].pk \in 1 .. snd[t].total
    /\ \A t \in Tasks : snd[t].ret = "ESP_OK" => snd[t].id # 0
    /\ \A t, u \in Tasks : Calling(t) /\ Calling(u) /\ snd[t].id = snd[u].id => t = u
    /\ \A p \in PingTasks : png[p].pc = "send" =>
          png[p].id \in 1 .. ops /\ \A t \in Tasks : Calling(t) => png[p].id # snd[t].id
    /\ \A i \in 1 .. Len(air) :
          /\ air[i].id <= ops
          /\ air[i].use = "data" => air[i].pk # 0
          /\ air[i].use = "ping" => \A t \in Tasks : Calling(t) => air[i].id # snd[t].id
    /\ \A i \in 1 .. Len(cbq) :
          /\ cbq[i].id <= ops
          /\ cbq[i].use = "ping" => \A t \in Tasks : Calling(t) => cbq[i].id # snd[t].id

\* One call sends, and what it handed to the radio is in one place: the air,
\* the queue of reports or the given semaphore.
OnePlace ==
    /\ \A t, u \in Tasks : Sending(t) /\ Sending(u) => t = u
    /\ AtMostOneData(air) /\ AtMostOneData(cbq)
    /\ HasData(air) => ~HasData(cbq) /\ ack_sem = 0
    /\ HasData(cbq) => ack_sem = 0
    /\ (HasData(air) \/ HasData(cbq) \/ ack_sem = 1) => \E t \in Tasks : Handed(t)
    /\ \A t \in Tasks : Handed(t) => HasData(air) \/ HasData(cbq) \/ ack_sem = 1
    /\ \A t \in Tasks : Sending(t) =>
          /\ \A i \in 1 .. Len(air) : air[i].use = "data" => air[i].id = snd[t].id /\ air[i].pk = snd[t].pk
          /\ \A i \in 1 .. Len(cbq) : cbq[i].use = "data" => cbq[i].id = snd[t].id

\* A success that is on its way to the call, or was counted by it, is earned.
Earned ==
    \A t \in Tasks :
        /\ snd[t].pc = "wait" /\ send_ok => aired[snd[t].id][snd[t].pk] > 0
        /\ Sending(t) => \A i \in 1 .. Len(cbq) :
              cbq[i].use = "data" /\ cbq[i].ok => aired[snd[t].id][snd[t].pk] > 0
        /\ Calling(t) => \A k \in 1 .. snd[t].pk - 1 : aired[snd[t].id][k] > 0
        /\ ~Calling(t) /\ snd[t].ret = "ESP_OK" =>
              \A k \in 1 .. snd[t].total : aired[snd[t].id][k] > 0

\* A packet is handed to the radio again only if it did not arrive.
ArrivedOnce ==
    /\ \A c \in Calls : \A k \in 1 .. MaxPackets :
          aired[c][k] <= 1 /\ (c > ops => aired[c][k] = 0)
    /\ \A t \in Tasks : Calling(t) =>
          /\ \A k \in 1 .. MaxPackets :
                k > snd[t].pk \/ (k = snd[t].pk /\ ~Handed(t)) => aired[snd[t].id][k] = 0
          /\ HasData(air) /\ Handed(t) => aired[snd[t].id][snd[t].pk] = 0
          /\ Handed(t) => \A i \in 1 .. Len(cbq) :
                cbq[i].use = "data" /\ ~cbq[i].ok => aired[snd[t].id][snd[t].pk] = 0
          /\ snd[t].pc = "wait" /\ ack_sem = 1 /\ ~send_ok => aired[snd[t].id][snd[t].pk] = 0

EspInv ==
    /\ EspTypes /\ IdsDiffer
    /\ odd \subseteq {"early", "unacked"} => OnePlace /\ Earned
    /\ odd = {} => ArrivedOnce

-----------------------------------------------------------------------------
\* What a queue has of data when an entry is appended or the head is taken.
LEMMA DataAppend ==
  ASSUME NEW S, NEW q \in Seq(S), NEW e \in S
  PROVE  /\ HasData(Append(q, e)) <=> (HasData(q) \/ e.use = "data")
         /\ AtMostOneData(q) /\ (e.use = "data" => ~HasData(q)) => AtMostOneData(Append(q, e))
<1> DEFINE a == Append(q, e)
<1>1. /\ Len(a) = Len(q) + 1 /\ a[Len(q) + 1] = e /\ Len(q) \in Nat
      /\ \A i \in 1 .. Len(q) : a[i] = q[i]
  BY AppendFacts
<1> HIDE DEF a
<1>2. HasData(a) <=> (HasData(q) \/ e.use = "data")
  BY <1>1 DEF HasData
<1>3. ASSUME AtMostOneData(q), e.use = "data" => ~HasData(q) PROVE AtMostOneData(a)
  BY <1>1, <1>3 DEF AtMostOneData, HasData
<1> QED
  BY <1>2, <1>3 DEF a

\* Data in a queue is at its head or behind it; behind it only if not at it.
LEMMA DataTail ==
  ASSUME NEW S, NEW q \in Seq(S), q # <<>>
  PROVE  /\ HasData(q) <=> (Head(q).use = "data" \/ HasData(Tail(q)))
         /\ AtMostOneData(q) => /\ AtMostOneData(Tail(q))
                                /\ Head(q).use = "data" => ~HasData(Tail(q))
<1> DEFINE b == Tail(q)
<1>1. /\ Head(q) = q[1] /\ Len(q) \in Nat /\ Len(b) = Len(q) - 1 /\ Len(q) >= 1
      /\ \A i \in 1 .. Len(q) - 1 : b[i] = q[i + 1]
  BY TailFacts
<1> HIDE DEF b
<1>2. HasData(q) <=> (Head(q).use = "data" \/ HasData(b))
  <2>1. ASSUME NEW i \in 1 .. Len(q), q[i].use = "data", i # 1 PROVE HasData(b)
    <3>1. i - 1 \in 1 .. Len(b) /\ b[i - 1] = q[i]
      BY <1>1, <2>1
    <3> QED
      BY <2>1, <3>1 DEF HasData
  <2>2. ASSUME NEW i \in 1 .. Len(b), b[i].use = "data" PROVE HasData(q)
    <3>1. i + 1 \in 1 .. Len(q) /\ b[i] = q[i + 1]
      BY <1>1
    <3> QED
      BY <2>2, <3>1 DEF HasData
  <2>3. Head(q).use = "data" => HasData(q)
    BY <1>1 DEF HasData
  <2> QED
    BY <1>1, <2>1, <2>2, <2>3 DEF HasData
<1>3. ASSUME AtMostOneData(q) PROVE AtMostOneData(b) /\ (Head(q).use = "data" => ~HasData(b))
  <2>1. \A i \in 1 .. Len(b) : i + 1 \in 1 .. Len(q) /\ b[i] = q[i + 1] /\ i \in Nat /\ i >= 1
    BY <1>1
  <2>2. AtMostOneData(b)
    <3>1. ASSUME NEW i \in 1 .. Len(b), NEW j \in 1 .. Len(b), b[i].use = "data", b[j].use = "data"
          PROVE  i = j
      <4>1. /\ i + 1 \in 1 .. Len(q) /\ j + 1 \in 1 .. Len(q)
            /\ q[i + 1].use = "data" /\ q[j + 1].use = "data"
        BY <2>1, <3>1
      <4>2. i + 1 = j + 1
        BY <1>3, <4>1, Zenon DEF AtMostOneData
      <4> QED
        BY <2>1, <4>2
    <3> QED
      BY <3>1, Zenon DEF AtMostOneData
  <2>3. ASSUME Head(q).use = "data", NEW i \in 1 .. Len(b), b[i].use = "data" PROVE FALSE
    <3>1. i + 1 \in 1 .. Len(q) /\ q[i + 1].use = "data" /\ 1 \in 1 .. Len(q) /\ q[1].use = "data" /\ i + 1 # 1
      BY <1>1, <2>1, <2>3
    <3> QED
      BY <1>3, <3>1 DEF AtMostOneData
  <2> QED
    BY <2>2, <2>3 DEF HasData
<1> QED
  BY <1>2, <1>3 DEF b

\* An entry of the tail is one of the queue.
LEMMA TailEntries ==
  ASSUME NEW S, NEW q \in Seq(S), q # <<>>
  PROVE  /\ Head(q) \in S /\ Tail(q) \in Seq(S) /\ \E j \in 1 .. Len(q) : Head(q) = q[j]
         /\ \A i \in 1 .. Len(Tail(q)) : \E j \in 1 .. Len(q) : Tail(q)[i] = q[j]
<1>1. /\ Head(q) = q[1] /\ Len(q) \in Nat /\ Len(Tail(q)) = Len(q) - 1 /\ Len(q) >= 1
      /\ \A i \in 1 .. Len(q) - 1 : Tail(q)[i] = q[i + 1]
  BY TailFacts
<1>2. \A i \in 1 .. Len(Tail(q)) : i + 1 \in 1 .. Len(q) /\ Tail(q)[i] = q[i + 1]
  BY <1>1
<1>3. 1 \in 1 .. Len(q)
  BY <1>1
<1>4. Head(q) \in S /\ Tail(q) \in Seq(S)
  OBVIOUS
<1> QED
  BY <1>1, <1>2, <1>3, <1>4

\* The entries of a queue after an append are the old ones and the new one.
LEMMA AppendEntries ==
  ASSUME NEW S, NEW q \in Seq(S), NEW e \in S
  PROVE  /\ Append(q, e) \in Seq(S)
         /\ \A i \in 1 .. Len(Append(q, e)) :
               Append(q, e)[i] = e \/ \E j \in 1 .. Len(q) : Append(q, e)[i] = q[j]
<1>1. /\ Append(q, e) \in Seq(S) /\ Len(Append(q, e)) = Len(q) + 1 /\ Len(q) \in Nat
      /\ Append(q, e)[Len(q) + 1] = e
      /\ \A i \in 1 .. Len(q) : Append(q, e)[i] = q[i]
  BY AppendFacts
<1>2. ASSUME NEW i \in 1 .. Len(q) + 1 PROVE i \in 1 .. Len(q) \/ i = Len(q) + 1
  BY <1>1
<1> QED
  BY <1>1, <1>2

-----------------------------------------------------------------------------
\* The invariant of sending holds at the start.
LEMMA EspInvInit == EspInit => EspInv
<1> USE EspAssumption
<1> SUFFICES ASSUME EspInit PROVE EspInv
  OBVIOUS
<1>1. /\ send_active = FALSE /\ ping_active = FALSE /\ send_ok = FALSE /\ ping_ok = FALSE
      /\ ack_sem = 0 /\ pingack_sem = 0 /\ ping_sem = 0
      /\ snd = [t \in Tasks |-> IdleSend] /\ png = [t \in PingTasks |-> IdlePing]
      /\ air = <<>> /\ cbq = <<>> /\ ops = 0
      /\ aired = [c \in Calls |-> [k \in 1 .. MaxPackets |-> 0]] /\ odd = {}
  BY Zenon DEF EspInit
<1>2. IdleSend \in SndRecords /\ IdleSend.pc = "idle" /\ IdleSend.ret = "none"
  BY DEF IdleSend, SndRecords
<1>3. IdlePing \in PngRecords /\ IdlePing.pc = "idle"
  BY DEF IdlePing, PngRecords
<1>4. /\ snd \in [Tasks -> SndRecords] /\ png \in [PingTasks -> PngRecords]
      /\ \A t \in Tasks : snd[t].pc = "idle" /\ snd[t].ret = "none"
      /\ \A t \in PingTasks : png[t].pc = "idle"
  BY <1>1, <1>2, <1>3
<1>5. /\ aired \in [Calls -> [1 .. MaxPackets -> 0 .. 2]]
      /\ \A c \in Calls : \A k \in 1 .. MaxPackets : aired[c][k] = 0
  BY <1>1
<1>6. /\ air \in Seq(AirRecords) /\ cbq \in Seq(RepRecords) /\ ~HasData(air) /\ ~HasData(cbq)
      /\ AtMostOneData(air) /\ AtMostOneData(cbq) /\ Len(air) = 0 /\ Len(cbq) = 0
  BY <1>1 DEF HasData, AtMostOneData
<1>7. \A t \in Tasks : ~Calling(t) /\ ~Sending(t) /\ ~Handed(t)
  BY <1>4 DEF Calling, Sending, Handed
<1>8. EspTypes
  <2>1. ops \in 0 .. MaxEspOps
    BY <1>1
  <2> QED
    BY <1>1, <1>4, <1>5, <1>6, <2>1 DEF EspTypes
<1>9. IdsDiffer
  BY <1>4, <1>6, <1>7 DEF IdsDiffer
<1>10. OnePlace
  BY <1>1, <1>6, <1>7 DEF OnePlace
<1>11. Earned
  BY <1>4, <1>7 DEF Earned
<1>12. ArrivedOnce
  BY <1>5, <1>7 DEF ArrivedOnce
<1> QED
  BY <1>8, <1>9, <1>10, <1>11, <1>12 DEF EspInv

\* The mishaps only grow.
LEMMA OddGrows ==
  ASSUME NEW S, S \subseteq {"early", "late", "crossed", "overlap", "unacked"}, EspTypes, Odd(S) \/ odd' = odd
  PROVE  /\ odd' \subseteq {"early", "late", "crossed", "overlap", "unacked"}
         /\ odd \subseteq odd' /\ (Odd(S) => S \subseteq odd')
BY DEF EspTypes, Odd

\* What the steps below show of a state to come: types and ids, and the rest
\* under the mishaps that allow it.
LEMMA EspParts ==
  ASSUME EspInv, odd \subseteq odd', EspTypes', IdsDiffer',
         odd' \subseteq {"early", "unacked"} /\ OnePlace /\ Earned => OnePlace' /\ Earned',
         odd' = {} /\ OnePlace /\ Earned /\ ArrivedOnce => ArrivedOnce'
  PROVE  EspInv'
<1>1. odd' \subseteq {"early", "unacked"} => odd \subseteq {"early", "unacked"}
  OBVIOUS
<1>2. odd' = {} => odd = {} /\ odd \subseteq {"early", "unacked"}
  OBVIOUS
<1> QED
  BY <1>1, <1>2, Zenon DEF EspInv

\* Setting one task's record leaves those of the others.
LEMMA SndSet ==
  ASSUME EspTypes, NEW t \in Tasks, NEW s \in SndRecords, snd' = [snd EXCEPT ![t] = s]
  PROVE  /\ snd' \in [Tasks -> SndRecords] /\ snd'[t] = s
         /\ \A u \in Tasks : u # t => snd'[u] = snd[u]
<1>1. snd \in [Tasks -> SndRecords]
  BY Zenon DEF EspTypes
<1> QED
  BY <1>1

\* The step of one task inside _send to pc.
LEMMA SndMoves ==
  ASSUME EspTypes, NEW t \in Tasks, NEW pc \in {"idle", "mark", "send", "clear", "wait"},
         snd' = [snd EXCEPT ![t].pc = pc]
  PROVE  /\ snd' \in [Tasks -> SndRecords]
         /\ snd'[t].pc = pc /\ snd'[t].id = snd[t].id /\ snd'[t].pk = snd[t].pk
         /\ snd'[t].total = snd[t].total /\ snd'[t].cnt = snd[t].cnt /\ snd'[t].ret = snd[t].ret
         /\ \A u \in Tasks : u # t => snd'[u] = snd[u]
<1>1. snd \in [Tasks -> SndRecords] /\ snd[t] \in SndRecords
  BY DEF EspTypes
<1> DEFINE s == [snd[t] EXCEPT !.pc = pc]
<1>2. /\ s \in SndRecords /\ s.pc = pc /\ s.id = snd[t].id /\ s.pk = snd[t].pk
      /\ s.total = snd[t].total /\ s.cnt = snd[t].cnt /\ s.ret = snd[t].ret
  BY <1>1 DEF SndRecords
<1>3. snd' = [snd EXCEPT ![t] = s]
  OBVIOUS
<1> HIDE DEF s
<1> QED
  BY <1>1, <1>2, <1>3

\* A task returns from _send.
LEMMA ReturnFacts ==
  ASSUME EspTypes, NEW t \in Tasks, NEW r \in {"ESP_OK", "ESP_FAIL"}, Return(t, r)
  PROVE  /\ snd' \in [Tasks -> SndRecords]
         /\ snd'[t].pc = "idle" /\ snd'[t].id = snd[t].id /\ snd'[t].pk = snd[t].pk
         /\ snd'[t].total = snd[t].total /\ snd'[t].ret = r
         /\ \A u \in Tasks : u # t => snd'[u] = snd[u]
         /\ send_active' = FALSE
<1>1. snd \in [Tasks -> SndRecords] /\ snd[t] \in SndRecords
  BY DEF EspTypes
<1> DEFINE s == [snd[t] EXCEPT !.pc = "idle", !.ret = r]
<1>2. /\ s \in SndRecords /\ s.pc = "idle" /\ s.id = snd[t].id /\ s.pk = snd[t].pk
      /\ s.total = snd[t].total /\ s.ret = r
  BY <1>1 DEF SndRecords
<1>3. snd' = [snd EXCEPT ![t] = s] /\ send_active' = FALSE
  BY DEF Return
<1> HIDE DEF s
<1> QED
  BY <1>1, <1>2, <1>3

\* Ids stay different while no call begins.
LEMMA IdsStay ==
  ASSUME IdsDiffer, ops' = ops, ops \in Nat,
         \A u \in Tasks : Calling(u)' => /\ Calling(u) /\ snd'[u].id = snd[u].id
                                         /\ snd'[u].total = snd[u].total
                                         /\ snd'[u].pk \in 1 .. snd[u].total,
         \A u \in Tasks : snd'[u].ret = "ESP_OK" => snd'[u].id # 0,
         \A p \in PingTasks : png'[p].pc = "send" => png[p].pc = "send" /\ png'[p].id = png[p].id,
         \A i \in 1 .. Len(air') :
            \/ \E j \in 1 .. Len(air) : air'[i] = air[j]
            \/ air'[i].use = "data" /\ air'[i].id <= ops /\ air'[i].pk # 0
            \/ \E p \in PingTasks : png[p].pc = "send" /\ air'[i].id = png[p].id /\ air'[i].use = "ping",
         \A i \in 1 .. Len(cbq') :
            \/ \E j \in 1 .. Len(cbq) : cbq'[i] = cbq[j]
            \/ \E j \in 1 .. Len(air) : cbq'[i].use = air[j].use /\ cbq'[i].id = air[j].id
  PROVE  IdsDiffer'
<1>1. \A t \in Tasks : Calling(t)' => /\ snd'[t].id \in 1 .. ops' /\ snd'[t].total >= 1
                                      /\ snd'[t].pk \in 1 .. snd'[t].total
  BY DEF IdsDiffer
<1>2. \A t, u \in Tasks : Calling(t)' /\ Calling(u)' /\ snd'[t].id = snd'[u].id => t = u
  BY DEF IdsDiffer
<1>3. ASSUME NEW p \in PingTasks, png'[p].pc = "send"
      PROVE  png'[p].id \in 1 .. ops' /\ \A t \in Tasks : Calling(t)' => png'[p].id # snd'[t].id
  BY <1>3 DEF IdsDiffer
<1>4. ASSUME NEW i \in 1 .. Len(air')
      PROVE  /\ air'[i].id <= ops'
             /\ air'[i].use = "data" => air'[i].pk # 0
             /\ air'[i].use = "ping" => \A t \in Tasks : Calling(t)' => air'[i].id # snd'[t].id
  <2>1. CASE \E j \in 1 .. Len(air) : air'[i] = air[j]
    BY <2>1 DEF IdsDiffer
  <2>2. CASE air'[i].use = "data" /\ air'[i].id <= ops /\ air'[i].pk # 0
    BY <2>2
  <2>3. CASE \E p \in PingTasks : png[p].pc = "send" /\ air'[i].id = png[p].id /\ air'[i].use = "ping"
    BY <2>3 DEF IdsDiffer
  <2> QED
    BY <2>1, <2>2, <2>3
<1>5. ASSUME NEW i \in 1 .. Len(cbq')
      PROVE  /\ cbq'[i].id <= ops'
             /\ cbq'[i].use = "ping" => \A t \in Tasks : Calling(t)' => cbq'[i].id # snd'[t].id
  <2>1. CASE \E j \in 1 .. Len(cbq) : cbq'[i] = cbq[j]
    BY <2>1 DEF IdsDiffer
  <2>2. CASE \E j \in 1 .. Len(air) : cbq'[i].use = air[j].use /\ cbq'[i].id = air[j].id
    BY <2>2 DEF IdsDiffer
  <2> QED
    BY <2>1, <2>2
<1> QED
  BY <1>1, <1>2, <1>3, <1>4, <1>5 DEF IdsDiffer

-----------------------------------------------------------------------------
\* A call begins with an id of its own.
LEMMA SendEnterStep ==
  ASSUME EspInv, NEW t \in Tasks, SendEnter(t)
  PROVE  EspInv'
<1> USE EspAssumption
<1>1. PICK m \in Messages :
        /\ m.by = t
        /\ snd[t].pc = "idle"
        /\ ops < MaxEspOps
        /\ ~ping_active
        /\ snd' = [snd EXCEPT ![t] = [IdleSend EXCEPT !.pc = "mark", !.id = ops + 1,
                                                      !.total = m.total, !.pk = 1]]
        /\ ops' = ops + 1
        /\ UNCHANGED <<flags, send_ok, ping_ok, sems, png, air, cbq, aired, odd>>
  BY Zenon DEF SendEnter
<1>2. /\ send_active' = send_active /\ ping_active' = ping_active /\ send_ok' = send_ok
      /\ ping_ok' = ping_ok /\ ack_sem' = ack_sem /\ pingack_sem' = pingack_sem /\ ping_sem' = ping_sem
      /\ png' = png /\ air' = air /\ cbq' = cbq /\ aired' = aired /\ odd' = odd
  BY <1>1 DEF flags, sems
<1>3. EspTypes /\ IdsDiffer
  BY Zenon DEF EspInv
<1>4. ops \in 0 .. MaxEspOps /\ ops' = ops + 1 /\ ops < MaxEspOps
  BY <1>1, <1>3 DEF EspTypes
<1>5. m.total \in 1 .. MaxPackets
  <2>1. m \in [by : Tasks, total : 1 .. MaxPackets]
    OBVIOUS
  <2> QED
    BY <2>1
<1> DEFINE s == [IdleSend EXCEPT !.pc = "mark", !.id = ops + 1, !.total = m.total, !.pk = 1]
<1>6. /\ s \in SndRecords /\ s.pc = "mark" /\ s.id = ops + 1 /\ s.total = m.total /\ s.pk = 1
      /\ s.ret = "none"
  <2>1. IdleSend \in SndRecords /\ IdleSend.ret = "none"
    BY DEF IdleSend, SndRecords
  <2>2. ops + 1 \in 0 .. MaxEspOps /\ m.total \in 0 .. MaxPackets /\ 1 \in 0 .. MaxPackets
    BY <1>4, <1>5
  <2> QED
    BY <2>1, <2>2 DEF SndRecords
<1>7. snd' \in [Tasks -> SndRecords] /\ snd'[t] = s /\ \A u \in Tasks : u # t => snd'[u] = snd[u]
  <2>1. snd' = [snd EXCEPT ![t] = s]
    BY <1>1
  <2> HIDE DEF s
  <2> QED
    BY <1>3, <1>6, <2>1, SndSet, Zenon
<1> HIDE DEF s
<1>8. EspTypes'
  <2>1. ops' \in 0 .. MaxEspOps
    BY <1>4
  <2> QED
    BY <1>2, <1>3, <1>7, <2>1, Zenon DEF EspTypes
<1>9. IdsDiffer'
  <2>1. \A u \in Tasks : snd[u].id \in 0 .. MaxEspOps
    BY <1>3 DEF EspTypes, SndRecords
  <2>2. \A u \in Tasks : Calling(u)' /\ u # t => Calling(u) /\ snd'[u] = snd[u]
    BY <1>7 DEF Calling
  <2>3. \A u \in Tasks : Calling(u)' => /\ snd'[u].id \in 1 .. ops' /\ snd'[u].total >= 1
                                        /\ snd'[u].pk \in 1 .. snd'[u].total
    BY <1>3, <1>4, <1>5, <1>6, <1>7, <2>2 DEF IdsDiffer
  <2>4. \A u \in Tasks : Calling(u) => snd[u].id <= ops
    BY <1>3, <1>4 DEF IdsDiffer
  <2>5. \A u, v \in Tasks : Calling(u)' /\ Calling(v)' /\ snd'[u].id = snd'[v].id => u = v
    BY <1>3, <1>4, <1>6, <1>7, <2>2, <2>4 DEF IdsDiffer
  <2>6. \A u \in Tasks : snd'[u].ret = "ESP_OK" => snd'[u].id # 0
    BY <1>3, <1>6, <1>7 DEF IdsDiffer
  <2>7. ASSUME NEW x, x <= ops, \A u \in Tasks : Calling(u) => x # snd[u].id
        PROVE  \A u \in Tasks : Calling(u)' => x # snd'[u].id
    BY <1>4, <1>6, <1>7, <2>2, <2>7
  <2>8. ASSUME NEW p \in PingTasks, png'[p].pc = "send"
        PROVE  png'[p].id \in 1 .. ops' /\ \A u \in Tasks : Calling(u)' => png'[p].id # snd'[u].id
    <3>1. png[p].id \in 1 .. ops /\ \A u \in Tasks : Calling(u) => png[p].id # snd[u].id
      BY <1>2, <1>3, <2>8 DEF IdsDiffer
    <3>2. png[p].id <= ops /\ png[p].id \in 1 .. ops'
      BY <1>4, <3>1
    <3> QED
      BY <1>2, <2>7, <3>1, <3>2, Zenon
  <2>9. ASSUME NEW i \in 1 .. Len(air')
        PROVE  /\ air'[i].id <= ops'
               /\ air'[i].use = "data" => air'[i].pk # 0
               /\ air'[i].use = "ping" => \A u \in Tasks : Calling(u)' => air'[i].id # snd'[u].id
    <3>1. air' = air /\ i \in 1 .. Len(air)
      BY <1>2
    <3>2. air[i] \in AirRecords
      BY <1>3, <3>1 DEF EspTypes
    <3>3. air[i].id <= ops /\ air[i].id \in Nat
      BY <1>3, <3>1, <3>2 DEF IdsDiffer, AirRecords, Calls
    <3>4. air[i].id <= ops'
      BY <1>4, <3>3
    <3>5. /\ air[i].use = "data" => air[i].pk # 0
          /\ air[i].use = "ping" => \A u \in Tasks : Calling(u) => air[i].id # snd[u].id
      BY <1>3, <3>1, Zenon DEF IdsDiffer
    <3> QED
      BY <2>7, <3>1, <3>3, <3>4, <3>5, Zenon
  <2>10. ASSUME NEW i \in 1 .. Len(cbq')
        PROVE  /\ cbq'[i].id <= ops'
               /\ cbq'[i].use = "ping" => \A u \in Tasks : Calling(u)' => cbq'[i].id # snd'[u].id
    <3>1. cbq' = cbq /\ i \in 1 .. Len(cbq)
      BY <1>2
    <3>2. cbq[i] \in RepRecords
      BY <1>3, <3>1 DEF EspTypes
    <3>3. cbq[i].id <= ops /\ cbq[i].id \in Nat
      BY <1>3, <3>1, <3>2 DEF IdsDiffer, RepRecords, Calls
    <3>4. cbq[i].id <= ops'
      BY <1>4, <3>3
    <3>5. cbq[i].use = "ping" => \A u \in Tasks : Calling(u) => cbq[i].id # snd[u].id
      BY <1>3, <3>1, Zenon DEF IdsDiffer
    <3> QED
      BY <2>7, <3>1, <3>3, <3>4, <3>5, Zenon
  <2> QED
    BY <2>3, <2>5, <2>6, <2>8, <2>9, <2>10, Zenon DEF IdsDiffer
<1>10. \A u \in Tasks : /\ Sending(u)' <=> Sending(u)
                        /\ Handed(u)' <=> Handed(u)
                        /\ Sending(u) => snd'[u] = snd[u]
                        /\ Handed(u) => Sending(u)
  BY <1>1, <1>6, <1>7 DEF Sending, Handed
<1>11. ASSUME OnePlace PROVE OnePlace'
  BY <1>2, <1>10, <1>11 DEF OnePlace
<1>12. ASSUME Earned PROVE Earned'
  <2>1. ASSUME NEW u \in Tasks, u # t
        PROVE  snd'[u] = snd[u] /\ (Calling(u)' <=> Calling(u)) /\ (Sending(u)' <=> Sending(u))
    BY <1>7, <2>1 DEF Calling, Sending
  <2>2. snd'[t].pc = "mark" /\ snd'[t].pk = 1
    BY <1>6, <1>7
  <2>3. Calling(t)' /\ ~Sending(t)'
    BY <2>2 DEF Calling, Sending
  <2> QED
    BY <1>2, <1>12, <2>1, <2>2, <2>3 DEF Earned
<1>13. ASSUME ArrivedOnce PROVE ArrivedOnce'
  <2>0. \A c \in Calls : \A k \in 1 .. MaxPackets :
           aired'[c][k] <= 1 /\ (c > ops' => aired'[c][k] = 0)
    BY <1>2, <1>4, <1>13 DEF ArrivedOnce, Calls
  <2>1. ASSUME NEW u \in Tasks, u # t
        PROVE  snd'[u] = snd[u] /\ (Calling(u)' <=> Calling(u)) /\ (Handed(u)' <=> Handed(u))
    BY <1>7, <2>1 DEF Calling, Handed
  <2>2. snd'[t].pc = "mark" /\ snd'[t].pk = 1 /\ snd'[t].id = ops + 1
    BY <1>6, <1>7
  <2>3. Calling(t)' /\ ~Handed(t)'
    BY <2>2 DEF Calling, Handed
  <2>4. ASSUME NEW k \in 1 .. MaxPackets PROVE aired'[ops + 1][k] = 0
    <3>1. ops + 1 \in Calls /\ ops + 1 > ops
      BY <1>4 DEF Calls
    <3> QED
      BY <1>2, <1>13, <3>1, Zenon DEF ArrivedOnce
  <2>5. ASSUME NEW u \in Tasks, Calling(u)'
        PROVE  /\ \A k \in 1 .. MaxPackets :
                     k > snd'[u].pk \/ (k = snd'[u].pk /\ ~Handed(u)') => aired'[snd'[u].id][k] = 0
               /\ HasData(air') /\ Handed(u)' => aired'[snd'[u].id][snd'[u].pk] = 0
               /\ Handed(u)' => \A i \in 1 .. Len(cbq') :
                     cbq'[i].use = "data" /\ ~cbq'[i].ok => aired'[snd'[u].id][snd'[u].pk] = 0
               /\ snd'[u].pc = "wait" /\ ack_sem' = 1 /\ ~send_ok' => aired'[snd'[u].id][snd'[u].pk] = 0
    <3>1. CASE u = t
      BY <2>2, <2>3, <2>4, <3>1
    <3>2. CASE u # t
      <4>1. /\ \A k \in 1 .. MaxPackets :
                   k > snd[u].pk \/ (k = snd[u].pk /\ ~Handed(u)) => aired[snd[u].id][k] = 0
            /\ HasData(air) /\ Handed(u) => aired[snd[u].id][snd[u].pk] = 0
            /\ Handed(u) => \A i \in 1 .. Len(cbq) :
                   cbq[i].use = "data" /\ ~cbq[i].ok => aired[snd[u].id][snd[u].pk] = 0
            /\ snd[u].pc = "wait" /\ ack_sem = 1 /\ ~send_ok => aired[snd[u].id][snd[u].pk] = 0
        BY <1>13, <2>1, <2>5, <3>2, Zenon DEF ArrivedOnce
      <4> QED
        BY <1>2, <2>1, <3>2, <4>1
    <3> QED
      BY <3>1, <3>2
  <2> QED
    BY <2>0, <2>5, Zenon DEF ArrivedOnce
<1> QED
  BY <1>2, <1>8, <1>9, <1>11, <1>12, <1>13, EspParts, Zenon

\* While nothing of a use went astray, a call that has not handed a packet to
\* the radio finds no data on its way.
LEMMA NothingOnTheWay ==
  ASSUME OnePlace, \A u \in Tasks : ~Handed(u)
  PROVE  ~HasData(air) /\ ~HasData(cbq) /\ ack_sem # 1
BY Zenon DEF OnePlace

\* A queue without data has entries of the other use only.
LEMMA NoDataMeans ==
  ASSUME NEW q, ~HasData(q), NEW i \in 1 .. Len(q)
  PROVE  q[i].use # "data"
BY DEF HasData

\* A second call that is past its mark is the mishap "overlap".
LEMMA SendMarkStep ==
  ASSUME EspInv, NEW t \in Tasks, SendMark(t)
  PROVE  EspInv'
<1> USE EspAssumption
<1> DEFINE S == IF \E u \in Tasks \ {t} : snd[u].pc \in {"send", "clear", "wait"} THEN {"overlap"} ELSE {}
<1>1. /\ snd[t].pc = "mark" /\ send_active' = TRUE
      /\ snd' = [snd EXCEPT ![t].pc = "send"] /\ Odd(S)
      /\ ping_active' = ping_active /\ send_ok' = send_ok
      /\ ping_ok' = ping_ok /\ ack_sem' = ack_sem /\ pingack_sem' = pingack_sem /\ ping_sem' = ping_sem
      /\ png' = png /\ air' = air /\ cbq' = cbq /\ aired' = aired /\ ops' = ops
  BY DEF SendMark, sems
<1>2. S \subseteq {"early", "late", "crossed", "overlap", "unacked"}
  OBVIOUS
<1>3. EspTypes /\ IdsDiffer
  BY Zenon DEF EspInv
<1>4. /\ odd' \subseteq {"early", "late", "crossed", "overlap", "unacked"}
      /\ odd \subseteq odd' /\ S \subseteq odd'
  <2> HIDE DEF S
  <2> QED
    BY <1>1, <1>2, <1>3, OddGrows, Zenon
<1>5. /\ snd' \in [Tasks -> SndRecords]
      /\ snd'[t].pc = "send" /\ snd'[t].id = snd[t].id /\ snd'[t].pk = snd[t].pk
      /\ snd'[t].total = snd[t].total /\ snd'[t].ret = snd[t].ret
      /\ \A u \in Tasks : u # t => snd'[u] = snd[u]
  <2>1. "send" \in {"idle", "mark", "send", "clear", "wait"}
    OBVIOUS
  <2> QED
    BY <1>1, <1>3, <2>1, SndMoves, Zenon
<1>6. EspTypes'
  <2>1. send_active' \in BOOLEAN
    BY <1>1
  <2> QED
    BY <1>1, <1>3, <1>4, <1>5, <2>1, Zenon DEF EspTypes
<1>7. IdsDiffer'
  <2>1. ops' = ops /\ ops \in Nat
    BY <1>1, <1>3 DEF EspTypes
  <2>2. Calling(t)
    BY <1>1 DEF Calling
  <2>3. \A u \in Tasks : Calling(u)' => /\ Calling(u) /\ snd'[u].id = snd[u].id
                                        /\ snd'[u].total = snd[u].total
                                        /\ snd'[u].pk \in 1 .. snd[u].total
    BY <1>3, <1>5, <2>2 DEF Calling, IdsDiffer
  <2>4. \A u \in Tasks : snd'[u].ret = "ESP_OK" => snd'[u].id # 0
    BY <1>3, <1>5 DEF IdsDiffer
  <2>5. /\ \A p \in PingTasks : png'[p].pc = "send" => png[p].pc = "send" /\ png'[p].id = png[p].id
        /\ \A i \in 1 .. Len(air') : \E j \in 1 .. Len(air) : air'[i] = air[j]
        /\ \A i \in 1 .. Len(cbq') : \E j \in 1 .. Len(cbq) : cbq'[i] = cbq[j]
    BY <1>1
  <2> QED
    BY <1>3, <2>1, <2>3, <2>4, <2>5, IdsStay, Zenon
<1>8. ASSUME odd' \subseteq {"early", "unacked"}, OnePlace, Earned PROVE OnePlace' /\ Earned'
  <2>1. \A u \in Tasks : u # t => ~Sending(u)
    <3>1. "overlap" \notin S
      BY <1>4, <1>8
    <3> QED
      BY <3>1 DEF Sending
  <2>2. ~Sending(t) /\ ~Handed(t) /\ Calling(t)
    BY <1>1 DEF Sending, Handed, Calling
  <2>3. \A u \in Tasks : ~Handed(u)
    BY <2>1, <2>2 DEF Handed, Sending
  <2>4. ~HasData(air) /\ ~HasData(cbq) /\ ack_sem # 1
    BY <1>8, <2>3, NothingOnTheWay, Zenon
  <2>5. \A u \in Tasks : /\ ~Handed(u)' /\ (Sending(u)' <=> u = t)
                         /\ (Calling(u)' <=> Calling(u))
    BY <1>5, <2>1, <2>2, <2>3 DEF Handed, Sending, Calling
  <2>6. (\A i \in 1 .. Len(air) : air[i].use # "data") /\ (\A i \in 1 .. Len(cbq) : cbq[i].use # "data")
    BY <2>4, NoDataMeans, Zenon
  <2>7. OnePlace'
    BY <1>1, <1>8, <2>4, <2>5, <2>6 DEF OnePlace
  <2>8. Earned'
    <3>1. \A u \in Tasks : snd'[u].pc = "wait" => snd[u].pc = "wait" /\ u # t
      BY <1>5
    <3>2. \A u \in Tasks : snd'[u].id = snd[u].id /\ snd'[u].pk = snd[u].pk /\ snd'[u].total = snd[u].total
                           /\ snd'[u].ret = snd[u].ret
      BY <1>5
    <3> QED
      BY <1>1, <1>8, <2>5, <2>6, <3>1, <3>2 DEF Earned
  <2> QED
    BY <2>7, <2>8
<1>9. ASSUME odd' = {}, OnePlace, Earned, ArrivedOnce PROVE ArrivedOnce'
  <2>1. \A u \in Tasks : /\ snd'[u].id = snd[u].id /\ snd'[u].pk = snd[u].pk
                         /\ (Calling(u)' <=> Calling(u)) /\ (Handed(u)' <=> Handed(u))
                         /\ (snd'[u].pc = "wait" => snd[u].pc = "wait")
    BY <1>1, <1>5 DEF Handed, Calling
  <2> QED
    BY <1>1, <1>9, <2>1 DEF ArrivedOnce
<1> QED
  BY <1>4, <1>6, <1>7, <1>8, <1>9, EspParts, Zenon

\* A call gives up before the radio has the packet.
LEMMA GiveUpStep ==
  ASSUME EspInv, NEW t \in Tasks, snd[t].pc = "send", Return(t, "ESP_FAIL"),
         UNCHANGED <<ping_active, send_ok, ping_ok, sems, png, air, cbq, ops, aired, odd>>
  PROVE  EspInv'
<1> USE EspAssumption
<1>1. /\ ping_active' = ping_active /\ send_ok' = send_ok
      /\ ping_ok' = ping_ok /\ ack_sem' = ack_sem /\ pingack_sem' = pingack_sem /\ ping_sem' = ping_sem
      /\ png' = png /\ air' = air /\ cbq' = cbq /\ aired' = aired /\ ops' = ops /\ odd' = odd
  BY DEF sems
<1>3. EspTypes /\ IdsDiffer
  BY Zenon DEF EspInv
<1>5. /\ snd' \in [Tasks -> SndRecords]
      /\ snd'[t].pc = "idle" /\ snd'[t].id = snd[t].id /\ snd'[t].pk = snd[t].pk
      /\ snd'[t].total = snd[t].total /\ snd'[t].ret = "ESP_FAIL"
      /\ \A u \in Tasks : u # t => snd'[u] = snd[u]
      /\ send_active' = FALSE
  <2>1. "ESP_FAIL" \in {"ESP_OK", "ESP_FAIL"}
    OBVIOUS
  <2> QED
    BY <1>3, <2>1, ReturnFacts, Zenon
<1>6. EspTypes'
  <2>1. send_active' \in BOOLEAN
    BY <1>5
  <2> QED
    BY <1>1, <1>3, <1>5, <2>1, Zenon DEF EspTypes
<1>7. IdsDiffer'
  <2>1. ops' = ops /\ ops \in Nat
    BY <1>1, <1>3 DEF EspTypes
  <2>3. \A u \in Tasks : Calling(u)' => /\ Calling(u) /\ snd'[u].id = snd[u].id
                                        /\ snd'[u].total = snd[u].total
                                        /\ snd'[u].pk \in 1 .. snd[u].total
    BY <1>3, <1>5 DEF Calling, IdsDiffer
  <2>4. \A u \in Tasks : snd'[u].ret = "ESP_OK" => snd'[u].id # 0
    BY <1>3, <1>5 DEF IdsDiffer
  <2>5. /\ \A p \in PingTasks : png'[p].pc = "send" => png[p].pc = "send" /\ png'[p].id = png[p].id
        /\ \A i \in 1 .. Len(air') : \E j \in 1 .. Len(air) : air'[i] = air[j]
        /\ \A i \in 1 .. Len(cbq') : \E j \in 1 .. Len(cbq) : cbq'[i] = cbq[j]
    BY <1>1
  <2> QED
    BY <1>3, <2>1, <2>3, <2>4, <2>5, IdsStay, Zenon
<1>8. ASSUME OnePlace, Earned PROVE OnePlace' /\ Earned'
  <2>1. \A u \in Tasks : u # t => ~Sending(u)
    BY <1>8 DEF OnePlace, Sending
  <2>3. \A u \in Tasks : ~Handed(u)
    BY <2>1 DEF Handed, Sending
  <2>4. ~HasData(air) /\ ~HasData(cbq) /\ ack_sem # 1
    BY <1>8, <2>3, NothingOnTheWay, Zenon
  <2>5. \A u \in Tasks : /\ ~Handed(u)' /\ ~Sending(u)'
                         /\ (Calling(u)' <=> (Calling(u) /\ u # t))
    BY <1>5, <2>1, <2>3 DEF Handed, Sending, Calling
  <2>7. OnePlace'
    BY <1>1, <1>8, <2>4, <2>5 DEF OnePlace
  <2>8. Earned'
    <3>1. \A u \in Tasks : snd'[u].pc # "wait"
      BY <2>5 DEF Sending
    <3> QED
      BY <1>1, <1>5, <1>8, <2>5, <3>1 DEF Earned
  <2> QED
    BY <2>7, <2>8
<1>9. ASSUME ArrivedOnce PROVE ArrivedOnce'
  <2>1. \A u \in Tasks : Calling(u)' => u # t /\ Calling(u) /\ snd'[u] = snd[u] /\ (Handed(u)' <=> Handed(u))
    BY <1>1, <1>5 DEF Handed, Calling
  <2> QED
    BY <1>1, <1>9, <2>1 DEF ArrivedOnce
<1> QED
  BY <1>1, <1>6, <1>7, <1>8, <1>9, EspParts, Zenon

\* The radio takes the packet.
LEMMA PacketHandedStep ==
  ASSUME EspInv, NEW t \in Tasks, snd[t].pc = "send",
         air' = Append(air, [use |-> "data", id |-> snd[t].id, pk |-> snd[t].pk]),
         snd' = [snd EXCEPT ![t].pc = "clear"],
         UNCHANGED <<send_active, ping_active, send_ok, ping_ok, sems, png, cbq, ops, aired, odd>>
  PROVE  EspInv'
<1> USE EspAssumption
<1>1. /\ send_active' = send_active /\ ping_active' = ping_active /\ send_ok' = send_ok
      /\ ping_ok' = ping_ok /\ ack_sem' = ack_sem /\ pingack_sem' = pingack_sem /\ ping_sem' = ping_sem
      /\ png' = png /\ cbq' = cbq /\ aired' = aired /\ ops' = ops /\ odd' = odd
  BY DEF sems
<1>3. EspTypes /\ IdsDiffer
  BY Zenon DEF EspInv
<1>5. /\ snd' \in [Tasks -> SndRecords]
      /\ snd'[t].pc = "clear" /\ snd'[t].id = snd[t].id /\ snd'[t].pk = snd[t].pk
      /\ snd'[t].total = snd[t].total /\ snd'[t].ret = snd[t].ret
      /\ \A u \in Tasks : u # t => snd'[u] = snd[u]
  <2>1. "clear" \in {"idle", "mark", "send", "clear", "wait"}
    OBVIOUS
  <2> QED
    BY <1>3, <2>1, SndMoves, Zenon
<1>2. snd[t] \in SndRecords /\ ops \in 0 .. MaxEspOps /\ air \in Seq(AirRecords) /\ ops \in Nat
  BY <1>3 DEF EspTypes
<1>4. snd[t].id \in 1 .. ops /\ snd[t].pk \in 1 .. snd[t].total /\ Calling(t)
  BY <1>3 DEF IdsDiffer, Calling
<1> DEFINE e == [use |-> "data", id |-> snd[t].id, pk |-> snd[t].pk]
<1>10. e \in AirRecords /\ e.use = "data" /\ e.id = snd[t].id /\ e.pk = snd[t].pk
  <2>1. snd[t].id \in Calls /\ snd[t].pk \in 0 .. MaxPackets
    BY <1>2, <1>4 DEF Calls, SndRecords
  <2> QED
    BY <2>1 DEF AirRecords
<1>11. air' = Append(air, e)
  OBVIOUS
<1> HIDE DEF e
<1>12. /\ air' \in Seq(AirRecords)
       /\ \A i \in 1 .. Len(air') : air'[i] = e \/ \E j \in 1 .. Len(air) : air'[i] = air[j]
  <2>1. /\ Append(air, e) \in Seq(AirRecords)
        /\ \A i \in 1 .. Len(Append(air, e)) :
              Append(air, e)[i] = e \/ \E j \in 1 .. Len(air) : Append(air, e)[i] = air[j]
    <3>1. e \in AirRecords /\ air \in Seq(AirRecords)
      BY <1>2, <1>10
    <3> QED
      BY <3>1, AppendEntries, SMT
  <2> QED
    BY <1>11, <2>1
<1>13. /\ HasData(air')
       /\ AtMostOneData(air) /\ ~HasData(air) => AtMostOneData(air')
  <2>1. /\ HasData(Append(air, e))
        /\ AtMostOneData(air) /\ ~HasData(air) => AtMostOneData(Append(air, e))
    BY <1>2, <1>10, DataAppend, Zenon
  <2> QED
    BY <1>11, <2>1
<1>6. EspTypes'
  BY <1>1, <1>3, <1>5, <1>12, Zenon DEF EspTypes
<1>7. IdsDiffer'
  <2>3. \A u \in Tasks : Calling(u)' => /\ Calling(u) /\ snd'[u].id = snd[u].id
                                        /\ snd'[u].total = snd[u].total
                                        /\ snd'[u].pk \in 1 .. snd[u].total
    BY <1>3, <1>4, <1>5 DEF Calling, IdsDiffer
  <2>4. \A u \in Tasks : snd'[u].ret = "ESP_OK" => snd'[u].id # 0
    BY <1>3, <1>5 DEF IdsDiffer
  <2>5. e.use = "data" /\ e.id <= ops /\ e.pk # 0
    BY <1>4, <1>10
  <2> QED
    <3>1. /\ \A p \in PingTasks : png'[p].pc = "send" => png[p].pc = "send" /\ png'[p].id = png[p].id
          /\ \A i \in 1 .. Len(cbq') : \E j \in 1 .. Len(cbq) : cbq'[i] = cbq[j]
          /\ ops' = ops
      BY <1>1
    <3>2. \A i \in 1 .. Len(air') :
            \/ \E j \in 1 .. Len(air) : air'[i] = air[j]
            \/ air'[i].use = "data" /\ air'[i].id <= ops /\ air'[i].pk # 0
      BY <1>12, <2>5
    <3> QED
      BY <1>2, <1>3, <2>3, <2>4, <3>1, <3>2, IdsStay, Zenon
<1>8. ASSUME OnePlace, Earned PROVE OnePlace' /\ Earned'
  <2>1. \A u \in Tasks : u # t => ~Sending(u)
    BY <1>8 DEF OnePlace, Sending
  <2>3. \A u \in Tasks : ~Handed(u)
    BY <2>1 DEF Handed, Sending
  <2>4. ~HasData(air) /\ ~HasData(cbq) /\ ack_sem # 1
    BY <1>8, <2>3, NothingOnTheWay, Zenon
  <2>5. \A u \in Tasks : /\ (Handed(u)' <=> u = t) /\ (Sending(u)' <=> u = t)
                         /\ (Calling(u)' <=> Calling(u))
    BY <1>5, <1>4, <2>1, <2>3 DEF Handed, Sending, Calling
  <2>6. (\A i \in 1 .. Len(air) : air[i].use # "data") /\ (\A i \in 1 .. Len(cbq) : cbq[i].use # "data")
    BY <2>4, NoDataMeans, Zenon
  <2>9. ack_sem = 0
    BY <1>3, <2>4 DEF EspTypes
  <2>7. OnePlace'
    <3>1. \A u, v \in Tasks : Sending(u)' /\ Sending(v)' => u = v
      BY <2>5
    <3>2. AtMostOneData(air') /\ AtMostOneData(cbq')
      BY <1>1, <1>8, <1>13, <2>4 DEF OnePlace
    <3>3. /\ ~HasData(cbq') /\ ack_sem' = 0
      BY <1>1, <2>4, <2>9
    <3>4. ASSUME NEW i \in 1 .. Len(air'), air'[i].use = "data"
          PROVE  air'[i].id = snd'[t].id /\ air'[i].pk = snd'[t].pk
      BY <1>5, <1>10, <1>12, <2>6, <3>4
    <3>5. \A i \in 1 .. Len(cbq') : cbq'[i].use # "data"
      BY <1>1, <2>6
    <3> QED
      BY <1>13, <2>5, <3>1, <3>2, <3>3, <3>4, <3>5 DEF OnePlace
  <2>8. Earned'
    <3>1. \A u \in Tasks : snd'[u].pc # "wait"
      BY <1>5, <2>3 DEF Handed
    <3>2. \A u \in Tasks : snd'[u].id = snd[u].id /\ snd'[u].pk = snd[u].pk /\ snd'[u].total = snd[u].total
                           /\ snd'[u].ret = snd[u].ret
      BY <1>5
    <3> QED
      BY <1>1, <1>8, <2>5, <2>6, <3>1, <3>2 DEF Earned
  <2> QED
    BY <2>7, <2>8
<1>9. ASSUME OnePlace, ArrivedOnce PROVE ArrivedOnce'
  <2>1. \A u \in Tasks : u # t => ~Sending(u)
    BY <1>9 DEF OnePlace, Sending
  <2>3. \A u \in Tasks : ~Handed(u)
    BY <2>1 DEF Handed, Sending
  <2>4. \A k \in 1 .. MaxPackets : k >= snd[t].pk => aired[snd[t].id][k] = 0
    <3>1. snd[t].pk \in Nat
      BY <1>2 DEF SndRecords
    <3>2. \A k \in 1 .. MaxPackets : k > snd[t].pk \/ k = snd[t].pk => aired[snd[t].id][k] = 0
      BY <1>4, <1>9, <2>3, Zenon DEF ArrivedOnce
    <3> QED
      BY <3>1, <3>2
  <2>5. snd[t].pk \in 1 .. MaxPackets
    BY <1>2, <1>4 DEF SndRecords
  <2>6. aired[snd[t].id][snd[t].pk] = 0
    BY <2>4, <2>5
  <2>7. \A u \in Tasks : u # t /\ Calling(u)' => snd'[u] = snd[u] /\ Calling(u) /\ ~Handed(u)'
                                                 /\ snd[u].pc # "wait"
    BY <1>5, <2>3 DEF Calling, Handed
  <2>8. \A c \in Calls : \A k \in 1 .. MaxPackets :
           aired'[c][k] <= 1 /\ (c > ops' => aired'[c][k] = 0)
    BY <1>1, <1>9, Zenon DEF ArrivedOnce
  <2>9. ASSUME NEW u \in Tasks, Calling(u)'
        PROVE  /\ \A k \in 1 .. MaxPackets :
                     k > snd'[u].pk \/ (k = snd'[u].pk /\ ~Handed(u)') => aired'[snd'[u].id][k] = 0
               /\ HasData(air') /\ Handed(u)' => aired'[snd'[u].id][snd'[u].pk] = 0
               /\ Handed(u)' => \A i \in 1 .. Len(cbq') :
                     cbq'[i].use = "data" /\ ~cbq'[i].ok => aired'[snd'[u].id][snd'[u].pk] = 0
               /\ snd'[u].pc = "wait" /\ ack_sem' = 1 /\ ~send_ok' => aired'[snd'[u].id][snd'[u].pk] = 0
    <3>1. CASE u = t
      <4>1. /\ aired' = aired /\ snd'[u].pk = snd[t].pk /\ snd'[u].id = snd[t].id
            /\ snd'[u].pc # "wait" /\ snd[t].pk \in Nat
        BY <1>1, <1>2, <1>5, <3>1 DEF SndRecords
      <4>2. \A k \in 1 .. MaxPackets : k > snd[t].pk \/ k = snd[t].pk => aired[snd[t].id][k] = 0
        BY <2>4, <4>1
      <4> QED
        BY <2>6, <4>1, <4>2
    <3>2. CASE u # t
      <4>1. \A k \in 1 .. MaxPackets :
                k > snd[u].pk \/ (k = snd[u].pk /\ ~Handed(u)) => aired[snd[u].id][k] = 0
        BY <1>9, <2>7, <2>9, <3>2, Zenon DEF ArrivedOnce
      <4> QED
        BY <1>1, <2>3, <2>7, <2>9, <3>2, <4>1
    <3> QED
      BY <3>1, <3>2
  <2> QED
    BY <2>8, <2>9, Zenon DEF ArrivedOnce
<1> QED
  BY <1>1, <1>6, <1>7, <1>8, <1>9, EspParts, Zenon

\* _send looks the id up once, before the first packet.
LEMMA SendUnknownStep ==
  ASSUME EspInv, NEW t \in Tasks, SendUnknown(t)
  PROVE  EspInv'
<1>1. snd[t].pc = "send" /\ Return(t, "ESP_FAIL")
      /\ UNCHANGED <<ping_active, send_ok, ping_ok, sems, png, air, cbq, ops, aired, odd>>
  BY Zenon DEF SendUnknown
<1> QED
  BY <1>1, GiveUpStep, Zenon

\* Handing a packet to the radio, or giving up, keeps the invariant of sending.
LEMMA SendPacketStep ==
  ASSUME EspInv, NEW t \in Tasks, SendPacket(t)
  PROVE  EspInv'
<1>1. CASE /\ air' = Append(air, [use |-> "data", id |-> snd[t].id, pk |-> snd[t].pk])
           /\ snd' = [snd EXCEPT ![t].pc = "clear"] /\ UNCHANGED send_active
  <2>1. snd[t].pc = "send"
        /\ UNCHANGED <<send_active, ping_active, send_ok, ping_ok, sems, png, cbq, ops, aired, odd>>
    BY <1>1 DEF SendPacket
  <2> QED
    BY <1>1, <2>1, PacketHandedStep, Zenon
<1>2. CASE Return(t, "ESP_FAIL") /\ UNCHANGED air
  <2>1. snd[t].pc = "send"
        /\ UNCHANGED <<ping_active, send_ok, ping_ok, sems, png, air, cbq, ops, aired, odd>>
    BY <1>2 DEF SendPacket
  <2> QED
    BY <1>2, <2>1, GiveUpStep, Zenon
<1> QED
  BY <1>1, <1>2, Zenon DEF SendPacket

\* The result is cleared after the packet left: when its report was handled
\* before, that is the mishap "early".
LEMMA SendClearStep ==
  ASSUME EspInv, NEW t \in Tasks, SendClear(t)
  PROVE  EspInv'
<1> USE EspAssumption
<1> DEFINE S == IF \E i \in 1 .. Len(air) : air[i].id = snd[t].id THEN {}
                ELSE IF \E i \in 1 .. Len(cbq) : cbq[i].id = snd[t].id THEN {} ELSE {"early"}
<1>1. /\ snd[t].pc = "clear" /\ send_ok' = FALSE
      /\ snd' = [snd EXCEPT ![t].pc = "wait"] /\ Odd(S)
      /\ send_active' = send_active /\ ping_active' = ping_active
      /\ ping_ok' = ping_ok /\ ack_sem' = ack_sem /\ pingack_sem' = pingack_sem /\ ping_sem' = ping_sem
      /\ png' = png /\ air' = air /\ cbq' = cbq /\ aired' = aired /\ ops' = ops
  BY DEF SendClear, flags, sems
<1>2. S \subseteq {"early", "late", "crossed", "overlap", "unacked"}
  OBVIOUS
<1>3. EspTypes /\ IdsDiffer
  BY Zenon DEF EspInv
<1>4. /\ odd' \subseteq {"early", "late", "crossed", "overlap", "unacked"}
      /\ odd \subseteq odd' /\ S \subseteq odd'
  <2> HIDE DEF S
  <2> QED
    BY <1>1, <1>2, <1>3, OddGrows, Zenon
<1>5. /\ snd' \in [Tasks -> SndRecords]
      /\ snd'[t].pc = "wait" /\ snd'[t].id = snd[t].id /\ snd'[t].pk = snd[t].pk
      /\ snd'[t].total = snd[t].total /\ snd'[t].ret = snd[t].ret
      /\ \A u \in Tasks : u # t => snd'[u] = snd[u]
  <2>1. "wait" \in {"idle", "mark", "send", "clear", "wait"}
    OBVIOUS
  <2> QED
    BY <1>1, <1>3, <2>1, SndMoves, Zenon
<1>6. EspTypes'
  <2>1. send_ok' \in BOOLEAN
    BY <1>1
  <2> QED
    BY <1>1, <1>3, <1>4, <1>5, <2>1, Zenon DEF EspTypes
<1>7. IdsDiffer'
  <2>1. ops' = ops /\ ops \in Nat
    BY <1>1, <1>3 DEF EspTypes
  <2>2. Calling(t)
    BY <1>1 DEF Calling
  <2>3. \A u \in Tasks : Calling(u)' => /\ Calling(u) /\ snd'[u].id = snd[u].id
                                        /\ snd'[u].total = snd[u].total
                                        /\ snd'[u].pk \in 1 .. snd[u].total
    BY <1>3, <1>5, <2>2 DEF Calling, IdsDiffer
  <2>4. \A u \in Tasks : snd'[u].ret = "ESP_OK" => snd'[u].id # 0
    BY <1>3, <1>5 DEF IdsDiffer
  <2>5. /\ \A p \in PingTasks : png'[p].pc = "send" => png[p].pc = "send" /\ png'[p].id = png[p].id
        /\ \A i \in 1 .. Len(air') : \E j \in 1 .. Len(air) : air'[i] = air[j]
        /\ \A i \in 1 .. Len(cbq') : \E j \in 1 .. Len(cbq) : cbq'[i] = cbq[j]
    BY <1>1
  <2> QED
    BY <1>3, <2>1, <2>3, <2>4, <2>5, IdsStay, Zenon
<1>10. /\ Handed(t) /\ Sending(t) /\ Calling(t)
       /\ \A u \in Tasks : /\ (Handed(u)' <=> Handed(u)) /\ (Sending(u)' <=> Sending(u))
                           /\ (Calling(u)' <=> Calling(u))
                           /\ snd'[u].id = snd[u].id /\ snd'[u].pk = snd[u].pk
                           /\ snd'[u].total = snd[u].total /\ snd'[u].ret = snd[u].ret
  BY <1>1, <1>5 DEF Handed, Sending, Calling
<1>8. ASSUME OnePlace, Earned PROVE OnePlace' /\ Earned'
  <2>7. OnePlace'
    BY <1>1, <1>8, <1>10 DEF OnePlace
  <2>8. Earned'
    BY <1>1, <1>8, <1>10 DEF Earned
  <2> QED
    BY <2>7, <2>8
<1>9. ASSUME odd' = {}, OnePlace, ArrivedOnce PROVE ArrivedOnce'
  <2>1. \A u \in Tasks : u # t => snd'[u].pc # "wait"
    <3>1. \A u \in Tasks : u # t => ~Sending(u)
      BY <1>9, <1>10, Zenon DEF OnePlace
    <3> QED
      BY <1>5, <3>1 DEF Sending
  <2>2. HasData(air) \/ HasData(cbq)
    <3>1. S = {}
      <4> HIDE DEF S
      <4> QED
        BY <1>4, <1>9
    <3>2. CASE \E i \in 1 .. Len(air) : air[i].id = snd[t].id
      <4>1. PICK i \in 1 .. Len(air) : air[i].id = snd[t].id
        BY <3>2
      <4>2. air[i] \in AirRecords
        BY <1>3 DEF EspTypes
      <4>3. air[i].use # "ping"
        BY <1>3, <1>10, <4>1, Zenon DEF IdsDiffer
      <4>4. air[i].use = "data"
        BY <4>2, <4>3 DEF AirRecords
      <4> QED
        BY <4>4 DEF HasData
    <3>3. CASE \E i \in 1 .. Len(cbq) : cbq[i].id = snd[t].id
      <4>1. PICK i \in 1 .. Len(cbq) : cbq[i].id = snd[t].id
        BY <3>3
      <4>2. cbq[i] \in RepRecords
        BY <1>3 DEF EspTypes
      <4>3. cbq[i].use # "ping"
        BY <1>3, <1>10, <4>1, Zenon DEF IdsDiffer
      <4>4. cbq[i].use = "data"
        BY <4>2, <4>3 DEF RepRecords
      <4> QED
        BY <4>4 DEF HasData
    <3> QED
      BY <3>1, <3>2, <3>3
  <2>3. ack_sem' # 1
    BY <1>1, <1>9, <2>2 DEF OnePlace
  <2>4. /\ \A c \in Calls : \A k \in 1 .. MaxPackets :
              aired'[c][k] <= 1 /\ (c > ops' => aired'[c][k] = 0)
        /\ \A u \in Tasks : Calling(u)' => \A k \in 1 .. MaxPackets :
              k > snd'[u].pk \/ (k = snd'[u].pk /\ ~Handed(u)') => aired'[snd'[u].id][k] = 0
    BY <1>1, <1>9, <1>10 DEF ArrivedOnce
  <2>5. \A u \in Tasks : Calling(u)' =>
          /\ HasData(air') /\ Handed(u)' => aired'[snd'[u].id][snd'[u].pk] = 0
          /\ Handed(u)' => \A i \in 1 .. Len(cbq') :
                cbq'[i].use = "data" /\ ~cbq'[i].ok => aired'[snd'[u].id][snd'[u].pk] = 0
          /\ snd'[u].pc = "wait" /\ ack_sem' = 1 /\ ~send_ok' => aired'[snd'[u].id][snd'[u].pk] = 0
    BY <1>1, <1>9, <1>10, <2>1, <2>3 DEF ArrivedOnce
  <2> QED
    BY <2>4, <2>5, Zenon DEF ArrivedOnce
<1> QED
  BY <1>1, <1>4, <1>6, <1>7, <1>8, <1>9, EspParts, Zenon

-----------------------------------------------------------------------------
\* What a wait ends with: a try counted, the next packet, or the call's end.
LEMMA WaitOutcome ==
  ASSUME EspTypes, IdsDiffer, NEW t \in Tasks, SendWait(t)
  PROVE  /\ snd' \in [Tasks -> SndRecords] /\ send_active' \in BOOLEAN
         /\ \A u \in Tasks : u # t => snd'[u] = snd[u]
         /\ snd'[t].id = snd[t].id /\ snd'[t].total = snd[t].total
         /\ \/ snd'[t].pc = "send" /\ snd'[t].pk = snd[t].pk /\ ~send_ok /\ snd'[t].ret = snd[t].ret
            \/ /\ snd'[t].pc = "send" /\ snd'[t].pk = snd[t].pk + 1 /\ send_ok
               /\ snd[t].pk < snd[t].total /\ snd'[t].ret = snd[t].ret
            \/ snd'[t].pc = "idle" /\ snd'[t].ret = "ESP_OK" /\ send_ok /\ ~(snd[t].pk < snd[t].total)
            \/ snd'[t].pc = "idle" /\ snd'[t].ret = "ESP_FAIL"
<1> USE EspAssumption
<1> DEFINE s == [snd[t] EXCEPT !.cnt = @ + 1]
           r == Settled(snd[t])
<1>0. snd \in [Tasks -> SndRecords] /\ snd[t] \in SndRecords /\ send_active \in BOOLEAN /\ send_ok \in BOOLEAN
  BY DEF EspTypes
<1>1. /\ snd[t].pc = "wait"
      /\ \/ /\ r = "again" /\ UNCHANGED send_active
            /\ snd' = [snd EXCEPT ![t] = [s EXCEPT !.pc = "send"]]
         \/ /\ r = "next" /\ UNCHANGED send_active
            /\ snd' = [snd EXCEPT ![t] = [s EXCEPT !.pc = "send", !.pk = @ + 1, !.cnt = 0]]
         \/ r = "ok" /\ Return(t, "ESP_OK")
         \/ r = "fail" /\ Return(t, "ESP_FAIL")
  BY Zenon DEF SendWait
<1>2. /\ snd[t].pk \in 1 .. snd[t].total /\ snd[t].cnt \in 0 .. TryAgain + 1
      /\ snd[t].total \in 0 .. MaxPackets
  BY <1>0, <1>1 DEF IdsDiffer, Calling, SndRecords
<1>3. /\ r = "again" => ~send_ok /\ snd[t].cnt <= TryAgain
      /\ r = "next" => send_ok /\ snd[t].pk < snd[t].total
      /\ r = "ok" => send_ok /\ ~(snd[t].pk < snd[t].total)
  <2>1. snd[t].cnt > TryAgain => snd[t].cnt + 1 > TryAgain
    BY <1>2
  <2> QED
    BY <1>0, <1>2, <2>1 DEF Settled
<1>4. CASE r = "again"
  <2> DEFINE w == [s EXCEPT !.pc = "send"]
  <2>1. snd' = [snd EXCEPT ![t] = w] /\ send_active' = send_active
    BY <1>1, <1>4
  <2>2. snd[t].cnt + 1 \in 0 .. TryAgain + 1
    BY <1>2, <1>3, <1>4
  <2>3. /\ w \in SndRecords /\ w.pc = "send" /\ w.pk = snd[t].pk /\ w.id = snd[t].id
        /\ w.total = snd[t].total /\ w.ret = snd[t].ret
    BY <1>0, <2>2 DEF SndRecords
  <2> HIDE DEF w, s, r
  <2>4. snd' \in [Tasks -> SndRecords] /\ snd'[t] = w /\ \A u \in Tasks : u # t => snd'[u] = snd[u]
    BY <2>1, <2>3, SndSet, Zenon
  <2> QED
    BY <1>0, <1>3, <1>4, <2>1, <2>3, <2>4
<1>5. CASE r = "next"
  <2> DEFINE w == [s EXCEPT !.pc = "send", !.pk = s.pk + 1, !.cnt = 0]
  <2>1. snd' = [snd EXCEPT ![t] = w] /\ send_active' = send_active
    BY <1>1, <1>5
  <2>2. snd[t].pk + 1 \in 0 .. MaxPackets /\ 0 \in 0 .. TryAgain + 1
    BY <1>2, <1>3, <1>5
  <2>5. s.pk = snd[t].pk
    BY <1>0 DEF SndRecords
  <2>3. /\ w \in SndRecords /\ w.pc = "send" /\ w.pk = snd[t].pk + 1 /\ w.id = snd[t].id
        /\ w.total = snd[t].total /\ w.ret = snd[t].ret
    BY <1>0, <2>2, <2>5 DEF SndRecords
  <2> HIDE DEF w, s, r
  <2>4. snd' \in [Tasks -> SndRecords] /\ snd'[t] = w /\ \A u \in Tasks : u # t => snd'[u] = snd[u]
    BY <2>1, <2>3, SndSet, Zenon
  <2> QED
    BY <1>0, <1>3, <1>5, <2>1, <2>3, <2>4
<1>6. CASE r = "ok"
  <2>1. Return(t, "ESP_OK") /\ "ESP_OK" \in {"ESP_OK", "ESP_FAIL"}
    BY <1>1, <1>6
  <2>2. /\ snd' \in [Tasks -> SndRecords]
        /\ snd'[t].pc = "idle" /\ snd'[t].id = snd[t].id /\ snd'[t].pk = snd[t].pk
        /\ snd'[t].total = snd[t].total /\ snd'[t].ret = "ESP_OK"
        /\ \A u \in Tasks : u # t => snd'[u] = snd[u]
        /\ send_active' = FALSE
    BY <2>1, ReturnFacts, Zenon
  <2> QED
    BY <1>3, <1>6, <2>2
<1>7. CASE r = "fail"
  <2>1. Return(t, "ESP_FAIL") /\ "ESP_FAIL" \in {"ESP_OK", "ESP_FAIL"}
    BY <1>1, <1>7
  <2>2. /\ snd' \in [Tasks -> SndRecords]
        /\ snd'[t].pc = "idle" /\ snd'[t].id = snd[t].id /\ snd'[t].pk = snd[t].pk
        /\ snd'[t].total = snd[t].total /\ snd'[t].ret = "ESP_FAIL"
        /\ \A u \in Tasks : u # t => snd'[u] = snd[u]
        /\ send_active' = FALSE
    BY <2>1, ReturnFacts, Zenon
  <2> QED
    BY <2>2
<1> QED
  BY <1>1, <1>4, <1>5, <1>6, <1>7, Zenon

\* A wait that ends without the semaphore ends while the packet is on its way:
\* the mishap "late".  Otherwise the report was taken with it.
LEMMA SendWaitStep ==
  ASSUME EspInv, NEW t \in Tasks, SendWait(t)
  PROVE  EspInv'
<1> USE EspAssumption
<1> DEFINE S == IF Reported(snd[t].id) THEN {} ELSE {"late"}
<1>1. /\ snd[t].pc = "wait" /\ ack_sem' = 0
      /\ (ack_sem = 1 /\ odd' = odd) \/ (ack_sem = 0 /\ Odd(S))
      /\ ping_active' = ping_active /\ send_ok' = send_ok
      /\ ping_ok' = ping_ok /\ pingack_sem' = pingack_sem /\ ping_sem' = ping_sem
      /\ png' = png /\ air' = air /\ cbq' = cbq /\ aired' = aired /\ ops' = ops
  BY DEF SendWait
<1>2. S \subseteq {"early", "late", "crossed", "overlap", "unacked"}
  OBVIOUS
<1>3. EspTypes /\ IdsDiffer
  BY Zenon DEF EspInv
<1>4. /\ odd' \subseteq {"early", "late", "crossed", "overlap", "unacked"}
      /\ odd \subseteq odd' /\ (ack_sem = 0 => S \subseteq odd')
  <2> HIDE DEF S
  <2>1. Odd(S) \/ odd' = odd
    BY <1>1
  <2>2. ack_sem = 0 => Odd(S)
    BY <1>1
  <2> QED
    BY <1>2, <1>3, <2>1, <2>2, OddGrows, Zenon
<1>5. /\ snd' \in [Tasks -> SndRecords] /\ send_active' \in BOOLEAN
      /\ \A u \in Tasks : u # t => snd'[u] = snd[u]
      /\ snd'[t].id = snd[t].id /\ snd'[t].total = snd[t].total
      /\ \/ snd'[t].pc = "send" /\ snd'[t].pk = snd[t].pk /\ ~send_ok /\ snd'[t].ret = snd[t].ret
         \/ /\ snd'[t].pc = "send" /\ snd'[t].pk = snd[t].pk + 1 /\ send_ok
            /\ snd[t].pk < snd[t].total /\ snd'[t].ret = snd[t].ret
         \/ snd'[t].pc = "idle" /\ snd'[t].ret = "ESP_OK" /\ send_ok /\ ~(snd[t].pk < snd[t].total)
         \/ snd'[t].pc = "idle" /\ snd'[t].ret = "ESP_FAIL"
  BY <1>3, WaitOutcome, Zenon
<1>6. EspTypes'
  <2>1. ack_sem' \in {0, 1}
    BY <1>1
  <2> QED
    BY <1>1, <1>3, <1>4, <1>5, <2>1, Zenon DEF EspTypes
<1>10. /\ snd[t].id \in 1 .. ops /\ snd[t].pk \in 1 .. snd[t].total /\ Calling(t) /\ Handed(t) /\ Sending(t)
       /\ snd[t] \in SndRecords /\ snd[t].pk \in Nat /\ snd[t].total \in Nat
  BY <1>1, <1>3 DEF IdsDiffer, Calling, Handed, Sending, EspTypes, SndRecords
<1>7. IdsDiffer'
  <2>1. ops' = ops /\ ops \in Nat
    BY <1>1, <1>3 DEF EspTypes
  <2>2. snd'[t].pc = "send" => snd'[t].pk \in 1 .. snd[t].total
    BY <1>5, <1>10
  <2>3. \A u \in Tasks : Calling(u)' => /\ Calling(u) /\ snd'[u].id = snd[u].id
                                        /\ snd'[u].total = snd[u].total
                                        /\ snd'[u].pk \in 1 .. snd[u].total
    BY <1>3, <1>5, <1>10, <2>2 DEF Calling, IdsDiffer
  <2>4. \A u \in Tasks : snd'[u].ret = "ESP_OK" => snd'[u].id # 0
    BY <1>3, <1>5, <1>10 DEF IdsDiffer
  <2>5. /\ \A p \in PingTasks : png'[p].pc = "send" => png[p].pc = "send" /\ png'[p].id = png[p].id
        /\ \A i \in 1 .. Len(air') : \E j \in 1 .. Len(air) : air'[i] = air[j]
        /\ \A i \in 1 .. Len(cbq') : \E j \in 1 .. Len(cbq) : cbq'[i] = cbq[j]
    BY <1>1
  <2> QED
    BY <1>3, <2>1, <2>3, <2>4, <2>5, IdsStay, Zenon
<1>11. ASSUME odd' \subseteq {"early", "unacked"}, OnePlace
       PROVE  /\ ack_sem = 1 /\ ~HasData(air) /\ ~HasData(cbq)
              /\ \A u \in Tasks : u # t => ~Sending(u)
              /\ \A u \in Tasks : u # t => snd'[u] = snd[u]
              /\ \A u \in Tasks : ~Handed(u)' /\ (Sending(u)' => u = t) /\ snd'[u].pc # "wait"
  <2>1. \A u \in Tasks : u # t => ~Sending(u)
    BY <1>10, <1>11, Zenon DEF OnePlace
  <2>2. ASSUME HasData(air) \/ HasData(cbq) PROVE ~Reported(snd[t].id)
    <3>1. CASE HasData(air)
      <4>1. PICK i \in 1 .. Len(air) : air[i].use = "data"
        BY <3>1, Zenon DEF HasData
      <4>2. air[i].id = snd[t].id
        BY <1>10, <1>11, <4>1, Zenon DEF OnePlace
      <4> QED
        BY <4>2, Zenon DEF Reported
    <3>2. CASE HasData(cbq)
      <4>1. PICK i \in 1 .. Len(cbq) : cbq[i].use = "data"
        BY <3>2, Zenon DEF HasData
      <4>2. cbq[i].id = snd[t].id
        BY <1>10, <1>11, <4>1, Zenon DEF OnePlace
      <4> QED
        BY <4>2, Zenon DEF Reported
    <3> QED
      BY <2>2, <3>1, <3>2
  <2>3. ack_sem = 1
    <3> SUFFICES ASSUME ack_sem = 0 PROVE FALSE
      BY <1>1
    <3>1. HasData(air) \/ HasData(cbq)
      BY <1>10, <1>11 DEF OnePlace
    <3>2. "late" \in odd'
      BY <1>4, <2>2, <3>1
    <3> QED
      BY <1>11, <3>2
  <2>4. ~HasData(air) /\ ~HasData(cbq)
    BY <1>11, <2>3 DEF OnePlace
  <2>5. \A u \in Tasks : ~Handed(u)' /\ (Sending(u)' => u = t) /\ snd'[u].pc # "wait"
    BY <1>5, <2>1 DEF Handed, Sending
  <2> QED
    BY <1>5, <2>1, <2>3, <2>4, <2>5
<1>8. ASSUME odd' \subseteq {"early", "unacked"}, OnePlace, Earned PROVE OnePlace' /\ Earned'
  <2>1. /\ ack_sem = 1 /\ ~HasData(air) /\ ~HasData(cbq)
        /\ \A u \in Tasks : u # t => ~Sending(u)
        /\ \A u \in Tasks : u # t => snd'[u] = snd[u]
        /\ \A u \in Tasks : ~Handed(u)' /\ (Sending(u)' => u = t) /\ snd'[u].pc # "wait"
    BY <1>8, <1>11, Zenon
  <2>2. (\A i \in 1 .. Len(air) : air[i].use # "data") /\ (\A i \in 1 .. Len(cbq) : cbq[i].use # "data")
    BY <2>1, NoDataMeans, Zenon
  <2>3. OnePlace'
    BY <1>1, <1>8, <2>1, <2>2 DEF OnePlace
  <2>4. send_ok => aired[snd[t].id][snd[t].pk] > 0
    BY <1>1, <1>8, Zenon DEF Earned
  <2>5. \A k \in 1 .. snd[t].pk - 1 : aired[snd[t].id][k] > 0
    BY <1>8, <1>10, Zenon DEF Earned
  <2>6. send_ok => \A k \in 1 .. snd[t].pk : aired[snd[t].id][k] > 0
    BY <1>10, <2>4, <2>5
  <2>7. Calling(t)' => \A k \in 1 .. snd'[t].pk - 1 : aired'[snd'[t].id][k] > 0
    <3>1. CASE snd'[t].pk = snd[t].pk
      BY <1>1, <1>5, <2>5, <3>1
    <3>2. CASE snd'[t].pk = snd[t].pk + 1 /\ send_ok
      <4>1. snd'[t].pk - 1 = snd[t].pk
        BY <1>10, <3>2
      <4> QED
        BY <1>1, <1>5, <2>6, <3>2, <4>1
    <3> QED
      BY <1>5, <3>1, <3>2 DEF Calling
  <2>8. ~Calling(t)' /\ snd'[t].ret = "ESP_OK" => \A k \in 1 .. snd'[t].total : aired'[snd'[t].id][k] > 0
    <3> SUFFICES ASSUME ~Calling(t)', snd'[t].ret = "ESP_OK"
                 PROVE  \A k \in 1 .. snd'[t].total : aired'[snd'[t].id][k] > 0
      OBVIOUS
    <3>1. snd'[t].pc = "idle" /\ send_ok /\ ~(snd[t].pk < snd[t].total)
      BY <1>5 DEF Calling
    <3>2. snd[t].total = snd[t].pk
      BY <1>10, <3>1
    <3> QED
      BY <1>1, <1>5, <2>6, <3>1, <3>2
  <2>9. ASSUME NEW u \in Tasks, u # t
        PROVE  /\ Calling(u)' => \A k \in 1 .. snd'[u].pk - 1 : aired'[snd'[u].id][k] > 0
               /\ ~Calling(u)' /\ snd'[u].ret = "ESP_OK" =>
                     \A k \in 1 .. snd'[u].total : aired'[snd'[u].id][k] > 0
    <3>1. snd'[u] = snd[u] /\ (Calling(u)' <=> Calling(u)) /\ aired' = aired
      BY <1>1, <1>5, <2>9 DEF Calling
    <3>2. /\ Calling(u) => \A k \in 1 .. snd[u].pk - 1 : aired[snd[u].id][k] > 0
          /\ ~Calling(u) /\ snd[u].ret = "ESP_OK" => \A k \in 1 .. snd[u].total : aired[snd[u].id][k] > 0
      BY <1>8, Zenon DEF Earned
    <3> QED
      BY <3>1, <3>2
  <2>10. \A u \in Tasks : ~(snd'[u].pc = "wait")
    BY <2>1
  <2>11. \A i \in 1 .. Len(cbq') : ~(cbq'[i].use = "data")
    BY <1>1, <2>2
  <2>12. Earned'
    BY <2>7, <2>8, <2>9, <2>10, <2>11, Zenon DEF Earned
  <2> QED
    BY <2>3, <2>12
<1>9. ASSUME odd' = {}, OnePlace, ArrivedOnce PROVE ArrivedOnce'
  <2>0. odd' \subseteq {"early", "unacked"}
    BY <1>9
  <2>1. /\ ack_sem = 1
        /\ \A u \in Tasks : u # t => snd'[u] = snd[u]
        /\ \A u \in Tasks : ~Handed(u)' /\ snd'[u].pc # "wait"
    BY <1>9, <1>11, <2>0, Zenon
  <2>2. \A k \in 1 .. MaxPackets : k > snd[t].pk => aired[snd[t].id][k] = 0
    BY <1>9, <1>10, Zenon DEF ArrivedOnce
  <2>3. ~send_ok => aired[snd[t].id][snd[t].pk] = 0
    BY <1>1, <1>9, <1>10, <2>1, Zenon DEF ArrivedOnce
  <2>4. \A c \in Calls : \A k \in 1 .. MaxPackets :
           aired'[c][k] <= 1 /\ (c > ops' => aired'[c][k] = 0)
    BY <1>1, <1>9, Zenon DEF ArrivedOnce
  <2>5. ASSUME NEW u \in Tasks, Calling(u)', NEW k \in 1 .. MaxPackets, k > snd'[u].pk \/ k = snd'[u].pk
        PROVE  aired'[snd'[u].id][k] = 0
    <3>1. CASE u = t
      <4>1. CASE snd'[t].pk = snd[t].pk /\ ~send_ok
        BY <1>1, <1>5, <2>2, <2>3, <2>5, <3>1, <4>1
      <4>2. CASE snd'[t].pk = snd[t].pk + 1
        <5>1. k > snd[t].pk
          BY <1>10, <2>5, <3>1, <4>2
        <5> QED
          BY <1>1, <1>5, <2>2, <3>1, <5>1
      <4> QED
        BY <1>5, <2>5, <3>1, <4>1, <4>2 DEF Calling
    <3>2. CASE u # t
      <4>1. snd'[u] = snd[u] /\ Calling(u) /\ ~Handed(u) /\ aired' = aired
        BY <1>1, <1>5, <2>1, <2>5, <3>2 DEF Calling, Handed
      <4>2. \A j \in 1 .. MaxPackets : j > snd[u].pk \/ (j = snd[u].pk /\ ~Handed(u)) => aired[snd[u].id][j] = 0
        BY <1>9, <4>1, Zenon DEF ArrivedOnce
      <4> QED
        BY <2>5, <4>1, <4>2
    <3> QED
      BY <3>1, <3>2
  <2> QED
    BY <2>1, <2>4, <2>5, Zenon DEF ArrivedOnce
<1> QED
  BY <1>1, <1>4, <1>6, <1>7, <1>8, <1>9, EspParts, Zenon

\* What the radio writes down of a packet that arrived.
OnceMore(c, k) == [aired EXCEPT ![c][k] = IF @ = 0 THEN 1 ELSE 2]

\* A packet on the air once more is counted at its place and nowhere else.
LEMMA AiredFacts ==
  ASSUME EspTypes, NEW c \in Calls, NEW k \in 1 .. MaxPackets, aired' = OnceMore(c, k)
  PROVE  /\ aired' \in [Calls -> [1 .. MaxPackets -> 0 .. 2]]
         /\ aired'[c][k] = IF aired[c][k] = 0 THEN 1 ELSE 2
         /\ \A d \in Calls : \A j \in 1 .. MaxPackets : ~(d = c /\ j = k) => aired'[d][j] = aired[d][j]
<1>1. aired \in [Calls -> [1 .. MaxPackets -> 0 .. 2]]
  BY Zenon DEF EspTypes
<1>2. aired[c] \in [1 .. MaxPackets -> 0 .. 2]
  BY <1>1
<1> DEFINE v == IF aired[c][k] = 0 THEN 1 ELSE 2
           f == [aired[c] EXCEPT ![k] = v]
<1>3. v \in 0 .. 2
  OBVIOUS
<1>4. aired' = [aired EXCEPT ![c] = f]
  BY DEF OnceMore
<1>5. f \in [1 .. MaxPackets -> 0 .. 2] /\ f[k] = v /\ \A j \in 1 .. MaxPackets : j # k => f[j] = aired[c][j]
  <2> HIDE DEF v
  <2> QED
    BY <1>2, <1>3
<1> HIDE DEF f, v
<1>6. aired' \in [Calls -> [1 .. MaxPackets -> 0 .. 2]] /\ aired'[c] = f
      /\ \A d \in Calls : d # c => aired'[d] = aired[d]
  BY <1>1, <1>4, <1>5
<1> QED
  BY <1>5, <1>6 DEF v

\* The radio reports the oldest transmission.
LEMMA RadioReportStep ==
  ASSUME EspInv, RadioReport
  PROVE  EspInv'
<1> USE EspAssumption
<1>1. PICK ok \in BOOLEAN, came \in BOOLEAN :
          /\ ok => came
          /\ cbq' = Append(cbq, [use |-> Head(air).use, id |-> Head(air).id, ok |-> ok])
          /\ aired' = IF came /\ Head(air).use = "data"
                      THEN [aired EXCEPT ![Head(air).id][Head(air).pk] = IF @ = 0 THEN 1 ELSE 2]
                      ELSE aired
          /\ Odd(IF came /\ ~ok THEN {"unacked"} ELSE {})
  BY Zenon DEF RadioReport
<1> DEFINE S == IF came /\ ~ok THEN {"unacked"} ELSE {}
           h == Head(air)
           e == [use |-> h.use, id |-> h.id, ok |-> ok]
<1>2. /\ air # <<>> /\ air' = Tail(air) /\ snd' = snd /\ png' = png /\ ops' = ops
      /\ send_active' = send_active /\ ping_active' = ping_active /\ send_ok' = send_ok
      /\ ping_ok' = ping_ok /\ ack_sem' = ack_sem /\ pingack_sem' = pingack_sem /\ ping_sem' = ping_sem
  BY DEF RadioReport, flags, sems
<1>3. EspTypes /\ IdsDiffer
  BY Zenon DEF EspInv
<1>4. /\ odd' \subseteq {"early", "late", "crossed", "overlap", "unacked"}
      /\ odd \subseteq odd' /\ S \subseteq odd'
  <2>1. Odd(S) /\ S \subseteq {"early", "late", "crossed", "overlap", "unacked"}
    BY <1>1
  <2> HIDE DEF S
  <2> QED
    BY <1>3, <2>1, OddGrows, Zenon
<1>5. air \in Seq(AirRecords) /\ cbq \in Seq(RepRecords)
  BY <1>3, Zenon DEF EspTypes
<1>6. /\ h \in AirRecords /\ air' \in Seq(AirRecords) /\ \E j \in 1 .. Len(air) : h = air[j]
      /\ \A i \in 1 .. Len(air') : \E j \in 1 .. Len(air) : air'[i] = air[j]
  BY <1>2, <1>5, TailEntries
<1>7. /\ HasData(air) <=> (h.use = "data" \/ HasData(air'))
      /\ AtMostOneData(air) => /\ AtMostOneData(air')
                               /\ h.use = "data" => ~HasData(air')
  BY <1>2, <1>5, DataTail
<1>8. PICK j0 \in 1 .. Len(air) : h = air[j0]
  BY <1>6
<1> HIDE DEF h
<1>9. e \in RepRecords /\ e.use = h.use /\ e.id = h.id /\ e.ok = ok
  BY <1>6 DEF AirRecords, RepRecords
<1>10. cbq' = Append(cbq, e)
  BY <1>1 DEF h
<1> HIDE DEF e
<1>11. /\ cbq' \in Seq(RepRecords)
       /\ \A i \in 1 .. Len(cbq') : cbq'[i] = e \/ \E j \in 1 .. Len(cbq) : cbq'[i] = cbq[j]
  <2>1. /\ Append(cbq, e) \in Seq(RepRecords)
        /\ \A i \in 1 .. Len(Append(cbq, e)) :
              Append(cbq, e)[i] = e \/ \E j \in 1 .. Len(cbq) : Append(cbq, e)[i] = cbq[j]
    <3>1. e \in RepRecords /\ cbq \in Seq(RepRecords)
      BY <1>5, <1>9
    <3> QED
      BY <3>1, AppendEntries, SMT
  <2> QED
    BY <1>10, <2>1
<1>12. /\ HasData(cbq') <=> (HasData(cbq) \/ h.use = "data")
       /\ AtMostOneData(cbq) /\ (h.use = "data" => ~HasData(cbq)) => AtMostOneData(cbq')
  <2>1. /\ HasData(Append(cbq, e)) <=> (HasData(cbq) \/ e.use = "data")
        /\ AtMostOneData(cbq) /\ (e.use = "data" => ~HasData(cbq)) => AtMostOneData(Append(cbq, e))
    BY <1>5, <1>9, DataAppend, Zenon
  <2> QED
    BY <1>9, <1>10, <2>1
<1>13. h.use = "data" => h.id \in Calls /\ h.pk \in 1 .. MaxPackets
  <2>1. h.use = "data" => h.pk # 0
    BY <1>3, <1>8, Zenon DEF IdsDiffer
  <2> QED
    BY <1>6, <2>1 DEF AirRecords
<1>14. /\ aired' \in [Calls -> [1 .. MaxPackets -> 0 .. 2]]
       /\ h.use = "data" /\ came => aired'[h.id][h.pk] = IF aired[h.id][h.pk] = 0 THEN 1 ELSE 2
       /\ \A d \in Calls : \A j \in 1 .. MaxPackets :
             ~(h.use = "data" /\ came /\ d = h.id /\ j = h.pk) => aired'[d][j] = aired[d][j]
  <2>1. CASE h.use = "data" /\ came
    <3>0. \E d \in Calls, j \in 1 .. MaxPackets : d = h.id /\ j = h.pk
      BY <1>13, <2>1
    <3>1. PICK c \in Calls, k \in 1 .. MaxPackets : c = h.id /\ k = h.pk
      BY <3>0, Zenon
    <3>2. aired' = OnceMore(c, k)
      BY <1>1, <2>1, <3>1 DEF h, OnceMore
    <3>3. /\ aired' \in [Calls -> [1 .. MaxPackets -> 0 .. 2]]
          /\ aired'[c][k] = IF aired[c][k] = 0 THEN 1 ELSE 2
          /\ \A d \in Calls : \A j \in 1 .. MaxPackets :
                ~(d = c /\ j = k) => aired'[d][j] = aired[d][j]
      BY <1>3, <3>2, AiredFacts, Zenon
    <3> QED
      BY <2>1, <3>1, <3>3
  <2>2. CASE ~(h.use = "data" /\ came)
    <3>1. aired' = aired
      BY <1>1, <2>2 DEF h
    <3>2. aired \in [Calls -> [1 .. MaxPackets -> 0 .. 2]]
      BY <1>3, Zenon DEF EspTypes
    <3> QED
      BY <2>2, <3>1, <3>2
  <2> QED
    BY <2>1, <2>2
<1>15. EspTypes'
  BY <1>2, <1>3, <1>4, <1>6, <1>11, <1>14, Zenon DEF EspTypes
<1>16. IdsDiffer'
  <2>1. ops' = ops /\ ops \in Nat
    BY <1>2, <1>3 DEF EspTypes
  <2>3. \A u \in Tasks : Calling(u)' => /\ Calling(u) /\ snd'[u].id = snd[u].id
                                        /\ snd'[u].total = snd[u].total
                                        /\ snd'[u].pk \in 1 .. snd[u].total
    BY <1>2, <1>3 DEF Calling, IdsDiffer
  <2>4. \A u \in Tasks : snd'[u].ret = "ESP_OK" => snd'[u].id # 0
    BY <1>2, <1>3 DEF IdsDiffer
  <2>5. \A p \in PingTasks : png'[p].pc = "send" => png[p].pc = "send" /\ png'[p].id = png[p].id
    BY <1>2
  <2>6. \A i \in 1 .. Len(cbq') :
            \/ \E j \in 1 .. Len(cbq) : cbq'[i] = cbq[j]
            \/ \E j \in 1 .. Len(air) : cbq'[i].use = air[j].use /\ cbq'[i].id = air[j].id
    BY <1>8, <1>9, <1>11
  <2> QED
    BY <1>3, <1>6, <2>1, <2>3, <2>4, <2>5, <2>6, IdsStay, Zenon
<1>17. \A u \in Tasks : /\ (Handed(u)' <=> Handed(u)) /\ (Sending(u)' <=> Sending(u))
                        /\ (Calling(u)' <=> Calling(u))
  BY <1>2 DEF Handed, Sending, Calling
<1>18. \A u \in Tasks : Calling(u) => snd[u].id \in Calls /\ snd[u].pk \in 1 .. MaxPackets
                                      /\ snd[u].total \in 1 .. MaxPackets /\ snd[u].pk <= snd[u].total
  <2> SUFFICES ASSUME NEW u \in Tasks, Calling(u)
               PROVE  snd[u].id \in Calls /\ snd[u].pk \in 1 .. MaxPackets
                      /\ snd[u].total \in 1 .. MaxPackets /\ snd[u].pk <= snd[u].total
    OBVIOUS
  <2>1. snd[u].id \in 1 .. ops /\ snd[u].total >= 1 /\ snd[u].pk \in 1 .. snd[u].total
    BY <1>3, Zenon DEF IdsDiffer
  <2>2. snd[u] \in SndRecords /\ ops \in 0 .. MaxEspOps
    BY <1>3 DEF EspTypes
  <2> QED
    BY <2>1, <2>2 DEF SndRecords, Calls
<1>19. \A d \in Calls : \A j \in 1 .. MaxPackets : aired[d][j] > 0 => aired'[d][j] > 0
  <2>1. aired \in [Calls -> [1 .. MaxPackets -> 0 .. 2]]
    BY <1>3, Zenon DEF EspTypes
  <2> QED
    BY <1>14, <2>1
\* Who sent what is reported, while nothing went astray.
<1>20. ASSUME OnePlace, h.use = "data"
       PROVE  /\ ~HasData(cbq) /\ ack_sem = 0 /\ \E u \in Tasks : Handed(u)
              /\ \A u \in Tasks : Sending(u) => h.id = snd[u].id /\ h.pk = snd[u].pk
  <2>1. HasData(air)
    BY <1>7, <1>20
  <2>2. \A u \in Tasks : Sending(u) => h.id = snd[u].id /\ h.pk = snd[u].pk
    BY <1>8, <1>20, Zenon DEF OnePlace
  <2> QED
    BY <1>20, <2>1, <2>2, Zenon DEF OnePlace
<1>21. ASSUME OnePlace, Earned PROVE OnePlace' /\ Earned'
  <2>1. OnePlace'
    <3>1. AtMostOneData(air') /\ AtMostOneData(cbq')
      BY <1>7, <1>12, <1>20, <1>21 DEF OnePlace
    <3>2. /\ HasData(air') => ~HasData(cbq') /\ ack_sem' = 0
          /\ HasData(cbq') => ack_sem' = 0
      BY <1>2, <1>7, <1>12, <1>20, <1>21 DEF OnePlace
    <3>3. HasData(air') \/ HasData(cbq') <=> HasData(air) \/ HasData(cbq)
      BY <1>7, <1>12
    <3>4. ASSUME NEW u \in Tasks, Sending(u)
          PROVE  /\ \A i \in 1 .. Len(air') :
                       air'[i].use = "data" => air'[i].id = snd'[u].id /\ air'[i].pk = snd'[u].pk
                 /\ \A i \in 1 .. Len(cbq') : cbq'[i].use = "data" => cbq'[i].id = snd'[u].id
      <4>1. /\ \A i \in 1 .. Len(air) : air[i].use = "data" => air[i].id = snd[u].id /\ air[i].pk = snd[u].pk
            /\ \A i \in 1 .. Len(cbq) : cbq[i].use = "data" => cbq[i].id = snd[u].id
        BY <1>21, <3>4, Zenon DEF OnePlace
      <4>2. h.use = "data" => h.id = snd[u].id
        BY <1>20, <1>21, <3>4
      <4> QED
        <5>1. snd' = snd
          BY <1>2
        <5>2. ASSUME NEW i \in 1 .. Len(air'), air'[i].use = "data"
              PROVE  air'[i].id = snd[u].id /\ air'[i].pk = snd[u].pk
          <6>1. PICK j \in 1 .. Len(air) : air'[i] = air[j]
            BY <1>6
          <6> QED
            BY <4>1, <5>2, <6>1
        <5>3. ASSUME NEW i \in 1 .. Len(cbq'), cbq'[i].use = "data" PROVE cbq'[i].id = snd[u].id
          <6>1. CASE cbq'[i] = e
            BY <1>9, <4>2, <5>3, <6>1
          <6>2. CASE \E j \in 1 .. Len(cbq) : cbq'[i] = cbq[j]
            BY <4>1, <5>3, <6>2
          <6> QED
            BY <1>11, <6>1, <6>2
        <5> QED
          BY <5>1, <5>2, <5>3
    <3>5. (\E t \in Tasks : Handed(t)') <=> (\E t \in Tasks : Handed(t))
      BY <1>17
    <3>6. ack_sem' = ack_sem
      BY <1>2
    <3>7. \A t, u \in Tasks : Sending(t)' /\ Sending(u)' => t = u
      BY <1>17, <1>21, Zenon DEF OnePlace
    <3>8. \A t \in Tasks : Handed(t)' => HasData(air') \/ HasData(cbq') \/ ack_sem' = 1
      BY <1>17, <1>21, <3>3, <3>6, Zenon DEF OnePlace
    <3>9. HasData(air') \/ HasData(cbq') \/ ack_sem' = 1 => \E t \in Tasks : Handed(t)'
      BY <1>21, <3>3, <3>5, <3>6, Zenon DEF OnePlace
    <3> QED
      BY <1>17, <3>1, <3>2, <3>4, <3>7, <3>8, <3>9, Zenon DEF OnePlace
  <2>2. ASSUME NEW u \in Tasks
        PROVE  /\ snd'[u].pc = "wait" /\ send_ok' => aired'[snd'[u].id][snd'[u].pk] > 0
               /\ Sending(u)' => \A i \in 1 .. Len(cbq') :
                     cbq'[i].use = "data" /\ cbq'[i].ok => aired'[snd'[u].id][snd'[u].pk] > 0
               /\ Calling(u)' => \A k \in 1 .. snd'[u].pk - 1 : aired'[snd'[u].id][k] > 0
               /\ ~Calling(u)' /\ snd'[u].ret = "ESP_OK" =>
                     \A k \in 1 .. snd'[u].total : aired'[snd'[u].id][k] > 0
    <3>0. snd'[u] = snd[u] /\ send_ok' = send_ok
      BY <1>2
    <3>1. ASSUME snd[u].pc = "wait", send_ok PROVE aired'[snd[u].id][snd[u].pk] > 0
      <4>1. aired[snd[u].id][snd[u].pk] > 0
        BY <1>21, <3>1, Zenon DEF Earned
      <4> QED
        BY <1>18, <1>19, <3>1, <4>1 DEF Calling
    <3>2. ASSUME Sending(u), NEW i \in 1 .. Len(cbq'), cbq'[i].use = "data", cbq'[i].ok
          PROVE  aired'[snd[u].id][snd[u].pk] > 0
      <4>1. Calling(u)
        BY <3>2 DEF Calling, Sending
      <4>2. CASE cbq'[i] = e
        <5>1. h.use = "data" /\ came
          BY <1>1, <1>9, <3>2, <4>2
        <5>2. h.id = snd[u].id /\ h.pk = snd[u].pk
          BY <1>20, <1>21, <3>2, <5>1
        <5> QED
          BY <1>14, <5>1, <5>2
      <4>3. CASE \E j \in 1 .. Len(cbq) : cbq'[i] = cbq[j]
        <5>1. aired[snd[u].id][snd[u].pk] > 0
          BY <1>21, <3>2, <4>3, Zenon DEF Earned
        <5> QED
          BY <1>18, <1>19, <4>1, <5>1
      <4> QED
        BY <1>11, <4>2, <4>3
    <3>3. ASSUME Calling(u), NEW k \in 1 .. snd[u].pk - 1 PROVE aired'[snd[u].id][k] > 0
      <4>1. aired[snd[u].id][k] > 0
        BY <1>21, <3>3, Zenon DEF Earned
      <4>2. k \in 1 .. MaxPackets
        BY <1>18, <3>3
      <4> QED
        BY <1>18, <1>19, <3>3, <4>1, <4>2
    <3>4. ASSUME ~Calling(u), snd[u].ret = "ESP_OK", NEW k \in 1 .. snd[u].total
          PROVE  aired'[snd[u].id][k] > 0
      <4>1. aired[snd[u].id][k] > 0
        BY <1>21, <3>4, Zenon DEF Earned
      <4>2. snd[u].id # 0
        BY <1>3, <3>4, Zenon DEF IdsDiffer
      <4>3. snd[u] \in SndRecords
        BY <1>3 DEF EspTypes
      <4>4. k \in 1 .. MaxPackets /\ snd[u].id \in Calls
        BY <3>4, <4>2, <4>3 DEF SndRecords, Calls
      <4> QED
        BY <1>19, <4>1, <4>4
    <3> QED
      BY <1>17, <3>0, <3>1, <3>2, <3>3, <3>4
  <2> QED
    BY <2>1, <2>2, Zenon DEF Earned
<1>22. ASSUME odd' = {}, OnePlace, ArrivedOnce PROVE ArrivedOnce'
  <2>0. came = ok
    BY <1>1, <1>4, <1>22
  \* Where the packet goes that the peer gets: it was not there.
  <2>1. ASSUME h.use = "data"
        PROVE  \E u \in Tasks : /\ Handed(u) /\ Sending(u) /\ Calling(u) /\ h.id = snd[u].id /\ h.pk = snd[u].pk
                                /\ aired[h.id][h.pk] = 0
                                /\ \A v \in Tasks : v # u => ~Sending(v) /\ ~Handed(v)
    <3>1. PICK u \in Tasks : Handed(u)
      BY <1>20, <1>22, <2>1
    <3>2. Sending(u) /\ Calling(u)
      BY <3>1 DEF Handed, Sending, Calling
    <3>3. h.id = snd[u].id /\ h.pk = snd[u].pk
      BY <1>20, <1>22, <2>1, <3>2
    <3>4. HasData(air)
      BY <1>7, <2>1
    <3>5. aired[snd[u].id][snd[u].pk] = 0
      BY <1>22, <3>1, <3>2, <3>4, Zenon DEF ArrivedOnce
    <3>6. \A v \in Tasks : v # u => ~Sending(v)
      BY <1>22, <3>2, Zenon DEF OnePlace
    <3>7. \A v \in Tasks : v # u => ~Handed(v)
      BY <3>6 DEF Handed, Sending
    <3> QED
      BY <3>1, <3>2, <3>3, <3>5, <3>6, <3>7
  <2>2. ASSUME NEW c \in Calls, NEW k \in 1 .. MaxPackets
        PROVE  aired'[c][k] <= 1 /\ (c > ops' => aired'[c][k] = 0)
    <3>1. aired[c][k] <= 1 /\ (c > ops => aired[c][k] = 0)
      BY <1>22, Zenon DEF ArrivedOnce
    <3>2. CASE h.use = "data" /\ came /\ c = h.id /\ k = h.pk
      <4>1. aired[h.id][h.pk] = 0
        BY <2>1, <3>2
      <4>2. aired'[c][k] = 1
        BY <1>14, <3>2, <4>1
      <4>3. ~(c > ops)
        <5>1. c <= ops
          BY <1>3, <1>8, <3>2, Zenon DEF IdsDiffer
        <5>2. ops \in Nat /\ c \in Nat
          BY <1>3 DEF EspTypes, Calls
        <5> QED
          BY <5>1, <5>2
      <4> QED
        BY <1>2, <4>2, <4>3
    <3>3. CASE ~(h.use = "data" /\ came /\ c = h.id /\ k = h.pk)
      BY <1>2, <1>14, <3>1, <3>3
    <3> QED
      BY <3>2, <3>3
  <2>3. ASSUME NEW u \in Tasks, Calling(u)
        PROVE  /\ \A k \in 1 .. MaxPackets :
                     k > snd[u].pk \/ (k = snd[u].pk /\ ~Handed(u)) => aired'[snd[u].id][k] = 0
               /\ HasData(air') /\ Handed(u) => aired'[snd[u].id][snd[u].pk] = 0
               /\ Handed(u) => \A i \in 1 .. Len(cbq') :
                     cbq'[i].use = "data" /\ ~cbq'[i].ok => aired'[snd[u].id][snd[u].pk] = 0
               /\ snd[u].pc = "wait" /\ ack_sem = 1 /\ ~send_ok => aired'[snd[u].id][snd[u].pk] = 0
    <3>1. /\ \A k \in 1 .. MaxPackets :
                k > snd[u].pk \/ (k = snd[u].pk /\ ~Handed(u)) => aired[snd[u].id][k] = 0
          /\ HasData(air) /\ Handed(u) => aired[snd[u].id][snd[u].pk] = 0
          /\ Handed(u) => \A i \in 1 .. Len(cbq) :
                cbq[i].use = "data" /\ ~cbq[i].ok => aired[snd[u].id][snd[u].pk] = 0
          /\ snd[u].pc = "wait" /\ ack_sem = 1 /\ ~send_ok => aired[snd[u].id][snd[u].pk] = 0
      BY <1>22, <2>3, Zenon DEF ArrivedOnce
    <3>2. snd[u].id \in Calls /\ snd[u].pk \in 1 .. MaxPackets
      BY <1>18, <2>3
    <3>3. CASE ~(h.use = "data" /\ came)
      <4>1. \A d \in Calls : \A j \in 1 .. MaxPackets : aired'[d][j] = aired[d][j]
        BY <1>14, <3>3
      <4>2. \A k \in 1 .. MaxPackets :
               k > snd[u].pk \/ (k = snd[u].pk /\ ~Handed(u)) => aired'[snd[u].id][k] = 0
        BY <3>1, <3>2, <4>1
      <4>3. aired'[snd[u].id][snd[u].pk] = aired[snd[u].id][snd[u].pk]
        BY <3>2, <4>1
      <4>4. HasData(air') => HasData(air)
        BY <1>7
      <4>5. ASSUME Handed(u), NEW i \in 1 .. Len(cbq'), cbq'[i].use = "data", ~cbq'[i].ok
            PROVE  aired[snd[u].id][snd[u].pk] = 0
        <5>1. CASE cbq'[i] = e
          BY <1>7, <1>9, <3>1, <4>5, <5>1
        <5>2. CASE \E j \in 1 .. Len(cbq) : cbq'[i] = cbq[j]
          BY <3>1, <4>5, <5>2
        <5> QED
          BY <1>11, <5>1, <5>2
      <4> QED
        BY <3>1, <4>2, <4>3, <4>4, <4>5
    <3>4. CASE h.use = "data" /\ came
      <4>1. PICK w \in Tasks : /\ Handed(w) /\ Sending(w) /\ Calling(w) /\ h.id = snd[w].id /\ h.pk = snd[w].pk
                               /\ aired[h.id][h.pk] = 0
                               /\ \A v \in Tasks : v # w => ~Sending(v) /\ ~Handed(v)
        BY <2>1, <3>4
      <4>2. CASE u = w
        <5>1. ~HasData(air')
          BY <1>7, <1>22, <3>4 DEF OnePlace
        <5>2. ack_sem = 0
          BY <1>20, <1>22, <3>4
        <5>3. \A k \in 1 .. MaxPackets : k > snd[u].pk => aired'[snd[u].id][k] = 0
          <6>1. \A k \in 1 .. MaxPackets : k > snd[u].pk => k # h.pk
            BY <3>2, <4>1, <4>2
          <6> QED
            BY <1>14, <3>1, <3>2, <6>1
        <5>4. \A i \in 1 .. Len(cbq) : cbq[i].use # "data"
          BY <1>20, <1>22, <3>4, NoDataMeans, Zenon
        <5>5. \A i \in 1 .. Len(cbq') : cbq'[i].use = "data" => cbq'[i].ok
          BY <1>9, <1>11, <2>0, <3>4, <5>4
        <5> QED
          BY <4>1, <4>2, <5>1, <5>2, <5>3, <5>5
      <4>3. CASE u # w
        <5>1. snd[u].id # h.id
          BY <1>3, <2>3, <4>1, <4>3, Zenon DEF IdsDiffer
        <5>2. \A k \in 1 .. MaxPackets : aired'[snd[u].id][k] = aired[snd[u].id][k]
          BY <1>14, <3>2, <5>1
        <5>3. ~Handed(u) /\ snd[u].pc # "wait"
          BY <4>1, <4>3 DEF Handed
        <5> QED
          BY <3>1, <5>2, <5>3
      <4> QED
        BY <4>2, <4>3
    <3> QED
      BY <3>3, <3>4
  <2>4. snd' = snd /\ ack_sem' = ack_sem /\ send_ok' = send_ok
    BY <1>2
  <2> QED
    BY <1>17, <2>2, <2>3, <2>4 DEF ArrivedOnce
<1> QED
  BY <1>4, <1>15, <1>16, <1>21, <1>22, EspParts, Zenon

\* send_task handles the oldest report: as the use in progress wants it, or it
\* is the mishap "crossed".
LEMMA SendTaskStep ==
  ASSUME EspInv, SendTask
  PROVE  EspInv'
<1> USE EspAssumption
<1> DEFINE S == IF ping_active # (Head(cbq).use = "ping") THEN {"crossed"} ELSE {}
           h == Head(cbq)
<1>1. /\ cbq # <<>> /\ cbq' = Tail(cbq) /\ Odd(S)
      /\ send_active' = send_active /\ ping_active' = ping_active
      /\ ping_ok' = ping_ok /\ ping_sem' = ping_sem
      /\ snd' = snd /\ png' = png /\ air' = air /\ aired' = aired /\ ops' = ops
      /\ ping_active => pingack_sem' = 1 /\ send_ok' = send_ok /\ ack_sem' = ack_sem
      /\ ~ping_active => ack_sem' = 1 /\ send_ok' = h.ok /\ pingack_sem' = pingack_sem
  BY DEF SendTask, flags, SendTask_Status
<1>3. EspTypes /\ IdsDiffer
  BY Zenon DEF EspInv
<1>4. /\ odd' \subseteq {"early", "late", "crossed", "overlap", "unacked"}
      /\ odd \subseteq odd' /\ S \subseteq odd'
  <2>1. S \subseteq {"early", "late", "crossed", "overlap", "unacked"}
    OBVIOUS
  <2> HIDE DEF S
  <2> QED
    BY <1>1, <1>3, <2>1, OddGrows, Zenon
<1>5. cbq \in Seq(RepRecords) /\ ping_active \in BOOLEAN
  BY <1>3, Zenon DEF EspTypes
<1>6. /\ h \in RepRecords /\ cbq' \in Seq(RepRecords) /\ \E j \in 1 .. Len(cbq) : h = cbq[j]
      /\ \A i \in 1 .. Len(cbq') : \E j \in 1 .. Len(cbq) : cbq'[i] = cbq[j]
  BY <1>1, <1>5, TailEntries
<1>7. /\ HasData(cbq) <=> (h.use = "data" \/ HasData(cbq'))
      /\ AtMostOneData(cbq) => /\ AtMostOneData(cbq')
                               /\ h.use = "data" => ~HasData(cbq')
  BY <1>1, <1>5, DataTail
<1>8. PICK j0 \in 1 .. Len(cbq) : h = cbq[j0]
  BY <1>6
<1>9. "crossed" \notin odd' => (ping_active <=> h.use # "data")
  <2>1. "crossed" \notin odd' => ping_active = (h.use = "ping")
    BY <1>4
  <2>2. h.use \in {"data", "ping"}
    <3> HIDE DEF h
    <3> QED
      BY <1>6 DEF RepRecords
  <2> QED
    BY <1>5, <2>1, <2>2
<1> HIDE DEF h
<1>10. EspTypes'
  <2>1. ack_sem' \in {0, 1} /\ pingack_sem' \in {0, 1}
    BY <1>1, <1>3 DEF EspTypes
  <2>2. send_ok' \in BOOLEAN
    <3>1. h.ok \in BOOLEAN
      BY <1>6 DEF RepRecords
    <3>2. send_ok \in BOOLEAN
      BY <1>3, Zenon DEF EspTypes
    <3> QED
      BY <1>1, <3>1, <3>2
  <2> QED
    BY <1>1, <1>3, <1>4, <1>6, <2>1, <2>2, Zenon DEF EspTypes
<1>11. IdsDiffer'
  <2>1. ops' = ops /\ ops \in Nat
    BY <1>1, <1>3 DEF EspTypes
  <2>3. \A u \in Tasks : Calling(u)' => /\ Calling(u) /\ snd'[u].id = snd[u].id
                                        /\ snd'[u].total = snd[u].total
                                        /\ snd'[u].pk \in 1 .. snd[u].total
    BY <1>1, <1>3 DEF Calling, IdsDiffer
  <2>4. \A u \in Tasks : snd'[u].ret = "ESP_OK" => snd'[u].id # 0
    BY <1>1, <1>3 DEF IdsDiffer
  <2>5. /\ \A p \in PingTasks : png'[p].pc = "send" => png[p].pc = "send" /\ png'[p].id = png[p].id
        /\ \A i \in 1 .. Len(air') : \E j \in 1 .. Len(air) : air'[i] = air[j]
    BY <1>1
  <2> QED
    BY <1>3, <1>6, <2>1, <2>3, <2>4, <2>5, IdsStay, Zenon
<1>12. \A u \in Tasks : /\ (Handed(u)' <=> Handed(u)) /\ (Sending(u)' <=> Sending(u))
                        /\ (Calling(u)' <=> Calling(u))
  BY <1>1 DEF Handed, Sending, Calling
<1>13. ASSUME odd' \subseteq {"early", "unacked"}, OnePlace
       PROVE  \/ /\ ping_active /\ h.use # "data" /\ send_ok' = send_ok /\ ack_sem' = ack_sem
                 /\ HasData(cbq') <=> HasData(cbq)
              \/ /\ h.use = "data" /\ send_ok' = h.ok /\ ack_sem' = 1
                 /\ ~HasData(cbq') /\ ~HasData(air) /\ \E u \in Tasks : Handed(u)
  <2>1. ping_active <=> h.use # "data"
    BY <1>9, <1>13
  <2>2. CASE ping_active
    BY <1>1, <1>7, <2>1, <2>2
  <2>3. CASE ~ping_active
    <3>1. h.use = "data" /\ HasData(cbq) /\ AtMostOneData(cbq)
      BY <1>7, <1>13, <2>1, <2>3 DEF OnePlace
    <3>2. ~HasData(air) /\ \E u \in Tasks : Handed(u)
      BY <1>13, <3>1, Zenon DEF OnePlace
    <3> QED
      BY <1>1, <1>7, <2>3, <3>1, <3>2
  <2> QED
    BY <2>2, <2>3
<1>14. ASSUME odd' \subseteq {"early", "unacked"}, OnePlace, Earned PROVE OnePlace' /\ Earned'
  <2>1. \/ /\ ping_active /\ h.use # "data" /\ send_ok' = send_ok /\ ack_sem' = ack_sem
           /\ HasData(cbq') <=> HasData(cbq)
        \/ /\ h.use = "data" /\ send_ok' = h.ok /\ ack_sem' = 1
           /\ ~HasData(cbq') /\ ~HasData(air) /\ \E u \in Tasks : Handed(u)
    BY <1>13, <1>14, Zenon
  <2>2. OnePlace'
    <3>1. AtMostOneData(air') /\ AtMostOneData(cbq')
      BY <1>1, <1>7, <1>14 DEF OnePlace
    <3>2. /\ HasData(air') => ~HasData(cbq') /\ ack_sem' = 0
          /\ HasData(cbq') => ack_sem' = 0
      BY <1>1, <1>14, <2>1 DEF OnePlace
    <3>3. \A t, u \in Tasks : Sending(t)' /\ Sending(u)' => t = u
      BY <1>12, <1>14, Zenon DEF OnePlace
    <3>4. (HasData(air') \/ HasData(cbq') \/ ack_sem' = 1) => \E t \in Tasks : Handed(t)'
      BY <1>1, <1>12, <1>14, <2>1 DEF OnePlace
    <3>5. \A t \in Tasks : Handed(t)' => HasData(air') \/ HasData(cbq') \/ ack_sem' = 1
      BY <1>1, <1>12, <1>14, <2>1 DEF OnePlace
    <3>6. ASSUME NEW t \in Tasks, Sending(t)'
          PROVE  /\ \A i \in 1 .. Len(air') :
                       air'[i].use = "data" => air'[i].id = snd'[t].id /\ air'[i].pk = snd'[t].pk
                 /\ \A i \in 1 .. Len(cbq') : cbq'[i].use = "data" => cbq'[i].id = snd'[t].id
      <4>1. /\ \A i \in 1 .. Len(air) : air[i].use = "data" => air[i].id = snd[t].id /\ air[i].pk = snd[t].pk
            /\ \A i \in 1 .. Len(cbq) : cbq[i].use = "data" => cbq[i].id = snd[t].id
        BY <1>12, <1>14, <3>6, Zenon DEF OnePlace
      <4> QED
        BY <1>1, <1>6, <4>1
    <3> QED
      BY <3>1, <3>2, <3>3, <3>4, <3>5, <3>6, Zenon DEF OnePlace
  <2>3. ASSUME NEW u \in Tasks
        PROVE  /\ snd'[u].pc = "wait" /\ send_ok' => aired'[snd'[u].id][snd'[u].pk] > 0
               /\ Sending(u)' => \A i \in 1 .. Len(cbq') :
                     cbq'[i].use = "data" /\ cbq'[i].ok => aired'[snd'[u].id][snd'[u].pk] > 0
               /\ Calling(u)' => \A k \in 1 .. snd'[u].pk - 1 : aired'[snd'[u].id][k] > 0
               /\ ~Calling(u)' /\ snd'[u].ret = "ESP_OK" =>
                     \A k \in 1 .. snd'[u].total : aired'[snd'[u].id][k] > 0
    <3>1. /\ snd[u].pc = "wait" /\ send_ok => aired[snd[u].id][snd[u].pk] > 0
          /\ Sending(u) => \A i \in 1 .. Len(cbq) :
                cbq[i].use = "data" /\ cbq[i].ok => aired[snd[u].id][snd[u].pk] > 0
          /\ Calling(u) => \A k \in 1 .. snd[u].pk - 1 : aired[snd[u].id][k] > 0
          /\ ~Calling(u) /\ snd[u].ret = "ESP_OK" =>
                \A k \in 1 .. snd[u].total : aired[snd[u].id][k] > 0
      BY <1>14, Zenon DEF Earned
    <3>2. snd' = snd /\ aired' = aired
      BY <1>1
    <3>3. ASSUME snd[u].pc = "wait", send_ok' PROVE aired[snd[u].id][snd[u].pk] > 0
      <4>1. CASE send_ok
        BY <3>1, <3>3, <4>1
      <4>2. CASE h.use = "data" /\ h.ok
        <5>1. Sending(u)
          BY <3>3 DEF Sending
        <5> QED
          BY <1>8, <3>1, <4>2, <5>1
      <4> QED
        BY <2>1, <3>3, <4>1, <4>2
    <3>4. ASSUME Sending(u), NEW i \in 1 .. Len(cbq'), cbq'[i].use = "data", cbq'[i].ok
          PROVE  aired[snd[u].id][snd[u].pk] > 0
      BY <1>6, <3>1, <3>4
    <3> QED
      BY <1>12, <3>1, <3>2, <3>3, <3>4
  <2> QED
    BY <2>2, <2>3, Zenon DEF Earned
<1>15. ASSUME odd' = {}, OnePlace, ArrivedOnce PROVE ArrivedOnce'
  <2>1. \/ /\ send_ok' = send_ok /\ ack_sem' = ack_sem
        \/ h.use = "data" /\ send_ok' = h.ok
    <3>1. odd' \subseteq {"early", "unacked"}
      BY <1>15
    <3> QED
      BY <1>13, <1>15, <3>1, Zenon
  <2>2. \A c \in Calls : \A k \in 1 .. MaxPackets :
           aired'[c][k] <= 1 /\ (c > ops' => aired'[c][k] = 0)
    BY <1>1, <1>15, Zenon DEF ArrivedOnce
  <2>3. ASSUME NEW u \in Tasks, Calling(u)
        PROVE  /\ \A k \in 1 .. MaxPackets :
                     k > snd[u].pk \/ (k = snd[u].pk /\ ~Handed(u)) => aired[snd[u].id][k] = 0
               /\ HasData(air) /\ Handed(u) => aired[snd[u].id][snd[u].pk] = 0
               /\ Handed(u) => \A i \in 1 .. Len(cbq') :
                     cbq'[i].use = "data" /\ ~cbq'[i].ok => aired[snd[u].id][snd[u].pk] = 0
               /\ snd[u].pc = "wait" /\ ack_sem' = 1 /\ ~send_ok' => aired[snd[u].id][snd[u].pk] = 0
    <3>1. /\ \A k \in 1 .. MaxPackets :
                k > snd[u].pk \/ (k = snd[u].pk /\ ~Handed(u)) => aired[snd[u].id][k] = 0
          /\ HasData(air) /\ Handed(u) => aired[snd[u].id][snd[u].pk] = 0
          /\ Handed(u) => \A i \in 1 .. Len(cbq) :
                cbq[i].use = "data" /\ ~cbq[i].ok => aired[snd[u].id][snd[u].pk] = 0
          /\ snd[u].pc = "wait" /\ ack_sem = 1 /\ ~send_ok => aired[snd[u].id][snd[u].pk] = 0
      BY <1>15, <2>3, Zenon DEF ArrivedOnce
    <3>2. snd[u].pc = "wait" => Handed(u)
      BY DEF Handed
    <3>3. ASSUME snd[u].pc = "wait", ack_sem' = 1, ~send_ok' PROVE aired[snd[u].id][snd[u].pk] = 0
      BY <1>8, <2>1, <3>1, <3>2, <3>3
    <3>4. ASSUME Handed(u), NEW i \in 1 .. Len(cbq'), cbq'[i].use = "data", ~cbq'[i].ok
          PROVE  aired[snd[u].id][snd[u].pk] = 0
      BY <1>6, <3>1, <3>4
    <3> QED
      BY <3>1, <3>3, <3>4
  <2>4. snd' = snd /\ aired' = aired /\ air' = air
    BY <1>1
  <2> QED
    BY <1>12, <2>2, <2>3, <2>4 DEF ArrivedOnce
<1> QED
  BY <1>4, <1>10, <1>11, <1>14, <1>15, EspParts, Zenon

-----------------------------------------------------------------------------
\* A step of a ping that hands nothing to the radio leaves the calls alone.
LEMMA PingFrame ==
  ASSUME EspInv, EspTypes', IdsDiffer', odd \subseteq odd', ops' >= ops,
         snd' = snd /\ air' = air /\ cbq' = cbq /\ aired' = aired /\ ack_sem' = ack_sem /\ send_ok' = send_ok
  PROVE  EspInv'
<1>1. \A u \in Tasks : /\ (Handed(u)' <=> Handed(u)) /\ (Sending(u)' <=> Sending(u))
                       /\ (Calling(u)' <=> Calling(u))
  BY DEF Handed, Sending, Calling
<1>2. ASSUME OnePlace PROVE OnePlace'
  BY <1>1, <1>2 DEF OnePlace
<1>3. ASSUME Earned PROVE Earned'
  BY <1>1, <1>3 DEF Earned
<1>4. ASSUME ArrivedOnce PROVE ArrivedOnce'
  <2>1. \A c \in Calls : c > ops' => c > ops
    <3>1. EspTypes /\ EspTypes'
      BY Zenon DEF EspInv
    <3> QED
      BY <3>1 DEF EspTypes, Calls
  <2> QED
    BY <1>1, <1>4, <2>1 DEF ArrivedOnce
<1> QED
  BY <1>2, <1>3, <1>4, EspParts, Zenon

\* Every other step keeps the ids apart.
LEMMA PingIds ==
  ASSUME EspTypes, IdsDiffer, ops' = ops \/ ops' = ops + 1,
         snd' = snd /\ air' = air /\ cbq' = cbq,
         \A p \in PingTasks : png'[p].pc = "send" =>
            \/ png[p].pc = "send" /\ png'[p].id = png[p].id
            \/ ops' = ops + 1 /\ png'[p].id = ops + 1
  PROVE  IdsDiffer' /\ ops' >= ops
<1>1. ops \in Nat /\ ops' \in Nat /\ ops' >= ops
  BY DEF EspTypes
<1>2. \A u \in Tasks : (Calling(u)' <=> Calling(u)) /\ snd'[u] = snd[u]
  BY DEF Calling
<1>3. \A u \in Tasks : Calling(u) => snd[u].id \in 1 .. ops' /\ snd[u].id # ops + 1
  BY <1>1 DEF IdsDiffer
<1>4. \A u \in Tasks : Calling(u)' => /\ snd'[u].id \in 1 .. ops' /\ snd'[u].total >= 1
                                      /\ snd'[u].pk \in 1 .. snd'[u].total
  BY <1>2, <1>3 DEF IdsDiffer
<1>5. /\ \A u \in Tasks : snd'[u].ret = "ESP_OK" => snd'[u].id # 0
      /\ \A t, u \in Tasks : Calling(t)' /\ Calling(u)' /\ snd'[t].id = snd'[u].id => t = u
  BY <1>2 DEF IdsDiffer
<1>6. ASSUME NEW p \in PingTasks, png'[p].pc = "send"
      PROVE  png'[p].id \in 1 .. ops' /\ \A t \in Tasks : Calling(t)' => png'[p].id # snd'[t].id
  <2>1. CASE png[p].pc = "send" /\ png'[p].id = png[p].id
    <3>1. png[p].id \in 1 .. ops /\ \A t \in Tasks : Calling(t) => png[p].id # snd[t].id
      BY <2>1, Zenon DEF IdsDiffer
    <3> QED
      BY <1>1, <1>2, <2>1, <3>1
  <2>2. CASE ops' = ops + 1 /\ png'[p].id = ops + 1
    BY <1>1, <1>2, <1>3, <2>2
  <2> QED
    BY <1>6, <2>1, <2>2
<1>7. ASSUME NEW i \in 1 .. Len(air')
      PROVE  /\ air'[i].id <= ops'
             /\ air'[i].use = "data" => air'[i].pk # 0
             /\ air'[i].use = "ping" => \A t \in Tasks : Calling(t)' => air'[i].id # snd'[t].id
  <2>1. i \in 1 .. Len(air) /\ air' = air
    OBVIOUS
  <2>2. air[i] \in AirRecords
    BY <2>1 DEF EspTypes
  <2>3. air[i].id \in Nat
    BY <2>2 DEF AirRecords, Calls
  <2> QED
    BY <1>1, <1>2, <2>1, <2>3 DEF IdsDiffer
<1>8. ASSUME NEW i \in 1 .. Len(cbq')
      PROVE  /\ cbq'[i].id <= ops'
             /\ cbq'[i].use = "ping" => \A t \in Tasks : Calling(t)' => cbq'[i].id # snd'[t].id
  <2>1. i \in 1 .. Len(cbq) /\ cbq' = cbq
    OBVIOUS
  <2>2. cbq[i] \in RepRecords
    BY <2>1 DEF EspTypes
  <2>3. cbq[i].id \in Nat
    BY <2>2 DEF RepRecords, Calls
  <2> QED
    BY <1>1, <1>2, <2>1, <2>3 DEF IdsDiffer
<1> QED
  BY <1>1, <1>4, <1>5, <1>6, <1>7, <1>8, Zenon DEF IdsDiffer

\* The step of one ping to pc with a result.
LEMMA PngMoves ==
  ASSUME EspTypes, NEW t \in PingTasks, NEW p \in PngRecords, png' = [png EXCEPT ![t] = p]
  PROVE  /\ png' \in [PingTasks -> PngRecords] /\ png'[t] = p
         /\ \A q \in PingTasks : q # t => png'[q] = png[q]
BY DEF EspTypes

\* Entering ping keeps the invariant of sending.
LEMMA PingEnterStep ==
  ASSUME EspInv, NEW t \in PingTasks, PingEnter(t)
  PROVE  EspInv'
<1> USE EspAssumption
<1>1. /\ ops < MaxEspOps /\ ops' = ops + 1
      /\ send_active' = send_active /\ ping_active' = ping_active /\ send_ok' = send_ok
      /\ ping_ok' = ping_ok /\ ack_sem' = ack_sem /\ pingack_sem' = pingack_sem /\ ping_sem' = ping_sem
      /\ snd' = snd /\ air' = air /\ cbq' = cbq /\ aired' = aired /\ odd' = odd
  BY DEF PingEnter, flags, sems
<1>2. EspTypes /\ IdsDiffer
  BY Zenon DEF EspInv
<1>3. ops' \in 0 .. MaxEspOps /\ ops \in Nat
  BY <1>1, <1>2 DEF EspTypes
<1>4. \E p \in PngRecords : /\ png' = [png EXCEPT ![t] = p]
                            /\ p.pc = "send" => p.id = ops + 1
  <2>1. IdlePing \in PngRecords /\ IdlePing.pc = "idle"
    BY DEF IdlePing, PngRecords
  <2>2. CASE png' = [png EXCEPT ![t] = [IdlePing EXCEPT !.ret = "true"]]
    <3>1. [IdlePing EXCEPT !.ret = "true"] \in PngRecords /\ [IdlePing EXCEPT !.ret = "true"].pc = "idle"
      BY <2>1 DEF PngRecords
    <3> QED
      BY <2>2, <3>1
  <2>3. CASE png' = [png EXCEPT ![t] = [IdlePing EXCEPT !.ret = "false"]]
    <3>1. [IdlePing EXCEPT !.ret = "false"] \in PngRecords /\ [IdlePing EXCEPT !.ret = "false"].pc = "idle"
      BY <2>1 DEF PngRecords
    <3> QED
      BY <2>3, <3>1
  <2>4. CASE png' = [png EXCEPT ![t] = [pc |-> "send", id |-> ops + 1, ret |-> "true"]]
    <3>1. ops + 1 \in 0 .. MaxEspOps
      BY <1>1, <1>3
    <3>2. [pc |-> "send", id |-> ops + 1, ret |-> "true"] \in PngRecords
      BY <3>1 DEF PngRecords
    <3> QED
      BY <2>4, <3>2
  <2> QED
    BY <2>2, <2>3, <2>4 DEF PingEnter
<1>5. PICK p \in PngRecords : png' = [png EXCEPT ![t] = p] /\ (p.pc = "send" => p.id = ops + 1)
  BY <1>4
<1>6. /\ png' \in [PingTasks -> PngRecords] /\ png'[t] = p
      /\ \A q \in PingTasks : q # t => png'[q] = png[q]
  BY <1>2, <1>5, PngMoves, Zenon
<1>7. EspTypes'
  BY <1>1, <1>2, <1>3, <1>6, Zenon DEF EspTypes
<1>8. \A q \in PingTasks : png'[q].pc = "send" =>
            \/ png[q].pc = "send" /\ png'[q].id = png[q].id
            \/ ops' = ops + 1 /\ png'[q].id = ops + 1
  BY <1>1, <1>5, <1>6
<1>9. IdsDiffer' /\ ops' >= ops
  BY <1>1, <1>2, <1>8, PingIds, Zenon
<1> QED
  BY <1>1, <1>7, <1>9, PingFrame

\* The steps of a ping after its transmission, and the pong.
LEMMA PingLaterStep ==
  ASSUME EspInv,
         \/ \E t \in PingTasks : PingAckWait(t)
         \/ PingClearOk(Pinger) \/ PingWaitPong \/ PongArrives
  PROVE  EspInv'
<1> USE EspAssumption
<1>1. EspTypes /\ IdsDiffer
  BY Zenon DEF EspInv
<1>2. /\ send_active' = send_active /\ send_ok' = send_ok /\ ack_sem' = ack_sem /\ ops' = ops
      /\ snd' = snd /\ air' = air /\ cbq' = cbq /\ aired' = aired
  <2>1. ASSUME NEW t \in PingTasks, PingAckWait(t)
        PROVE  /\ send_active' = send_active /\ send_ok' = send_ok /\ ack_sem' = ack_sem /\ ops' = ops
               /\ snd' = snd /\ air' = air /\ cbq' = cbq /\ aired' = aired
    BY <2>1 DEF PingAckWait
  <2>2. CASE PingClearOk(Pinger)
    BY <2>2 DEF PingClearOk, flags, sems
  <2>3. CASE PingWaitPong
    BY <2>3 DEF PingWaitPong
  <2>4. CASE PongArrives
    BY <2>4 DEF PongArrives, flags
  <2> QED
    BY <2>1, <2>2, <2>3, <2>4, Zenon
<1>3. \E S \in SUBSET {"early", "late", "crossed", "overlap", "unacked"} : Odd(S) \/ odd' = odd
  <2>1. ASSUME NEW t \in PingTasks, PingAckWait(t)
        PROVE  Odd(IF Reported(png[t].id) THEN {} ELSE {"late"}) \/ odd' = odd
    BY <2>1 DEF PingAckWait
  <2>2. ASSUME PingClearOk(Pinger) \/ PingWaitPong \/ PongArrives PROVE odd' = odd
    BY <2>2 DEF PingClearOk, PingWaitPong, PongArrives
  <2>3. ASSUME NEW id
        PROVE  (IF Reported(id) THEN {} ELSE {"late"}) \in SUBSET {"early", "late", "crossed", "overlap", "unacked"}
    OBVIOUS
  <2> QED
    BY <2>1, <2>2, <2>3
<1>4. odd' \subseteq {"early", "late", "crossed", "overlap", "unacked"} /\ odd \subseteq odd'
  <2>1. PICK S \in SUBSET {"early", "late", "crossed", "overlap", "unacked"} : Odd(S) \/ odd' = odd
    BY <1>3
  <2> QED
    BY <1>1, <2>1, OddGrows
<1>5. /\ ping_active' \in BOOLEAN /\ ping_ok' \in BOOLEAN /\ pingack_sem' \in {0, 1} /\ ping_sem' \in {0, 1}
  <2>0. /\ ping_active \in BOOLEAN /\ ping_ok \in BOOLEAN /\ pingack_sem \in {0, 1} /\ ping_sem \in {0, 1}
    BY <1>1, Zenon DEF EspTypes
  <2>1. ping_active' = ping_active \/ ping_active' = FALSE
    BY DEF PingAckWait, PingDone, PingClearOk, PingWaitPong, PongArrives, flags
  <2>2. ping_ok' = ping_ok \/ ping_ok' = FALSE \/ ping_ok' = TRUE
    BY DEF PingAckWait, PingClearOk, PingWaitPong, PongArrives
  <2>3. pingack_sem' = pingack_sem \/ pingack_sem' = 0
    BY DEF PingAckWait, PingClearOk, PingWaitPong, PongArrives, sems
  <2>4. ping_sem' = ping_sem \/ ping_sem' = 0 \/ ping_sem' = 1
    BY DEF PingAckWait, PingClearOk, PingWaitPong, PongArrives, sems
  <2> QED
    BY <2>0, <2>1, <2>2, <2>3, <2>4
<1>6. png \in [PingTasks -> PngRecords] /\ Pinger \in PingTasks
  BY <1>1 DEF EspTypes, PingTasks
<1>7. /\ png' \in [PingTasks -> PngRecords]
      /\ \A q \in PingTasks : png'[q].pc = "send" => png[q].pc = "send" /\ png'[q].id = png[q].id
  <2>1. ASSUME NEW t \in PingTasks, NEW p \in PngRecords, p.pc # "send", png' = [png EXCEPT ![t] = p]
        PROVE  /\ png' \in [PingTasks -> PngRecords]
               /\ \A q \in PingTasks : png'[q].pc = "send" => png[q].pc = "send" /\ png'[q].id = png[q].id
    BY <1>6, <2>1
  <2>2. ASSUME NEW t \in PingTasks, NEW pc \in {"idle", "clear", "wait"}, NEW r \in {"none", "true", "false"}
        PROVE  [png[t] EXCEPT !.pc = pc, !.ret = r] \in PngRecords
               /\ [png[t] EXCEPT !.pc = pc] \in PngRecords
    <3>1. png[t] \in PngRecords
      BY <1>6
    <3> QED
      BY <3>1 DEF PngRecords
  <2>3. ASSUME NEW t \in PingTasks PROVE png[t].ret \in {"none", "true", "false"}
    <3>1. png[t] \in PngRecords
      BY <1>6
    <3> QED
      BY <3>1 DEF PngRecords
  <2>4. ASSUME NEW t \in PingTasks, NEW r \in {"none", "true", "false"}, PingDone(t, r)
        PROVE  /\ png' \in [PingTasks -> PngRecords]
               /\ \A q \in PingTasks : png'[q].pc = "send" => png[q].pc = "send" /\ png'[q].id = png[q].id
    <3> DEFINE p == [png[t] EXCEPT !.pc = "idle", !.ret = r]
    <3>1. png[t] \in PngRecords
      BY <1>6
    <3>2. p \in PngRecords /\ p.pc = "idle"
      BY <3>1 DEF PngRecords
    <3>3. png' = [png EXCEPT ![t] = p]
      BY <2>4 DEF PingDone
    <3> HIDE DEF p
    <3> QED
      BY <2>1, <3>2, <3>3
  <2>5. ASSUME NEW t \in PingTasks, NEW pc \in {"clear", "wait"}, png' = [png EXCEPT ![t].pc = pc]
        PROVE  /\ png' \in [PingTasks -> PngRecords]
               /\ \A q \in PingTasks : png'[q].pc = "send" => png[q].pc = "send" /\ png'[q].id = png[q].id
    <3> DEFINE p == [png[t] EXCEPT !.pc = pc]
    <3>1. png[t] \in PngRecords
      BY <1>6
    <3>2. p \in PngRecords /\ p.pc = pc
      BY <3>1 DEF PngRecords
    <3>3. png' = [png EXCEPT ![t] = p]
      BY <2>5
    <3> HIDE DEF p
    <3> QED
      BY <2>1, <3>2, <3>3
  <2>6. ASSUME NEW t \in PingTasks, PingAckWait(t)
        PROVE  /\ png' \in [PingTasks -> PngRecords]
               /\ \A q \in PingTasks : png'[q].pc = "send" => png[q].pc = "send" /\ png'[q].id = png[q].id
    <3>1. PingDone(t, png[t].ret) \/ png' = [png EXCEPT ![t].pc = "clear"]
      BY <2>6 DEF PingAckWait
    <3> QED
      BY <2>3, <2>4, <2>5, <3>1
  <2>7. CASE PingClearOk(Pinger)
    BY <1>6, <2>5, <2>7 DEF PingClearOk
  <2>8. CASE PingWaitPong
    <3>1. PingDone(Pinger, IF ping_ok THEN png[Pinger].ret ELSE "false")
      BY <2>8 DEF PingWaitPong
    <3>2. (IF ping_ok THEN png[Pinger].ret ELSE "false") \in {"none", "true", "false"}
      BY <1>6, <2>3
    <3> QED
      BY <1>6, <2>4, <3>1, <3>2
  <2>9. CASE PongArrives
    BY <1>6, <2>9 DEF PongArrives
  <2> QED
    BY <2>6, <2>7, <2>8, <2>9
<1>8. EspTypes'
  BY <1>1, <1>2, <1>4, <1>5, <1>7, Zenon DEF EspTypes
<1>9. IdsDiffer' /\ ops' >= ops
  BY <1>1, <1>2, <1>7, PingIds, Zenon
<1> QED
  BY <1>2, <1>4, <1>8, <1>9, PingFrame

\* A ping or a pong goes to the radio, with the id of its own call.
LEMMA PingSendStep ==
  ASSUME EspInv, NEW t \in PingTasks, PingSend(t)
  PROVE  EspInv'
<1> USE EspAssumption
<1>1. /\ png[t].pc = "send" /\ ping_active' = TRUE
      /\ \/ /\ air' = Append(air, [use |-> "ping", id |-> png[t].id, pk |-> 0])
            /\ png' = [png EXCEPT ![t].pc = "ackwait"]
         \/ /\ air' = air
            /\ png' = [png EXCEPT ![t].pc = "ackwait", ![t].ret = "false"]
      /\ send_active' = send_active /\ send_ok' = send_ok
      /\ ping_ok' = ping_ok /\ ack_sem' = ack_sem /\ pingack_sem' = pingack_sem /\ ping_sem' = ping_sem
      /\ snd' = snd /\ cbq' = cbq /\ aired' = aired /\ ops' = ops /\ odd' = odd
  BY DEF PingSend, sems
<1>2. EspTypes /\ IdsDiffer
  BY Zenon DEF EspInv
<1>3. air \in Seq(AirRecords) /\ png \in [PingTasks -> PngRecords] /\ ops \in 0 .. MaxEspOps
  BY <1>2, Zenon DEF EspTypes
<1>4. png[t].id \in 1 .. ops /\ png[t].id \in Calls
  <2>1. png[t].id \in 1 .. ops
    BY <1>1, <1>2, Zenon DEF IdsDiffer
  <2> QED
    BY <1>3, <2>1 DEF Calls
<1> DEFINE e == [use |-> "ping", id |-> png[t].id, pk |-> 0]
<1>5. e \in AirRecords /\ e.use = "ping" /\ e.id = png[t].id
  BY <1>4 DEF AirRecords
<1>6. /\ Append(air, e) \in Seq(AirRecords)
      /\ \A i \in 1 .. Len(Append(air, e)) :
            Append(air, e)[i] = e \/ \E j \in 1 .. Len(air) : Append(air, e)[i] = air[j]
  <2> HIDE DEF e
  <2>1. e \in AirRecords /\ air \in Seq(AirRecords)
    BY <1>3, <1>5
  <2> QED
    BY <2>1, AppendEntries, SMT
<1>7. /\ HasData(Append(air, e)) <=> HasData(air)
      /\ AtMostOneData(air) => AtMostOneData(Append(air, e))
  <2> HIDE DEF e
  <2>1. /\ HasData(Append(air, e)) <=> (HasData(air) \/ e.use = "data")
        /\ AtMostOneData(air) /\ (e.use = "data" => ~HasData(air)) => AtMostOneData(Append(air, e))
    BY <1>3, <1>5, DataAppend, Zenon
  <2> QED
    BY <1>5, <2>1
<1>8. air' = Append(air, e) \/ air' = air
  BY <1>1
<1> HIDE DEF e
<1>9. /\ air' \in Seq(AirRecords) /\ (HasData(air') <=> HasData(air))
      /\ AtMostOneData(air) => AtMostOneData(air')
      /\ \A i \in 1 .. Len(air') : air'[i] = e \/ \E j \in 1 .. Len(air) : air'[i] = air[j]
  BY <1>3, <1>6, <1>7, <1>8
<1>10. /\ png' \in [PingTasks -> PngRecords]
       /\ \A q \in PingTasks : png'[q].pc = "send" => png[q].pc = "send" /\ png'[q].id = png[q].id
  <2>1. \E p \in PngRecords : p.pc # "send" /\ png' = [png EXCEPT ![t] = p]
    <3>0. png[t] \in PngRecords
      BY <1>3
    <3>1. CASE png' = [png EXCEPT ![t].pc = "ackwait"]
      <4>1. [png[t] EXCEPT !.pc = "ackwait"] \in PngRecords /\ [png[t] EXCEPT !.pc = "ackwait"].pc = "ackwait"
        BY <3>0 DEF PngRecords
      <4>2. png' = [png EXCEPT ![t] = [png[t] EXCEPT !.pc = "ackwait"]]
        BY <3>1
      <4> QED
        BY <4>1, <4>2
    <3>2. CASE png' = [png EXCEPT ![t].pc = "ackwait", ![t].ret = "false"]
      <4> DEFINE p == [png[t] EXCEPT !.pc = "ackwait", !.ret = "false"]
      <4>1. p \in PngRecords /\ p.pc = "ackwait"
        BY <3>0 DEF PngRecords
      <4>2. png' = [png EXCEPT ![t] = p]
        BY <1>3, <3>2
      <4> HIDE DEF p
      <4> QED
        BY <4>1, <4>2
    <3> QED
      BY <1>1, <3>1, <3>2
  <2>2. PICK p \in PngRecords : p.pc # "send" /\ png' = [png EXCEPT ![t] = p]
    BY <2>1
  <2> QED
    BY <1>3, <2>2
<1>11. EspTypes'
  <2>1. ping_active' \in BOOLEAN
    BY <1>1
  <2> QED
    BY <1>1, <1>2, <1>9, <1>10, <2>1, Zenon DEF EspTypes
<1>12. IdsDiffer'
  <2>1. ops' = ops /\ ops \in Nat
    BY <1>1, <1>3
  <2>3. \A u \in Tasks : Calling(u)' => /\ Calling(u) /\ snd'[u].id = snd[u].id
                                        /\ snd'[u].total = snd[u].total
                                        /\ snd'[u].pk \in 1 .. snd[u].total
    BY <1>1, <1>2 DEF Calling, IdsDiffer
  <2>4. \A u \in Tasks : snd'[u].ret = "ESP_OK" => snd'[u].id # 0
    BY <1>1, <1>2 DEF IdsDiffer
  <2>5. \A i \in 1 .. Len(cbq') : \E j \in 1 .. Len(cbq) : cbq'[i] = cbq[j]
    BY <1>1
  <2>6. \A i \in 1 .. Len(air') :
            \/ \E j \in 1 .. Len(air) : air'[i] = air[j]
            \/ \E p \in PingTasks : png[p].pc = "send" /\ air'[i].id = png[p].id /\ air'[i].use = "ping"
    BY <1>1, <1>5, <1>9
  <2> QED
    BY <1>2, <1>10, <2>1, <2>3, <2>4, <2>5, <2>6, IdsStay, Zenon
<1>13. \A u \in Tasks : /\ (Handed(u)' <=> Handed(u)) /\ (Sending(u)' <=> Sending(u))
                        /\ (Calling(u)' <=> Calling(u))
  BY <1>1 DEF Handed, Sending, Calling
<1>14. ASSUME OnePlace, Earned PROVE OnePlace' /\ Earned'
  <2>1. Earned'
    BY <1>1, <1>13, <1>14 DEF Earned
  <2>2. \A t1, u \in Tasks : Sending(t1)' /\ Sending(u)' => t1 = u
    BY <1>13, <1>14, Zenon DEF OnePlace
  <2>3. /\ AtMostOneData(air') /\ AtMostOneData(cbq')
        /\ HasData(air') => ~HasData(cbq') /\ ack_sem' = 0
        /\ HasData(cbq') => ack_sem' = 0
        /\ (HasData(air') \/ HasData(cbq') \/ ack_sem' = 1) => \E t1 \in Tasks : Handed(t1)'
        /\ \A t1 \in Tasks : Handed(t1)' => HasData(air') \/ HasData(cbq') \/ ack_sem' = 1
    BY <1>1, <1>9, <1>13, <1>14 DEF OnePlace
  <2>4. ASSUME NEW u \in Tasks, Sending(u)'
        PROVE  /\ \A i \in 1 .. Len(air') :
                     air'[i].use = "data" => air'[i].id = snd'[u].id /\ air'[i].pk = snd'[u].pk
               /\ \A i \in 1 .. Len(cbq') : cbq'[i].use = "data" => cbq'[i].id = snd'[u].id
    <3>1. /\ \A i \in 1 .. Len(air) : air[i].use = "data" => air[i].id = snd[u].id /\ air[i].pk = snd[u].pk
          /\ \A i \in 1 .. Len(cbq) : cbq[i].use = "data" => cbq[i].id = snd[u].id
      BY <1>13, <1>14, <2>4, Zenon DEF OnePlace
    <3> QED
      BY <1>1, <1>5, <1>9, <3>1
  <2>5. OnePlace'
    BY <2>2, <2>3, <2>4, Zenon DEF OnePlace
  <2> QED
    BY <2>1, <2>5
<1>15. ASSUME ArrivedOnce PROVE ArrivedOnce'
  BY <1>1, <1>9, <1>13, <1>15 DEF ArrivedOnce
<1> QED
  BY <1>1, <1>11, <1>12, <1>14, <1>15, EspParts, Zenon

\* Every step keeps the invariant.
LEMMA EspInvStep == EspInv /\ [EspNext]_espVars => EspInv'
<1> SUFFICES ASSUME EspInv, [EspNext]_espVars PROVE EspInv'
  OBVIOUS
<1>1. ASSUME NEW t \in Tasks,
             SendEnter(t) \/ SendMark(t) \/ SendUnknown(t) \/ SendPacket(t) \/ SendClear(t) \/ SendWait(t)
      PROVE  EspInv'
  BY <1>1, SendEnterStep, SendMarkStep, SendUnknownStep, SendPacketStep, SendClearStep, SendWaitStep, Zenon
<1>2. ASSUME NEW t \in PingTasks, PingEnter(t) \/ PingSend(t) \/ PingAckWait(t)
      PROVE  EspInv'
  BY <1>2, PingEnterStep, PingSendStep, PingLaterStep, Zenon
<1>3. CASE PingClearOk(Pinger) \/ PingWaitPong \/ PongArrives
  BY <1>3, PingLaterStep, Zenon
<1>4. CASE RadioReport \/ SendTask
  BY <1>4, RadioReportStep, SendTaskStep, Zenon
<1>5. CASE UNCHANGED espVars
  <2>1. /\ send_active' = send_active /\ ping_active' = ping_active /\ send_ok' = send_ok
        /\ ping_ok' = ping_ok /\ ack_sem' = ack_sem /\ pingack_sem' = pingack_sem /\ ping_sem' = ping_sem
        /\ snd' = snd /\ png' = png /\ air' = air /\ cbq' = cbq /\ ops' = ops /\ aired' = aired /\ odd' = odd
    BY <1>5 DEF espVars, flags, sems
  <2>2. EspTypes /\ IdsDiffer
    BY Zenon DEF EspInv
  <2>3. EspTypes'
    BY <2>1, <2>2, Zenon DEF EspTypes
  <2>4. IdsDiffer' /\ ops' >= ops
    BY <2>1, <2>2, PingIds
  <2> QED
    BY <2>1, <2>3, <2>4, PingFrame
<1> QED
  BY <1>1, <1>2, <1>3, <1>4, <1>5, Zenon DEF EspNext

\* The invariant is as strong as the properties.
LEMMA EspInvMeans == EspInv => EspTypeOK /\ OkMeansReceived /\ RepeatNeedsStray
<1> SUFFICES ASSUME EspInv PROVE EspTypeOK /\ OkMeansReceived /\ RepeatNeedsStray
  OBVIOUS
<1>1. EspTypeOK
  <2>1. EspTypes
    BY Zenon DEF EspInv
  <2>2. \A t \in Tasks : /\ snd[t].pc \in {"idle", "mark", "send", "clear", "wait"}
                         /\ snd[t].cnt \in 0 .. TryAgain + 2
                         /\ snd[t].ret \in {"none", "ESP_OK", "ESP_FAIL"}
    BY <2>1, EspAssumption DEF EspTypes, SndRecords
  <2>3. \A t \in PingTasks : png[t].pc \in {"idle", "send", "ackwait", "clear", "wait"}
    BY <2>1 DEF EspTypes, PngRecords
  <2> QED
    BY <2>1, <2>2, <2>3, Zenon DEF EspTypeOK, EspTypes
<1>2. OkMeansReceived
  BY Zenon DEF EspInv, Earned, OkMeansReceived, Calling
<1>3. RepeatNeedsStray
  BY Zenon DEF EspInv, ArrivedOnce, RepeatNeedsStray
<1> QED
  BY <1>1, <1>2, <1>3

-----------------------------------------------------------------------------
(* The parts in one behaviour.                                              *)

\* A step of the composition is a step of each part or leaves it alone.
LEMMA FieldPartSteps ==
    ASSUME [FieldNext]_<<part, allVars>>
    PROVE  /\ [BusNext]_busVars /\ [EspNext]_espVars /\ [RecvNext]_recvVars
           /\ [ListNext]_listVars /\ [WatchdogNext]_watchVars /\ [UplinkNext]_uplinkVars
<1>1. CASE FieldNext
  BY <1>1, Zenon DEF FieldNext
<1>2. CASE UNCHANGED <<part, allVars>>
  <2>1. UNCHANGED allVars
    BY <1>2
  <2>2. UNCHANGED <<busVars, espVars, recvVars, listVars, watchVars, uplinkVars>>
    BY <2>1, Zenon DEF allVars
  <2>3. /\ busVars' = busVars /\ espVars' = espVars /\ recvVars' = recvVars
        /\ listVars' = listVars /\ watchVars' = watchVars /\ uplinkVars' = uplinkVars
    BY <2>2
  <2> QED
    BY <2>3, Zenon
<1> QED
  BY <1>1, <1>2, Zenon

\* The inductive invariants of the watchdog and of the uplink hold in the
\* composition.
LEMMA FieldReportsInvariant == FieldSpec => [](WatchdogInv /\ UplinkInv)
<1>1. FieldInit => WatchdogInv /\ UplinkInv
  BY WatchdogInvInit, UplinkInvInit, Zenon DEF FieldInit
<1>2. ASSUME WatchdogInv /\ UplinkInv, [FieldNext]_<<part, allVars>>
      PROVE  (WatchdogInv /\ UplinkInv)'
  <2>1. [WatchdogNext]_watchVars /\ [UplinkNext]_uplinkVars
    BY <1>2, FieldPartSteps, Zenon
  <2>2. WatchdogInv'
    BY <1>2, <2>1, WatchdogInvStep, Zenon
  <2>3. UplinkInv'
    BY <1>2, <2>1, UplinkInvStep, Zenon
  <2> QED
    BY <2>2, <2>3
<1> QED
  BY <1>1, <1>2, PTL DEF FieldSpec

\* The watchdogs of the UART, the lamp of the Ethernet and the answer of
\* is_avaible tell the truth: no alarm without its cause and none missing, the
\* services only after the link had shown something, the Wi-Fi given up only
\* after that many losses in a row, and a command read as it was posted.
THEOREM FieldReports == FieldSpec => []ReportsAreTrue
<1>1. WatchdogInv /\ UplinkInv => ReportsAreTrue
  BY WatchdogInvAlarms, UplinkInvTruth, Zenon DEF ReportsAreTrue
<1> QED
  BY <1>1, FieldReportsInvariant, PTL

\* The inductive invariants of sending, of reception and of the list of devices
\* hold in the composition.
LEMMA FieldRadioInvariant == FieldSpec => [](EspInv /\ RecvInv /\ ListInv)
<1>1. FieldInit => EspInv /\ RecvInv /\ ListInv
  BY EspInvInit, RecvInvInit, ListInvInit, Zenon DEF FieldInit
<1>2. ASSUME EspInv /\ RecvInv /\ ListInv, [FieldNext]_<<part, allVars>>
      PROVE  (EspInv /\ RecvInv /\ ListInv)'
  <2>1. [EspNext]_espVars /\ [RecvNext]_recvVars /\ [ListNext]_listVars
    BY <1>2, FieldPartSteps, Zenon
  <2>2. EspInv'
    BY <1>2, <2>1, EspInvStep, Zenon
  <2>3. RecvInv'
    BY <1>2, <2>1, RecvInvStep, Zenon
  <2>4. ListInv'
    BY <1>2, <2>1, ListInvStep, Zenon
  <2> QED
    BY <2>2, <2>3, <2>4
<1> QED
  BY <1>1, <1>2, PTL DEF FieldSpec

\* ESP-NOW and the list of devices keep their promises.  ESP_OK means that the
\* peer has every packet, and a packet it has is sent again only when the report
\* of the radio was early, late or taken by another use; a callback gets whole
\* messages until a slot of its peer was spoilt, and the receive task ends only
\* with every slot held; between calls that do not overlap the list has exactly
\* the devices added and not removed, in memory that is allocated.
THEOREM FieldRadio == FieldSpec => []RadioPromise
<1>1. EspInv /\ RecvInv /\ ListInv => RadioPromise
  BY EspInvMeans, RecvInvMeans, ListInvMeans, Zenon DEF RadioPromise
<1> QED
  BY <1>1, FieldRadioInvariant, PTL

\* The inductive invariant of the bus holds in the composition.
LEMMA FieldBusInvariant == FieldSpec => []BusInv
<1>1. FieldInit => BusInv
  BY BusInvInit, Zenon DEF FieldInit
<1>2. BusInv /\ [FieldNext]_<<part, allVars>> => BusInv'
  BY FieldPartSteps, BusInvStep, Zenon
<1> QED
  BY <1>1, <1>2, PTL DEF FieldSpec

\* Every variable of the six modules keeps its type, whatever the number of
\* devices, peers and messages, the lengths of the queues and the bounds.
THEOREM FieldTyped == FieldSpec => []FieldTypes
<1>1. UplinkInv => UplinkTypeOK
  BY Zenon DEF UplinkInv, UplinkTypes
<1>2. WatchdogInv => WatchdogTypeOK
  BY Zenon DEF WatchdogInv
<1>3. BusInv /\ EspInv /\ RecvInv /\ ListInv /\ WatchdogInv /\ UplinkInv => FieldTypes
  BY <1>1, <1>2, BusInvMeans, EspInvMeans, RecvInvMeans, ListInvMeans, Zenon DEF FieldTypes
<1> QED
  BY <1>3, FieldBusInvariant, FieldRadioInvariant, FieldReportsInvariant, PTL

\* The RS485 bus keeps its promise.  Whatever is lost, late or cut short, the
\* callback of a device gets a message once; as long as nothing was lost, flushed
\* or sent by two devices to one, it gets it whole, and what Sender reported as
\* sent has come to every device it was for; and ping says what is true unless a
\* pong outlived its wait.
THEOREM FieldBus == FieldSpec => []BusPromise
<1>1. BusInv => BusPromise
  BY BusInvMeans, Zenon DEF BusPromise
<1> QED
  BY <1>1, FieldBusInvariant, PTL
=============================================================================
