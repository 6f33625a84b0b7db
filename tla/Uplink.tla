------------------------------- MODULE Uplink -------------------------------
(***************************************************************************)
(* The way to the network: app_main waiting for a link, then for the       *)
(* broker; the default event loop, whose handlers (events.c) move bits,    *)
(* lamps and the retry counter; the MQTT client's task, which runs         *)
(* mqtt_event_handler.  The Ethernet and Wi-Fi drivers and the MQTT client *)
(* are external: a link that comes and goes, a broker that answers or not. *)
(*                                                                         *)
(* An event group's set-bits unblocks a waiting task and, for a wait with  *)
(* clear-on-exit, clears the bits in the same step.  A post to the event   *)
(* loop waits for room, except in the loop's own task: there a full queue  *)
(* is an error, and ESP_ERROR_CHECK aborts.                                *)
(***************************************************************************)
EXTENDS Naturals, Sequences

CONSTANTS
    WIFI_MAXIMUM_RETRY,   \* 20 in the code
    MqttErrors,           \* errors after which SYSTEM_RESET is posted: 10 in the code
    LoopLength,           \* length of the event loop's queue
    MaxLink,              \* bound: changes of the link
    MaxClient             \* bound: events of the MQTT client

ASSUME UplinkAssumption ==
    /\ WIFI_MAXIMUM_RETRY \in Nat /\ MqttErrors \in Nat
    /\ LoopLength \in Nat \ {0} /\ MaxLink \in Nat /\ MaxClient \in Nat

VARIABLES
    wan,       \* "eth" or "wifi", from the configuration
    boot,      \* app_main, or why the program aborted
    link,      \* external: the link of the chosen interface
    bits,      \* the event group of Ethernet or Network
    ld,        \* Ethernet's ld.state, shared by app_main and the loop
    retry,     \* wifi.retry
    loopq,     \* the event loop's queue
    hand,      \* a handler that has not posted yet, with the state it means
    leds,      \* LED2 (eth) and LED1 (mqtt): 1 is an error
    broker,    \* external: the MQTT client's connection
    mqev,      \* events the client's task is handling
    mqpc,      \* where mqtt_event_handler is
    mbits,     \* Mqtt's event group
    errors,    \* error_counter
    mqbuf,     \* the client's buffer: number of the message in it
    linked,    \* ghost: link changes so far
    clients,   \* ghost: client events so far
    address,   \* ghost: "none", then "down" or "ip", the first the link showed
    losses,    \* ghost: disconnects since the start or the last address
    crossedLed,\* ghost: the last lamp event for LED2 was posted with a wrong state
    eaten,     \* ghost: start's wait cleared the bit of the last client event
    late,      \* ghost: a data event was still queued when the handler returned
    misread    \* ghost: a command was read that was not the one posted

netVars    == <<wan, boot, link, bits, ld, retry, linked, address, losses, crossedLed>>
clientVars == <<broker, mqev, mqpc, mbits, errors, mqbuf, clients, eaten, late>>
uplinkVars == <<netVars, loopq, hand, leds, clientVars, misread>>

Led(lamp, s)  == [type |-> "led", lamp |-> lamp, n |-> s]
Signal(t)     == [type |-> t, lamp |-> "none", n |-> 0]
MQTT_DATA(n)  == [type |-> "data", lamp |-> "none", n |-> n]
NoHand        == [busy |-> FALSE, state |-> 0]
Initialised   == boot \in {"mstart", "mwait", "mwake", "run"}

\* Mqtt::is_avaible.
is_avaible == Initialised /\ "F" \notin mbits

UplinkTypeOK ==
    /\ wan \in {"eth", "wifi"}
    /\ boot \in {"start", "wait", "ledset", "ledpost", "mqtt", "mstart", "mwait", "mwake",
                 "run", "nolink", "noretry", "queuefull"}
    /\ link \in {"off", "down", "trying", "up", "ip"}
    /\ bits \subseteq {"C", "F"} /\ mbits \subseteq {"C", "F"}
    /\ ld \in {0, 1} /\ leds \in [{"eth", "mqtt"} -> {0, 1}]
    /\ retry \in 0 .. WIFI_MAXIMUM_RETRY
    /\ Len(loopq) <= LoopLength
    /\ broker \in {"none", "trying", "connected"}
    /\ mqpc \in {"bits", "led", "delay"}

UplinkInit ==
    /\ wan \in {"eth", "wifi"}
    /\ boot = "start" /\ link = "off" /\ bits = {}
    /\ ld = 0 /\ retry = 0
    /\ loopq = <<>> /\ hand = NoHand
    /\ leds = [lamp \in {"eth", "mqtt"} |-> 0]
    /\ broker = "none" /\ mqev = <<>> /\ mqpc = "bits" /\ mbits = {} /\ errors = 0
    /\ mqbuf = 0 /\ linked = 0 /\ clients = 0
    /\ address = "none" /\ losses = 0
    /\ crossedLed = FALSE /\ eaten = FALSE /\ late = FALSE /\ misread = FALSE

Alive == boot \notin {"nolink", "noretry", "queuefull"}
Post(e) == Len(loopq) < LoopLength /\ loopq' = Append(loopq, e)

-----------------------------------------------------------------------------
(* app_main: Ethernet::start or Network::Station_Start, Mqtt::start.       *)

MainRest == UNCHANGED <<wan, linked, address, losses, hand, leds, misread>>

\* Ethernet::start up to its wait.
StartEth ==
    /\ boot = "start" /\ wan = "eth"
    /\ boot' = "wait" /\ bits' = {} /\ link' = "down"
    /\ MainRest /\ UNCHANGED <<ld, retry, loopq, crossedLed, clientVars>>

\* Network::init, and Station_Start up to its wait.
StartSta ==
    /\ boot = "start" /\ wan = "wifi"
    /\ boot' = "wait" /\ bits' = {}
    /\ Post(Signal("STA_START"))
    /\ MainRest /\ UNCHANGED <<link, ld, retry, crossedLed, clientVars>>

\* Ethernet::start takes either bit for success.
EthWaitEnds ==
    /\ boot = "wait" /\ wan = "eth"
    /\ \/ bits # {} /\ boot' = "ledset"
       \/ bits = {} /\ boot' = "nolink"
    /\ MainRest /\ UNCHANGED <<link, bits, ld, retry, loopq, crossedLed, clientVars>>

EthLedState ==
    /\ boot = "ledset"
    /\ ld' = 0 /\ boot' = "ledpost"
    /\ MainRest /\ UNCHANGED <<link, bits, retry, loopq, crossedLed, clientVars>>

EthLedPost ==
    /\ boot = "ledpost"
    /\ Post(Led("eth", ld))
    /\ bits' = {} /\ boot' = "mqtt"
    /\ crossedLed' = ((ld = 1) # (link # "ip"))
    /\ MainRest /\ UNCHANGED <<link, ld, retry, clientVars>>

StaWaitEnds ==
    /\ boot = "wait" /\ wan = "wifi" /\ bits # {}
    /\ bits' = {} /\ boot' = "mqtt"
    /\ MainRest /\ UNCHANGED <<link, ld, retry, loopq, crossedLed, clientVars>>

MqttStart ==
    /\ boot = "mqtt"
    /\ boot' = "mstart" /\ mbits' = {} /\ broker' = "trying"
    /\ MainRest
    /\ UNCHANGED <<link, bits, ld, retry, loopq, crossedLed, mqev, mqpc, errors, mqbuf,
                   clients, eaten, late>>

MqttWait ==
    /\ boot = "mstart"
    /\ boot' = IF mbits = {} THEN "mwait" ELSE "mwake"
    /\ mbits' = {} /\ eaten' = ("F" \in mbits)
    /\ MainRest
    /\ UNCHANGED <<link, bits, ld, retry, loopq, crossedLed, broker, mqev, mqpc, errors,
                   mqbuf, clients, late>>

MqttStarted ==
    /\ boot = "mwake"
    /\ boot' = "run" /\ errors' = 0
    /\ MainRest
    /\ UNCHANGED <<link, bits, ld, retry, loopq, crossedLed, broker, mqev, mqpc, mbits,
                   mqbuf, clients, eaten, late>>

-----------------------------------------------------------------------------
(* The link.                                                               *)

LinkChange(to) ==
    /\ Alive /\ boot # "start"
    /\ linked < MaxLink
    /\ linked' = linked + 1 /\ link' = to
    /\ UNCHANGED <<wan, boot, bits, ld, retry, crossedLed, hand, leds, misread, clientVars>>

First(what) == IF address = "none" THEN what ELSE address

\* A cable is plugged in, or the station is associated: no handler does more
\* than log it.
LinkUp ==
    /\ link \in {"down", "trying"}
    /\ LinkChange("up") /\ UNCHANGED <<loopq, address, losses>>

LinkAddress ==
    /\ link = "up"
    /\ Post(Signal("GOT_IP"))
    /\ LinkChange("ip") /\ address' = First("ip") /\ losses' = 0

EthLost ==
    /\ wan = "eth" /\ link \in {"up", "ip"}
    /\ Post(Signal("ETH_DOWN"))
    /\ LinkChange("down") /\ address' = First("down") /\ UNCHANGED losses

StaLost ==
    /\ wan = "wifi" /\ link \in {"trying", "up", "ip"}
    /\ Post(Signal("STA_DISCONNECTED"))
    /\ LinkChange("off") /\ losses' = losses + 1 /\ UNCHANGED address

-----------------------------------------------------------------------------
(* The event loop.                                                         *)

Handles(type) ==
    /\ Alive /\ ~hand.busy
    /\ loopq # <<>> /\ Head(loopq).type = type
    /\ loopq' = Tail(loopq)

EthBit_NoState(b, s) ==
    /\ bits' = bits \union {b}
    /\ hand' = [busy |-> TRUE, state |-> ld]
    /\ UNCHANGED <<wan, boot, link, ld, retry, linked, address, losses, crossedLed, leds,
                   clientVars, misread>>
\* set_connect_bit and set_fail_bit of Ethernet: the bit, ld.state, the post.
EthBit(b, s) ==
    /\ bits' = bits \union {b} /\ ld' = s
    /\ hand' = [busy |-> TRUE, state |-> s]
    /\ UNCHANGED <<wan, boot, link, retry, linked, address, losses, crossedLed, leds,
                   clientVars, misread>>

EthGotIp == wan = "eth" /\ Handles("GOT_IP") /\ EthBit("C", 0)

HandleDown == wan = "eth" /\ Handles("ETH_DOWN") /\ EthBit("F", 1)

HandlerPosts ==
    /\ Alive /\ hand.busy
    /\ hand' = NoHand
    /\ IF Len(loopq) < LoopLength
       THEN /\ loopq' = Append(loopq, Led("eth", ld))
            /\ crossedLed' = (ld # hand.state)
            /\ UNCHANGED boot
       ELSE boot' = "queuefull" /\ UNCHANGED <<loopq, crossedLed>>
    /\ UNCHANGED <<wan, link, bits, ld, retry, linked, address, losses, leds, clientVars, misread>>

StaGotIp ==
    /\ wan = "wifi" /\ Handles("GOT_IP")
    /\ bits' = bits \union {"C"} /\ retry' = 0
    /\ UNCHANGED <<wan, boot, link, ld, linked, address, losses, crossedLed, hand, leds,
                   clientVars, misread>>

\* esp_wifi_connect
Connecting == IF link = "off" THEN "trying" ELSE link

RetryLeft_OneMore == retry <= WIFI_MAXIMUM_RETRY
RetryLeft == retry < WIFI_MAXIMUM_RETRY

StaDisconnected ==
    /\ Handles("STA_DISCONNECTED")
    /\ IF RetryLeft
       THEN link' = Connecting /\ retry' = retry + 1 /\ UNCHANGED boot
       ELSE boot' = "noretry" /\ UNCHANGED <<link, retry>>
    /\ UNCHANGED <<wan, bits, ld, linked, address, losses, crossedLed, hand, leds, clientVars,
                   misread>>

StaStarted ==
    /\ Handles("STA_START")
    /\ link' = Connecting /\ retry' = 0
    /\ UNCHANGED <<wan, boot, bits, ld, linked, address, losses, crossedLed, hand, leds,
                   clientVars, misread>>

\* led_handler: the display follows from the two lamps.
HandleLed ==
    /\ Handles("led")
    /\ leds' = [leds EXCEPT ![Head(loopq).lamp] = Head(loopq).n]
    /\ UNCHANGED <<netVars, hand, clientVars, misread>>

\* mqtt_handler copies the text the event points to.
HandleData ==
    /\ Handles("data")
    /\ misread' = (misread \/ mqbuf # Head(loopq).n)
    /\ UNCHANGED <<netVars, hand, leds, clientVars>>

\* system_handler: the restart is commented out.
HandleReset ==
    /\ Handles("SYSTEM_RESET")
    /\ UNCHANGED <<netVars, hand, leds, clientVars, misread>>

-----------------------------------------------------------------------------
(* The MQTT client and mqtt_event_handler, which runs in the client's task. *)

ClientEvents(evs) ==
    /\ Alive /\ mqev = <<>> /\ broker # "none"
    /\ clients < MaxClient
    /\ clients' = clients + 1
    /\ mqev' = evs
    /\ UNCHANGED <<netVars, loopq, hand, leds, mqpc, mbits, errors, eaten, late, misread>>

ClientConnects ==
    /\ broker = "trying"
    /\ ClientEvents(<<"CONNECTED">>) /\ broker' = "connected" /\ UNCHANGED mqbuf

ClientFails ==
    /\ broker = "trying"
    /\ ClientEvents(<<"ERROR", "DISCONNECTED">>) /\ UNCHANGED <<broker, mqbuf>>

ClientLoses ==
    /\ broker = "connected"
    /\ ClientEvents(<<"DISCONNECTED">>) /\ broker' = "trying" /\ UNCHANGED mqbuf

ClientData ==
    /\ broker = "connected"
    /\ ClientEvents(<<"DATA">>) /\ mqbuf' = clients + 1 /\ UNCHANGED broker

MqttRest == UNCHANGED <<netVars, hand, leds, broker, mqbuf, clients, misread>>

SetBit_NoClear(b, cleared) ==
    IF boot = "mwait"
    THEN boot' = "mwake" /\ mbits' = {} /\ eaten' = (b = "F")
    ELSE boot' = boot /\ mbits' = mbits \union {b} /\ eaten' = FALSE
\* With app_main in its wait the bit that was set is cleared again at once.
SetBit(b, cleared) ==
    IF boot = "mwait"
    THEN boot' = "mwake" /\ mbits' = {} /\ eaten' = (b = "F")
    ELSE boot' = boot /\ mbits' = (mbits \ {cleared}) \union {b} /\ eaten' = FALSE

AfterEvent(e) == IF e = "CONNECTED" THEN "C" ELSE "F"

MqttBits ==
    /\ Alive /\ mqpc = "bits" /\ mqev # <<>> /\ Head(mqev) # "DATA"
    /\ IF Head(mqev) = "ERROR"
       THEN /\ errors' = errors + 1
            /\ IF errors' > MqttErrors THEN Post(Signal("SYSTEM_RESET")) ELSE UNCHANGED loopq
       ELSE UNCHANGED <<errors, loopq>>
    /\ LET b == AfterEvent(Head(mqev)) IN SetBit(b, IF b = "C" THEN "F" ELSE "C")
    /\ mqpc' = "led"
    /\ UNCHANGED <<wan, link, bits, ld, retry, linked, address, losses, crossedLed, hand, leds,
                   broker, mqev, mqbuf, clients, late, misread>>

MqttLed ==
    /\ Alive /\ mqpc = "led"
    /\ Post(Led("mqtt", IF Head(mqev) = "CONNECTED" THEN 0 ELSE 1))
    /\ mqpc' = "bits" /\ mqev' = Tail(mqev)
    /\ MqttRest /\ UNCHANGED <<mbits, errors, eaten, late>>

MqttData ==
    /\ Alive /\ mqpc = "bits" /\ mqev # <<>> /\ Head(mqev) = "DATA"
    /\ Post(MQTT_DATA(mqbuf))
    /\ mqpc' = "delay"
    /\ MqttRest /\ UNCHANGED <<mqev, mbits, errors, eaten, late>>

\* 10 ms, in which the event is handled or not.
Waited == \E i \in 1 .. Len(loopq) : loopq[i].type = "data"

MqttDataEnds ==
    /\ Alive /\ mqpc = "delay"
    /\ mqpc' = "bits" /\ mqev' = Tail(mqev)
    /\ late' = (late \/ Waited)
    /\ MqttRest /\ UNCHANGED <<loopq, mbits, errors, eaten>>

UplinkNext ==
    \/ StartEth \/ StartSta \/ EthWaitEnds \/ EthLedState \/ EthLedPost \/ StaWaitEnds
    \/ MqttStart \/ MqttWait \/ MqttStarted
    \/ LinkUp \/ LinkAddress \/ EthLost \/ StaLost
    \/ EthGotIp \/ HandleDown \/ HandlerPosts \/ StaGotIp \/ StaDisconnected \/ StaStarted
    \/ HandleLed \/ HandleData \/ HandleReset
    \/ ClientConnects \/ ClientFails \/ ClientLoses \/ ClientData
    \/ MqttBits \/ MqttLed \/ MqttData \/ MqttDataEnds

UplinkSpec == UplinkInit /\ [][UplinkNext]_uplinkVars

-----------------------------------------------------------------------------
(* Properties.                                                             *)

\* LED2 tells whether the Ethernet has an address, once no event is left,
\* unless app_main and the loop crossed in Ethernet's ld or app_main took a
\* lost link for a started one.  The services start only after an address was
\* given, or a link went down while Ethernet::start was waiting; and Wi-Fi is
\* given up only after more losses in a row than WIFI_MAXIMUM_RETRY.
LinkTruth ==
    /\ wan = "eth" /\ boot = "run" /\ loopq = <<>> /\ ~hand.busy /\ ~crossedLed =>
          (leds["eth"] = 1 <=> link # "ip")
    /\ Initialised => address # "none"
    /\ boot = "noretry" => losses > WIFI_MAXIMUM_RETRY

\* Between two events of the client, is_avaible is the truth about the broker,
\* except that it is true before the first event and after a failure whose bit
\* was cleared by the wait in start; and a command is read as it was posted
\* unless the event loop took longer than the 10 ms the handler waits.
MqttTruth ==
    /\ mqev = <<>> /\ Initialised =>
          /\ broker = "connected" => is_avaible
          /\ is_avaible => broker = "connected" \/ clients = 0 \/ eaten
    /\ misread => late
=============================================================================
