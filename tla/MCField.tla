------------------------------ MODULE MCField -------------------------------
(* Instance of the modules for the links to the devices of the house and    *)
(* upwards: the RS485 bus, sending and receiving over ESP-NOW, the list of   *)
(* devices, the watchdog of the UART link and the network.  In the code      *)
(* they share no state, so a behaviour takes the steps of one part and the   *)
(* others stay as they start: the state space is the sum of the parts, not   *)
(* their product.                                                            *)
EXTENDS Rs485, EspNowSend, EspNowReceive, DeviceList, UartWatchdog, Uplink

VARIABLE part   \* the module whose steps this behaviour takes

MCTraffic == {[from |-> 1, to |-> 2, total |-> 2], [from |-> 3, to |-> 2, total |-> 1]}

MCSends == {[by |-> "t1", total |-> 2], [by |-> "t2", total |-> 1]}

Parts == {"bus", "send", "receive", "list", "watchdog", "uplink"}

allVars == <<busVars, espVars, recvVars, listVars, watchVars, uplinkVars>>

\* The start-up of the uplink chooses the network; the other parts do not look.
FieldInit ==
    /\ part \in Parts
    /\ BusInit /\ EspInit /\ RecvInit /\ ListInit /\ WatchdogInit /\ UplinkInit
    /\ part # "uplink" => wan = "eth"

FieldNext ==
    /\ UNCHANGED part
    /\ \/ /\ part = "bus" /\ BusNext
          /\ UNCHANGED <<espVars, recvVars, listVars, watchVars, uplinkVars>>
       \/ /\ part = "send" /\ EspNext
          /\ UNCHANGED <<busVars, recvVars, listVars, watchVars, uplinkVars>>
       \/ /\ part = "receive" /\ RecvNext
          /\ UNCHANGED <<busVars, espVars, listVars, watchVars, uplinkVars>>
       \/ /\ part = "list" /\ ListNext
          /\ UNCHANGED <<busVars, espVars, recvVars, watchVars, uplinkVars>>
       \/ /\ part = "watchdog" /\ WatchdogNext
          /\ UNCHANGED <<busVars, espVars, recvVars, listVars, uplinkVars>>
       \/ /\ part = "uplink" /\ UplinkNext
          /\ UNCHANGED <<busVars, espVars, recvVars, listVars, watchVars>>

FieldSpec ==
    FieldInit /\ [][FieldNext]_<<part, allVars>> /\ ListFairness

-----------------------------------------------------------------------------
\* Every variable of the six modules keeps its type.
FieldTypes ==
    BusTypeOK /\ EspTypeOK /\ RecvTypeOK /\ ListTypeOK /\ WatchdogTypeOK /\ UplinkTypeOK

\* What the RS485 bus promises: a message is heard once, whole, and everywhere
\* its sender was told it was; a ping tells the truth.
BusPromise == HeardOnce /\ QuietBusDelivers /\ PingTruth

\* What ESP-NOW promises, from the result of a transmission to the buffer handed
\* to a callback and to the end of the receive task; and that the list of the
\* devices that answered it holds them, in memory that is allocated.
RadioPromise ==
    /\ OkMeansReceived /\ RepeatNeedsStray
    /\ CleanUntilSpoilt /\ DeathNeedsHeldSlots
    /\ ListHoldsDevices

\* What the watchdog and the start of the network promise: an alarm, a lit LED
\* and a positive answer of is_avaible have their cause.
ReportsAreTrue == AlarmsAreDue /\ LinkTruth /\ MqttTruth
=============================================================================
