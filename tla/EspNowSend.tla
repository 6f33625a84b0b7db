----------------------------- MODULE EspNowSend -----------------------------
(***************************************************************************)
(* The sending half of ESP-NOW: _send, run by any task that calls          *)
(* EspNOW_Send or EspNOW_Broadcast; _pingpong, run by the task that pings  *)
(* and by receive_task when it answers a ping; and send_task, which turns  *)
(* each send callback of the radio into a given semaphore.  Nothing ties a *)
(* callback to the transmission it reports: send_task looks at ping_active *)
(* when it handles the callback, and _send at send_ok after any give of    *)
(* ack_sem.  send_active and ping_active keep the two uses apart, by tests *)
(* that are not atomic with the stores.                                    *)
(***************************************************************************)
EXTENDS Naturals, Sequences, FiniteSets

CONSTANTS
    Tasks,       \* the tasks that call _send
    Ponger,      \* receive_task, the task that answers pings
    Pinger,      \* the task that pings
    TryAgain,    \* cnt above which _send gives up: 3 in the code
    Messages,    \* what may be sent: records [by, total]
    MaxPackets,  \* bound: packets of the longest message
    MaxEspOps,   \* bound: calls of _send and _pingpong together
    MaxPending,  \* bound: transmissions whose report was not handled yet
    MaxOdd       \* bound: kinds of mishap that meet in one behaviour

ASSUME EspAssumption ==
    /\ Ponger # Pinger /\ {Ponger, Pinger} \intersect Tasks = {}
    /\ Messages \subseteq [by : Tasks, total : 1 .. MaxPackets]
    /\ TryAgain \in Nat /\ MaxPackets \in Nat /\ MaxEspOps \in Nat

VARIABLES
    send_active, ping_active,     \* the flags of the two uses
    send_ok, ping_ok,             \* the results read after the waits
    ack_sem, pingack_sem, ping_sem,
    snd,                          \* each task inside _send
    png,                          \* the two tasks inside _pingpong
    air,                          \* transmissions the radio has not reported
    cbq,                          \* send_queue: reports send_task has not handled
    ops,                          \* ghost: calls so far
    aired,                        \* ghost: whether each packet arrived never, once, more often
    odd                           \* ghost: what makes a report go to the wrong wait

flags   == <<send_active, ping_active>>
sems    == <<ack_sem, pingack_sem, ping_sem>>
espVars == <<flags, send_ok, ping_ok, sems, snd, png, air, cbq, ops, aired, odd>>

PingTasks == {Ponger, Pinger}
Calls     == 1 .. MaxEspOps
IdleSend  == [pc |-> "idle", id |-> 0, pk |-> 0, total |-> 0, cnt |-> 0, ret |-> "none"]
IdlePing  == [pc |-> "idle", id |-> 0, ret |-> "none"]

EspTypeOK ==
    /\ send_active \in BOOLEAN /\ ping_active \in BOOLEAN
    /\ send_ok \in BOOLEAN /\ ping_ok \in BOOLEAN
    /\ ack_sem \in {0, 1} /\ pingack_sem \in {0, 1} /\ ping_sem \in {0, 1}
    /\ \A t \in Tasks : /\ snd[t].pc \in {"idle", "mark", "send", "clear", "wait"}
                        /\ snd[t].cnt \in 0 .. TryAgain + 2
                        /\ snd[t].ret \in {"none", "ESP_OK", "ESP_FAIL"}
    /\ \A t \in PingTasks : png[t].pc \in {"idle", "send", "ackwait", "clear", "wait"}
    /\ odd \subseteq {"early", "late", "crossed", "overlap", "unacked"}

EspInit ==
    /\ send_active = FALSE /\ ping_active = FALSE
    /\ send_ok = FALSE /\ ping_ok = FALSE
    /\ ack_sem = 0 /\ pingack_sem = 0 /\ ping_sem = 0
    /\ snd = [t \in Tasks |-> IdleSend]
    /\ png = [t \in PingTasks |-> IdlePing]
    /\ air = <<>> /\ cbq = <<>>
    /\ ops = 0
    /\ aired = [c \in Calls |-> [k \in 1 .. MaxPackets |-> 0]]
    /\ odd = {}

Odd(S) == odd' = odd \union S /\ Cardinality(odd') <= MaxOdd
RadioFree == Len(air) + Len(cbq) < MaxPending

-----------------------------------------------------------------------------
(* _send.                                                                  *)

\* EspNOW_Send waits for ping_active, and _send marks itself a step later.
SendEnter(t) ==
    \E m \in Messages :
        /\ m.by = t
        /\ snd[t].pc = "idle"
        /\ ops < MaxEspOps
        /\ ~ping_active
        /\ snd' = [snd EXCEPT ![t] = [IdleSend EXCEPT !.pc = "mark", !.id = ops + 1,
                                                      !.total = m.total, !.pk = 1]]
        /\ ops' = ops + 1
        /\ UNCHANGED <<flags, send_ok, ping_ok, sems, png, air, cbq, aired, odd>>

SendMark(t) ==
    /\ snd[t].pc = "mark"
    /\ send_active' = TRUE
    /\ snd' = [snd EXCEPT ![t].pc = "send"]
    /\ Odd(IF \E u \in Tasks \ {t} : snd[u].pc \in {"send", "clear", "wait"}
           THEN {"overlap"} ELSE {})
    /\ UNCHANGED <<ping_active, send_ok, ping_ok, sems, png, air, cbq, ops, aired>>

\* The call ends, and with it the flag, whoever else is still sending.
Return(t, r) ==
    /\ snd' = [snd EXCEPT ![t] = [@ EXCEPT !.pc = "idle", !.ret = r]]
    /\ send_active' = FALSE

\* No entry in the device list for the id.
SendUnknown(t) ==
    /\ snd[t].pc = "send" /\ snd[t].pk = 1 /\ snd[t].cnt = 0
    /\ Return(t, "ESP_FAIL")
    /\ UNCHANGED <<ping_active, send_ok, ping_ok, sems, png, air, cbq, ops, aired, odd>>

\* esp_now_send takes the packet, or refuses it and the message is given up.
SendPacket(t) ==
    /\ snd[t].pc = "send"
    /\ \/ /\ RadioFree
          /\ air' = Append(air, [use |-> "data", id |-> snd[t].id, pk |-> snd[t].pk])
          /\ snd' = [snd EXCEPT ![t].pc = "clear"]
          /\ UNCHANGED send_active
       \/ Return(t, "ESP_FAIL") /\ UNCHANGED air
    /\ UNCHANGED <<ping_active, send_ok, ping_ok, sems, png, cbq, ops, aired, odd>>

\* send_ok is cleared after the packet was handed to the radio.
SendClear(t) ==
    /\ snd[t].pc = "clear"
    /\ send_ok' = FALSE
    /\ snd' = [snd EXCEPT ![t].pc = "wait"]
    /\ Odd(IF \E i \in 1 .. Len(air) : air[i].id = snd[t].id THEN {}
           ELSE IF \E i \in 1 .. Len(cbq) : cbq[i].id = snd[t].id THEN {} ELSE {"early"})
    /\ UNCHANGED <<flags, ping_ok, sems, png, air, cbq, ops, aired>>

Reported(id) ==
    /\ \A i \in 1 .. Len(air) : air[i].id # id
    /\ \A i \in 1 .. Len(cbq) : cbq[i].id # id

\* The packet is done when send_ok is set; cnt is counted in either case, so a
\* packet that goes through at the last try still fails the message.
Settled_Unchecked(s) ==
    IF s.pk < s.total THEN "next" ELSE "ok"
Settled(s) ==
    LET done == send_ok \/ s.cnt > TryAgain
    IN  CASE ~done -> "again"
          [] done /\ s.cnt + 1 > TryAgain -> "fail"
          [] OTHER -> IF s.pk < s.total THEN "next" ELSE "ok"

SendWait(t) ==
    /\ snd[t].pc = "wait"
    /\ \/ ack_sem = 1 /\ UNCHANGED odd
       \/ ack_sem = 0 /\ Odd(IF Reported(snd[t].id) THEN {} ELSE {"late"})
    /\ ack_sem' = 0
    /\ LET s == [snd[t] EXCEPT !.cnt = @ + 1]
           r == Settled(snd[t])
       IN  \/ /\ r = "again" /\ UNCHANGED send_active
              /\ snd' = [snd EXCEPT ![t] = [s EXCEPT !.pc = "send"]]
           \/ /\ r = "next" /\ UNCHANGED send_active
              /\ snd' = [snd EXCEPT ![t] = [s EXCEPT !.pc = "send", !.pk = @ + 1, !.cnt = 0]]
           \/ r = "ok" /\ Return(t, "ESP_OK")
           \/ r = "fail" /\ Return(t, "ESP_FAIL")
    /\ UNCHANGED <<ping_active, send_ok, ping_ok, pingack_sem, ping_sem, png, air, cbq,
                   ops, aired>>

-----------------------------------------------------------------------------
(* The radio, its callback, send_task.                                     *)

\* The radio reports a transmission: success means that the peer has it, and
\* a failure that its acknowledgement did not come.
RadioReport ==
    /\ air # <<>>
    /\ \E ok, got \in BOOLEAN :
          /\ ok => got
          /\ cbq' = Append(cbq, [use |-> Head(air).use, id |-> Head(air).id, ok |-> ok])
          /\ aired' = IF got /\ Head(air).use = "data"
                      THEN [aired EXCEPT ![Head(air).id][Head(air).pk] = IF @ = 0 THEN 1 ELSE 2]
                      ELSE aired
          /\ Odd(IF got /\ ~ok THEN {"unacked"} ELSE {})
    /\ air' = Tail(air)
    /\ UNCHANGED <<flags, send_ok, ping_ok, sems, snd, png, ops>>

SendTask_Lax(ok) == TRUE
SendTask_Status(ok) == ok

SendTask ==
    /\ cbq # <<>>
    /\ cbq' = Tail(cbq)
    /\ IF ping_active
       THEN pingack_sem' = 1 /\ UNCHANGED <<send_ok, ack_sem>>
       ELSE ack_sem' = 1 /\ send_ok' = SendTask_Status(Head(cbq).ok) /\ UNCHANGED pingack_sem
    /\ Odd(IF ping_active # (Head(cbq).use = "ping") THEN {"crossed"} ELSE {})
    /\ UNCHANGED <<flags, ping_ok, ping_sem, snd, png, air, ops, aired>>

-----------------------------------------------------------------------------
(* _pingpong.                                                              *)

\* A ping while a message is sent is not sent and counts as answered; a pong
\* is not sent either.  Nothing is sent to an id that is not in the list.
PingEnter(t) ==
    /\ png[t].pc = "idle"
    /\ ops < MaxEspOps
    /\ ops' = ops + 1
    /\ \/ send_active /\ png' = [png EXCEPT ![t] = [IdlePing EXCEPT !.ret = "true"]]
       \/ ~send_active /\ png' = [png EXCEPT ![t] = [IdlePing EXCEPT !.ret = "false"]]
       \/ /\ ~send_active
          /\ png' = [png EXCEPT ![t] = [pc |-> "send", id |-> ops + 1, ret |-> "true"]]
    /\ UNCHANGED <<flags, send_ok, ping_ok, sems, snd, air, cbq, aired, odd>>

PingSend(t) ==
    /\ png[t].pc = "send"
    /\ ping_active' = TRUE
    /\ \/ /\ RadioFree
          /\ air' = Append(air, [use |-> "ping", id |-> png[t].id, pk |-> 0])
          /\ png' = [png EXCEPT ![t].pc = "ackwait"]
       \/ /\ UNCHANGED air
          /\ png' = [png EXCEPT ![t].pc = "ackwait", ![t].ret = "false"]
    /\ UNCHANGED <<send_active, send_ok, ping_ok, sems, snd, cbq, ops, aired, odd>>

PingDone(t, r) == png' = [png EXCEPT ![t].pc = "idle", ![t].ret = r] /\ ping_active' = FALSE

\* Up to 500 ms for the report; a pong is done then.
PingAckWait(t) ==
    /\ png[t].pc = "ackwait"
    /\ \/ pingack_sem = 1 /\ UNCHANGED odd
       \/ pingack_sem = 0 /\ Odd(IF Reported(png[t].id) THEN {} ELSE {"late"})
    /\ pingack_sem' = 0
    /\ IF t = Ponger THEN PingDone(t, png[t].ret)
       ELSE png' = [png EXCEPT ![t].pc = "clear"] /\ UNCHANGED ping_active
    /\ UNCHANGED <<send_active, send_ok, ping_ok, ack_sem, ping_sem, snd, air, cbq, ops, aired>>

PingClearOk(t) ==
    /\ png[t].pc = "clear"
    /\ ping_ok' = FALSE
    /\ png' = [png EXCEPT ![t].pc = "wait"]
    /\ UNCHANGED <<flags, send_ok, sems, snd, air, cbq, ops, aired, odd>>

\* receive_task, when it does not answer a ping, reads a pong of the pinged device.
PongArrives ==
    /\ png[Ponger].pc = "idle"
    /\ png[Pinger].pc \in {"ackwait", "clear", "wait"}
    /\ ping_ok' = TRUE /\ ping_sem' = 1
    /\ UNCHANGED <<flags, send_ok, ack_sem, pingack_sem, snd, png, air, cbq, ops, aired, odd>>

PingWaitPong ==
    /\ png[Pinger].pc = "wait"
    /\ ping_sem' = 0
    /\ PingDone(Pinger, IF ping_ok THEN png[Pinger].ret ELSE "false")
    /\ UNCHANGED <<send_active, send_ok, ping_ok, ack_sem, pingack_sem, snd, air, cbq,
                   ops, aired, odd>>

EspNext ==
    \/ \E t \in Tasks :
          SendEnter(t) \/ SendMark(t) \/ SendUnknown(t) \/ SendPacket(t) \/ SendClear(t)
          \/ SendWait(t)
    \/ \E t \in PingTasks : PingEnter(t) \/ PingSend(t) \/ PingAckWait(t)
    \/ PingClearOk(Pinger) \/ PingWaitPong \/ PongArrives
    \/ RadioReport \/ SendTask

EspSpec == EspInit /\ [][EspNext]_espVars

-----------------------------------------------------------------------------
(* Properties.                                                             *)

\* ESP_OK is earned: each packet of the message was reported as received by
\* the peer, unless calls of _send overlapped, or a report came late or was
\* handled as one of the other use and so was there for the next packet.
OkMeansReceived ==
    odd \subseteq {"early", "unacked"} =>
        \A t \in Tasks : snd[t].pc = "idle" /\ snd[t].ret = "ESP_OK" =>
            \A k \in 1 .. snd[t].total : aired[snd[t].id][k] > 0

\* A packet the peer has is sent again only when the radio could not know it,
\* or its report was handled before send_ok was cleared, came late, went to a
\* ping, or another call took it.
RepeatNeedsStray ==
    odd = {} => \A c \in Calls : \A k \in 1 .. MaxPackets : aired[c][k] <= 1
=============================================================================
