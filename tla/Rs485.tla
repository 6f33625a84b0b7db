------------------------------- MODULE Rs485 --------------------------------
(***************************************************************************)
(* Devices that run class RS485 on one half-duplex bus: the call of Sender *)
(* by the application, _sender_task, _event_task, _callback_task and ping. *)
(* A packet is acknowledged by its own header sent back, a ping by its     *)
(* header with type PONG; neither names the packet or the ping it answers, *)
(* so the only link between a wait and its answer is the order in which    *)
(* ack_ok and ping_ok are cleared, set and read.                           *)
(*                                                                         *)
(* One application task per device calls Sender: the overlapping calls of  *)
(* the same code are UartSender's.  A frame for another device is read and *)
(* dropped by _event_task, and is never put in rx here.                    *)
(***************************************************************************)
EXTENDS Naturals, Sequences, FiniteSets

CONSTANTS
    Nodes,          \* device ids
    Pingers,        \* the devices that ping
    Traffic,        \* what may be sent: records [from, to, total]
    TrySteps,       \* writes after which a packet is given up: 3 in the code
    RxLength,       \* frames the driver keeps
    BusFaults,      \* the faults the instance allows
    MaxOps,         \* bound: messages and pings together
    MaxBusFaults    \* bound: kinds of fault that meet in one behaviour

RS485_BROADCAST == 255

ASSUME BusAssumption ==
    /\ RS485_BROADCAST \notin Nodes /\ Pingers \subseteq Nodes
    /\ Traffic \subseteq [from : Nodes, to : Nodes \union {RS485_BROADCAST},
                          total : Nat \ {0}]     \* a JSON text is never empty
    /\ TrySteps \in Nat /\ RxLength \in Nat \ {0} /\ MaxOps \in Nat
    /\ BusFaults \subseteq {"frame", "short", "lateack", "latepong",
                            "latecall", "callback"}

VARIABLES
    rx,       \* per device: frames received and not yet read
    call,     \* per device: the call of Sender and its completion semaphore
    tx,       \* per device: _sender_task, its message, its loop variables
    ack,      \* per device: [ok, sem] for ack_ok and ack_sem
    ev,       \* per device: _event_task and the frame it holds
    buf,      \* per device: paket_buffer, with semaphores and callback task
    ping,     \* per device: the task inside ping, [ok, sem] for ping_ok, ping_sem
    offered,  \* ghost: messages passed to Sender and pings so far
    outcome,  \* ghost: what Sender returned for each message
    heard,    \* ghost: what the callbacks of each device were handed
    upset     \* ghost: the faults and overlaps that happened

busVars == <<rx, call, tx, ack, ev, buf, ping, offered, outcome, heard, upset>>

Ids   == 1 .. MaxOps
NoBus == [kind |-> "none", from |-> 0, to |-> 0, msg |-> 0, total |-> 0, pk |-> 0]
NoOne == [id |-> 0, to |-> 0, total |-> 0]
Busy(n) == call[n].pc # "idle"

BusTypeOK ==
    /\ \A n \in Nodes :
          /\ Len(rx[n]) <= RxLength
          /\ call[n].pc \in {"idle", "wait"} /\ call[n].sem \in {"null", "empty", "full"}
          /\ tx[n].pc \in {"recv", "write", "clear", "ackwait", "count", "give"}
          /\ tx[n].tries <= TrySteps + 1 /\ tx[n].error \in {0, 1}
          /\ ack[n] \in [ok : BOOLEAN, sem : {0, 1}]
          /\ ev[n].pc \in {"recv", "decode", "cbwait"}
          /\ buf[n].cbsem \in {0, 1} /\ buf[n].waitsem \in {0, 1}
          /\ ping[n].pc \in {"idle", "clear", "wait"}
    /\ outcome \in [Ids -> {"none", "pending", "ok", "error"}]

BusInit ==
    /\ rx = [n \in Nodes |-> <<>>]
    /\ call = [n \in Nodes |-> [pc |-> "idle", sem |-> "null", msg |-> NoOne, queue |-> <<>>]]
    /\ tx = [n \in Nodes |-> [pc |-> "recv", msg |-> NoOne, pk |-> 0, tries |-> 0,
                              sended |-> TRUE, error |-> 0]]
    /\ ack = [n \in Nodes |-> [ok |-> FALSE, sem |-> 0]]
    /\ ev = [n \in Nodes |-> [pc |-> "recv", frame |-> NoBus]]
    /\ buf = [n \in Nodes |-> [data |-> <<>>, by |-> 0, cbsem |-> 0, waitsem |-> 0]]
    /\ ping = [n \in Nodes |-> [pc |-> "idle", dev |-> 0, round |-> 0, ok |-> FALSE,
                                sem |-> 0, by |-> 0, result |-> FALSE]]
    /\ offered = 0
    /\ outcome = [m \in Ids |-> "none"]
    /\ heard = [n \in Nodes |-> <<>>]
    /\ upset = {}

-----------------------------------------------------------------------------
(* The bus.                                                                *)

Upset(S) == upset' = upset \union S
MayFail(f) ==
    f \in BusFaults /\ (f \in upset \/ Cardinality(upset \intersect BusFaults) < MaxBusFaults)

Hearers(f) == {n \in Nodes \ {f.from} : f.to \in {n, RS485_BROADCAST}}

\* Another device sends to somebody who hears f.
Crossed(f) ==
    /\ f.kind = "data"
    /\ \E k \in Nodes \ {f.from} :
          tx[k].pc # "recv" /\ Hearers(f) \intersect Hearers([f EXCEPT !.from = k, !.to = tx[k].msg.to]) # {}

\* Frame f is written while `old` are the receive buffers: each device that
\* hears it gets it unless its driver is full or the bus garbles it.
Put(f, old, S) ==
    \E lost \in SUBSET Hearers(f) :
        /\ \A n \in Hearers(f) : Len(old[n]) = RxLength => n \in lost
        /\ (\E n \in lost : Len(old[n]) < RxLength) => MayFail("frame")
        /\ rx' = [n \in Nodes |-> IF n \in Hearers(f) \ lost THEN Append(old[n], f) ELSE old[n]]
        /\ Upset(S \union (IF lost # {} THEN {"frame"} ELSE {})
                   \union (IF Crossed(f) THEN {"mix"} ELSE {}))

-----------------------------------------------------------------------------
(* Sender and _Sender.                                                     *)

BusSender(n) ==
    \E t \in {u \in Traffic : u.from = n} :
        /\ ~Busy(n)
        /\ offered < MaxOps
        /\ LET m == [id |-> offered + 1, to |-> t.to, total |-> t.total]
           IN  call' = [call EXCEPT ![n] = [pc |-> "wait", sem |-> "empty", msg |-> m,
                                            queue |-> Append(@.queue, m)]]
        /\ tx' = [tx EXCEPT ![n].error = 0]
        /\ offered' = offered + 1
        /\ outcome' = [outcome EXCEPT ![offered + 1] = "pending"]
        /\ UNCHANGED <<rx, ack, ev, buf, ping, heard, upset>>

\* The wait of 2000 ms ends, with or without the completion; error 1 is the
\* only one that is reported.
BusSenderEnd(n) ==
    /\ Busy(n)
    /\ \/ call[n].sem = "full" /\ UNCHANGED upset
       \/ call[n].sem = "empty" /\ MayFail("latecall") /\ Upset({"latecall"})
    /\ call' = [call EXCEPT ![n].pc = "idle", ![n].sem = "null"]
    /\ outcome' = [outcome EXCEPT ![call[n].msg.id] = IF tx[n].error = 1 THEN "error" ELSE "ok"]
    /\ UNCHANGED <<rx, tx, ack, ev, buf, ping, offered, heard>>

-----------------------------------------------------------------------------
(* _sender_task.                                                           *)

TxOnly == UNCHANGED <<rx, ack, ev, buf, ping, offered, outcome, heard, upset>>

\* The loop over the packets goes on even when one was given up.
Advance(t) ==
    IF t.pk < t.msg.total
    THEN [t EXCEPT !.pc = "write", !.pk = @ + 1, !.tries = 0, !.sended = TRUE]
    ELSE [t EXCEPT !.pc = "give"]

TxReceive(n) ==
    /\ tx[n].pc = "recv"
    /\ call[n].queue # <<>>
    /\ tx' = [tx EXCEPT ![n] = Advance([@ EXCEPT !.pk = 0, !.msg = Head(call[n].queue)])]
    /\ call' = [call EXCEPT ![n].queue = Tail(@)]
    /\ TxOnly

Frame(n) == [kind |-> "data", from |-> n, to |-> tx[n].msg.to, msg |-> tx[n].msg.id,
             total |-> tx[n].msg.total, pk |-> tx[n].pk]

\* A packet is on the bus; one for everybody is not waited for.
Written(t) ==
    IF t.msg.to = RS485_BROADCAST
    THEN [t EXCEPT !.pc = "count", !.tries = @ + 1, !.sended = FALSE]
    ELSE [t EXCEPT !.pc = "clear", !.tries = @ + 1]

\* uart_flush throws away what this device received and has not read.
TxWrite(n) ==
    /\ tx[n].pc = "write"
    /\ LET flushed == [rx EXCEPT ![n] = <<>>]
           S == IF rx[n] # <<>> THEN {"flush"} ELSE {}
       IN  \/ /\ Put(Frame(n), flushed, S)
              /\ tx' = [tx EXCEPT ![n] = Written(@)]
           \/ /\ MayFail("short")
              /\ rx' = flushed
              /\ Upset(S \union {"short"})
              /\ tx' = [tx EXCEPT ![n].pc = "count", ![n].tries = @ + 1]
    /\ UNCHANGED <<call, ack, ev, buf, ping, offered, outcome, heard>>

\* ack_ok is cleared after the packet is on the bus.
TxClear(n) ==
    /\ tx[n].pc = "clear"
    /\ tx' = [tx EXCEPT ![n].pc = "ackwait"]
    /\ ack' = [ack EXCEPT ![n].ok = FALSE]
    /\ UNCHANGED <<rx, call, ev, buf, ping, offered, outcome, heard, upset>>

\* The frames that could still answer n.
Awaited(n, kinds) ==
    \E k \in Nodes : \E i \in 1 .. Len(rx[k]) :
        rx[k][i].kind \in kinds /\ n \in {rx[k][i].from, rx[k][i].to}

\* No acknowledgement: break leaves the loop, neither a retry nor an error.
AfterNoAck_Retried(n) == [tx[n] EXCEPT !.pc = "count"]
AfterNoAck(n) == Advance(tx[n])

TxAckWait(n) ==
    /\ tx[n].pc = "ackwait"
    /\ \/ ack[n].sem = 1 /\ UNCHANGED upset
       \/ /\ ack[n].sem = 0
          /\ IF Awaited(n, {"data", "ack"})
             THEN MayFail("lateack") /\ Upset({"lateack"}) ELSE UNCHANGED upset
    /\ ack' = [ack EXCEPT ![n].sem = 0]
    /\ tx' = [tx EXCEPT ![n] = IF ack[n].ok THEN [@ EXCEPT !.pc = "count", !.sended = FALSE]
                               ELSE AfterNoAck(n)]
    /\ UNCHANGED <<rx, call, ev, buf, ping, offered, outcome, heard>>

\* send_counter is looked at after a write that succeeded, too.
TxCount(n) ==
    /\ tx[n].pc = "count"
    /\ tx' = [tx EXCEPT ![n] =
                 IF @.tries > TrySteps THEN Advance([@ EXCEPT !.error = 1])
                 ELSE IF @.sended THEN [@ EXCEPT !.pc = "write"] ELSE Advance(@)]
    /\ UNCHANGED call /\ TxOnly

TxGive(n) ==
    /\ tx[n].pc = "give"
    /\ tx' = [tx EXCEPT ![n].pc = "recv", ![n].msg = NoOne, ![n].pk = 0]
    /\ call' = [call EXCEPT ![n].sem = IF @ = "null" THEN @ ELSE "full"]
    /\ TxOnly

-----------------------------------------------------------------------------
(* _event_task and _callback_task.                                         *)

Reply(f, n) == [f EXCEPT !.from = n, !.to = f.from,
                         !.kind = IF f.kind = "data" THEN "ack" ELSE "pong"]

\* A frame is read; a packet or a ping for this device is answered at once.
EvTake(n) ==
    /\ ev[n].pc = "recv"
    /\ rx[n] # <<>>
    /\ LET f    == Head(rx[n])
           rest == [rx EXCEPT ![n] = Tail(@)]
       IN  /\ IF f.to = n /\ f.kind \in {"data", "ping"}
              THEN Put(Reply(f, n), rest, {})
              ELSE rx' = rest /\ UNCHANGED upset
           /\ ack' = [ack EXCEPT ![n] = IF f.kind = "ack" THEN [ok |-> TRUE, sem |-> 1] ELSE @]
           /\ ping' = [ping EXCEPT ![n] = IF f.kind = "pong"
                                          THEN [@ EXCEPT !.ok = TRUE, !.sem = 1, !.by = f.msg]
                                          ELSE @]
           /\ ev' = [ev EXCEPT ![n] = IF f.kind = "data" THEN [pc |-> "decode", frame |-> f] ELSE @]
    /\ UNCHANGED <<call, tx, buf, offered, outcome, heard>>

\* paket_decode: packet 1 takes a new buffer, a packet goes to its place, and
\* the last one alone decides that the message is there.
Placed(data, f) ==
    LET b == IF f.pk = 1 THEN [i \in 1 .. f.total |-> 0] ELSE data
    IN  IF f.pk \in DOMAIN b THEN [b EXCEPT ![f.pk] = f.msg] ELSE b

EvDecode(n) ==
    /\ ev[n].pc = "decode"
    /\ LET f    == ev[n].frame
           data == Placed(buf[n].data, f)
           done == data # <<>> /\ f.pk = f.total
       IN  /\ buf' = [buf EXCEPT ![n].data = data, ![n].cbsem = IF done THEN 1 ELSE @,
                                 ![n].by = IF done THEN f.msg ELSE @]
           /\ ev' = [ev EXCEPT ![n] = IF done THEN [@ EXCEPT !.pc = "cbwait"]
                                      ELSE [pc |-> "recv", frame |-> NoBus]]
    /\ UNCHANGED <<rx, call, tx, ack, ping, offered, outcome, heard, upset>>

EvCallback(n) ==
    /\ ev[n].pc = "cbwait"
    /\ \/ buf[n].waitsem = 1 /\ UNCHANGED upset
       \/ buf[n].waitsem = 0 /\ MayFail("callback") /\ Upset({"callback"})
    /\ buf' = [buf EXCEPT ![n].waitsem = 0]
    /\ ev' = [ev EXCEPT ![n] = [pc |-> "recv", frame |-> NoBus]]
    /\ UNCHANGED <<rx, call, tx, ack, ping, offered, outcome, heard>>

CbRun(n) ==
    /\ buf[n].cbsem = 1
    /\ heard' = [heard EXCEPT ![n] = Append(@, [data |-> buf[n].data, by |-> buf[n].by])]
    /\ buf' = [buf EXCEPT ![n].cbsem = 0, ![n].waitsem = 1]
    /\ UNCHANGED <<rx, call, tx, ack, ev, ping, offered, outcome, upset>>

-----------------------------------------------------------------------------
(* ping.                                                                   *)

PingWrite(n) ==
    /\ n \in Pingers
    /\ ping[n].pc = "idle"
    /\ offered < MaxOps
    /\ offered' = offered + 1
    /\ \E d \in Nodes \ {n} :
          \/ /\ ping' = [ping EXCEPT ![n].pc = "clear", ![n].dev = d, ![n].round = offered + 1]
             /\ Put([NoBus EXCEPT !.kind = "ping", !.from = n, !.to = d,
                                  !.msg = offered + 1], rx, {})
          \/ /\ MayFail("short") /\ Upset({"short"})
             /\ ping' = [ping EXCEPT ![n].dev = d, ![n].round = offered + 1, ![n].result = FALSE]
             /\ UNCHANGED rx
    /\ UNCHANGED <<call, tx, ack, ev, buf, outcome, heard>>

Cleared_Kept(p) == [p EXCEPT !.pc = "wait"]
Cleared(p) == [p EXCEPT !.pc = "wait", !.ok = FALSE]

PingClear(n) ==
    /\ ping[n].pc = "clear"
    /\ ping' = [ping EXCEPT ![n] = Cleared(@)]
    /\ Upset(IF ping[n].ok /\ ping[n].by = ping[n].round THEN {"early"} ELSE {})
    /\ UNCHANGED <<rx, call, tx, ack, ev, buf, offered, outcome, heard>>

PingWait(n) ==
    /\ ping[n].pc = "wait"
    /\ \/ ping[n].sem = 1 /\ UNCHANGED upset
       \/ /\ ping[n].sem = 0
          /\ IF Awaited(n, {"ping", "pong"})
             THEN MayFail("latepong") /\ Upset({"latepong"}) ELSE UNCHANGED upset
    /\ ping' = [ping EXCEPT ![n].pc = "idle", ![n].sem = 0, ![n].result = ping[n].ok]
    /\ UNCHANGED <<rx, call, tx, ack, ev, buf, offered, outcome, heard>>

BusNext == \E n \in Nodes :
    \/ BusSender(n) \/ BusSenderEnd(n)
    \/ TxReceive(n) \/ TxWrite(n) \/ TxClear(n) \/ TxAckWait(n)
    \/ TxCount(n) \/ TxGive(n)
    \/ EvTake(n) \/ EvDecode(n) \/ EvCallback(n) \/ CbRun(n)
    \/ PingWrite(n) \/ PingClear(n) \/ PingWait(n)

BusSpec == BusInit /\ [][BusNext]_busVars

-----------------------------------------------------------------------------
(* Properties.                                                             *)

IsWhole(b) == \A i \in DOMAIN b : b[i] = b[1] /\ b[1] # 0
HeardBy(n) == {heard[n][i].data[1] : i \in 1 .. Len(heard[n])}
OnItsWay(n, m) ==
    \/ ev[n].pc # "recv" /\ ev[n].frame.msg = m
    \/ \E i \in 1 .. Len(rx[n]) : rx[n][i].kind = "data" /\ rx[n][i].msg = m

\* The last packet of a message starts the callback of a device once, whatever
\* is lost, late or cut short: the sender never repeats a packet that is on the
\* bus, and only for that reason does the receiver need no record of what it had.
HeardOnce ==
    \A n \in Nodes : \A i, j \in 1 .. Len(heard[n]) :
        i # j => heard[n][i].by # heard[n][j].by

\* As long as nothing was lost, flushed, late, or sent by two devices to one,
\* callbacks get whole messages, and a message Sender reported as sent has
\* reached every device it was for.  The task has no other evidence than
\* ack_ok, and that flag is cleared after the packet was written.
QuietBusDelivers ==
    upset \subseteq {"early", "latepong", "lateack"} =>
        /\ \A n \in Nodes : \A i \in 1 .. Len(heard[n]) : IsWhole(heard[n][i].data)
        /\ \A m \in Ids : outcome[m] = "ok" =>
              \A k \in Nodes : call[k].msg.id = m =>
                  \A n \in Hearers([NoBus EXCEPT !.from = k, !.to = call[k].msg.to]) :
                      m \in HeardBy(n) \/ OnItsWay(n, m)

\* ping tells the truth unless a pong outlived the wait for it, a frame was
\* lost, or the answer was there before ping_ok was cleared: true, the device
\* answered this very ping; false, it did not answer within the second.
PingTruth ==
    \A n \in Pingers :
        ping[n].pc = "idle" /\ ping[n].round > 0 =>
            /\ ping[n].result => ping[n].by = ping[n].round \/ "latepong" \in upset
            /\ ~ping[n].result => upset # {}
=============================================================================
