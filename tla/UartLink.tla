------------------------------ MODULE UartLink ------------------------------
(***************************************************************************)
(* A UartSender and a UartReceiver at the two ends of one wire, the same   *)
(* class at both ends: transmissions become frames in the driver of the    *)
(* receiver, and its ACK pulse is the interrupt of the sender.             *)
(*                                                                         *)
(* Faults names what may go wrong in an instance:                          *)
(*   frame     the receiver's driver loses or discards frames              *)
(*   ack       a pulse raises no interrupt                                 *)
(*   lateack   the sender's 500 ticks end before the receiver answered     *)
(*   caller    the 2000 ms of Sender end before the message is settled     *)
(*   callback  the 1000 ms of the event task end before the callback       *)
(* and happened collects the ones that did.  It also notes two things that *)
(* are no faults of the surroundings: overlap, a call that was not alone    *)
(* with the link, and restart, an abort of the sending chip with a frame    *)
(* still on its way.                                                        *)
(***************************************************************************)
EXTENDS UartSender, UartReceiver, FiniteSets

CONSTANTS
    Faults,        \* the kinds of fault the instance allows
    MaxFaultKinds  \* bound: kinds that may meet in one behaviour

AllFaults == {"frame", "ack", "lateack", "caller", "callback"}
Notes     == {"overlap", "restart"}

ASSUME LinkAssumption ==
    /\ Faults \subseteq AllFaults
    /\ MaxFaultKinds \in Nat
    /\ RxQueueLength \in Nat \ {0}
    /\ HeaderBits \in Nat \ {0}

VARIABLES
    happened,  \* ghost: the faults and the notes so far
    heard      \* ghost: what the callback was handed, in order

linkVars == <<vars, rxVars, happened, heard>>

Frames   == {f \in [id : MsgIds, total : 1 .. MaxPk, pk : 1 .. MaxPk] : f.pk <= f.total}
Buffers  == UNION {[1 .. n -> 0 .. MaxCalls] : n \in 1 .. MaxPk}
RxPlaces == {"recv", "ack", "decode", "cbwait"}
RxStates == [pc : RxPlaces, frame : Frames \union {NoFrame}]

\* A packet on its way is one of a message of the sender, and a buffer is as
\* long as one of its messages.
FrameTypes ==
    /\ rx_buf \in Seq(Frames)
    /\ Len(rx_buf) <= RxQueueLength
    /\ rx \in RxStates
    /\ rx.pc \in {"ack", "decode"} => rx.frame \in Frames

BufferTypes ==
    /\ paket_buffer \in Buffers \union {NoBuffer}
    /\ cb \in Buffers \union {NoBuffer}
    /\ heard \in Seq(Buffers)
    /\ callback_sem = 1 => paket_buffer # NoBuffer

LinkTypes ==
    /\ TypeOK
    /\ FrameTypes
    /\ BufferTypes
    /\ paket_header \in 0 .. MaxPk
    /\ callback_sem \in {0, 1}
    /\ wait_sem \in {0, 1}
    /\ happened \subseteq Faults \union Notes

LinkInit ==
    /\ Init
    /\ RxInit
    /\ happened = {}
    /\ heard = <<>>

Fault(f) ==
    /\ f \in Faults
    /\ f \in happened \/ Cardinality(happened \ Notes) < MaxFaultKinds
    /\ happened' = happened \union {f}
NoFault  == UNCHANGED happened
Note(n, b) == happened' = IF b THEN happened \union {n} ELSE happened

CurrentFrame == [id |-> task.msg.id, total |-> task.msg.total, pk |-> task.pk]

\* A frame of the sender is on its way and its pulse may still come.
AckMayCome == rx_buf # <<>> \/ rx.pc = "ack"

-----------------------------------------------------------------------------
(* The sender's side.  A short write leaves no whole frame on the wire.    *)

Transmit ==
    /\ TaskWrite
    /\ \/ /\ task'.pc = "ackwait"
          /\ Arrive(CurrentFrame)
          /\ IF RxFull THEN Fault("frame") ELSE NoFault
       \/ /\ task'.pc = "count"
          /\ Fault("frame")
          /\ UNCHANGED rx_buf
    /\ UNCHANGED <<rx, paket_buffer, paket_header, callback_sem, wait_sem, cb,
                   heard>>

AckTimeout ==
    /\ TaskNoAck
    /\ IF AckMayCome THEN Fault("lateack") ELSE NoFault
    /\ UNCHANGED <<rxVars, heard>>

CallTimeout(c) ==
    /\ WaitTimeout(c)
    /\ Fault("caller")
    /\ UNCHANGED <<rxVars, heard>>

SenderTaskStep ==
    /\ TaskReceive \/ TaskAck \/ TaskCount \/ TaskNext \/ TaskCheck \/ TaskGive
    /\ UNCHANGED <<rxVars, happened, heard>>

LinkCall(c) ==
    /\ \/ SenderBusy(c)
       \/ \E n \in 1 .. MaxPk : SenderEnter(c, n)
    /\ UNCHANGED <<rxVars, happened, heard>>

LinkCallerStep(c) ==
    /\ \/ SetBusy(c) \/ CreateSem(c) \/ ClearError(c) \/ Enqueue(c)
       \/ TakeSem(c) \/ Completed(c) \/ DeleteSem(c) \/ NullSem(c)
       \/ ReadError(c) \/ Release(c)
    /\ Note("overlap", Disturbed')
    /\ UNCHANGED <<rxVars, heard>>

\* The sending chip aborts and restarts; the peer goes on.
LinkReboot ==
    /\ Reboot
    /\ Note("restart", AckMayCome)
    /\ UNCHANGED <<rxVars, heard>>

-----------------------------------------------------------------------------
(* The receiver's side.                                                    *)

\* An aborted chip has no interrupts.
Acknowledge ==
    /\ RxAck
    /\ \/ ~panic /\ AckHandler /\ NoFault
       \/ panic /\ UNCHANGED vars /\ NoFault
       \/ UNCHANGED vars /\ Fault("ack")
    /\ UNCHANGED heard

Flush == RxFlush /\ Fault("frame") /\ UNCHANGED <<vars, heard>>

CallbackTimeout ==
    RxCallbackTimeout /\ Fault("callback") /\ UNCHANGED <<vars, heard>>

Callback ==
    /\ CbStart
    /\ heard' = Append(heard, paket_buffer)
    /\ UNCHANGED <<vars, happened>>

CallbackReturns == CbEnd /\ UNCHANGED <<vars, happened, heard>>

ReceiverTaskStep ==
    /\ RxTake \/ RxDecode \/ RxCallbackDone
    /\ UNCHANGED <<vars, happened, heard>>

-----------------------------------------------------------------------------
LinkNext ==
    \/ /\ ~panic
       /\ \/ \E c \in Callers :
                LinkCall(c) \/ LinkCallerStep(c) \/ CallTimeout(c)
          \/ SenderTaskStep
          \/ Transmit
          \/ AckTimeout
    \/ LinkReboot
    \/ Acknowledge
    \/ Flush
    \/ CallbackTimeout
    \/ Callback
    \/ CallbackReturns
    \/ ReceiverTaskStep

LinkSpec == LinkInit /\ [][LinkNext]_linkVars

\* Ready tasks run at both ends, and the application's callback returns.
LinkFairness ==
    /\ \A c \in Callers : WF_linkVars(~panic /\ LinkCallerStep(c))
    /\ WF_linkVars(~panic /\ (SenderTaskStep \/ Transmit \/ AckTimeout))
    /\ WF_linkVars(ReceiverTaskStep)
    /\ WF_linkVars(Acknowledge)
    /\ WF_linkVars(Callback)
    /\ WF_linkVars(CallbackReturns)

FairLinkSpec == LinkSpec /\ LinkFairness

-----------------------------------------------------------------------------
(* What the link promises.                                                 *)

\* The messages a buffer was assembled from.
Sources(buf) == {buf[k] : k \in DOMAIN buf}
Whole(buf)   == 0 \notin Sources(buf) /\ Cardinality(Sources(buf)) = 1

\* An answer came when nobody waited for it any more: the pulse of an earlier
\* transmission, or the end of an earlier callback.
Untimely == happened \intersect {"lateack", "restart", "callback"} # {}

\* The callback is handed every packet of one message and nothing else, as
\* long as every answer came in time and no call cleared the error flag of
\* another (uart.cpp:157-178: completion looks at the last packet only).
WholeMessages ==
    (\E i \in 1 .. Len(heard) : ~Whole(heard[i])) =>
        Untimely \/ "overlap" \in happened

\* A message reaches the callback twice only if a pulse was lost or late, or
\* one call drove the packets of another on: the receiver does not recognise
\* a repeated last packet.
NoDuplicates ==
    (\E i, j \in 1 .. Len(heard) : i # j /\ heard[i] = heard[j]) =>
        Untimely \/ happened \intersect {"ack", "overlap"} # {}

\* The callback works on a buffer that does not change under it, as long as
\* it is done within 1000 ms (uart.cpp:282-283, 162-164).
BufferHeld ==
    cb # NoBuffer /\ cb # paket_buffer => "callback" \in happened

\* A packet is copied to its place in a buffer that has this place, on the same
\* terms: the buffer is as long as the message whose first packet came last
\* (uart.cpp:163-170).
StoredInBuffer ==
    rx.pc = "decode" /\ BufferFor(rx.frame) # NoBuffer =>
        \/ rx.frame.pk \in DOMAIN BufferFor(rx.frame)
        \/ Untimely \/ "overlap" \in happened

\* What the receiving half promises its callback: whole messages, each once, in a
\* buffer that is the callback's until it is done and that no packet overruns.
ReceiverPromise == WholeMessages /\ NoDuplicates /\ BufferHeld /\ StoredInBuffer

\* RET_OK of a quiet call in time means the peer assembled the message, if
\* every answer came in time and the packets fit the header word.
OkMeansHeard ==
    \A c \in Callers :
        /\ pc[c] = "release" /\ ret[c] = "RET_OK"
        /\ quiet[c] /\ ~late[c]
        /\ msg[c].total < HeaderBits
        /\ ~Untimely
        => \/ rx.pc = "decode"
           \/ callback_sem = 1
           \/ \E i \in 1 .. Len(heard) : msg[c].id \in Sources(heard[i])

\* What the link implements while frames may be lost but pulses are neither
\* lost nor late and both ends keep their timeouts: messages arrive in the
\* order of the calls, none twice, and a message every packet of which was
\* acknowledged does arrive.
Channel == INSTANCE MessageChannel WITH
    MaxMessages <- MaxCalls,
    offered     <- calls,
    confirmed   <- {i \in MsgIds : fate[i] = "sent"},
    delivered   <- [i \in 1 .. Len(heard) |-> heard[i][1]]

ImplementsChannel == Channel!Spec

(* The inductive strengthening of what the receiver promises.              *)

\* Messages have packets, and the loop over them stays among them.
LoopInv ==
    /\ \A c \in Callers : pc[c] # "idle" => msg[c].total \in 1 .. MaxPk
    /\ \A i \in 1 .. Len(send_queue) : send_queue[i].total \in 1 .. MaxPk
    /\ task.pc # "recv" => task.msg.total \in 1 .. MaxPk
    /\ InLoop => task.pk \in 1 .. task.msg.total
    /\ task.pc \in {"write", "ackwait"} => task.sended

\* While the callback keeps its 1000 ms, one token goes around: the event task
\* waits for it, and the buffer does not change.
TokenInv ==
    "callback" \notin happened =>
        /\ rx.pc # "cbwait" => callback_sem = 0 /\ cb = NoBuffer /\ wait_sem = 0
        /\ callback_sem = 1 => cb = NoBuffer /\ wait_sem = 0
        /\ cb # NoBuffer => wait_sem = 0 /\ cb = paket_buffer

\* One packet is on its way at most, and the sender waits for its pulse.
FlightInv ==
    ~Untimely =>
        /\ AckMayCome \/ ack_wait_sem = 1 => task.pc = "ackwait"
        /\ Len(rx_buf) <= 1
        /\ rx_buf # <<>> => rx.pc # "ack" /\ ack_wait_sem = 0 /\ Head(rx_buf) = CurrentFrame
        /\ rx.pc = "ack" => ack_wait_sem = 0 /\ rx.frame = CurrentFrame

\* The buffer with the packet that is being looked at in its place.
Buffer == IF rx.pc = "decode" THEN Store(BufferFor(rx.frame), rx.frame) ELSE paket_buffer

\* How many packets of its message the sender task saw acknowledged.
Acked == IF \/ task.pc = "write"
            \/ task.pc = "ackwait" /\ ack_wait_sem = 0
            \/ task.pc = "count" /\ task.sended
         THEN task.pk - 1 ELSE task.pk

\* The receiver holds as many packets, or had all of them already.
Filled(n)   == n >= 1 => /\ DOMAIN Buffer = 1 .. task.msg.total
                         /\ \A k \in 1 .. n : Buffer[k] = task.msg.id
Arrived(id) ==
    \/ /\ rx.pc = "decode" /\ rx.frame.id = id /\ Complete(rx.frame)
       /\ rx.frame.pk = 1 \/ rx.frame.pk \in DOMAIN paket_buffer
    \/ callback_sem = 1 /\ id \in Sources(paket_buffer)
    \/ \E i \in 1 .. Len(heard) : id \in Sources(heard[i])

AssemblyInv ==
    ~Untimely /\ InLoop /\ task.ok =>
        /\ Acked < task.msg.total => Filled(Acked)
        /\ Acked = task.msg.total /\ Acked < HeaderBits => Arrived(task.msg.id)

\* The sender task is through with the message of a call that waits alone.
Answered(c) ==
    /\ quiet[c] /\ ~late[c]
    /\ \/ pc[c] \in {"take", "wait"} /\ send_queue = <<>> /\ ~InLoop
       \/ pc[c] \in {"delete", "null", "read", "release"}

AnswerInv ==
    ~Untimely =>
        \A c \in Callers :
            Answered(c) /\ fate[msg[c].id] = "sent" /\ msg[c].total < HeaderBits
                => Arrived(msg[c].id)

\* A call that is not alone is noted, and without one no message goes on after
\* a packet was given up.
OverlapInv ==
    "overlap" \notin happened =>
        ~Disturbed /\ (task.pc \in {"write", "ackwait", "count"} => task.ok)

Clean == ~Untimely /\ "overlap" \notin happened

\* Every packet finds the ones before it in the buffer.
WholeInv ==
    Clean =>
        /\ rx.pc \in {"ack", "decode"} =>
              \/ rx.frame.pk = 1
              \/ /\ DOMAIN paket_buffer = 1 .. rx.frame.total
                 /\ \A k \in 1 .. rx.frame.pk - 1 : paket_buffer[k] = rx.frame.id
        /\ callback_sem = 1 => Whole(paket_buffer)
        /\ \A i \in 1 .. Len(heard) : Whole(heard[i])

\* A message is in one place on its way to the task.
Waiting(c) == pc[c] \in {"set", "create", "clear", "queue"}
DistinctInv ==
    /\ \A c, d \in Callers : c # d /\ Waiting(c) /\ Waiting(d) => msg[c].id # msg[d].id
    /\ \A c \in Callers : Waiting(c) =>
          /\ \A i \in 1 .. Len(send_queue) : send_queue[i].id # msg[c].id
          /\ task.pc # "recv" => task.msg.id # msg[c].id
    /\ \A i, j \in 1 .. Len(send_queue) : i # j => send_queue[i].id # send_queue[j].id
    /\ \A i \in 1 .. Len(send_queue) : task.pc # "recv" => task.msg.id # send_queue[i].id
    /\ \A i \in 1 .. Len(send_queue) : send_queue[i].id <= calls
    /\ task.msg.id <= calls

\* The messages that reached the receiver in whole.
IsOut(id) ==
    \/ rx.pc = "decode" /\ Complete(rx.frame) /\ rx.frame.id = id
    \/ callback_sem = 1 /\ paket_buffer[1] = id
    \/ \E i \in 1 .. Len(heard) : heard[i][1] = id

\* The last packet of a message will not be sent any more: it was acknowledged,
\* or the chip that aborted has no pulse to wait for.
Spent(id) ==
    /\ id <= calls
    /\ \A c \in Callers : Waiting(c) => msg[c].id # id
    /\ \A i \in 1 .. Len(send_queue) : send_queue[i].id # id
    /\ InLoop /\ Acked < task.msg.total /\ (~panic \/ AckMayCome) => task.msg.id # id

\* If no pulse is lost, no message reaches the receiver in whole before its last
\* packet was acknowledged, so none gets there twice.
FreshInv ==
    Clean /\ "ack" \notin happened =>
        /\ \A i, j \in 1 .. Len(heard) : i # j => heard[i][1] # heard[j][1]
        /\ callback_sem = 1 => \A i \in 1 .. Len(heard) : heard[i][1] # paket_buffer[1]
        /\ rx.pc = "decode" /\ Complete(rx.frame) =>
              \A i \in 1 .. Len(heard) : heard[i][1] # rx.frame.id
        /\ \A id \in 0 .. MaxCalls : IsOut(id) => Spent(id)

LinkInv ==
    /\ LinkTypes /\ LoopInv /\ TokenInv /\ FlightInv
    /\ AssemblyInv /\ AnswerInv /\ OverlapInv /\ WholeInv
    /\ DistinctInv /\ FreshInv

(* The inductive strengthening of the refinement: one task calls, and nothing *)
(* but frames may be lost.                                                 *)

AloneInv ==
    /\ happened \subseteq {"frame"} /\ ~panic
    /\ \A c \in Callers : quiet[c] /\ ~late[c]

\* A message some packet of which may still be sent.
OnItsWay(id) ==
    \/ \E c \in Callers : Waiting(c) /\ msg[c].id = id
    \/ \E i \in 1 .. Len(send_queue) : send_queue[i].id = id
    \/ InLoop /\ task.msg.id = id

\* What was confirmed is at the other end and not on its way there.
ConfirmedInv ==
    \A i \in MsgIds : fate[i] = "sent" => i <= calls /\ IsOut(i) /\ ~OnItsWay(i)

\* What is at the other end was called no later than what is on its way there.
OrderInv ==
    /\ \A id, on \in 0 .. MaxCalls : IsOut(id) /\ OnItsWay(on) => id <= on
    /\ callback_sem = 1 => \A i \in 1 .. Len(heard) : heard[i][1] <= paket_buffer[1]
    /\ rx.pc = "decode" /\ Complete(rx.frame) =>
          \A i \in 1 .. Len(heard) : heard[i][1] <= rx.frame.id

ChannelInv == AloneInv /\ ConfirmedInv /\ OrderInv
=============================================================================
