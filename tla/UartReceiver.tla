---------------------------- MODULE UartReceiver ----------------------------
(***************************************************************************)
(* The receiving half of the UART link: _event_task, which reads one frame *)
(* per pattern event, pulses the ACK pin and assembles the message in      *)
(* paket_buffer (paket_decode), and _callback_task, which hands a finished *)
(* message to the application.  They hand the buffer over with two binary  *)
(* semaphores: callback_sem starts the callback, wait_sem ends it.         *)
(*                                                                         *)
(* A frame carries one packet: the message it belongs to, the number of    *)
(* packets of that message and its own number.  The module has no Next of  *)
(* its own: UartLink puts it at the other end of a UartSender.             *)
(***************************************************************************)
EXTENDS Naturals, Sequences

CONSTANTS
    RxQueueLength,  \* pattern events the driver keeps: 20 in the code
    HeaderBits      \* width of paket_header: 32 in the code

VARIABLES
    rx_buf,        \* frames the driver received and the task has not read
    rx,            \* the event task: where it stands and the frame it holds
    paket_buffer,  \* NoBuffer, or for each packet place the message found there
    paket_header,  \* the bit that is set in paket_header, 0 when it is zero
    callback_sem,
    wait_sem,
    cb             \* the callback task: the message it was handed, NoBuffer if none

rxVars == <<rx_buf, rx, paket_buffer, paket_header, callback_sem, wait_sem, cb>>

NoBuffer == <<>>
NoFrame  == [id |-> 0, total |-> 0, pk |-> 0]
IdleRx   == [pc |-> "recv", frame |-> NoFrame]

RxInit ==
    /\ rx_buf = <<>>
    /\ rx = IdleRx
    /\ paket_buffer = NoBuffer
    /\ paket_header = 0
    /\ callback_sem = 0
    /\ wait_sem = 0
    /\ cb = NoBuffer

-----------------------------------------------------------------------------
(* The driver.                                                             *)

RxFull_Never == FALSE
RxFull == Len(rx_buf) = RxQueueLength

\* A frame and its ## pattern arrived; a full driver loses it.
Arrive(f) == rx_buf' = IF RxFull THEN rx_buf ELSE Append(rx_buf, f)

\* UART_FIFO_OVF, UART_BUFFER_FULL, a pattern position of -1, and uart_flush
\* at the head of every transmission of this side: all input is discarded.
RxFlush ==
    /\ rx_buf # <<>>
    /\ rx_buf' = <<>>
    /\ UNCHANGED <<rx, paket_buffer, paket_header, callback_sem, wait_sem, cb>>

-----------------------------------------------------------------------------
(* _event_task.                                                            *)

RxTake ==
    /\ rx.pc = "recv"
    /\ rx_buf # <<>>
    /\ rx' = [pc |-> "ack", frame |-> Head(rx_buf)]
    /\ rx_buf' = Tail(rx_buf)
    /\ UNCHANGED <<paket_buffer, paket_header, callback_sem, wait_sem, cb>>

\* The pulse on ATX comes before the packet is looked at.
RxAck ==
    /\ rx.pc = "ack"
    /\ rx' = [rx EXCEPT !.pc = "decode"]
    /\ UNCHANGED <<rx_buf, paket_buffer, paket_header, callback_sem, wait_sem, cb>>

\* paket_decode, first part: packet 1 takes a new zeroed buffer.  The old one
\* is freed when no assembly was in progress, and leaked otherwise.
BufferFor_OnlyOnce(f) ==
    IF f.pk = 1 /\ paket_buffer = NoBuffer THEN [k \in 1 .. f.total |-> 0] ELSE paket_buffer
BufferFor(f) ==
    IF f.pk = 1 THEN [k \in 1 .. f.total |-> 0] ELSE paket_buffer

\* Second part: the packet is copied to its place.
Store(buf, f) ==
    IF f.pk \in DOMAIN buf THEN [buf EXCEPT ![f.pk] = f.id] ELSE buf

\* 1ULL << current_pk assigned to a field of HeaderBits bits.
Header_ZeroBased(f) == f.pk - 1
Header(f) == IF f.pk < HeaderBits THEN f.pk ELSE 0

Complete(f) == Header(f) = f.total

\* After a complete message the task waits for the callback.
AfterComplete_NoWait == IdleRx
AfterComplete == [pc |-> "cbwait", frame |-> NoFrame]

RxDecode ==
    /\ rx.pc = "decode"
    /\ LET f == rx.frame
       IN  IF BufferFor(f) = NoBuffer
           THEN /\ rx' = IdleRx
                /\ UNCHANGED <<paket_buffer, paket_header, callback_sem>>
           ELSE /\ paket_buffer' = Store(BufferFor(f), f)
                /\ IF Complete(f)
                   THEN /\ paket_header' = 0
                        /\ callback_sem' = 1
                        /\ rx' = AfterComplete
                   ELSE /\ paket_header' = Header(f)
                        /\ rx' = IdleRx
                        /\ UNCHANGED callback_sem
    /\ UNCHANGED <<rx_buf, wait_sem, cb>>

RxCallbackDone ==
    /\ rx.pc = "cbwait"
    /\ wait_sem = 1
    /\ wait_sem' = 0
    /\ rx' = IdleRx
    /\ UNCHANGED <<rx_buf, paket_buffer, paket_header, callback_sem, cb>>

\* 1000 ms without an answer; the task goes on with the next frame.
RxCallbackTimeout ==
    /\ rx.pc = "cbwait"
    /\ wait_sem = 0
    /\ rx' = IdleRx
    /\ UNCHANGED <<rx_buf, paket_buffer, paket_header, callback_sem, wait_sem, cb>>

-----------------------------------------------------------------------------
(* _callback_task.                                                         *)

CbStart ==
    /\ cb = NoBuffer
    /\ callback_sem = 1
    /\ callback_sem' = 0
    /\ cb' = paket_buffer
    /\ UNCHANGED <<rx_buf, rx, paket_buffer, paket_header, wait_sem>>

CbEnd ==
    /\ cb # NoBuffer
    /\ cb' = NoBuffer
    /\ wait_sem' = 1
    /\ UNCHANGED <<rx_buf, rx, paket_buffer, paket_header, callback_sem>>

RxTaskStep == RxTake \/ RxAck \/ RxDecode \/ RxCallbackDone \/ RxCallbackTimeout
CbTaskStep == CbStart \/ CbEnd
=============================================================================
