--------------------------- MODULE MCUartSenderOne ---------------------------
(* One calling task and more calls: what a late completion does to the next *)
(* calls, a full send_queue, and the two waits under fairness.              *)
EXTENDS UartSender

CONSTANTS event_loop

MCCallers == {event_loop}
=============================================================================
