----------------------------- MODULE MCUartLink -----------------------------
(* One calling task at one end of the link, every kind of fault.            *)
EXTENDS UartLink

CONSTANTS event_loop

MCCallers == {event_loop}

\* A third call comes where frames were lost and calls timed out, which is what
\* it takes for one call to leave another a message half sent; the other faults
\* are followed for two calls.
ThirdCallFaults == calls > 2 => happened \subseteq {"frame", "caller", "overlap"}
=============================================================================
