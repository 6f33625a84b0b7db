---------------------------- MODULE MCUartSender ----------------------------
(* Instance of UartSender for TLC: the two tasks of the application that    *)
(* call Sender, the event loop task and the callback task.                  *)
EXTENDS UartSender, TLC

CONSTANTS event_loop, callback_task

MCCallers == {event_loop, callback_task}
CallerSymmetry == Permutations(MCCallers)
=============================================================================
