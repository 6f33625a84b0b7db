---------------------------- MODULE MCTcpServer -----------------------------
(* Two addresses, two descriptors, three connections: a descriptor is used   *)
(* again by the same and by the other address, and accept runs out of them.  *)
EXTENDS TcpServer, TLC

CONSTANTS phone, panel, event_loop, callback_task

MCPeers       == {phone, panel}
MCSenders     == {event_loop, callback_task}
MCDescriptors == {1, 2}
PeerSymmetry  == Permutations(MCPeers)

\* Behaviours are followed up to the first overtaken task or late event, the
\* two things that excuse a step from the properties.
Undisturbed == ~raced /\ ~slow
=============================================================================
