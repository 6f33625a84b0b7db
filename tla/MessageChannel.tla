--------------------------- MODULE MessageChannel ---------------------------
(***************************************************************************)
(* What the UART link promises its two applications: messages, numbered in *)
(* the order they were offered, are delivered in that order and none       *)
(* twice.  A message may be lost, but not one that was confirmed.          *)
(***************************************************************************)
EXTENDS Naturals, Sequences

CONSTANT MaxMessages

VARIABLES
    offered,    \* how many messages were offered
    confirmed,  \* the messages the sender was told are across
    delivered   \* the messages the receiver was handed, in order

channelVars == <<offered, confirmed, delivered>>

Delivered == {delivered[i] : i \in 1 .. Len(delivered)}

\* Still possible: nothing at or after i was delivered.
Open(i) == \A j \in Delivered : j < i

Init ==
    /\ offered = 0
    /\ confirmed = {}
    /\ delivered = <<>>

Offer ==
    /\ offered < MaxMessages
    /\ offered' = offered + 1
    /\ UNCHANGED <<confirmed, delivered>>

Confirm(i) ==
    /\ i <= offered
    /\ Open(i) \/ i \in Delivered
    /\ confirmed' = confirmed \union {i}
    /\ UNCHANGED <<offered, delivered>>

\* A confirmed message is not overtaken.
Deliver(i) ==
    /\ i <= offered
    /\ Open(i)
    /\ \A j \in confirmed : j < i => j \in Delivered
    /\ delivered' = Append(delivered, i)
    /\ UNCHANGED <<offered, confirmed>>

Next ==
    \/ Offer
    \/ \E i \in 1 .. MaxMessages : Confirm(i) \/ Deliver(i)

Spec ==
    /\ Init
    /\ [][Next]_channelVars
    /\ \A i \in 1 .. MaxMessages :
          WF_channelVars(i \in confirmed /\ Deliver(i))
=============================================================================
