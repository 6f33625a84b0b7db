--------------------------- MODULE EspNowReceive ----------------------------
(***************************************************************************)
(* The receiving half of ESP-NOW: receive_callback, which runs in the      *)
(* Wi-Fi task, checks the CRC, registers an unknown peer and queues the    *)
(* frame, and receive_task, which collects the packets of each peer in one *)
(* of NMAX_PAKET slots (findpk, findfreepk) and hands the buffer to the    *)
(* application when the packet with the last number arrives.               *)
(*                                                                         *)
(* The peers run the same code: a peer sends the packets of a message in   *)
(* order, may send one twice, and gives the message up after packet k when *)
(* k + 1 is not acknowledged.  receive_task's answer to a ping is in       *)
(* EspNowSend.                                                             *)
(***************************************************************************)
EXTENDS Naturals, Sequences, FiniteSets

CONSTANTS
    Peers,          \* ids of the devices that send
    NMAX_PAKET,     \* slots: 5 in the code
    QUEUE_SIZE,     \* length of receive_queue: 5 in the code
    MaxTotal,       \* bound: packets of the longest message
    MaxIncoming     \* bound: messages the peers start

ASSUME RecvAssumption ==
    /\ 0 \notin Peers
    /\ NMAX_PAKET \in Nat \ {0} /\ QUEUE_SIZE \in Nat \ {0}
    /\ MaxTotal \in Nat /\ MaxIncoming \in Nat

VARIABLES
    out,            \* per peer: the message it sends and the packets it sent
    receive_queue,
    paket,          \* the slots: id 0 when free, allocated packets, content
    rtask,          \* "run", or "dead" when receive_task returned
    got,            \* ghost: the last buffer handed to a callback, as it was
    wild,           \* ghost: a packet was written outside the buffer of its slot
    started,        \* ghost: messages started
    spoilt          \* ghost: peers that gave a message up or repeated a packet,
                    \* or whose frame the full queue refused

recvVars == <<out, receive_queue, paket, rtask, got, wild, started, spoilt>>

Slots    == 1 .. NMAX_PAKET
FreeSlot == [id |-> 0, size |-> 0, data |-> <<>>]
NoneOut  == [msg |-> 0, total |-> 0, sent |-> 0]
Frames   == [from : Peers, msg : 1 .. MaxIncoming, total : 1 .. MaxTotal, pk : 1 .. MaxTotal]

RecvTypeOK ==
    /\ receive_queue \in Seq(Frames) /\ Len(receive_queue) <= QUEUE_SIZE
    /\ \A i \in Slots : /\ paket[i].id \in Peers \union {0}
                        /\ paket[i].size \in 0 .. MaxTotal
                        /\ paket[i].id = 0 <=> paket[i] = FreeSlot
    /\ rtask \in {"run", "dead"}
    /\ wild \in BOOLEAN
    /\ spoilt \subseteq Peers

RecvInit ==
    /\ out = [p \in Peers |-> NoneOut]
    /\ receive_queue = <<>>
    /\ paket = [i \in Slots |-> FreeSlot]
    /\ rtask = "run"
    /\ got = <<>>
    /\ wild = FALSE
    /\ started = 0
    /\ spoilt = {}

-----------------------------------------------------------------------------
(* The peers and receive_callback.                                         *)

PeerStart(p) ==
    \E n \in 1 .. MaxTotal :
        /\ out[p].sent = out[p].total
        /\ started < MaxIncoming
        /\ started' = started + 1
        /\ out' = [out EXCEPT ![p] = [msg |-> started + 1, total |-> n, sent |-> 0]]
        /\ UNCHANGED <<receive_queue, paket, rtask, got, wild, spoilt>>

\* receive_callback: the frame is queued, or dropped after 5 s of a full queue.
Queued(f, S) ==
    IF Len(receive_queue) < QUEUE_SIZE
    THEN receive_queue' = Append(receive_queue, f) /\ spoilt' = spoilt \union S
    ELSE UNCHANGED receive_queue /\ spoilt' = spoilt \union {f.from}

FrameOf(p, k) == [from |-> p, msg |-> out[p].msg, total |-> out[p].total, pk |-> k]

PeerSends(p) ==
    /\ out[p].sent < out[p].total
    /\ Queued(FrameOf(p, out[p].sent + 1), {})
    /\ out' = [out EXCEPT ![p].sent = @ + 1]
    /\ UNCHANGED <<paket, rtask, got, wild, started>>

PeerRepeats(p) ==
    /\ out[p].sent > 0
    /\ Queued(FrameOf(p, out[p].sent), {p})
    /\ UNCHANGED <<out, paket, rtask, got, wild, started>>

PeerGivesUp(p) ==
    /\ out[p].sent < out[p].total
    /\ out' = [out EXCEPT ![p].sent = out[p].total]
    /\ spoilt' = spoilt \union {p}
    /\ UNCHANGED <<receive_queue, paket, rtask, got, wild, started>>

-----------------------------------------------------------------------------
(* receive_task.                                                           *)

LowestOf(S) == CHOOSE i \in S : \A j \in S : i <= j

\* findpk, then findfreepk: the slot of the peer, else the first free one.
SlotFor(p) ==
    LET mine == {i \in Slots : paket[i].id = p}
        free == {i \in Slots : paket[i].id = 0}
    IN  IF mine # {} THEN LowestOf(mine) ELSE IF free # {} THEN LowestOf(free) ELSE 0

\* A new slot gets room for the message of the frame; an old one is kept as
\* it is, whatever message it was made for.
Opened(i, f) ==
    IF paket[i].id = 0
    THEN [id |-> f.from, size |-> f.total, data |-> [k \in 1 .. MaxTotal |-> 0]]
    ELSE paket[i]

\* Only the number of the packet that just came is looked at.
LastPacket_Counted(f) == f.pk >= f.total - 1
LastPacket(f) == f.pk = f.total

\* The slot is given back after the callback.
Released_Kept(s) == [s EXCEPT !.data = [k \in 1 .. MaxTotal |-> 0]]
Released(s) == FreeSlot

ReceivePacket ==
    /\ rtask = "run"
    /\ receive_queue # <<>>
    /\ SlotFor(Head(receive_queue).from) # 0
    /\ LET f == Head(receive_queue)
           i == SlotFor(f.from)
           s == [Opened(i, f) EXCEPT !.data[f.pk] = f.msg]
       IN  /\ wild' = (wild \/ f.pk > s.size)
           /\ paket' = [paket EXCEPT ![i] = IF LastPacket(f) THEN Released(s) ELSE s]
           /\ got' = IF LastPacket(f) THEN <<f, s.data>> ELSE got
    /\ receive_queue' = Tail(receive_queue)
    /\ UNCHANGED <<out, rtask, started, spoilt>>

\* No slot: the task function returns.
ReceiveTaskReturns ==
    /\ rtask = "run"
    /\ receive_queue # <<>>
    /\ SlotFor(Head(receive_queue).from) = 0
    /\ rtask' = "dead"
    /\ UNCHANGED <<out, receive_queue, paket, got, wild, started, spoilt>>

RecvNext ==
    \/ \E p \in Peers : PeerStart(p) \/ PeerSends(p) \/ PeerRepeats(p) \/ PeerGivesUp(p)
    \/ ReceivePacket \/ ReceiveTaskReturns

RecvSpec == RecvInit /\ [][RecvNext]_recvVars

-----------------------------------------------------------------------------
(* Properties.                                                             *)

\* The callback gets the message and nothing else, and no packet is written
\* outside its buffer, until a message of that peer was given up half way, one
\* of its packets came twice or was refused.  The slot is reused with the size
\* and the content it had.
CleanUntilSpoilt ==
    /\ got # <<>> /\ got[1].from \notin spoilt =>
          got[2] = [k \in 1 .. MaxTotal |-> IF k <= got[1].total THEN got[1].msg ELSE 0]
    /\ spoilt = {} => ~wild

\* receive_task ends, and with it all reception, only when every slot is held
\* by another peer in the middle of a message, or by one that will not end it.
DeathNeedsHeldSlots ==
    rtask = "dead" =>
        /\ \A i \in Slots : paket[i].id \notin {0, Head(receive_queue).from}
        /\ \A i \in Slots : \/ paket[i].id \in spoilt
                            \/ out[paket[i].id].sent < out[paket[i].id].total
                            \/ \E k \in 1 .. Len(receive_queue) :
                                   receive_queue[k].from = paket[i].id
=============================================================================
