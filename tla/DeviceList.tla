----------------------------- MODULE DeviceList -----------------------------
(***************************************************************************)
(* class Cihazlar: the linked list of known devices, changed by any task   *)
(* (receive_callback adds a device from the Wi-Fi task) and walked every   *)
(* 10 s by the task garbage, which pings each device and writes the result *)
(* into its node.  No lock guards the list; an insertion is two stores, a  *)
(* removal frees the node and stores the head it read when it began.       *)
(*                                                                         *)
(* A node is an address: a freed one is given to the next calloc.          *)
(***************************************************************************)
EXTENDS Naturals, FiniteSets

CONSTANTS
    Macs,          \* MAC addresses
    Updaters,      \* tasks that call cihaz_ekle, cihaz_sil, cihaz_bosalt
    MaxNodes,      \* addresses of the heap
    OldBound,      \* oldactive is counted modulo this: 256 in the code
    MaxUpdates     \* bound: calls that change the list

ASSUME ListAssumption == MaxNodes \in Nat /\ OldBound \in Nat \ {0} /\ MaxUpdates \in Nat

VARIABLES
    dev_handle,    \* head of the list, 0 for NULL
    node,          \* the heap: mac, next, active, oldactive, live
    upd,           \* each updating task inside its call
    walk,          \* garbage: the node it is at and the result of the ping
    updates,       \* ghost: calls so far
    want,          \* ghost: devices added and not removed since
    crossed,       \* ghost: two calls were in progress together
    cut,           \* ghost: a node was freed since the walk began
    touched        \* ghost: this walk used a freed node

listVars == <<dev_handle, node, upd, walk, updates, want, crossed, cut, touched>>

NULLPTR   == 0
Addresses == 1 .. MaxNodes
NoNode    == [mac |-> "none", next |-> NULLPTR, active |-> 0, old |-> 0, live |-> FALSE]
IdleUpd   == [pc |-> "idle", mac |-> "none", ptr |-> NULLPTR]
AtRest    == [pc |-> "rest", at |-> NULLPTR, ret |-> FALSE]

ListTypeOK ==
    /\ dev_handle \in Addresses \union {NULLPTR}
    /\ \A a \in Addresses : /\ node[a].mac \in Macs \union {"none"}
                            /\ node[a].next \in Addresses \union {NULLPTR}
                            /\ node[a].old \in 0 .. OldBound - 1
    /\ \A u \in Updaters : upd[u].pc \in {"idle", "link", "head", "store", "null"}
    /\ walk.pc \in {"rest", "ping", "write", "next"}

ListInit ==
    /\ dev_handle = NULLPTR
    /\ node = [a \in Addresses |-> NoNode]
    /\ upd = [u \in Updaters |-> IdleUpd]
    /\ walk = AtRest
    /\ updates = 0
    /\ want = {}
    /\ crossed = FALSE /\ cut = FALSE /\ touched = FALSE

-----------------------------------------------------------------------------
(* The list as a pointer structure.                                        *)

\* The addresses on the way from p along next: those in every set that has p
\* and, with each node, the next one.
Closed(S) == \A a \in S : node[a].next \in S \union {NULLPTR}
From(p) ==
    {a \in Addresses :
        \A S \in SUBSET Addresses : Closed(S) /\ p \in S \union {NULLPTR} => a \in S}

\* cihazbul: the nodes of the list with this mac.
Found(mac) == {a \in From(dev_handle) : node[a].mac = mac}

-----------------------------------------------------------------------------
(* cihaz_ekle, cihaz_sil, cihaz_bosalt.                                    *)

Begin(u) ==
    /\ upd[u].pc = "idle"
    /\ updates < MaxUpdates
    /\ updates' = updates + 1
    /\ crossed' = (crossed \/ \E v \in Updaters : upd[v].pc # "idle")

\* The device is there: only its transmisyon changes.
AddKnown(u) ==
    \E mac \in Macs :
        /\ Begin(u)
        /\ Found(mac) # {}
        /\ want' = want \union {mac}
        /\ UNCHANGED <<dev_handle, node, upd, walk, cut, touched>>

AddNew(u) ==
    \E mac \in Macs, a \in Addresses :
        /\ Begin(u)
        /\ Found(mac) = {}
        /\ ~node[a].live /\ \A b \in Addresses : b < a => node[b].live
        /\ node' = [node EXCEPT ![a] = [NoNode EXCEPT !.mac = mac, !.live = TRUE]]
        /\ upd' = [upd EXCEPT ![u] = [pc |-> "link", mac |-> mac, ptr |-> a]]
        /\ UNCHANGED <<dev_handle, walk, want, cut, touched>>

\* The head the new node is linked to, read before it becomes the head itself.
OldHead_Itself(u) == upd[u].ptr
OldHead(u) == dev_handle

AddLink(u) ==
    /\ upd[u].pc = "link"
    /\ node' = [node EXCEPT ![upd[u].ptr].next = OldHead(u)]
    /\ upd' = [upd EXCEPT ![u].pc = "head"]
    /\ UNCHANGED <<dev_handle, walk, updates, want, crossed, cut, touched>>

AddHead(u) ==
    /\ upd[u].pc = "head"
    /\ dev_handle' = upd[u].ptr
    /\ want' = want \union {upd[u].mac}
    /\ upd' = [upd EXCEPT ![u] = IdleUpd]
    /\ UNCHANGED <<node, walk, updates, crossed, cut, touched>>

\* _cihaz_sil: the first node with the mac is taken out of the list and freed.
\* The head of the shorter list is returned to cihaz_sil, which stores it.
Unlinked_Dangling(p, a) == [node EXCEPT ![a].live = FALSE]
Unlinked(p, a) ==
    [b \in Addresses |->
        IF b = a THEN [node[a] EXCEPT !.live = FALSE]
        ELSE IF b \in From(p) /\ node[b].next = a THEN [node[b] EXCEPT !.next = node[a].next]
        ELSE node[b]]

Remove(u) ==
    \E mac \in Macs :
        /\ Begin(u)
        /\ IF Found(mac) = {}
           THEN /\ upd' = [upd EXCEPT ![u] = [pc |-> "store", mac |-> mac, ptr |-> dev_handle]]
                /\ UNCHANGED <<node, cut>>
           ELSE \E a \in Found(mac) :
                  /\ node' = Unlinked(dev_handle, a)
                  /\ cut' = (cut \/ walk.pc # "rest")
                  /\ upd' = [upd EXCEPT ![u] = [pc |-> "store", mac |-> mac,
                        ptr |-> IF a = dev_handle THEN node[a].next ELSE dev_handle]]
        /\ UNCHANGED <<dev_handle, walk, want, touched>>

RemoveStore(u) ==
    /\ upd[u].pc = "store"
    /\ dev_handle' = upd[u].ptr
    /\ want' = want \ {upd[u].mac}
    /\ upd' = [upd EXCEPT ![u] = IdleUpd]
    /\ UNCHANGED <<node, walk, updates, crossed, cut, touched>>

Clear(u) ==
    /\ Begin(u)
    /\ node' = [a \in Addresses |-> IF a \in From(dev_handle)
                                    THEN [node[a] EXCEPT !.live = FALSE] ELSE node[a]]
    /\ cut' = (cut \/ walk.pc # "rest")
    /\ upd' = [upd EXCEPT ![u].pc = "null"]
    /\ UNCHANGED <<dev_handle, walk, want, touched>>

ClearNull(u) ==
    /\ upd[u].pc = "null"
    /\ dev_handle' = NULLPTR
    /\ want' = {}
    /\ upd' = [upd EXCEPT ![u] = IdleUpd]
    /\ UNCHANGED <<node, walk, updates, crossed, cut, touched>>

-----------------------------------------------------------------------------
(* garbage.                                                                *)

ListStays == UNCHANGED <<dev_handle, upd, updates, want, crossed>>
Touch == touched' = (touched \/ ~node[walk.at].live)

\* A removal that has freed a node and not stored the head is still cutting.
WalkStart ==
    /\ walk.pc = "rest"
    /\ dev_handle # NULLPTR
    /\ walk' = [AtRest EXCEPT !.pc = "ping", !.at = dev_handle]
    /\ cut' = \E u \in Updaters : upd[u].pc \in {"store", "null"}
    /\ touched' = FALSE
    /\ ListStays /\ UNCHANGED node

\* ping of Rs485 or _pingpong of EspNowSend: up to 1.6 s, either result.
WalkPing ==
    /\ walk.pc = "ping"
    /\ \E r \in BOOLEAN : walk' = [walk EXCEPT !.pc = "write", !.ret = r]
    /\ Touch
    /\ ListStays /\ UNCHANGED <<node, cut>>

Pinged(d, ret) == IF ret THEN [d EXCEPT !.active = 1, !.old = 0]
                  ELSE [d EXCEPT !.active = 0, !.old = (d.old + 1) % OldBound]
WalkWrite ==
    /\ walk.pc = "write"
    /\ node' = [node EXCEPT ![walk.at] = Pinged(node[walk.at], walk.ret)]
    /\ walk' = [walk EXCEPT !.pc = "next"]
    /\ Touch
    /\ ListStays /\ UNCHANGED cut

WalkNext ==
    /\ walk.pc = "next"
    /\ walk' = IF node[walk.at].next = NULLPTR THEN AtRest
               ELSE [walk EXCEPT !.pc = "ping", !.at = node[walk.at].next]
    /\ Touch
    /\ ListStays /\ UNCHANGED <<node, cut>>

WalkStep == WalkPing \/ WalkWrite \/ WalkNext

ListNext ==
    \/ \E u \in Updaters : AddKnown(u) \/ AddNew(u) \/ AddLink(u) \/ AddHead(u)
                           \/ Remove(u) \/ RemoveStore(u) \/ Clear(u) \/ ClearNull(u)
    \/ WalkStart \/ WalkPing \/ WalkWrite \/ WalkNext

ListSpec == ListInit /\ [][ListNext]_listVars

\* garbage runs at priority 5 and its pings time out.
ListFairness == WF_listVars(WalkStep)

-----------------------------------------------------------------------------
(* Properties.                                                             *)

\* While calls do not overlap, the list between two calls is exactly the
\* devices added and not removed, each once, in memory that is allocated; and
\* the walk uses freed memory only if a node was freed during the walk.
ListHoldsDevices ==
    ~crossed =>
        /\ (\A u \in Updaters : upd[u].pc = "idle") =>
              /\ {node[a].mac : a \in From(dev_handle)} = want
              /\ Cardinality(From(dev_handle)) = Cardinality(want)
              /\ \A a \in From(dev_handle) : node[a].live
        /\ touched => cut

\* A round over the list ends, also when nodes are added, freed and given out
\* again under it.  Only two calls at a time can close the pointers to a circle:
\* a node freed by a removal that has not stored its head yet, taken for a new
\* device, is linked to itself.
RoundEnds == walk.pc # "rest" ~> walk.pc = "rest" \/ crossed
=============================================================================
