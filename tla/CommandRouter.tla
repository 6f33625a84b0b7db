---------------------------- MODULE CommandRouter ----------------------------
(***************************************************************************)
(* The routing between the two ways into the room box, MQTT and TCP, and   *)
(* CPU2 behind the UART.  The event loop task takes a command, notes in    *)
(* the shared variable sender_type who gets the answer, and forwards the   *)
(* command (command_transfer, send_action).  The UART callback task        *)
(* delivers what CPU2 says to whoever sender_type names at that moment     *)
(* (uart_callback, _send_data), reading it again and again between calls   *)
(* that block, and assembles the introduction, which comes in several      *)
(* messages (intro_olustur).                                               *)
(*                                                                         *)
(* UART::Sender is one step from its busy test to its store here; the gap  *)
(* between them is in UartSender.  CPU2 is external: it answers a request  *)
(* with messages of its kind and speaks up on its own.                     *)
(***************************************************************************)
EXTENDS Naturals, Sequences

CONSTANTS
    MaxAsked,  \* bound: requests CPU2 has not finished answering
    MaxIntro   \* bound: messages of one introduction

ASSUME RouterAssumption ==
    /\ MaxAsked \in Nat
    /\ MaxIntro \in Nat \ {0}

VARIABLES
    sender_type,
    uart,         \* the task inside UART::Sender, or free
    loop,         \* the event loop: where it is and its command
    cb,           \* the callback task: where it is and its message
    paketler,     \* NoPackets, or which slots of the allocation are filled
    asked,        \* CPU2: requests it has not finished answering
    intro,        \* CPU2: the introduction it is sending
    crashed,
    raced,        \* ghost: tasks whose wait for the UART was overtaken
    gap           \* ghost: the introduction was lost or repeated in part, or
                  \* was under way when the program started

vars == <<sender_type, uart, loop, cb, paketler, asked, intro, crashed, raced,
          gap>>

Types == {"ALL", "MQTT", "TCP"}
Tasks == {"loop", "cb"}

\* What _send_data sends to for each type.
Dest(t) == IF t = "ALL" THEN [mqtt |-> 1, tcp |-> 1]
           ELSE IF t = "MQTT" THEN [mqtt |-> 1, tcp |-> 0]
           ELSE [mqtt |-> 0, tcp |-> 1]
Nobody  == [mqtt |-> 0, tcp |-> 0]

\* The commands: requests, which are answered to the sender (status, intro,
\* and message, sintro, all as other), events, answered to all, and COM.
Answered == {"status", "intro", "other"}
Commands == [com : Answered, snd : {"MQTT", "TCP"}]
                \union [com : {"event", "COM"}, snd : {"ALL"}]

\* A request under way: its kind and (ghost) the one its answer is owed to,
\* nobody once another command or message came between.
Asked     == [com : Answered, owed : {"MQTT", "TCP", "nobody"}]
NoneAsked == [com |-> "none", owed |-> "nobody"]

NoPackets == <<>>
IdleLoop  == [pc |-> "idle", req |-> NoneAsked]
NoIntro   == [owed |-> "nobody", total |-> 0, next |-> 1]

\* mm, outer and inner are the locals of uart_callback; the ghosts got, owed
\* and due are who got the message, who asked for it, and what sender_type
\* promised when it came, as long as no command was routed since.
IdleCb == [pc |-> "idle", mm |-> TRUE, outer |-> 0, inner |-> 0,
           got |-> Nobody, owed |-> "nobody", due |-> "nobody"]

Owners == {"MQTT", "TCP", "nobody"}
LoopReq == [com : Answered \union {"event", "COM", "none"}, owed : Owners]

LinkTypes ==
    /\ sender_type \in Types
    /\ uart \in Tasks \union {"free"}
    /\ loop \in [pc : {"idle", "wait", "send", "sending", "arrived"}, req : LoopReq]
    /\ raced \subseteq Tasks

\* The link is held by the task that is inside UART::Sender.
LinkHeld ==
    /\ uart = "loop" <=> loop.pc \in {"sending", "arrived"}
    /\ uart = "cb" <=> cb.pc = "sending"

CbPlaces == {"idle", "outer", "inner", "wait", "send", "sending", "done"}
Tests    == 0 .. 4
Counts   == [mqtt : Nat, tcp : Nat]
Dues     == Types \union {"nobody"}
CbStates == [pc : CbPlaces, mm : BOOLEAN, outer : Tests, inner : Tests, got : Counts,
             owed : Owners, due : Dues]

CallbackTypes == cb \in CbStates /\ (cb.pc = "inner" => cb.outer <= 3)

CpuTypes ==
    /\ paketler \in Seq(BOOLEAN) /\ Len(paketler) <= MaxIntro
    /\ asked \in Seq(Asked) /\ Len(asked) <= MaxAsked
    /\ intro \in [owed : Owners, total : 0 .. MaxIntro, next : 1 .. MaxIntro + 1]
    /\ intro.next <= intro.total + 1

FlagTypes == crashed \in BOOLEAN /\ gap \in BOOLEAN

TypeOK == FlagTypes /\ LinkTypes /\ LinkHeld /\ CallbackTypes /\ CpuTypes

Init ==
    /\ sender_type = "ALL"
    /\ uart = "free"
    /\ loop = IdleLoop
    /\ cb = IdleCb
    /\ paketler = NoPackets
    /\ asked = <<>>
    /\ intro = NoIntro
    /\ crashed = FALSE
    /\ raced = {}
    /\ gap = FALSE

-----------------------------------------------------------------------------
(* The event loop.                                                         *)

\* Ghost: another command or message came between a request and its answer.
Disturb(q) == [q EXCEPT !.owed = "nobody"]
Disturbed(qs) == [i \in DOMAIN qs |-> Disturb(qs[i])]

\* command_transfer: the type is set before the UART is free.
SetType(q) == IF q.com = "COM" THEN sender_type ELSE q.snd

Quiet == asked = <<>> /\ intro = NoIntro /\ cb.pc = "idle"

Command(q) ==
    /\ loop.pc = "idle"
    /\ sender_type' = SetType(q)
    /\ loop' = [pc |-> "wait",
                req |-> [com |-> q.com,
                         owed |-> IF q.com \in Answered /\ Quiet THEN q.snd
                                  ELSE "nobody"]]
    /\ IF q.com = "COM" THEN UNCHANGED <<asked, intro, cb>>
       ELSE /\ asked' = Disturbed(asked)
            /\ intro' = Disturb(intro)
            /\ cb' = [cb EXCEPT !.owed = "nobody", !.due = "nobody"]
    /\ UNCHANGED <<uart, paketler, crashed, raced, gap>>

\* while(uart.is_busy()): passed when the link is free, by either task.
LinkFree_NotTested == TRUE
LinkFree == uart = "free"

LoopWait ==
    /\ loop.pc = "wait" /\ LinkFree
    /\ loop' = [loop EXCEPT !.pc = "send"]
    /\ raced' = raced \ {"loop"}
    /\ UNCHANGED <<sender_type, uart, cb, paketler, asked, intro, crashed, gap>>

\* if (busy) return RET_BUSY, in UART::Sender.
NotBusy_Untested == TRUE
NotBusy == uart = "free"

LoopEnter ==
    /\ loop.pc = "send" /\ NotBusy
    /\ uart' = "loop"
    /\ loop' = [loop EXCEPT !.pc = "sending"]
    /\ raced' = IF cb.pc = "send" THEN {"cb"} ELSE {}
    /\ UNCHANGED <<sender_type, cb, paketler, asked, intro, crashed, gap>>

\* RET_BUSY, which nobody looks at: the command is dropped.
LoopDropped ==
    /\ loop.pc = "send" /\ uart # "free"
    /\ loop' = IdleLoop
    /\ raced' = raced \ {"loop"}
    /\ UNCHANGED <<sender_type, uart, cb, paketler, asked, intro, crashed, gap>>

\* CPU2 has the whole command; Sender may still wait for the last pulse.
LoopArrives ==
    /\ loop.pc = "sending"
    /\ loop.req \in Asked => Len(asked) < MaxAsked
    /\ loop' = [pc |-> "arrived", req |-> NoneAsked]
    /\ asked' = IF loop.req \in Asked THEN Append(asked, loop.req) ELSE asked
    /\ UNCHANGED <<sender_type, uart, cb, paketler, intro, crashed, raced, gap>>

\* Sender returns, with RET_OK or with an error nobody looks at.
LoopSent ==
    /\ loop.pc \in {"sending", "arrived"}
    /\ uart' = "free"
    /\ loop' = IdleLoop
    /\ UNCHANGED <<sender_type, cb, paketler, asked, intro, crashed, raced, gap>>

-----------------------------------------------------------------------------
(* The callback task.                                                      *)

\* mm: the type is reset after this message.  A status has one message per
\* device, so it leaves the type of its requester.
ResetsType_Always(com) == TRUE
ResetsType(com) == ~(sender_type # "ALL" /\ com = "status")

\* What uart_callback begins with for a message to be passed on.
Begin(q) ==
    cb' = [IdleCb EXCEPT
              !.pc = "outer", !.outer = 1, !.owed = q.owed, !.due = sender_type,
              !.mm = ResetsType(q.com)]

\* CPU2 speaks on its own; requests that wait for an answer may lose theirs.
Spontaneous(com) ==
    /\ cb.pc = "idle"
    /\ Begin([com |-> com, owed |-> "nobody"])
    /\ asked' = Disturbed(asked)
    /\ intro' = Disturb(intro)
    /\ loop' = [loop EXCEPT !.req = Disturb(@)]
    /\ UNCHANGED <<sender_type, uart, paketler, crashed, raced, gap>>

\* The answer to the oldest request; a status has one message per device.
Reply ==
    /\ cb.pc = "idle"
    /\ asked # <<>> /\ Head(asked).com # "intro"
    /\ Begin(Head(asked))
    /\ \/ asked' = Tail(asked)
       \/ Head(asked).com = "status" /\ UNCHANGED asked
    /\ UNCHANGED <<sender_type, uart, loop, paketler, intro, crashed, raced, gap>>

\* The three tests of uart_callback and the three of _send_data, in order.
Order_AllLast == <<"MQTT", "TCP", "ALL">>
Order == <<"ALL", "MQTT", "TCP">>

OuterTest ==
    /\ cb.pc = "outer"
    /\ cb' = IF cb.outer > 3 THEN [cb EXCEPT !.pc = "done", !.outer = 0]
             ELSE IF sender_type = Order[cb.outer]
             THEN [cb EXCEPT !.pc = "inner", !.inner = 1]
             ELSE [cb EXCEPT !.outer = @ + 1]
    /\ UNCHANGED <<sender_type, uart, loop, paketler, asked, intro, crashed,
                   raced, gap>>

Sent(got, t) == [mqtt |-> got.mqtt + Dest(t).mqtt, tcp |-> got.tcp + Dest(t).tcp]

SendData ==
    /\ cb.pc = "inner" /\ cb.inner <= 3
    /\ cb' = [cb EXCEPT !.inner = @ + 1,
                        !.got = IF sender_type = Order[cb.inner]
                                THEN Sent(@, sender_type) ELSE @]
    /\ UNCHANGED <<sender_type, uart, loop, paketler, asked, intro, crashed,
                   raced, gap>>

\* _send_data returns: to uart_callback, which resets the type after the MQTT
\* and the TCP branch, or to intro_olustur, which does not (outer is 0).
TypeAfter == IF Order[cb.outer] # "ALL" /\ cb.mm THEN "ALL" ELSE sender_type

SendDataReturns ==
    /\ cb.pc = "inner" /\ cb.inner > 3
    /\ \/ /\ cb.outer = 0
          /\ cb' = [cb EXCEPT !.pc = "done"]
          /\ UNCHANGED sender_type
       \/ /\ cb.outer > 0
          /\ cb' = [cb EXCEPT !.pc = "outer", !.outer = @ + 1, !.inner = 0]
          /\ sender_type' = TypeAfter
    /\ UNCHANGED <<uart, loop, paketler, asked, intro, crashed, raced, gap>>

CbReturns ==
    /\ cb.pc = "done"
    /\ cb' = IdleCb
    /\ UNCHANGED <<sender_type, uart, loop, paketler, asked, intro, crashed,
                   raced, gap>>

\* T_REQ: CPU2 wants the time and is answered over the same link.
TimeRequest ==
    /\ cb.pc = "idle"
    /\ cb' = [IdleCb EXCEPT !.pc = "wait"]
    /\ UNCHANGED <<sender_type, uart, loop, paketler, asked, intro, crashed,
                   raced, gap>>

CbWait ==
    /\ cb.pc = "wait" /\ LinkFree
    /\ cb' = [cb EXCEPT !.pc = "send"]
    /\ raced' = raced \ {"cb"}
    /\ UNCHANGED <<sender_type, uart, loop, paketler, asked, intro, crashed, gap>>

CbEnter ==
    /\ cb.pc = "send" /\ NotBusy
    /\ uart' = "cb"
    /\ cb' = [cb EXCEPT !.pc = "sending"]
    /\ raced' = IF loop.pc = "send" THEN {"loop"} ELSE {}
    /\ UNCHANGED <<sender_type, loop, paketler, asked, intro, crashed, gap>>

CbDropped ==
    /\ cb.pc = "send" /\ uart # "free"
    /\ cb' = IdleCb
    /\ raced' = raced \ {"cb"}
    /\ UNCHANGED <<sender_type, uart, loop, paketler, asked, intro, crashed, gap>>

CbSent ==
    /\ cb.pc = "sending"
    /\ uart' = "free"
    /\ cb' = IdleCb
    /\ UNCHANGED <<sender_type, loop, paketler, asked, intro, crashed, raced, gap>>

-----------------------------------------------------------------------------
(* The introduction.                                                       *)

\* CPU2 begins to answer an intro request.
IntroBegins(n) ==
    /\ intro.total = 0
    /\ asked # <<>> /\ Head(asked).com = "intro"
    /\ intro' = [owed |-> Head(asked).owed, total |-> n, next |-> 1]
    /\ asked' = Tail(asked)
    /\ UNCHANGED <<sender_type, uart, loop, cb, paketler, crashed, raced, gap>>

\* Packet 1 allocates the slots; what the new ones hold is not initialized.
Slots(k) == IF k = 1 THEN [i \in 1 .. intro.total |-> FALSE] ELSE paketler

Last_OffByOne(k) == k + 1 >= intro.total
Last(k) == k = intro.total

\* Message k of the introduction.  A slot outside the allocation, or no
\* allocation at all, is a write through a bad pointer, and an empty slot a
\* read through one.
TakePacket(k) ==
    /\ cb.pc = "idle"
    /\ IF k \notin DOMAIN Slots(k)
       THEN crashed' = TRUE /\ UNCHANGED <<paketler, cb>>
       ELSE LET filled == [Slots(k) EXCEPT ![k] = TRUE]
            IN  IF ~Last(k)
                THEN paketler' = filled /\ UNCHANGED <<crashed, cb>>
                ELSE IF \E i \in 1 .. intro.total :
                            i \notin DOMAIN filled \/ ~filled[i]
                THEN crashed' = TRUE /\ UNCHANGED <<paketler, cb>>
                ELSE /\ paketler' = NoPackets
                     /\ cb' = [IdleCb EXCEPT !.pc = "inner", !.inner = 1,
                                  !.owed = intro.owed, !.due = sender_type]
                     /\ UNCHANGED crashed
    /\ UNCHANGED <<sender_type, uart, loop, asked, raced>>

IntroPacket ==
    /\ intro.next <= intro.total
    /\ TakePacket(intro.next)
    /\ intro' = [intro EXCEPT !.next = @ + 1]
    /\ gap' = (gap /\ intro.next # 1)

\* The link gave the message up.
IntroLost ==
    /\ intro.next <= intro.total
    /\ intro' = [intro EXCEPT !.next = @ + 1]
    /\ gap' = TRUE
    /\ UNCHANGED <<sender_type, uart, loop, cb, paketler, asked, crashed, raced>>

\* The acknowledgement was lost: the last message comes again.
IntroRepeated ==
    /\ intro.next > 1
    /\ TakePacket(intro.next - 1)
    /\ gap' = TRUE
    /\ UNCHANGED intro

\* CPU2 knows that its last message arrived.
IntroOver ==
    /\ intro.total > 0 /\ intro.next > intro.total
    /\ intro' = NoIntro
    /\ UNCHANGED <<sender_type, uart, loop, cb, paketler, asked, crashed, raced,
                   gap>>

\* A crash or a reset of this processor; CPU2 goes on with what it was doing.
Restart ==
    /\ sender_type' = "ALL"
    /\ uart' = "free"
    /\ loop' = IdleLoop
    /\ cb' = IdleCb
    /\ paketler' = NoPackets
    /\ crashed' = FALSE
    /\ raced' = {}
    /\ gap' = TRUE
    /\ asked' = Disturbed(asked)
    /\ intro' = Disturb(intro)

-----------------------------------------------------------------------------
LoopStep == LoopWait \/ LoopEnter \/ LoopDropped \/ LoopArrives \/ LoopSent
CbStep   == \/ OuterTest \/ SendData \/ SendDataReturns \/ CbReturns
            \/ CbWait \/ CbEnter \/ CbDropped \/ CbSent

Next ==
    \/ /\ ~crashed
       /\ \/ \E q \in Commands : Command(q)
          \/ LoopStep
          \/ \E com \in {"other", "status"} : Spontaneous(com)
          \/ TimeRequest
          \/ Reply
          \/ CbStep
          \/ \E n \in 1 .. MaxIntro : IntroBegins(n)
          \/ IntroPacket \/ IntroLost \/ IntroRepeated \/ IntroOver
    \/ Restart

Spec == Init /\ [][Next]_vars

-----------------------------------------------------------------------------
\* A message of CPU2 goes exactly once to exactly the ones sender_type named
\* when the message arrived, unless a command was routed while it was being
\* delivered: the six tests and the reset between them never double it or
\* lose it on their own (uartcallback.cpp:10-32, 137-152).
DeliveredAsRouted ==
    cb.pc = "done" /\ cb.due # "nobody" => cb.got = Dest(cb.due)

\* The answer to a request goes to the one who asked, and to no one else,
\* if no other command was routed and CPU2 said nothing else between the
\* request and the answer (events.c:241-262, 285-288).
ReplyToRequester ==
    cb.pc = "done" /\ cb.owed # "nobody" => cb.got = Dest(cb.owed)

\* A command for CPU2 or an answer to it is dropped only when the two tasks
\* passed the wait for the UART together (events.c:206-207,
\* uartcallback.cpp:125-126).
DropNeedsRace ==
    /\ loop.pc = "send" /\ uart # "free" => "loop" \in raced
    /\ cb.pc = "send" /\ uart # "free" => "cb" \in raced

\* The introduction is assembled without a bad pointer as long as its messages
\* arrive once each and from the first (uartcallback.cpp:97-114).
IntroSafe == crashed => gap

(* The inductive strengthening of the properties.                          *)

\* Where the tests of a type stand in Order.
Place(t) == IF t = "ALL" THEN 1 ELSE IF t = "MQTT" THEN 2 ELSE 3

\* The delivery of a message: sender_type names what it named when the message
\* came until the message is sent, and no test after that fits it.
DeliveryInv ==
    cb.due # "nobody" =>
        /\ cb.pc \in {"outer", "inner", "done"}
        /\ cb.pc = "outer" =>
              \/ cb.got = Nobody /\ sender_type = cb.due
                   /\ cb.outer \in 1 .. Place(cb.due)
              \/ cb.got = Dest(cb.due) /\ sender_type \in {cb.due, "ALL"}
                   /\ cb.outer > Place(cb.due)
        /\ cb.pc = "inner" =>
              /\ sender_type = cb.due
              /\ cb.outer \in {0, Place(cb.due)}
              /\ cb.inner > 0
              /\ cb.got = IF cb.inner > Place(cb.due) THEN Dest(cb.due) ELSE Nobody
        /\ cb.pc = "done" => cb.got = Dest(cb.due)

\* A request that is owed an answer is the only thing under way, and the type is
\* its sender's; no delivery that resets the type overlaps with it.
NothingOwed ==
    /\ loop.req.owed = "nobody"
    /\ \A i \in 1 .. Len(asked) : asked[i].owed = "nobody"
    /\ intro.owed = "nobody"

OwedInv ==
    /\ loop.pc \in {"idle", "arrived"} => loop.req = NoneAsked
    /\ loop.req.owed # "nobody" =>
          sender_type = loop.req.owed /\ asked = <<>> /\ intro = NoIntro
    /\ \A i \in 1 .. Len(asked) : asked[i].owed # "nobody" =>
          /\ sender_type = asked[i].owed /\ Len(asked) = 1
          /\ intro = NoIntro /\ loop.req \notin Asked
    /\ intro.owed # "nobody" =>
          sender_type = intro.owed /\ asked = <<>> /\ loop.req \notin Asked
    /\ (cb.pc = "outer" \/ (cb.pc = "inner" /\ cb.outer > 0)) /\ cb.mm => NothingOwed
    /\ cb.owed # "nobody" => cb.due = cb.owed

\* The slots of an introduction that came without a gap are the allocated ones,
\* filled up to the message that is next.
SlotsInv ==
    ~gap /\ 1 < intro.next /\ intro.next <= intro.total =>
        /\ Len(paketler) = intro.total
        /\ \A i \in 1 .. intro.total : paketler[i] <=> i < intro.next

IInv == TypeOK /\ DeliveryInv /\ OwedInv /\ DropNeedsRace /\ IntroSafe /\ SlotsInv
=============================================================================
