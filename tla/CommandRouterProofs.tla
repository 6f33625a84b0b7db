------------------------ MODULE CommandRouterProofs -------------------------
(* Proofs about CommandRouter, for every number of requests CPU2 may owe an  *)
(* answer and every length of the introduction.                             *)
EXTENDS CommandRouter, SequenceTheorems, TLAPS

\* Which steps touch which variables.
LEMMA WhoTouchesRoutes ==
  ASSUME [Next]_vars
  PROVE  /\ (\E q \in Commands : Command(q)) \/ SendDataReturns \/ Restart
              \/ UNCHANGED sender_type
         /\ LoopEnter \/ LoopSent \/ CbEnter \/ CbSent \/ Restart \/ UNCHANGED uart
         /\ (\E q \in Commands : Command(q)) \/ LoopStep
              \/ (\E com \in {"other", "status"} : Spontaneous(com)) \/ Restart
              \/ UNCHANGED loop
         /\ LoopStep \/ CbStep \/ Restart \/ UNCHANGED raced
BY DEF Next, vars, LoopStep, CbStep, Command, LoopWait, LoopEnter, LoopDropped, LoopArrives,
   LoopSent, Spontaneous, TimeRequest, Reply, OuterTest, SendData, SendDataReturns, CbReturns,
   CbWait, CbEnter, CbDropped, CbSent, IntroBegins, IntroPacket, TakePacket, IntroLost,
   IntroRepeated, IntroOver, Restart

\* The requests the CPU task has yet to answer change only by a command, an
\* arrival, a reply or an unasked message.
LEMMA WhoTouchesCpu ==
  ASSUME [Next]_vars
  PROVE  /\ (\E q \in Commands : Command(q)) \/ LoopArrives \/ Reply
              \/ (\E com \in {"other", "status"} : Spontaneous(com))
              \/ (\E n \in 1 .. MaxIntro : IntroBegins(n)) \/ Restart \/ UNCHANGED asked
         /\ (\E q \in Commands : Command(q))
              \/ (\E com \in {"other", "status"} : Spontaneous(com))
              \/ (\E n \in 1 .. MaxIntro : IntroBegins(n))
              \/ IntroPacket \/ IntroLost \/ IntroOver \/ Restart \/ UNCHANGED intro
         /\ IntroPacket \/ IntroRepeated \/ Restart \/ UNCHANGED <<paketler, crashed>>
         /\ IntroPacket \/ IntroLost \/ IntroRepeated \/ Restart \/ UNCHANGED gap
BY DEF Next, vars, LoopStep, CbStep, Command, LoopWait, LoopEnter, LoopDropped, LoopArrives,
   LoopSent, Spontaneous, TimeRequest, Reply, OuterTest, SendData, SendDataReturns, CbReturns,
   CbWait, CbEnter, CbDropped, CbSent, IntroBegins, IntroPacket, TakePacket, IntroLost,
   IntroRepeated, IntroOver, Restart

\* The callback record changes only by a command, an unasked message or a step of
\* the callback itself.
LEMMA WhoTouchesCallback ==
  ASSUME [Next]_vars
  PROVE  \/ \E q \in Commands : Command(q)
         \/ \E com \in {"other", "status"} : Spontaneous(com)
         \/ TimeRequest \/ Reply \/ CbStep \/ IntroPacket \/ IntroRepeated \/ Restart
         \/ UNCHANGED cb
BY DEF Next, vars, LoopStep, CbStep, Command, LoopWait, LoopEnter, LoopDropped, LoopArrives,
   LoopSent, Spontaneous, TimeRequest, Reply, OuterTest, SendData, SendDataReturns, CbReturns,
   CbWait, CbEnter, CbDropped, CbSent, IntroBegins, IntroPacket, TakePacket, IntroLost,
   IntroRepeated, IntroOver, Restart

-----------------------------------------------------------------------------
(* Types.                                                                   *)

\* The values the callback task's state is made of, so that the sets themselves
\* need not be expanded.
LEMMA CbMembers ==
  /\ \A p \in {"idle", "outer", "inner", "wait", "send", "sending", "done"} : p \in CbPlaces
  /\ 0 \in Tests /\ 1 \in Tests
  /\ \A k \in Tests : k \in Nat /\ k <= 4 /\ (k <= 3 => k + 1 \in Tests)
  /\ Nobody \in Counts
  /\ \A g \in Counts, t \in Types : Sent(g, t) \in Counts
  /\ "nobody" \in Owners /\ "nobody" \in Dues /\ \A t \in Types : t \in Dues
  /\ IdleCb \in CbStates
<1>1. Nobody \in Counts /\ \A g \in Counts, t \in Types : Sent(g, t) \in Counts
  BY DEF Counts, Nobody, Dest, Types, Sent
<1>2. /\ \A p \in {"idle", "outer", "inner", "wait", "send", "sending", "done"} : p \in CbPlaces
      /\ 0 \in Tests /\ 1 \in Tests
      /\ \A k \in Tests : k \in Nat /\ k <= 4 /\ (k <= 3 => k + 1 \in Tests)
      /\ "nobody" \in Owners /\ "nobody" \in Dues /\ \A t \in Types : t \in Dues
  BY DEF CbPlaces, Tests, Owners, Dues
<1>3. IdleCb \in CbStates
  BY <1>1, <1>2 DEF IdleCb, CbStates
<1>. QED
  BY <1>1, <1>2, <1>3

\* The initial state is well typed.
LEMMA InitType == Init => TypeOK
<1> SUFFICES ASSUME Init PROVE TypeOK
  OBVIOUS
<1> USE DEF Init, IdleLoop, IdleCb, NoneAsked, NoIntro, Nobody
<1>1. LinkTypes /\ LinkHeld
  BY DEF LinkTypes, LinkHeld, Types, Tasks, LoopReq, Owners
<1>2. CallbackTypes
  BY DEF CallbackTypes, CbStates, CbPlaces, Tests, Counts, Dues, Types, Owners
<1>3. CpuTypes
  <2>1. paketler \in Seq(BOOLEAN) /\ Len(paketler) = 0 /\ asked \in Seq(Asked) /\ Len(asked) = 0
    BY DEF NoPackets
  <2>. QED
    BY <2>1, RouterAssumption DEF CpuTypes, Owners
<1>4. FlagTypes
  BY Zenon DEF FlagTypes
<1>. QED
  BY <1>1, <1>2, <1>3, <1>4 DEF TypeOK

\* Types of what a command puts under way.
LEMMA CommandTypes ==
  ASSUME NEW q \in Commands
  PROVE  /\ q.com \in Answered \union {"event", "COM"}
         /\ q.snd \in Types
         /\ q.com \in Answered => q.snd \in {"MQTT", "TCP"}
         /\ q.com = "COM" => q.com \notin Answered
BY DEF Commands, Answered, Types

\* A request whose owner is overwritten is still a request, with nobody to answer
\* to and the same command.
LEMMA DisturbType ==
  ASSUME NEW q \in LoopReq
  PROVE  Disturb(q) \in LoopReq /\ Disturb(q).owed = "nobody" /\ Disturb(q).com = q.com
BY DEF LoopReq, Disturb, Owners

\* Every step keeps the types of the link between the two processors.
LEMMA LinkType ==
  ASSUME LinkTypes, [Next]_vars
  PROVE  LinkTypes'
<1> USE DEF LinkTypes
<1>1. sender_type' \in Types
  <2>1. ASSUME NEW q \in Commands, Command(q)
        PROVE  sender_type' \in Types
    BY <2>1, CommandTypes DEF Command, SetType
  <2>2. CASE SendDataReturns \/ Restart \/ UNCHANGED sender_type
    BY <2>2 DEF SendDataReturns, TypeAfter, Restart, Types
  <2>. QED
    BY <2>1, <2>2, WhoTouchesRoutes
<1>2. uart' \in Tasks \union {"free"}
  BY WhoTouchesRoutes DEF LoopEnter, LoopSent, CbEnter, CbSent, Restart, Tasks
<1>3. raced' \subseteq Tasks
  <2>1. CASE LoopStep
    BY <2>1 DEF LoopStep, LoopWait, LoopEnter, LoopDropped, LoopArrives, LoopSent, Tasks
  <2>2. CASE CbStep
    BY <2>2 DEF CbStep, OuterTest, SendData, SendDataReturns, CbReturns, CbWait, CbEnter,
       CbDropped, CbSent, Tasks
  <2>3. CASE Restart \/ UNCHANGED raced
    BY <2>3 DEF Restart
  <2>. QED
    BY <2>1, <2>2, <2>3, WhoTouchesRoutes
<1>4. loop' \in [pc : {"idle", "wait", "send", "sending", "arrived"}, req : LoopReq]
  <2>1. NoneAsked \in LoopReq
    BY DEF NoneAsked, LoopReq, Owners
  <2>2. ASSUME NEW q \in Commands, Command(q)
        PROVE  loop' \in [pc : {"idle", "wait", "send", "sending", "arrived"}, req : LoopReq]
    <3>1. [com |-> q.com, owed |-> IF q.com \in Answered /\ Quiet THEN q.snd ELSE "nobody"]
             \in LoopReq
      BY CommandTypes DEF LoopReq, Owners
    <3>. QED
      BY <2>2, <3>1 DEF Command
  <2>3. CASE LoopStep
    BY <2>1, <2>3 DEF LoopStep, LoopWait, LoopEnter, LoopDropped, LoopArrives, LoopSent, IdleLoop
  <2>4. ASSUME NEW com \in {"other", "status"}, Spontaneous(com)
        PROVE  loop' \in [pc : {"idle", "wait", "send", "sending", "arrived"}, req : LoopReq]
    BY <2>4, DisturbType DEF Spontaneous
  <2>5. CASE Restart \/ UNCHANGED loop
    BY <2>1, <2>5 DEF Restart, IdleLoop
  <2>. QED
    BY <2>2, <2>3, <2>4, <2>5, WhoTouchesRoutes
<1>. QED
  BY <1>1, <1>2, <1>3, <1>4

\* What the callback task starts with for a message.
LEMMA Beginning ==
  ASSUME LinkTypes, NEW q \in LoopReq, Begin(q)
  PROVE  /\ cb' \in CbStates
         /\ cb'.pc = "outer" /\ cb'.outer = 1 /\ cb'.inner = 0 /\ cb'.got = Nobody
         /\ cb'.owed = q.owed /\ cb'.due = sender_type
         /\ cb'.mm = ResetsType(q.com)
<1>1. ResetsType(q.com) \in BOOLEAN
  BY Zenon DEF ResetsType
<1>2. ASSUME NEW b \in BOOLEAN
      PROVE  LET c == [IdleCb EXCEPT !.pc = "outer", !.outer = 1, !.owed = q.owed,
                                     !.due = sender_type, !.mm = b]
             IN  /\ c \in CbStates
                 /\ c.pc = "outer" /\ c.outer = 1 /\ c.inner = 0 /\ c.got = Nobody
                 /\ c.owed = q.owed /\ c.due = sender_type /\ c.mm = b
  <2>1. sender_type \in Dues /\ q.owed \in Owners
    BY CbMembers DEF LinkTypes, LoopReq
  <2>. QED
    BY <2>1, CbMembers DEF CbStates, IdleCb
<1>. QED
  BY <1>1, <1>2, Zenon DEF Begin

\* What a message of the introduction does to the callback task.
LEMMA PacketDelivered ==
  ASSUME LinkTypes, CpuTypes, NEW k, TakePacket(k)
  PROVE  \/ cb' = cb
         \/ /\ cb' \in CbStates
            /\ cb'.pc = "inner" /\ cb'.outer = 0 /\ cb'.inner = 1 /\ cb'.got = Nobody
            /\ cb'.owed = intro.owed /\ cb'.due = sender_type
<1>1. sender_type \in Dues /\ intro.owed \in Owners
  BY CbMembers DEF LinkTypes, CpuTypes
<1>2. LET c == [IdleCb EXCEPT !.pc = "inner", !.inner = 1, !.owed = intro.owed,
                              !.due = sender_type]
      IN  /\ c \in CbStates
          /\ c.pc = "inner" /\ c.outer = 0 /\ c.inner = 1 /\ c.got = Nobody
          /\ c.owed = intro.owed /\ c.due = sender_type
  BY <1>1, CbMembers DEF CbStates, IdleCb
<1>. QED
  BY <1>2, Zenon DEF TakePacket

\* The oldest request of a non-empty backlog is a well-formed request.
LEMMA OldestRequest ==
  ASSUME CpuTypes, asked # <<>>
  PROVE  /\ Len(asked) \in Nat \ {0} /\ Head(asked) = asked[1]
         /\ Head(asked) \in Asked /\ Head(asked) \in LoopReq
         /\ Tail(asked) \in Seq(Asked) /\ Len(Tail(asked)) = Len(asked) - 1
         /\ \A i \in 1 .. Len(asked) - 1 : Tail(asked)[i] = asked[i + 1]
<1>1. /\ Len(asked) \in Nat /\ Len(asked) > 0 /\ Head(asked) \in Asked /\ Head(asked) = asked[1]
      /\ Tail(asked) \in Seq(Asked) /\ Len(Tail(asked)) = Len(asked) - 1
      /\ \A i \in 1 .. Len(asked) - 1 : Tail(asked)[i] = asked[i + 1]
  BY HeadTailProperties DEF CpuTypes
<1>2. Asked \subseteq LoopReq
  BY DEF Asked, LoopReq, Owners
<1>. QED
  BY <1>1, <1>2

\* What one step of the callback may do to its record, branch by branch.
LEMMA CbStepFields ==
  ASSUME LinkTypes, CallbackTypes, CbStep
  PROVE  /\ cb' \in CbStates
         /\ OuterTest =>
              /\ cb'.got = cb.got /\ cb'.mm = cb.mm
              /\ cb'.owed = cb.owed /\ cb'.due = cb.due
              /\ \/ cb.outer > 3 /\ cb'.pc = "done" /\ cb'.outer = 0
                 \/ /\ cb.outer <= 3 /\ sender_type = Order[cb.outer]
                    /\ cb'.pc = "inner" /\ cb'.outer = cb.outer /\ cb'.inner = 1
                 \/ /\ cb.outer <= 3 /\ sender_type # Order[cb.outer]
                    /\ cb'.pc = "outer" /\ cb'.outer = cb.outer + 1
         /\ SendData =>
              /\ cb'.pc = "inner" /\ cb'.outer = cb.outer /\ cb'.inner = cb.inner + 1
              /\ cb'.mm = cb.mm /\ cb'.owed = cb.owed /\ cb'.due = cb.due
              /\ cb'.got = IF sender_type = Order[cb.inner]
                           THEN Sent(cb.got, sender_type) ELSE cb.got
         /\ SendDataReturns =>
              /\ cb'.got = cb.got /\ cb'.mm = cb.mm
              /\ cb'.owed = cb.owed /\ cb'.due = cb.due
              /\ \/ cb.outer = 0 /\ cb'.pc = "done" /\ sender_type' = sender_type
                 \/ /\ cb.outer > 0 /\ cb'.pc = "outer" /\ cb'.outer = cb.outer + 1
                    /\ sender_type' = TypeAfter
         /\ CbWait => cb'.pc = "send" /\ cb'.owed = cb.owed /\ cb'.due = cb.due
         /\ CbEnter => cb'.pc = "sending" /\ cb'.owed = cb.owed /\ cb'.due = cb.due
         /\ CbReturns \/ CbDropped \/ CbSent => cb' = IdleCb
<1> USE DEF CallbackTypes, CbStates
<1>0. cb.outer \in Nat /\ cb.outer <= 4 /\ cb.inner \in Nat
  BY CbMembers
<1>1. ASSUME OuterTest
      PROVE  /\ cb' \in CbStates
             /\ cb'.got = cb.got /\ cb'.mm = cb.mm
             /\ cb'.owed = cb.owed /\ cb'.due = cb.due
             /\ \/ cb.outer > 3 /\ cb'.pc = "done" /\ cb'.outer = 0
                \/ /\ cb.outer <= 3 /\ sender_type = Order[cb.outer]
                   /\ cb'.pc = "inner" /\ cb'.outer = cb.outer /\ cb'.inner = 1
                \/ /\ cb.outer <= 3 /\ sender_type # Order[cb.outer]
                   /\ cb'.pc = "outer" /\ cb'.outer = cb.outer + 1
  <2>1. CASE cb.outer > 3
    BY <1>0, <1>1, <2>1, CbMembers DEF OuterTest
  <2>2. CASE cb.outer <= 3 /\ sender_type = Order[cb.outer]
    <3>1. ~ (cb.outer > 3)
      BY <1>0, <2>2
    <3>2. cb' = [cb EXCEPT !.pc = "inner", !.inner = 1]
      BY <1>1, <2>2, <3>1, Zenon DEF OuterTest
    <3>. QED
      BY <2>2, <3>2, CbMembers
  <2>3. CASE cb.outer <= 3 /\ sender_type # Order[cb.outer]
    <3>1. cb' = [cb EXCEPT !.outer = cb.outer + 1]
      BY <1>0, <1>1, <2>3 DEF OuterTest
    <3>. QED
      BY <1>0, <1>1, <2>3, <3>1, CbMembers DEF OuterTest
  <2>. QED
    BY <1>0, <2>1, <2>2, <2>3
<1>2. ASSUME SendData
      PROVE  /\ cb' \in CbStates
             /\ cb'.pc = "inner" /\ cb'.outer = cb.outer /\ cb'.inner = cb.inner + 1
             /\ cb'.mm = cb.mm /\ cb'.owed = cb.owed /\ cb'.due = cb.due
             /\ cb'.got = IF sender_type = Order[cb.inner]
                          THEN Sent(cb.got, sender_type) ELSE cb.got
  <2> DEFINE g == IF sender_type = Order[cb.inner] THEN Sent(cb.got, sender_type) ELSE cb.got
  <2>1. g \in Counts /\ cb.inner + 1 \in Tests
    BY <1>2, CbMembers DEF SendData, LinkTypes
  <2>2. cb' = [cb EXCEPT !.inner = cb.inner + 1, !.got = g] /\ cb.pc = "inner"
    BY <1>2 DEF SendData
  <2> HIDE DEF g
  <2>3. cb' \in CbStates /\ cb'.pc = "inner" /\ cb'.outer = cb.outer /\ cb'.inner = cb.inner + 1
        /\ cb'.mm = cb.mm /\ cb'.owed = cb.owed /\ cb'.due = cb.due /\ cb'.got = g
    BY <2>1, <2>2
  <2>. QED
    BY <2>3 DEF g
<1>3. ASSUME SendDataReturns
      PROVE  /\ cb' \in CbStates
             /\ cb'.got = cb.got /\ cb'.mm = cb.mm
             /\ cb'.owed = cb.owed /\ cb'.due = cb.due
             /\ \/ cb.outer = 0 /\ cb'.pc = "done" /\ sender_type' = sender_type
                \/ /\ cb.outer > 0 /\ cb'.pc = "outer" /\ cb'.outer = cb.outer + 1
                   /\ sender_type' = TypeAfter
  <2>1. CASE cb.outer = 0 /\ cb' = [cb EXCEPT !.pc = "done"] /\ sender_type' = sender_type
    BY <2>1, CbMembers
  <2>2. CASE cb.outer > 0 /\ cb' = [cb EXCEPT !.pc = "outer", !.outer = @ + 1, !.inner = 0]
             /\ sender_type' = TypeAfter
    <3>1. cb.outer + 1 \in Tests
      BY <1>3, CbMembers DEF SendDataReturns
    <3>. QED
      BY <2>2, <3>1, CbMembers
  <2>. QED
    BY <1>3, <2>1, <2>2 DEF SendDataReturns
<1>4. ASSUME CbWait \/ CbEnter
      PROVE  /\ cb' \in CbStates /\ cb'.owed = cb.owed /\ cb'.due = cb.due
             /\ CbWait => cb'.pc = "send"
             /\ CbEnter => cb'.pc = "sending"
  BY <1>4, CbMembers DEF CbWait, CbEnter
<1>5. ASSUME CbReturns \/ CbDropped \/ CbSent
      PROVE  cb' \in CbStates /\ cb' = IdleCb
  BY <1>5, CbMembers DEF CbReturns, CbDropped, CbSent
<1>. QED
  BY <1>1, <1>2, <1>3, <1>4, <1>5 DEF CbStep

\* Every step keeps the types of the callback.
LEMMA CallbackType ==
  ASSUME LinkTypes, CallbackTypes, CpuTypes, [Next]_vars
  PROVE  CallbackTypes'
<1>1. ASSUME NEW q \in Commands, Command(q)
      PROVE  CallbackTypes'
  <2>1. cb' = cb \/ cb' = [cb EXCEPT !.owed = "nobody", !.due = "nobody"]
    BY <1>1 DEF Command
  <2>2. cb' \in CbStates /\ cb'.pc = cb.pc /\ cb'.outer = cb.outer
    BY <2>1, CbMembers DEF CallbackTypes, CbStates
  <2>. QED
    BY <2>2 DEF CallbackTypes
<1>2. ASSUME NEW com \in {"other", "status"}, Spontaneous(com)
      PROVE  CallbackTypes'
  <2>1. [com |-> com, owed |-> "nobody"] \in LoopReq
    BY DEF LoopReq, Owners, Answered
  <2>. QED
    BY <1>2, <2>1, Beginning DEF Spontaneous, CallbackTypes
<1>3. CASE Reply
  BY <1>3, OldestRequest, Beginning DEF Reply, CallbackTypes
<1>4. CASE TimeRequest
  BY <1>4, CbMembers DEF TimeRequest, CallbackTypes, CbStates
<1>5. CASE Restart
  BY <1>5, CbMembers DEF Restart, CallbackTypes, IdleCb
<1>6. CASE IntroPacket \/ IntroRepeated
  BY <1>6, PacketDelivered DEF IntroPacket, IntroRepeated, CallbackTypes
<1>7. CASE CbStep
  <2>1. cb' \in CbStates
    BY <1>7, CbStepFields
  <2>2. cb'.pc = "inner" => cb'.outer <= 3
    BY <1>7, CbStepFields DEF CbStep, CallbackTypes, SendData, IdleCb
  <2>. QED
    BY <2>1, <2>2 DEF CallbackTypes
<1>8. CASE UNCHANGED cb
  BY <1>8 DEF CallbackTypes
<1>. QED
  BY <1>1, <1>2, <1>3, <1>4, <1>5, <1>6, <1>7, <1>8, WhoTouchesCallback

\* Every step keeps the link with the task that is inside UART::Sender.
LEMMA LinkHeldKept ==
  ASSUME LinkTypes, CallbackTypes, CpuTypes, LinkHeld, [Next]_vars
  PROVE  LinkHeld'
<1> USE DEF LinkHeld
<1>1. ASSUME NEW q \in Commands, Command(q)
      PROVE  LinkHeld'
  <2>1. cb'.pc = cb.pc
    BY <1>1 DEF Command, CallbackTypes, CbStates
  <2>. QED
    BY <1>1, <2>1 DEF Command
<1>2. CASE LoopStep
  BY <1>2 DEF LoopStep, LoopWait, LoopEnter, LoopDropped, LoopArrives, LoopSent, NotBusy,
     LinkTypes, IdleLoop, Tasks
<1>3. CASE CbStep
  <2>1. CASE OuterTest \/ SendData \/ SendDataReturns
    <3>1. cb'.pc # "sending" /\ cb.pc # "sending" /\ UNCHANGED <<uart, loop>>
      BY <2>1, <1>3, CbStepFields DEF OuterTest, SendData, SendDataReturns
    <3>. QED
      BY <3>1
  <2>2. CASE CbReturns \/ CbDropped \/ CbWait
    <3>1. cb'.pc # "sending" /\ cb.pc # "sending" /\ UNCHANGED <<uart, loop>>
      BY <2>2, <1>3, CbStepFields DEF CbReturns, CbDropped, CbWait, IdleCb
    <3>. QED
      BY <3>1
  <2>3. CASE CbEnter
    BY <2>3, <1>3, CbStepFields DEF CbEnter, NotBusy
  <2>4. CASE CbSent
    BY <2>4 DEF CbSent, IdleCb
  <2>. QED
    BY <1>3, <2>1, <2>2, <2>3, <2>4 DEF CbStep
<1>4. ASSUME NEW com \in {"other", "status"}, Spontaneous(com)
      PROVE  LinkHeld'
  <2>1. [com |-> com, owed |-> "nobody"] \in LoopReq
    BY DEF LoopReq, Owners, Answered
  <2>2. loop'.pc = loop.pc
    BY <1>4 DEF Spontaneous, LinkTypes
  <2>. QED
    BY <1>4, <2>1, <2>2, Beginning DEF Spontaneous
<1>5. CASE TimeRequest
  BY <1>5 DEF TimeRequest, IdleCb
<1>6. CASE Reply
  BY <1>6, OldestRequest, Beginning DEF Reply
<1>7. ASSUME NEW k, TakePacket(k), UNCHANGED <<uart, loop>>
      PROVE  LinkHeld'
  <2>1. cb.pc # "sending" /\ (cb' = cb \/ cb'.pc = "inner")
    BY <1>7, PacketDelivered DEF TakePacket
  <2>. QED
    BY <1>7, <2>1
<1>8. CASE IntroPacket \/ IntroRepeated
  BY <1>7, <1>8 DEF IntroPacket, IntroRepeated, TakePacket
<1>9. CASE Restart
  BY <1>9 DEF Restart, IdleLoop, IdleCb
<1>10. CASE UNCHANGED <<uart, loop, cb>>
  BY <1>10
<1>. QED
  <2>1. LoopEnter \/ LoopSent => LoopStep
    BY DEF LoopStep
  <2>2. CbEnter \/ CbSent => CbStep
    BY DEF CbStep
  <2>. QED
    BY <1>1, <1>2, <1>3, <1>4, <1>5, <1>6, <1>8, <1>9, <1>10, <2>1, <2>2,
       WhoTouchesRoutes, WhoTouchesCallback

\* A disturbed list of requests is as long, and owes nothing.
LEMMA DisturbedType ==
  ASSUME CpuTypes
  PROVE  /\ Disturbed(asked) \in Seq(Asked) /\ Len(Disturbed(asked)) = Len(asked)
         /\ \A i \in 1 .. Len(asked) : Disturbed(asked)[i].owed = "nobody"
         /\ Disturb(intro) = [owed |-> "nobody", total |-> intro.total, next |-> intro.next]
<1>1. Len(asked) \in Nat /\ DOMAIN asked = 1 .. Len(asked)
  BY DEF CpuTypes
<1>2. \A i \in 1 .. Len(asked) : Disturb(asked[i]) \in Asked /\ Disturb(asked[i]).owed = "nobody"
  <2> SUFFICES ASSUME NEW i \in 1 .. Len(asked)
               PROVE  Disturb(asked[i]) \in Asked /\ Disturb(asked[i]).owed = "nobody"
    OBVIOUS
  <2>1. asked[i] \in Asked
    BY ElementOfSeq DEF CpuTypes
  <2>. QED
    BY <2>1 DEF Asked, Disturb
<1>3. Disturbed(asked) = [i \in 1 .. Len(asked) |-> Disturb(asked[i])]
  BY <1>1 DEF Disturbed
<1> HIDE DEF Disturb
<1>4. Disturbed(asked) \in Seq(Asked)
  BY <1>1, <1>2, <1>3, IsASeq
<1>5. Disturb(intro) = [owed |-> "nobody", total |-> intro.total, next |-> intro.next]
  BY DEF CpuTypes, Disturb
<1>. QED
  BY <1>1, <1>2, <1>3, <1>4, <1>5

\* The slots an introduction message finds, and what it leaves.
LEMMA PacketSlots ==
  ASSUME CpuTypes, NEW k \in Nat, TakePacket(k)
  PROVE  /\ Slots(k) \in Seq(BOOLEAN) /\ Len(Slots(k)) <= MaxIntro /\ Len(Slots(k)) \in Nat
         /\ DOMAIN Slots(k) = 1 .. Len(Slots(k))
         /\ paketler' \in Seq(BOOLEAN) /\ Len(paketler') <= MaxIntro
<1>0. MaxIntro \in Nat /\ intro.total \in Nat /\ intro.total <= MaxIntro
  BY RouterAssumption DEF CpuTypes
<1>1. [i \in 1 .. intro.total |-> FALSE] \in Seq(BOOLEAN)
  <2>1. [i \in 1 .. intro.total |-> FALSE] \in [1 .. intro.total -> BOOLEAN]
    BY Zenon
  <2>. QED
    BY <1>0, <2>1, SeqDef, ZenonT(60)
<1>2. Len([i \in 1 .. intro.total |-> FALSE]) = intro.total
  BY <1>0
<1>3. Slots(k) \in Seq(BOOLEAN) /\ Len(Slots(k)) <= MaxIntro
  BY <1>0, <1>1, <1>2 DEF Slots, CpuTypes
<1>4. Len(Slots(k)) \in Nat /\ DOMAIN Slots(k) = 1 .. Len(Slots(k))
  BY <1>3
<1>5. paketler' \in Seq(BOOLEAN) /\ Len(paketler') <= MaxIntro
  <2>1. CASE paketler' = paketler
    BY <2>1 DEF CpuTypes
  <2>2. CASE paketler' = NoPackets
    <3>1. paketler' \in Seq(BOOLEAN) /\ Len(paketler') = 0
      BY <2>2 DEF NoPackets
    <3>. QED
      BY <1>0, <3>1
  <2>3. CASE k \in DOMAIN Slots(k) /\ paketler' = [Slots(k) EXCEPT ![k] = TRUE]
    BY <1>3, <1>4, <2>3, ExceptSeq
  <2>. QED
    BY <2>1, <2>2, <2>3, Zenon DEF TakePacket
<1>. QED
  BY <1>3, <1>4, <1>5

\* Every step keeps the types of what the CPU task has been asked.
LEMMA CpuType ==
  ASSUME LinkTypes, CpuTypes, [Next]_vars
  PROVE  CpuTypes'
<1>0. MaxAsked \in Nat /\ MaxIntro \in Nat
  BY RouterAssumption
<1>1. paketler' \in Seq(BOOLEAN) /\ Len(paketler') <= MaxIntro
  <2>1. CASE IntroPacket
    <3>1. intro.next \in Nat /\ TakePacket(intro.next)
      BY <2>1 DEF IntroPacket, CpuTypes
    <3>. QED
      BY <3>1, PacketSlots
  <2>2. CASE IntroRepeated
    <3>1. intro.next - 1 \in Nat /\ TakePacket(intro.next - 1)
      BY <2>2 DEF IntroRepeated, CpuTypes
    <3>. QED
      BY <3>1, PacketSlots
  <2>3. CASE Restart
    <3>1. paketler' \in Seq(BOOLEAN) /\ Len(paketler') = 0
      BY <2>3 DEF Restart, NoPackets
    <3>. QED
      BY <1>0, <3>1
  <2>4. CASE UNCHANGED paketler
    BY <2>4 DEF CpuTypes
  <2>. QED
    BY <2>1, <2>2, <2>3, <2>4, WhoTouchesCpu
<1>2. asked' \in Seq(Asked) /\ Len(asked') <= MaxAsked
  <2>0. asked \in Seq(Asked) /\ Len(asked) <= MaxAsked /\ Len(asked) \in Nat
    BY DEF CpuTypes
  <2>1. CASE asked' = Disturbed(asked)
    BY <2>0, <2>1, DisturbedType
  <2>2. CASE LoopArrives
    <3>1. CASE loop.req \in Asked
      <4>1. asked' = Append(asked, loop.req) /\ Len(asked) < MaxAsked
        BY <2>2, <3>1 DEF LoopArrives
      <4>. QED
        BY <1>0, <2>0, <3>1, <4>1, AppendProperties
    <3>2. CASE loop.req \notin Asked
      BY <2>0, <2>2, <3>2 DEF LoopArrives
    <3>. QED
      BY <3>1, <3>2
  <2>3. CASE asked # <<>> /\ asked' = Tail(asked)
    BY <1>0, <2>0, <2>3, OldestRequest
  <2>4. CASE UNCHANGED asked
    BY <2>0, <2>4
  <2>. QED
    BY <2>1, <2>2, <2>3, <2>4, WhoTouchesCpu
    DEF Command, Spontaneous, Reply, IntroBegins, Restart
<1>3. /\ intro' \in [owed : Owners, total : 0 .. MaxIntro, next : 1 .. MaxIntro + 1]
      /\ intro'.next <= intro'.total + 1
  <2>0. /\ intro \in [owed : Owners, total : 0 .. MaxIntro, next : 1 .. MaxIntro + 1]
        /\ intro.next <= intro.total + 1
    BY DEF CpuTypes
  <2>1. CASE intro' = Disturb(intro)
    BY <2>0, <2>1, DisturbedType DEF Owners
  <2>2. ASSUME NEW n \in 1 .. MaxIntro, IntroBegins(n)
        PROVE  /\ intro' \in [owed : Owners, total : 0 .. MaxIntro, next : 1 .. MaxIntro + 1]
               /\ intro'.next <= intro'.total + 1
    <3>1. Head(asked).owed \in Owners
      BY <2>2, OldestRequest DEF IntroBegins, LoopReq
    <3>. QED
      BY <1>0, <2>2, <3>1 DEF IntroBegins
  <2>3. CASE intro.next <= intro.total /\ intro' = [intro EXCEPT !.next = @ + 1]
    BY <1>0, <2>0, <2>3
  <2>4. CASE intro' = NoIntro
    BY <1>0, <2>4 DEF NoIntro, Owners
  <2>5. CASE UNCHANGED intro
    BY <2>0, <2>5
  <2>. QED
    BY <2>1, <2>2, <2>3, <2>4, <2>5, WhoTouchesCpu
    DEF Command, Spontaneous, IntroPacket, IntroLost, IntroOver, Restart
<1>. QED
  BY <1>1, <1>2, <1>3 DEF CpuTypes

\* Every step keeps the types of the history flags.
LEMMA FlagType ==
  ASSUME FlagTypes, [Next]_vars
  PROVE  FlagTypes'
<1>1. crashed' \in BOOLEAN
  BY Zenon, WhoTouchesCpu DEF FlagTypes, IntroPacket, IntroRepeated, TakePacket, Restart
<1>2. gap' \in BOOLEAN
  BY Zenon, WhoTouchesCpu DEF FlagTypes, IntroPacket, IntroLost, IntroRepeated, Restart
<1>. QED
  BY <1>1, <1>2 DEF FlagTypes

-----------------------------------------------------------------------------
(* The delivery of a message.                                               *)

LEMMA OrderAndPlace ==
  /\ \A t \in Types : Place(t) \in 1 .. 3 /\ Order[Place(t)] = t
  /\ \A t \in Types, i \in 1 .. 3 : Order[i] = t => i = Place(t)
  /\ \A i \in 2 .. 3 : Order[i] # "ALL"
  /\ \A t \in Types : Sent(Nobody, t) = Dest(t)
  /\ "nobody" \notin Types /\ "ALL" \in Types
BY DEF Types, Place, Order, Sent, Nobody, Dest

\* Every step keeps the type under which a message due to somebody is delivered.
LEMMA DeliveryKept ==
  ASSUME TypeOK, DeliveryInv, [Next]_vars
  PROVE  DeliveryInv'
<1> USE DEF DeliveryInv
<1>0. LinkTypes /\ CallbackTypes /\ CpuTypes
  BY DEF TypeOK
<1>1. ASSUME NEW q \in Commands, Command(q)
      PROVE  DeliveryInv'
  <2>1. CASE q.com = "COM"
    BY <1>1, <2>1 DEF Command, SetType
  <2>2. CASE q.com # "COM"
    BY <1>0, <1>1, <2>2 DEF Command, CallbackTypes, CbStates
  <2>. QED
    BY <2>1, <2>2
<1>2. ASSUME NEW q \in LoopReq, Begin(q), UNCHANGED sender_type
      PROVE  DeliveryInv'
  <2>1. sender_type \in Types
    BY <1>0 DEF LinkTypes
  <2>2. /\ cb'.pc = "outer" /\ cb'.outer = 1 /\ cb'.got = Nobody /\ cb'.due = sender_type
    BY <1>0, <1>2, Beginning
  <2>. QED
    BY <1>2, <2>1, <2>2, OrderAndPlace
<1>3. ASSUME NEW com \in {"other", "status"}, Spontaneous(com)
      PROVE  DeliveryInv'
  <2>1. [com |-> com, owed |-> "nobody"] \in LoopReq
    BY DEF LoopReq, Owners, Answered
  <2>. QED
    BY <1>2, <1>3, <2>1 DEF Spontaneous
<1>4. CASE Reply
  BY <1>0, <1>2, <1>4, OldestRequest DEF Reply
<1>5. CASE TimeRequest \/ Restart
  BY <1>5, CbMembers DEF TimeRequest, Restart, IdleCb
<1>6. ASSUME NEW k, TakePacket(k)
      PROVE  DeliveryInv'
  <2>1. sender_type' = sender_type /\ sender_type \in Types
    BY <1>0, <1>6 DEF TakePacket, LinkTypes
  <2>2. CASE cb' = cb
    BY <2>1, <2>2
  <2>3. CASE /\ cb'.pc = "inner" /\ cb'.outer = 0 /\ cb'.inner = 1 /\ cb'.got = Nobody
             /\ cb'.due = sender_type
    BY <2>1, <2>3, OrderAndPlace
  <2>. QED
    BY <1>0, <1>6, <2>2, <2>3, PacketDelivered
<1>7. CASE CbStep
  <2> DEFINE t == cb.due
  <2>0. CASE t = "nobody"
    BY <1>0, <1>7, <2>0, CbStepFields DEF CbStep, IdleCb
  <2>1. CASE t # "nobody"
    <3>0. /\ t \in Types /\ Place(t) \in 1 .. 3 /\ sender_type \in Types
          /\ cb.outer \in 0 .. 4 /\ cb.inner \in 0 .. 4
      BY <1>0, <2>1, OrderAndPlace DEF CallbackTypes, CbStates, Dues, Tests, LinkTypes
    <3>1. CASE OuterTest
      <4>1. cb.pc = "outer" /\ UNCHANGED sender_type
        BY <3>1 DEF OuterTest
      <4>2. CASE cb.got = Nobody /\ sender_type = t /\ cb.outer \in 1 .. Place(t)
        BY <1>0, <1>7, <3>0, <3>1, <4>1, <4>2, CbStepFields, OrderAndPlace
      <4>3. CASE cb.got = Dest(t) /\ sender_type \in {t, "ALL"} /\ cb.outer > Place(t)
        <5>1. cb.outer <= 3 => Order[cb.outer] # sender_type
          BY <3>0, <4>3, OrderAndPlace
        <5>. QED
          BY <1>0, <1>7, <3>0, <3>1, <4>1, <4>3, <5>1, CbStepFields
      <4>. QED
        BY <2>1, <4>1, <4>2, <4>3
    <3>2. CASE SendData
      <4>1. cb.pc = "inner" /\ cb.inner <= 3 /\ UNCHANGED sender_type /\ sender_type = t
            /\ cb.inner \in 1 .. 3
            /\ cb.got = IF cb.inner > Place(t) THEN Dest(t) ELSE Nobody
        BY <2>1, <3>0, <3>2 DEF SendData
      <4>2. sender_type = Order[cb.inner] <=> cb.inner = Place(t)
        BY <3>0, <4>1, OrderAndPlace
      <4>3. cb'.got = IF cb.inner = Place(t) THEN Sent(cb.got, t) ELSE cb.got
        BY <1>0, <1>7, <3>2, <4>1, <4>2, CbStepFields
      <4>4. cb'.got = IF cb.inner + 1 > Place(t) THEN Dest(t) ELSE Nobody
        BY <3>0, <4>1, <4>3, OrderAndPlace
      <4>5. /\ cb'.pc = "inner" /\ cb'.outer = cb.outer /\ cb'.inner = cb.inner + 1
            /\ cb'.due = t
        BY <1>0, <1>7, <3>2, CbStepFields
      <4>6. cb.outer \in {0, Place(t)}
        BY <2>1, <4>1
      <4>. QED
        BY <4>1, <4>4, <4>5, <4>6
    <3>3. CASE SendDataReturns
      <4>1. cb.pc = "inner" /\ cb.inner > 3 /\ sender_type = t /\ cb.outer \in {0, Place(t)}
            /\ cb.got = Dest(t)
        BY <2>1, <3>0, <3>3 DEF SendDataReturns
      <4>2. cb'.got = Dest(t) /\ cb'.due = t
        BY <1>0, <1>7, <3>3, <4>1, CbStepFields
      <4>3. CASE cb'.pc = "done"
        BY <4>2, <4>3
      <4>4. CASE /\ cb.outer > 0 /\ cb'.pc = "outer" /\ cb'.outer = cb.outer + 1
                 /\ sender_type' = TypeAfter
        <5>1. sender_type' \in {t, "ALL"}
          BY <4>1, <4>4 DEF TypeAfter
        <5>2. cb'.outer > Place(t)
          BY <3>0, <4>1, <4>4
        <5>. QED
          BY <4>2, <4>4, <5>1, <5>2
      <4>. QED
        BY <1>0, <1>7, <3>3, <4>3, <4>4, CbStepFields
    <3>4. CASE CbReturns \/ CbDropped \/ CbSent
      BY <1>0, <1>7, <3>4, CbStepFields DEF IdleCb
    <3>5. CASE CbWait \/ CbEnter
      BY <2>1, <3>5 DEF CbWait, CbEnter
    <3>. QED
      BY <1>7, <3>1, <3>2, <3>3, <3>4, <3>5 DEF CbStep
  <2>. QED
    BY <2>0, <2>1
<1>8. CASE UNCHANGED <<cb, sender_type>>
  BY <1>8
<1>. QED
  <2>1. SendDataReturns => CbStep
    BY DEF CbStep
  <2>2. ASSUME UNCHANGED sender_type
        PROVE  DeliveryInv'
    BY <1>1, <1>3, <1>4, <1>5, <1>6, <1>7, <1>8, <2>2, WhoTouchesCallback
    DEF IntroPacket, IntroRepeated
  <2>. QED
    BY <1>1, <1>5, <1>7, <2>1, <2>2, WhoTouchesRoutes

-----------------------------------------------------------------------------
(* Drops.                                                                   *)

LEMMA DropKept ==
  ASSUME TypeOK, DropNeedsRace, [Next]_vars
  PROVE  DropNeedsRace'
<1> USE DEF DropNeedsRace
<1>0. LinkTypes /\ CallbackTypes /\ CpuTypes /\ LinkHeld
  BY DEF TypeOK
<1>1. ASSUME NEW q \in Commands, Command(q)
      PROVE  DropNeedsRace'
  <2>1. cb'.pc = cb.pc
    BY <1>0, <1>1 DEF Command, CallbackTypes, CbStates
  <2>. QED
    BY <1>1, <2>1 DEF Command
<1>2. CASE LoopStep
  <2>1. CASE LoopWait
    BY <2>1 DEF LoopWait, LinkFree
  <2>2. CASE LoopEnter
    BY <1>0, <2>2 DEF LoopEnter, LinkTypes
  <2>3. CASE LoopDropped
    BY <2>3 DEF LoopDropped, IdleLoop
  <2>4. CASE LoopArrives
    BY <2>4 DEF LoopArrives
  <2>5. CASE LoopSent
    BY <2>5 DEF LoopSent, IdleLoop
  <2>. QED
    BY <1>2, <2>1, <2>2, <2>3, <2>4, <2>5 DEF LoopStep
<1>3. CASE CbStep
  <2>1. CASE OuterTest \/ SendData \/ SendDataReturns \/ CbReturns
    <3>1. cb'.pc # "send" /\ UNCHANGED <<uart, loop, raced>>
      BY <1>0, <1>3, <2>1, CbStepFields DEF OuterTest, SendData, SendDataReturns, CbReturns, IdleCb
    <3>. QED
      BY <3>1
  <2>2. CASE CbWait
    BY <2>2 DEF CbWait, LinkFree
  <2>3. CASE CbEnter
    BY <1>0, <1>3, <2>3, CbStepFields DEF CbEnter
  <2>4. CASE CbDropped
    BY <2>4 DEF CbDropped, IdleCb
  <2>5. CASE CbSent
    BY <2>5 DEF CbSent, IdleCb
  <2>. QED
    BY <1>3, <2>1, <2>2, <2>3, <2>4, <2>5 DEF CbStep
<1>4. ASSUME cb'.pc # "send" \/ cb' = cb, loop'.pc = loop.pc, UNCHANGED <<uart, raced>>
      PROVE  DropNeedsRace'
  BY <1>4
<1>5. ASSUME NEW com \in {"other", "status"}, Spontaneous(com)
      PROVE  DropNeedsRace'
  <2>1. [com |-> com, owed |-> "nobody"] \in LoopReq
    BY DEF LoopReq, Owners, Answered
  <2>2. loop'.pc = loop.pc
    BY <1>0, <1>5 DEF Spontaneous, LinkTypes
  <2>. QED
    BY <1>0, <1>4, <1>5, <2>1, <2>2, Beginning DEF Spontaneous
<1>6. CASE Reply
  BY <1>0, <1>4, <1>6, OldestRequest, Beginning DEF Reply
<1>7. CASE TimeRequest
  BY <1>4, <1>7 DEF TimeRequest, IdleCb
<1>8. ASSUME NEW k, TakePacket(k)
      PROVE  DropNeedsRace'
  <2>1. UNCHANGED <<uart, loop, raced>>
    BY <1>8 DEF TakePacket
  <2>. QED
    BY <1>0, <1>4, <1>8, <2>1, PacketDelivered
<1>9. CASE IntroPacket \/ IntroRepeated
  BY <1>8, <1>9 DEF IntroPacket, IntroRepeated
<1>10. CASE Restart
  BY <1>10 DEF Restart, IdleLoop, IdleCb
<1>11. CASE UNCHANGED <<uart, loop, cb, raced>>
  BY <1>11
<1>. QED
  <2>1. LoopEnter \/ LoopSent => LoopStep
    BY DEF LoopStep
  <2>2. CbEnter \/ CbSent => CbStep
    BY DEF CbStep
  <2>. QED
    BY <1>1, <1>2, <1>3, <1>5, <1>6, <1>7, <1>9, <1>10, <1>11, <2>1, <2>2,
       WhoTouchesRoutes, WhoTouchesCallback

-----------------------------------------------------------------------------
(* Who is owed an answer.                                                   *)

\* The part of OwedInv about the callback task follows from the others when the
\* task is left alone and nothing new is owed.
LEMMA OwedDisturbed ==
  ASSUME TypeOK, OwedInv,
         asked' = Disturbed(asked), intro' = Disturb(intro),
         loop'.req.owed = "nobody",
         loop'.pc \in {"idle", "arrived"} => loop'.req = NoneAsked,
         cb'.owed # "nobody" => cb'.due = cb'.owed
  PROVE  OwedInv'
<1>1. Len(asked) \in Nat
  BY DEF TypeOK, CpuTypes
<1>2. /\ Len(asked') = Len(asked) /\ \A i \in 1 .. Len(asked') : asked'[i].owed = "nobody"
      /\ intro'.owed = "nobody"
  BY DisturbedType DEF TypeOK
<1>3. NothingOwed'
  BY <1>2 DEF NothingOwed
<1>. QED
  BY <1>2, <1>3 DEF OwedInv

\* Every step keeps a client that is owed an answer the only one asked for.
LEMMA OwedKept ==
  ASSUME TypeOK, OwedInv, [Next]_vars
  PROVE  OwedInv'
<1>0. LinkTypes /\ CallbackTypes /\ CpuTypes /\ Len(asked) \in Nat
  BY DEF TypeOK, CpuTypes
<1>1. /\ loop.pc \in {"idle", "arrived"} => loop.req = NoneAsked
      /\ loop.req.owed # "nobody" =>
            sender_type = loop.req.owed /\ asked = <<>> /\ intro = NoIntro
      /\ \A i \in 1 .. Len(asked) : asked[i].owed # "nobody" =>
            /\ sender_type = asked[i].owed /\ Len(asked) = 1
            /\ intro = NoIntro /\ loop.req \notin Asked
      /\ intro.owed # "nobody" =>
            sender_type = intro.owed /\ asked = <<>> /\ loop.req \notin Asked
      /\ (cb.pc = "outer" \/ (cb.pc = "inner" /\ cb.outer > 0)) /\ cb.mm => NothingOwed
      /\ cb.owed # "nobody" => cb.due = cb.owed
  BY Zenon DEF OwedInv
<1>2. NoneAsked \notin Asked /\ NoneAsked.owed = "nobody" /\ NoIntro.owed = "nobody"
  BY DEF NoneAsked, Asked, Answered, NoIntro
<1>3. ASSUME NEW q \in Commands, Command(q)
      PROVE  OwedInv'
  <2>1. /\ loop.pc = "idle" /\ loop'.pc = "wait"
        /\ loop'.req = [com |-> q.com,
                        owed |-> IF q.com \in Answered /\ Quiet THEN q.snd ELSE "nobody"]
    BY <1>3 DEF Command
  <2>2. loop'.req.com = q.com
        /\ loop'.req.owed = IF q.com \in Answered /\ Quiet THEN q.snd ELSE "nobody"
    BY <2>1
  <2>3. CASE q.com = "COM"
    <3>1. loop'.req \notin Asked /\ loop'.req.owed = "nobody"
      BY <2>2, <2>3, CommandTypes DEF Asked
    <3>2. UNCHANGED <<sender_type, asked, intro, cb>>
      BY <1>3, <2>3 DEF Command, SetType
    <3>4. (cb'.pc = "outer" \/ (cb'.pc = "inner" /\ cb'.outer > 0)) /\ cb'.mm => NothingOwed'
      <4>1. NothingOwed => NothingOwed'
        BY <3>1, <3>2 DEF NothingOwed
      <4>. QED
        BY <1>1, <3>2, <4>1, Zenon
    <3>. QED
      BY <1>1, <2>1, <3>1, <3>2, <3>4 DEF OwedInv
  <2>4. CASE q.com # "COM"
    <3>1. /\ asked' = Disturbed(asked) /\ intro' = Disturb(intro) /\ sender_type' = q.snd
          /\ cb' = [cb EXCEPT !.owed = "nobody", !.due = "nobody"]
      BY <1>3, <2>4 DEF Command, SetType
    <3>2. cb'.owed = "nobody" /\ cb'.pc = cb.pc
      BY <1>0, <3>1 DEF CallbackTypes, CbStates
    <3>3. CASE loop'.req.owed = "nobody"
      BY <2>1, <3>1, <3>2, <3>3, OwedDisturbed
    <3>4. CASE loop'.req.owed # "nobody"
      <4>1. q.com \in Answered /\ asked = <<>> /\ intro = NoIntro /\ cb.pc = "idle"
        BY <2>2, <3>4 DEF Quiet
      <4>2. asked' = <<>> /\ intro' = NoIntro
        <5>1. Len(asked) = 0 /\ asked' \in Seq(Asked) /\ Len(asked') = Len(asked)
          BY <1>0, <3>1, <4>1, DisturbedType
        <5>2. intro' = NoIntro
          BY <1>0, <3>1, <4>1, DisturbedType DEF NoIntro
        <5>. QED
          BY <5>1, <5>2, EmptySeq
      <4>3. Len(asked') = 0
        BY <4>2
      <4>. QED
        BY <1>2, <2>1, <2>2, <3>1, <3>2, <4>1, <4>2, <4>3 DEF OwedInv
    <3>. QED
      BY <3>3, <3>4
  <2>. QED
    BY <2>3, <2>4
<1>4. ASSUME NEW com \in {"other", "status"}, Spontaneous(com)
      PROVE  OwedInv'
  <2>1. [com |-> com, owed |-> "nobody"] \in LoopReq
    BY DEF LoopReq, Owners, Answered
  <2>2. cb'.owed = "nobody"
    BY <1>0, <1>4, <2>1, Beginning DEF Spontaneous
  <2>3. loop'.pc = loop.pc /\ loop'.req = Disturb(loop.req) /\ loop.req \in LoopReq
    BY <1>0, <1>4 DEF Spontaneous, LinkTypes
  <2>4. loop.req = NoneAsked => loop'.req = NoneAsked
    BY <2>3 DEF NoneAsked, Disturb
  <2>5. loop'.req.owed = "nobody"
    BY <2>3, DisturbType
  <2>. QED
    BY <1>1, <1>4, <2>2, <2>3, <2>4, <2>5, OwedDisturbed DEF Spontaneous
<1>5. CASE Restart
  BY <1>2, <1>5, OwedDisturbed DEF Restart, IdleLoop, IdleCb
<1>6. CASE LoopStep
  <2>1. UNCHANGED <<sender_type, intro, cb>>
    BY <1>6 DEF LoopStep, LoopWait, LoopEnter, LoopDropped, LoopArrives, LoopSent
  <2>2. CASE (LoopWait \/ LoopEnter) /\ UNCHANGED asked
    <3>1. loop'.req = loop.req /\ loop'.pc \notin {"idle", "arrived"}
      BY <1>0, <2>2 DEF LoopWait, LoopEnter, LinkTypes
    <3>2. NothingOwed' <=> NothingOwed
      BY <2>1, <2>2, <3>1 DEF NothingOwed
    <3>. QED
      BY <1>1, <2>1, <2>2, <3>1, <3>2 DEF OwedInv
  <2>3. CASE (LoopDropped \/ LoopSent) /\ UNCHANGED asked
    <3>1. loop'.req = NoneAsked
      BY <2>3 DEF LoopDropped, LoopSent, IdleLoop
    <3>2. NothingOwed => NothingOwed'
      BY <1>2, <2>1, <2>3, <3>1 DEF NothingOwed
    <3>. QED
      BY <1>1, <1>2, <2>1, <2>3, <3>1, <3>2 DEF OwedInv
  <2>4. CASE LoopArrives
    <3>1. loop'.req = NoneAsked
      BY <2>4 DEF LoopArrives
    <3>2. CASE loop.req \notin Asked
      <4>1. asked' = asked
        BY <2>4, <3>2 DEF LoopArrives
      <4>2. NothingOwed => NothingOwed'
        BY <1>2, <2>1, <3>1, <4>1 DEF NothingOwed
      <4>. QED
        BY <1>1, <1>2, <2>1, <3>1, <4>1, <4>2 DEF OwedInv
    <3>3. CASE loop.req \in Asked
      <4>1. /\ Len(asked') = Len(asked) + 1 /\ asked'[Len(asked) + 1] = loop.req
            /\ \A i \in 1 .. Len(asked) : asked'[i] = asked[i]
        BY <1>0, <2>4, <3>3, AppendProperties DEF LoopArrives, CpuTypes
      <4>2. intro.owed = "nobody" /\ \A i \in 1 .. Len(asked) : asked[i].owed = "nobody"
        BY <1>1, <3>3
      <4>3. \A i \in 1 .. Len(asked') : asked'[i].owed # "nobody" => i = Len(asked) + 1
        BY <1>0, <4>1, <4>2
      <4>4. loop.req.owed # "nobody" => Len(asked) = 0
        BY <1>1
      <4>5. NothingOwed => NothingOwed'
        BY <1>2, <2>1, <3>1, <4>1, <4>3 DEF NothingOwed
      <4>. QED
        BY <1>1, <1>2, <2>1, <3>1, <4>1, <4>2, <4>3, <4>4, <4>5 DEF OwedInv
    <3>. QED
      BY <3>2, <3>3
  <2>. QED
    BY <1>6, <2>2, <2>3, <2>4 DEF LoopStep, LoopWait, LoopEnter, LoopDropped, LoopSent
<1>7. CASE Reply
  <2>1. /\ asked # <<>> /\ Begin(Head(asked)) /\ UNCHANGED <<sender_type, loop, intro>>
        /\ Len(asked) > 0
    BY <1>0, <1>7, OldestRequest DEF Reply
  <2>2. /\ cb'.pc = "outer" /\ cb'.owed = asked[1].owed /\ cb'.due = sender_type
        /\ cb'.mm = ResetsType(Head(asked).com)
    BY <1>0, <2>1, OldestRequest, Beginning
  <2>3. loop.req.owed = "nobody" /\ intro.owed = "nobody"
    BY <1>1, <2>1
  <2>4. cb'.owed # "nobody" => cb'.due = cb'.owed
    BY <1>0, <1>1, <2>1, <2>2
  <2>5. CASE asked' = Tail(asked)
    <3>1. Len(asked') = Len(asked) - 1 /\ \A i \in 1 .. Len(asked) - 1 : asked'[i] = asked[i + 1]
      BY <1>0, <2>1, <2>5, OldestRequest
    <3>2. \A i \in 1 .. Len(asked') : asked'[i].owed = "nobody"
      BY <1>0, <1>1, <3>1
    <3>3. NothingOwed'
      BY <2>1, <2>3, <3>2 DEF NothingOwed
    <3>. QED
      BY <1>1, <2>1, <2>3, <2>4, <3>2, <3>3 DEF OwedInv
  <2>6. CASE Head(asked).com = "status" /\ UNCHANGED asked
    <3>1. cb'.mm => sender_type = "ALL"
      BY <2>2, <2>6, Zenon DEF ResetsType
    <3>2. ASSUME sender_type = "ALL"
          PROVE  \A i \in 1 .. Len(asked) : asked[i].owed = "nobody"
      <4>1. \A i \in 1 .. Len(asked) : asked[i] \in Asked
        BY <1>0, ElementOfSeq DEF CpuTypes
      <4>. QED
        BY <1>1, <3>2, <4>1 DEF Asked
    <3>3. cb'.mm => NothingOwed'
      BY <2>1, <2>3, <2>6, <3>1, <3>2 DEF NothingOwed
    <3>. QED
      BY <1>1, <2>1, <2>3, <2>4, <2>6, <3>3 DEF OwedInv
  <2>. QED
    BY <1>7, <2>5, <2>6 DEF Reply
<1>8. CASE CbStep
  <2>1. UNCHANGED <<loop, asked, intro>>
    BY <1>8 DEF CbStep, OuterTest, SendData, SendDataReturns, CbReturns, CbWait, CbEnter,
       CbDropped, CbSent
  <2>2. cb'.owed # "nobody" => cb'.due = cb'.owed
    BY <1>0, <1>1, <1>8, CbStepFields DEF CbStep, IdleCb
  <2>3. NothingOwed' <=> NothingOwed
    BY <2>1 DEF NothingOwed
  <2>4. (cb'.pc = "outer" \/ (cb'.pc = "inner" /\ cb'.outer > 0)) /\ cb'.mm => NothingOwed
    <3>1. CASE OuterTest
      <4>1. cb.pc = "outer" /\ cb'.mm = cb.mm
        BY <1>0, <1>8, <3>1, CbStepFields DEF OuterTest
      <4>2. cb.mm => NothingOwed
        BY <1>1, <4>1
      <4>3. cb'.mm => cb.mm
        BY <4>1
      <4>. QED
        BY <4>2, <4>3
    <3>2. CASE SendData
      BY <1>0, <1>1, <1>8, <3>2, CbStepFields DEF SendData
    <3>3. CASE SendDataReturns
      BY <1>0, <1>1, <1>8, <3>3, CbStepFields DEF SendDataReturns
    <3>4. CASE CbReturns \/ CbDropped \/ CbSent \/ CbWait \/ CbEnter
      BY <1>0, <1>8, <3>4, CbStepFields DEF IdleCb
    <3>. QED
      BY <1>8, <3>1, <3>2, <3>3, <3>4 DEF CbStep
  <2>5. CASE sender_type' = sender_type
    BY <1>1, <2>1, <2>2, <2>3, <2>4, <2>5 DEF OwedInv
  <2>6. CASE SendDataReturns /\ cb.outer > 0 /\ sender_type' = TypeAfter /\ sender_type' # sender_type
    <3>1. cb.mm /\ cb.pc = "inner"
      BY <2>6, Zenon DEF TypeAfter, SendDataReturns
    <3>2. NothingOwed
      BY <1>1, <2>6, <3>1
    <3>3. NothingOwed'
      BY <2>3, <3>2
    <3>. QED
      BY <1>1, <2>1, <2>2, <3>3 DEF OwedInv, NothingOwed
  <2>. QED
    BY <1>0, <1>8, <2>5, <2>6, CbStepFields
    DEF CbStep, OuterTest, SendData, CbReturns, CbWait, CbEnter, CbDropped, CbSent
<1>9. CASE TimeRequest
  <2>1. UNCHANGED <<sender_type, loop, asked, intro>>
    BY <1>9 DEF TimeRequest
  <2>2. cb'.pc = "wait" /\ cb'.owed = "nobody"
    BY <1>9 DEF TimeRequest, IdleCb
  <2>. QED
    BY <1>1, <2>1, <2>2 DEF OwedInv
<1>10. ASSUME NEW k, TakePacket(k),
              UNCHANGED intro \/ (intro.next <= intro.total
                                    /\ intro' = [intro EXCEPT !.next = @ + 1])
       PROVE  OwedInv'
  <2>1. UNCHANGED <<sender_type, loop, asked>>
    BY <1>10 DEF TakePacket
  <2>2. intro'.owed = intro.owed
    BY <1>0, <1>10 DEF CpuTypes
  <2>3. intro = NoIntro => intro' = NoIntro
    BY <1>10 DEF NoIntro
  <2>4. NothingOwed' <=> NothingOwed
    BY <2>1, <2>2 DEF NothingOwed
  <2>5. /\ cb'.owed # "nobody" => cb'.due = cb'.owed
        /\ (cb'.pc = "outer" \/ (cb'.pc = "inner" /\ cb'.outer > 0)) /\ cb'.mm => NothingOwed
    <3>1. CASE cb' = cb
      BY <1>1, <3>1, Zenon
    <3>2. CASE cb'.pc = "inner" /\ cb'.outer = 0 /\ cb'.owed = intro.owed /\ cb'.due = sender_type
      BY <1>1, <3>2
    <3>. QED
      BY <1>0, <1>10, <3>1, <3>2, PacketDelivered
  <2>. QED
    BY <1>1, <2>1, <2>2, <2>3, <2>4, <2>5 DEF OwedInv
<1>11. CASE IntroPacket \/ IntroRepeated
  BY <1>10, <1>11 DEF IntroPacket, IntroRepeated
<1>12. CASE IntroLost
  <2>1. UNCHANGED <<sender_type, loop, cb, asked>>
    BY <1>12 DEF IntroLost
  <2>2. intro'.owed = intro.owed
    BY <1>0, <1>12 DEF IntroLost, CpuTypes
  <2>3. intro # NoIntro
    BY <1>12 DEF IntroLost, NoIntro
  <2>4. NothingOwed' <=> NothingOwed
    BY <2>1, <2>2 DEF NothingOwed
  <2>. QED
    BY <1>1, <2>1, <2>2, <2>3, <2>4 DEF OwedInv
<1>13. CASE IntroOver
  <2>1. UNCHANGED <<sender_type, loop, cb, asked>> /\ intro' = NoIntro
    BY <1>13 DEF IntroOver
  <2>2. NothingOwed => NothingOwed'
    BY <1>2, <2>1 DEF NothingOwed
  <2>. QED
    BY <1>1, <1>2, <2>1, <2>2 DEF OwedInv
<1>14. ASSUME NEW n \in 1 .. MaxIntro, IntroBegins(n)
       PROVE  OwedInv'
  <2>1. /\ asked # <<>> /\ UNCHANGED <<sender_type, loop, cb>> /\ asked' = Tail(asked)
        /\ intro'.owed = asked[1].owed /\ Len(asked) > 0
    BY <1>0, <1>14, OldestRequest DEF IntroBegins
  <2>2. Len(asked') = Len(asked) - 1 /\ \A i \in 1 .. Len(asked) - 1 : asked'[i] = asked[i + 1]
    BY <1>0, <2>1, OldestRequest
  <2>3. \A i \in 1 .. Len(asked') : asked'[i].owed = "nobody"
    BY <1>0, <1>1, <2>2
  <2>4. loop.req.owed = "nobody"
    BY <1>1, <2>1
  <2>5. asked[1].owed # "nobody" => asked' = <<>>
    <3>1. asked[1].owed # "nobody" => Len(asked) = 1
      BY <1>0, <1>1, <2>1
    <3>2. asked' \in Seq(Asked)
      BY <1>0, <2>1, OldestRequest
    <3>. QED
      BY <2>2, <3>1, <3>2, EmptySeq
  <2>6. NothingOwed => NothingOwed'
    BY <1>0, <2>1, <2>3, <2>4 DEF NothingOwed
  <2>7. asked[1].owed # "nobody" => sender_type = asked[1].owed /\ loop.req \notin Asked
    BY <1>0, <1>1, <2>1
  <2>. QED
    BY <1>1, <2>1, <2>3, <2>4, <2>5, <2>6, <2>7 DEF OwedInv
<1>15. CASE UNCHANGED vars
  BY <1>15 DEF OwedInv, NothingOwed, vars
<1>. QED
  BY <1>3, <1>4, <1>5, <1>6, <1>7, <1>8, <1>9, <1>11, <1>12, <1>13, <1>14, <1>15 DEF Next

-----------------------------------------------------------------------------
(* The introduction.                                                        *)

\* What a message of the introduction does to the slots when none was lost.
LEMMA PacketInOrder ==
  ASSUME CpuTypes, SlotsInv, ~ crashed, IntroPacket, ~ gap'
  PROVE  /\ ~ crashed'
         /\ intro.next < intro.total =>
              /\ Len(paketler') = intro.total
              /\ \A i \in 1 .. intro.total : paketler'[i] <=> i < intro.next + 1
<1> DEFINE k == intro.next
           t == intro.total
           filled == [Slots(k) EXCEPT ![k] = TRUE]
<1>0. /\ k \in Nat \ {0} /\ t \in Nat /\ k <= t /\ TakePacket(k)
      /\ intro.next' = k + 1
  BY DEF CpuTypes, IntroPacket
<1>1. k # 1 => ~ gap
  BY Zenon DEF IntroPacket
<1>2. Len(Slots(k)) = t /\ Slots(k) \in Seq(BOOLEAN) /\ \A i \in 1 .. t : Slots(k)[i] <=> i < k
  <2>1. CASE k = 1
    <3>1. Slots(k) = [i \in 1 .. t |-> FALSE]
      BY <2>1 DEF Slots
    <3>2. \A i \in 1 .. t : ~ (i < k)
      BY <1>0, <2>1
    <3>3. \A i \in 1 .. t : ~ Slots(k)[i]
      BY <3>1, Zenon
    <3>4. Len(Slots(k)) = t
      BY <1>0, <3>1
    <3>. QED
      BY <1>0, <3>2, <3>3, <3>4, PacketSlots
  <2>2. CASE k # 1
    <3>1. Slots(k) = paketler
      BY <2>2 DEF Slots
    <3>2. ~ gap /\ 1 < intro.next /\ intro.next <= intro.total
      BY <1>0, <1>1, <2>2
    <3>. QED
      BY <1>0, <3>1, <3>2, PacketSlots, Zenon DEF SlotsInv
  <2>. QED
    BY <2>1, <2>2
<1>3. DOMAIN Slots(k) = 1 .. t /\ k \in 1 .. t
  BY <1>0, <1>2
<1>4. /\ DOMAIN filled = 1 .. t /\ filled[k]
      /\ \A i \in 1 .. t : i # k => (filled[i] <=> Slots(k)[i])
  <2>1. DOMAIN filled = 1 .. t
    BY <1>3, Zenon
  <2>2. filled[k] = TRUE
    BY <1>3, Zenon
  <2>3. \A i \in 1 .. t : i # k => filled[i] = Slots(k)[i]
    BY <1>3, Zenon
  <2>. QED
    BY <2>1, <2>2, <2>3, Zenon
<1>5. Len(filled) = t
  BY <1>0, <1>4
<1>6. \A i \in 1 .. t : i # k => (i < k <=> i < k + 1)
  BY <1>0
<1>7. k < k + 1
  BY <1>0
<1> HIDE DEF k, t, filled
<1>8. \A i \in 1 .. t : filled[i] <=> i < k + 1
  BY <1>2, <1>4, <1>6, <1>7, Zenon
<1>9. k = t => \A i \in 1 .. t : i < k + 1
  BY <1>0
<1>10. k \in DOMAIN Slots(k)
  BY <1>3
<1>11. CASE k = t
  <2>1. ~ \E i \in 1 .. t : i \notin DOMAIN filled \/ ~ filled[i]
    BY <1>4, <1>8, <1>9, <1>11, Zenon
  <2>2. ~ crashed'
    BY <1>0, <1>10, <2>1, Zenon DEF TakePacket, filled, t
  <2>3. ~ (intro.next < intro.total)
    BY <1>0, <1>11 DEF k, t
  <2>. QED
    BY <2>2, <2>3
<1>12. CASE k # t
  <2>1. ~ Last(k)
    BY <1>12 DEF Last, t
  <2>2. paketler' = filled /\ crashed' = crashed
    BY <1>0, <1>10, <2>1, Zenon DEF TakePacket, filled
  <2>3. ~ crashed'
    BY <2>2, Zenon
  <2>4. Len(paketler') = t /\ \A i \in 1 .. t : paketler'[i] <=> i < k + 1
    BY <1>5, <1>8, <2>2, Zenon
  <2>. QED
    BY <2>3, <2>4 DEF k, t
<1>. QED
  BY <1>11, <1>12

\* Every step keeps an introduction without a gap inside the slots it allocated.
LEMMA IntroKept ==
  ASSUME TypeOK, IntroSafe, SlotsInv, [Next]_vars
  PROVE  IntroSafe' /\ SlotsInv'
<1>0. CpuTypes
  BY DEF TypeOK
<1>1. CASE IntroPacket /\ ~ crashed
  <2>1. CASE gap'
    BY <2>1, Zenon DEF IntroSafe, SlotsInv
  <2>2. CASE ~ gap'
    <3>1. intro'.next = intro.next + 1 /\ intro'.total = intro.total
          /\ intro.next \in Nat /\ intro.total \in Nat
      BY <1>0, <1>1 DEF IntroPacket, CpuTypes
    <3>2. intro'.next <= intro'.total => intro.next < intro.total
      BY <3>1
    <3>3. ~ crashed'
      BY <1>0, <1>1, <2>2, PacketInOrder
    <3>4. intro.next < intro.total =>
              /\ Len(paketler') = intro.total
              /\ \A i \in 1 .. intro.total : paketler'[i] <=> i < intro.next + 1
      BY <1>0, <1>1, <2>2, PacketInOrder
    <3>. QED
      BY <3>1, <3>2, <3>3, <3>4, Zenon DEF IntroSafe, SlotsInv
  <2>. QED
    BY <2>1, <2>2
<1>2. CASE IntroLost \/ IntroRepeated \/ Restart
  <2>1. gap' = TRUE
    BY <1>2 DEF IntroLost, IntroRepeated, Restart
  <2>. QED
    BY <2>1, Zenon DEF IntroSafe, SlotsInv
<1>3. ASSUME UNCHANGED <<paketler, crashed, gap>>,
             \/ intro'.next = intro.next /\ intro'.total = intro.total
             \/ intro'.next = 1
      PROVE  IntroSafe' /\ SlotsInv'
  <2>1. CASE intro'.next = 1
    <3>1. ~ (1 < intro'.next)
      BY <2>1
    <3>. QED
      BY <1>3, <3>1, Zenon DEF IntroSafe, SlotsInv
  <2>2. CASE intro'.next = intro.next /\ intro'.total = intro.total
    BY <1>3, <2>2, Zenon DEF IntroSafe, SlotsInv
  <2>. QED
    BY <1>3, <2>1, <2>2
<1>4. CASE ~ IntroPacket /\ ~ IntroLost /\ ~ IntroRepeated /\ ~ Restart
  <2>1. UNCHANGED <<paketler, crashed, gap>>
    BY <1>4, WhoTouchesCpu
  <2>2. CASE intro' = Disturb(intro)
    BY <1>0, <1>3, <2>1, <2>2, DisturbedType
  <2>3. ASSUME NEW n \in 1 .. MaxIntro, IntroBegins(n)
        PROVE  IntroSafe' /\ SlotsInv'
    BY <1>3, <2>1, <2>3 DEF IntroBegins
  <2>4. CASE IntroOver
    BY <1>3, <2>1, <2>4 DEF IntroOver, NoIntro
  <2>5. CASE UNCHANGED intro
    BY <1>3, <2>1, <2>5
  <2>. QED
    BY <1>4, <2>2, <2>3, <2>4, <2>5, WhoTouchesCpu DEF Command, Spontaneous
<1>5. CASE UNCHANGED vars
  BY <1>3, <1>5 DEF vars
<1>6. ~ crashed \/ Restart \/ UNCHANGED vars
  BY Zenon DEF Next
<1>. QED
  BY <1>1, <1>2, <1>4, <1>5, <1>6

-----------------------------------------------------------------------------
(* The invariant is inductive, and what it says about the routing.          *)

LEMMA InitInv == Init => IInv
<1> SUFFICES ASSUME Init PROVE IInv
  OBVIOUS
<1>1. TypeOK
  BY InitType
<1>2. DeliveryInv
  BY DEF Init, DeliveryInv, IdleCb
<1>3. OwedInv
  <2>1. Len(asked) = 0
    BY DEF Init
  <2>. QED
    BY <2>1 DEF Init, OwedInv, IdleLoop, NoneAsked, NoIntro, IdleCb
<1>4. DropNeedsRace
  BY DEF Init, DropNeedsRace, IdleLoop, IdleCb
<1>5. IntroSafe
  BY Zenon DEF Init, IntroSafe
<1>6. SlotsInv
  BY DEF Init, SlotsInv, NoIntro
<1>. QED
  BY <1>1, <1>2, <1>3, <1>4, <1>5, <1>6 DEF IInv

\* The inductive invariant of the router survives every step.
LEMMA StepInv == IInv /\ [Next]_vars => IInv'
<1> SUFFICES ASSUME IInv, [Next]_vars PROVE IInv'
  OBVIOUS
<1>0. TypeOK /\ DeliveryInv /\ OwedInv /\ DropNeedsRace /\ IntroSafe /\ SlotsInv
  BY DEF IInv
<1>1. TypeOK'
  BY <1>0, LinkType, LinkHeldKept, CallbackType, CpuType, FlagType DEF TypeOK
<1>2. DeliveryInv' /\ OwedInv' /\ DropNeedsRace' /\ IntroSafe' /\ SlotsInv'
  BY <1>0, DeliveryKept, OwedKept, DropKept, IntroKept
<1>. QED
  BY <1>1, <1>2 DEF IInv

\* IInv is an inductive invariant of the router (events.c, uartcallback.cpp).
THEOREM Inductive == Spec => []IInv
<1>. QED
  BY InitInv, StepInv, PTL DEF Spec

\* Every variable stays within its type, and the link is held by exactly the
\* task that is inside UART::Sender (events.c, uartcallback.cpp).
THEOREM TypesHold == Spec => []TypeOK
<1>1. IInv => TypeOK
  BY DEF IInv
<1>. QED
  BY <1>1, Inductive, PTL

\* A message of CPU2 goes exactly once to exactly the ones sender_type named
\* when it came, whatever the six tests read between the calls that block
\* (uartcallback.cpp:10-32, 137-152).
THEOREM MessagesGoWhereRouted == Spec => []DeliveredAsRouted
<1>1. IInv => DeliveredAsRouted
  BY DEF IInv, DeliveryInv, DeliveredAsRouted
<1>. QED
  BY <1>1, Inductive, PTL

\* An answer goes to the one who asked, if nothing was routed in between
\* (events.c:241-262, 285-288).
THEOREM AnswersGoToRequester == Spec => []ReplyToRequester
<1>1. IInv => ReplyToRequester
  BY DEF IInv, DeliveryInv, OwedInv, ReplyToRequester
<1>. QED
  BY <1>1, Inductive, PTL

\* RET_BUSY is met only after both tasks passed the wait for the UART together
\* (events.c:206-207, uartcallback.cpp:125-126).
THEOREM DropsNeedARace == Spec => []DropNeedsRace
<1>1. IInv => DropNeedsRace
  BY DEF IInv
<1>. QED
  BY <1>1, Inductive, PTL

\* intro_olustur follows no bad pointer as long as the messages of an
\* introduction come once each and from the first (uartcallback.cpp:97-114).
THEOREM IntroductionsAreSafe == Spec => []IntroSafe
<1>1. IInv => IntroSafe
  BY DEF IInv
<1>. QED
  BY <1>1, Inductive, PTL
=============================================================================
