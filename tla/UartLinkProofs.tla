--------------------------- MODULE UartLinkProofs ---------------------------
(* Proofs about UartSender and UartLink, for every set of callers, every    *)
(* number of calls and length of a message, of the queues and of the header *)
(* word, and every set of faults.                                           *)
EXTENDS UartLink, FiniteSetTheorems, SequenceTheorems, TLAPS

-----------------------------------------------------------------------------
(* The sender by itself.                                                   *)

LEMMA InitType == Init => TypeOK
<1> SUFFICES ASSUME Init PROVE TypeOK
  OBVIOUS
<1>1. CallerTypeOK
  BY DEF Init, CallerTypeOK, CallerPc, Returns
<1>2. LinkTypeOK
  <2>1. send_queue \in Seq(Messages) /\ Len(send_queue) <= SendQueueLength
    BY SenderAssumption DEF Init
  <2>. QED
    BY <2>1 DEF Init, LinkTypeOK
<1>3. TaskTypeOK
  BY DEF Init, TaskTypeOK, TaskRecord, IdleTask, TaskPc
<1>4. GhostTypeOK
  BY SenderAssumption DEF Init, GhostTypeOK, Fates
<1>. QED
  BY <1>1, <1>2, <1>3, <1>4 DEF TypeOK

\* A step of a caller keeps the types of the callers.
LEMMA CallerTypeStep ==
  ASSUME TypeOK, NEW c \in Callers, NEW n \in 0 .. MaxPk,
         SenderBusy(c) \/ SenderEnter(c, n) \/ CallerStep(c)
  PROVE  CallerTypeOK'
<1> USE DEF TypeOK, CallerTypeOK, CallerPc, Section, At
<1>1. CASE SenderBusy(c)
  BY <1>1 DEF SenderBusy, Returns
<1>2. CASE SenderEnter(c, n)
  <2>1. [id |-> calls + 1, total |-> n] \in Messages
    BY <1>2, SenderAssumption DEF SenderEnter, GhostTypeOK, Messages, MsgIds
  <2>. QED
    BY <1>2, <2>1 DEF SenderEnter, Returns
<1>3. CASE TakeSem(c)
  BY <1>3 DEF TakeSem, LinkTypeOK, ghosts
<1>4. CASE CallerStep(c) /\ ~TakeSem(c)
  BY ZenonT(60), <1>4 DEF CallerStep, SetBusy, CreateSem, ClearError, Enqueue, Completed,
     WaitTimeout, WaitOnFreed, DeleteSem, NullSem, ReadError, Release,
     Returns, ghosts, callVars
<1>. QED
  BY <1>1, <1>2, <1>3, <1>4

\* A step of a caller keeps the types of the queue and the semaphores.
LEMMA LinkTypeStep ==
  ASSUME TypeOK, NEW c \in Callers, NEW n \in 0 .. MaxPk,
         SenderBusy(c) \/ SenderEnter(c, n) \/ CallerStep(c)
  PROVE  LinkTypeOK'
<1> USE DEF TypeOK, LinkTypeOK
<1>1. CASE SenderBusy(c) \/ SenderEnter(c, n)
  BY <1>1 DEF SenderBusy, SenderEnter
<1>2. CASE Enqueue(c)
  <2>1. msg[c] \in Messages
    BY <1>2 DEF Enqueue, At, CallerTypeOK
  <2>2. send_queue' \in Seq(Messages) /\ Len(send_queue') <= SendQueueLength
    BY <1>2, <2>1, SenderAssumption DEF Enqueue, QueueFull
  <2>. QED
    BY <1>2, <2>2 DEF Enqueue
<1>3. CASE Completed(c)
  BY <1>3 DEF Completed, At, CallerTypeOK
<1>4. CASE CallerStep(c) /\ ~Enqueue(c) /\ ~Completed(c)
  BY <1>4 DEF CallerStep, SetBusy, CreateSem, ClearError, TakeSem,
     WaitTimeout, WaitOnFreed, DeleteSem, NullSem, ReadError, Release,
     ghosts, callVars, Dangling
<1>. QED
  BY <1>1, <1>2, <1>3, <1>4

\* A step of a caller keeps the types of the history variables.
LEMMA GhostTypeStep ==
  ASSUME TypeOK, NEW c \in Callers, NEW n \in 0 .. MaxPk,
         SenderBusy(c) \/ SenderEnter(c, n) \/ CallerStep(c)
  PROVE  GhostTypeOK'
<1> USE DEF TypeOK, GhostTypeOK
<1>1. CASE SenderEnter(c, n)
  BY <1>1, SenderAssumption DEF SenderEnter, MsgIds, Fates
<1>2. CASE Enqueue(c)
  BY <1>2 DEF Enqueue, Fates
<1>3. CASE SetBusy(c)
  <2>1. quiet' \in [Callers -> BOOLEAN]
    BY <1>3 DEF SetBusy, LinkIdle
  <2>. QED
    BY <1>3, <2>1 DEF SetBusy
<1>4. CASE SenderBusy(c)
            \/ (CallerStep(c) /\ ~Enqueue(c) /\ ~SetBusy(c))
  BY <1>4 DEF SenderBusy, CallerStep, CreateSem, ClearError, TakeSem,
     Completed, WaitTimeout, WaitOnFreed, DeleteSem, NullSem, ReadError,
     Release, ghosts
<1>. QED
  BY <1>1, <1>2, <1>3, <1>4

\* No step of a caller touches the sender task.
LEMMA CallerKeepsTask ==
  ASSUME NEW c \in Callers, NEW n \in 0 .. MaxPk,
         SenderBusy(c) \/ SenderEnter(c, n) \/ CallerStep(c)
  PROVE  UNCHANGED task
  BY DEF SenderBusy, SenderEnter, CallerStep, SetBusy, CreateSem, ClearError,
     Enqueue, TakeSem, Completed, WaitTimeout, WaitOnFreed, DeleteSem,
     NullSem, ReadError, Release

\* A step of the sender task keeps the type invariant.
LEMMA TaskType ==
  ASSUME TypeOK, TaskStep
  PROVE  TypeOK'
<1> USE DEF TypeOK
<1>1. CallerTypeOK'
  BY DEF CallerTypeOK, TaskStep, TaskReceive, TaskWrite, TaskAck, TaskNoAck,
     TaskCount, TaskNext, TaskCheck, TaskGive, callVars
<1>2. LinkTypeOK'
  <2>1. CASE TaskReceive
    <3>1. send_queue' \in Seq(Messages) /\ Len(send_queue') <= SendQueueLength
      BY <2>1, SenderAssumption DEF TaskReceive, RestOfQueue, LinkTypeOK
    <3>. QED  BY <2>1, <3>1 DEF TaskReceive, RestOfQueue, LinkTypeOK
  <2>2. CASE ~TaskReceive
    BY ZenonT(60), <2>2 DEF LinkTypeOK, TaskStep, TaskWrite, TaskAck, TaskNoAck,
       TaskCount, TaskNext, TaskCheck, TaskGive, Dangling
  <2>. QED  BY <2>1, <2>2
<1>3. TaskTypeOK'
  <2>1. CASE TaskReceive
    <3>1. PICK m \in Messages : m = Head(send_queue)
      BY <2>1 DEF TaskReceive, RestOfQueue, LinkTypeOK
    <3>2. \/ task' = LeaveLoop(m)
          \/ task' = [pc |-> "write", msg |-> m, pk |-> 1,
                     tries |-> 0, sended |-> TRUE, ok |-> TRUE]
      BY <2>1, <3>1 DEF TaskReceive, RestOfQueue
    <3>3. CASE task' = LeaveLoop(m)
      BY <3>3 DEF LeaveLoop, IdleTask, TaskTypeOK, TaskRecord, TaskPc
    <3>4. CASE task' = [pc |-> "write", msg |-> m, pk |-> 1,
                      tries |-> 0, sended |-> TRUE, ok |-> TRUE]
      BY <3>4 DEF TaskTypeOK, TaskRecord, TaskPc
    <3>. QED
      BY <3>2, <3>3, <3>4
  <2>2. CASE TaskWrite
    <3>1. (task.tries + 1) % 256 \in Nat
      BY DEF TaskTypeOK, TaskRecord
    <3>2. PICK to \in {"ackwait", "count"} :
            task' = [task EXCEPT !.pc = to, !.tries = (@ + 1) % 256]
      BY <2>2 DEF TaskWrite
    <3>. QED
      BY ZenonT(60), <2>2, <3>1, <3>2 DEF TaskWrite, TaskTypeOK, TaskRecord, TaskPc
  <2>3. CASE TaskAck \/ TaskNoAck
    BY <2>3 DEF TaskAck, TaskNoAck, TaskTypeOK, TaskRecord, TaskPc
  <2>4. CASE TaskCount
    BY <2>4 DEF TaskCount, TaskTypeOK, TaskRecord, TaskPc
  <2>5. CASE TaskNext
    <3>1. task.msg \in Messages
      BY <2>5 DEF TaskNext, TaskTypeOK
    <3>2. CASE task' = LeaveLoop(task.msg)
      BY <3>1, <3>2 DEF LeaveLoop, IdleTask, TaskTypeOK, TaskRecord, TaskPc
    <3>3. CASE task' = [task EXCEPT !.pc = "write", !.pk = @ + 1,
                                    !.tries = 0, !.sended = TRUE]
      <4>1. task.pk + 1 \in Nat
        BY DEF TaskTypeOK, TaskRecord
      <4>2. task' \in TaskRecord
        BY <3>3, <4>1 DEF TaskTypeOK, TaskRecord, TaskPc
      <4>3. task'.msg = task.msg
        BY <3>3 DEF TaskTypeOK, TaskRecord
      <4>. QED  BY <3>1, <4>2, <4>3 DEF TaskTypeOK
    <3>. QED  BY <2>5, <3>2, <3>3 DEF TaskNext
  <2>6. CASE TaskCheck
    <3>1. CASE task' = IdleTask
      BY <3>1 DEF IdleTask, TaskTypeOK, TaskRecord, TaskPc
    <3>2. CASE task' = [task EXCEPT !.pc = "give"]
      BY <2>6, <3>2 DEF TaskCheck, TaskTypeOK, TaskRecord, TaskPc
    <3>. QED  BY <2>6, <3>1, <3>2 DEF TaskCheck
  <2>7. CASE TaskGive
    BY <2>7 DEF TaskGive, IdleTask, TaskTypeOK, TaskRecord, TaskPc
  <2>. QED  BY <2>1, <2>2, <2>3, <2>4, <2>5, <2>6, <2>7 DEF TaskStep
<1>4. GhostTypeOK'
  <2> USE DEF GhostTypeOK
  <2>1. CASE TaskReceive
    BY <2>1 DEF TaskReceive, RestOfQueue, Fates
  <2>2. CASE TaskNext
    BY <2>2 DEF TaskNext, Fates, Outcome
  <2>3. CASE ~TaskReceive /\ ~TaskNext
    BY <2>3 DEF TaskStep, TaskWrite, TaskAck, TaskNoAck, TaskCount,
       TaskCheck, TaskGive, ghosts
  <2>. QED  BY <2>1, <2>2, <2>3
<1>. QED
  BY <1>1, <1>2, <1>3, <1>4

\* Every step of the sending half keeps the type invariant.
LEMMA NextType == TypeOK /\ [Next]_vars => TypeOK'
<1> SUFFICES ASSUME TypeOK, [Next]_vars PROVE TypeOK'
  OBVIOUS
<1>1. ASSUME NEW c \in Callers, NEW n \in 0 .. MaxPk,
             SenderBusy(c) \/ SenderEnter(c, n) \/ CallerStep(c)
      PROVE  TypeOK'
  BY <1>1, CallerTypeStep, LinkTypeStep, GhostTypeStep, CallerKeepsTask
     DEF TypeOK, TaskTypeOK
<1>2. 0 \in 0 .. MaxPk
  BY SenderAssumption
<1>3. CASE TaskStep
  BY <1>3, TaskType
<1>4. CASE AckHandler
  BY <1>4 DEF AckHandler, TypeOK, CallerTypeOK, LinkTypeOK, TaskTypeOK,
     GhostTypeOK, callVars, ghosts
<1>5. CASE Reboot
  <2>1. CallerTypeOK'
    BY <1>5 DEF Reboot, CallerTypeOK, CallerPc, Returns
  <2>2. LinkTypeOK'
    <3>1. send_queue' \in Seq(Messages) /\ Len(send_queue') <= SendQueueLength
      BY <1>5, SenderAssumption DEF Reboot
    <3>. QED  BY <1>5, <3>1 DEF Reboot, LinkTypeOK
  <2>3. TaskTypeOK'
    BY <1>5 DEF Reboot, TaskTypeOK, TaskRecord, IdleTask, TaskPc
  <2>4. GhostTypeOK'
    BY <1>5 DEF Reboot, TypeOK, GhostTypeOK, Fates
  <2>. QED  BY <2>1, <2>2, <2>3, <2>4 DEF TypeOK
<1>6. CASE UNCHANGED vars
  BY <1>6 DEF vars, TypeOK, CallerTypeOK, LinkTypeOK, TaskTypeOK, GhostTypeOK
<1>. QED
  BY <1>1, <1>2, <1>3, <1>4, <1>5, <1>6 DEF Next

\* Every variable keeps its type (uart.cpp:123-154, 40-120).
THEOREM SpecTypeOK == Spec => []TypeOK
  BY InitType, NextType, PTL DEF Spec
-----------------------------------------------------------------------------
(* The handshake of a call that found the link idle.  One caller step of d *)
(* can only concern another such call if it is one of the steps outside    *)
(* the section.                                                            *)

LEMMA OutsideStep ==
  ASSUME IInv, NEW d \in Callers, NEW n \in 0 .. MaxPk,
         SenderBusy(d) \/ SenderEnter(d, n) \/ SetBusy(d)
  PROVE  QuietInv'
<1> SUFFICES ASSUME NEW c \in Callers, quiet'[c], pc'[c] \in Section
             PROVE  Handshake(c)'
  BY DEF QuietInv
<1> USE DEF IInv, TypeOK, CallerTypeOK, GhostTypeOK
<1>1. CASE SenderBusy(d)
  <2>1. c # d /\ Handshake(c)
    BY <1>1 DEF SenderBusy, QuietInv, Section, ghosts
  <2>. QED
    BY <1>1, <2>1 DEF SenderBusy, Handshake, Queued, WithTask, Done, Settled,
       InLoop, ghosts
<1>2. CASE SenderEnter(d, n)
  <2>1. c # d /\ Handshake(c) /\ pc[c] \in Section
    BY <1>2 DEF SenderEnter, At, QuietInv, Section
  <2>2. pc' = [pc EXCEPT ![d] = "set"] /\ pc'[c] = pc[c] /\ msg'[c] = msg[c]
        /\ ret'[c] = ret[c] /\ late'[c] = late[c] /\ sem' = sem /\ hnd' = hnd
    BY <1>2, <2>1 DEF SenderEnter, At
  <2>3. fate'[msg[c].id] = fate[msg[c].id]
    <3>1. msg[c] \in Messages /\ msg[c].id <= calls
      BY <2>1 DEF IdInv, Section
    <3>2. msg[c].id \in MsgIds /\ msg[c].id # calls + 1
      BY <3>1 DEF Messages, MsgIds
    <3>. QED  BY <1>2, <3>2 DEF SenderEnter
  <2>4. \A e \in Callers \ {c} : pc'[e] \notin Section
    BY <2>1, <2>2 DEF Handshake, Section
  <2>. QED
    BY <1>2, <2>1, <2>2, <2>3, <2>4 DEF SenderEnter, Handshake, Queued,
       WithTask, Done, Settled, InLoop
<1>3. CASE SetBusy(d)
  <2>1. c = d
    BY <1>3 DEF SetBusy, At, LinkIdle
  <2>2. LinkIdle /\ pc' = [pc EXCEPT ![c] = "create"]
    BY <1>3, <2>1 DEF SetBusy, At, LinkIdle
  <2>. QED
    BY <1>3, <2>1, <2>2 DEF SetBusy, Handshake, LinkIdle
<1>. QED
  BY <1>1, <1>2, <1>3

InsideStep(c) ==
    \/ CreateSem(c) \/ ClearError(c) \/ Enqueue(c) \/ TakeSem(c)
    \/ Completed(c) \/ WaitTimeout(c) \/ WaitOnFreed(c)
    \/ DeleteSem(c) \/ NullSem(c) \/ ReadError(c) \/ Release(c)

\* Inside the section a quiet call is alone, so its own step is the only one.
LEMMA InsideAlone ==
  ASSUME IInv, NEW d \in Callers, InsideStep(d),
         NEW c \in Callers, quiet'[c], pc'[c] \in Section
  PROVE  c = d /\ quiet[c] /\ pc[c] \in Section /\ Handshake(c)
<1>1. pc[d] \in Section /\ quiet' = quiet
  BY DEF InsideStep, CreateSem, ClearError, Enqueue, TakeSem, Completed,
     WaitTimeout, WaitOnFreed, DeleteSem, NullSem, ReadError, Release, At,
     Section, ghosts, callVars
<1>2. pc[c] \in Section
  BY <1>1 DEF InsideStep, CreateSem, ClearError, Enqueue, TakeSem, Completed,
     WaitTimeout, WaitOnFreed, DeleteSem, NullSem, ReadError, Release, At,
     callVars, IInv, TypeOK, CallerTypeOK
<1>. QED
  BY <1>1, <1>2 DEF IInv, QuietInv, Handshake

\* A step inside the section keeps the handshake of every call that found the
\* link idle.
LEMMA InsideHandshake ==
  ASSUME IInv, NEW d \in Callers, InsideStep(d)
  PROVE  QuietInv'
<1> SUFFICES ASSUME NEW c \in Callers, quiet'[c], pc'[c] \in Section
             PROVE  Handshake(c)'
  BY DEF QuietInv
<1>0. c = d /\ quiet[c] /\ pc[c] \in Section /\ Handshake(c)
  BY InsideAlone
<1>. \A e \in Callers \ {c} : pc[e] \notin Section
  BY <1>0 DEF Handshake
<1> USE DEF IInv, TypeOK, CallerTypeOK, LinkTypeOK, GhostTypeOK, At, Section
<1>1. CASE CreateSem(c)
  BY <1>0, <1>1 DEF CreateSem, Handshake, ghosts
<1>2. CASE ClearError(c)
  BY <1>0, <1>2 DEF ClearError, Handshake, ghosts
<1>3. CASE Enqueue(c)
  <2>1. send_queue = <<>> /\ msg[c] \in Messages
    BY <1>0, <1>3 DEF Enqueue, Handshake
  <2>2. send_queue' = <<msg[c]>> /\ fate' = fate
    BY <1>3, <2>1, SenderAssumption DEF Enqueue, QueueFull
  <2>. QED
    BY <1>0, <1>3, <2>2 DEF Enqueue, Handshake, Queued
<1>4. CASE TakeSem(c)
  BY <1>0, <1>4 DEF TakeSem, Handshake, Queued, WithTask, Done, Settled,
     InLoop, ghosts
<1>5. CASE Completed(c)
  BY <1>0, <1>5 DEF Completed, Handshake, Queued, WithTask, Done, Settled,
     ghosts
<1>6. CASE WaitTimeout(c)
  BY <1>0, <1>6 DEF WaitTimeout, Handshake, Queued, WithTask, Done
<1>7. CASE WaitOnFreed(c)
  BY <1>0, <1>7 DEF WaitOnFreed, Handshake, Queued, WithTask, Done
<1>8. CASE DeleteSem(c)
  BY <1>0, <1>8 DEF DeleteSem, Handshake, Settled, ghosts
<1>9. CASE NullSem(c)
  BY <1>0, <1>9 DEF NullSem, Handshake, Settled, ghosts
<1>10. CASE ReadError(c)
  BY <1>0, <1>10 DEF ReadError, Handshake, Settled, ghosts
<1>11. CASE Release(c)
  BY <1>0, <1>11 DEF Release
<1>. QED
  BY <1>0, <1>1, <1>2, <1>3, <1>4, <1>5, <1>6, <1>7, <1>8, <1>9, <1>10,
     <1>11 DEF InsideStep
\* A step of the sender task concerns a quiet caller only while it waits, or
\* after its wait timed out.
LEMMA TaskHandshake ==
  ASSUME IInv, TaskStep
  PROVE  QuietInv'
<1>1. UNCHANGED <<callVars, quiet, late, send_paket_sem>>
  BY DEF TaskStep, RestOfQueue, TaskReceive, TaskWrite, TaskAck, TaskNoAck, TaskCount,
     TaskNext, TaskCheck, TaskGive, callVars, ghosts
<1> SUFFICES ASSUME NEW c \in Callers, quiet'[c], pc'[c] \in Section
             PROVE  Handshake(c)'
  BY DEF QuietInv
<1>2. Handshake(c) /\ pc[c] \in Section /\ quiet[c]
  BY <1>1 DEF IInv, QuietInv, callVars
<1>3. pc' = pc /\ hnd' = hnd /\ msg' = msg /\ ret' = ret /\ late' = late
      /\ send_paket_sem' = send_paket_sem
  BY <1>1 DEF callVars
<1>4. send_queue # <<>> \/ task.pc # "recv"
  BY DEF TaskStep, RestOfQueue, TaskReceive, TaskWrite, TaskAck, TaskNoAck, TaskCount,
     TaskNext, TaskCheck, TaskGive
<1> USE DEF IInv, TypeOK, CallerTypeOK, LinkTypeOK, TaskTypeOK, TaskRecord,
     GhostTypeOK
<1>5. CASE pc[c] \in {"take", "wait"}
  <2>1. msg[c] \in Messages /\ msg[c].id \in MsgIds
    BY <1>5 DEF Messages
  <2>2. (Queued(c) \/ WithTask(c) \/ Done(c))'
    <3>1. CASE TaskReceive
      <4>1. Queued(c)
        BY <1>2, <1>5, <3>1 DEF TaskReceive, RestOfQueue, Handshake, WithTask, Done
      <4>2. Head(send_queue) = msg[c] /\ Tail(send_queue) = <<>>
        BY <4>1 DEF Queued
      <4>3. CASE msg[c].total = 0
        <5>1. /\ task' = LeaveLoop(msg[c]) /\ send_queue' = <<>>
              /\ fate' = [fate EXCEPT ![msg[c].id] = "sent"]
          BY <3>1, <4>2, <4>3 DEF TaskReceive, RestOfQueue
        <5>2. Settled(c)'
          BY <1>3, <2>1, <3>1, <4>1, <5>1 DEF Settled, TaskReceive, Queued
        <5>. QED
          BY <1>3, <3>1, <4>1, <5>1, <5>2 DEF TaskReceive, RestOfQueue, Queued, WithTask,
             LeaveLoop, IdleTask, InLoop
      <4>4. CASE msg[c].total # 0
        <5>1. msg[c].total \in Nat /\ 1 <= msg[c].total
          BY <2>1, <4>4 DEF Messages
        <5>2. /\ task' = [pc |-> "write", msg |-> msg[c], pk |-> 1,
                         tries |-> 0, sended |-> TRUE, ok |-> TRUE]
              /\ send_queue' = <<>>
          BY <3>1, <4>2, <4>4 DEF TaskReceive, RestOfQueue
        <5>. QED
          BY <1>3, <3>1, <4>1, <5>1, <5>2 DEF TaskReceive, RestOfQueue, Queued, WithTask,
             InLoop
      <4>. QED  BY <4>3, <4>4
    <3>2. CASE ~TaskReceive
      <4>1. WithTask(c)
        BY <1>2, <1>5, <3>2 DEF TaskStep, TaskWrite, TaskAck, TaskNoAck,
           TaskCount, TaskNext, TaskCheck, TaskGive, Handshake, Queued, Done
      <4>2. CASE TaskWrite \/ TaskAck \/ TaskNoAck
        BY ZenonT(60), <1>3, <4>1, <4>2 DEF TaskWrite, TaskAck, TaskNoAck, WithTask,
           InLoop, ghosts
      <4>3. CASE TaskCount
        BY <1>3, <4>1, <4>3 DEF TaskCount, WithTask, InLoop
      <4>4. CASE TaskNext
        <5>1. CASE StopLoop
          <6>1. /\ task' = LeaveLoop(msg[c])
                /\ fate' = [fate EXCEPT ![msg[c].id] = Outcome(task)]
            BY <4>1, <4>4, <5>1 DEF TaskNext, WithTask
          <6>2. Outcome(task) = IF send_paket_error = 0 THEN "sent"
                                                       ELSE "failed"
            BY <2>1, <4>1, <4>4, <5>1 DEF TaskNext, StopLoop, Outcome,
               WithTask, InLoop, Messages
          <6>3. Settled(c)'
            BY <1>3, <2>1, <4>4, <6>1, <6>2 DEF Settled, TaskNext
          <6>. QED
            BY <1>3, <4>1, <4>4, <6>1, <6>3 DEF TaskNext, WithTask, LeaveLoop,
               IdleTask, InLoop
        <5>2. CASE ~StopLoop
          <6>1. task.pk + 1 <= msg[c].total
            BY <2>1, <4>1, <4>4, <5>2 DEF TaskNext, StopLoop, WithTask,
               InLoop, Messages
          <6>2. task' = [task EXCEPT !.pc = "write", !.pk = @ + 1,
                                     !.tries = 0, !.sended = TRUE]
            BY <4>4, <5>2 DEF TaskNext
          <6>. QED
            BY <1>3, <4>1, <4>4, <6>1, <6>2 DEF TaskNext, WithTask, InLoop
        <5>. QED  BY <5>1, <5>2
      <4>5. CASE TaskCheck
        <5>1. send_paket_sem # NULL
          BY <1>2, <1>5, SenderAssumption DEF Handshake
        <5>. QED
          BY <1>3, <4>1, <4>5, <5>1 DEF TaskCheck, WithTask, InLoop, Settled,
             ghosts
      <4>6. CASE TaskGive
        <5>1. send_paket_sem = c /\ send_paket_sem # NULL
          BY <1>2, <1>5, SenderAssumption DEF Handshake
        <5>2. sem'[c] = "full"
          BY <4>1, <4>6, <5>1 DEF TaskGive, WithTask, Dangling
        <5>. QED
          BY <1>3, <4>1, <4>6, <5>2 DEF TaskGive, WithTask, Done, IdleTask,
             InLoop, Settled, ghosts
      <4>. QED  BY <3>2, <4>2, <4>3, <4>4, <4>5, <4>6 DEF TaskStep
    <3>. QED  BY <3>1, <3>2
  <2>. QED
    BY <1>2, <1>3, <1>5, <2>2 DEF Handshake
<1>6. CASE pc[c] \notin {"take", "wait"}
  <2>1. pc[c] \in {"delete", "null", "read", "release"}
    BY <1>2, <1>4, <1>6 DEF Handshake, Section
  <2>2. late[c]
    BY <1>2, <1>4, <2>1 DEF Handshake
  <2>3. pc[c] = "delete" => sem'[c] # "freed"
    BY <1>2 DEF TaskStep, RestOfQueue, TaskReceive, TaskWrite, TaskAck, TaskNoAck,
       TaskCount, TaskNext, TaskCheck, TaskGive, Handshake
  <2>. QED
    BY <1>2, <1>3, <2>1, <2>2, <2>3 DEF Handshake
<1>. QED  BY <1>5, <1>6
\* Every step keeps the handshake of a call that found the link idle.
LEMMA QuietStep == IInv /\ [Next]_vars => QuietInv'
<1> SUFFICES ASSUME IInv, [Next]_vars PROVE QuietInv'
  OBVIOUS
<1>1. ASSUME NEW c \in Callers, NEW n \in 0 .. MaxPk,
             SenderBusy(c) \/ SenderEnter(c, n) \/ CallerStep(c)
      PROVE  QuietInv'
  BY <1>1, OutsideStep, InsideHandshake DEF CallerStep, InsideStep
<1>2. 0 \in 0 .. MaxPk
  BY SenderAssumption
<1>3. CASE TaskStep
  BY <1>3, TaskHandshake
<1>4. CASE AckHandler \/ UNCHANGED vars
  BY <1>4 DEF AckHandler, vars, IInv, QuietInv, Handshake, Queued, WithTask,
     Done, Settled, InLoop, callVars, ghosts
<1>5. CASE Reboot
  BY <1>5 DEF Reboot, QuietInv, Section
<1>. QED
  BY <1>1, <1>2, <1>3, <1>4, <1>5 DEF Next

-----------------------------------------------------------------------------
(* The other parts of the inductive invariant.                             *)

LEMMA IdStep == IInv /\ [Next]_vars => IdInv'
<1> SUFFICES ASSUME IInv, [Next]_vars PROVE IdInv'
  OBVIOUS
<1> USE DEF IInv, IdInv, TypeOK, CallerTypeOK, GhostTypeOK
<1>1. ASSUME NEW c \in Callers, NEW n \in 0 .. MaxPk, SenderEnter(c, n)
      PROVE  IdInv'
  BY <1>1 DEF SenderEnter, Messages, MsgIds, NoMsg
<1>2. ASSUME NEW c \in Callers, Release(c)
      PROVE  IdInv'
  BY <1>2 DEF Release, NoMsg, ghosts
<1>3. CASE Reboot
  BY <1>3 DEF Reboot, NoMsg
<1>4. ASSUME UNCHANGED <<msg, calls>>
      PROVE  IdInv'
  BY <1>4
<1>5. ASSUME NEW c \in Callers, SenderBusy(c) \/ CallerStep(c), ~Release(c)
      PROVE  UNCHANGED <<msg, calls>>
  BY <1>5 DEF SenderBusy, CallerStep, SetBusy, CreateSem, ClearError,
     Enqueue, TakeSem, Completed, WaitTimeout, WaitOnFreed, DeleteSem,
     NullSem, ReadError, ghosts, callVars
<1>6. CASE TaskStep \/ AckHandler \/ UNCHANGED vars
  BY <1>4, <1>6 DEF TaskStep, RestOfQueue, TaskReceive, TaskWrite, TaskAck, TaskNoAck,
     TaskCount, TaskNext, TaskCheck, TaskGive, AckHandler, vars, callVars,
     ghosts
<1>. QED
  BY <1>1, <1>2, <1>3, <1>4, <1>5, <1>6 DEF Next

\* A quiet call was alone from its first step, so a step that makes the
\* only disturbed call quiet finds the link idle.
LEMMA DisturbedStays ==
  ASSUME IInv, Next, ~Reboot, Disturbed, ~Disturbed'
  PROVE  LinkIdle /\ UNCHANGED <<send_queue, task, send_paket_error>>
<1> USE DEF IInv, TypeOK, GhostTypeOK, Disturbed
<1>1. ASSUME quiet' = quiet PROVE FALSE
  BY <1>1
<1>2. PICK c \in Callers : SetBusy(c)
  BY <1>1 DEF Next, SenderBusy, SenderEnter, CallerStep, CreateSem,
     ClearError, Enqueue, TakeSem, Completed, WaitTimeout, WaitOnFreed,
     DeleteSem, NullSem, ReadError, Release, TaskStep, TaskReceive,
     TaskWrite, TaskAck, TaskNoAck, TaskCount, TaskNext, TaskCheck,
     TaskGive, AckHandler, ghosts
<1>3. quiet'[c] = LinkIdle
  BY <1>2 DEF SetBusy, LinkIdle
<1>. QED
  BY <1>2, <1>3 DEF SetBusy
\* Every step keeps a second message in flight the mark of a disturbed call.
LEMMA BacklogStep == IInv /\ [Next]_vars => BacklogInv'
<1> SUFFICES ASSUME IInv, [Next]_vars PROVE BacklogInv'
  OBVIOUS
<1>0. CASE UNCHANGED vars
  BY <1>0 DEF vars, IInv, BacklogInv, Disturbed
<1>1. CASE Reboot
  BY <1>1 DEF Reboot, BacklogInv, IdleTask
<1>2. CASE Next /\ ~Reboot /\ Disturbed /\ ~Disturbed'
  BY <1>2, DisturbedStays DEF LinkIdle, BacklogInv
<1>3. CASE Next /\ ~Reboot /\ Disturbed'
  BY <1>3 DEF BacklogInv
<1>4. CASE Next /\ ~Reboot /\ ~Disturbed
  <2>1. \A c \in Callers : quiet[c]
    BY <1>4 DEF Disturbed
  <2>2. Len(send_queue) < 2 /\ (send_queue = <<>> \/ task.pc = "recv")
    BY <1>4 DEF IInv, TypeOK, LinkTypeOK, BacklogInv
  <2>3. ASSUME NEW c \in Callers, Enqueue(c)
        PROVE  BacklogInv'
    <3>1. send_queue = <<>> /\ task.pc = "recv"
      BY <2>1, <2>3 DEF IInv, QuietInv, Handshake, Enqueue, At, Section
    <3>2. send_queue' = <<msg[c]>> /\ task' = task
      BY <2>3, <3>1, SenderAssumption DEF Enqueue, QueueFull
    <3>. QED  BY <3>1, <3>2 DEF BacklogInv
  <2>4. CASE TaskReceive
    <3>1. send_queue' = <<>>
      BY <2>2, <2>4 DEF TaskReceive, RestOfQueue, IInv, TypeOK, LinkTypeOK
    <3>. QED  BY <3>1 DEF BacklogInv
  <2>5. CASE TaskStep /\ ~TaskReceive
    <3>1. send_queue = <<>> /\ send_queue' = <<>>
      BY <2>2, <2>5 DEF TaskStep, TaskWrite, TaskAck, TaskNoAck, TaskCount,
         TaskNext, TaskCheck, TaskGive
    <3>. QED  BY <3>1 DEF BacklogInv
  <2>6. ASSUME UNCHANGED <<send_queue, task>>
        PROVE  BacklogInv'
    BY <2>2, <2>6 DEF BacklogInv, IInv, TypeOK, LinkTypeOK
  <2>7. ASSUME NEW c \in Callers, NEW n \in 0 .. MaxPk, ~Enqueue(c),
               SenderBusy(c) \/ SenderEnter(c, n) \/ CallerStep(c)
        PROVE  UNCHANGED <<send_queue, task>>
    BY <2>7 DEF SenderBusy, SenderEnter, CallerStep, SetBusy, CreateSem,
       ClearError, TakeSem, Completed, WaitTimeout, WaitOnFreed, DeleteSem,
       NullSem, ReadError, Release
  <2>8. 0 \in 0 .. MaxPk
    BY SenderAssumption
  <2>. QED
    BY <1>4, <2>3, <2>4, <2>5, <2>6, <2>7, <2>8 DEF Next, AckHandler
<1>. QED
  BY <1>0, <1>1, <1>2, <1>3, <1>4

\* Every step keeps an error flag not the message's own the mark of a disturbed
\* call.
LEMMA ErrorStep == IInv /\ [Next]_vars => ErrorInv'
<1> SUFFICES ASSUME IInv, [Next]_vars PROVE ErrorInv'
  OBVIOUS
<1>0. CASE UNCHANGED vars
  BY <1>0 DEF vars, IInv, ErrorInv, Disturbed, InLoop
<1>1. CASE Reboot
  BY <1>1 DEF Reboot, ErrorInv, IdleTask, InLoop
<1>2. CASE Next /\ ~Reboot /\ Disturbed /\ ~Disturbed'
  BY <1>2, DisturbedStays DEF LinkIdle, ErrorInv, InLoop
<1>3. CASE Next /\ ~Reboot /\ Disturbed'
  BY <1>3 DEF ErrorInv
<1>4. CASE Next /\ ~Reboot /\ ~Disturbed
  <2>1. \A c \in Callers : quiet[c]
    BY <1>4 DEF Disturbed
  <2>2. /\ send_paket_error = 1 => send_queue = <<>> /\ ~(InLoop /\ task.ok)
        /\ send_paket_error = 0 => ~(InLoop /\ ~task.ok)
        /\ send_paket_error \in {0, 1}
        /\ task.pc # "recv" => send_queue = <<>>
    BY <1>4 DEF IInv, TypeOK, LinkTypeOK, ErrorInv, BacklogInv
  <2>3. ASSUME NEW c \in Callers, ClearError(c) \/ Enqueue(c)
        PROVE  ErrorInv'
    <3>1. /\ send_queue = <<>> /\ task.pc = "recv"
          /\ pc[c] = "queue" => send_paket_error = 0
      BY <2>1, <2>3 DEF IInv, QuietInv, Handshake, ClearError, Enqueue, At,
         Section
    <3>2. ~InLoop' /\ send_paket_error' = 0
      BY <2>3, <3>1 DEF ClearError, Enqueue, At, InLoop
    <3>. QED  BY <3>2 DEF ErrorInv
  <2>4. CASE TaskReceive
    <3>1. send_paket_error' = 0
      BY <2>2, <2>4 DEF TaskReceive, RestOfQueue
    <3>2. (InLoop => task.ok)'
      <4>1. PICK m : \/ task' = LeaveLoop(m)
                     \/ task' = [pc |-> "write", msg |-> m, pk |-> 1,
                               tries |-> 0, sended |-> TRUE, ok |-> TRUE]
        BY <2>4 DEF TaskReceive, RestOfQueue
      <4>2. CASE task' = LeaveLoop(m)
        <5>1. task'.pc = "check"
          BY <4>2 DEF LeaveLoop, IdleTask
        <5>. QED  BY <5>1 DEF InLoop
      <4>3. CASE task' = [pc |-> "write", msg |-> m, pk |-> 1,
                        tries |-> 0, sended |-> TRUE, ok |-> TRUE]
        BY <4>3
      <4>. QED  BY <4>1, <4>2, <4>3
    <3>. QED  BY <3>1, <3>2 DEF ErrorInv
  <2>5. CASE TaskStep /\ ~TaskReceive
    <3> USE DEF IInv, TypeOK, TaskTypeOK, TaskRecord
    <3>1. task.pc # "recv" /\ send_queue' = <<>>
      BY <2>2, <2>5 DEF TaskStep, TaskWrite, TaskAck, TaskNoAck, TaskCount,
         TaskNext, TaskCheck, TaskGive
    <3>2. CASE TaskWrite \/ TaskAck \/ TaskNoAck \/ TaskCount
      <4>1. (InLoop => send_paket_error = IF task.ok THEN 0 ELSE 1)'
        BY <2>2, <3>2 DEF TaskWrite, TaskAck, TaskNoAck, TaskCount, InLoop
      <4>. QED  BY <3>1, <4>1 DEF ErrorInv
    <3>3. CASE TaskNext
      <4>1. (InLoop => send_paket_error = IF task.ok THEN 0 ELSE 1)'
        BY <2>2, <3>3 DEF TaskNext, InLoop, LeaveLoop, IdleTask
      <4>. QED  BY <3>1, <4>1 DEF ErrorInv
    <3>4. CASE TaskCheck \/ TaskGive
      <4>1. ~InLoop'
        BY <3>4 DEF TaskCheck, TaskGive, InLoop, IdleTask
      <4>. QED  BY <3>1, <4>1 DEF ErrorInv
    <3>. QED  BY <2>5, <3>2, <3>3, <3>4 DEF TaskStep
  <2>6. ASSUME UNCHANGED <<send_queue, task, send_paket_error>>
        PROVE  ErrorInv'
    BY <2>2, <2>6 DEF ErrorInv, InLoop
  <2>7. ASSUME NEW c \in Callers, NEW n \in 0 .. MaxPk,
               ~Enqueue(c), ~ClearError(c),
               SenderBusy(c) \/ SenderEnter(c, n) \/ CallerStep(c)
        PROVE  UNCHANGED <<send_queue, task, send_paket_error>>
    BY <2>7 DEF SenderBusy, SenderEnter, CallerStep, SetBusy, CreateSem,
       TakeSem, Completed, WaitTimeout, WaitOnFreed, DeleteSem,
       NullSem, ReadError, Release
  <2>8. 0 \in 0 .. MaxPk
    BY SenderAssumption
  <2>. QED
    BY <1>4, <2>3, <2>4, <2>5, <2>6, <2>7, <2>8 DEF Next, AckHandler
<1>. QED
  BY <1>0, <1>1, <1>2, <1>3, <1>4
\* Every step keeps work nobody waits for the work of a late or overlapping call.
LEMMA OrphanStep == IInv /\ [Next]_vars => OrphanInv'
<1> SUFFICES ASSUME IInv, [Next]_vars, (send_queue # <<>> \/ task.pc # "recv")'
             PROVE  \E c \in Callers :
                       (late[c] \/ ~quiet[c] \/ pc[c] \in {"take", "wait"})'
  BY DEF OrphanInv
<1> USE DEF IInv, TypeOK, CallerTypeOK, GhostTypeOK
<1>0. CASE Reboot
  BY <1>0 DEF Reboot, IdleTask
<1>1. ASSUME NEW c \in Callers, Enqueue(c)
      PROVE  pc'[c] = "take"
  BY <1>1 DEF Enqueue, At
<1>2. ASSUME NEW c \in Callers, SetBusy(c)
      PROVE  \E d \in Callers :
                (late[d] \/ ~quiet[d] \/ pc[d] \in {"take", "wait"})'
  <2>1. ~LinkIdle
    BY <1>2 DEF SetBusy, LinkIdle
  <2>2. quiet'[c] = FALSE
    BY <1>2, <2>1 DEF SetBusy, LinkIdle
  <2>. QED  BY <2>2
<1>3. ASSUME NEW c \in Callers, Completed(c)
      PROVE  \E d \in Callers :
                (late[d] \/ ~quiet[d] \/ pc[d] \in {"take", "wait"})'
  <2>1. CASE quiet[c]
    <3>1. Done(c)
      BY <1>3, <2>1 DEF QuietInv, Handshake, Completed, At, Section, Queued,
         WithTask
    <3>. QED  BY <1>3, <3>1 DEF Completed, Done
  <2>2. CASE ~quiet[c]
    BY <1>3, <2>2 DEF Completed, ghosts
  <2>. QED  BY <2>1, <2>2
<1>4. ASSUME NEW c \in Callers, WaitTimeout(c)
      PROVE  late'[c]
  BY <1>4 DEF WaitTimeout
<1>5. ASSUME NEW c \in Callers, NEW n \in 0 .. MaxPk,
             SenderBusy(c) \/ SenderEnter(c, n) \/ CallerStep(c),
             ~Enqueue(c), ~SetBusy(c), ~Completed(c), ~WaitTimeout(c)
      PROVE  /\ UNCHANGED <<send_queue, task, quiet, late>>
             /\ \A d \in Callers :
                   pc[d] \in {"take", "wait"} => pc'[d] \in {"take", "wait"}
  BY <1>5 DEF SenderBusy, SenderEnter, CallerStep, CreateSem, ClearError,
     TakeSem, WaitOnFreed, DeleteSem, NullSem, ReadError, Release, At,
     callVars, ghosts
<1>6. CASE TaskStep \/ AckHandler \/ UNCHANGED vars
  <2>1. UNCHANGED <<pc, quiet, late>>
    BY <1>6 DEF TaskStep, RestOfQueue, TaskReceive, TaskWrite, TaskAck, TaskNoAck,
       TaskCount, TaskNext, TaskCheck, TaskGive, AckHandler, vars, callVars,
       ghosts
  <2>2. send_queue # <<>> \/ task.pc # "recv"
    BY <1>6 DEF TaskStep, RestOfQueue, TaskReceive, TaskWrite, TaskAck, TaskNoAck,
       TaskCount, TaskNext, TaskCheck, TaskGive, AckHandler, vars
  <2>. QED  BY <2>1, <2>2 DEF OrphanInv
<1>7. ASSUME UNCHANGED <<send_queue, task, quiet, late>>,
             \A d \in Callers :
                pc[d] \in {"take", "wait"} => pc'[d] \in {"take", "wait"}
      PROVE  \E d \in Callers :
                (late[d] \/ ~quiet[d] \/ pc[d] \in {"take", "wait"})'
  BY <1>7 DEF OrphanInv
<1>8. 0 \in 0 .. MaxPk
  BY SenderAssumption
<1>. QED
  BY <1>0, <1>1, <1>2, <1>3, <1>4, <1>5, <1>6, <1>7, <1>8 DEF Next

\* While every call is quiet and in time, the handle each step uses is live.
LEMMA PanicStep == IInv /\ [Next]_vars => PanicNeedsLateOrOverlap'
<1> SUFFICES ASSUME IInv, [Next]_vars, panic',
                    \A c \in Callers : (~late[c] /\ quiet[c])'
             PROVE  FALSE
  BY DEF PanicNeedsLateOrOverlap, IInv, TypeOK, GhostTypeOK
<1> USE DEF IInv, TypeOK, CallerTypeOK, LinkTypeOK, GhostTypeOK
<1>1. CASE Reboot
  BY <1>1 DEF Reboot
<1>2. CASE UNCHANGED vars
  BY <1>2 DEF vars, PanicNeedsLateOrOverlap
<1>3. ASSUME NEW c \in Callers, TakeSem(c) \/ WaitOnFreed(c) \/ DeleteSem(c)
      PROVE  ~panic'
  <2>1. Handshake(c) /\ ~panic
    BY <1>3 DEF TakeSem, WaitOnFreed, DeleteSem, ghosts, QuietInv, Section,
       PanicNeedsLateOrOverlap
  <2>2. pc[c] \in {"take", "wait"} => sem[c] # "freed" /\ send_paket_sem = c
    BY <2>1 DEF Handshake, Queued, WithTask, Done
  <2>. QED
    BY <1>3, <2>1, <2>2, SenderAssumption DEF TakeSem, WaitOnFreed, DeleteSem,
       Handshake, Dangling
<1>4. CASE TaskGive
  <2>1. PICK c \in Callers : pc[c] \in {"take", "wait"}
    BY <1>4 DEF TaskGive, OrphanInv, ghosts
  <2>2. Handshake(c) /\ ~panic
    BY <1>4, <2>1 DEF TaskGive, ghosts, QuietInv, Section, callVars,
       PanicNeedsLateOrOverlap
  <2>3. sem[c] # "freed" /\ send_paket_sem = c
    BY <2>1, <2>2 DEF Handshake, Queued, WithTask, Done
  <2>. QED
    BY <1>4, <2>2, <2>3, SenderAssumption DEF TaskGive, Dangling
<1>5. CASE ~panic /\ panic' = panic
  BY <1>5
<1>6. ASSUME NEW c \in Callers, NEW n \in 0 .. MaxPk,
             SenderBusy(c) \/ SenderEnter(c, n) \/ CallerStep(c),
             ~TakeSem(c), ~WaitOnFreed(c), ~DeleteSem(c)
      PROVE  panic' = panic
  BY <1>6 DEF SenderBusy, SenderEnter, CallerStep, SetBusy, CreateSem,
     ClearError, Enqueue, Completed, WaitTimeout, NullSem, ReadError, Release
<1>7. ASSUME (TaskStep /\ ~TaskGive) \/ AckHandler
      PROVE  panic' = panic
  BY <1>7 DEF TaskStep, RestOfQueue, TaskReceive, TaskWrite, TaskAck, TaskNoAck,
     TaskCount, TaskNext, TaskCheck, AckHandler
<1>8. 0 \in 0 .. MaxPk
  BY SenderAssumption
<1>. QED
  BY <1>1, <1>2, <1>3, <1>4, <1>5, <1>6, <1>7, <1>8 DEF Next

-----------------------------------------------------------------------------
\* The inductive invariant of the sending half holds at the start.
LEMMA InitInductive == Init => IInv
<1> SUFFICES ASSUME Init PROVE IInv
  OBVIOUS
<1>1. TypeOK
  BY InitType
<1>2. QuietInv /\ OrphanInv /\ PanicNeedsLateOrOverlap /\ ErrorInv /\ BacklogInv
  BY DEF Init, QuietInv, OrphanInv, PanicNeedsLateOrOverlap, ErrorInv,
     BacklogInv, IdleTask, Section, InLoop
<1>3. IdInv
  <2> SUFFICES ASSUME NEW c \in Callers PROVE msg[c].id <= calls
    BY DEF IdInv
  <2>1. msg[c] = NoMsg /\ calls = 0
    BY DEF Init
  <2>. QED  BY <2>1 DEF NoMsg
<1>. QED
  BY <1>1, <1>2, <1>3 DEF IInv

\* The inductive invariant of the sending half holds in every reachable state.
LEMMA Inductive == Spec => []IInv
<1>1. IInv /\ [Next]_vars => IInv'
  BY NextType, QuietStep, OrphanStep, BacklogStep, ErrorStep, IdStep,
     PanicStep DEF IInv
<1>. QED
  BY InitInductive, <1>1, PTL DEF Spec

\* A call that is alone and in time reports what became of its own message
\* (uart.cpp:123-154), for every number of callers and packets.
THEOREM SpecResultIsTruth == Spec => []ResultIsTruth
<1>1. IInv => ResultIsTruth
  BY DEF IInv, QuietInv, Handshake, ResultIsTruth, Section
<1>. QED
  BY Inductive, <1>1, PTL

\* The completion semaphore is misused only after a late or overlapping call
\* (uart.cpp:114-116, 126-131).
THEOREM SpecPanicNeedsLateOrOverlap == Spec => []PanicNeedsLateOrOverlap
<1>1. IInv => PanicNeedsLateOrOverlap
  BY DEF IInv
<1>. QED
  BY Inductive, <1>1, PTL

\* No packet follows one that was given up, unless a call that did not find
\* the link idle cleared the error flag (uart.cpp:100-109, 128).
THEOREM SpecNoGapAfterGiveUp == Spec => NoGapAfterGiveUp
<1>1. ASSUME IInv, [Next]_vars, task.pc = "next", task'.pc = "write", ~task.ok
      PROVE  Disturbed
  <2>1. send_paket_error = 0
    <3>1. TaskNext
      BY <1>1 DEF Next, SenderBusy, SenderEnter, CallerStep, SetBusy,
         CreateSem, ClearError, Enqueue, TakeSem, Completed, WaitTimeout,
         WaitOnFreed, DeleteSem, NullSem, ReadError, Release, TaskStep,
         TaskReceive, TaskWrite, TaskAck, TaskNoAck, TaskCount, TaskCheck,
         TaskGive, AckHandler, Reboot, vars, IdleTask
    <3>2. ~StopLoop
      BY <1>1, <3>1 DEF TaskNext, LeaveLoop, IdleTask
    <3>. QED
      BY <1>1, <3>2 DEF StopLoop, IInv, TypeOK, LinkTypeOK
  <2>. QED
    BY <1>1, <2>1 DEF IInv, ErrorInv, InLoop
<1>2. IInv /\ [Next]_vars =>
        [(task.pc = "next" /\ task'.pc = "write" /\ ~task.ok)
            => \E c \in Callers : ~quiet[c]]_vars
  BY <1>1 DEF Disturbed
<1>. QED
  BY Inductive, <1>2, PTL DEF Spec, NoGapAfterGiveUp

\* A message none of whose packets was given up is not cut short, unless a
\* call that did not find the link idle queued it (uart.cpp:103, 108-109).
THEOREM SpecNoStaleErrorCut == Spec => NoStaleErrorCut
<1>1. ASSUME IInv, [Next]_vars, task.pc = "next", task'.pc = "check",
             task.ok, task.pk < task.msg.total
      PROVE  Disturbed
  <2>1. send_paket_error = 1
    <3>1. TaskNext
      BY <1>1 DEF Next, SenderBusy, SenderEnter, CallerStep, SetBusy,
         CreateSem, ClearError, Enqueue, TakeSem, Completed, WaitTimeout,
         WaitOnFreed, DeleteSem, NullSem, ReadError, Release, TaskStep,
         TaskReceive, TaskWrite, TaskAck, TaskNoAck, TaskCount, TaskCheck,
         TaskGive, AckHandler, Reboot, vars, IdleTask
    <3>2. task.pk \in Nat /\ task.msg.total \in Nat
      BY <1>1 DEF IInv, TypeOK, TaskTypeOK, TaskRecord, Messages, NoMsg
    <3>3. StopLoop
      BY <1>1, <3>1 DEF TaskNext, IInv, TypeOK, TaskTypeOK, TaskRecord
    <3>. QED
      BY <1>1, <3>2, <3>3 DEF StopLoop, IInv, TypeOK, LinkTypeOK
  <2>. QED
    BY <1>1, <2>1 DEF IInv, ErrorInv, InLoop
<1>2. IInv /\ [Next]_vars =>
        [(task.pc = "next" /\ task'.pc = "check"
            /\ task.ok /\ task.pk < task.msg.total)
            => \E c \in Callers : ~quiet[c]]_vars
  BY <1>1 DEF Disturbed
<1>. QED
  BY Inductive, <1>2, PTL DEF Spec, NoStaleErrorCut

-----------------------------------------------------------------------------
(* The sender inside the link.                                             *)

\* A caller's step of the link is one of its steps alone.
LEMMA CallerOfLink ==
  ASSUME NEW c \in Callers, LinkCall(c) \/ LinkCallerStep(c) \/ CallTimeout(c)
  PROVE  SenderBusy(c) \/ (\E n \in 1 .. MaxPk : SenderEnter(c, n)) \/ CallerStep(c)
<1>. QED
  BY Zenon DEF LinkCall, LinkCallerStep, CallTimeout, CallerStep

\* The sender task's steps on the joined link are steps of the sender alone.
LEMMA TaskOfLink ==
  ASSUME SenderTaskStep \/ Transmit \/ AckTimeout
  PROVE  TaskStep
<1>. QED
  BY Zenon DEF SenderTaskStep, Transmit, AckTimeout, TaskStep

\* Which steps touch which variables of the receiver.
LEMMA WhoTouchesReceiver ==
  ASSUME [LinkNext]_linkVars
  PROVE  /\ Transmit \/ Flush \/ RxTake \/ UNCHANGED rx_buf
         /\ RxTake \/ RxAck \/ RxDecode \/ RxCallbackDone \/ CallbackTimeout \/ UNCHANGED rx
         /\ RxDecode \/ UNCHANGED <<paket_buffer, paket_header>>
         /\ RxDecode \/ Callback \/ UNCHANGED callback_sem
         /\ RxCallbackDone \/ CallbackReturns \/ UNCHANGED wait_sem
         /\ Callback \/ CallbackReturns \/ UNCHANGED cb
         /\ Callback \/ UNCHANGED heard
<1>. QED
  BY Zenon DEF LinkNext, linkVars, rxVars, LinkCall, LinkCallerStep, CallTimeout, SenderTaskStep,
     Transmit, AckTimeout, LinkReboot, Acknowledge, Flush, CallbackTimeout, Callback,
     CallbackReturns, ReceiverTaskStep, RxTake, RxAck, RxDecode, RxCallbackDone, RxFlush,
     RxCallbackTimeout, CbStart, CbEnd

\* Every step of the joined link is a step of the sending half or leaves it
\* alone.
LEMMA LinkStep == [LinkNext]_linkVars => [Next]_vars
<1> SUFFICES ASSUME [LinkNext]_linkVars PROVE [Next]_vars
  OBVIOUS
<1>1. ASSUME NEW c \in Callers, ~ panic, LinkCall(c) \/ LinkCallerStep(c) \/ CallTimeout(c)
      PROVE  Next
  <2>1. \A n \in 1 .. MaxPk : n \in 0 .. MaxPk
    BY SenderAssumption
  <2>. QED
    BY Zenon, <1>1, <2>1, CallerOfLink DEF Next
<1>2. CASE ~ panic /\ (SenderTaskStep \/ Transmit \/ AckTimeout)
  BY Zenon, <1>2, TaskOfLink DEF Next
<1>3. CASE LinkReboot
  BY Zenon, <1>3 DEF LinkReboot, Next
<1>4. CASE Acknowledge
  BY Zenon, <1>4 DEF Acknowledge, Next
<1>5. CASE Flush \/ CallbackTimeout \/ Callback \/ CallbackReturns \/ ReceiverTaskStep
  BY Zenon, <1>5 DEF Flush, CallbackTimeout, Callback, CallbackReturns, ReceiverTaskStep
<1>6. CASE UNCHANGED linkVars
  BY Zenon, <1>6 DEF linkVars
<1>. QED
  BY Zenon, <1>1, <1>2, <1>3, <1>4, <1>5, <1>6 DEF LinkNext

\* The link takes the sender through behaviours of its own only: what was
\* proved of the sender holds at its end of the wire (uart.cpp:40-154).
THEOREM LinkImplementsSender == LinkSpec => Spec
<1>1. LinkInit => Init
  BY DEF LinkInit
<1>. QED
  BY <1>1, LinkStep, PTL DEF LinkSpec, Spec

-----------------------------------------------------------------------------
(* Frames and buffers.                                                     *)

LEMMA BufferMembers ==
  /\ NoBuffer \notin Buffers /\ DOMAIN NoBuffer = {}
  /\ \A b \in Buffers : \E n \in 1 .. MaxPk : b \in [1 .. n -> 0 .. MaxCalls]
  /\ \A b \in Buffers : 1 \in DOMAIN b /\ \A k \in DOMAIN b : b[k] \in 0 .. MaxCalls
  /\ \A n \in 1 .. MaxPk : [k \in 1 .. n |-> 0] \in Buffers
  /\ \A b \in Buffers, k \in Nat, v \in 0 .. MaxCalls : [b EXCEPT ![k] = v] \in Buffers
<1> USE SenderAssumption
<1>1. DOMAIN NoBuffer = {}
  BY DEF NoBuffer
<1>2. \A b \in Buffers : \E n \in 1 .. MaxPk : b \in [1 .. n -> 0 .. MaxCalls]
  BY DEF Buffers
<1>3. \A b \in Buffers : 1 \in DOMAIN b /\ \A k \in DOMAIN b : b[k] \in 0 .. MaxCalls
  BY <1>2
<1>4. NoBuffer \notin Buffers
  BY <1>1, <1>3
<1>5. ASSUME NEW n \in 1 .. MaxPk PROVE [k \in 1 .. n |-> 0] \in Buffers
  <2>1. [k \in 1 .. n |-> 0] \in [1 .. n -> 0 .. MaxCalls]
    OBVIOUS
  <2>. QED
    BY Zenon, <2>1 DEF Buffers
<1>6. ASSUME NEW b \in Buffers, NEW k \in Nat, NEW v \in 0 .. MaxCalls
      PROVE  [b EXCEPT ![k] = v] \in Buffers
  <2>1. PICK n \in 1 .. MaxPk : b \in [1 .. n -> 0 .. MaxCalls]
    BY <1>2
  <2>2. [b EXCEPT ![k] = v] \in [1 .. n -> 0 .. MaxCalls]
    BY <2>1
  <2>. QED
    BY Zenon, <2>2 DEF Buffers
<1>. QED
  BY <1>1, <1>2, <1>3, <1>4, <1>5, <1>6

\* The packet number, the packet count and the identifier of a frame have their
\* ranges.
LEMMA FrameMembers ==
  \A f \in Frames : /\ f.id \in 0 .. MaxCalls /\ f.id \in MsgIds
                    /\ f.total \in 1 .. MaxPk /\ f.pk \in 1 .. f.total /\ f.pk \in Nat
                    /\ f.pk \in 1 .. MaxPk
                    /\ f = [id |-> f.id, total |-> f.total, pk |-> f.pk]
<1>. QED
  BY SenderAssumption DEF Frames, MsgIds

\* What paket_decode makes of the buffer.
LEMMA Decoded ==
  ASSUME NEW b \in Buffers \union {NoBuffer}, b = paket_buffer, NEW f \in Frames
  PROVE  /\ BufferFor(f) \in Buffers \union {NoBuffer}
         /\ Store(BufferFor(f), f) \in Buffers \union {NoBuffer}
         /\ BufferFor(f) # NoBuffer => Store(BufferFor(f), f) \in Buffers
         /\ BufferFor(f) = NoBuffer => Store(BufferFor(f), f) = NoBuffer /\ b = NoBuffer /\ f.pk # 1
         /\ DOMAIN Store(BufferFor(f), f) = DOMAIN BufferFor(f)
         /\ f.pk = 1 => DOMAIN BufferFor(f) = 1 .. f.total /\ BufferFor(f) \in Buffers
         /\ f.pk # 1 => BufferFor(f) = b
<1> DEFINE c == BufferFor(f)
<1>0. f.total \in 1 .. MaxPk /\ f.pk \in Nat /\ f.id \in 0 .. MaxCalls
  BY FrameMembers
<1>1. f.pk # 1 => c = b
  BY Zenon DEF BufferFor
<1>2. f.pk = 1 => c = [k \in 1 .. f.total |-> 0]
  BY Zenon DEF BufferFor
<1>3. f.pk = 1 => c \in Buffers /\ DOMAIN c = 1 .. f.total
  BY <1>0, <1>2, BufferMembers
<1>4. c \in Buffers \union {NoBuffer}
  BY <1>1, <1>3
<1> HIDE DEF c
<1>5. /\ c \in Buffers => Store(c, f) \in Buffers
      /\ DOMAIN Store(c, f) = DOMAIN c
      /\ c = NoBuffer => Store(c, f) = NoBuffer
  BY <1>0, BufferMembers DEF Store
<1>6. c = NoBuffer => b = NoBuffer /\ f.pk # 1
  BY <1>1, <1>3, BufferMembers
<1>. QED
  BY <1>1, <1>3, <1>4, <1>5, <1>6, BufferMembers DEF c

\* In the loop, the packet the task holds makes a frame.
LEMMA CurrentIsFrame ==
  ASSUME TypeOK, LoopInv, InLoop
  PROVE  /\ CurrentFrame \in Frames
         /\ CurrentFrame.id = task.msg.id /\ CurrentFrame.total = task.msg.total
         /\ CurrentFrame.pk = task.pk
         /\ task.pk \in 1 .. task.msg.total /\ task.msg.total \in 1 .. MaxPk
<1>1. task.pk \in 1 .. task.msg.total /\ task.msg.total \in 1 .. MaxPk
  BY DEF LoopInv, InLoop
<1>2. task.msg.id \in MsgIds
  BY DEF TypeOK, TaskTypeOK, InLoop, Messages
<1>3. task.pk \in 1 .. MaxPk
  BY <1>1, SenderAssumption
<1>. QED
  BY <1>1, <1>2, <1>3 DEF CurrentFrame, Frames

\* The header is in range, and the packet taken for the last is the last of a
\* short message.
LEMMA HeaderRange ==
  ASSUME NEW f \in Frames
  PROVE  /\ Header(f) \in 0 .. MaxPk
         /\ Complete(f) <=> f.pk = f.total /\ f.total < HeaderBits
<1>1. f.pk \in Nat /\ f.total \in Nat /\ f.pk >= 1 /\ f.pk <= f.total /\ f.total <= MaxPk
      /\ f.total >= 1
  BY FrameMembers, SenderAssumption
<1>. QED
  BY <1>1, LinkAssumption, SenderAssumption DEF Header, Complete

-----------------------------------------------------------------------------
(* The steps of the sender task, field by field.                           *)

Same(t, u) == t.msg = u.msg /\ t.pk = u.pk

\* What each step of the sender task does to its own record.
LEMMA TaskFields ==
  ASSUME TypeOK
  PROVE  /\ TaskWrite => /\ task.pc = "write" /\ task'.pc \in {"ackwait", "count"}
                         /\ Same(task', task) /\ task'.sended = task.sended /\ task'.ok = task.ok
         /\ TaskAck => /\ task.pc = "ackwait" /\ task'.pc = "count" /\ Same(task', task)
                       /\ ~ task'.sended /\ task'.ok = task.ok
         /\ TaskNoAck => /\ task.pc = "ackwait" /\ task'.pc = "count" /\ Same(task', task)
                         /\ task'.sended = task.sended /\ task'.ok = task.ok
         /\ TaskCount =>
              /\ task.pc = "count" /\ Same(task', task)
              /\ \/ task'.pc = "next" /\ ~ task'.ok
                 \/ task'.pc = "write" /\ task.sended /\ task'.sended /\ task'.ok = task.ok
                 \/ task'.pc = "next" /\ ~ task.sended /\ task'.ok = task.ok
         /\ TaskNext =>
              /\ task.pc = "next" /\ task'.msg = task.msg
              /\ \/ task'.pc = "check" /\ StopLoop /\ fate' = [fate EXCEPT ![task.msg.id] = Outcome(task)]
                 \/ /\ task'.pc = "write" /\ task'.pk = task.pk + 1 /\ task'.sended /\ task'.ok = task.ok
                    /\ ~ StopLoop /\ fate' = fate
         /\ TaskCheck => /\ task.pc = "check"
                         /\ task'.pc = "recv" \/ (task'.pc = "give" /\ task'.msg = task.msg)
         /\ TaskGive => task.pc = "give" /\ task'.pc = "recv"
<1>0. task \in TaskRecord
  BY DEF TypeOK, TaskTypeOK
<1>1. TaskWrite => /\ task.pc = "write" /\ task'.pc \in {"ackwait", "count"}
                   /\ Same(task', task) /\ task'.sended = task.sended /\ task'.ok = task.ok
  BY <1>0 DEF TaskWrite, TaskRecord, Same
<1>2. TaskAck => /\ task.pc = "ackwait" /\ task'.pc = "count" /\ Same(task', task)
                 /\ ~ task'.sended /\ task'.ok = task.ok
  BY <1>0 DEF TaskAck, TaskRecord, Same
<1>3. TaskNoAck => /\ task.pc = "ackwait" /\ task'.pc = "count" /\ Same(task', task)
                   /\ task'.sended = task.sended /\ task'.ok = task.ok
  BY <1>0 DEF TaskNoAck, TaskRecord, Same
<1>4. ASSUME TaskCount
      PROVE  /\ task.pc = "count" /\ Same(task', task)
             /\ \/ task'.pc = "next" /\ ~ task'.ok
                \/ task'.pc = "write" /\ task.sended /\ task'.sended /\ task'.ok = task.ok
                \/ task'.pc = "next" /\ ~ task.sended /\ task'.ok = task.ok
  BY <1>0, <1>4 DEF TaskCount, TaskRecord, Same
<1>5. ASSUME TaskNext
      PROVE  /\ task.pc = "next" /\ task'.msg = task.msg
             /\ \/ task'.pc = "check" /\ StopLoop /\ fate' = [fate EXCEPT ![task.msg.id] = Outcome(task)]
                \/ /\ task'.pc = "write" /\ task'.pk = task.pk + 1 /\ task'.sended /\ task'.ok = task.ok
                   /\ ~ StopLoop /\ fate' = fate
  <2>1. CASE StopLoop /\ task' = LeaveLoop(task.msg) /\ fate' = [fate EXCEPT ![task.msg.id] = Outcome(task)]
    BY <1>5, <2>1 DEF TaskNext, LeaveLoop, IdleTask
  <2>2. CASE ~ StopLoop /\ task' = [task EXCEPT !.pc = "write", !.pk = @ + 1, !.tries = 0, !.sended = TRUE]
                        /\ fate' = fate
    BY <1>0, <1>5, <2>2 DEF TaskNext, TaskRecord
  <2>. QED
    BY Zenon, <1>5, <2>1, <2>2 DEF TaskNext
<1>6. TaskCheck => /\ task.pc = "check"
                   /\ task'.pc = "recv" \/ (task'.pc = "give" /\ task'.msg = task.msg)
  BY <1>0 DEF TaskCheck, TaskRecord, IdleTask
<1>7. TaskGive => task.pc = "give" /\ task'.pc = "recv"
  BY DEF TaskGive, IdleTask
<1>. QED
  BY <1>1, <1>2, <1>3, <1>4, <1>5, <1>6, <1>7

\* Taking a message off the queue begins its loop: no message is empty.
LEMMA ReceiveFields ==
  ASSUME TypeOK, LoopInv, TaskReceive
  PROVE  /\ task.pc = "recv" /\ send_queue # <<>> /\ send_queue' = Tail(send_queue)
         /\ task'.pc = "write" /\ task'.msg = Head(send_queue) /\ task'.pk = 1
         /\ task'.sended /\ task'.ok /\ fate' = fate
         /\ Head(send_queue).total \in 1 .. MaxPk
<1>1. /\ send_queue # <<>> /\ send_queue' = Tail(send_queue) /\ task.pc = "recv"
      /\ \/ task' = LeaveLoop(Head(send_queue)) /\ Head(send_queue).total = 0
         \/ /\ task' = [pc |-> "write", msg |-> Head(send_queue), pk |-> 1, tries |-> 0,
                        sended |-> TRUE, ok |-> TRUE]
            /\ fate' = fate
  BY Zenon DEF TaskReceive, RestOfQueue
<1>2. send_queue \in Seq(Messages)
  BY DEF TypeOK, LinkTypeOK
<1>3. Head(send_queue).total \in 1 .. MaxPk
  BY <1>1, <1>2 DEF LoopInv
<1>. QED
  BY <1>1, <1>3

\* A step of the sender task leaves the callers alone; only its receive touches
\* the queue.
LEMMA WhatTaskTouches ==
  ASSUME TaskStep
  PROVE  /\ UNCHANGED <<pc, msg, ret, quiet, late, calls, hnd, busy>>
         /\ TaskReceive \/ send_queue' = send_queue
         /\ TaskReceive \/ TaskNext \/ fate' = fate
         /\ TaskAck \/ ack_wait_sem' = ack_wait_sem
<1>. QED
  BY Zenon DEF TaskStep, TaskReceive, TaskWrite, TaskAck, TaskNoAck, TaskCount, TaskNext,
     TaskCheck, TaskGive, callVars, ghosts

-----------------------------------------------------------------------------
(* Types and the task's loop.                                              *)

LEMMA LoopKept == IInv /\ LoopInv /\ [LinkNext]_linkVars => LoopInv'
<1> SUFFICES ASSUME IInv, LoopInv, [LinkNext]_linkVars PROVE LoopInv'
  OBVIOUS
<1>0. TypeOK
  BY DEF IInv
<1>1. ASSUME NEW c \in Callers, LinkCall(c) \/ LinkCallerStep(c) \/ CallTimeout(c)
      PROVE  LoopInv'
  <2>1. task' = task
    BY <1>1, CallerOfLink, CallerKeepsTask, SenderAssumption
  <2>2. CASE \E n \in 1 .. MaxPk : SenderEnter(c, n)
    <3>1. PICK n \in 1 .. MaxPk : SenderEnter(c, n)
      BY <2>2
    <3>2. /\ msg' = [msg EXCEPT ![c] = [id |-> calls + 1, total |-> n]]
          /\ pc' = [pc EXCEPT ![c] = "set"] /\ send_queue' = send_queue
      BY Zenon, <3>1 DEF SenderEnter, At
    <3>3. ASSUME NEW d \in Callers, pc'[d] # "idle" PROVE msg'[d].total \in 1 .. MaxPk
      BY <1>0, <3>2, <3>3 DEF LoopInv, TypeOK, CallerTypeOK
    <3>4. \A i \in 1 .. Len(send_queue') : send_queue'[i].total \in 1 .. MaxPk
      BY Zenon, <3>2 DEF LoopInv
    <3>. QED
      BY Zenon, <2>1, <3>3, <3>4 DEF LoopInv, InLoop
  <2>3. CASE Enqueue(c)
    <3>1. /\ pc[c] = "queue" /\ msg' = msg /\ pc' = [pc EXCEPT ![c] = "take"]
          /\ send_queue' = send_queue \/ send_queue' = Append(send_queue, msg[c])
      BY Zenon, <2>3 DEF Enqueue, At
    <3>2. \A d \in Callers : pc'[d] # "idle" => pc[d] # "idle"
      BY <1>0, <3>1 DEF TypeOK, CallerTypeOK
    <3>3. ASSUME NEW i \in 1 .. Len(send_queue') PROVE send_queue'[i].total \in 1 .. MaxPk
      <4>1. send_queue \in Seq(Messages) /\ msg[c] \in Messages
        BY <1>0, <3>1 DEF TypeOK, CallerTypeOK, LinkTypeOK
      <4>2. msg[c].total \in 1 .. MaxPk
        BY <3>1 DEF LoopInv
      <4>. QED
        BY <3>1, <4>1, <4>2 DEF LoopInv
    <3>. QED
      BY Zenon, <2>1, <3>1, <3>2, <3>3 DEF LoopInv, InLoop
  <2>4. CASE SenderBusy(c) \/ (CallerStep(c) /\ ~ Enqueue(c))
    <3>1. send_queue' = send_queue
      BY Zenon, <2>4 DEF SenderBusy, CallerStep, SetBusy, CreateSem, ClearError, TakeSem, Completed,
         WaitTimeout, WaitOnFreed, DeleteSem, NullSem, ReadError, Release
    <3>2. \A d \in Callers : pc'[d] # "idle" => pc[d] # "idle" /\ msg'[d] = msg[d]
      BY <1>0, <2>4 DEF TypeOK, CallerTypeOK, SenderBusy, CallerStep, SetBusy, CreateSem, ClearError,
         TakeSem, Completed, WaitTimeout, WaitOnFreed, DeleteSem, NullSem, ReadError, Release, At,
         callVars
    <3>. QED
      BY Zenon, <2>1, <3>1, <3>2 DEF LoopInv, InLoop
  <2>. QED
    BY Zenon, <1>1, <2>2, <2>3, <2>4, CallerOfLink
<1>2. CASE SenderTaskStep \/ Transmit \/ AckTimeout
  <2>0. TaskStep
    BY <1>2, TaskOfLink
  <2>1. UNCHANGED <<pc, msg>>
    BY Zenon, <2>0 DEF TaskStep, TaskReceive, TaskWrite, TaskAck, TaskNoAck, TaskCount, TaskNext,
       TaskCheck, TaskGive, callVars
  <2>2. CASE TaskReceive
    <3>1. /\ task'.pc = "write" /\ task'.msg.total \in 1 .. MaxPk /\ task'.pk = 1 /\ task'.sended
          /\ send_queue' = Tail(send_queue) /\ send_queue # <<>>
      BY Zenon, <1>0, <2>2, ReceiveFields
    <3>2. send_queue \in Seq(Messages)
      BY <1>0 DEF TypeOK, LinkTypeOK
    <3>3. \A i \in 1 .. Len(send_queue') : send_queue'[i].total \in 1 .. MaxPk
      BY <3>1, <3>2 DEF LoopInv
    <3>. QED
      BY <2>1, <3>1, <3>3, SenderAssumption DEF LoopInv
  <2>3. CASE ~ TaskReceive
    <3>1. send_queue' = send_queue
      BY Zenon, <2>0, <2>3, WhatTaskTouches
    <3>2. /\ task'.pc # "recv" => task'.msg = task.msg /\ task.pc # "recv"
          /\ task'.pc \in {"write", "ackwait"} => task'.sended
          /\ InLoop' => /\ InLoop
                        /\ \/ task'.pk = task.pk
                           \/ task.pk # task.msg.total /\ task'.pk = task.pk + 1
      <4>1. TaskWrite => task.sended
        BY DEF TaskWrite, LoopInv
      <4>. QED
        BY <1>0, <2>0, <2>3, <4>1, TaskFields DEF Same, TaskStep, InLoop, StopLoop
    <3>3. InLoop => task.pk \in 1 .. task.msg.total /\ task.msg.total \in Nat
      BY SenderAssumption DEF LoopInv, InLoop
    <3>4. InLoop' => task'.pk \in 1 .. task'.msg.total
      BY <3>2, <3>3 DEF InLoop
    <3>. QED
      BY Zenon, <2>1, <3>1, <3>2, <3>4 DEF LoopInv
  <2>. QED
    BY <2>2, <2>3
<1>3. CASE LinkReboot
  BY <1>3 DEF LinkReboot, Reboot, LoopInv, IdleTask, InLoop
<1>4. CASE UNCHANGED <<pc, msg, send_queue, task>>
  BY Zenon, <1>4 DEF LoopInv, InLoop
<1>5. Acknowledge \/ Flush \/ CallbackTimeout \/ Callback \/ CallbackReturns \/ ReceiverTaskStep
         \/ UNCHANGED linkVars => UNCHANGED <<pc, msg, send_queue, task>>
  BY Zenon DEF Acknowledge, AckHandler, Flush, CallbackTimeout, Callback, CallbackReturns,
     ReceiverTaskStep, vars, linkVars, callVars
<1>. QED
  BY Zenon, <1>1, <1>2, <1>3, <1>4, <1>5 DEF LinkNext

\* A transmission that arrives is a frame of the message the task holds.
LEMMA TransmitFields ==
  ASSUME TypeOK, LoopInv, Transmit
  PROVE  /\ task.pc = "write" /\ InLoop /\ CurrentFrame' = CurrentFrame
         /\ \/ rx_buf' = rx_buf \/ (rx_buf' = Append(rx_buf, CurrentFrame) /\ ~ RxFull
                                      /\ task'.pc = "ackwait")
         /\ UNCHANGED <<rx, paket_buffer, paket_header, callback_sem, wait_sem, cb, heard>>
<1>1. TaskWrite
  BY DEF Transmit
<1>2. task.pc = "write" /\ InLoop
  BY <1>1 DEF TaskWrite, InLoop
<1>3. CurrentFrame' = CurrentFrame
  BY Zenon, <1>1, TaskFields DEF CurrentFrame, Same
<1>. QED
  BY Zenon, <1>2, <1>3 DEF Transmit, Arrive

\* Every step keeps the frames on the wire well typed.
LEMMA FrameType ==
  ASSUME IInv, LoopInv, FrameTypes, [LinkNext]_linkVars
  PROVE  FrameTypes'
<1>0. TypeOK
  BY DEF IInv
<1>1. rx_buf' \in Seq(Frames) /\ Len(rx_buf') <= RxQueueLength
  <2>1. CASE Transmit
    <3>1. CurrentFrame \in Frames
      BY <1>0, <2>1, TransmitFields, CurrentIsFrame
    <3>2. rx_buf' = rx_buf \/ (rx_buf' = Append(rx_buf, CurrentFrame) /\ ~ RxFull)
      BY <1>0, <2>1, TransmitFields
    <3>. QED
      BY <3>1, <3>2, LinkAssumption DEF FrameTypes, RxFull
  <2>2. CASE Flush
    BY <2>2, LinkAssumption DEF Flush, RxFlush
  <2>3. CASE RxTake
    BY <2>3, LinkAssumption DEF RxTake, FrameTypes
  <2>. QED
    BY <2>1, <2>2, <2>3, WhoTouchesReceiver DEF FrameTypes
<1>2. rx' \in RxStates /\ (rx'.pc \in {"ack", "decode"} => rx'.frame \in Frames)
  <2>0. NoFrame \in Frames \union {NoFrame}
    OBVIOUS
  <2>1. CASE RxTake
    <3>1. Head(rx_buf) \in Frames
      BY <2>1 DEF RxTake, FrameTypes
    <3>2. rx' = [pc |-> "ack", frame |-> Head(rx_buf)]
      BY <2>1 DEF RxTake
    <3>. QED
      BY <3>1, <3>2 DEF RxPlaces, RxStates
  <2>2. CASE RxAck
    <3>1. rx \in RxStates /\ rx.frame \in Frames /\ rx' = [rx EXCEPT !.pc = "decode"]
      BY <2>2 DEF RxAck, FrameTypes
    <3>. QED
      BY <3>1 DEF RxStates, RxPlaces
  <2>3. CASE RxDecode \/ RxCallbackDone \/ CallbackTimeout
    <3>1. rx' = IdleRx \/ rx' = AfterComplete
      BY Zenon, <2>3 DEF RxDecode, RxCallbackDone, CallbackTimeout, RxCallbackTimeout
    <3>2. rx'.frame = NoFrame /\ rx'.pc \in {"recv", "cbwait"} /\ rx' = [pc |-> rx'.pc, frame |-> NoFrame]
      BY <3>1 DEF IdleRx, AfterComplete
    <3>. QED
      BY <3>2, <2>0 DEF RxPlaces, RxStates
  <2>. QED
    BY <2>1, <2>2, <2>3, WhoTouchesReceiver DEF FrameTypes
<1>. QED
  BY <1>1, <1>2 DEF FrameTypes

\* paket_decode and what it does with a finished message.
LEMMA DecodeFields ==
  ASSUME FrameTypes, BufferTypes, RxDecode
  PROVE  /\ rx.pc = "decode" /\ rx.frame \in Frames
         /\ paket_buffer' = Buffer
         /\ paket_buffer' \in Buffers \/ (paket_buffer' = NoBuffer /\ paket_buffer = NoBuffer)
         /\ \/ callback_sem' = callback_sem /\ rx'.pc = "recv"
                 /\ (~ Complete(rx.frame) \/ BufferFor(rx.frame) = NoBuffer)
            \/ callback_sem' = 1 /\ rx'.pc = "cbwait" /\ Complete(rx.frame)
                 /\ BufferFor(rx.frame) # NoBuffer /\ paket_buffer' \in Buffers
         /\ paket_header' \in {paket_header, 0, Header(rx.frame)}
<1>1. rx.pc = "decode" /\ rx.frame \in Frames
  BY DEF RxDecode, FrameTypes
<1>2. paket_buffer \in Buffers \union {NoBuffer}
  BY DEF BufferTypes
<1> DEFINE f == rx.frame
<1>3. /\ BufferFor(f) # NoBuffer => Store(BufferFor(f), f) \in Buffers
      /\ BufferFor(f) = NoBuffer => Store(BufferFor(f), f) = NoBuffer /\ paket_buffer = NoBuffer
  BY <1>1, <1>2, Decoded
<1>4. IdleRx.pc = "recv" /\ AfterComplete.pc = "cbwait"
  BY DEF IdleRx, AfterComplete
<1>5. CASE BufferFor(f) = NoBuffer
  <2>1. rx' = IdleRx /\ paket_buffer' = paket_buffer /\ callback_sem' = callback_sem
          /\ paket_header' = paket_header
    BY Zenon, <1>5 DEF RxDecode
  <2>2. Buffer = paket_buffer
    BY Zenon, <1>1, <1>3, <1>5 DEF Buffer
  <2>. QED
    BY Zenon, <1>1, <1>2, <1>4, <1>5, <2>1, <2>2
<1>6. CASE BufferFor(f) # NoBuffer
  <2>1. /\ paket_buffer' = Store(BufferFor(f), f)
        /\ \/ Complete(f) /\ paket_header' = 0 /\ callback_sem' = 1 /\ rx' = AfterComplete
           \/ ~ Complete(f) /\ paket_header' = Header(f) /\ rx' = IdleRx /\ callback_sem' = callback_sem
    BY Zenon, <1>6 DEF RxDecode
  <2>2. Buffer = Store(BufferFor(f), f)
    BY Zenon, <1>1 DEF Buffer
  <2>. QED
    BY Zenon, <1>1, <1>3, <1>4, <1>6, <2>1, <2>2
<1>. QED
  BY <1>5, <1>6

\* Every step keeps the reassembly buffers well typed.
LEMMA BufferType ==
  ASSUME IInv, FrameTypes, BufferTypes, [LinkNext]_linkVars
  PROVE  BufferTypes'
<1>1. CASE RxDecode
  <2>1. UNCHANGED <<cb, heard>>
    <3>1. rx'.pc # rx.pc
      BY <1>1, DecodeFields
    <3>2. ~ Callback /\ ~ CallbackReturns
      BY Zenon, <3>1 DEF Callback, CallbackReturns, CbStart, CbEnd
    <3>. QED
      BY Zenon, <3>2, WhoTouchesReceiver
  <2>2. callback_sem' = 1 => paket_buffer' # NoBuffer
    <3>1. callback_sem = 1 => paket_buffer' # NoBuffer
      BY Zenon, <1>1, DecodeFields, BufferMembers DEF BufferTypes
    <3>. QED
      BY Zenon, <1>1, <3>1, DecodeFields, BufferMembers
  <2>. QED
    BY Zenon, <1>1, <2>1, <2>2, DecodeFields DEF BufferTypes
<1>2. CASE Callback
  <2>1. /\ paket_buffer \in Buffers /\ paket_buffer' = paket_buffer /\ cb' = paket_buffer
        /\ callback_sem' = 0 /\ heard' = Append(heard, paket_buffer)
    BY Zenon, <1>2 DEF Callback, CbStart, BufferTypes
  <2>2. heard' \in Seq(Buffers)
    BY <2>1 DEF BufferTypes
  <2>. QED
    BY <2>1, <2>2 DEF BufferTypes
<1>3. CASE CallbackReturns
  BY <1>3 DEF CallbackReturns, CbEnd, BufferTypes
<1>4. CASE ~ RxDecode /\ ~ Callback /\ ~ CallbackReturns
  BY Zenon, <1>4, WhoTouchesReceiver DEF BufferTypes
<1>. QED
  BY <1>1, <1>2, <1>3, <1>4

\* Every step keeps the types of the receiving half.
LEMMA LinkType ==
  ASSUME IInv, LoopInv, LinkTypes, [LinkNext]_linkVars
  PROVE  LinkTypes'
<1>0. TypeOK /\ FrameTypes /\ BufferTypes
  BY DEF LinkTypes
<1>1. TypeOK'
  BY <1>0, LinkStep, NextType
<1>2. FrameTypes' /\ BufferTypes'
  BY <1>0, FrameType, BufferType
<1>3. paket_header' \in 0 .. MaxPk
  <2>1. CASE RxDecode
    <3>1. paket_header' \in {paket_header, 0, Header(rx.frame)} /\ rx.frame \in Frames
      BY <1>0, <2>1, DecodeFields
    <3>. QED
      BY <3>1, HeaderRange, SenderAssumption DEF LinkTypes
  <2>2. CASE ~ RxDecode
    BY Zenon, <2>2, WhoTouchesReceiver DEF LinkTypes
  <2>. QED
    BY <2>1, <2>2
<1>4. callback_sem' \in {0, 1}
  <2>1. CASE RxDecode
    BY <1>0, <2>1, DecodeFields DEF LinkTypes
  <2>2. CASE Callback
    BY <2>2 DEF Callback, CbStart
  <2>. QED
    BY <2>1, <2>2, WhoTouchesReceiver DEF LinkTypes
<1>5. wait_sem' \in {0, 1}
  BY WhoTouchesReceiver DEF LinkTypes, RxCallbackDone, CallbackReturns, CbEnd
<1>6. happened' \subseteq Faults \union Notes
  <2>1. \/ \E f \in Faults : happened' = happened \union {f}
        \/ \E n \in Notes : happened' = happened \union {n}
        \/ happened' = happened
    BY DEF LinkNext, linkVars, LinkCall, LinkCallerStep, CallTimeout, SenderTaskStep, Transmit,
       AckTimeout, LinkReboot, Acknowledge, Flush, CallbackTimeout, Callback, CallbackReturns,
       ReceiverTaskStep, Fault, NoFault, Note, Notes
  <2>. QED
    BY <2>1 DEF LinkTypes
<1>. QED
  BY <1>1, <1>2, <1>3, <1>4, <1>5, <1>6 DEF LinkTypes

-----------------------------------------------------------------------------
(* The steps of the receiver, and what they note.                          *)

LEMMA RxFields ==
  /\ RxTake => /\ rx.pc = "recv" /\ rx'.pc = "ack" /\ rx'.frame = Head(rx_buf)
               /\ rx_buf # <<>> /\ rx_buf' = Tail(rx_buf)
  /\ RxAck /\ FrameTypes => /\ rx.pc = "ack" /\ rx'.pc = "decode" /\ rx'.frame = rx.frame
                            /\ rx.frame \in Frames
  /\ RxCallbackDone => rx.pc = "cbwait" /\ rx'.pc = "recv" /\ wait_sem = 1 /\ wait_sem' = 0
  /\ RxCallbackTimeout => rx.pc = "cbwait" /\ rx'.pc = "recv"
<1>1. RxAck /\ FrameTypes => /\ rx.pc = "ack" /\ rx'.pc = "decode" /\ rx'.frame = rx.frame
                             /\ rx.frame \in Frames
  <2> SUFFICES ASSUME RxAck, FrameTypes
               PROVE  /\ rx.pc = "ack" /\ rx'.pc = "decode" /\ rx'.frame = rx.frame
                      /\ rx.frame \in Frames
    OBVIOUS
  <2>1. rx.pc = "ack" /\ rx' = [rx EXCEPT !.pc = "decode"] /\ rx.frame \in Frames /\ rx \in RxStates
    BY DEF RxAck, FrameTypes
  <2>. QED
    BY <2>1 DEF RxStates
<1>. QED
  BY <1>1 DEF RxTake, RxCallbackDone, RxCallbackTimeout, IdleRx

\* A fault that has happened stays on record, and an untimely run stays untimely.
LEMMA HappenedStays ==
  ASSUME [LinkNext]_linkVars
  PROVE  /\ happened \subseteq happened'
         /\ Untimely => Untimely'
         /\ Clean' => Clean
<1>1. happened \subseteq happened'
  BY DEF LinkNext, linkVars, LinkCall, LinkCallerStep, CallTimeout, SenderTaskStep, Transmit,
     AckTimeout, LinkReboot, Acknowledge, Flush, CallbackTimeout, Callback, CallbackReturns,
     ReceiverTaskStep, Fault, NoFault, Note
<1>. QED
  BY <1>1 DEF Untimely, Clean

\* What each kind of step adds to happened.
LEMMA Noted ==
  /\ CallbackTimeout => "callback" \in happened' /\ Untimely'
  /\ AckTimeout /\ AckMayCome => Untimely'
  /\ LinkReboot /\ AckMayCome => Untimely'
  /\ \A c \in Callers : LinkCallerStep(c) /\ Disturbed' => "overlap" \in happened'
  /\ Acknowledge => /\ RxAck
                    /\ \/ AckHandler /\ ~ panic
                       \/ UNCHANGED vars /\ (panic \/ "ack" \in happened')
<1>1. CallbackTimeout => "callback" \in happened'
  BY DEF CallbackTimeout, Fault
<1>2. AckTimeout /\ AckMayCome => "lateack" \in happened'
  BY DEF AckTimeout, Fault
<1>3. LinkReboot /\ AckMayCome => "restart" \in happened'
  BY DEF LinkReboot, Note
<1>4. \A c \in Callers : LinkCallerStep(c) /\ Disturbed' => "overlap" \in happened'
  BY DEF LinkCallerStep, Note
<1>5. Acknowledge => /\ RxAck
                     /\ \/ AckHandler /\ ~ panic
                        \/ UNCHANGED vars /\ (panic \/ "ack" \in happened')
  BY DEF Acknowledge, Fault
<1>. QED
  BY <1>1, <1>2, <1>3, <1>4, <1>5 DEF Untimely

-----------------------------------------------------------------------------
(* The buffer is handed to the callback and back.                          *)

LEMMA TokenKept ==
  ASSUME LinkTypes, TokenInv, [LinkNext]_linkVars
  PROVE  TokenInv'
<1> SUFFICES ASSUME "callback" \notin happened'
             PROVE  TokenInv'
  BY Zenon DEF TokenInv
<1>0. /\ FrameTypes /\ BufferTypes
      /\ "callback" \notin happened
      /\ rx.pc # "cbwait" => callback_sem = 0 /\ cb = NoBuffer /\ wait_sem = 0
      /\ callback_sem = 1 => cb = NoBuffer /\ wait_sem = 0
      /\ cb # NoBuffer => wait_sem = 0 /\ cb = paket_buffer
  BY HappenedStays DEF TokenInv, LinkTypes
<1>1. CASE RxDecode
  <2>1. rx.pc = "decode" /\ cb = NoBuffer /\ wait_sem = 0 /\ callback_sem = 0
    BY <1>0, <1>1 DEF RxDecode
  <2>2. UNCHANGED <<cb, wait_sem>>
    BY <1>1 DEF RxDecode
  <2>3. rx'.pc = "cbwait" \/ callback_sem' = callback_sem
    BY Zenon, <1>0, <1>1, DecodeFields
  <2>. QED
    BY Zenon, <2>1, <2>2, <2>3 DEF TokenInv
<1>2. CASE Callback
  <2>1. callback_sem = 1 /\ callback_sem' = 0 /\ cb' = paket_buffer
        /\ UNCHANGED <<rx, paket_buffer, wait_sem>>
    BY Zenon, <1>2 DEF Callback, CbStart
  <2>2. rx.pc = "cbwait" /\ wait_sem = 0
    BY <1>0, <2>1
  <2>. QED
    BY <2>1, <2>2 DEF TokenInv
<1>3. CASE CallbackReturns
  <2>1. cb # NoBuffer /\ cb' = NoBuffer /\ UNCHANGED <<rx, paket_buffer, callback_sem>>
    BY Zenon, <1>3 DEF CallbackReturns, CbEnd
  <2>2. rx.pc = "cbwait" /\ callback_sem # 1
    BY <1>0, <2>1
  <2>. QED
    BY <2>1, <2>2 DEF TokenInv
<1>4. CASE RxCallbackDone
  <2>1. wait_sem = 1 /\ wait_sem' = 0 /\ UNCHANGED <<callback_sem, cb, paket_buffer>>
    BY Zenon, <1>4 DEF RxCallbackDone
  <2>2. callback_sem \in {0, 1}
    BY DEF LinkTypes
  <2>3. callback_sem = 0 /\ cb = NoBuffer
    BY <1>0, <2>1, <2>2
  <2>. QED
    BY <2>1, <2>3 DEF TokenInv
<1>5. CASE RxTake \/ RxAck
  <2>1. rx.pc # "cbwait" /\ UNCHANGED <<callback_sem, cb, paket_buffer, wait_sem>>
    BY <1>5 DEF RxTake, RxAck
  <2>. QED
    BY Zenon, <1>0, <2>1 DEF TokenInv
<1>6. CASE CallbackTimeout
  BY Zenon, <1>6, Noted
<1>7. CASE UNCHANGED <<rx, callback_sem, cb, paket_buffer, wait_sem>>
  BY Zenon, <1>0, <1>7 DEF TokenInv
<1>. QED
  BY Zenon, <1>1, <1>2, <1>3, <1>4, <1>5, <1>6, <1>7, WhoTouchesReceiver

-----------------------------------------------------------------------------
(* One packet on its way.                                                  *)

LEMMA CallerAlone ==
  ASSUME NEW c \in Callers, LinkCall(c) \/ LinkCallerStep(c) \/ CallTimeout(c)
  PROVE  UNCHANGED <<task, ack_wait_sem, rx_buf, rx, paket_buffer, paket_header, callback_sem,
                     wait_sem, cb, heard>>
<1>1. UNCHANGED <<task, ack_wait_sem>>
  BY Zenon, CallerOfLink DEF SenderBusy, SenderEnter, CallerStep, SetBusy, CreateSem, ClearError,
     Enqueue, TakeSem, Completed, WaitTimeout, WaitOnFreed, DeleteSem, NullSem, ReadError, Release
<1>. QED
  BY Zenon, <1>1 DEF LinkCall, LinkCallerStep, CallTimeout, rxVars

\* The steps of the receiver that do not answer a packet.
LEMMA SenderAlone ==
  ASSUME Flush \/ CallbackTimeout \/ Callback \/ CallbackReturns \/ ReceiverTaskStep \/ UNCHANGED linkVars
  PROVE  /\ UNCHANGED vars /\ UNCHANGED <<task, ack_wait_sem, panic>>
         /\ CurrentFrame' = CurrentFrame
<1>. QED
  BY Zenon DEF Flush, CallbackTimeout, Callback, CallbackReturns, ReceiverTaskStep, linkVars, vars,
     CurrentFrame

\* Every step keeps one packet on its way at most, the one the sender waits for.
LEMMA FlightKept ==
  ASSUME IInv, LinkTypes, LoopInv, FlightInv, [LinkNext]_linkVars
  PROVE  FlightInv'
<1> SUFFICES ASSUME ~ Untimely'
             PROVE  FlightInv'
  BY Zenon DEF FlightInv
<1>0. /\ TypeOK /\ FrameTypes
      /\ ~ Untimely
      /\ AckMayCome \/ ack_wait_sem = 1 => task.pc = "ackwait"
      /\ Len(rx_buf) <= 1
      /\ rx_buf # <<>> => rx.pc # "ack" /\ ack_wait_sem = 0 /\ Head(rx_buf) = CurrentFrame
      /\ rx.pc = "ack" => ack_wait_sem = 0 /\ rx.frame = CurrentFrame
  BY HappenedStays DEF FlightInv, LinkTypes
<1>1. ASSUME NEW c \in Callers, LinkCall(c) \/ LinkCallerStep(c) \/ CallTimeout(c)
      PROVE  FlightInv'
  BY Zenon, <1>0, <1>1, CallerAlone DEF FlightInv, AckMayCome, CurrentFrame
<1>2. CASE Transmit
  <2>1. task.pc = "write" /\ CurrentFrame' = CurrentFrame /\ rx' = rx
        /\ ack_wait_sem' = ack_wait_sem
    BY Zenon, <1>0, <1>2, TransmitFields, TaskOfLink, WhatTaskTouches DEF Transmit, TaskWrite
  <2>2. rx_buf = <<>> /\ rx.pc # "ack" /\ ack_wait_sem # 1
    BY <1>0, <2>1 DEF AckMayCome
  <2>3. ack_wait_sem' = 0
    BY <1>0, <2>1, <2>2 DEF TypeOK, LinkTypeOK
  <2>4. rx_buf' = <<>> \/ (rx_buf' = <<CurrentFrame>> /\ task'.pc = "ackwait")
    BY <1>0, <1>2, <2>2, TransmitFields
  <2>5. Len(rx_buf') <= 1 /\ (rx_buf' # <<>> => Head(rx_buf') = CurrentFrame /\ task'.pc = "ackwait")
    BY <2>4
  <2>. QED
    BY Zenon, <2>1, <2>2, <2>3, <2>5 DEF FlightInv, AckMayCome
<1>3. CASE AckTimeout
  <2>1. ~ AckMayCome /\ ack_wait_sem' = 0 /\ UNCHANGED <<rx_buf, rx>>
    BY Zenon, <1>3, Noted DEF AckTimeout, TaskNoAck, rxVars
  <2>. QED
    BY <2>1 DEF FlightInv, AckMayCome
<1>4. CASE SenderTaskStep
  <2>1. UNCHANGED <<rx_buf, rx>>
    BY Zenon, <1>4 DEF SenderTaskStep, rxVars
  <2>2. CASE TaskAck
    <3>1. ack_wait_sem = 1 /\ ack_wait_sem' = 0
      BY <2>2 DEF TaskAck
    <3>2. rx_buf = <<>> /\ rx.pc # "ack"
      BY <1>0, <3>1
    <3>. QED
      BY <2>1, <3>1, <3>2 DEF FlightInv, AckMayCome
  <2>3. CASE ~ TaskAck
    <3>1. task.pc # "ackwait"
      BY <1>4, <2>3 DEF SenderTaskStep, TaskReceive, TaskCount, TaskNext, TaskCheck, TaskGive
    <3>2. rx_buf = <<>> /\ rx.pc # "ack" /\ ack_wait_sem # 1
      BY <1>0, <3>1 DEF AckMayCome
    <3>3. ack_wait_sem' = ack_wait_sem
      BY Zenon, <1>4, <2>3, TaskOfLink, WhatTaskTouches
    <3>. QED
      BY <2>1, <3>2, <3>3 DEF FlightInv, AckMayCome
  <2>. QED
    BY <2>2, <2>3
<1>5. CASE LinkReboot
  <2>1. ~ AckMayCome /\ ack_wait_sem' = 0 /\ UNCHANGED <<rx_buf, rx>>
    BY Zenon, <1>5, Noted DEF LinkReboot, Reboot, rxVars
  <2>. QED
    BY <2>1 DEF FlightInv, AckMayCome
<1>6. CASE Acknowledge
  <2>1. RxAck /\ UNCHANGED task
    BY Zenon, <1>6, Noted DEF AckHandler, vars
  <2>2. rx.pc = "ack" /\ rx'.pc = "decode" /\ UNCHANGED rx_buf
    BY Zenon, <1>0, <2>1, RxFields DEF RxAck
  <2>3. rx_buf = <<>> /\ task.pc = "ackwait"
    BY <1>0, <2>2 DEF AckMayCome
  <2>. QED
    BY <2>1, <2>2, <2>3 DEF FlightInv, AckMayCome
<1>7. CASE ReceiverTaskStep /\ RxTake
  <2>1. UNCHANGED <<task, ack_wait_sem>> /\ CurrentFrame' = CurrentFrame
    BY Zenon, <1>7, SenderAlone
  <2>2. /\ rx_buf # <<>> /\ rx'.pc = "ack" /\ rx'.frame = Head(rx_buf) /\ rx_buf' = Tail(rx_buf)
    BY Zenon, <1>7, RxFields
  <2>3. rx_buf' = <<>>
    <3>1. rx_buf \in Seq(Frames)
      BY <1>0 DEF FrameTypes
    <3>. QED
      BY <1>0, <2>2, <3>1
  <2>. QED
    BY <1>0, <2>1, <2>2, <2>3 DEF FlightInv, AckMayCome
<1>8. CASE Flush
  <2>1. UNCHANGED <<task, ack_wait_sem>> /\ CurrentFrame' = CurrentFrame
    BY Zenon, <1>8, SenderAlone
  <2>2. rx_buf' = <<>> /\ rx' = rx
    BY Zenon, <1>8 DEF Flush, RxFlush
  <2>3. Len(rx_buf') <= 1
    BY <2>2
  <2>. QED
    BY Zenon, <1>0, <2>1, <2>2, <2>3 DEF FlightInv, AckMayCome
<1>9. CASE (ReceiverTaskStep /\ ~ RxTake) \/ CallbackTimeout \/ Callback \/ CallbackReturns
             \/ UNCHANGED linkVars
  <2>1. UNCHANGED <<task, ack_wait_sem>> /\ CurrentFrame' = CurrentFrame
    BY Zenon, <1>9, SenderAlone
  <2>2. rx_buf' = rx_buf
    BY Zenon, <1>9 DEF ReceiverTaskStep, RxDecode, RxCallbackDone, CallbackTimeout, RxCallbackTimeout,
       Callback, CbStart, CallbackReturns, CbEnd, linkVars, rxVars
  <2>3. rx' = rx \/ rx'.pc # "ack"
    BY <1>9 DEF ReceiverTaskStep, RxDecode, RxCallbackDone, CallbackTimeout, RxCallbackTimeout,
       Callback, CbStart, CallbackReturns, CbEnd, linkVars, rxVars, IdleRx, AfterComplete
  <2>. QED
    BY Zenon, <1>0, <2>1, <2>2, <2>3 DEF FlightInv, AckMayCome
<1>. QED
  BY Zenon, <1>1, <1>2, <1>3, <1>4, <1>5, <1>6, <1>7, <1>8, <1>9 DEF LinkNext

-----------------------------------------------------------------------------
(* Calls that are alone.                                                   *)

LEMMA WhoTouchesQuiet ==
  ASSUME [LinkNext]_linkVars
  PROVE  (\E c \in Callers : LinkCallerStep(c)) \/ LinkReboot \/ quiet' = quiet
<1>. QED
  BY Zenon, TaskOfLink, WhatTaskTouches, SenderAlone, Noted DEF LinkNext, LinkCall, CallTimeout,
     SenderBusy, SenderEnter, WaitTimeout, AckHandler, vars, ghosts

\* Every step keeps a call that is not alone on record.
LEMMA OverlapKept ==
  ASSUME IInv, LoopInv, OverlapInv, [LinkNext]_linkVars
  PROVE  OverlapInv'
<1> SUFFICES ASSUME "overlap" \notin happened' PROVE OverlapInv'
  BY Zenon DEF OverlapInv
<1>0. /\ TypeOK /\ ~ Disturbed /\ (task.pc \in {"write", "ackwait", "count"} => task.ok)
      /\ task \in TaskRecord
  BY HappenedStays DEF OverlapInv, IInv, TypeOK, TaskTypeOK
<1>1. ~ Disturbed'
  <2>1. CASE \E c \in Callers : LinkCallerStep(c)
    BY Zenon, <2>1, Noted
  <2>2. CASE LinkReboot
    BY <2>2 DEF LinkReboot, Reboot, Disturbed
  <2>3. CASE quiet' = quiet
    BY Zenon, <1>0, <2>3 DEF Disturbed
  <2>. QED
    BY Zenon, <2>1, <2>2, <2>3, WhoTouchesQuiet
<1>2. task'.pc \in {"write", "ackwait", "count"} => task'.ok
  <2>1. CASE SenderTaskStep \/ Transmit \/ AckTimeout
    <3>0. TaskStep
      BY <2>1, TaskOfLink
    <3>1. CASE TaskReceive
      BY Zenon, <1>0, <3>1, ReceiveFields
    <3>2. CASE TaskNext
      <4>1. CASE StopLoop
        BY <1>0, <3>2, <4>1, TaskFields
      <4>2. CASE ~ StopLoop
        <5>1. send_paket_error = 0 /\ InLoop
          BY <1>0, <3>2, <4>2 DEF TaskNext, StopLoop, InLoop, TypeOK, LinkTypeOK
        <5>2. task.ok
          BY <1>0, <5>1 DEF IInv, ErrorInv
        <5>3. task'.ok = task.ok
          BY Zenon, <1>0, <3>2, <4>2, TaskFields
        <5>. QED
          BY <5>2, <5>3
      <4>. QED
        BY <4>1, <4>2
    <3>3. CASE TaskCount
      BY <1>0, <3>3, TaskFields
    <3>4. CASE TaskWrite \/ TaskAck \/ TaskNoAck \/ TaskCheck \/ TaskGive
      BY <1>0, <3>4, TaskFields
    <3>. QED
      BY <3>0, <3>1, <3>2, <3>3, <3>4 DEF TaskStep
  <2>2. CASE LinkReboot
    BY <2>2 DEF LinkReboot, Reboot, IdleTask
  <2>3. CASE UNCHANGED task
    BY <1>0, <2>3
  <2>. QED
    BY Zenon, <2>1, <2>2, <2>3, CallerAlone, SenderAlone, Noted DEF LinkNext, AckHandler, vars
<1>. QED
  BY Zenon, <1>1, <1>2 DEF OverlapInv

-----------------------------------------------------------------------------
(* A message that arrived stays arrived.                                   *)

LEMMA StorePlaces ==
  ASSUME NEW b, NEW f, f.pk \in DOMAIN b
  PROVE  /\ Store(b, f)[f.pk] = f.id
         /\ \A k \in DOMAIN b : k # f.pk => Store(b, f)[k] = b[k]
<1>. QED
  BY DEF Store

\* A finished message is in the buffer it completes.
LEMMA CompletedArrives ==
  ASSUME LinkTypes, RxDecode, Complete(rx.frame),
         rx.frame.pk = 1 \/ rx.frame.pk \in DOMAIN paket_buffer
  PROVE  callback_sem' = 1 /\ rx.frame.id \in Sources(paket_buffer)'
<1> DEFINE f == rx.frame
<1>0. FrameTypes /\ BufferTypes
  BY DEF LinkTypes
<1>1. /\ rx.pc = "decode" /\ f \in Frames /\ paket_buffer' = Buffer
      /\ BufferFor(f) # NoBuffer => callback_sem' = 1
  BY Zenon, <1>0, DecodeFields
<1>2. f.pk \in DOMAIN BufferFor(f)
  <2>1. CASE f.pk = 1
    <3>1. BufferFor(f) \in Buffers
      BY <1>0, <1>1, <2>1, Decoded DEF BufferTypes
    <3>. QED
      BY Zenon, <2>1, <3>1, BufferMembers
  <2>2. CASE f.pk # 1
    BY Zenon, <2>2 DEF BufferFor
  <2>. QED
    BY <2>1, <2>2
<1>3. BufferFor(f) # NoBuffer
  BY Zenon, <1>2, BufferMembers
<1>4. paket_buffer' = Store(BufferFor(f), f)
  BY Zenon, <1>1 DEF Buffer
<1>5. DOMAIN Store(BufferFor(f), f) = DOMAIN BufferFor(f)
  BY Zenon DEF Store
<1>6. f.pk \in DOMAIN (paket_buffer') /\ paket_buffer'[f.pk] = f.id
  BY ZenonT(60), <1>2, <1>4, <1>5, StorePlaces
<1>. QED
  BY Zenon, <1>1, <1>3, <1>6 DEF Sources

\* What has arrived at the receiver stays arrived in a timely run.
LEMMA ArrivedStays ==
  ASSUME LinkTypes, TokenInv, [LinkNext]_linkVars, ~ Untimely', NEW id, Arrived(id)
  PROVE  Arrived(id)'
<1>0. /\ FrameTypes /\ BufferTypes /\ "callback" \notin happened
      /\ rx.pc # "cbwait" => callback_sem = 0
  BY HappenedStays DEF LinkTypes, TokenInv, Untimely
<1>1. CASE RxDecode
  <2>1. rx.pc = "decode" /\ callback_sem = 0 /\ heard' = heard
    <3>1. rx.pc = "decode" /\ callback_sem = 0
      BY <1>0, <1>1 DEF RxDecode
    <3>2. ~ Callback
      BY <3>1 DEF Callback, CbStart
    <3>. QED
      BY Zenon, <3>1, <3>2, WhoTouchesReceiver
  <2>2. CASE /\ rx.frame.id = id /\ Complete(rx.frame)
             /\ rx.frame.pk = 1 \/ rx.frame.pk \in DOMAIN paket_buffer
    BY Zenon, <1>1, <2>2, CompletedArrives DEF Arrived
  <2>3. CASE \E i \in 1 .. Len(heard) : id \in Sources(heard[i])
    BY Zenon, <2>1, <2>3 DEF Arrived, Sources
  <2>. QED
    BY <2>1, <2>2, <2>3 DEF Arrived
<1>2. CASE Callback
  <2>1. callback_sem = 1 /\ heard' = Append(heard, paket_buffer) /\ UNCHANGED <<rx, paket_buffer>>
    BY Zenon, <1>2 DEF Callback, CbStart
  <2>2. heard \in Seq(Buffers) /\ paket_buffer \in Buffers
    BY Zenon, <1>0, <2>1 DEF BufferTypes
  <2>3. rx.pc # "decode"
    BY <1>0, <2>1
  <2>4. CASE id \in Sources(paket_buffer)
    <3>1. Len(heard) + 1 \in 1 .. Len(heard') /\ heard'[Len(heard) + 1] = paket_buffer
      BY <2>1, <2>2
    <3>2. id \in Sources(heard'[Len(heard) + 1])
      BY Zenon, <2>4, <3>1
    <3>. QED
      BY Zenon, <3>1, <3>2 DEF Arrived, Sources
  <2>5. CASE \E i \in 1 .. Len(heard) : id \in Sources(heard[i])
    <3>1. PICK i \in 1 .. Len(heard) : id \in Sources(heard[i])
      BY <2>5
    <3>2. i \in 1 .. Len(heard') /\ heard'[i] = heard[i]
      BY <2>1, <2>2
    <3>3. id \in Sources(heard'[i])
      BY Zenon, <3>1, <3>2
    <3>. QED
      BY Zenon, <3>2, <3>3 DEF Arrived, Sources
  <2>. QED
    BY Zenon, <2>3, <2>4, <2>5 DEF Arrived
<1>3. CASE CallbackTimeout
  BY Zenon, <1>3, Noted
<1>4. CASE RxTake \/ RxAck \/ RxCallbackDone
  <2>1. rx.pc # "decode" /\ UNCHANGED <<callback_sem, paket_buffer>>
    BY <1>4 DEF RxTake, RxAck, RxCallbackDone
  <2>2. ~ Callback
    <3>1. RxTake \/ RxAck \/ RxCallbackDone => rx' # rx
      BY Zenon, <1>0, RxFields
    <3>. QED
      BY Zenon, <1>4, <3>1 DEF Callback, CbStart
  <2>3. heard' = heard
    BY Zenon, <2>2, WhoTouchesReceiver
  <2>. QED
    BY Zenon, <2>1, <2>3 DEF Arrived, Sources
<1>5. CASE UNCHANGED <<rx, callback_sem, paket_buffer, heard>>
  BY Zenon, <1>5 DEF Arrived, Sources, Complete, Header
<1>. QED
  BY Zenon, <1>1, <1>2, <1>3, <1>4, <1>5, WhoTouchesReceiver

\* Looking at a packet does not change what the buffer will hold; taking one
\* to look at does.
LEMMA BufferStays ==
  ASSUME LinkTypes, [LinkNext]_linkVars, ~ RxAck
  PROVE  Buffer' = Buffer
<1>0. FrameTypes /\ BufferTypes
  BY DEF LinkTypes
<1>1. CASE RxDecode
  <2>1. paket_buffer' = Buffer /\ rx'.pc # "decode"
    BY <1>0, <1>1, DecodeFields
  <2>. QED
    BY Zenon, <2>1 DEF Buffer
<1>2. CASE RxTake \/ RxCallbackDone \/ CallbackTimeout
  <2>1. rx.pc # "decode" /\ rx'.pc # "decode" /\ paket_buffer' = paket_buffer
    BY <1>0, <1>2, RxFields DEF RxTake, RxCallbackDone, CallbackTimeout, RxCallbackTimeout
  <2>. QED
    BY Zenon, <2>1 DEF Buffer
<1>3. CASE UNCHANGED <<rx, paket_buffer>>
  BY Zenon, <1>3 DEF Buffer, Store, BufferFor
<1>. QED
  BY Zenon, <1>1, <1>2, <1>3, WhoTouchesReceiver

\* A step that changes neither message, acknowledged count nor buffer keeps
\* AssemblyInv.
LEMMA AssemblySame ==
  ASSUME LinkTypes, TokenInv, AssemblyInv, [LinkNext]_linkVars, ~ Untimely',
         InLoop, task.ok, task'.msg = task.msg, Acked' = Acked, Buffer' = Buffer
  PROVE  AssemblyInv'
<1>0. ~ Untimely
  BY HappenedStays
<1> DEFINE m == task.msg
<1>1. Acked < m.total => Filled(Acked)
  BY Zenon, <1>0 DEF AssemblyInv
<1>2. Acked = m.total /\ Acked < HeaderBits => Arrived(m.id)
  BY Zenon, <1>0 DEF AssemblyInv
<1>3. Acked' < task'.msg.total => Filled(Acked)'
  BY Zenon, <1>1 DEF Filled
<1>4. ASSUME NEW id, id = m.id, Acked = m.total, Acked < HeaderBits
      PROVE  Arrived(id)'
  BY Zenon, <1>2, <1>4, ArrivedStays
<1>5. Acked' = task'.msg.total /\ Acked' < HeaderBits => Arrived(task.msg.id)'
  BY Zenon, <1>4 DEF Arrived
<1>. QED
  BY Zenon, <1>3, <1>5 DEF AssemblyInv

\* A pulse in time means the packet is in its place.
LEMMA AssemblyAck ==
  ASSUME IInv, LinkTypes, LoopInv, TokenInv, FlightInv, AssemblyInv, [LinkNext]_linkVars,
         ~ Untimely', Acknowledge, task.ok
  PROVE  AssemblyInv'
<1>0. /\ TypeOK /\ FrameTypes /\ BufferTypes /\ ~ Untimely
      /\ task' = task /\ ack_wait_sem' \in {0, 1}
    BY HappenedStays, Noted, LinkType DEF LinkTypes, vars, AckHandler, TypeOK, LinkTypeOK
<1> DEFINE f == rx.frame
<1>1. /\ RxAck /\ rx.pc = "ack" /\ rx'.pc = "decode" /\ rx'.frame = f /\ f \in Frames
      /\ paket_buffer' = paket_buffer
  BY Zenon, <1>0, Noted, RxFields DEF RxAck
<1>2. /\ f = CurrentFrame /\ task.pc = "ackwait" /\ ack_wait_sem = 0 /\ InLoop
  BY <1>0, <1>1 DEF FlightInv, AckMayCome, InLoop
<1> DEFINE id == task.msg.id
           total == task.msg.total
           n == task.pk
           b == paket_buffer
<1>3. f.id = id /\ f.total = total /\ f.pk = n /\ n \in 1 .. total /\ total \in 1 .. MaxPk
  BY Zenon, <1>0, <1>2, CurrentIsFrame
<1>4. Buffer = b /\ Buffer' = Store(BufferFor(f), f)
  BY Zenon, <1>1 DEF Buffer, Store, BufferFor
<1>5. Acked = n - 1 /\ Acked' \in {n - 1, n}
  BY <1>0, <1>2 DEF Acked
<1>6. n > 1 => DOMAIN b = 1 .. total /\ \A k \in 1 .. n - 1 : b[k] = id
  <2>1. n > 1 => Filled(n - 1)
    BY <1>0, <1>2, <1>3, <1>5, SenderAssumption DEF AssemblyInv
  <2>. QED
    BY <1>3, <1>4, <2>1, SenderAssumption DEF Filled
<1> HIDE DEF id, total, n, b, f
<1>7. n \in Nat /\ n >= 1 /\ n <= total /\ total \in Nat
  BY <1>3, SenderAssumption
<1>8. DOMAIN Store(BufferFor(f), f) = 1 .. total
      /\ \A k \in 1 .. n : Store(BufferFor(f), f)[k] = id
  <2>1. CASE n = 1
    <3>1. BufferFor(f) = [k \in 1 .. total |-> 0] /\ f.pk = 1 /\ f.id = id
      BY <1>3, <2>1 DEF BufferFor
    <3>. QED
      BY <1>7, <2>1, <3>1 DEF Store
  <2>2. CASE n # 1
    <3>1. BufferFor(f) = b /\ f.pk = n /\ f.id = id
      BY <1>3, <2>2 DEF BufferFor, b
    <3>2. DOMAIN b = 1 .. total /\ (\A k \in 1 .. n - 1 : b[k] = id) /\ n \in DOMAIN b
      BY <1>6, <1>7, <2>2
    <3>3. b \in Buffers
      BY <1>0, <1>7, <3>2, BufferMembers DEF BufferTypes, b
    <3>4. Store(b, f)[n] = id /\ \A k \in DOMAIN b : k # n => Store(b, f)[k] = b[k]
      <4>1. f.pk \in DOMAIN b
        BY <3>1, <3>2
      <4>2. Store(b, f)[f.pk] = f.id /\ \A k \in DOMAIN b : k # f.pk => Store(b, f)[k] = b[k]
        BY <4>1 DEF Store
      <4>. QED
        BY <3>1, <4>2
    <3>5. DOMAIN Store(b, f) = DOMAIN b
      BY Zenon DEF Store
    <3>. QED
      BY <1>7, <3>1, <3>2, <3>4, <3>5
  <2>. QED
    BY <2>1, <2>2
<1>9. Filled(Acked)'
  <2>1. DOMAIN Buffer' = 1 .. total /\ \A k \in 1 .. Acked' : Buffer'[k] = id
    BY <1>4, <1>5, <1>7, <1>8
  <2>. QED
    BY Zenon, <1>0, <2>1 DEF Filled, id, total
<1>10. ASSUME Acked' = task'.msg.total, Acked' < HeaderBits
       PROVE  Arrived(task.msg.id)'
  <2>1. n = total /\ total < HeaderBits
    BY <1>0, <1>5, <1>7, <1>10 DEF total
  <2>2. Complete(f)
    BY <1>1, <1>3, <2>1, HeaderRange DEF f
  <2>3. f.pk = 1 \/ f.pk \in DOMAIN b
    BY <1>3, <1>6, <1>7
  <2>. QED
    BY Zenon, <1>0, <1>1, <1>3, <2>2, <2>3 DEF Arrived, Complete, Header, id, f, b
<1>. QED
  BY Zenon, <1>9, <1>10 DEF AssemblyInv

\* The sender task: what it takes for acknowledged stays so.
LEMMA AssemblyTask ==
  ASSUME IInv, LinkTypes, LoopInv, TokenInv, FlightInv, AssemblyInv, [LinkNext]_linkVars,
         ~ Untimely', SenderTaskStep \/ Transmit \/ AckTimeout
  PROVE  AssemblyInv'
<1>0. /\ TypeOK /\ TaskStep /\ ~ Untimely /\ ack_wait_sem \in {0, 1}
      /\ task.pc # "ackwait" => ack_wait_sem = 0
  BY HappenedStays, TaskOfLink DEF LinkTypes, TypeOK, LinkTypeOK, FlightInv
<1>1. Buffer' = Buffer
  <2>1. UNCHANGED <<rx, paket_buffer>>
    BY Zenon DEF SenderTaskStep, Transmit, AckTimeout, rxVars
  <2>. QED
    BY Zenon, <2>1 DEF Buffer, Store, BufferFor
<1>2. CASE TaskReceive
  <2>1. /\ task'.pc = "write" /\ task'.pk = 1 /\ task'.msg = Head(send_queue)
        /\ Head(send_queue).total \in 1 .. MaxPk
    BY Zenon, <1>0, <1>2, ReceiveFields
  <2>2. Acked' = 0 /\ task'.msg.total \in 1 .. MaxPk
    BY <2>1 DEF Acked
  <2>. QED
    BY <2>2, SenderAssumption DEF AssemblyInv, Filled
<1>3. ASSUME ~ TaskReceive, InLoop', task'.ok
      PROVE  /\ InLoop /\ task.ok /\ task'.msg = task.msg /\ Acked' = Acked
  <2>1. CASE TaskWrite
    <3>1. ack_wait_sem = 0 /\ ack_wait_sem' = 0 /\ task.sended
      <4>1. task.pc = "write" /\ task.sended
        BY <2>1 DEF TaskWrite, LoopInv
      <4>. QED
        BY <1>0, <2>1, <4>1 DEF TaskWrite
    <3>2. /\ task.pc = "write" /\ task'.pc \in {"ackwait", "count"} /\ task'.msg = task.msg
          /\ task'.pk = task.pk /\ task'.sended = task.sended /\ task'.ok = task.ok
      BY Zenon, <1>0, <2>1, TaskFields DEF Same
    <3>. QED
      BY <1>3, <3>1, <3>2 DEF InLoop, Acked
  <2>2. CASE TaskAck
    <3>1. ack_wait_sem = 1
      BY <2>2 DEF TaskAck
    <3>2. /\ task.pc = "ackwait" /\ task'.pc = "count" /\ task'.msg = task.msg
          /\ task'.pk = task.pk /\ ~ task'.sended /\ task'.ok = task.ok
      BY Zenon, <1>0, <2>2, TaskFields DEF Same
    <3>. QED
      BY <1>3, <3>1, <3>2 DEF InLoop, Acked
  <2>3. CASE TaskNoAck
    <3>1. ack_wait_sem = 0 /\ task.sended
      BY <2>3 DEF TaskNoAck, LoopInv
    <3>2. /\ task.pc = "ackwait" /\ task'.pc = "count" /\ task'.msg = task.msg
          /\ task'.pk = task.pk /\ task'.sended = task.sended /\ task'.ok = task.ok
      BY Zenon, <1>0, <2>3, TaskFields DEF Same
    <3>. QED
      BY <1>3, <3>1, <3>2 DEF InLoop, Acked
  <2>4. CASE TaskCount
    BY <1>0, <1>3, <2>4, TaskFields DEF Same, InLoop, Acked
  <2>5. CASE TaskNext
    <3>1. /\ task.pc = "next" /\ task'.msg = task.msg /\ task'.pc = "write"
          /\ task'.pk = task.pk + 1 /\ task'.ok = task.ok
      BY <1>0, <1>3, <2>5, TaskFields DEF InLoop
    <3>2. task.pk \in Nat
      BY <1>0 DEF TypeOK, TaskTypeOK, TaskRecord
    <3>. QED
      BY <1>3, <3>1, <3>2 DEF InLoop, Acked
  <2>6. CASE TaskCheck \/ TaskGive
    BY <1>0, <1>3, <2>6, TaskFields DEF InLoop
  <2>. QED
    BY <1>0, <1>3, <2>1, <2>2, <2>3, <2>4, <2>5, <2>6 DEF TaskStep
<1>4. CASE ~ TaskReceive
  <2>1. CASE InLoop' /\ task'.ok
    BY Zenon, <1>1, <1>3, <1>4, <2>1, AssemblySame
  <2>2. CASE ~ (InLoop' /\ task'.ok)
    BY Zenon, <2>2 DEF AssemblyInv
  <2>. QED
    BY <2>1, <2>2
<1>. QED
  BY <1>2, <1>4

\* Every step keeps the acknowledged packets of the message in the buffer.
LEMMA AssemblyKept ==
  ASSUME IInv, LinkTypes, LoopInv, TokenInv, FlightInv, AssemblyInv, [LinkNext]_linkVars
  PROVE  AssemblyInv'
<1> SUFFICES ASSUME ~ Untimely', InLoop', task'.ok
             PROVE  AssemblyInv'
  BY Zenon DEF AssemblyInv
<1>1. CASE SenderTaskStep \/ Transmit \/ AckTimeout
  BY <1>1, AssemblyTask
<1>2. CASE LinkReboot
  BY <1>2 DEF LinkReboot, Reboot, IdleTask, InLoop
<1>3. CASE Acknowledge
  <2>1. task' = task
    BY Zenon, <1>3, Noted DEF vars, AckHandler
  <2>. QED
    BY Zenon, <1>3, <2>1, AssemblyAck
<1>4. CASE ~ Acknowledge /\ UNCHANGED <<task, ack_wait_sem>>
  <2>1. ~ RxAck
    <3>1. CASE RxAck
      <4>1. rx'.pc = "decode" /\ rx.pc = "ack"
        BY <3>1, RxFields DEF LinkTypes
      <4>2. ~ RxTake /\ ~ RxDecode /\ ~ RxCallbackDone /\ rx' # rx
        BY <4>1 DEF RxTake, RxDecode, RxCallbackDone
      <4>3. ~ RxCallbackTimeout
        BY <4>1 DEF RxCallbackTimeout
      <4>. QED
        BY Zenon, <1>4, <4>2, <4>3 DEF LinkNext, linkVars, rxVars, LinkCall, LinkCallerStep, CallTimeout,
          SenderTaskStep, Transmit, AckTimeout, LinkReboot, Flush, RxFlush, CallbackTimeout, Callback,
          CbStart, CallbackReturns, CbEnd, ReceiverTaskStep
    <3>. QED
      BY <3>1
  <2>2. Buffer' = Buffer
    BY Zenon, <2>1, BufferStays
  <2>3. Acked' = Acked /\ task.ok /\ InLoop
    BY Zenon, <1>4 DEF Acked, InLoop
  <2>. QED
    BY Zenon, <1>4, <2>2, <2>3, AssemblySame
<1>. QED
  BY Zenon, <1>1, <1>2, <1>3, <1>4, CallerAlone, SenderAlone DEF LinkNext

\* The sender task is through with a message when it leaves the loop, and with
\* no other.
LEMMA AnsweredBefore ==
  ASSUME IInv, LoopInv, [LinkNext]_linkVars, NEW c \in Callers, Answered(c)'
  PROVE  /\ msg'[c] = msg[c] /\ msg[c] \in Messages
         /\ \/ Answered(c) /\ fate'[msg[c].id] = fate[msg[c].id]
            \/ /\ TaskNext /\ StopLoop /\ task.msg = msg[c]
               /\ fate' = [fate EXCEPT ![msg[c].id] = Outcome(task)]
<1>0. /\ TypeOK /\ QuietInv /\ IdInv /\ quiet'[c] /\ ~ late'[c]
      /\ pc'[c] \in {"take", "wait", "delete", "null", "read", "release"} /\ pc'[c] \in Section
      /\ pc'[c] \in {"take", "wait"} => send_queue' = <<>> /\ ~ InLoop'
  BY DEF IInv, Answered, Section
<1>1. CASE UNCHANGED <<pc, msg, quiet, late, fate, send_queue, task>>
  BY Zenon, <1>0, <1>1 DEF Answered, InLoop, TypeOK, CallerTypeOK
<1>2. ASSUME NEW d \in Callers, LinkCall(d) \/ LinkCallerStep(d) \/ CallTimeout(d)
      PROVE  /\ msg'[c] = msg[c] /\ msg[c] \in Messages
             /\ Answered(c) /\ fate'[msg[c].id] = fate[msg[c].id]
  <2>0. task' = task
    BY Zenon, <1>2, CallerAlone
  <2>1. CASE SenderBusy(d)
    BY Zenon, <1>0, <2>0, <2>1 DEF SenderBusy, ghosts, Answered, InLoop, TypeOK, CallerTypeOK
  <2>2. ASSUME NEW n \in 1 .. MaxPk, SenderEnter(d, n)
        PROVE  /\ msg'[c] = msg[c] /\ msg[c] \in Messages
               /\ Answered(c) /\ fate'[msg[c].id] = fate[msg[c].id]
    <3>1. /\ pc' = [pc EXCEPT ![d] = "set"] /\ msg' = [msg EXCEPT ![d] = [id |-> calls + 1, total |-> n]]
          /\ fate' = [fate EXCEPT ![calls + 1] = "pending"]
          /\ UNCHANGED <<quiet, late, send_queue>>
      BY <2>2 DEF SenderEnter, At
    <3>2. d # c /\ pc'[c] = pc[c] /\ msg'[c] = msg[c]
      BY <1>0, <3>1 DEF TypeOK, CallerTypeOK
    <3>3. msg[c] \in Messages
      BY <1>0, <3>2 DEF TypeOK, CallerTypeOK
    <3>4. fate'[msg[c].id] = fate[msg[c].id]
      <4>1. msg[c].id <= calls /\ calls \in Nat /\ msg[c].id \in Nat
        BY <1>0, <3>3 DEF IdInv, TypeOK, GhostTypeOK, Messages, MsgIds
      <4>2. msg[c].id # calls + 1
        BY <4>1
      <4>3. fate \in [MsgIds -> Fates]
        BY <1>0 DEF TypeOK, GhostTypeOK
      <4>. QED
        BY <3>1, <3>3, <4>2, <4>3 DEF Messages
    <3>. QED
      BY Zenon, <1>0, <2>0, <3>1, <3>2, <3>3, <3>4 DEF Answered, InLoop
  <2>3. CASE SetBusy(d)
    <3>1. pc'[d] = "create" /\ (c # d => pc'[c] = pc[c] /\ (quiet'[c] => pc[c] \notin Section))
      BY <1>0, <2>3 DEF SetBusy, At, TypeOK, CallerTypeOK
    <3>. QED
      BY <1>0, <3>1
  <2>4. CASE InsideStep(d)
    <3>1. c = d /\ quiet[c] /\ pc[c] \in Section /\ Handshake(c)
      BY <1>0, <2>4, InsideAlone
    <3>2. msg[c] \in Messages
      BY <1>0, <3>1 DEF TypeOK, CallerTypeOK, Section
    <3>3. CASE Enqueue(c)
      <4>1. pc[c] = "queue" /\ pc'[c] = "take" /\ send_queue = <<>>
        BY <1>0, <3>1, <3>3 DEF Enqueue, At, TypeOK, CallerTypeOK, Handshake
      <4>2. ~ QueueFull
        BY <4>1, SenderAssumption DEF QueueFull
      <4>3. send_queue' = Append(send_queue, msg[c])
        BY Zenon, <3>3, <4>2 DEF Enqueue
      <4>4. send_queue' # <<>>
        BY <4>1, <4>3
      <4>. QED
        BY <1>0, <4>1, <4>4
    <3>4. CASE Completed(c)
      <4>1. pc[c] = "wait" /\ sem[hnd[c]] = "full" /\ UNCHANGED <<msg, quiet, late, fate>>
        BY Zenon, <3>4 DEF Completed, At, ghosts
      <4>2. sem[c] = "full" /\ (Queued(c) \/ WithTask(c) \/ Done(c))
        BY Zenon, <3>1, <4>1 DEF Handshake
      <4>3. Done(c)
        BY <4>2 DEF Queued, WithTask
      <4>4. send_queue = <<>> /\ ~ InLoop
        BY <4>3 DEF Done, InLoop
      <4>. QED
        BY Zenon, <1>0, <3>2, <4>1, <4>4 DEF Answered
    <3>5. CASE WaitTimeout(c)
      BY <1>0, <3>5 DEF WaitTimeout, TypeOK, GhostTypeOK
    <3>6. CASE ~ Enqueue(c) /\ ~ Completed(c) /\ ~ WaitTimeout(c)
      <4>1. /\ UNCHANGED <<quiet, late, fate, send_queue>> /\ msg'[c] = msg[c]
            /\ pc[c] \in {"take", "wait", "delete", "null", "read", "release"}
            /\ pc'[c] \in {"take", "wait"} <=> pc[c] \in {"take", "wait"}
        BY <1>0, <2>4, <3>1, <3>6 DEF InsideStep, CreateSem, ClearError, TakeSem, WaitOnFreed, DeleteSem,
           NullSem, ReadError, Release, At, ghosts, callVars, TypeOK, CallerTypeOK
      <4>. QED
        BY <1>0, <2>0, <3>2, <4>1 DEF Answered, InLoop
    <3>. QED
      BY <3>3, <3>4, <3>5, <3>6
  <2>. QED
    BY Zenon, <1>2, <2>1, <2>2, <2>3, <2>4, CallerOfLink DEF CallerStep, InsideStep
<1>3. CASE SenderTaskStep \/ Transmit \/ AckTimeout
  <2>0. /\ TaskStep /\ UNCHANGED <<pc, msg, quiet, late>>
        /\ quiet[c] /\ ~ late[c] /\ pc[c] \in Section /\ Handshake(c)
    BY Zenon, <1>0, <1>3, TaskOfLink, WhatTaskTouches DEF QuietInv
  <2>1. msg[c] \in Messages
    BY <1>0, <2>0 DEF TypeOK, CallerTypeOK, Section
  <2>2. CASE task.pc = "recv"
    <3>1. TaskReceive
      BY <1>0, <2>0, <2>2, TaskFields DEF TaskStep
    <3>2. send_queue # <<>> /\ task'.pc = "write" /\ fate' = fate
      BY <1>0, <3>1, ReceiveFields
    <3>3. pc[c] \notin {"take", "wait"}
      BY <1>0, <2>0, <3>2 DEF InLoop
    <3>. QED
      BY <1>0, <2>0, <2>1, <3>2, <3>3 DEF Answered
  <2>3. CASE task.pc # "recv"
    <3>1. pc[c] \in {"take", "wait"} /\ WithTask(c)
      BY <1>0, <2>0, <2>3 DEF Handshake, Queued, Done
    <3>2. send_queue = <<>> /\ ~ InLoop' /\ task.msg = msg[c]
      BY <3>1, <1>0, <2>0 DEF WithTask
    <3>3. ~ TaskReceive
      BY <2>3 DEF TaskReceive
    <3>4. CASE TaskNext
      <4>1. StopLoop /\ fate' = [fate EXCEPT ![task.msg.id] = Outcome(task)]
        BY Zenon, <1>0, <3>2, <3>4, TaskFields DEF InLoop
      <4>. QED
        BY Zenon, <2>0, <2>1, <3>2, <3>4, <4>1
    <3>5. CASE ~ TaskNext
      <4>1. ~ InLoop /\ fate' = fate
        <5>1. TaskWrite \/ TaskAck \/ TaskNoAck \/ TaskCount => InLoop'
          BY Zenon, <1>0, TaskFields DEF InLoop
        <5>2. TaskCheck \/ TaskGive
          BY Zenon, <2>0, <3>2, <3>3, <3>5, <5>1 DEF TaskStep
        <5>. QED
          BY <2>0, <3>3, <3>5, <5>2, WhatTaskTouches DEF TaskCheck, TaskGive, InLoop
      <4>. QED
        BY Zenon, <2>0, <2>1, <3>1, <3>2, <4>1 DEF Answered
    <3>. QED
      BY <3>4, <3>5
  <2>. QED
    BY <2>2, <2>3
<1>4. CASE LinkReboot
  BY <1>0, <1>4 DEF LinkReboot, Reboot
<1>5. CASE Acknowledge
  BY Zenon, <1>1, <1>5, Noted DEF AckHandler, vars, callVars, ghosts
<1>. QED
  BY Zenon, <1>1, <1>2, <1>3, <1>4, <1>5, SenderAlone DEF LinkNext, vars

\* The task leaves its loop with every packet acknowledged: the message is there.
LEMMA SentArrived ==
  ASSUME TypeOK, LoopInv, AssemblyInv, ~ Untimely, TaskNext, Outcome(task) = "sent",
         task.msg.total < HeaderBits
  PROVE  Arrived(task.msg.id)
<1>1. task.ok /\ task.pk >= task.msg.total
  BY DEF Outcome
<1>2. task.pc = "next" /\ InLoop
  BY DEF TaskNext, InLoop
<1>3. task.pk \in 1 .. task.msg.total /\ task.msg.total \in Nat
  BY <1>2, SenderAssumption DEF LoopInv
<1>4. Acked = task.msg.total /\ Acked < HeaderBits
  BY <1>1, <1>2, <1>3 DEF Acked
<1>. QED
  BY Zenon, <1>1, <1>2, <1>4 DEF AssemblyInv

\* Every step keeps a message reported sent among those that arrived.
LEMMA AnswerKept ==
  ASSUME IInv, LinkTypes, LoopInv, TokenInv, FlightInv, AssemblyInv, AnswerInv, [LinkNext]_linkVars
  PROVE  AnswerInv'
<1> SUFFICES ASSUME ~ Untimely', NEW c \in Callers, Answered(c)',
                    fate'[msg'[c].id] = "sent", msg'[c].total < HeaderBits
             PROVE  Arrived(msg[c].id)'
  BY Zenon DEF AnswerInv
<1>0. TypeOK /\ ~ Untimely /\ msg'[c] = msg[c] /\ msg[c] \in Messages
  BY HappenedStays, AnsweredBefore DEF IInv
<1>1. Arrived(msg[c].id)
  <2>1. CASE Answered(c) /\ fate'[msg[c].id] = fate[msg[c].id]
    BY Zenon, <1>0, <2>1 DEF AnswerInv
  <2>2. CASE /\ TaskNext /\ StopLoop /\ task.msg = msg[c]
             /\ fate' = [fate EXCEPT ![msg[c].id] = Outcome(task)]
    <3>1. Outcome(task) = "sent"
      <4>1. msg[c].id \in MsgIds /\ fate \in [MsgIds -> Fates]
        BY <1>0 DEF Messages, TypeOK, GhostTypeOK
      <4>2. fate'[msg[c].id] = Outcome(task)
        BY <2>2, <4>1
      <4>. QED
        BY <1>0, <4>2
    <3>2. Arrived(task.msg.id)
      <4>1. task.msg.total < HeaderBits
        BY <1>0, <2>2
      <4>. QED
        BY Zenon, <1>0, <2>2, <3>1, <4>1, SentArrived
    <3>. QED
      BY Zenon, <2>2, <3>2
  <2>. QED
    BY <2>1, <2>2, AnsweredBefore
<1>2. ASSUME NEW id, id = msg[c].id PROVE Arrived(id)'
  BY Zenon, <1>1, <1>2, ArrivedStays
<1>. QED
  BY Zenon, <1>0, <1>2 DEF Arrived

-----------------------------------------------------------------------------
(* Whole messages.                                                         *)

\* A buffer all of whose places hold one message is whole.
LEMMA OneSource ==
  ASSUME NEW b, NEW id \in MsgIds, 1 \in DOMAIN b, \A k \in DOMAIN b : b[k] = id
  PROVE  Whole(b)
<1>1. Sources(b) = {id}
  BY DEF Sources
<1>2. Cardinality({id}) = 1
  BY FS_Singleton
<1>3. 0 \notin {id}
  BY DEF MsgIds
<1>. QED
  BY Zenon, <1>1, <1>2, <1>3 DEF Whole

\* The packet looked at is stored after the ones before it.
LEMMA StoredWhole ==
  ASSUME FrameTypes, BufferTypes, rx.pc = "decode",
         \/ rx.frame.pk = 1
         \/ /\ DOMAIN paket_buffer = 1 .. rx.frame.total
            /\ \A k \in 1 .. rx.frame.pk - 1 : paket_buffer[k] = rx.frame.id
  PROVE  /\ DOMAIN Buffer = 1 .. rx.frame.total
         /\ \A k \in 1 .. rx.frame.pk : Buffer[k] = rx.frame.id
         /\ rx.frame.pk = rx.frame.total => Whole(Buffer)
<1> DEFINE f == rx.frame
           b == paket_buffer
<1>0. f \in Frames /\ f.id \in MsgIds /\ f.pk \in Nat /\ f.total \in Nat /\ f.pk >= 1 /\ f.pk <= f.total
  BY FrameMembers, SenderAssumption DEF FrameTypes
<1>1. Buffer = Store(BufferFor(f), f)
  BY DEF Buffer
<1>2. \/ f.pk = 1
      \/ DOMAIN b = 1 .. f.total /\ \A k \in 1 .. f.pk - 1 : b[k] = f.id
  OBVIOUS
<1> HIDE DEF f, b
<1>3. DOMAIN Store(BufferFor(f), f) = 1 .. f.total
      /\ \A k \in 1 .. f.pk : Store(BufferFor(f), f)[k] = f.id
  <2>1. CASE f.pk = 1
    <3>1. BufferFor(f) = [k \in 1 .. f.total |-> 0]
      BY <2>1 DEF BufferFor
    <3>. QED
      BY <1>0, <2>1, <3>1 DEF Store
  <2>2. CASE f.pk # 1
    <3>1. BufferFor(f) = b
      BY <2>2 DEF BufferFor, b
    <3>2. f.pk \in DOMAIN b /\ DOMAIN b = 1 .. f.total
      BY <1>0, <1>2, <2>2
    <3>4. Store(b, f)[f.pk] = f.id /\ \A k \in DOMAIN b : k # f.pk => Store(b, f)[k] = b[k]
      BY Zenon, <3>2, StorePlaces
    <3>5. DOMAIN Store(b, f) = DOMAIN b
      BY Zenon DEF Store
    <3>. QED
      BY <1>0, <1>2, <2>2, <3>1, <3>2, <3>4, <3>5
  <2>. QED
    BY <2>1, <2>2
<1>4. f.pk = f.total => Whole(Store(BufferFor(f), f))
  <2> SUFFICES ASSUME f.pk = f.total PROVE Whole(Store(BufferFor(f), f))
    OBVIOUS
  <2> DEFINE s == Store(BufferFor(f), f)
  <2>1. 1 \in DOMAIN s /\ \A k \in DOMAIN s : s[k] = f.id
    BY <1>0, <1>3
  <2> HIDE DEF s
  <2>2. Whole(s)
    BY Zenon, <1>0, <2>1, OneSource
  <2>. QED
    BY <2>2 DEF s
<1>. QED
  BY Zenon, <1>1, <1>3, <1>4 DEF f

\* The event task does not run the callback.
LEMMA EventTaskAlone ==
  ASSUME LinkTypes, [LinkNext]_linkVars, RxTake \/ RxAck \/ RxDecode \/ RxCallbackDone
  PROVE  heard' = heard /\ (~ RxDecode => UNCHANGED <<callback_sem, paket_buffer>>)
<1>0. FrameTypes /\ BufferTypes
  BY DEF LinkTypes
<1>1. rx'.pc # rx.pc
  <2>1. RxTake \/ RxAck \/ RxCallbackDone => rx'.pc # rx.pc
    BY <1>0, RxFields
  <2>2. RxDecode => rx'.pc # rx.pc
    BY <1>0, DecodeFields
  <2>. QED
    BY <2>1, <2>2
<1>2. ~ Callback
  BY Zenon, <1>1 DEF Callback, CbStart
<1>. QED
  BY Zenon, <1>2, WhoTouchesReceiver

\* Every step keeps each packet after the ones before it, and what is handed up
\* whole.
LEMMA WholeKept ==
  ASSUME IInv, LinkTypes, LoopInv, TokenInv, FlightInv, AssemblyInv, OverlapInv, WholeInv,
         [LinkNext]_linkVars
  PROVE  WholeInv'
<1> SUFFICES ASSUME Clean' PROVE WholeInv'
  BY Zenon DEF WholeInv
<1>0. /\ TypeOK /\ FrameTypes /\ BufferTypes
      /\ Clean /\ ~ Untimely /\ "overlap" \notin happened /\ "callback" \notin happened
      /\ rx.pc # "cbwait" => callback_sem = 0
      /\ callback_sem \in {0, 1}
  BY HappenedStays DEF LinkTypes, Clean, Untimely, TokenInv
<1>1. /\ rx.pc \in {"ack", "decode"} =>
            \/ rx.frame.pk = 1
            \/ /\ DOMAIN paket_buffer = 1 .. rx.frame.total
               /\ \A k \in 1 .. rx.frame.pk - 1 : paket_buffer[k] = rx.frame.id
      /\ callback_sem = 1 => Whole(paket_buffer)
      /\ \A i \in 1 .. Len(heard) : Whole(heard[i])
  BY Zenon, <1>0 DEF WholeInv
<1>2. CASE RxTake
  <2>1. /\ rx.pc = "recv" /\ rx'.pc = "ack" /\ rx'.frame = CurrentFrame
        /\ task.pc = "ackwait" /\ ack_wait_sem = 0
    BY <1>0, <1>2, RxFields DEF FlightInv, AckMayCome
  <2>2. InLoop /\ task.ok
    BY <1>0, <2>1 DEF InLoop, OverlapInv
  <2> DEFINE id == task.msg.id
             total == task.msg.total
             n == task.pk
             b == paket_buffer
  <2>3. /\ rx'.frame.id = id /\ rx'.frame.total = total /\ rx'.frame.pk = n
        /\ n \in 1 .. total /\ total \in Nat
    BY <1>0, <2>1, <2>2, CurrentIsFrame, SenderAssumption
  <2>4. Acked = n - 1 /\ Buffer = b /\ n - 1 < total
    BY <2>1, <2>3 DEF Acked, Buffer
  <2>5. n - 1 >= 1 => DOMAIN b = 1 .. total /\ \A k \in 1 .. n - 1 : b[k] = id
    BY Zenon, <1>0, <2>2, <2>4 DEF AssemblyInv, Filled
  <2>6. heard' = heard /\ UNCHANGED <<callback_sem, paket_buffer>>
    BY Zenon, <1>2, EventTaskAlone DEF RxTake, RxDecode
  <2> HIDE DEF id, total, n, b
  <2>7. \/ rx'.frame.pk = 1
        \/ /\ DOMAIN b = 1 .. rx'.frame.total
           /\ \A k \in 1 .. rx'.frame.pk - 1 : b[k] = rx'.frame.id
    BY <2>3, <2>5
  <2>8. \/ rx'.frame.pk = 1
        \/ /\ DOMAIN paket_buffer' = 1 .. rx'.frame.total
           /\ \A k \in 1 .. rx'.frame.pk - 1 : paket_buffer'[k] = rx'.frame.id
    BY Zenon, <2>6, <2>7 DEF b
  <2>. QED
    BY Zenon, <1>1, <2>6, <2>8 DEF WholeInv
<1>3. CASE RxAck
  <2>1. rx.pc = "ack" /\ rx'.frame = rx.frame
    BY Zenon, <1>0, <1>3, RxFields
  <2>2. heard' = heard /\ UNCHANGED <<callback_sem, paket_buffer>>
    BY Zenon, <1>3, EventTaskAlone DEF RxAck
  <2>. QED
    BY Zenon, <1>1, <2>1, <2>2 DEF WholeInv
<1>4. CASE RxDecode
  <2>1. rx.pc = "decode" /\ callback_sem = 0 /\ paket_buffer' = Buffer /\ rx'.pc \notin {"ack", "decode"}
    BY <1>0, <1>4, DecodeFields
  <2>2. heard' = heard
    BY Zenon, <1>4, EventTaskAlone
  <2>3. callback_sem' = 1 => rx.frame.pk = rx.frame.total
    <3>1. callback_sem' = 1 => Complete(rx.frame) /\ rx.frame \in Frames
      BY <1>0, <1>4, <2>1, DecodeFields
    <3>. QED
      BY <3>1, HeaderRange
  <2>4. callback_sem' = 1 => Whole(Buffer)
    BY Zenon, <1>0, <1>1, <2>1, <2>3, StoredWhole
  <2>5. callback_sem' = 1 => Whole(paket_buffer)'
    BY Zenon, <2>1, <2>4 DEF Whole, Sources
  <2>6. \A i \in 1 .. Len(heard') : Whole(heard'[i])
    BY Zenon, <1>1, <2>2
  <2>. QED
    BY Zenon, <2>1, <2>5, <2>6 DEF WholeInv, Whole, Sources
<1>5. CASE Callback
  <2>1. /\ callback_sem = 1 /\ callback_sem' = 0 /\ heard' = Append(heard, paket_buffer)
        /\ UNCHANGED <<rx, paket_buffer>>
    BY Zenon, <1>5 DEF Callback, CbStart
  <2>2. rx.pc = "cbwait" /\ Whole(paket_buffer) /\ paket_buffer \in Buffers /\ heard \in Seq(Buffers)
    BY <1>0, <1>1, <2>1 DEF BufferTypes
  <2>3. ASSUME NEW i \in 1 .. Len(heard') PROVE Whole(heard'[i])
    <3>1. heard'[i] = paket_buffer \/ (i \in 1 .. Len(heard) /\ heard'[i] = heard[i])
      BY <2>1, <2>2
    <3>. QED
      BY Zenon, <1>1, <2>2, <3>1
  <2>. QED
    BY <2>1, <2>2, <2>3 DEF WholeInv, Whole, Sources
<1>6. CASE CallbackTimeout
  BY Zenon, <1>6, Noted DEF Clean
<1>7. CASE RxCallbackDone
  <2>1. rx'.pc = "recv"
    BY Zenon, <1>7, RxFields
  <2>2. heard' = heard /\ UNCHANGED <<callback_sem, paket_buffer>>
    BY Zenon, <1>7, EventTaskAlone DEF RxCallbackDone
  <2>. QED
    BY <1>1, <2>1, <2>2 DEF WholeInv, Whole, Sources
<1>8. CASE UNCHANGED <<rx, callback_sem, paket_buffer, heard>>
  BY Zenon, <1>1, <1>8 DEF WholeInv
<1>. QED
  BY Zenon, <1>2, <1>3, <1>4, <1>5, <1>6, <1>7, <1>8, WhoTouchesReceiver

\* Who takes a message further: Enter, Enqueue and the task's TaskReceive.
LEMMA CallerShape ==
  ASSUME IInv, NEW d \in Callers, LinkCall(d) \/ LinkCallerStep(d) \/ CallTimeout(d)
  PROVE  \/ \E n \in 1 .. MaxPk : SenderEnter(d, n)
         \/ Enqueue(d)
         \/ /\ send_queue' = send_queue /\ calls' = calls
            /\ \A c \in Callers : Waiting(c)' => Waiting(c) /\ msg'[c] = msg[c]
<1>0. TypeOK
  BY DEF IInv
<1>1. CASE SenderBusy(d) \/ (CallerStep(d) /\ ~ Enqueue(d))
  <2>1. send_queue' = send_queue /\ calls' = calls
    BY Zenon, <1>1 DEF SenderBusy, CallerStep, SetBusy, CreateSem, ClearError, TakeSem, Completed,
       WaitTimeout, WaitOnFreed, DeleteSem, NullSem, ReadError, Release, ghosts
  <2>2. \A c \in Callers : Waiting(c)' => Waiting(c) /\ msg'[c] = msg[c]
    BY <1>0, <1>1 DEF TypeOK, CallerTypeOK, SenderBusy, CallerStep, SetBusy, CreateSem, ClearError,
       TakeSem, Completed, WaitTimeout, WaitOnFreed, DeleteSem, NullSem, ReadError, Release, At,
       callVars, Waiting
  <2>. QED
    BY <2>1, <2>2
<1>. QED
  BY Zenon, <1>1, CallerOfLink

\* What entering the sender does: a fresh identifier, and the queue untouched.
LEMMA EnterShape ==
  ASSUME TypeOK, IdInv, NEW d \in Callers, NEW n \in 1 .. MaxPk, SenderEnter(d, n)
  PROVE  /\ send_queue' = send_queue /\ calls' = calls + 1 /\ msg'[d].id = calls + 1
         /\ \A c \in Callers \ {d} : Waiting(c)' => Waiting(c) /\ msg'[c] = msg[c]
         /\ \A c \in Callers : msg[c].id <= calls /\ msg[c].id \in Nat
         /\ calls \in Nat
<1>1. /\ pc' = [pc EXCEPT ![d] = "set"] /\ msg' = [msg EXCEPT ![d] = [id |-> calls + 1, total |-> n]]
      /\ calls' = calls + 1 /\ send_queue' = send_queue
  BY DEF SenderEnter, At
<1>2. ASSUME NEW c \in Callers PROVE msg[c].id <= calls /\ msg[c].id \in Nat
  <2>1. msg[c] \in Messages \union {NoMsg}
    BY DEF TypeOK, CallerTypeOK
  <2>2. msg[c].id \in Nat
    BY <2>1 DEF Messages, MsgIds, NoMsg
  <2>. QED
    BY <2>2 DEF IdInv
<1>. QED
  BY <1>1, <1>2 DEF TypeOK, CallerTypeOK, GhostTypeOK, Waiting

\* Putting a message on the queue appends it at most, and its caller waits no
\* more.
LEMMA EnqueueShape ==
  ASSUME TypeOK, NEW d \in Callers, Enqueue(d)
  PROVE  /\ Waiting(d) /\ calls' = calls /\ msg' = msg
         /\ \A c \in Callers : Waiting(c)' => c # d /\ Waiting(c)
         /\ send_queue' = send_queue \/ send_queue' = Append(send_queue, msg[d])
         /\ send_queue \in Seq(Messages) /\ msg[d] \in Messages
<1>1. /\ pc[d] = "queue" /\ pc' = [pc EXCEPT ![d] = "take"] /\ msg' = msg /\ calls' = calls
      /\ send_queue' = send_queue \/ send_queue' = Append(send_queue, msg[d])
  BY Zenon DEF Enqueue, At
<1>. QED
  BY <1>1 DEF Waiting, TypeOK, CallerTypeOK, LinkTypeOK

\* Of the task's steps, only TaskReceive gives it another message.
LEMMA TaskKeepsMessage ==
  ASSUME TypeOK, TaskStep, ~ TaskReceive
  PROVE  /\ task'.pc # "recv" => task.pc # "recv" /\ task'.msg = task.msg
         /\ task'.msg.id = task.msg.id \/ task'.msg.id = 0
<1>1. CASE TaskCheck \/ TaskGive
  <2>1. task' = IdleTask \/ (task' = [task EXCEPT !.pc = "give"] /\ task.pc = "check")
    BY <1>1 DEF TaskCheck, TaskGive
  <2>. QED
    BY <2>1 DEF IdleTask, NoMsg, TypeOK, TaskTypeOK, TaskRecord
<1>2. CASE TaskWrite \/ TaskAck \/ TaskNoAck \/ TaskCount
  BY <1>2, TaskFields DEF Same
<1>3. CASE TaskNext
  BY <1>3, TaskFields
<1>. QED
  BY Zenon, <1>1, <1>2, <1>3 DEF TaskStep

\* The queue is a sequence of messages with numeric identifiers.
LEMMA QueueMembers ==
  ASSUME TypeOK
  PROVE  send_queue \in Seq(Messages) /\ \A i \in 1 .. Len(send_queue) : send_queue[i].id \in Nat
<1>1. send_queue \in Seq(Messages)
  BY DEF TypeOK, LinkTypeOK
<1>2. ASSUME NEW i \in 1 .. Len(send_queue) PROVE send_queue[i].id \in Nat
  <2>1. send_queue[i] \in Messages
    BY <1>1
  <2>. QED
    BY <2>1 DEF Messages, MsgIds
<1>. QED
  BY <1>1, <1>2

\* The calls number their messages, and a message is queued once.
LEMMA DistinctKept ==
  ASSUME IInv, LoopInv, DistinctInv, [LinkNext]_linkVars
  PROVE  DistinctInv'
<1>0. TypeOK /\ IdInv /\ send_queue \in Seq(Messages)
  BY QueueMembers DEF IInv
<1>1. /\ \A c, d \in Callers : c # d /\ Waiting(c) /\ Waiting(d) => msg[c].id # msg[d].id
      /\ \A c \in Callers : Waiting(c) => \A i \in 1 .. Len(send_queue) : send_queue[i].id # msg[c].id
      /\ \A c \in Callers : Waiting(c) => (task.pc # "recv" => task.msg.id # msg[c].id)
      /\ \A i, j \in 1 .. Len(send_queue) : i # j => send_queue[i].id # send_queue[j].id
      /\ \A i \in 1 .. Len(send_queue) : task.pc # "recv" => task.msg.id # send_queue[i].id
      /\ \A i \in 1 .. Len(send_queue) : send_queue[i].id <= calls
      /\ task.msg.id <= calls
  BY DEF DistinctInv
<1>2. task.msg.id \in Nat /\ calls \in Nat
  <2>1. task.msg \in Messages \union {NoMsg} /\ calls \in Nat
    BY <1>0 DEF TypeOK, TaskTypeOK, TaskRecord, GhostTypeOK
  <2>. QED
    BY <2>1 DEF Messages, MsgIds, NoMsg
<1>3. ASSUME NEW d \in Callers, LinkCall(d) \/ LinkCallerStep(d) \/ CallTimeout(d)
      PROVE  DistinctInv'
  <2>0. task' = task
    BY Zenon, <1>3, CallerAlone
  <2>1. CASE \E n \in 1 .. MaxPk : SenderEnter(d, n)
    <3>1. /\ send_queue' = send_queue /\ calls' = calls + 1 /\ msg'[d].id = calls + 1
          /\ \A c \in Callers \ {d} : Waiting(c)' => Waiting(c) /\ msg'[c] = msg[c]
          /\ \A c \in Callers : msg[c].id <= calls /\ msg[c].id \in Nat
      BY Zenon, <1>0, <2>1, EnterShape
    <3>2. \A i \in 1 .. Len(send_queue) : send_queue[i].id <= calls /\ send_queue[i].id \in Nat
      BY Zenon, <1>0, <1>1, QueueMembers
    <3>3. \A c, e \in Callers : c # e /\ Waiting(c)' /\ Waiting(e)' => msg'[c].id # msg'[e].id
      BY <1>1, <1>2, <3>1
    <3>4. \A c \in Callers : Waiting(c)' => \A i \in 1 .. Len(send_queue') : send_queue'[i].id # msg'[c].id
      BY <1>1, <1>2, <3>1, <3>2
    <3>5. \A c \in Callers : Waiting(c)' => (task'.pc # "recv" => task'.msg.id # msg'[c].id)
      BY <1>1, <1>2, <2>0, <3>1
    <3>6. /\ \A i \in 1 .. Len(send_queue') : send_queue'[i].id <= calls'
          /\ task'.msg.id <= calls'
      BY <1>1, <1>2, <2>0, <3>1, <3>2
    <3>. QED
      BY ZenonT(60), <1>1, <2>0, <3>1, <3>3, <3>4, <3>5, <3>6 DEF DistinctInv
  <2>2. CASE Enqueue(d)
    <3>1. /\ Waiting(d) /\ calls' = calls /\ msg' = msg
          /\ \A c \in Callers : Waiting(c)' => c # d /\ Waiting(c)
          /\ send_queue' = send_queue \/ send_queue' = Append(send_queue, msg[d])
          /\ msg[d] \in Messages
      BY Zenon, <1>0, <2>2, EnqueueShape
    <3>2. CASE send_queue' = send_queue
      BY ZenonT(60), <1>1, <2>0, <3>1, <3>2 DEF DistinctInv
    <3>3. CASE send_queue' = Append(send_queue, msg[d])
      <4>1. /\ Len(send_queue') = Len(send_queue) + 1 /\ Len(send_queue) \in Nat
            /\ send_queue'[Len(send_queue) + 1] = msg[d]
            /\ \A i \in 1 .. Len(send_queue) : send_queue'[i] = send_queue[i]
        BY <1>0, <3>1, <3>3
      <4>2. \A i \in 1 .. Len(send_queue') :
               \/ send_queue'[i] = msg[d] /\ i = Len(send_queue) + 1
               \/ i \in 1 .. Len(send_queue) /\ send_queue'[i] = send_queue[i]
        BY <4>1
      <4>3. msg[d].id <= calls
        BY <1>0 DEF IdInv
      <4>4. \A i, j \in 1 .. Len(send_queue') : i # j => send_queue'[i].id # send_queue'[j].id
        <5>1. \A i \in 1 .. Len(send_queue) : send_queue[i].id # msg[d].id
          BY Zenon, <1>1, <3>1
        <5> SUFFICES ASSUME NEW i \in 1 .. Len(send_queue'), NEW j \in 1 .. Len(send_queue'), i # j
                     PROVE  send_queue'[i].id # send_queue'[j].id
          OBVIOUS
        <5>2. CASE i = Len(send_queue) + 1 /\ j = Len(send_queue) + 1
          BY <5>2
        <5>3. CASE i \in 1 .. Len(send_queue) /\ j \in 1 .. Len(send_queue)
          BY Zenon, <1>1, <4>1, <5>3
        <5>4. CASE i \in 1 .. Len(send_queue) /\ j = Len(send_queue) + 1
          BY Zenon, <4>1, <5>1, <5>4
        <5>5. CASE i = Len(send_queue) + 1 /\ j \in 1 .. Len(send_queue)
          BY Zenon, <4>1, <5>1, <5>5
        <5>. QED
          BY <4>2, <5>2, <5>3, <5>4, <5>5
      <4>5. ASSUME NEW i \in 1 .. Len(send_queue')
            PROVE  /\ \A c \in Callers : Waiting(c)' => send_queue'[i].id # msg'[c].id
                   /\ task'.pc # "recv" => task'.msg.id # send_queue'[i].id
                   /\ send_queue'[i].id <= calls'
        <5>1. CASE send_queue'[i] = msg[d]
          BY Zenon, <1>1, <2>0, <3>1, <4>3, <5>1
        <5>2. CASE i \in 1 .. Len(send_queue) /\ send_queue'[i] = send_queue[i]
          BY Zenon, <1>1, <2>0, <3>1, <5>2
        <5>. QED
          BY <4>2, <5>1, <5>2
      <4>. QED
        BY Zenon, <1>1, <2>0, <3>1, <4>4, <4>5 DEF DistinctInv
    <3>. QED
      BY <3>1, <3>2, <3>3
  <2>3. CASE /\ send_queue' = send_queue /\ calls' = calls
             /\ \A c \in Callers : Waiting(c)' => Waiting(c) /\ msg'[c] = msg[c]
    BY ZenonT(60), <1>1, <2>0, <2>3 DEF DistinctInv
  <2>. QED
    BY Zenon, <1>3, <2>1, <2>2, <2>3, CallerShape
<1>4. CASE SenderTaskStep \/ Transmit \/ AckTimeout
  <2>0. TaskStep /\ UNCHANGED <<pc, msg, calls>>
    BY Zenon, <1>4, TaskOfLink, WhatTaskTouches
  <2>1. CASE TaskReceive
    <3>1. /\ send_queue # <<>> /\ send_queue' = Tail(send_queue)
          /\ task'.msg = Head(send_queue)
      BY Zenon, <1>0, <2>1, ReceiveFields
    <3>2. /\ Len(send_queue) \in Nat /\ Len(send_queue') = Len(send_queue) - 1
          /\ 1 \in 1 .. Len(send_queue) /\ Head(send_queue) = send_queue[1]
          /\ \A i \in 1 .. Len(send_queue') :
               send_queue'[i] = send_queue[i + 1] /\ i + 1 \in 1 .. Len(send_queue) /\ i + 1 # 1
      BY <1>0, <3>1
    <3>4. ASSUME NEW i \in 1 .. Len(send_queue'), NEW j \in 1 .. Len(send_queue'), i # j
          PROVE  send_queue'[i].id # send_queue'[j].id
      <4>1. i + 1 # j + 1
        BY <3>4
      <4>. QED
        BY Zenon, <1>1, <3>2, <4>1
    <3>5. \A c \in Callers : Waiting(c)' => Waiting(c) /\ msg'[c] = msg[c]
      BY Zenon, <2>0 DEF Waiting
    <3>6. ASSUME NEW c \in Callers, Waiting(c)'
          PROVE  /\ \A i \in 1 .. Len(send_queue') : send_queue'[i].id # msg'[c].id
                 /\ task'.msg.id # msg'[c].id
      <4>1. \A i \in 1 .. Len(send_queue) : send_queue[i].id # msg'[c].id
        BY Zenon, <1>1, <3>5, <3>6
      <4>. QED
        BY Zenon, <3>1, <3>2, <4>1
    <3>7. /\ \A i \in 1 .. Len(send_queue') : task'.msg.id # send_queue'[i].id
          /\ \A i \in 1 .. Len(send_queue') : send_queue'[i].id <= calls'
          /\ task'.msg.id <= calls'
      BY ZenonT(60), <1>1, <2>0, <3>1, <3>2
    <3>. QED
      BY ZenonT(60), <1>1, <3>4, <3>5, <3>6, <3>7 DEF DistinctInv
  <2>2. CASE ~ TaskReceive
    <3>1. send_queue' = send_queue
      BY Zenon, <2>0, <2>2, WhatTaskTouches
    <3>2. /\ task'.pc # "recv" => task.pc # "recv" /\ task'.msg = task.msg
          /\ task'.msg.id = task.msg.id \/ task'.msg.id = 0
      BY Zenon, <1>0, <2>0, <2>2, TaskKeepsMessage
    <3>3. task'.msg.id <= calls
      BY <1>1, <1>2, <3>2
    <3>. QED
      BY ZenonT(60), <1>1, <2>0, <3>1, <3>2, <3>3 DEF DistinctInv, Waiting
  <2>. QED
    BY <2>1, <2>2
<1>5. CASE LinkReboot
  <2>1. /\ send_queue' = <<>> /\ task'.pc = "recv" /\ task'.msg.id = 0 /\ calls' = calls
        /\ \A c \in Callers : ~ Waiting(c)'
    BY <1>5 DEF LinkReboot, Reboot, IdleTask, NoMsg, Waiting
  <2>. QED
    BY <1>2, <2>1 DEF DistinctInv
<1>6. CASE UNCHANGED <<pc, msg, calls, send_queue, task>>
  BY ZenonT(60), <1>1, <1>6 DEF DistinctInv, Waiting
<1>7. CASE Acknowledge
  BY Zenon, <1>6, <1>7, Noted DEF AckHandler, vars, callVars, ghosts
<1>. QED
  BY Zenon, <1>3, <1>4, <1>5, <1>6, <1>7, SenderAlone DEF LinkNext, vars

\* None of these steps makes an acknowledgement possible that was not.
LEMMA AckMayComeStays ==
  ASSUME LinkTypes,
         Flush \/ CallbackTimeout \/ Callback \/ CallbackReturns \/ ReceiverTaskStep \/ UNCHANGED linkVars
  PROVE  AckMayCome' => AckMayCome
<1>1. CASE RxTake
  BY <1>1 DEF RxTake, AckMayCome
<1>2. CASE RxDecode \/ RxCallbackDone \/ CallbackTimeout
  <2>1. rx'.pc # "ack" /\ rx_buf' = rx_buf
    BY <1>2, DecodeFields, RxFields DEF LinkTypes, RxDecode, RxCallbackDone, CallbackTimeout,
       RxCallbackTimeout, IdleRx, AfterComplete
  <2>. QED
    BY Zenon, <2>1 DEF AckMayCome
<1>3. CASE Flush
  BY Zenon, <1>3 DEF Flush, RxFlush, AckMayCome
<1>4. CASE UNCHANGED <<rx, rx_buf>>
  BY Zenon, <1>4 DEF AckMayCome
<1>. QED
  BY Zenon, <1>1, <1>2, <1>3, <1>4 DEF ReceiverTaskStep, Callback, CbStart, CallbackReturns, CbEnd,
     linkVars, rxVars

\* The task never takes back what was acknowledged.
LEMMA AckedGrows ==
  ASSUME IInv, LinkTypes, LoopInv, FlightInv, [LinkNext]_linkVars, ~ Untimely', ~ TaskReceive,
         InLoop', Acked' < task'.msg.total, ~ panic' \/ AckMayCome'
  PROVE  InLoop /\ task'.msg = task.msg /\ Acked < task.msg.total /\ (~ panic \/ AckMayCome)
<1>0. /\ TypeOK /\ FrameTypes /\ ~ Untimely /\ ack_wait_sem \in {0, 1}
      /\ task.pc # "ackwait" => ack_wait_sem = 0
      /\ task.pk \in Nat
  BY HappenedStays DEF LinkTypes, TypeOK, LinkTypeOK, FlightInv, TaskTypeOK, TaskRecord
<1>1. ASSUME ~ panic, NEW c \in Callers, LinkCall(c) \/ LinkCallerStep(c) \/ CallTimeout(c)
      PROVE  InLoop /\ task'.msg = task.msg /\ Acked < task.msg.total /\ ~ panic
  BY Zenon, <1>1, CallerAlone DEF InLoop, Acked
<1>2. CASE ~ panic /\ (SenderTaskStep \/ Transmit \/ AckTimeout)
  <2>0. TaskStep
    BY Zenon, <1>2, TaskOfLink
  <2>1. CASE TaskWrite
    <3>1. ack_wait_sem = 0 /\ ack_wait_sem' = 0 /\ task.sended
      <4>1. task.pc = "write" /\ task.sended
        BY <2>1 DEF TaskWrite, LoopInv
      <4>. QED
        BY <1>0, <2>1, <4>1 DEF TaskWrite
    <3>2. /\ task.pc = "write" /\ task'.pc \in {"ackwait", "count"} /\ task'.msg = task.msg
          /\ task'.pk = task.pk /\ task'.sended = task.sended
      BY Zenon, <1>0, <2>1, TaskFields DEF Same
    <3>. QED
      BY <1>2, <3>1, <3>2 DEF InLoop, Acked
  <2>2. CASE TaskAck
    <3>1. /\ task.pc = "ackwait" /\ task'.pc = "count" /\ task'.msg = task.msg
          /\ task'.pk = task.pk /\ ~ task'.sended
      BY Zenon, <1>0, <2>2, TaskFields DEF Same
    <3>2. ack_wait_sem = 1
      BY <2>2 DEF TaskAck
    <3>. QED
      BY <1>2, <3>1, <3>2 DEF InLoop, Acked
  <2>3. CASE TaskNoAck
    <3>1. /\ task.pc = "ackwait" /\ task'.pc = "count" /\ task'.msg = task.msg
          /\ task'.pk = task.pk /\ task'.sended = task.sended
      BY Zenon, <1>0, <2>3, TaskFields DEF Same
    <3>2. ack_wait_sem = 0 /\ task.sended
      BY <2>3, <3>1 DEF TaskNoAck, LoopInv
    <3>. QED
      BY <1>2, <3>1, <3>2 DEF InLoop, Acked
  <2>4. CASE TaskCount
    <3>1. /\ task.pc = "count" /\ task'.msg = task.msg /\ task'.pk = task.pk
          /\ \/ task'.pc = "next"
             \/ task'.pc = "write" /\ task.sended
      BY Zenon, <1>0, <2>4, TaskFields DEF Same
    <3>2. Acked <= Acked'
      BY <1>0, <3>1 DEF Acked
    <3>3. Acked \in Int /\ task.msg.total \in Nat
      <4>1. task.msg.total \in Nat
        BY <3>1, SenderAssumption DEF LoopInv
      <4>. QED
        BY <1>0, <4>1 DEF Acked
    <3>4. Acked' \in Int
      BY <1>0, <3>1 DEF Acked
    <3>. QED
      BY <1>2, <3>1, <3>2, <3>3, <3>4 DEF InLoop
  <2>5. CASE TaskNext
    <3>1. /\ task.pc = "next" /\ task'.msg = task.msg /\ task'.pc = "write"
          /\ task'.pk = task.pk + 1
      BY <1>0, <2>5, TaskFields DEF InLoop
    <3>. QED
      BY <1>0, <1>2, <3>1 DEF InLoop, Acked
  <2>6. CASE TaskCheck \/ TaskGive
    BY <1>0, <2>6, TaskFields DEF InLoop
  <2>. QED
    BY <2>0, <2>1, <2>2, <2>3, <2>4, <2>5, <2>6 DEF TaskStep
<1>3. CASE LinkReboot
  BY <1>3 DEF LinkReboot, Reboot, IdleTask, InLoop
<1>4. CASE Acknowledge
  <2>1. RxAck /\ task' = task
    BY Zenon, <1>4, Noted DEF vars, AckHandler
  <2>2. rx.pc = "ack"
    BY Zenon, <1>0, <2>1, RxFields
  <2>3. AckMayCome /\ task.pc = "ackwait" /\ ack_wait_sem = 0 /\ InLoop
    BY <1>0, <2>2 DEF AckMayCome, FlightInv, InLoop
  <2>4. task.pk \in 1 .. task.msg.total /\ task.msg.total \in Nat
    BY <2>3, SenderAssumption DEF LoopInv
  <2>5. Acked < task.msg.total
    BY <1>0, <2>3, <2>4 DEF Acked
  <2>. QED
    BY <2>1, <2>3, <2>5
<1>5. CASE Flush \/ CallbackTimeout \/ Callback \/ CallbackReturns \/ ReceiverTaskStep \/ UNCHANGED linkVars
  <2>1. UNCHANGED <<task, ack_wait_sem, panic>> /\ (AckMayCome' => AckMayCome)
    BY Zenon, <1>5, SenderAlone, AckMayComeStays
  <2>. QED
    BY Zenon, <2>1 DEF InLoop, Acked
<1>. QED
  BY Zenon, <1>1, <1>2, <1>3, <1>4, <1>5 DEF LinkNext

\* What will not be sent any more never will be.
LEMMA SpentStays ==
  ASSUME IInv, LinkTypes, LoopInv, FlightInv, DistinctInv, [LinkNext]_linkVars, ~ Untimely',
         NEW id \in Nat, Spent(id)
  PROVE  Spent(id)'
<1>0. TypeOK /\ IdInv /\ send_queue \in Seq(Messages)
  BY QueueMembers DEF IInv
<1>1. /\ id <= calls
      /\ \A c \in Callers : Waiting(c) => msg[c].id # id
      /\ \A i \in 1 .. Len(send_queue) : send_queue[i].id # id
      /\ InLoop /\ Acked < task.msg.total /\ (~panic \/ AckMayCome) => task.msg.id # id
  BY Zenon DEF Spent
<1>2. CASE TaskReceive
  <2>1. /\ send_queue # <<>> /\ send_queue' = Tail(send_queue)
        /\ task'.msg = Head(send_queue)
    BY Zenon, <1>0, <1>2, ReceiveFields
  <2>2. /\ 1 \in 1 .. Len(send_queue) /\ Head(send_queue) = send_queue[1]
        /\ \A i \in 1 .. Len(send_queue') :
              send_queue'[i] = send_queue[i + 1] /\ i + 1 \in 1 .. Len(send_queue)
    BY <1>0, <2>1
  <2>3. UNCHANGED <<pc, msg, calls>>
    BY Zenon, <1>2, WhatTaskTouches DEF TaskStep
  <2>. QED
    BY Zenon, <1>1, <2>1, <2>2, <2>3 DEF Spent, Waiting
<1>3. ASSUME ~ TaskReceive
      PROVE  InLoop' /\ Acked' < task'.msg.total /\ (~panic' \/ AckMayCome') => task'.msg.id # id
  BY Zenon, <1>1, <1>3, AckedGrows
<1>4. ASSUME NEW d \in Callers, LinkCall(d) \/ LinkCallerStep(d) \/ CallTimeout(d)
      PROVE  /\ id <= calls' /\ ~ TaskReceive
             /\ \A c \in Callers : Waiting(c)' => msg'[c].id # id
             /\ \A i \in 1 .. Len(send_queue') : send_queue'[i].id # id
  <2>0. ~ TaskReceive
    <3>1. task' = task
      BY Zenon, <1>4, CallerAlone
    <3>2. TaskReceive => task'.pc = "write" /\ task.pc = "recv"
      BY Zenon, <1>0, ReceiveFields
    <3>. QED
      BY <3>1, <3>2
  <2>1. CASE \E n \in 1 .. MaxPk : SenderEnter(d, n)
    <3>1. /\ send_queue' = send_queue /\ calls' = calls + 1 /\ msg'[d].id = calls + 1
          /\ \A c \in Callers \ {d} : Waiting(c)' => Waiting(c) /\ msg'[c] = msg[c]
          /\ calls \in Nat
      BY Zenon, <1>0, <2>1, EnterShape
    <3>2. id <= calls' /\ msg'[d].id # id
      BY <1>1, <3>1
    <3>. QED
      BY Zenon, <1>1, <2>0, <3>1, <3>2
  <2>2. CASE Enqueue(d)
    <3>1. /\ Waiting(d) /\ calls' = calls /\ msg' = msg
          /\ \A c \in Callers : Waiting(c)' => c # d /\ Waiting(c)
          /\ send_queue' = send_queue \/ send_queue' = Append(send_queue, msg[d])
          /\ msg[d] \in Messages
      BY Zenon, <1>0, <2>2, EnqueueShape
    <3>2. \A i \in 1 .. Len(send_queue') :
             send_queue'[i] = msg[d] \/ (i \in 1 .. Len(send_queue) /\ send_queue'[i] = send_queue[i])
      BY <1>0, <3>1
    <3>3. \A i \in 1 .. Len(send_queue') : send_queue'[i].id # id
      BY Zenon, <1>1, <3>1, <3>2
    <3>. QED
      BY Zenon, <1>1, <2>0, <3>1, <3>3
  <2>3. CASE /\ send_queue' = send_queue /\ calls' = calls
             /\ \A c \in Callers : Waiting(c)' => Waiting(c) /\ msg'[c] = msg[c]
    BY Zenon, <1>1, <2>0, <2>3
  <2>. QED
    BY Zenon, <1>4, <2>1, <2>2, <2>3, CallerShape DEF IInv
<1>5. CASE (SenderTaskStep \/ Transmit \/ AckTimeout) /\ ~ TaskReceive
  <2>1. UNCHANGED <<pc, msg, calls, send_queue>>
    BY Zenon, <1>5, TaskOfLink, WhatTaskTouches
  <2>. QED
    BY Zenon, <1>1, <1>3, <1>5, <2>1 DEF Spent, Waiting
<1>6. CASE LinkReboot
  <2>1. /\ send_queue' = <<>> /\ ~ InLoop' /\ calls' = calls
        /\ \A c \in Callers : ~ Waiting(c)'
    BY <1>6 DEF LinkReboot, Reboot, IdleTask, InLoop, Waiting
  <2>. QED
    BY <1>1, <2>1 DEF Spent
<1>7. CASE UNCHANGED <<pc, msg, calls, send_queue>> /\ ~ TaskReceive
  BY Zenon, <1>1, <1>3, <1>7 DEF Spent, Waiting
<1>8. CASE Acknowledge
  BY Zenon, <1>2, <1>7, <1>8, Noted DEF AckHandler, vars, callVars, ghosts
<1>9. ASSUME NEW d \in Callers, LinkCall(d) \/ LinkCallerStep(d) \/ CallTimeout(d)
      PROVE  Spent(id)'
  BY Zenon, <1>3, <1>4, <1>9 DEF Spent
<1>. QED
  BY Zenon, <1>2, <1>5, <1>6, <1>7, <1>8, <1>9, SenderAlone DEF LinkNext, vars

\* A finished message is known by the first place of its buffer.
LEMMA FirstPlace ==
  ASSUME LinkTypes, TokenInv, WholeInv, Clean, RxDecode, callback_sem' = 1
  PROVE  /\ rx.pc = "decode" /\ Complete(rx.frame) /\ rx.frame \in Frames
         /\ paket_buffer'[1] = rx.frame.id
<1>0. /\ FrameTypes /\ BufferTypes /\ "callback" \notin happened
      /\ rx.pc # "cbwait" => callback_sem = 0
  BY DEF LinkTypes, Clean, Untimely, TokenInv
<1>1. /\ rx.pc = "decode" /\ rx.frame \in Frames /\ Complete(rx.frame) /\ paket_buffer' = Buffer
  BY <1>0, DecodeFields
<1>2. \A k \in 1 .. rx.frame.pk : Buffer[k] = rx.frame.id
  BY Zenon, <1>0, <1>1, StoredWhole DEF WholeInv
<1>3. 1 \in 1 .. rx.frame.pk
  BY <1>1, FrameMembers, SenderAssumption
<1>. QED
  BY Zenon, <1>1, <1>2, <1>3

\* Only the pulse for a last packet lets a message out.
LEMMA IsOutStep ==
  ASSUME IInv, LinkTypes, LoopInv, TokenInv, WholeInv, [LinkNext]_linkVars, Clean',
         NEW id, IsOut(id)'
  PROVE  IsOut(id) \/ (RxAck /\ Complete(rx.frame) /\ id = rx.frame.id)
<1>0. /\ FrameTypes /\ BufferTypes
      /\ Clean /\ "callback" \notin happened
      /\ rx.pc # "cbwait" => callback_sem = 0
  BY HappenedStays DEF LinkTypes, Clean, Untimely, TokenInv
<1>1. CASE RxTake \/ RxCallbackDone
  <2>1. rx'.pc # "decode" /\ ~ RxDecode
    BY <1>1, RxFields DEF RxDecode, RxTake, RxCallbackDone
  <2>2. heard' = heard /\ UNCHANGED <<callback_sem, paket_buffer>>
    BY Zenon, <1>1, <2>1, EventTaskAlone
  <2>. QED
    BY Zenon, <2>1, <2>2 DEF IsOut
<1>2. CASE RxAck
  <2>1. rx.pc = "ack" /\ rx'.pc = "decode" /\ rx'.frame = rx.frame /\ ~ RxDecode
    BY <1>0, <1>2, RxFields DEF RxDecode
  <2>2. heard' = heard /\ UNCHANGED <<callback_sem, paket_buffer>>
    BY Zenon, <1>2, <2>1, EventTaskAlone
  <2>. QED
    BY Zenon, <1>2, <2>1, <2>2 DEF IsOut, Complete, Header
<1>3. CASE RxDecode
  <2>1. /\ rx.pc = "decode" /\ rx.frame \in Frames /\ callback_sem = 0 /\ rx'.pc # "decode"
        /\ paket_buffer' = Buffer /\ (callback_sem' = 1 => Complete(rx.frame))
    BY <1>0, <1>3, DecodeFields
  <2>2. heard' = heard
    BY Zenon, <1>3, EventTaskAlone
  <2>3. CASE callback_sem' = 1 /\ paket_buffer'[1] = id
    <3>1. Complete(rx.frame) /\ paket_buffer'[1] = rx.frame.id
      BY Zenon, <1>0, <1>3, <2>3, FirstPlace
    <3>. QED
      BY Zenon, <2>1, <2>3, <3>1 DEF IsOut
  <2>. QED
    BY Zenon, <2>1, <2>2, <2>3 DEF IsOut
<1>4. CASE Callback
  <2>1. /\ callback_sem = 1 /\ callback_sem' = 0 /\ heard' = Append(heard, paket_buffer)
        /\ UNCHANGED <<rx, paket_buffer>>
    BY Zenon, <1>4 DEF Callback, CbStart
  <2>2. rx.pc # "decode" /\ paket_buffer \in Buffers /\ heard \in Seq(Buffers)
    BY <1>0, <2>1 DEF BufferTypes
  <2>3. ASSUME NEW i \in 1 .. Len(heard'), heard'[i][1] = id PROVE IsOut(id)
    <3>1. heard'[i] = paket_buffer \/ (i \in 1 .. Len(heard) /\ heard'[i] = heard[i])
      BY <2>1, <2>2
    <3>. QED
      BY Zenon, <2>1, <2>3, <3>1 DEF IsOut
  <2>. QED
    BY <2>1, <2>2, <2>3 DEF IsOut
<1>5. CASE CallbackTimeout
  BY Zenon, <1>5, Noted DEF Clean
<1>6. CASE UNCHANGED <<rx, callback_sem, paket_buffer, heard>>
  BY Zenon, <1>6 DEF IsOut, Complete, Header
<1>. QED
  BY Zenon, <1>1, <1>2, <1>3, <1>4, <1>5, <1>6, WhoTouchesReceiver

\* The receiver leaves its ack state only by acknowledging.
LEMMA OnlyAcknowledge ==
  ASSUME LinkTypes, [LinkNext]_linkVars, RxAck
  PROVE  Acknowledge
<1>1. rx'.pc = "decode" /\ rx.pc = "ack"
  BY RxFields DEF LinkTypes
<1>2. ~ RxTake /\ ~ RxDecode /\ ~ RxCallbackDone /\ ~ RxCallbackTimeout /\ rx' # rx
  BY <1>1 DEF RxTake, RxDecode, RxCallbackDone, RxCallbackTimeout
<1>. QED
  BY Zenon, <1>2, CallerAlone DEF LinkNext, linkVars, rxVars, SenderTaskStep, Transmit, AckTimeout,
     LinkReboot, Flush, RxFlush, CallbackTimeout, Callback, CbStart, CallbackReturns, CbEnd,
     ReceiverTaskStep

\* The pulse for a last packet: the message was not out, and is spent.
LEMMA OutAtAck ==
  ASSUME IInv, LinkTypes, LoopInv, FlightInv, DistinctInv, FreshInv, [LinkNext]_linkVars,
         Clean', "ack" \notin happened', RxAck, Complete(rx.frame), NEW id, id = rx.frame.id
  PROVE  ~ IsOut(id) /\ Spent(id)'
<1>0. /\ TypeOK /\ FrameTypes /\ Clean /\ "ack" \notin happened /\ ~ Untimely
      /\ Acknowledge
  BY HappenedStays, OnlyAcknowledge DEF LinkTypes, Clean
<1>1. rx.pc = "ack" /\ rx'.pc = "decode" /\ rx.frame \in Frames /\ rx_buf' = rx_buf
  BY Zenon, <1>0, RxFields DEF RxAck
<1>2. /\ rx.frame = CurrentFrame /\ task.pc = "ackwait" /\ ack_wait_sem = 0 /\ InLoop
      /\ AckMayCome /\ rx_buf = <<>>
  BY <1>0, <1>1 DEF FlightInv, AckMayCome, InLoop
<1>3. /\ id = task.msg.id /\ rx.frame.total = task.msg.total /\ rx.frame.pk = task.pk
      /\ task.pk \in 1 .. task.msg.total /\ task.msg.total \in Nat
  BY <1>0, <1>2, CurrentIsFrame, SenderAssumption
<1>4. task.pk = task.msg.total
  BY Zenon, <1>1, <1>3, HeaderRange
<1>5. id \in 0 .. MaxCalls
  BY Zenon, <1>1, FrameMembers
<1>6. ~ IsOut(id)
  <2>1. Acked < task.msg.total
    BY <1>2, <1>3 DEF Acked
  <2>. QED
    BY Zenon, <1>0, <1>2, <1>3, <1>5, <2>1 DEF FreshInv, Spent
<1>7. UNCHANGED <<pc, msg, calls, send_queue, task>>
  BY Zenon, <1>0, Noted DEF AckHandler, vars, callVars, ghosts
<1>8. ~ (Acked' < task'.msg.total /\ (~ panic' \/ AckMayCome'))
  <2>1. CASE AckHandler
    <3>1. ack_wait_sem' = 1
      BY <2>1 DEF AckHandler
    <3>2. Acked' = task.msg.total
      BY <1>2, <1>4, <1>7, <3>1 DEF Acked
    <3>. QED
      BY <1>3, <1>7, <3>2
  <2>2. CASE UNCHANGED vars /\ panic
    <3>1. ~ AckMayCome' /\ panic'
      BY <1>1, <1>2, <2>2 DEF AckMayCome, vars
    <3>. QED
      BY <3>1
  <2>. QED
    BY <1>0, <2>1, <2>2, Noted
<1>9. /\ id <= calls
      /\ \A c \in Callers : Waiting(c) => msg[c].id # id
      /\ \A i \in 1 .. Len(send_queue) : send_queue[i].id # id
  BY <1>2, <1>3 DEF DistinctInv
<1>10. Spent(id)'
  BY Zenon, <1>7, <1>8, <1>9 DEF Spent, Waiting
<1>. QED
  BY <1>6, <1>10

\* Every step keeps each message handed up once, as long as no pulse is lost.
LEMMA FreshKept ==
  ASSUME IInv, LinkTypes, LoopInv, TokenInv, FlightInv, WholeInv, DistinctInv, FreshInv,
         [LinkNext]_linkVars
  PROVE  FreshInv'
<1> SUFFICES ASSUME Clean', "ack" \notin happened' PROVE FreshInv'
  BY Zenon DEF FreshInv
<1>0. /\ FrameTypes /\ BufferTypes /\ Clean /\ "ack" \notin happened /\ ~ Untimely'
      /\ "callback" \notin happened
      /\ rx.pc # "cbwait" => callback_sem = 0
      /\ callback_sem \in {0, 1}
  BY HappenedStays DEF LinkTypes, Clean, Untimely, TokenInv
<1>1. /\ \A i, j \in 1 .. Len(heard) : i # j => heard[i][1] # heard[j][1]
      /\ callback_sem = 1 => \A i \in 1 .. Len(heard) : heard[i][1] # paket_buffer[1]
      /\ rx.pc = "decode" /\ Complete(rx.frame) =>
            \A i \in 1 .. Len(heard) : heard[i][1] # rx.frame.id
      /\ \A id \in 0 .. MaxCalls : IsOut(id) => Spent(id)
  BY Zenon, <1>0 DEF FreshInv
<1>2. ASSUME NEW id \in 0 .. MaxCalls, IsOut(id)'
      PROVE  Spent(id)'
  <2>1. CASE IsOut(id)
    <3>1. id \in Nat
      BY SenderAssumption
    <3>. QED
      BY Zenon, <1>0, <1>1, <2>1, <3>1, SpentStays
  <2>2. CASE RxAck /\ Complete(rx.frame) /\ id = rx.frame.id
    BY Zenon, <1>0, <2>2, OutAtAck
  <2>. QED
    BY Zenon, <1>0, <1>2, <2>1, <2>2, IsOutStep
<1>3. /\ \A i, j \in 1 .. Len(heard') : i # j => heard'[i][1] # heard'[j][1]
      /\ callback_sem' = 1 => \A i \in 1 .. Len(heard') : heard'[i][1] # paket_buffer'[1]
      /\ rx'.pc = "decode" /\ Complete(rx'.frame) =>
            \A i \in 1 .. Len(heard') : heard'[i][1] # rx'.frame.id
  <2>1. CASE RxTake \/ RxCallbackDone
    <3>1. rx'.pc # "decode" /\ ~ RxDecode
      BY <2>1, RxFields DEF RxDecode, RxTake, RxCallbackDone
    <3>2. heard' = heard /\ UNCHANGED <<callback_sem, paket_buffer>>
      BY Zenon, <2>1, <3>1, EventTaskAlone
    <3>. QED
      BY Zenon, <1>1, <3>1, <3>2
  <2>2. CASE RxAck
    <3>1. rx.pc = "ack" /\ rx'.frame = rx.frame /\ ~ RxDecode
      BY <1>0, <2>2, RxFields DEF RxDecode
    <3>2. heard' = heard /\ UNCHANGED <<callback_sem, paket_buffer>>
      BY Zenon, <2>2, <3>1, EventTaskAlone
    <3>3. ASSUME Complete(rx.frame), NEW i \in 1 .. Len(heard), heard[i][1] = rx.frame.id
          PROVE  FALSE
      <4>1. ~ IsOut(rx.frame.id)
        BY Zenon, <1>0, <2>2, <3>3, OutAtAck
      <4>. QED
        BY Zenon, <3>3, <4>1 DEF IsOut
    <3>. QED
      BY Zenon, <1>1, <3>1, <3>2, <3>3 DEF Complete, Header
  <2>3. CASE RxDecode
    <3>1. rx.pc = "decode" /\ rx'.pc # "decode" /\ heard' = heard
      BY Zenon, <1>0, <2>3, DecodeFields, EventTaskAlone DEF RxDecode
    <3>2. callback_sem' = 1 => Complete(rx.frame) /\ paket_buffer'[1] = rx.frame.id
      BY Zenon, <1>0, <2>3, FirstPlace
    <3>. QED
      BY Zenon, <1>1, <3>1, <3>2
  <2>4. CASE Callback
    <3>1. /\ callback_sem = 1 /\ callback_sem' = 0 /\ heard' = Append(heard, paket_buffer)
          /\ UNCHANGED <<rx, paket_buffer>>
      BY Zenon, <2>4 DEF Callback, CbStart
    <3>2. rx.pc # "decode" /\ paket_buffer \in Buffers /\ heard \in Seq(Buffers)
      BY <1>0, <3>1 DEF BufferTypes
    <3>3. \A i \in 1 .. Len(heard) : heard[i][1] # paket_buffer[1]
      BY Zenon, <1>1, <3>1
    <3>4. \A i \in 1 .. Len(heard') :
             \/ heard'[i] = paket_buffer /\ i = Len(heard) + 1
             \/ heard'[i] = heard[i] /\ i \in 1 .. Len(heard)
      BY <3>1, <3>2
    <3>5. ASSUME NEW i \in 1 .. Len(heard'), NEW j \in 1 .. Len(heard'), i # j
          PROVE  heard'[i][1] # heard'[j][1]
      <4>1. CASE i = Len(heard) + 1
        <5>1. heard'[i] = paket_buffer /\ heard'[j] = heard[j] /\ j \in 1 .. Len(heard)
          BY <3>2, <3>4, <3>5, <4>1
        <5>. QED
          BY Zenon, <3>3, <5>1
      <4>2. CASE j = Len(heard) + 1
        <5>1. heard'[j] = paket_buffer /\ heard'[i] = heard[i] /\ i \in 1 .. Len(heard)
          BY <3>2, <3>4, <3>5, <4>2
        <5>. QED
          BY Zenon, <3>3, <5>1
      <4>3. CASE i # Len(heard) + 1 /\ j # Len(heard) + 1
        BY Zenon, <1>1, <3>4, <3>5, <4>3
      <4>. QED
        BY <4>1, <4>2, <4>3
    <3>. QED
      BY <3>1, <3>2, <3>5
  <2>5. CASE CallbackTimeout
    BY Zenon, <1>0, <2>5, Noted
  <2>6. CASE UNCHANGED <<rx, callback_sem, paket_buffer, heard>>
    BY Zenon, <1>1, <2>6 DEF Complete, Header
  <2>. QED
    BY Zenon, <2>1, <2>2, <2>3, <2>4, <2>5, <2>6, WhoTouchesReceiver
<1>. QED
  BY Zenon, <1>2, <1>3 DEF FreshInv, Complete, Header

-----------------------------------------------------------------------------
(* The invariant of the link, and what the receiver promises.              *)

LEMMA InitLink == LinkInit => LinkInv
<1> SUFFICES ASSUME LinkInit PROVE LinkInv
  OBVIOUS
<1>0. Init /\ RxInit /\ happened = {} /\ heard = <<>>
  BY DEF LinkInit
<1>1. /\ rx_buf = <<>> /\ rx.pc = "recv" /\ rx = IdleRx /\ paket_buffer = NoBuffer
      /\ callback_sem = 0 /\ cb = NoBuffer /\ wait_sem = 0 /\ paket_header = 0
  BY <1>0 DEF RxInit, IdleRx
<1>2. /\ \A c \in Callers : pc[c] = "idle" /\ quiet[c]
      /\ send_queue = <<>> /\ task.pc = "recv" /\ task.msg.id = 0 /\ calls = 0 /\ ack_wait_sem = 0
  BY <1>0 DEF Init, IdleTask, NoMsg
<1>3. LinkTypes
  <2>1. TypeOK
    BY <1>0, InitType
  <2>2. FrameTypes
    BY <1>1, LinkAssumption DEF FrameTypes, RxStates, RxPlaces, IdleRx
  <2>3. BufferTypes
    BY <1>0, <1>1 DEF BufferTypes
  <2>. QED
    BY <1>0, <1>1, <2>1, <2>2, <2>3, SenderAssumption DEF LinkTypes
<1>4. LoopInv /\ TokenInv /\ FlightInv
  BY <1>1, <1>2 DEF LoopInv, TokenInv, FlightInv, InLoop, AckMayCome
<1>5. AssemblyInv /\ AnswerInv /\ OverlapInv
  BY <1>2 DEF AssemblyInv, AnswerInv, OverlapInv, InLoop, Answered, Disturbed
<1>6. WholeInv /\ DistinctInv
  BY <1>0, <1>1, <1>2 DEF WholeInv, DistinctInv, Waiting
<1>7. FreshInv
  BY <1>0, <1>1 DEF FreshInv, IsOut
<1>. QED
  BY <1>3, <1>4, <1>5, <1>6, <1>7 DEF LinkInv

\* The inductive invariant of the joined link survives every step.
LEMMA StepLink == IInv /\ LinkInv /\ [LinkNext]_linkVars => LinkInv'
<1> SUFFICES ASSUME IInv, LinkInv, [LinkNext]_linkVars PROVE LinkInv'
  OBVIOUS
<1>1. /\ LinkTypes /\ LoopInv /\ TokenInv /\ FlightInv
      /\ AssemblyInv /\ AnswerInv /\ OverlapInv /\ WholeInv
      /\ DistinctInv /\ FreshInv
  BY DEF LinkInv
<1>2. LinkTypes' /\ LoopInv' /\ TokenInv' /\ FlightInv'
  BY <1>1, LinkType, LoopKept, TokenKept, FlightKept
<1>3. AssemblyInv' /\ AnswerInv' /\ OverlapInv' /\ WholeInv'
  BY <1>1, AssemblyKept, AnswerKept, OverlapKept, WholeKept
<1>4. DistinctInv' /\ FreshInv'
  BY <1>1, DistinctKept, FreshKept
<1>. QED
  BY <1>2, <1>3, <1>4 DEF LinkInv

\* LinkInv, with the invariant of the sender, is inductive; the rest follows from it
\* (uart.cpp:40-154, 157-287).
THEOREM LinkInductive == LinkSpec => []LinkInv
<1>1. LinkSpec => []IInv
  BY LinkImplementsSender, Inductive, PTL
<1>. QED
  BY <1>1, InitLink, StepLink, PTL DEF LinkSpec

\* The values of the variables of both ends (uart.h:93-124).
THEOREM LinkTypesHold == LinkSpec => []LinkTypes
<1>1. LinkInv => LinkTypes
  BY DEF LinkInv
<1>. QED
  BY <1>1, LinkInductive, PTL

\* The invariant gives WholeMessages.
LEMMA WholeFromInv == LinkInv => WholeMessages
<1>. QED
  BY Zenon DEF LinkInv, WholeInv, WholeMessages, Clean

\* The invariant gives NoDuplicates.
LEMMA DistinctFromInv == LinkInv => NoDuplicates
<1> SUFFICES ASSUME LinkInv, Clean, "ack" \notin happened,
                    NEW i \in 1 .. Len(heard), NEW j \in 1 .. Len(heard), i # j, heard[i] = heard[j]
             PROVE  FALSE
  BY DEF NoDuplicates, Clean
<1>. QED
  BY Zenon DEF LinkInv, FreshInv

\* The invariant gives BufferHeld.
LEMMA HeldFromInv == LinkInv => BufferHeld
<1>. QED
  BY Zenon DEF LinkInv, TokenInv, BufferHeld

\* The invariant gives StoredInBuffer.
LEMMA StoredFromInv == LinkInv => StoredInBuffer
<1> SUFFICES ASSUME LinkInv, Clean, rx.pc = "decode"
             PROVE  rx.frame.pk \in DOMAIN BufferFor(rx.frame)
  BY DEF StoredInBuffer, Clean
<1>1. rx.frame \in Frames
  BY DEF LinkInv, LinkTypes, FrameTypes
<1>2. CASE rx.frame.pk = 1
  <2>1. BufferFor(rx.frame) = [k \in 1 .. rx.frame.total |-> 0]
    BY <1>2 DEF BufferFor
  <2>. QED
    BY <1>1, <1>2, <2>1, FrameMembers
<1>3. CASE rx.frame.pk # 1
  <2>1. BufferFor(rx.frame) = paket_buffer /\ DOMAIN paket_buffer = 1 .. rx.frame.total
    BY <1>3 DEF BufferFor, LinkInv, WholeInv
  <2>. QED
    BY <1>1, <2>1, FrameMembers
<1>. QED
  BY <1>2, <1>3

\* The callback is handed whole messages, each once, in a buffer that is its own
\* until it is done and that no packet overruns (uart.cpp:157-178, 282-283).
THEOREM PromiseKept == LinkSpec => []ReceiverPromise
<1>1. LinkInv => ReceiverPromise
  BY WholeFromInv, DistinctFromInv, HeldFromInv, StoredFromInv DEF ReceiverPromise
<1>. QED
  BY <1>1, LinkInductive, PTL

\* RET_OK of a lone call that did not time out: the peer has the message
\* (uart.cpp:100-135 at this end, 225-287 at the other).
THEOREM OkIsHeard == LinkSpec => []OkMeansHeard
<1>1. IInv /\ LinkInv => OkMeansHeard
  <2> SUFFICES ASSUME IInv, LinkInv, NEW c \in Callers, pc[c] = "release", ret[c] = "RET_OK",
                      quiet[c], ~ late[c], msg[c].total < HeaderBits, ~ Untimely
               PROVE  \/ rx.pc = "decode"
                      \/ callback_sem = 1
                      \/ \E i \in 1 .. Len(heard) : msg[c].id \in Sources(heard[i])
    BY Zenon DEF OkMeansHeard
  <2>1. fate[msg[c].id] = "sent"
    BY DEF IInv, QuietInv, Handshake, Section
  <2>2. Answered(c)
    BY DEF Answered
  <2>3. Arrived(msg[c].id)
    BY Zenon, <2>1, <2>2 DEF LinkInv, AnswerInv
  <2>. QED
    BY Zenon, <2>3 DEF Arrived
<1>2. LinkSpec => []IInv
  BY LinkImplementsSender, Inductive, PTL
<1>. QED
  BY <1>1, <1>2, LinkInductive, PTL

-----------------------------------------------------------------------------
(* The refinement of MessageChannel, for one calling task and a wire that  *)
(* loses frames only.                                                      *)

OneCaller  == \A c, d \in Callers : c = d
FramesOnly == Faults \subseteq {"frame"} /\ MaxPk < HeaderBits

\* With one caller and frames lost at most, every call is quiet and in time.
LEMMA AloneKept ==
  ASSUME IInv, AloneInv, PanicNeedsLateOrOverlap', OneCaller, FramesOnly, [LinkNext]_linkVars
  PROVE  AloneInv'
<1>0. /\ TypeOK /\ happened \subseteq {"frame"} /\ ~ panic
      /\ \A c \in Callers : quiet[c] /\ ~ late[c]
      /\ \A f \in Faults : f = "frame"
  BY DEF IInv, AloneInv, FramesOnly
<1>1. ASSUME NEW c \in Callers
      PROVE  quiet'[c] /\ ~ late'[c]
  <2>1. ASSUME NEW d \in Callers, SetBusy(d) PROVE quiet'[c] /\ ~ late'[c]
    <3>1. pc[d] = "set" /\ \A e \in Callers : pc[e] = "set"
      BY Zenon, <2>1 DEF SetBusy, At, OneCaller
    <3>2. LinkIdle
      BY <1>0, <3>1 DEF IInv, OrphanInv, LinkIdle, Section
    <3>. QED
      BY <1>0, <2>1, <3>2 DEF SetBusy, OneCaller, TypeOK, GhostTypeOK
  <2>2. ASSUME NEW d \in Callers, LinkCall(d) \/ LinkCallerStep(d) \/ CallTimeout(d), ~ SetBusy(d)
        PROVE  quiet' = quiet /\ late' = late
    <3>1. ~ CallTimeout(d)
      BY <1>0 DEF CallTimeout, Fault
    <3>. QED
      BY Zenon, <2>2, <3>1 DEF LinkCall, LinkCallerStep, SenderBusy, SenderEnter, CreateSem, ClearError,
         Enqueue, TakeSem, Completed, DeleteSem, NullSem, ReadError, Release, ghosts
  <2>3. ~ LinkReboot
    BY <1>0 DEF LinkReboot, Reboot
  <2>4. CASE quiet' = quiet /\ late' = late
    BY Zenon, <1>0, <2>4
  <2>. QED
    BY Zenon, <2>1, <2>2, <2>3, <2>4, TaskOfLink, WhatTaskTouches, SenderAlone, Noted
    DEF LinkNext, AckHandler, vars, ghosts
<1>2. ~ panic'
  BY Zenon, <1>1 DEF PanicNeedsLateOrOverlap
<1>3. happened' \subseteq {"frame"}
  <2>1. \/ \E f \in Faults : happened' = happened \union {f}
        \/ happened' = happened
        \/ LinkReboot
        \/ \E c \in Callers : LinkCallerStep(c)
    BY DEF LinkNext, linkVars, LinkCall, CallTimeout, SenderTaskStep, Transmit, AckTimeout,
       Acknowledge, Flush, CallbackTimeout, Callback, CallbackReturns, ReceiverTaskStep,
       Fault, NoFault
  <2>2. ~ LinkReboot
    BY <1>0 DEF LinkReboot, Reboot
  <2>3. ~ Disturbed'
    BY Zenon, <1>1 DEF Disturbed
  <2>4. ASSUME NEW c \in Callers, LinkCallerStep(c) PROVE happened' = happened
    BY <2>3, <2>4 DEF LinkCallerStep, Note
  <2>. QED
    BY <1>0, <2>1, <2>2, <2>4
<1>. QED
  BY <1>1, <1>2, <1>3 DEF AloneInv

\* Such a run is clean and timely, and no acknowledgement is lost in it.
LEMMA AloneClean ==
  ASSUME AloneInv
  PROVE  Clean /\ ~ Untimely /\ "ack" \notin happened
<1>. QED
  BY DEF AloneInv, Clean, Untimely

\* A message the task is done with is at the other end by its own number.
LEMMA ArrivedIsOut ==
  ASSUME LinkTypes, WholeInv, Clean, NEW id, Arrived(id)
  PROVE  IsOut(id)
<1>1. ASSUME NEW b \in Buffers, Whole(b), id \in Sources(b)
      PROVE  b[1] = id
  <2>1. 1 \in DOMAIN b
    BY <1>1, BufferMembers
  <2>2. b[1] \in Sources(b)
    BY Zenon, <2>1 DEF Sources
  <2>3. Cardinality(Sources(b)) = 1 /\ IsFiniteSet(Sources(b))
    <3>1. PICK n \in 1 .. MaxPk : b \in [1 .. n -> 0 .. MaxCalls]
      BY BufferMembers
    <3>2. Sources(b) \subseteq 0 .. MaxCalls
      BY <3>1 DEF Sources
    <3>3. IsFiniteSet(0 .. MaxCalls)
      BY FS_Interval, SenderAssumption
    <3>4. IsFiniteSet(Sources(b))
      BY <3>2, <3>3, FS_Subset
    <3>. QED
      BY <1>1, <3>4 DEF Whole
  <2>4. PICK x : Sources(b) = {x}
    BY <2>3, FS_Singleton
  <2>. QED
    BY Zenon, <1>1, <2>2, <2>4
<1>2. CASE rx.pc = "decode" /\ rx.frame.id = id /\ Complete(rx.frame)
  BY Zenon, <1>2 DEF IsOut
<1>3. CASE callback_sem = 1 /\ id \in Sources(paket_buffer)
  <2>1. paket_buffer \in Buffers /\ Whole(paket_buffer)
    BY <1>3 DEF LinkTypes, BufferTypes, WholeInv
  <2>. QED
    BY Zenon, <1>1, <1>3, <2>1 DEF IsOut
<1>4. CASE \E i \in 1 .. Len(heard) : id \in Sources(heard[i])
  <2>1. PICK i \in 1 .. Len(heard) : id \in Sources(heard[i])
    BY <1>4
  <2>2. heard[i] \in Buffers /\ Whole(heard[i])
    BY DEF LinkTypes, BufferTypes, WholeInv
  <2>. QED
    BY Zenon, <1>1, <2>1, <2>2 DEF IsOut
<1>. QED
  BY Zenon, <1>2, <1>3, <1>4 DEF Arrived

\* A message that reached the receiver in whole stays with it.
LEMMA IsOutStays ==
  ASSUME LinkTypes, TokenInv, WholeInv, [LinkNext]_linkVars, Clean', NEW id, IsOut(id)
  PROVE  IsOut(id)'
<1>0. /\ FrameTypes /\ BufferTypes /\ Clean /\ "callback" \notin happened
      /\ rx.pc # "cbwait" => callback_sem = 0
  BY HappenedStays DEF LinkTypes, TokenInv, Clean, Untimely
<1>1. CASE RxDecode
  <2>1. rx.pc = "decode" /\ callback_sem = 0 /\ heard' = heard /\ rx.frame \in Frames
    BY <1>0, <1>1, EventTaskAlone, DecodeFields
  <2>2. CASE rx.frame.id = id /\ Complete(rx.frame)
    <3>1. rx.frame.pk = 1 \/ rx.frame.pk \in DOMAIN paket_buffer
      <4>1. rx.frame.pk \in 1 .. rx.frame.total
        BY <2>1, FrameMembers
      <4>. QED
        BY Zenon, <1>0, <2>1, <4>1 DEF WholeInv
    <3>2. callback_sem' = 1
      BY Zenon, <1>1, <2>2, <3>1, CompletedArrives
    <3>3. paket_buffer'[1] = rx.frame.id
      BY Zenon, <1>0, <1>1, <3>2, FirstPlace
    <3>. QED
      BY Zenon, <2>2, <3>2, <3>3 DEF IsOut
  <2>. QED
    BY <2>1, <2>2 DEF IsOut
<1>2. CASE Callback
  <2>1. callback_sem = 1 /\ heard' = Append(heard, paket_buffer) /\ UNCHANGED <<rx, paket_buffer>>
    BY Zenon, <1>2 DEF Callback, CbStart
  <2>2. heard \in Seq(Buffers) /\ paket_buffer \in Buffers /\ rx.pc # "decode"
    BY <1>0, <2>1 DEF BufferTypes
  <2>3. CASE paket_buffer[1] = id
    <3>1. Len(heard) + 1 \in 1 .. Len(heard') /\ heard'[Len(heard) + 1] = paket_buffer
      BY <2>1, <2>2
    <3>. QED
      BY Zenon, <2>3, <3>1 DEF IsOut
  <2>4. CASE \E i \in 1 .. Len(heard) : heard[i][1] = id
    <3>1. PICK i \in 1 .. Len(heard) : heard[i][1] = id
      BY <2>4
    <3>2. i \in 1 .. Len(heard') /\ heard'[i] = heard[i]
      BY <2>1, <2>2
    <3>. QED
      BY Zenon, <3>1, <3>2 DEF IsOut
  <2>. QED
    BY Zenon, <2>2, <2>3, <2>4 DEF IsOut
<1>3. CASE CallbackTimeout
  BY Zenon, <1>3, Noted DEF Clean
<1>4. CASE RxTake \/ RxAck \/ RxCallbackDone
  <2>1. rx.pc # "decode" /\ ~ RxDecode
    BY <1>4 DEF RxTake, RxAck, RxCallbackDone, RxDecode
  <2>2. heard' = heard /\ UNCHANGED <<callback_sem, paket_buffer>>
    BY Zenon, <1>4, <2>1, EventTaskAlone
  <2>. QED
    BY Zenon, <2>1, <2>2 DEF IsOut
<1>5. CASE UNCHANGED <<rx, callback_sem, paket_buffer, heard>>
  BY Zenon, <1>5 DEF IsOut, Complete, Header
<1>. QED
  BY Zenon, <1>1, <1>2, <1>3, <1>4, <1>5, WhoTouchesReceiver

\* A message gets on its way by a call, and in no other way.
LEMMA OnItsWayBefore ==
  ASSUME IInv, LoopInv, [LinkNext]_linkVars, NEW id, OnItsWay(id)'
  PROVE  OnItsWay(id) \/ (id = calls + 1 /\ \E d \in Callers, n \in 1 .. MaxPk : SenderEnter(d, n))
<1>0. TypeOK /\ IdInv /\ send_queue \in Seq(Messages)
  BY QueueMembers DEF IInv
<1>1. ASSUME NEW d \in Callers, LinkCall(d) \/ LinkCallerStep(d) \/ CallTimeout(d)
      PROVE  OnItsWay(id) \/ (id = calls + 1 /\ \E e \in Callers, n \in 1 .. MaxPk : SenderEnter(e, n))
  <2>0. task' = task
    BY Zenon, <1>1, CallerAlone
  <2>1. ASSUME NEW n \in 1 .. MaxPk, SenderEnter(d, n)
        PROVE  OnItsWay(id) \/ id = calls + 1
    <3>1. /\ send_queue' = send_queue /\ msg'[d].id = calls + 1
          /\ \A c \in Callers \ {d} : Waiting(c)' => Waiting(c) /\ msg'[c] = msg[c]
      BY Zenon, <1>0, <2>1, EnterShape
    <3>2. CASE \E c \in Callers : Waiting(c)' /\ msg'[c].id = id
      BY Zenon, <3>1, <3>2 DEF OnItsWay
    <3>. QED
      BY Zenon, <2>0, <3>1, <3>2 DEF OnItsWay, InLoop
  <2>2. CASE Enqueue(d)
    <3>1. /\ Waiting(d) /\ msg' = msg
          /\ \A c \in Callers : Waiting(c)' => c # d /\ Waiting(c)
          /\ send_queue' = send_queue \/ send_queue' = Append(send_queue, msg[d])
          /\ msg[d] \in Messages
      BY Zenon, <1>0, <2>2, EnqueueShape
    <3>2. \A i \in 1 .. Len(send_queue') :
             send_queue'[i] = msg[d] \/ (i \in 1 .. Len(send_queue) /\ send_queue'[i] = send_queue[i])
      BY <1>0, <3>1
    <3>3. CASE \E i \in 1 .. Len(send_queue') : send_queue'[i].id = id
      BY Zenon, <3>1, <3>2, <3>3 DEF OnItsWay
    <3>4. CASE \E c \in Callers : Waiting(c)' /\ msg'[c].id = id
      BY Zenon, <3>1, <3>4 DEF OnItsWay
    <3>. QED
      BY Zenon, <2>0, <3>3, <3>4 DEF OnItsWay, InLoop
  <2>3. CASE /\ send_queue' = send_queue
             /\ \A c \in Callers : Waiting(c)' => Waiting(c) /\ msg'[c] = msg[c]
    <3>1. CASE \E c \in Callers : Waiting(c)' /\ msg'[c].id = id
      BY Zenon, <2>3, <3>1 DEF OnItsWay
    <3>. QED
      BY Zenon, <2>0, <2>3, <3>1 DEF OnItsWay, InLoop
  <2>. QED
    BY Zenon, <1>1, <2>1, <2>2, <2>3, CallerShape
<1>2. CASE SenderTaskStep \/ Transmit \/ AckTimeout
  <2>0. TaskStep /\ UNCHANGED <<pc, msg>>
    BY Zenon, <1>2, TaskOfLink, WhatTaskTouches
  <2>1. CASE TaskReceive
    <3>1. /\ send_queue # <<>> /\ send_queue' = Tail(send_queue)
          /\ task'.msg = Head(send_queue)
      BY Zenon, <1>0, <2>1, ReceiveFields
    <3>2. /\ 1 \in 1 .. Len(send_queue) /\ Head(send_queue) = send_queue[1]
          /\ \A i \in 1 .. Len(send_queue') :
                send_queue'[i] = send_queue[i + 1] /\ i + 1 \in 1 .. Len(send_queue)
      BY <1>0, <3>1
    <3>3. CASE \E i \in 1 .. Len(send_queue') : send_queue'[i].id = id
      BY Zenon, <3>2, <3>3 DEF OnItsWay
    <3>4. CASE task'.msg.id = id
      BY Zenon, <3>1, <3>2, <3>4 DEF OnItsWay
    <3>. QED
      BY Zenon, <2>0, <3>3, <3>4 DEF OnItsWay, Waiting
  <2>2. CASE ~ TaskReceive
    <3>1. send_queue' = send_queue
      BY Zenon, <2>0, <2>2, WhatTaskTouches
    <3>2. InLoop' => InLoop /\ task'.msg = task.msg
      <4>1. InLoop' => task.pc # "recv" /\ task'.msg = task.msg
        BY <1>0, <2>0, <2>2, TaskKeepsMessage DEF InLoop
      <4>2. TaskCheck \/ TaskGive => ~ InLoop'
        BY <1>0, TaskFields DEF InLoop
      <4>3. TaskWrite \/ TaskAck \/ TaskNoAck \/ TaskCount \/ TaskNext => InLoop
        BY DEF TaskWrite, TaskAck, TaskNoAck, TaskCount, TaskNext, InLoop
      <4>. QED
        BY Zenon, <2>0, <2>2, <4>1, <4>2, <4>3 DEF TaskStep
    <3>. QED
      BY Zenon, <2>0, <3>1, <3>2 DEF OnItsWay, Waiting
  <2>. QED
    BY <2>1, <2>2
<1>3. CASE LinkReboot
  <2>1. /\ send_queue' = <<>> /\ ~ InLoop'
        /\ \A c \in Callers : ~ Waiting(c)'
    BY <1>3 DEF LinkReboot, Reboot, IdleTask, InLoop, Waiting
  <2>. QED
    BY <2>1 DEF OnItsWay
<1>4. CASE UNCHANGED <<pc, msg, send_queue, task>>
  BY Zenon, <1>4 DEF OnItsWay, Waiting, InLoop
<1>5. CASE Acknowledge
  BY Zenon, <1>4, <1>5, Noted DEF AckHandler, vars, callVars
<1>. QED
  BY Zenon, <1>1, <1>2, <1>3, <1>4, <1>5, SenderAlone DEF LinkNext, vars

\* What may become of a message in one step.
LEMMA FateStep ==
  ASSUME IInv, LoopInv, AloneInv, AloneInv', OneCaller, FramesOnly, [LinkNext]_linkVars
  PROVE  \/ fate' = fate /\ calls' = calls
         \/ /\ \E d \in Callers, n \in 1 .. MaxPk : SenderEnter(d, n)
            /\ fate' = [fate EXCEPT ![calls + 1] = "pending"] /\ calls' = calls + 1 /\ calls < MaxCalls
         \/ /\ TaskNext /\ StopLoop /\ task'.pc = "check" /\ InLoop /\ calls' = calls
            /\ fate' = [fate EXCEPT ![task.msg.id] = Outcome(task)]
<1>0. /\ TypeOK /\ ~ panic /\ \A c \in Callers : quiet[c] /\ ~ late[c]
  BY DEF IInv, AloneInv
<1>1. ASSUME NEW d \in Callers, LinkCall(d) \/ LinkCallerStep(d) \/ CallTimeout(d)
      PROVE  \/ fate' = fate /\ calls' = calls
             \/ /\ \E e \in Callers, n \in 1 .. MaxPk : SenderEnter(e, n)
                /\ fate' = [fate EXCEPT ![calls + 1] = "pending"] /\ calls' = calls + 1 /\ calls < MaxCalls
  <2>1. ASSUME NEW n \in 1 .. MaxPk, SenderEnter(d, n)
        PROVE  /\ fate' = [fate EXCEPT ![calls + 1] = "pending"] /\ calls' = calls + 1 /\ calls < MaxCalls
    BY Zenon, <2>1 DEF SenderEnter
  <2>2. CASE Enqueue(d)
    <3>1. pc[d] = "queue" /\ pc[d] \in Section
      BY <2>2 DEF Enqueue, At, Section
    <3>2. send_queue = <<>>
      BY <1>0, <3>1 DEF IInv, QuietInv, Handshake
    <3>3. ~ QueueFull
      BY <3>2, SenderAssumption DEF QueueFull
    <3>. QED
      BY Zenon, <2>2, <3>3 DEF Enqueue
  <2>3. CASE SenderBusy(d) \/ (CallerStep(d) /\ ~ Enqueue(d))
    BY Zenon, <2>3 DEF SenderBusy, CallerStep, SetBusy, CreateSem, ClearError, TakeSem, Completed,
       WaitTimeout, WaitOnFreed, DeleteSem, NullSem, ReadError, Release, ghosts
  <2>. QED
    BY Zenon, <1>1, <2>1, <2>2, <2>3, CallerOfLink
<1>2. CASE SenderTaskStep \/ Transmit \/ AckTimeout
  <2>0. TaskStep /\ calls' = calls
    BY Zenon, <1>2, TaskOfLink, WhatTaskTouches
  <2>1. CASE TaskReceive
    BY Zenon, <1>0, <2>0, <2>1, ReceiveFields
  <2>2. CASE TaskNext
    <3>1. InLoop
      BY <2>2 DEF TaskNext, InLoop
    <3>. QED
      BY Zenon, <1>0, <2>0, <2>2, <3>1, TaskFields
  <2>3. CASE ~ TaskReceive /\ ~ TaskNext
    BY Zenon, <2>0, <2>3, WhatTaskTouches
  <2>. QED
    BY <2>1, <2>2, <2>3
<1>3. CASE LinkReboot
  BY <1>0, <1>3 DEF LinkReboot, Reboot
<1>4. CASE UNCHANGED <<fate, calls>>
  BY <1>4
<1>. QED
  BY Zenon, <1>1, <1>2, <1>3, <1>4, SenderAlone, Noted DEF LinkNext, AckHandler, vars, ghosts

\* The message the task holds is on its way, and is the only one.
LEMMA OnlyOneOnItsWay ==
  ASSUME IInv, LinkInv, AloneInv, OneCaller, InLoop
  PROVE  /\ task.msg.id \in MsgIds /\ task.msg.id <= calls /\ OnItsWay(task.msg.id)
         /\ send_queue = <<>> /\ \A c \in Callers : ~ Waiting(c)
         /\ \A on : OnItsWay(on) => on = task.msg.id
<1>0. /\ TypeOK /\ OrphanInv /\ BacklogInv /\ task.pc # "recv"
      /\ \A c \in Callers : quiet[c] /\ ~ late[c]
  BY DEF IInv, AloneInv, InLoop
<1>1. task.msg.id \in MsgIds
  BY <1>0 DEF TypeOK, TaskTypeOK, Messages
<1>2. task.msg.id <= calls
  BY DEF LinkInv, DistinctInv
<1>3. send_queue = <<>>
  BY <1>0 DEF BacklogInv, Disturbed
<1>4. \A c \in Callers : ~ Waiting(c)
  BY <1>0 DEF OrphanInv, OneCaller, Waiting
<1>5. OnItsWay(task.msg.id)
  BY Zenon DEF OnItsWay
<1>6. ASSUME NEW on, OnItsWay(on) PROVE on = task.msg.id
  BY <1>3, <1>4, <1>6 DEF OnItsWay
<1>. QED
  BY <1>1, <1>2, <1>3, <1>4, <1>5, <1>6

\* Every step keeps what was confirmed at the other end and off the way there.
LEMMA ConfirmedKept ==
  ASSUME IInv, LinkInv, ChannelInv, AloneInv', OneCaller, FramesOnly, [LinkNext]_linkVars
  PROVE  ConfirmedInv'
<1> SUFFICES ASSUME NEW i \in MsgIds, fate'[i] = "sent"
             PROVE  i <= calls' /\ IsOut(i)' /\ ~ OnItsWay(i)'
  BY Zenon DEF ConfirmedInv
<1>0. /\ TypeOK /\ AloneInv /\ ConfirmedInv /\ LinkTypes /\ LoopInv /\ TokenInv /\ AssemblyInv
      /\ WholeInv
      /\ fate \in [MsgIds -> Fates] /\ calls \in Nat /\ i \in Nat
      /\ Clean /\ ~ Untimely /\ Clean'
  BY AloneClean DEF IInv, LinkInv, ChannelInv, TypeOK, GhostTypeOK, MsgIds, AloneInv, Clean, Untimely
<1>1. CASE fate[i] = "sent"
  <2>1. i <= calls /\ IsOut(i) /\ ~ OnItsWay(i)
    BY <1>0, <1>1 DEF ConfirmedInv
  <2>2. calls' = calls \/ calls' = calls + 1
    BY Zenon, <1>0, FateStep
  <2>3. ~ OnItsWay(i)'
    <3>1. i # calls + 1
      BY <1>0, <2>1
    <3>. QED
      BY Zenon, <1>0, <2>1, <3>1, OnItsWayBefore
  <2>4. IsOut(i)'
    BY Zenon, <1>0, <2>1, IsOutStays
  <2>. QED
    BY <1>0, <2>1, <2>2, <2>3, <2>4
<1>2. CASE fate[i] # "sent"
  <2>1. /\ TaskNext /\ StopLoop /\ task'.pc = "check" /\ InLoop /\ calls' = calls
        /\ fate' = [fate EXCEPT ![task.msg.id] = Outcome(task)]
    <3>1. fate' # fate
      BY <1>2
    <3>2. fate' # [fate EXCEPT ![calls + 1] = "pending"]
      BY <1>0, <1>2
    <3>. QED
      BY Zenon, <1>0, <3>1, <3>2, FateStep
  <2>2. i = task.msg.id /\ Outcome(task) = "sent"
    BY <1>0, <1>2, <2>1
  <2>3. IsOut(i)
    <3>1. task.msg.total < HeaderBits
      <4>1. task.msg.total \in 1 .. MaxPk
        BY <1>0, <2>1 DEF LoopInv, InLoop
      <4>. QED
        BY <4>1, SenderAssumption, LinkAssumption DEF FramesOnly
    <3>2. Arrived(task.msg.id)
      BY Zenon, <1>0, <2>1, <2>2, <3>1, SentArrived
    <3>. QED
      BY Zenon, <1>0, <2>2, <3>2, ArrivedIsOut
  <2>4. IsOut(i)'
    BY Zenon, <1>0, <2>3, IsOutStays
  <2>5. ~ OnItsWay(i)'
    <3>1. send_queue' = <<>> /\ (\A c \in Callers : ~ Waiting(c)') /\ ~ InLoop'
      <4>1. UNCHANGED <<pc, send_queue>>
        BY Zenon, <2>1 DEF TaskNext, callVars
      <4>2. send_queue = <<>> /\ \A c \in Callers : ~ Waiting(c)
        BY Zenon, <1>0, <2>1, OnlyOneOnItsWay
      <4>. QED
        BY <2>1, <4>1, <4>2 DEF Waiting, InLoop
    <3>. QED
      BY <3>1 DEF OnItsWay
  <2>6. i <= calls'
    BY Zenon, <1>0, <2>1, <2>2, OnlyOneOnItsWay
  <2>. QED
    BY <2>4, <2>5, <2>6
<1>. QED
  BY <1>1, <1>2

\* Every step keeps what is at the other end older than what is on its way.
LEMMA OrderKept ==
  ASSUME IInv, LinkInv, ChannelInv, AloneInv', OneCaller, FramesOnly, [LinkNext]_linkVars
  PROVE  OrderInv'
<1>0. /\ TypeOK /\ AloneInv /\ OrderInv /\ LinkTypes /\ LoopInv /\ TokenInv /\ FlightInv
      /\ WholeInv /\ FreshInv /\ FrameTypes /\ BufferTypes
      /\ Clean /\ "ack" \notin happened /\ Clean' /\ calls \in 0 .. MaxCalls
      /\ "callback" \notin happened /\ ~ Untimely
      /\ rx.pc # "cbwait" => callback_sem = 0
  BY AloneClean DEF IInv, LinkInv, ChannelInv, AloneInv, Clean, Untimely, LinkTypes, TokenInv,
     TypeOK, GhostTypeOK
<1>1. /\ \A id, on \in 0 .. MaxCalls : IsOut(id) /\ OnItsWay(on) => id <= on
      /\ callback_sem = 1 => \A i \in 1 .. Len(heard) : heard[i][1] <= paket_buffer[1]
      /\ rx.pc = "decode" /\ Complete(rx.frame) =>
            \A i \in 1 .. Len(heard) : heard[i][1] <= rx.frame.id
  BY <1>0 DEF OrderInv
<1>2. ASSUME RxAck
      PROVE  rx.frame.id = task.msg.id /\ InLoop /\ rx'.frame = rx.frame
  <2>1. rx.pc = "ack" /\ rx'.frame = rx.frame
    BY Zenon, <1>0, <1>2, RxFields
  <2>2. rx.frame = CurrentFrame /\ InLoop
    BY <1>0, <2>1 DEF FlightInv, AckMayCome, InLoop
  <2>. QED
    BY Zenon, <1>0, <2>1, <2>2, CurrentIsFrame
<1>3. ASSUME NEW id \in 0 .. MaxCalls, NEW on \in 0 .. MaxCalls, IsOut(id)', OnItsWay(on)'
      PROVE  id <= on
  <2>1. CASE IsOut(id) /\ OnItsWay(on)
    BY <1>1, <2>1
  <2>2. CASE IsOut(id) /\ on = calls + 1
    <3>1. id <= calls
      BY Zenon, <1>0, <2>2 DEF FreshInv, Spent
    <3>. QED
      BY <1>0, <2>2, <3>1, SenderAssumption
  <2>3. CASE RxAck /\ id = rx.frame.id
    <3>1. id = task.msg.id /\ id <= calls /\ (OnItsWay(on) => on = id)
      BY Zenon, <1>0, <1>2, <2>3, OnlyOneOnItsWay
    <3>2. OnItsWay(on) \/ on = calls + 1
      BY Zenon, <1>0, <1>3, OnItsWayBefore
    <3>. QED
      BY <1>0, <3>1, <3>2, SenderAssumption
  <2>4. OnItsWay(on) \/ on = calls + 1
    BY Zenon, <1>0, <1>3, OnItsWayBefore
  <2>5. IsOut(id) \/ (RxAck /\ id = rx.frame.id)
    BY Zenon, <1>0, <1>3, IsOutStep
  <2>. QED
    BY Zenon, <2>1, <2>2, <2>3, <2>4, <2>5
<1>4. /\ callback_sem' = 1 => \A i \in 1 .. Len(heard') : heard'[i][1] <= paket_buffer'[1]
      /\ rx'.pc = "decode" /\ Complete(rx'.frame) =>
            \A i \in 1 .. Len(heard') : heard'[i][1] <= rx'.frame.id
  <2>1. CASE RxTake \/ RxCallbackDone
    <3>1. rx'.pc # "decode" /\ ~ RxDecode
      BY <2>1, RxFields DEF RxDecode, RxTake, RxCallbackDone
    <3>2. heard' = heard /\ UNCHANGED <<callback_sem, paket_buffer>>
      BY Zenon, <1>0, <2>1, <3>1, EventTaskAlone
    <3>. QED
      BY Zenon, <1>1, <3>1, <3>2
  <2>2. CASE RxAck
    <3>1. rx.pc = "ack" /\ ~ RxDecode
      BY <1>0, <2>2, RxFields DEF RxDecode
    <3>2. heard' = heard /\ UNCHANGED <<callback_sem, paket_buffer>>
      BY Zenon, <1>0, <2>2, <3>1, EventTaskAlone
    <3>3. rx.frame.id = task.msg.id /\ task.msg.id \in 0 .. MaxCalls /\ OnItsWay(task.msg.id)
      <4>1. rx.frame.id = task.msg.id /\ task.msg.id \in MsgIds /\ OnItsWay(task.msg.id)
        BY Zenon, <1>0, <1>2, <2>2, OnlyOneOnItsWay
      <4>. QED
        BY <4>1 DEF MsgIds
    <3>4. ASSUME NEW i \in 1 .. Len(heard) PROVE heard[i][1] <= task.msg.id
      <4>1. heard[i] \in Buffers
        BY <1>0 DEF BufferTypes
      <4>2. heard[i][1] \in 0 .. MaxCalls /\ IsOut(heard[i][1])
        BY Zenon, <4>1, BufferMembers DEF IsOut
      <4>. QED
        BY Zenon, <1>1, <3>3, <4>2
    <3>. QED
      BY Zenon, <1>1, <1>2, <2>2, <3>2, <3>3, <3>4
  <2>3. CASE RxDecode
    <3>1. rx.pc = "decode" /\ rx'.pc # "decode" /\ heard' = heard
      BY <1>0, <2>3, DecodeFields, EventTaskAlone DEF RxDecode
    <3>2. callback_sem' = 1 => Complete(rx.frame) /\ paket_buffer'[1] = rx.frame.id
      BY Zenon, <1>0, <2>3, FirstPlace
    <3>. QED
      BY Zenon, <1>1, <3>1, <3>2
  <2>4. CASE Callback
    <3>1. callback_sem = 1 /\ callback_sem' = 0 /\ rx' = rx
      BY Zenon, <2>4 DEF Callback, CbStart
    <3>. QED
      BY <1>0, <3>1
  <2>5. CASE CallbackTimeout
    BY Zenon, <1>0, <2>5, Noted DEF Clean
  <2>6. CASE UNCHANGED <<rx, callback_sem, paket_buffer, heard>>
    BY Zenon, <1>1, <2>6 DEF Complete, Header
  <2>. QED
    BY Zenon, <2>1, <2>2, <2>3, <2>4, <2>5, <2>6, WhoTouchesReceiver
<1>. QED
  BY Zenon, <1>3, <1>4 DEF OrderInv, Complete, Header

\* The link starts as the abstract channel does.
LEMMA InitChannel == LinkInit => ChannelInv /\ Channel!Init
<1> SUFFICES ASSUME LinkInit PROVE ChannelInv /\ Channel!Init
  OBVIOUS
<1>1. /\ rx.pc = "recv" /\ callback_sem = 0 /\ heard = <<>> /\ happened = {} /\ ~ panic /\ calls = 0
      /\ \A c \in Callers : quiet[c] /\ ~ late[c]
      /\ fate = [i \in MsgIds |-> "none"]
  BY DEF LinkInit, Init, RxInit, IdleRx
<1>2. {i \in MsgIds : fate[i] = "sent"} = {} /\ [i \in 1 .. Len(heard) |-> heard[i][1]] = <<>>
  BY <1>1
<1>. QED
  BY <1>1, <1>2 DEF ChannelInv, AloneInv, ConfirmedInv, OrderInv, IsOut, Channel!Init

\* What the channel delivered, by number.
LEMMA Numbers ==
  ASSUME BufferTypes
  PROVE  LET d == [i \in 1 .. Len(heard) |-> heard[i][1]]
         IN  /\ d \in Seq(0 .. MaxCalls) /\ Len(d) = Len(heard)
             /\ {d[i] : i \in 1 .. Len(d)} = {heard[i][1] : i \in 1 .. Len(heard)}
<1>1. heard \in Seq(Buffers)
  BY DEF BufferTypes
<1>2. ASSUME NEW i \in 1 .. Len(heard) PROVE heard[i][1] \in 0 .. MaxCalls
  <2>1. heard[i] \in Buffers
    BY <1>1
  <2>. QED
    BY Zenon, <2>1, BufferMembers
<1> DEFINE d == [i \in 1 .. Len(heard) |-> heard[i][1]]
<1>3. Len(heard) \in Nat
  BY <1>1
<1>4. d \in [1 .. Len(heard) -> 0 .. MaxCalls]
  BY <1>2
<1>5. d \in Seq(0 .. MaxCalls) /\ Len(d) = Len(heard)
  <2>1. d \in Seq(0 .. MaxCalls)
    BY ZenonT(60), <1>3, <1>4, SeqDef
  <2> HIDE DEF d
  <2>2. DOMAIN d = 1 .. Len(heard) /\ DOMAIN d = 1 .. Len(d) /\ Len(d) \in Nat
    BY <1>4, <2>1, LenProperties
  <2>. QED
    BY <1>3, <2>1, <2>2
<1>6. {d[i] : i \in 1 .. Len(d)} = {heard[i][1] : i \in 1 .. Len(heard)}
  BY <1>5
<1>. QED
  BY Zenon, <1>5, <1>6

\* A message that is heard is delivered: its number is next, and no confirmed
\* one is left out.
LEMMA CallbackDelivers ==
  ASSUME IInv, LinkInv, ChannelInv, Callback
  PROVE  LET i == paket_buffer[1]
         IN  i \in 1 .. MaxCalls /\ Channel!Deliver(i)
<1>0. /\ LinkTypes /\ BufferTypes /\ WholeInv /\ FreshInv /\ TokenInv /\ ConfirmedInv /\ OrderInv
      /\ Clean /\ "ack" \notin happened /\ "callback" \notin happened
      /\ heard \in Seq(Buffers)
  BY AloneClean DEF LinkInv, ChannelInv, LinkTypes, AloneInv, BufferTypes
<1>1. /\ callback_sem = 1 /\ heard' = Append(heard, paket_buffer)
      /\ UNCHANGED <<rx, paket_buffer, calls, fate>>
  BY Zenon DEF Callback, CbStart, vars
<1>2. paket_buffer \in Buffers /\ Whole(paket_buffer) /\ rx.pc # "decode"
  BY <1>0, <1>1 DEF BufferTypes, WholeInv, TokenInv
<1> DEFINE n == paket_buffer[1]
           D == [i \in 1 .. Len(heard) |-> heard[i][1]]
<1>3. n \in 0 .. MaxCalls /\ n # 0 /\ n \in 1 .. MaxCalls /\ n \in Nat
  <2>1. 1 \in DOMAIN paket_buffer /\ n \in 0 .. MaxCalls
    BY Zenon, <1>2, BufferMembers
  <2>2. n # 0
    BY Zenon, <1>2, <2>1 DEF Whole, Sources
  <2>. QED
    BY <2>1, <2>2, SenderAssumption
<1>4. IsOut(n)
  BY Zenon, <1>1 DEF IsOut
<1>5. n <= calls
  BY Zenon, <1>0, <1>3, <1>4 DEF FreshInv, Spent
<1>6. \A i \in 1 .. Len(heard) : heard[i][1] < n
  <2>1. ASSUME NEW i \in 1 .. Len(heard) PROVE heard[i][1] < n
    <3>1. heard[i][1] # n /\ heard[i][1] <= n
      BY <1>0, <1>1 DEF FreshInv, OrderInv
    <3>2. heard[i] \in Buffers
      BY <1>0
    <3>3. heard[i][1] \in 0 .. MaxCalls
      BY Zenon, <3>2, BufferMembers
    <3>. QED
      BY <1>3, <3>1, <3>3
  <2>. QED
    BY <2>1
<1>7. \A j \in {i \in MsgIds : fate[i] = "sent"} :
         j < n => j \in {heard[i][1] : i \in 1 .. Len(heard)}
  <2> SUFFICES ASSUME NEW j \in MsgIds, fate[j] = "sent", j < n
               PROVE  \E i \in 1 .. Len(heard) : heard[i][1] = j
    OBVIOUS
  <2>1. IsOut(j)
    BY Zenon, <1>0 DEF ConfirmedInv
  <2>2. n # j
    BY <1>3 DEF MsgIds
  <2>. QED
    BY Zenon, <1>2, <2>1, <2>2 DEF IsOut
<1>8. D \in Seq(0 .. MaxCalls) /\ Len(D) = Len(heard)
      /\ {D[i] : i \in 1 .. Len(D)} = {heard[i][1] : i \in 1 .. Len(heard)}
  BY Zenon, <1>0, Numbers
<1>9. [i \in 1 .. Len(heard') |-> heard'[i][1]] = Append(D, n)
  <2>1. Len(heard') = Len(heard) + 1 /\ Len(heard) \in Nat
    BY <1>0, <1>1, <1>2
  <2>2. \A i \in 1 .. Len(heard') : heard'[i][1] = IF i = Len(heard) + 1 THEN n ELSE heard[i][1]
    BY <1>0, <1>1, <1>2
  <2> HIDE DEF n
  <2>3. [i \in 1 .. Len(heard') |-> heard'[i][1]]
          = [i \in 1 .. Len(heard) + 1 |-> IF i = Len(heard) + 1 THEN n ELSE heard[i][1]]
    BY <2>1, <2>2
  <2>4. Append(D, n) = [i \in 1 .. Len(D) + 1 |-> IF i = Len(D) + 1 THEN n ELSE D[i]]
    BY <1>8, <1>3
  <2>5. [i \in 1 .. Len(heard) + 1 |-> IF i = Len(heard) + 1 THEN n ELSE heard[i][1]]
          = [i \in 1 .. Len(D) + 1 |-> IF i = Len(D) + 1 THEN n ELSE D[i]]
    BY <1>8, <2>1
  <2>. QED
    BY <2>3, <2>4, <2>5
<1>10. Channel!Delivered = {heard[i][1] : i \in 1 .. Len(heard)}
  BY Zenon, <1>8 DEF Channel!Delivered
<1>11. Channel!Open(n)
  BY <1>6, <1>10 DEF Channel!Open
<1>. QED
  BY Zenon, <1>1, <1>3, <1>5, <1>7, <1>9, <1>10, <1>11 DEF Channel!Deliver

\* Every step of the link maps to a step of the abstract channel or to a stutter.
LEMMA ChannelStep ==
  ASSUME IInv, LinkInv, ChannelInv, AloneInv', OneCaller, FramesOnly, [LinkNext]_linkVars
  PROVE  [Channel!Next]_(Channel!channelVars)
<1>0. /\ TypeOK /\ AloneInv /\ ConfirmedInv /\ OrderInv /\ LinkTypes /\ LoopInv /\ BufferTypes
      /\ fate \in [MsgIds -> Fates] /\ calls \in Nat
  BY DEF IInv, LinkInv, ChannelInv, TypeOK, GhostTypeOK, LinkTypes
<1> DEFINE sent == {i \in MsgIds : fate[i] = "sent"}
           heardBy == [i \in 1 .. Len(heard) |-> heard[i][1]]
<1>1. CASE Callback
  <2> DEFINE first == paket_buffer[1]
  <2>1. first \in 1 .. MaxCalls /\ Channel!Deliver(first)
    BY <1>1, CallbackDelivers
  <2> HIDE DEF first
  <2>2. \E i \in 1 .. MaxCalls : Channel!Deliver(i)
    BY Zenon, <2>1 DEF Channel!Deliver
  <2>. QED
    BY Zenon, <2>2 DEF Channel!Next
<1>2. CASE ~ Callback
  <2>1. heard' = heard
    BY Zenon, <1>2, WhoTouchesReceiver
  <2>2. heardBy' = heardBy
    BY Zenon, <2>1
  <2>3. CASE fate' = fate /\ calls' = calls
    <3>1. sent' = sent
      BY Zenon, <2>3
    <3>. QED
      BY Zenon, <2>2, <2>3, <3>1 DEF Channel!channelVars
  <2>4. CASE /\ fate' = [fate EXCEPT ![calls + 1] = "pending"] /\ calls' = calls + 1
             /\ calls < MaxCalls
    <3>1. ASSUME NEW i \in MsgIds PROVE fate'[i] = "sent" <=> fate[i] = "sent"
      <4>1. i = calls + 1 => fate[i] # "sent"
        BY <1>0 DEF ConfirmedInv
      <4>. QED
        BY <1>0, <2>4, <4>1
    <3>2. sent' = sent
      BY Zenon, <3>1
    <3>3. Channel!Offer
      BY Zenon, <2>2, <2>4, <3>2 DEF Channel!Offer
    <3>. QED
      BY Zenon, <3>3 DEF Channel!Next
  <2>5. CASE /\ TaskNext /\ InLoop /\ calls' = calls
             /\ fate' = [fate EXCEPT ![task.msg.id] = Outcome(task)]
    <3> DEFINE id == task.msg.id
    <3>1. id \in MsgIds /\ id <= calls /\ OnItsWay(id)
      BY Zenon, <1>0, <2>5, OnlyOneOnItsWay
    <3>2. fate[id] # "sent"
      BY Zenon, <1>0, <3>1 DEF ConfirmedInv
    <3> HIDE DEF id
    <3>3. \A i \in MsgIds : fate'[i] = IF i = id THEN Outcome(task) ELSE fate[i]
      BY <1>0, <2>5, <3>1 DEF id
    <3>4. CASE Outcome(task) = "sent"
      <4>1. ASSUME NEW i \in MsgIds PROVE fate'[i] = "sent" <=> (fate[i] = "sent" \/ i = id)
        BY <3>3, <3>4
      <4>2. sent' = {i \in MsgIds : fate[i] = "sent" \/ i = id}
        BY Zenon, <4>1
      <4>3. sent' = sent \union {id}
        BY <3>1, <4>2
      <4>4. Channel!Open(id) \/ id \in Channel!Delivered
        <5>1. Channel!Delivered = {heard[i][1] : i \in 1 .. Len(heard)}
          BY Zenon, <1>0, Numbers DEF Channel!Delivered
        <5>2. ASSUME NEW i \in 1 .. Len(heard) PROVE heard[i][1] <= id /\ heard[i][1] \in Nat
          <6>1. heard[i] \in Buffers
            BY <1>0 DEF BufferTypes
          <6>2. heard[i][1] \in 0 .. MaxCalls /\ IsOut(heard[i][1])
            BY Zenon, <6>1, BufferMembers DEF IsOut
          <6>3. id \in 0 .. MaxCalls
            BY <3>1 DEF MsgIds
          <6>4. heard[i][1] <= id
            BY Zenon, <1>0, <3>1, <6>2, <6>3 DEF OrderInv
          <6>. QED
            BY <6>2, <6>4
        <5>3. id \in Nat
          BY <3>1 DEF MsgIds
        <5>. QED
          BY <5>1, <5>2, <5>3 DEF Channel!Open
      <4>5. Channel!Confirm(id)
        BY Zenon, <2>2, <2>5, <3>1, <4>3, <4>4 DEF Channel!Confirm
      <4>6. \E i \in 1 .. MaxCalls : Channel!Confirm(i)
        BY Zenon, <3>1, <4>5 DEF MsgIds, Channel!Confirm
      <4>. QED
        BY Zenon, <4>6 DEF Channel!Next
    <3>5. CASE Outcome(task) # "sent"
      <4>1. ASSUME NEW i \in MsgIds PROVE fate'[i] = "sent" <=> fate[i] = "sent"
        BY <3>2, <3>3, <3>5
      <4>2. sent' = sent
        BY Zenon, <4>1
      <4>. QED
        BY Zenon, <2>2, <2>5, <4>2 DEF Channel!channelVars
    <3>. QED
      BY <3>4, <3>5
  <2>. QED
    BY Zenon, <1>0, <2>3, <2>4, <2>5, FateStep
<1>. QED
  BY <1>1, <1>2

\* With one calling task and a wire that loses frames only, the two ends carry
\* messages in order, none twice, and none that was confirmed is overtaken: every
\* step of uart.cpp is a step of MessageChannel or a stutter.
THEOREM LinkIsAChannel ==
  ASSUME OneCaller, FramesOnly
  PROVE  LinkSpec => Channel!Init /\ [][Channel!Next]_(Channel!channelVars)
<1>1. LinkInit => ChannelInv /\ Channel!Init
  BY InitChannel
<1>2. IInv /\ LinkInv /\ ChannelInv /\ IInv' /\ [LinkNext]_linkVars
        => ChannelInv' /\ [Channel!Next]_(Channel!channelVars)
  <2> SUFFICES ASSUME IInv, LinkInv, ChannelInv, IInv', [LinkNext]_linkVars
               PROVE  ChannelInv' /\ [Channel!Next]_(Channel!channelVars)
    OBVIOUS
  <2>1. AloneInv'
    BY AloneKept DEF IInv, ChannelInv
  <2>2. ConfirmedInv' /\ OrderInv'
    BY <2>1, ConfirmedKept, OrderKept
  <2>. QED
    BY <2>1, <2>2, ChannelStep DEF ChannelInv
<1>3. LinkSpec => []IInv
  BY LinkImplementsSender, Inductive, PTL
<1>. QED
  BY <1>1, <1>2, <1>3, LinkInductive, PTL DEF LinkSpec

=============================================================================
