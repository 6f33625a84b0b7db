----------------------------- MODULE UartSender -----------------------------
(***************************************************************************)
(* The sending half of the UART link to CPU2: UART::Sender and _Sender,    *)
(* run by any task that wants to send, and _sender_task, the one task that *)
(* owns the wire.  They meet in shared fields of the UART object: the flag *)
(* busy, the queue send_queue, the handle send_paket_sem of the completion *)
(* semaphore, and the flag send_paket_error.  The acknowledgement is a     *)
(* pulse on a pin whose interrupt gives ack_wait_sem; it names no packet.  *)
(*                                                                         *)
(* One action is one access of the program to state another task reads.    *)
(* The two task timeouts (2000 ms for the completion, 500 ticks for the    *)
(* acknowledgement) may fire whenever their semaphore is not available.    *)
(***************************************************************************)
EXTENDS Naturals, Sequences

CONSTANTS
    Callers,          \* the tasks that call Sender
    NULL,             \* the null handle
    SendQueueLength,  \* length of send_queue: 5 in the code
    MaxPk,            \* bound: packets of the longest message
    MaxCalls          \* bound: calls of Sender that pass the busy test

ASSUME SenderAssumption ==
    /\ NULL \notin Callers
    /\ SendQueueLength \in Nat \ {0}
    /\ MaxPk \in Nat
    /\ MaxCalls \in Nat

VARIABLES
    busy,              \* a call is in progress
    pc,                \* where each caller stands in Sender
    msg,               \* the message of each caller's call
    ret,               \* what each caller's last call returned
    send_queue,        \* messages waiting for the sender task
    send_paket_sem,    \* the handle field: NULL or the caller who created it
    sem,               \* the semaphore each caller created: freed, empty, full
    hnd,               \* the handle each caller is waiting on
    send_paket_error,  \* 1: a packet was given up
    ack_wait_sem,      \* binary semaphore given by the ACK interrupt
    task,              \* the sender task and the locals of its loops
    panic,             \* the firmware aborted
    calls,             \* ghost: calls that passed the busy test so far
    quiet,             \* ghost: the call found the link idle and stayed alone
    late,              \* ghost: the call's wait for completion timed out
    fate               \* ghost: what became of each message

callVars == <<busy, pc, msg, ret, hnd>>
ghosts   == <<calls, quiet, late, fate>>
vars     == <<busy, pc, msg, ret, send_queue, send_paket_sem, sem, hnd,
              send_paket_error, ack_wait_sem, task, panic,
              calls, quiet, late, fate>>

MsgIds   == 1 .. MaxCalls
Messages == [id : MsgIds, total : 0 .. MaxPk]
NoMsg    == [id |-> 0, total |-> 0]

\* Between the store busy=true and the store busy=false.
Section  == {"create", "clear", "queue", "take", "wait",
             "delete", "null", "read", "release"}
CallerPc == {"idle", "set"} \union Section
TaskPc   == {"recv", "write", "ackwait", "count", "next", "check", "give"}
Returns  == {"none", "RET_OK", "RET_BUSY", "RET_HARDWARE_ERROR"}
Fates    == {"none", "pending", "dropped", "sent", "failed", "lost"}

CallerTypeOK ==
    /\ busy \in BOOLEAN
    /\ pc \in [Callers -> CallerPc]
    /\ msg \in [Callers -> Messages \union {NoMsg}]
    /\ \A c \in Callers : pc[c] # "idle" => msg[c] \in Messages
    /\ ret \in [Callers -> Returns]
    /\ hnd \in [Callers -> Callers \union {NULL}]
    /\ \A c \in Callers : pc[c] = "wait" => hnd[c] \in Callers

LinkTypeOK ==
    /\ send_queue \in Seq(Messages)
    /\ Len(send_queue) <= SendQueueLength
    /\ send_paket_sem \in Callers \union {NULL}
    /\ sem \in [Callers -> {"freed", "empty", "full"}]
    /\ send_paket_error \in {0, 1}
    /\ ack_wait_sem \in {0, 1}
    /\ panic \in BOOLEAN

TaskRecord == [pc : TaskPc, msg : Messages \union {NoMsg}, pk : Nat,
               tries : Nat, sended : BOOLEAN, ok : BOOLEAN]

TaskTypeOK ==
    /\ task \in TaskRecord
    /\ task.pc # "recv" => task.msg \in Messages

GhostTypeOK ==
    /\ calls \in 0 .. MaxCalls
    /\ quiet \in [Callers -> BOOLEAN]
    /\ late \in [Callers -> BOOLEAN]
    /\ fate \in [MsgIds -> Fates]

TypeOK == CallerTypeOK /\ LinkTypeOK /\ TaskTypeOK /\ GhostTypeOK

IdleTask == [pc |-> "recv", msg |-> NoMsg, pk |-> 0, tries |-> 0,
             sended |-> FALSE, ok |-> TRUE]

Init ==
    /\ busy = FALSE
    /\ pc = [c \in Callers |-> "idle"]
    /\ msg = [c \in Callers |-> NoMsg]
    /\ ret = [c \in Callers |-> "none"]
    /\ send_queue = <<>>
    /\ send_paket_sem = NULL
    /\ sem = [c \in Callers |-> "freed"]
    /\ hnd = [c \in Callers |-> NULL]
    /\ send_paket_error = 0
    /\ ack_wait_sem = 0
    /\ task = IdleTask
    /\ panic = FALSE
    /\ quiet = [c \in Callers |-> TRUE]
    /\ late = [c \in Callers |-> FALSE]
    /\ calls = 0
    /\ fate = [i \in MsgIds |-> "none"]

-----------------------------------------------------------------------------
(* A caller inside UART::Sender and UART::_Sender.                         *)

At(c, from, to) == pc[c] = from /\ pc' = [pc EXCEPT ![c] = to]

\* if (busy) return RET_BUSY: the test, not yet the store.
SenderBusy(c) ==
    /\ pc[c] = "idle"
    /\ busy
    /\ ret' = [ret EXCEPT ![c] = "RET_BUSY"]
    /\ UNCHANGED <<busy, pc, msg, send_queue, send_paket_sem, sem, hnd,
                   send_paket_error, ack_wait_sem, task, panic, ghosts>>

SenderEnter(c, n) ==
    /\ calls < MaxCalls
    /\ ~busy
    /\ At(c, "idle", "set")
    /\ calls' = calls + 1
    /\ msg' = [msg EXCEPT ![c] = [id |-> calls + 1, total |-> n]]
    /\ ret' = [ret EXCEPT ![c] = "none"]
    /\ fate' = [fate EXCEPT ![calls + 1] = "pending"]
    /\ UNCHANGED <<busy, send_queue, send_paket_sem, sem, hnd,
                   send_paket_error, ack_wait_sem, task, panic, quiet, late>>

\* The sender task has nothing to do and no caller is in the section.
LinkIdle ==
    /\ send_queue = <<>>
    /\ task.pc = "recv"
    /\ \A d \in Callers : pc[d] \notin Section

SetBusy(c) ==
    /\ At(c, "set", "create")
    /\ busy' = TRUE
    /\ quiet' = [d \in Callers |->
                    IF d = c THEN LinkIdle
                    ELSE quiet[d] /\ pc[d] \notin Section]
    /\ late' = [late EXCEPT ![c] = FALSE]
    /\ UNCHANGED <<msg, ret, send_queue, send_paket_sem, sem, hnd,
                   send_paket_error, ack_wait_sem, task, panic, calls, fate>>

CreateSem(c) ==
    /\ At(c, "create", "clear")
    /\ send_paket_sem' = c
    /\ sem' = [sem EXCEPT ![c] = "empty"]
    /\ UNCHANGED <<busy, msg, ret, send_queue, hnd, send_paket_error,
                   ack_wait_sem, task, panic, ghosts>>

ClearError_Kept(c) ==
    /\ At(c, "clear", "queue")
    /\ UNCHANGED <<busy, msg, ret, send_queue, send_paket_sem, sem, hnd,
                   send_paket_error, ack_wait_sem, task, panic, ghosts>>

ClearError(c) ==
    /\ At(c, "clear", "queue")
    /\ send_paket_error' = 0
    /\ UNCHANGED <<busy, msg, ret, send_queue, send_paket_sem, sem, hnd,
                   ack_wait_sem, task, panic, ghosts>>

QueueFull_Never == FALSE
QueueFull == Len(send_queue) = SendQueueLength

\* xQueueSend with no waiting and its result ignored: a full queue drops.
Enqueue(c) ==
    /\ At(c, "queue", "take")
    /\ \/ /\ ~QueueFull
          /\ send_queue' = Append(send_queue, msg[c])
          /\ UNCHANGED fate
       \/ /\ QueueFull
          /\ fate' = [fate EXCEPT ![msg[c].id] = "dropped"]
          /\ UNCHANGED send_queue
    /\ UNCHANGED <<busy, msg, ret, send_paket_sem, sem, hnd, send_paket_error,
                   ack_wait_sem, task, panic, calls, quiet, late>>

\* The field is read once more for the take; a null handle aborts.
TakeSem(c) ==
    /\ pc[c] = "take"
    /\ \/ /\ send_paket_sem = NULL
          /\ panic' = TRUE
          /\ UNCHANGED <<pc, hnd>>
       \/ /\ send_paket_sem # NULL
          /\ pc' = [pc EXCEPT ![c] = "wait"]
          /\ hnd' = [hnd EXCEPT ![c] = send_paket_sem]
          /\ UNCHANGED panic
    /\ UNCHANGED <<busy, msg, ret, send_queue, send_paket_sem, sem,
                   send_paket_error, ack_wait_sem, task, ghosts>>

Completed(c) ==
    /\ At(c, "wait", "delete")
    /\ sem[hnd[c]] = "full"
    /\ sem' = [sem EXCEPT ![hnd[c]] = "empty"]
    /\ hnd' = [hnd EXCEPT ![c] = NULL]
    /\ UNCHANGED <<busy, msg, ret, send_queue, send_paket_sem,
                   send_paket_error, ack_wait_sem, task, panic, ghosts>>

\* The 2000 ms are over.  The result of the take is not looked at.
WaitTimeout(c) ==
    /\ At(c, "wait", "delete")
    /\ sem[hnd[c]] # "full"
    /\ late' = [late EXCEPT ![c] = TRUE]
    /\ hnd' = [hnd EXCEPT ![c] = NULL]
    /\ UNCHANGED <<busy, msg, ret, send_queue, send_paket_sem, sem,
                   send_paket_error, ack_wait_sem, task, panic,
                   calls, quiet, fate>>

\* Another caller deleted the semaphore this one waits on: undefined, the
\* wait may end the firmware instead of timing out.
WaitOnFreed(c) ==
    /\ pc[c] = "wait"
    /\ sem[hnd[c]] = "freed"
    /\ panic' = TRUE
    /\ UNCHANGED <<callVars, send_queue, send_paket_sem, sem,
                   send_paket_error, ack_wait_sem, task, ghosts>>

\* Using the handle field now is a null or a freed semaphore.
Dangling == send_paket_sem # NULL => sem[send_paket_sem] = "freed"

\* vSemaphoreDelete(send_paket_sem): whatever handle the field holds now.
DeleteSem(c) ==
    /\ pc[c] = "delete"
    /\ \/ /\ send_paket_sem # NULL
          /\ pc' = [pc EXCEPT ![c] = "null"]
          /\ sem' = [sem EXCEPT ![send_paket_sem] = "freed"]
          /\ UNCHANGED panic
       \/ /\ Dangling
          /\ panic' = TRUE
          /\ UNCHANGED <<pc, sem>>
    /\ UNCHANGED <<busy, msg, ret, send_queue, send_paket_sem, hnd,
                   send_paket_error, ack_wait_sem, task, ghosts>>

NullSem(c) ==
    /\ At(c, "null", "read")
    /\ send_paket_sem' = NULL
    /\ UNCHANGED <<busy, msg, ret, send_queue, sem, hnd, send_paket_error,
                   ack_wait_sem, task, panic, ghosts>>

ReadError(c) ==
    /\ At(c, "read", "release")
    /\ ret' = [ret EXCEPT ![c] = IF send_paket_error = 1
                                 THEN "RET_HARDWARE_ERROR" ELSE "RET_OK"]
    /\ UNCHANGED <<busy, msg, send_queue, send_paket_sem, sem, hnd,
                   send_paket_error, ack_wait_sem, task, panic, ghosts>>

Release_OnlyOnSuccess(c) ==
    /\ At(c, "release", "idle")
    /\ busy' = (ret[c] # "RET_OK")
    /\ msg' = [msg EXCEPT ![c] = NoMsg]
    /\ UNCHANGED <<ret, send_queue, send_paket_sem, sem, hnd,
                   send_paket_error, ack_wait_sem, task, panic, ghosts>>

Release(c) ==
    /\ At(c, "release", "idle")
    /\ busy' = FALSE
    /\ msg' = [msg EXCEPT ![c] = NoMsg]
    /\ UNCHANGED <<ret, send_queue, send_paket_sem, sem, hnd,
                   send_paket_error, ack_wait_sem, task, panic, ghosts>>

CallerStep(c) ==
    \/ SetBusy(c) \/ CreateSem(c) \/ ClearError(c) \/ Enqueue(c) \/ TakeSem(c)
    \/ Completed(c) \/ WaitTimeout(c) \/ WaitOnFreed(c)
    \/ DeleteSem(c) \/ NullSem(c) \/ ReadError(c) \/ Release(c)

-----------------------------------------------------------------------------
(* The sender task.                                                        *)

\* Where the task goes when the packet loop is over, and what that makes of
\* the message (ghost): sent means every packet was acknowledged in time.
LeaveLoop(m) == [IdleTask EXCEPT !.pc = "check", !.msg = m]
Outcome(t) == IF t.ok /\ t.pk >= t.msg.total THEN "sent" ELSE "failed"

\* xQueueReceive takes the head off the queue.
RestOfQueue_Peek == send_queue
RestOfQueue == Tail(send_queue)

\* A message without packets (an empty string) goes straight to the end.
TaskReceive ==
    /\ task.pc = "recv"
    /\ send_queue # <<>>
    /\ send_queue' = RestOfQueue
    /\ LET m == Head(send_queue)
           t == [pc |-> "write", msg |-> m, pk |-> 1, tries |-> 0,
                 sended |-> TRUE, ok |-> TRUE]
       IN  IF m.total = 0
           THEN task' = LeaveLoop(m) /\ fate' = [fate EXCEPT ![m.id] = "sent"]
           ELSE task' = t /\ UNCHANGED fate
    /\ UNCHANGED <<callVars, send_paket_sem, sem, send_paket_error,
                   ack_wait_sem, panic, calls, quiet, late>>

\* One transmission; a short write skips the wait for the acknowledgement.
TaskWrite ==
    /\ task.pc = "write"
    /\ \E to \in {"ackwait", "count"} :
          task' = [task EXCEPT !.pc = to, !.tries = (@ + 1) % 256]
    /\ UNCHANGED <<callVars, send_queue, send_paket_sem, sem,
                   send_paket_error, ack_wait_sem, panic, ghosts>>

TaskAck ==
    /\ task.pc = "ackwait"
    /\ ack_wait_sem = 1
    /\ ack_wait_sem' = 0
    /\ task' = [task EXCEPT !.pc = "count", !.sended = FALSE]
    /\ UNCHANGED <<callVars, send_queue, send_paket_sem, sem,
                   send_paket_error, panic, ghosts>>

TaskNoAck_WaitForever == FALSE

TaskNoAck ==
    /\ task.pc = "ackwait"
    /\ ack_wait_sem = 0
    /\ task' = [task EXCEPT !.pc = "count"]
    /\ UNCHANGED <<callVars, send_queue, send_paket_sem, sem,
                   send_paket_error, ack_wait_sem, panic, ghosts>>

\* if (send_counter>3): tested after an acknowledgement as well.
Exhausted(tries) == tries > 3

TaskCount ==
    /\ task.pc = "count"
    /\ \/ /\ Exhausted(task.tries)
          /\ send_paket_error' = 1
          /\ task' = [task EXCEPT !.pc = "next", !.sended = FALSE, !.ok = FALSE]
       \/ /\ ~Exhausted(task.tries)
          /\ task' = [task EXCEPT !.pc = IF task.sended THEN "write" ELSE "next"]
          /\ UNCHANGED send_paket_error
    /\ UNCHANGED <<callVars, send_queue, send_paket_sem, sem, ack_wait_sem,
                   panic, ghosts>>

\* if (send_paket_error>0) break, else the next packet.
StopLoop_NoBreak == task.pk = task.msg.total
StopLoop_OffByOne ==
    send_paket_error > 0 \/ task.pk + 1 >= task.msg.total
StopLoop == send_paket_error > 0 \/ task.pk = task.msg.total

TaskNext ==
    /\ task.pc = "next"
    /\ \/ /\ StopLoop
          /\ task' = LeaveLoop(task.msg)
          /\ fate' = [fate EXCEPT ![task.msg.id] = Outcome(task)]
       \/ /\ ~StopLoop
          /\ task' = [task EXCEPT !.pc = "write", !.pk = @ + 1,
                                  !.tries = 0, !.sended = TRUE]
          /\ UNCHANGED fate
    /\ UNCHANGED <<callVars, send_queue, send_paket_sem, sem,
                   send_paket_error, ack_wait_sem, panic, calls, quiet, late>>

\* if (send_paket_sem!=NULL): the field is read again by the give.
TaskCheck ==
    /\ task.pc = "check"
    /\ task' = IF send_paket_sem = NULL THEN IdleTask
               ELSE [task EXCEPT !.pc = "give"]
    /\ UNCHANGED <<callVars, send_queue, send_paket_sem, sem,
                   send_paket_error, ack_wait_sem, panic, ghosts>>

TaskGive ==
    /\ task.pc = "give"
    /\ task' = IdleTask
    /\ \/ /\ send_paket_sem # NULL
          /\ sem' = [sem EXCEPT ![send_paket_sem] =
                        IF @ = "freed" THEN "freed" ELSE "full"]
          /\ UNCHANGED panic
       \/ /\ Dangling
          /\ panic' = TRUE
          /\ UNCHANGED sem
    /\ UNCHANGED <<callVars, send_queue, send_paket_sem, send_paket_error,
                   ack_wait_sem, ghosts>>

TaskStep ==
    \/ TaskReceive \/ TaskWrite \/ TaskAck \/ TaskNoAck \/ TaskCount
    \/ TaskNext \/ TaskCheck \/ TaskGive

-----------------------------------------------------------------------------
\* The ACK interrupt: a falling edge on ARX, at any time.
AckHandler ==
    /\ ack_wait_sem' = 1
    /\ UNCHANGED <<callVars, send_queue, send_paket_sem, sem,
                   send_paket_error, task, panic, ghosts>>

\* After an abort the chip restarts with every variable initial.
Reboot ==
    /\ panic
    /\ busy' = FALSE
    /\ pc' = [c \in Callers |-> "idle"]
    /\ msg' = [c \in Callers |-> NoMsg]
    /\ ret' = [c \in Callers |-> "none"]
    /\ send_queue' = <<>>
    /\ send_paket_sem' = NULL
    /\ sem' = [c \in Callers |-> "freed"]
    /\ hnd' = [c \in Callers |-> NULL]
    /\ send_paket_error' = 0
    /\ ack_wait_sem' = 0
    /\ task' = IdleTask
    /\ panic' = FALSE
    /\ quiet' = [c \in Callers |-> TRUE]
    /\ late' = [c \in Callers |-> FALSE]
    /\ fate' = [i \in MsgIds |-> IF fate[i] = "pending" THEN "lost" ELSE fate[i]]
    /\ UNCHANGED calls

Next ==
    \/ /\ ~panic
       /\ \/ \E c \in Callers :
                \/ SenderBusy(c)
                \/ \E n \in 0 .. MaxPk : SenderEnter(c, n)
                \/ CallerStep(c)
          \/ TaskStep
          \/ AckHandler
    \/ Reboot

Spec == Init /\ [][Next]_vars

\* FreeRTOS runs a ready task, and both waits have a timeout; nobody is
\* obliged to call Sender and no acknowledgement is promised.
Fairness ==
    /\ \A c \in Callers : WF_vars(~panic /\ CallerStep(c))
    /\ WF_vars(~panic /\ TaskStep)

FairSpec == Spec /\ Fairness
-----------------------------------------------------------------------------
(* Safety.                                                                 *)

\* A call that found the link idle, stayed the only one in the section and
\* did not time out returns the truth about its own message: RET_OK only if
\* every packet was acknowledged within three transmissions, and
\* RET_HARDWARE_ERROR only if one was not (uart.cpp:123-135, 103, 116).
ResultIsTruth ==
    \A c \in Callers :
        pc[c] = "release" /\ quiet[c] /\ ~late[c] =>
            fate[msg[c].id] = IF ret[c] = "RET_OK" THEN "sent" ELSE "failed"

\* The semaphore handed between a caller and the sender task is used after it
\* was deleted, or through a null handle, only when a call timed out or two
\* calls were in the section together (uart.cpp:114-116, 126-131, 139-140).
PanicNeedsLateOrOverlap ==
    panic => \E c \in Callers : late[c] \/ ~quiet[c]

\* After a packet is given up no later packet of the same message goes out,
\* unless a caller that did not find the link idle cleared send_paket_error
\* behind the task's back (uart.cpp:100-109, 128).
NoGapAfterGiveUp ==
    [][ (task.pc = "next" /\ task'.pc = "write" /\ ~task.ok)
            => \E c \in Callers : ~quiet[c] ]_vars

\* The same error flag works the other way round: it cuts a message none of
\* whose packets was given up only when a call that did not find the link
\* idle queued that message behind a failing one.
NoStaleErrorCut ==
    [][ (task.pc = "next" /\ task'.pc = "check"
            /\ task.ok /\ task.pk < task.msg.total)
            => \E c \in Callers : ~quiet[c] ]_vars

(* Liveness.                                                               *)

\* The busy flag does not stay set, whatever happens to the acknowledgements
\* and to earlier messages: send_action polls it (events.c:205) before every
\* command for CPU2.
LinkFreed == busy ~> (~busy \/ panic)

\* Every message that passed the busy test is settled: sent, given up, or
\* dropped by a full queue; the sender task does not hang on it.
MessageSettled ==
    \A i \in MsgIds : fate[i] = "pending" ~> (fate[i] # "pending" \/ panic)

\* Both waits of the sending half end: the busy flag's and the caller's.
WaitsEnd == LinkFreed /\ MessageSettled

(* The inductive strengthening of the safety properties.                   *)

Disturbed == \E c \in Callers : ~quiet[c]
InLoop    == task.pc \in {"write", "ackwait", "count", "next"}

\* The error flag agrees with what became of the message of c.
Settled(c) ==
    fate[msg[c].id] = IF send_paket_error = 0 THEN "sent" ELSE "failed"

\* Where the message of a waiting caller is: queued, with the task, or done.
Queued(c)   == /\ send_queue = <<msg[c]>> /\ task.pc = "recv"
               /\ sem[c] = "empty" /\ send_paket_error = 0
WithTask(c) == /\ send_queue = <<>> /\ task.pc # "recv"
               /\ task.msg = msg[c] /\ sem[c] = "empty"
               /\ InLoop => task.pk <= msg[c].total
               /\ InLoop => send_paket_error = IF task.ok THEN 0 ELSE 1
               /\ ~InLoop => Settled(c)
Done(c)     == /\ send_queue = <<>> /\ task.pc = "recv"
               /\ sem[c] = "full" /\ Settled(c)

\* What holds at each point of a call that found the link idle.
Handshake(c) ==
    /\ \A d \in Callers \ {c} : pc[d] \notin Section
    /\ pc[c] \in {"clear", "queue", "take", "wait", "delete", "null"} =>
            send_paket_sem = c
    /\ pc[c] \in {"create", "clear", "queue"} =>
            send_queue = <<>> /\ task.pc = "recv"
    /\ pc[c] \in {"clear", "queue"} => sem[c] = "empty"
    /\ pc[c] = "queue" => send_paket_error = 0
    /\ pc[c] \in {"take", "wait"} => Queued(c) \/ WithTask(c) \/ Done(c)
    /\ pc[c] = "wait" => hnd[c] = c
    /\ pc[c] = "delete" => sem[c] # "freed"
    /\ pc[c] \in {"delete", "null", "read", "release"} /\ ~late[c] =>
            send_queue = <<>> /\ task.pc = "recv"
    /\ pc[c] \in {"delete", "null", "read"} /\ ~late[c] => Settled(c)
    /\ pc[c] = "release" /\ ~late[c] =>
            fate[msg[c].id] = IF ret[c] = "RET_OK" THEN "sent" ELSE "failed"

QuietInv == \A c \in Callers : quiet[c] /\ pc[c] \in Section => Handshake(c)

\* Work nobody waits for was left behind by a late or overlapping call.
OrphanInv ==
    (send_queue # <<>> \/ task.pc # "recv") =>
        \E c \in Callers : late[c] \/ ~quiet[c] \/ pc[c] \in {"take", "wait"}

\* Two messages in flight, or an error flag that is not the current
\* message's own, were caused by a call that did not find the link idle.
BacklogInv ==
    (Len(send_queue) >= 2 \/ (send_queue # <<>> /\ task.pc # "recv"))
        => Disturbed
ErrorInv ==
    /\ send_paket_error = 1 /\ (send_queue # <<>> \/ (InLoop /\ task.ok))
            => Disturbed
    /\ send_paket_error = 0 /\ InLoop /\ ~task.ok => Disturbed

IdInv == \A c \in Callers : msg[c].id <= calls

IInv ==
    /\ TypeOK
    /\ QuietInv
    /\ OrphanInv
    /\ BacklogInv
    /\ ErrorInv
    /\ IdInv
    /\ PanicNeedsLateOrOverlap

(* What the comments say.                                                  *)

\* uart.cpp:103 "3 kez denendi no ack": a packet is given up only when no
\* acknowledgement came for it.
GivenUpOnlyWithoutAck ==
    [][ (task.pc = "count" /\ send_paket_error' = 1 /\ send_paket_error = 0)
            => task.sended ]_vars
=============================================================================
