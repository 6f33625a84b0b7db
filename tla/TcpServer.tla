----------------------------- MODULE TcpServer ------------------------------
(***************************************************************************)
(* TcpServer: server_task accepts connections and keeps the client list,   *)
(* one wait_data task per connection posts what it receives to the event   *)
(* loop, and the event loop and the UART callback task send to every       *)
(* active client.  None of the shared fields is locked: the list behind    *)
(* client_handle, last_socket, sender_busy, and the receive buffer whose   *)
(* address travels in the posted event.                                    *)
(*                                                                         *)
(* Connections are numbered in the order they are accepted; connection n   *)
(* and the task that was created for it share the number.  A descriptor is *)
(* free, or holds the number of the connection it stands for.              *)
(***************************************************************************)
EXTENDS Naturals, Sequences, FiniteSets

CONSTANTS
    Peers,        \* addresses that connect
    Senders,      \* tasks that call Send
    EventLoop,    \* the one of them that handles posted events
    Descriptors,  \* descriptors left for clients, a set of numbers
    MaxConns,     \* bound: connections accepted
    MaxData       \* bound: buffers received

ASSUME TcpAssumption ==
    /\ EventLoop \in Senders
    /\ Descriptors \subseteq Nat /\ IsFiniteSet(Descriptors)
    /\ MaxConns \in Nat
    /\ MaxData \in Nat

VARIABLES
    server,       \* server_task: where it stands and what accept returned
    last_socket,
    clients,      \* the list behind client_handle, its tail first
    fd,           \* for each descriptor its connection, 0 when it is free
    peerOf,       \* the address of each accepted connection
    gone,         \* connections the peer ended
    wd,           \* the wait_data tasks: where each stands, its sck
    rx_buffer,    \* the buffer of each task: what was received last, 0 freed
    events,       \* posted events: whose buffer, and (ghost) what it held
    sender_busy,
    snd,          \* the callers of Send: where each stands in the list
    received,     \* ghost: buffers received so far
    raced,        \* ghost: a task started with the socket of another
    slow          \* ghost: an event outlived the 100 ms of its buffer

taskVars == <<wd, rx_buffer>>
sendVars == <<sender_busy, snd>>
vars == <<server, last_socket, clients, fd, peerOf, gone, wd, rx_buffer, events,
          sender_busy, snd, received, raced, slow>>

Conns   == 1 .. MaxConns
Entries == [sock : Descriptors, ip : Peers, active : {0, 1}]

ServerTypes ==
    /\ server \in [pc : {"accept", "list", "store", "create", "stopped"},
                   sock : Descriptors \union {0}]
    /\ last_socket \in Descriptors \union {0}

ClientTypes ==
    /\ clients \in Seq(Entries)
    /\ \A i, j \in 1 .. Len(clients) :
          clients[i].sock = clients[j].sock /\ clients[i].ip = clients[j].ip
            => i = j

SocketTypes ==
    /\ peerOf \in Seq(Peers) /\ Len(peerOf) <= MaxConns
    /\ fd \in [Descriptors -> 0 .. Len(peerOf)]
    /\ gone \subseteq 1 .. Len(peerOf)

TaskTypes ==
    /\ wd \in [Conns -> [pc : {"none", "start", "recv", "delay", "delete",
                               "close", "end"},
                         sck : Descriptors \union {0}]]
    /\ rx_buffer \in [Conns -> 0 .. MaxData]
    /\ events \in Seq([task : Conns, data : 1 .. MaxData])
    /\ received \in 0 .. MaxData

SendTypes ==
    /\ snd \in [Senders -> [pc : {"idle", "want", "set", "test", "send"}, at : Nat]]
    /\ \A s \in Senders : snd[s].at <= Len(clients)

FlagTypes == sender_busy \in BOOLEAN /\ raced \in BOOLEAN /\ slow \in BOOLEAN

TypeOK == FlagTypes /\ ServerTypes /\ ClientTypes /\ SocketTypes /\ TaskTypes /\ SendTypes

Init ==
    /\ server = [pc |-> "accept", sock |-> 0]
    /\ last_socket = 0
    /\ clients = <<>>
    /\ fd = [s \in Descriptors |-> 0]
    /\ peerOf = <<>>
    /\ gone = {}
    /\ wd = [n \in Conns |-> [pc |-> "none", sck |-> 0]]
    /\ rx_buffer = [n \in Conns |-> 0]
    /\ events = <<>>
    /\ sender_busy = FALSE
    /\ snd = [s \in Senders |-> [pc |-> "idle", at |-> 0]]
    /\ received = 0
    /\ raced = FALSE
    /\ slow = FALSE

-----------------------------------------------------------------------------
(* server_task.                                                            *)

Lowest(S) == CHOOSE s \in S : \A r \in S : s <= r
Free      == {s \in Descriptors : fd[s] = 0}

\* A peer connects and accept returns the lowest free descriptor.
Accept(p) ==
    /\ server.pc = "accept"
    /\ Len(peerOf) < MaxConns
    /\ Free # {}
    /\ server' = [pc |-> "list", sock |-> Lowest(Free)]
    /\ fd' = [fd EXCEPT ![Lowest(Free)] = Len(peerOf) + 1]
    /\ peerOf' = Append(peerOf, p)
    /\ UNCHANGED <<last_socket, clients, gone, taskVars, events, sendVars,
                   received, raced, slow>>

\* No descriptor left: the loop is broken and the server never accepts again.
AcceptFails ==
    /\ server.pc = "accept"
    /\ Len(peerOf) < MaxConns
    /\ Free = {}
    /\ server' = [pc |-> "stopped", sock |-> 0]
    /\ UNCHANGED <<last_socket, clients, fd, peerOf, gone, taskVars, events,
                   sendVars, received, raced, slow>>

\* The entries of this address and descriptor; there is at most one.
Known_Never(p) == {}
Known_BySocket(p) == {i \in 1 .. Len(clients) : clients[i].sock = server.sock}
Known(p) == {i \in 1 .. Len(clients) :
                clients[i].ip = p /\ clients[i].sock = server.sock}

ListClient ==
    /\ server.pc = "list"
    /\ server' = [server EXCEPT !.pc = "store"]
    /\ LET p == peerOf[Len(peerOf)]
       IN  \/ /\ Known(p) = {}
              /\ clients' = Append(clients, [sock |-> server.sock, ip |-> p,
                                             active |-> 1])
           \/ \E i \in Known(p) : clients' = [clients EXCEPT ![i].active = 1]
    /\ UNCHANGED <<last_socket, fd, peerOf, gone, taskVars, events, sendVars,
                   received, raced, slow>>

StoreSocket ==
    /\ server.pc = "store"
    /\ last_socket' = server.sock
    /\ server' = [server EXCEPT !.pc = "create"]
    /\ UNCHANGED <<clients, fd, peerOf, gone, taskVars, events, sendVars,
                   received, raced, slow>>

CreateTask ==
    /\ server.pc = "create"
    /\ server' = [pc |-> "accept", sock |-> 0]
    /\ wd' = [wd EXCEPT ![Len(peerOf)].pc = "start"]
    /\ UNCHANGED <<last_socket, clients, fd, peerOf, gone, rx_buffer, events,
                   sendVars, received, raced, slow>>

-----------------------------------------------------------------------------
(* wait_data and data_transmit.                                            *)

\* The socket is read from the shared field by the new task, not passed to it.
Start(n) ==
    /\ wd[n].pc = "start"
    /\ wd' = [wd EXCEPT ![n] = [pc |-> "recv", sck |-> last_socket]]
    /\ raced' = (raced \/ fd[last_socket] # n)
    /\ UNCHANGED <<server, last_socket, clients, fd, peerOf, gone, rx_buffer,
                   events, sendVars, received, slow>>

\* Data arrived: it is put in the buffer, and the address of the buffer is
\* posted to the event loop.
Receive(n) ==
    /\ wd[n].pc = "recv"
    /\ fd[wd[n].sck] # 0
    /\ received < MaxData
    /\ received' = received + 1
    /\ rx_buffer' = [rx_buffer EXCEPT ![n] = received + 1]
    /\ events' = Append(events, [task |-> n, data |-> received + 1])
    /\ wd' = [wd EXCEPT ![n].pc = "delay"]
    /\ UNCHANGED <<server, last_socket, clients, fd, peerOf, gone, sendVars,
                   raced, slow>>

Pending(n) == \E i \in 1 .. Len(events) : events[i].task = n

DelayOver_None(n) ==
    /\ wd[n].pc = "delay"
    /\ wd' = [wd EXCEPT ![n].pc = "recv"]
    /\ UNCHANGED <<server, last_socket, clients, fd, peerOf, gone, rx_buffer,
                   events, sendVars, received, raced, slow>>

\* 100 ms later the task reads again, whether or not the event was handled.
DelayOver(n) ==
    /\ wd[n].pc = "delay"
    /\ wd' = [wd EXCEPT ![n].pc = "recv"]
    /\ slow' = (slow \/ Pending(n))
    /\ UNCHANGED <<server, last_socket, clients, fd, peerOf, gone, rx_buffer,
                   events, sendVars, received, raced>>

\* recv returns 0 or -1: the peer is gone, or the descriptor was closed.
RecvEnds_OnTimeout(n) == TRUE
RecvEnds(n) == fd[wd[n].sck] \in gone \union {0}

EndOfData(n) ==
    /\ wd[n].pc = "recv"
    /\ RecvEnds(n)
    /\ wd' = [wd EXCEPT ![n].pc = "delete"]
    /\ rx_buffer' = [rx_buffer EXCEPT ![n] = 0]
    /\ UNCHANGED <<server, last_socket, clients, fd, peerOf, gone, events,
                   sendVars, received, raced, slow>>

DeleteClient_Missing(n) ==
    /\ wd[n].pc = "delete"
    /\ wd' = [wd EXCEPT ![n].pc = "close"]
    /\ UNCHANGED <<server, last_socket, clients, fd, peerOf, gone, rx_buffer,
                   events, sendVars, received, raced, slow>>

\* delete_client: the first active entry of the descriptor, from the head.
DeleteClient(n) ==
    /\ wd[n].pc = "delete"
    /\ LET A == {i \in 1 .. Len(clients) :
                    clients[i].sock = wd[n].sck /\ clients[i].active = 1}
       IN  clients' = [i \in 1 .. Len(clients) |->
                          IF i \in A /\ \A j \in A : j <= i
                          THEN [clients[i] EXCEPT !.active = 0] ELSE clients[i]]
    /\ wd' = [wd EXCEPT ![n].pc = "close"]
    /\ UNCHANGED <<server, last_socket, fd, peerOf, gone, rx_buffer, events,
                   sendVars, received, raced, slow>>

Close_Missing(n) ==
    /\ wd[n].pc = "close"
    /\ wd' = [wd EXCEPT ![n].pc = "end"]
    /\ UNCHANGED <<server, last_socket, clients, fd, peerOf, gone, rx_buffer,
                   events, sendVars, received, raced, slow>>

Close(n) ==
    /\ wd[n].pc = "close"
    /\ fd' = [fd EXCEPT ![wd[n].sck] = 0]
    /\ wd' = [wd EXCEPT ![n].pc = "end"]
    /\ UNCHANGED <<server, last_socket, clients, peerOf, gone, rx_buffer, events,
                   sendVars, received, raced, slow>>

\* The peer ends the connection, or keepalive finds it dead.
PeerGone(n) ==
    /\ n <= Len(peerOf)
    /\ n \notin gone
    /\ gone' = gone \union {n}
    /\ UNCHANGED <<server, last_socket, clients, fd, peerOf, taskVars, events,
                   sendVars, received, raced, slow>>

-----------------------------------------------------------------------------
(* Send, and the event loop that calls it to answer.                       *)

Move(s, to, at) == snd' = [snd EXCEPT ![s] = [pc |-> to, at |-> at]]

\* tcp_handler copies the buffer of the event, and answers with Send or not.
HandleEvent ==
    /\ snd[EventLoop].pc = "idle"
    /\ events # <<>>
    /\ events' = Tail(events)
    /\ \E to \in {"idle", "want"} : Move(EventLoop, to, 0)
    /\ UNCHANGED <<server, last_socket, clients, fd, peerOf, gone, taskVars,
                   sender_busy, received, raced, slow>>

\* uart_callback has something for the clients.
WantSend(s) ==
    /\ s # EventLoop
    /\ snd[s].pc = "idle"
    /\ Move(s, "want", 0)
    /\ UNCHANGED <<server, last_socket, clients, fd, peerOf, gone, taskVars,
                   events, sender_busy, received, raced, slow>>

\* if (sender_busy) return 0: the text is dropped.
SendRefused(s) ==
    /\ snd[s].pc = "want"
    /\ sender_busy
    /\ Move(s, "idle", 0)
    /\ UNCHANGED <<server, last_socket, clients, fd, peerOf, gone, taskVars,
                   events, sender_busy, received, raced, slow>>

SendEnter(s) ==
    /\ snd[s].pc = "want"
    /\ ~sender_busy
    /\ Move(s, "set", 0)
    /\ UNCHANGED <<server, last_socket, clients, fd, peerOf, gone, taskVars,
                   events, sender_busy, received, raced, slow>>

SendBegin(s) ==
    /\ snd[s].pc = "set"
    /\ sender_busy' = TRUE
    /\ Move(s, "test", Len(clients))
    /\ UNCHANGED <<server, last_socket, clients, fd, peerOf, gone, taskVars,
                   events, received, raced, slow>>

\* target->active is read here, target->sock used in the next step.
SendTest(s) ==
    /\ snd[s].pc = "test"
    /\ snd[s].at > 0
    /\ IF clients[snd[s].at].active = 1 THEN Move(s, "send", snd[s].at)
       ELSE Move(s, "test", snd[s].at - 1)
    /\ UNCHANGED <<server, last_socket, clients, fd, peerOf, gone, taskVars,
                   events, sender_busy, received, raced, slow>>

SendOut(s) ==
    /\ snd[s].pc = "send"
    /\ Move(s, "test", snd[s].at - 1)
    /\ UNCHANGED <<server, last_socket, clients, fd, peerOf, gone, taskVars,
                   events, sender_busy, received, raced, slow>>

SendEnd_EmptyReturns(s) ==
    /\ snd[s].pc = "test"
    /\ snd[s].at = 0
    /\ sender_busy' = (clients = <<>>)
    /\ Move(s, "idle", 0)
    /\ UNCHANGED <<server, last_socket, clients, fd, peerOf, gone, taskVars,
                   events, received, raced, slow>>

SendEnd(s) ==
    /\ snd[s].pc = "test"
    /\ snd[s].at = 0
    /\ sender_busy' = FALSE
    /\ Move(s, "idle", 0)
    /\ UNCHANGED <<server, last_socket, clients, fd, peerOf, gone, taskVars,
                   events, received, raced, slow>>

-----------------------------------------------------------------------------
ServerStep == ListClient \/ StoreSocket \/ CreateTask
TaskStep(n) ==
    Start(n) \/ DelayOver(n) \/ EndOfData(n) \/ DeleteClient(n) \/ Close(n)
SendStep(s) ==
    \/ SendRefused(s) \/ SendEnter(s) \/ SendBegin(s)
    \/ SendTest(s) \/ SendOut(s) \/ SendEnd(s)

Next ==
    \/ \E p \in Peers : Accept(p)
    \/ AcceptFails
    \/ ServerStep
    \/ \E n \in Conns : Receive(n) \/ PeerGone(n) \/ TaskStep(n)
    \/ HandleEvent
    \/ \E s \in Senders : WantSend(s) \/ SendStep(s)

Spec == Init /\ [][Next]_vars

-----------------------------------------------------------------------------
\* A connection is closed only after its own peer ended it, unless two
\* accepts overtook a starting task and it took the socket of the later one
\* (tcpserver.cpp:10, 146, 153): then a task left over from one connection
\* closes the descriptor of another.
ClosedByOwnEnd ==
    [][ \A s \in Descriptors :
            fd[s] # 0 /\ fd'[s] = 0 => fd[s] \in gone \/ raced ]_vars

\* Every connection the server has listed is in the client list as exactly one
\* active entry, with its descriptor and address, until its own task takes it
\* out; and nothing else is active (tcpserver.cpp:124-145, 215-229).
Listed(n) == n < Len(peerOf) \/ server.pc \notin {"list"}
Active(s) == {i \in 1 .. Len(clients) : clients[i].sock = s /\ clients[i].active = 1}
ListMatchesSockets ==
    ~raced => \A s \in Descriptors :
        /\ Cardinality(Active(s)) <= 1
        /\ Active(s) # {} => fd[s] # 0
        /\ fd[s] # 0 /\ Listed(fd[s]) /\ wd[fd[s]].pc # "close" =>
                \E i \in Active(s) : clients[i].ip = peerOf[fd[s]]

\* A text goes to the address of the entry it was sent for, or to nobody,
\* unless the entry was deactivated after it was tested (tcpserver.cpp:174).
SentToEntry ==
    [][ \A s \in Senders : snd[s].pc = "send" /\ snd'[s].pc = "test" =>
            LET e == clients[snd[s].at]
            IN  \/ fd[e.sock] = 0
                \/ peerOf[fd[e.sock]] = e.ip
                \/ e.active = 0
                \/ raced ]_vars

\* The sockets of different peers do not mix: neither in closing nor in sending.
SocketsStayApart == ClosedByOwnEnd /\ SentToEntry

\* The event loop reads what was posted, unless an earlier event held it up
\* for longer than 100 ms: the next receive overwrites the buffer and the end
\* of the connection frees it (tcpserver.cpp:32-39, 56; events.c:98-99).
EventDataIntact ==
    [][ events # <<>> /\ events' = Tail(events) =>
            \/ rx_buffer[Head(events).task] = Head(events).data
            \/ slow ]_vars

\* sender_busy is never left set by nobody: three loops wait for it to clear
\* (events.c:126, 171; uartcallback.cpp:14, 29).
BusyHasOwner == sender_busy => \E s \in Senders : snd[s].pc \in {"test", "send"}

\* Every open connection belongs to the task that was created for it and will
\* close it, or is still in the hands of the server; otherwise nobody would
\* read it or give its descriptor back, and accept ends for good when none is
\* left (tcpserver.cpp:109-112).
Served(n) ==
    \/ n = Len(peerOf) /\ server.pc \in {"list", "store", "create"}
    \/ wd[n].pc = "start"
    \/ wd[n].pc \in {"recv", "delay", "delete", "close"} /\ fd[wd[n].sck] = n
EveryConnectionServed ==
    ~raced => \A s \in Descriptors : fd[s] # 0 => Served(fd[s])

\* Nothing is left to nobody: neither the busy flag nor a connection.
NothingAbandoned == BusyHasOwner /\ EveryConnectionServed

(* The inductive strengthening of the properties.                          *)

\* The server holds the connection it accepted last: no task has been created
\* for it.
Handling == server.pc \in {"list", "store", "create"}

\* Which tasks there are, and that the sockets they read are descriptors.
TaskInv ==
    /\ Handling => Len(peerOf) > 0 /\ server.sock \in Descriptors
    /\ server.pc = "create" => last_socket = server.sock
    /\ \A n \in Conns :
          /\ wd[n].pc = "none" <=> n > Len(peerOf) \/ (n = Len(peerOf) /\ Handling)
          /\ wd[n].pc = "start" => last_socket \in Descriptors
          /\ wd[n].pc \notin {"none", "start"} => wd[n].sck \in Descriptors

\* A connection has one descriptor, and a task that was not overtaken reads the
\* one of its own.
SocketInv ==
    /\ \A s, r \in Descriptors : fd[s] = fd[r] /\ fd[s] # 0 => s = r
    /\ ~raced =>
        /\ Handling => fd[server.sock] = Len(peerOf)
        /\ \A n \in Conns :
              /\ wd[n].pc \in {"recv", "delay", "delete", "close"} => fd[wd[n].sck] = n
              /\ wd[n].pc \in {"delete", "close"} => n \in gone

\* The active entries: of a free descriptor none, and none of one whose
\* connection is not listed yet or not any more.
InService(s) == fd[s] # 0 /\ Listed(fd[s]) /\ wd[fd[s]].pc # "close"
ListInv ==
    ~raced => \A s \in Descriptors :
        /\ \A i, j \in Active(s) : i = j
        /\ IF InService(s)
           THEN \E i \in Active(s) : clients[i].ip = peerOf[fd[s]]
           ELSE Active(s) = {}

\* A task whose event was not handled yet is in its 100 ms.
EventInv ==
    ~slow => \A i \in 1 .. Len(events) :
        /\ wd[events[i].task].pc = "delay"
        /\ rx_buffer[events[i].task] = events[i].data

SendInv == BusyHasOwner /\ \A s \in Senders : snd[s].pc = "send" => snd[s].at > 0

IInv == TypeOK /\ TaskInv /\ SocketInv /\ EveryConnectionServed /\ ListInv
          /\ EventInv /\ SendInv
=============================================================================
