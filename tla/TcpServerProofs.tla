-------------------------- MODULE TcpServerProofs ---------------------------
(* Proofs about TcpServer, for every set of addresses, senders and          *)
(* descriptors and every bound on connections and buffers.                   *)
EXTENDS TcpServer, FiniteSetTheorems, SequenceTheorems, WellFoundedInduction, TLAPS

\* A set of numbers has a least element: accept has a descriptor to return.
LEMMA LowestIn ==
  ASSUME NEW S, S \subseteq Nat, S # {}
  PROVE  Lowest(S) \in S
<1>1. PICK x \in S : \A y \in S : ~ (<<y, x>> \in OpToRel(<, Nat))
  BY NatLessThanWellFounded, WFMin, Zenon
<1>2. \A y \in S : ~ (<<y, x>> \in {ss \in Nat \X Nat : ss[1] < ss[2]})
  BY <1>1, Zenon DEF OpToRel
<1>3. \A r \in S : x <= r
  <2> SUFFICES ASSUME NEW r \in S PROVE ~ (r < x)
    OBVIOUS
  <2>1. <<r, x>> \in Nat \X Nat /\ <<r, x>>[1] = r /\ <<r, x>>[2] = x
    OBVIOUS
  <2>. QED
    BY <1>2, <2>1
<1>. QED
  BY <1>3 DEF Lowest

\* The lowest free descriptor is a descriptor, and it is free.
LEMMA FreeDescriptor ==
  ASSUME Free # {}
  PROVE  Lowest(Free) \in Descriptors /\ fd[Lowest(Free)] = 0
<1>1. Free \subseteq Nat
  BY TcpAssumption DEF Free
<1>2. Lowest(Free) \in Free
  BY <1>1, LowestIn
<1>. QED
  BY <1>2 DEF Free

\* Which steps touch which variables.
LEMMA WhoTouchesServer ==
  ASSUME [Next]_vars
  PROVE  /\ (\E p \in Peers : Accept(p)) \/ AcceptFails \/ ServerStep
              \/ UNCHANGED <<server, last_socket>>
         /\ ListClient \/ (\E n \in Conns : DeleteClient(n)) \/ UNCHANGED clients
         /\ (\E p \in Peers : Accept(p)) \/ UNCHANGED peerOf
         /\ (\E p \in Peers : Accept(p)) \/ (\E n \in Conns : Close(n)) \/ UNCHANGED fd
         /\ (\E n \in Conns : PeerGone(n)) \/ UNCHANGED gone
BY DEF Next, ServerStep, TaskStep, SendStep, Accept, AcceptFails, ListClient, StoreSocket,
   CreateTask, Start, Receive, DelayOver, EndOfData, DeleteClient, Close, PeerGone,
   HandleEvent, WantSend, SendRefused, SendEnter, SendBegin, SendTest, SendOut, SendEnd,
   taskVars, sendVars, vars

\* The connection tasks and their buffers change only when a task is created,
\* receives or steps.
LEMMA WhoTouchesTasks ==
  ASSUME [Next]_vars
  PROVE  /\ CreateTask \/ (\E n \in Conns : Receive(n) \/ TaskStep(n))
              \/ UNCHANGED <<wd, rx_buffer, received, raced, slow>>
         /\ (\E n \in Conns : Receive(n)) \/ HandleEvent \/ UNCHANGED events
         /\ HandleEvent \/ (\E s \in Senders : WantSend(s) \/ SendStep(s))
              \/ UNCHANGED <<sender_busy, snd>>
         /\ (\E n \in Conns : Start(n)) \/ UNCHANGED raced
         /\ (\E n \in Conns : DelayOver(n)) \/ UNCHANGED slow
BY DEF Next, ServerStep, TaskStep, SendStep, Accept, AcceptFails, ListClient, StoreSocket,
   CreateTask, Start, Receive, DelayOver, EndOfData, DeleteClient, Close, PeerGone,
   HandleEvent, WantSend, SendRefused, SendEnter, SendBegin, SendTest, SendOut, SendEnd,
   taskVars, sendVars, vars

-----------------------------------------------------------------------------
(* Types.                                                                   *)

LEMMA InitType == Init => TypeOK
<1> SUFFICES ASSUME Init PROVE TypeOK
  OBVIOUS
<1> USE TcpAssumption DEF Init
<1>1. ServerTypes
  BY DEF ServerTypes
<1>2. ClientTypes
  <2>1. clients \in Seq(Entries) /\ Len(clients) = 0
    OBVIOUS
  <2>. QED
    BY <2>1 DEF ClientTypes
<1>3. SocketTypes
  <2>1. peerOf \in Seq(Peers) /\ Len(peerOf) = 0
    OBVIOUS
  <2>. QED
    BY <2>1 DEF SocketTypes
<1>4. TaskTypes
  <2>1. events \in Seq([task : Conns, data : 1 .. MaxData])
    OBVIOUS
  <2>2. wd \in [Conns -> [pc : {"none", "start", "recv", "delay", "delete",
                                "close", "end"}, sck : Descriptors \union {0}]]
    OBVIOUS
  <2>. QED
    BY <2>1, <2>2 DEF TaskTypes
<1>5. SendTypes
  <2>1. Len(clients) = 0
    OBVIOUS
  <2>. QED
    BY <2>1 DEF SendTypes
<1>6. FlagTypes
  BY Zenon DEF FlagTypes
<1>. QED
  BY <1>1, <1>2, <1>3, <1>4, <1>5, <1>6 DEF TypeOK

\* Every step keeps the types of the history flags.
LEMMA FlagType ==
  ASSUME FlagTypes, [Next]_vars
  PROVE  FlagTypes'
<1>1. raced' \in BOOLEAN
  BY Zenon, WhoTouchesTasks DEF FlagTypes, Start
<1>2. slow' \in BOOLEAN
  BY Zenon, WhoTouchesTasks DEF FlagTypes, DelayOver
<1>3. sender_busy' \in BOOLEAN
  <2>1. CASE HandleEvent \/ UNCHANGED <<sender_busy, snd>>
    BY <2>1, Zenon DEF FlagTypes, HandleEvent
  <2>2. ASSUME NEW s \in Senders, WantSend(s) \/ SendStep(s)
        PROVE  sender_busy' \in BOOLEAN
    BY <2>2, Zenon DEF FlagTypes, WantSend, SendStep, SendRefused, SendEnter, SendBegin,
       SendTest, SendOut, SendEnd
  <2>. QED
    BY <2>1, <2>2, WhoTouchesTasks, Zenon
<1>. QED
  BY <1>1, <1>2, <1>3, Zenon DEF FlagTypes

\* Every step keeps the types of the accepting task.
LEMMA ServerType ==
  ASSUME ServerTypes, [Next]_vars
  PROVE  ServerTypes'
<1>1. ASSUME NEW p \in Peers, Accept(p)
      PROVE  ServerTypes'
  BY <1>1, FreeDescriptor DEF Accept, ServerTypes
<1>2. CASE AcceptFails \/ ServerStep \/ UNCHANGED <<server, last_socket>>
  BY <1>2 DEF AcceptFails, ServerStep, ListClient, StoreSocket, CreateTask, ServerTypes
<1>. QED
  BY <1>1, <1>2, WhoTouchesServer

\* Every step keeps the types of the descriptor table.
LEMMA SocketType ==
  ASSUME SocketTypes, [Next]_vars
  PROVE  SocketTypes'
<1> USE DEF SocketTypes
<1>0. Len(peerOf) \in Nat
  OBVIOUS
<1>1. ASSUME NEW p \in Peers, Accept(p)
      PROVE  SocketTypes'
  <2>1. peerOf' \in Seq(Peers) /\ Len(peerOf') = Len(peerOf) + 1
    BY <1>1, AppendProperties DEF Accept
  <2>2. Len(peerOf') <= MaxConns
    BY <1>0, <1>1, <2>1, TcpAssumption DEF Accept
  <2>3. fd' \in [Descriptors -> 0 .. Len(peerOf')]
    BY <1>0, <1>1, <2>1, FreeDescriptor DEF Accept
  <2>4. gone' \subseteq 1 .. Len(peerOf')
    BY <1>0, <1>1, <2>1 DEF Accept
  <2>. QED
    BY <2>1, <2>2, <2>3, <2>4
<1>2. ASSUME NEW n \in Conns, Close(n)
      PROVE  SocketTypes'
  <2>1. fd' \in [Descriptors -> 0 .. Len(peerOf)]
    <3>1. fd' = [s \in Descriptors |-> IF s = wd[n].sck THEN 0 ELSE fd[s]]
      BY <1>2 DEF Close
    <3>. QED
      BY <1>0, <3>1
  <2>. QED
    BY <1>2, <2>1 DEF Close
<1>3. ASSUME NEW n \in Conns, PeerGone(n)
      PROVE  SocketTypes'
  BY <1>0, <1>3 DEF PeerGone, Conns
<1>4. CASE UNCHANGED <<fd, peerOf, gone>>
  BY <1>4
<1>. QED
  <2>1. CASE UNCHANGED peerOf /\ UNCHANGED fd
    BY <2>1, <1>3, <1>4, WhoTouchesServer
  <2>. QED
    BY <2>1, <1>1, <1>2, WhoTouchesServer

\* Deleting a client deactivates an entry of its socket, and the only active one
\* if there is one.
LEMMA DeleteClientLists ==
  ASSUME ClientTypes, NEW n \in Conns, DeleteClient(n)
  PROVE  /\ clients' \in Seq(Entries)
         /\ Len(clients') = Len(clients)
         /\ \A i \in 1 .. Len(clients) :
               /\ clients'[i].sock = clients[i].sock /\ clients'[i].ip = clients[i].ip
               /\ clients'[i] = clients[i]
                    \/ (clients'[i].active = 0 /\ clients[i].sock = wd[n].sck)
         /\ \A i \in 1 .. Len(clients) :
               clients[i].sock = wd[n].sck /\ clients[i].active = 1
               /\ (\A j \in Active(wd[n].sck) : j = i)
                    => clients'[i].active = 0
<1> DEFINE A == {i \in 1 .. Len(clients) :
                    clients[i].sock = wd[n].sck /\ clients[i].active = 1}
           e(i) == IF i \in A /\ \A j \in A : j <= i
                   THEN [clients[i] EXCEPT !.active = 0] ELSE clients[i]
<1>0. Len(clients) \in Nat
  BY DEF ClientTypes
<1>1. \A i \in 1 .. Len(clients) : clients[i] \in Entries
  BY DEF ClientTypes
<1>2. ASSUME NEW i \in 1 .. Len(clients)
      PROVE  /\ e(i) \in Entries /\ e(i).sock = clients[i].sock /\ e(i).ip = clients[i].ip
             /\ e(i) = clients[i] \/ (e(i).active = 0 /\ clients[i].sock = wd[n].sck)
             /\ i \in A /\ (\A j \in A : j <= i) => e(i).active = 0
  BY <1>1 DEF Entries
<1>3. clients' = [i \in 1 .. Len(clients) |-> e(i)]
  BY DEF DeleteClient
<1>4. A = Active(wd[n].sck)
  BY DEF Active
<1>5. \A i \in A : i <= i
  BY <1>0
<1> HIDE DEF e
<1>6. clients' \in Seq(Entries)
  <2>1. \A i \in 1 .. Len(clients) : e(i) \in Entries
    BY <1>2
  <2>. QED
    BY <1>0, <1>3, <2>1, IsASeq
<1>7. Len(clients') = Len(clients)
  BY <1>0, <1>3
<1>8. \A i \in 1 .. Len(clients) : clients'[i] = e(i)
  BY <1>3
<1>9. ASSUME NEW i \in 1 .. Len(clients), i \in A, \A j \in A : j = i
      PROVE  clients'[i].active = 0
  <2>1. \A j \in A : j <= i
    BY <1>5, <1>9
  <2>. QED
    BY <1>2, <1>8, <1>9, <2>1
<1>. QED
  BY <1>2, <1>4, <1>6, <1>7, <1>8, <1>9

\* Listing a client activates the entry of its socket and address, or appends
\* one.
LEMMA ListClientLists ==
  ASSUME ServerTypes, ClientTypes, SocketTypes, TaskInv, ListClient
  PROVE  LET p == peerOf[Len(peerOf)]
             e == [sock |-> server.sock, ip |-> p, active |-> 1]
         IN  /\ p \in Peers /\ server.sock \in Descriptors /\ e \in Entries
             /\ clients' \in Seq(Entries)
             /\ \/ /\ Len(clients') = Len(clients) + 1
                   /\ \A i \in 1 .. Len(clients) :
                         /\ clients'[i] = clients[i]
                         /\ ~ (clients[i].sock = e.sock /\ clients[i].ip = e.ip)
                   /\ clients'[Len(clients) + 1] = e
                \/ /\ Len(clients') = Len(clients)
                   /\ \E i \in 1 .. Len(clients) :
                         /\ clients[i].sock = e.sock /\ clients[i].ip = e.ip
                         /\ clients'[i] = e
                         /\ \A j \in 1 .. Len(clients) \ {i} : clients'[j] = clients[j]
<1> DEFINE p == peerOf[Len(peerOf)]
           e == [sock |-> server.sock, ip |-> p, active |-> 1]
<1>0. Len(clients) \in Nat /\ Len(peerOf) \in Nat
  BY DEF ClientTypes, SocketTypes
<1>1. p \in Peers /\ server.sock \in Descriptors
  BY <1>0 DEF TaskInv, Handling, ListClient, SocketTypes
<1>2. e \in Entries
  BY <1>1 DEF Entries
<1>3. CASE Known(p) = {} /\ clients' = Append(clients, e)
  <2>1. /\ clients' \in Seq(Entries) /\ Len(clients') = Len(clients) + 1
        /\ \A i \in 1 .. Len(clients) : clients'[i] = clients[i]
        /\ clients'[Len(clients) + 1] = e
    BY <1>2, <1>3, AppendProperties DEF ClientTypes
  <2>2. \A i \in 1 .. Len(clients) : ~ (clients[i].sock = e.sock /\ clients[i].ip = e.ip)
    BY <1>3 DEF Known
  <2>. QED
    BY <1>1, <1>2, <2>1, <2>2
<1>4. ASSUME NEW i \in Known(p), clients' = [clients EXCEPT ![i].active = 1]
      PROVE  /\ clients' \in Seq(Entries) /\ Len(clients') = Len(clients)
             /\ i \in 1 .. Len(clients)
             /\ clients[i].sock = e.sock /\ clients[i].ip = e.ip /\ clients'[i] = e
             /\ \A j \in 1 .. Len(clients) \ {i} : clients'[j] = clients[j]
  <2>1. i \in 1 .. Len(clients) /\ clients[i].sock = e.sock /\ clients[i].ip = e.ip
    BY DEF Known
  <2>2. clients[i] \in Entries
    BY <2>1 DEF ClientTypes
  <2>3. [clients[i] EXCEPT !.active = 1] = e
    BY <2>1, <2>2 DEF Entries
  <2>4. clients' = [clients EXCEPT ![i] = e]
    BY <1>4, <2>3
  <2>. QED
    BY <1>2, <2>1, <2>4, ExceptSeq DEF ClientTypes
<1>. QED
  BY <1>1, <1>2, <1>3, <1>4 DEF ListClient

\* Every step keeps the client list well typed, and it never shrinks.
LEMMA ClientType ==
  ASSUME ServerTypes, ClientTypes, SocketTypes, TaskInv, [Next]_vars
  PROVE  ClientTypes' /\ Len(clients') >= Len(clients)
<1>0. Len(clients) \in Nat
  BY DEF ClientTypes
<1>1. CASE ListClient
  <2> DEFINE e == [sock |-> server.sock, ip |-> peerOf[Len(peerOf)], active |-> 1]
  <2>0. clients' \in Seq(Entries)
    BY <1>1, ListClientLists
  <2>1. CASE /\ Len(clients') = Len(clients) + 1
             /\ \A i \in 1 .. Len(clients) :
                   /\ clients'[i] = clients[i]
                   /\ ~ (clients[i].sock = e.sock /\ clients[i].ip = e.ip)
             /\ clients'[Len(clients) + 1] = e
    <3> HIDE DEF e
    <3>1. \A i \in 1 .. Len(clients') : i \in 1 .. Len(clients) \/ i = Len(clients) + 1
      BY <1>0, <2>1
    <3>2. \A i, j \in 1 .. Len(clients') :
             clients'[i].sock = clients'[j].sock /\ clients'[i].ip = clients'[j].ip => i = j
      BY <2>1, <3>1 DEF ClientTypes
    <3>. QED
      BY <1>0, <2>0, <2>1, <3>2 DEF ClientTypes
  <2>2. ASSUME Len(clients') = Len(clients),
               NEW i \in 1 .. Len(clients),
               clients[i].sock = e.sock, clients[i].ip = e.ip, clients'[i] = e,
               \A j \in 1 .. Len(clients) \ {i} : clients'[j] = clients[j]
        PROVE  ClientTypes' /\ Len(clients') >= Len(clients)
    <3> HIDE DEF e
    <3>. QED
      BY <1>0, <2>0, <2>2 DEF ClientTypes
  <2>. QED
    BY <1>1, <2>1, <2>2, ListClientLists
<1>2. ASSUME NEW n \in Conns, DeleteClient(n)
      PROVE  ClientTypes' /\ Len(clients') >= Len(clients)
  BY <1>0, <1>2, DeleteClientLists DEF ClientTypes
<1>3. CASE UNCHANGED clients
  BY <1>0, <1>3 DEF ClientTypes
<1>. QED
  BY <1>1, <1>2, <1>3, WhoTouchesServer

\* A step of one task moves that task on and no other, and leaves the server alone.
LEMMA TaskMoves ==
  ASSUME ServerTypes, TaskTypes, TaskInv, NEW n \in Conns, Receive(n) \/ TaskStep(n)
  PROVE  /\ wd[n].pc # "none"
         /\ wd'[n].pc \in {"recv", "delay", "delete", "close", "end"}
         /\ wd'[n].sck \in Descriptors
         /\ Start(n) \/ wd'[n].sck = wd[n].sck
         /\ \A m \in Conns \ {n} : wd'[m] = wd[m]
         /\ wd' \in [Conns -> [pc : {"none", "start", "recv", "delay", "delete",
                                     "close", "end"}, sck : Descriptors \union {0}]]
         /\ UNCHANGED <<server, last_socket, peerOf, gone, sendVars>>
<1> DEFINE W == [pc : {"none", "start", "recv", "delay", "delete", "close", "end"},
                 sck : Descriptors \union {0}]
<1>1. wd \in [Conns -> W] /\ wd[n] \in W
  BY DEF TaskTypes
<1>2. CASE Start(n)
  <2>1. wd' = [wd EXCEPT ![n] = [pc |-> "recv", sck |-> last_socket]]
    BY <1>2 DEF Start
  <2>2. last_socket \in Descriptors /\ wd[n].pc = "start"
    BY <1>2 DEF Start, TaskInv
  <2>3. [pc |-> "recv", sck |-> last_socket] \in W
    BY <2>2
  <2>4. UNCHANGED <<server, last_socket, peerOf, gone, sendVars>>
    BY <1>2 DEF Start
  <2>. QED
    BY <1>1, <1>2, <2>1, <2>2, <2>3, <2>4
<1>3. ASSUME NEW q \in {"recv", "delay", "delete", "close", "end"},
             wd' = [wd EXCEPT ![n].pc = q],
             wd[n].pc \in {"recv", "delay", "delete", "close"},
             UNCHANGED <<server, last_socket, peerOf, gone, sendVars>>
      PROVE  /\ wd[n].pc # "none"
             /\ wd'[n].pc \in {"recv", "delay", "delete", "close", "end"}
             /\ wd'[n].sck \in Descriptors
             /\ wd'[n].sck = wd[n].sck
             /\ \A m \in Conns \ {n} : wd'[m] = wd[m]
             /\ wd' \in [Conns -> W]
  <2>1. wd[n].sck \in Descriptors
    BY <1>3 DEF TaskInv
  <2>2. [wd[n] EXCEPT !.pc = q] = [pc |-> q, sck |-> wd[n].sck]
    BY <1>1
  <2>3. [pc |-> q, sck |-> wd[n].sck] \in W
    BY <1>1, <2>1
  <2>4. wd' = [wd EXCEPT ![n] = [pc |-> q, sck |-> wd[n].sck]]
    BY <1>3, <2>2
  <2>. QED
    BY <1>1, <1>3, <2>1, <2>3, <2>4
<1>4. CASE Receive(n)
  BY <1>3, <1>4 DEF Receive
<1>5. CASE DelayOver(n)
  BY <1>3, <1>5 DEF DelayOver
<1>6. CASE EndOfData(n)
  BY <1>3, <1>6 DEF EndOfData
<1>7. CASE DeleteClient(n)
  BY <1>3, <1>7 DEF DeleteClient
<1>8. CASE Close(n)
  BY <1>3, <1>8 DEF Close
<1>. QED
  BY <1>2, <1>4, <1>5, <1>6, <1>7, <1>8 DEF TaskStep

\* The task that CreateTask starts belongs to the connection accepted last.
LEMMA TaskCreated ==
  ASSUME SocketTypes, TaskTypes, TaskInv, CreateTask
  PROVE  /\ Len(peerOf) \in Conns
         /\ wd'[Len(peerOf)] = [wd[Len(peerOf)] EXCEPT !.pc = "start"]
         /\ wd'[Len(peerOf)].pc = "start"
         /\ \A m \in Conns \ {Len(peerOf)} : wd'[m] = wd[m]
         /\ wd' \in [Conns -> [pc : {"none", "start", "recv", "delay", "delete",
                                     "close", "end"}, sck : Descriptors \union {0}]]
<1>0. Len(peerOf) \in Nat
  BY DEF SocketTypes
<1>1. Len(peerOf) \in Conns
  BY <1>0, TcpAssumption DEF SocketTypes, TaskInv, CreateTask, Handling, Conns
<1>2. wd' = [wd EXCEPT ![Len(peerOf)].pc = "start"]
  BY DEF CreateTask
<1>. QED
  BY <1>1, <1>2 DEF TaskTypes

\* Every step keeps the types of the connection tasks.
LEMMA TaskType ==
  ASSUME ServerTypes, SocketTypes, TaskTypes, TaskInv, [Next]_vars
  PROVE  TaskTypes'
<1> DEFINE W == [pc : {"none", "start", "recv", "delay", "delete", "close", "end"},
                 sck : Descriptors \union {0}]
           V == [task : Conns, data : 1 .. MaxData]
<1>1. wd' \in [Conns -> W]
  BY TaskMoves, TaskCreated, WhoTouchesTasks DEF TaskTypes
<1>2. rx_buffer' \in [Conns -> 0 .. MaxData] /\ received' \in 0 .. MaxData
  <2>1. ASSUME NEW n \in Conns, Receive(n)
        PROVE  rx_buffer' \in [Conns -> 0 .. MaxData] /\ received' \in 0 .. MaxData
    BY <2>1, TcpAssumption DEF Receive, TaskTypes
  <2>2. ASSUME NEW n \in Conns, TaskStep(n)
        PROVE  rx_buffer' \in [Conns -> 0 .. MaxData] /\ received' \in 0 .. MaxData
    <3>1. CASE EndOfData(n)
      BY <3>1, TcpAssumption DEF EndOfData, TaskTypes
    <3>2. CASE Start(n) \/ DeleteClient(n) \/ Close(n)
      BY <3>2 DEF Start, DeleteClient, Close, TaskTypes
    <3>3. CASE DelayOver(n)
      BY <3>3 DEF DelayOver, TaskTypes
    <3>. QED
      BY <2>2, <3>1, <3>2, <3>3 DEF TaskStep
  <2>3. CASE CreateTask \/ UNCHANGED <<wd, rx_buffer, received, raced, slow>>
    BY <2>3 DEF CreateTask, TaskTypes
  <2>. QED
    BY <2>1, <2>2, <2>3, WhoTouchesTasks
<1>3. events' \in Seq(V)
  <2>1. ASSUME NEW n \in Conns, Receive(n)
        PROVE  events' \in Seq(V)
    <3>1. [task |-> n, data |-> received + 1] \in V
      BY <2>1, TcpAssumption DEF Receive, TaskTypes
    <3>. QED
      BY <2>1, <3>1, AppendProperties DEF Receive, TaskTypes
  <2>2. CASE HandleEvent
    BY <2>2, HeadTailProperties DEF HandleEvent, TaskTypes
  <2>3. CASE UNCHANGED events
    BY <2>3 DEF TaskTypes
  <2>. QED
    BY <2>1, <2>2, <2>3, WhoTouchesTasks
<1>. QED
  BY <1>1, <1>2, <1>3 DEF TaskTypes

\* Every step keeps the types of the senders, whose cursor stays inside the
\* client list.
LEMMA SendType ==
  ASSUME SendTypes, SendInv, ClientTypes, ClientTypes', Len(clients') >= Len(clients), [Next]_vars
  PROVE  SendTypes'
<1> DEFINE S == [pc : {"idle", "want", "set", "test", "send"}, at : Nat]
<1>0. Len(clients) \in Nat /\ Len(clients') \in Nat
  BY DEF ClientTypes
<1>1. ASSUME NEW s \in Senders, NEW q \in {"idle", "want", "set", "test", "send"},
             NEW k \in 0 .. Len(clients), Move(s, q, k)
      PROVE  SendTypes'
  <2>1. [pc |-> q, at |-> k] \in S
    BY <1>0
  <2>2. snd' = [snd EXCEPT ![s] = [pc |-> q, at |-> k]]
    BY <1>1 DEF Move
  <2>3. snd' \in [Senders -> S]
    BY <2>1, <2>2 DEF SendTypes
  <2>4. \A r \in Senders : snd'[r].at <= Len(clients)
    BY <1>0, <2>2 DEF SendTypes
  <2>. QED
    BY <1>0, <2>3, <2>4 DEF SendTypes
<1>2. CASE HandleEvent
  BY <1>0, <1>1, <1>2, TcpAssumption DEF HandleEvent
<1>3. ASSUME NEW s \in Senders, WantSend(s) \/ SendStep(s)
      PROVE  SendTypes'
  <2>1. snd[s].at \in 0 .. Len(clients)
    BY <1>0 DEF SendTypes
  <2>2. CASE WantSend(s) \/ SendRefused(s) \/ SendEnter(s) \/ SendEnd(s) \/ SendBegin(s)
    BY <1>0, <1>1, <2>2 DEF WantSend, SendRefused, SendEnter, SendEnd, SendBegin
  <2>3. CASE SendTest(s)
    BY <1>0, <1>1, <2>1, <2>3 DEF SendTest
  <2>4. CASE SendOut(s)
    <3>1. snd[s].at - 1 \in 0 .. Len(clients)
      BY <1>0, <2>1, <2>4 DEF SendOut, SendInv
    <3>. QED
      BY <1>1, <2>4, <3>1 DEF SendOut
  <2>. QED
    BY <1>3, <2>2, <2>3, <2>4 DEF SendStep
<1>4. CASE UNCHANGED <<sender_busy, snd>>
  BY <1>0, <1>4 DEF SendTypes
<1>. QED
  BY <1>2, <1>3, <1>4, WhoTouchesTasks

-----------------------------------------------------------------------------
(* Tasks and sockets.                                                       *)

LEMMA TaskStepKept ==
  ASSUME TypeOK, TaskInv, [Next]_vars
  PROVE  TaskInv'
<1> USE DEF TypeOK
<1>0. Len(peerOf) \in Nat
  BY DEF SocketTypes
<1>1. ASSUME NEW p \in Peers, Accept(p)
      PROVE  TaskInv'
  <2>1. Len(peerOf') = Len(peerOf) + 1
    BY <1>1, AppendProperties DEF Accept, SocketTypes
  <2>2. /\ server' = [pc |-> "list", sock |-> Lowest(Free)] /\ Lowest(Free) \in Descriptors
        /\ UNCHANGED <<wd, last_socket>> /\ ~ Handling /\ Handling'
    BY <1>1, FreeDescriptor DEF Accept, taskVars, Handling
  <2>3. Conns \subseteq Nat
    BY DEF Conns
  <2>. QED
    BY <1>0, <2>1, <2>2, <2>3 DEF TaskInv
<1>2. CASE AcceptFails
  BY <1>2 DEF AcceptFails, TaskInv, Handling, taskVars
<1>3. CASE ListClient
  <2>1. /\ server'.pc = "store" /\ server'.sock = server.sock /\ Handling /\ Handling'
        /\ UNCHANGED <<wd, last_socket, peerOf>>
    BY <1>3 DEF ListClient, ServerTypes, Handling, taskVars
  <2>. QED
    BY <2>1 DEF TaskInv
<1>4. CASE StoreSocket
  <2>1. /\ server'.pc = "create" /\ server'.sock = server.sock /\ Handling /\ Handling'
        /\ last_socket' = server.sock /\ UNCHANGED <<wd, peerOf>>
    BY <1>4 DEF StoreSocket, ServerTypes, Handling, taskVars
  <2>. QED
    BY <2>1 DEF TaskInv
<1>5. CASE CreateTask
  <2>1. /\ server.pc = "create" /\ server'.pc = "accept" /\ Handling /\ ~ Handling'
        /\ UNCHANGED <<last_socket, peerOf>>
    BY <1>5 DEF CreateTask, Handling
  <2>2. last_socket \in Descriptors /\ wd[Len(peerOf)].pc = "none"
    BY <1>5, <2>1, TaskCreated DEF TaskInv
  <2>3. Conns \subseteq Nat
    BY DEF Conns
  <2>. QED
    BY <1>0, <1>5, <2>1, <2>2, <2>3, TaskCreated DEF TaskInv
<1>6. ASSUME NEW n \in Conns, Receive(n) \/ TaskStep(n)
      PROVE  TaskInv'
  BY <1>6, TaskMoves DEF TaskInv, Handling
<1>7. CASE UNCHANGED <<server, last_socket, peerOf, wd>>
  BY <1>7 DEF TaskInv, Handling
<1>8. CASE UNCHANGED <<server, last_socket, peerOf>>
  BY <1>5, <1>6, <1>7, <1>8, WhoTouchesTasks
<1>. QED
  BY <1>1, <1>2, <1>3, <1>4, <1>5, <1>8, WhoTouchesServer DEF ServerStep

\* A race, or an overdue event, is never forgotten.
LEMMA RacedStays ==
  ASSUME [Next]_vars, ~ raced'
  PROVE  ~ raced
BY WhoTouchesTasks, Zenon DEF Start

\* If no delay outlived a buffer up to this state, none did before it.
LEMMA SlowStays ==
  ASSUME [Next]_vars, ~ slow'
  PROVE  ~ slow
BY WhoTouchesTasks, Zenon DEF DelayOver

\* What accept does to the descriptors.
LEMMA AcceptSockets ==
  ASSUME TypeOK, NEW p \in Peers, Accept(p)
  PROVE  LET f == Lowest(Free)
         IN  /\ f \in Descriptors /\ fd[f] = 0
             /\ \A s \in Descriptors : fd'[s] = IF s = f THEN Len(peerOf) + 1 ELSE fd[s]
             /\ Len(peerOf) \in Nat /\ Len(peerOf') = Len(peerOf) + 1
             /\ peerOf'[Len(peerOf) + 1] = p
             /\ \A n \in 1 .. Len(peerOf) : peerOf'[n] = peerOf[n]
             /\ server.pc = "accept" /\ server' = [pc |-> "list", sock |-> f]
             /\ UNCHANGED <<last_socket, clients, gone, wd, rx_buffer, events, raced>>
<1>1. Lowest(Free) \in Descriptors /\ fd[Lowest(Free)] = 0
  BY FreeDescriptor DEF Accept
<1>2. \A s \in Descriptors :
         fd'[s] = IF s = Lowest(Free) THEN Len(peerOf) + 1 ELSE fd[s]
  BY <1>1 DEF Accept, TypeOK, SocketTypes
<1>3. /\ Len(peerOf) \in Nat /\ Len(peerOf') = Len(peerOf) + 1
      /\ peerOf'[Len(peerOf) + 1] = p
      /\ \A n \in 1 .. Len(peerOf) : peerOf'[n] = peerOf[n]
  BY AppendProperties DEF Accept, TypeOK, SocketTypes
<1>. QED
  BY <1>1, <1>2, <1>3, Zenon DEF Accept, taskVars

\* A task that was not overtaken closes the one descriptor of its connection.
LEMMA CloseOwn ==
  ASSUME TypeOK, TaskInv, SocketInv, ~ raced, NEW n \in Conns, Close(n)
  PROVE  /\ fd[wd[n].sck] = n /\ n \in gone /\ wd[n].sck \in Descriptors
         /\ \A s \in Descriptors : fd'[s] = IF fd[s] = n THEN 0 ELSE fd[s]
         /\ n < Len(peerOf) \/ (n = Len(peerOf) /\ ~ Handling)
<1>1. wd[n].pc = "close" /\ fd' = [fd EXCEPT ![wd[n].sck] = 0]
  BY DEF Close
<1>2. fd[wd[n].sck] = n /\ n \in gone /\ wd[n].sck \in Descriptors
  BY <1>1 DEF SocketInv, TaskInv
<1>3. n # 0 /\ n \in Nat /\ Len(peerOf) \in Nat
  BY DEF Conns, TypeOK, SocketTypes
<1>4. ASSUME NEW s \in Descriptors
      PROVE  fd'[s] = IF fd[s] = n THEN 0 ELSE fd[s]
  <2>1. fd[s] = n => s = wd[n].sck
    BY <1>2, <1>3 DEF SocketInv
  <2>2. fd'[s] = IF s = wd[n].sck THEN 0 ELSE fd[s]
    BY <1>1 DEF TypeOK, SocketTypes
  <2>. QED
    BY <1>2, <2>1, <2>2
<1>5. n < Len(peerOf) \/ (n = Len(peerOf) /\ ~ Handling)
  BY <1>1, <1>3 DEF TaskInv
<1>. QED
  BY <1>2, <1>4, <1>5

\* Every step keeps a live task on the descriptor of its own connection.
LEMMA SocketStepKept ==
  ASSUME TypeOK, TaskInv, SocketInv, [Next]_vars
  PROVE  SocketInv'
<1> DEFINE Own(n) == /\ wd[n].pc \in {"recv", "delay", "delete", "close"}
                           => fd[wd[n].sck] = n
                     /\ wd[n].pc \in {"delete", "close"} => n \in gone
<1>0. Conns \subseteq Nat \ {0} /\ Len(peerOf) \in Nat
  BY DEF Conns, TypeOK, SocketTypes
<1>1. \A s \in Descriptors : fd[s] \in 0 .. Len(peerOf)
  BY DEF TypeOK, SocketTypes
<1>2. \A s, r \in Descriptors : fd'[s] = fd'[r] /\ fd'[s] # 0 => s = r
  <2>1. ASSUME NEW p \in Peers, Accept(p)
        PROVE  \A s, r \in Descriptors : fd'[s] = fd'[r] /\ fd'[s] # 0 => s = r
    BY <1>0, <1>1, <2>1, AcceptSockets DEF SocketInv
  <2>2. ASSUME NEW n \in Conns, Close(n)
        PROVE  \A s, r \in Descriptors : fd'[s] = fd'[r] /\ fd'[s] # 0 => s = r
    <3>1. \A s \in Descriptors : fd'[s] = IF s = wd[n].sck THEN 0 ELSE fd[s]
      BY <2>2 DEF Close, TypeOK, SocketTypes
    <3>. QED
      BY <3>1 DEF SocketInv
  <2>3. CASE UNCHANGED fd
    BY <2>3 DEF SocketInv
  <2>. QED
    BY <2>1, <2>2, <2>3, WhoTouchesServer
<1>3. ASSUME ~ raced'
      PROVE  (Handling => fd[server.sock] = Len(peerOf))'
  <2>0. ~ raced
    BY <1>3, RacedStays
  <2>1. ASSUME NEW p \in Peers, Accept(p)
        PROVE  (Handling => fd[server.sock] = Len(peerOf))'
    BY <2>1, AcceptSockets
  <2>2. ASSUME NEW n \in Conns, Close(n)
        PROVE  (Handling => fd[server.sock] = Len(peerOf))'
    <3>1. UNCHANGED <<server, peerOf>>
      BY <2>2 DEF Close
    <3>2. Handling => fd[server.sock] = Len(peerOf) /\ server.sock \in Descriptors
      BY <2>0 DEF SocketInv, TaskInv
    <3>. QED
      BY <1>0, <2>0, <2>2, <3>1, <3>2, CloseOwn DEF Handling
  <2>3. CASE AcceptFails \/ CreateTask
    BY <2>3 DEF AcceptFails, CreateTask, Handling
  <2>4. CASE ListClient \/ StoreSocket
    <3>1. Handling /\ server'.sock = server.sock /\ UNCHANGED <<fd, peerOf>>
      BY <2>4 DEF ListClient, StoreSocket, Handling, TypeOK, ServerTypes
    <3>. QED
      BY <2>0, <3>1 DEF SocketInv
  <2>5. CASE UNCHANGED <<server, fd, peerOf>>
    BY <2>0, <2>5 DEF SocketInv, Handling
  <2>. QED
    BY <2>1, <2>2, <2>3, <2>4, <2>5, WhoTouchesServer DEF ServerStep
<1>4. ASSUME ~ raced', NEW m \in Conns
      PROVE  Own(m)'
  <2>0. ~ raced /\ Own(m)
    BY <1>4, RacedStays DEF SocketInv
  <2>1. CASE wd'[m] # wd[m]
    <3>1. CASE CreateTask
      BY <2>1, <3>1, TaskCreated DEF TypeOK
    <3>2. CASE Start(m)
      <4>1. fd[last_socket] = m
        BY <1>4, <3>2, Zenon DEF Start
      <4>. QED
        BY <3>2, <4>1 DEF Start, TypeOK, TaskTypes
    <3>3. CASE Receive(m)
      BY <2>0, <3>3 DEF Receive, TypeOK, TaskTypes
    <3>4. CASE DelayOver(m)
      BY <2>0, <3>4 DEF DelayOver, TypeOK, TaskTypes
    <3>5. CASE EndOfData(m)
      <4>1. m \in gone
        BY <1>0, <2>0, <3>5 DEF EndOfData, RecvEnds
      <4>. QED
        BY <2>0, <3>5, <4>1 DEF EndOfData, TypeOK, TaskTypes
    <3>6. CASE DeleteClient(m)
      BY <2>0, <3>6 DEF DeleteClient, TypeOK, TaskTypes
    <3>7. CASE Close(m)
      BY <3>7 DEF Close, TypeOK, TaskTypes
    <3>8. ASSUME NEW n \in Conns, Receive(n) \/ TaskStep(n)
          PROVE  m = n
      BY <2>1, <3>8, TaskMoves DEF TypeOK
    <3>. QED
      BY <2>1, <3>1, <3>2, <3>3, <3>4, <3>5, <3>6, <3>7, <3>8, WhoTouchesTasks DEF TaskStep
  <2>2. CASE wd'[m] = wd[m]
    <3>1. wd[m].pc \in {"recv", "delay", "delete", "close"} => wd[m].sck \in Descriptors
      BY DEF TaskInv
    <3>2. ASSUME NEW p \in Peers, Accept(p)
          PROVE  Own(m)'
      BY <1>0, <2>0, <2>2, <3>1, <3>2, AcceptSockets
    <3>3. ASSUME NEW n \in Conns, Close(n)
          PROVE  Own(m)'
      <4>1. m # n
        BY <2>2, <3>3 DEF Close, TypeOK, TaskTypes
      <4>2. gone' = gone
        BY <3>3 DEF Close
      <4>. QED
        BY <2>0, <2>2, <3>1, <3>3, <4>1, <4>2, CloseOwn
    <3>4. ASSUME UNCHANGED fd
          PROVE  Own(m)'
      <4>1. gone \subseteq gone'
        BY WhoTouchesServer DEF PeerGone
      <4>. QED
        BY <2>0, <2>2, <3>4, <4>1
    <3>. QED
      BY <3>2, <3>3, <3>4, WhoTouchesServer
  <2>. QED
    BY <2>1, <2>2
<1>. QED
  BY <1>2, <1>3, <1>4 DEF SocketInv

\* Every step keeps every open connection served, unless two tasks have raced.
LEMMA ServedStepKept ==
  ASSUME TypeOK, TaskInv, SocketInv, EveryConnectionServed, [Next]_vars
  PROVE  EveryConnectionServed'
<1> SUFFICES ASSUME ~ raced', NEW s \in Descriptors, NEW k, k = fd'[s], k # 0
             PROVE  Served(k)'
  BY DEF EveryConnectionServed
<1>0. Conns \subseteq Nat \ {0} /\ Len(peerOf) \in Nat /\ Len(peerOf) <= MaxConns /\ MaxConns \in Nat
  BY TcpAssumption DEF Conns, TypeOK, SocketTypes
<1>1. ~ raced /\ fd[s] \in 0 .. Len(peerOf)
  BY RacedStays DEF TypeOK, SocketTypes
<1>2. fd[s] = k => Served(k) /\ k \in Conns
  BY <1>0, <1>1 DEF EveryConnectionServed, Conns
<1>3. ASSUME NEW p \in Peers, Accept(p)
      PROVE  Served(k)'
  <2>1. CASE s = Lowest(Free)
    BY <1>0, <1>3, <2>1, AcceptSockets DEF Served
  <2>2. CASE s # Lowest(Free)
    <3>1. k = fd[s] /\ Served(k) /\ k \in Conns
      BY <1>2, <1>3, <2>2, AcceptSockets
    <3>2. wd[k].pc \in {"recv", "delay", "delete", "close"} => wd[k].sck \in Descriptors
      BY <3>1 DEF TaskInv
    <3>3. server.pc = "accept" /\ wd' = wd
      BY <1>3, AcceptSockets
    <3>4. \A r \in Descriptors : fd[r] = k => fd'[r] = k
      BY <1>0, <1>3, <3>1, AcceptSockets
    <3>. QED
      BY <3>1, <3>2, <3>3, <3>4 DEF Served
  <2>. QED
    BY <2>1, <2>2
<1>4. ASSUME NEW n \in Conns, Close(n)
      PROVE  Served(k)'
  <2>1. k = fd[s] /\ k # n /\ k \in Conns
    BY <1>1, <1>2, <1>4, CloseOwn
  <2>2. wd'[k] = wd[k] /\ UNCHANGED <<server, peerOf>>
    BY <1>4, <2>1 DEF Close, TypeOK, TaskTypes
  <2>3. wd[k].pc \in {"recv", "delay", "delete", "close"} => wd[k].sck \in Descriptors
    BY <2>1 DEF TaskInv
  <2>. QED
    BY <1>1, <1>2, <1>4, <2>1, <2>2, <2>3, CloseOwn DEF Served
<1>5. ASSUME UNCHANGED <<fd, peerOf>>
      PROVE  Served(k)'
  <2>0. k \in Conns /\ Served(k)
    BY <1>2, <1>5
  <2>1. CASE CreateTask
    <3>1. CASE k = Len(peerOf)
      BY <1>5, <2>0, <2>1, <3>1, TaskCreated DEF TypeOK, Served
    <3>2. CASE k # Len(peerOf)
      BY <1>5, <2>0, <2>1, <3>2, TaskCreated DEF TypeOK, Served
    <3>. QED
      BY <3>1, <3>2
  <2>2. ASSUME NEW n \in Conns, Receive(n) \/ TaskStep(n), ~ Close(n)
        PROVE  Served(k)'
    <3>1. CASE k # n
      BY <1>5, <2>0, <2>2, <3>1, TaskMoves DEF TypeOK, Served
    <3>2. CASE k = n /\ Start(n)
      <4>1. fd[last_socket] = n
        BY <3>2, Zenon DEF Start
      <4>2. wd'[n].pc = "recv" /\ wd'[n].sck = last_socket
        BY <3>2 DEF Start, TypeOK, TaskTypes
      <4>. QED
        BY <1>5, <3>2, <4>1, <4>2 DEF Served
    <3>3. CASE k = n /\ ~ Start(n)
      <4>1. /\ wd[n].pc \in {"recv", "delay", "delete", "close"}
            /\ wd'[n].pc \in {"recv", "delay", "delete", "close"}
        BY <2>2, <3>3 DEF Receive, TaskStep, DelayOver, EndOfData, DeleteClient, TypeOK, TaskTypes
      <4>2. wd'[n].sck = wd[n].sck
        BY <2>2, <3>3, TaskMoves DEF TypeOK
      <4>3. fd[wd[n].sck] = n
        BY <1>1, <4>1 DEF SocketInv
      <4>. QED
        BY <1>5, <3>3, <4>1, <4>2, <4>3 DEF Served
    <3>. QED
      BY <3>1, <3>2, <3>3
  <2>3. CASE UNCHANGED wd
    <3>1. CASE k = Len(peerOf) /\ Handling
      <4>1. Handling'
        <5>1. ~ AcceptFails /\ \A p \in Peers : ~ Accept(p)
          BY <3>1 DEF AcceptFails, Accept, Handling
        <5>2. ~ CreateTask
          BY <1>5, <2>0, <2>3, <3>1, TaskCreated DEF TypeOK, TaskInv
        <5>3. CASE ListClient \/ StoreSocket
          BY <5>3 DEF ListClient, StoreSocket, Handling, TypeOK, ServerTypes
        <5>4. CASE UNCHANGED <<server, last_socket>>
          BY <3>1, <5>4 DEF Handling
        <5>. QED
          BY <5>1, <5>2, <5>3, <5>4, WhoTouchesServer DEF ServerStep
      <4>. QED
        BY <1>5, <3>1, <4>1 DEF Served, Handling
    <3>2. CASE ~ (k = Len(peerOf) /\ Handling)
      BY <1>5, <2>0, <2>3, <3>2 DEF Served, Handling
    <3>. QED
      BY <3>1, <3>2
  <2>. QED
    BY <1>4, <2>1, <2>2, <2>3, WhoTouchesTasks
<1>. QED
  BY <1>3, <1>4, <1>5, WhoTouchesServer DEF Close

-----------------------------------------------------------------------------
(* The client list.                                                         *)

\* The entries of a descriptor stay right in a step that changes neither them
\* nor whether its connection is in service.
LEMMA ListKeptFor ==
  ASSUME TypeOK, ListInv, ~ raced, NEW s \in Descriptors,
         Active(s)' = Active(s),
         \A i \in Active(s) : clients'[i].ip = clients[i].ip,
         InService(s)' <=> InService(s),
         InService(s) => peerOf'[fd'[s]] = peerOf[fd[s]]
  PROVE  /\ \A i, j \in Active(s)' : i = j
         /\ IF InService(s)' THEN \E i \in Active(s)' : clients'[i].ip = peerOf'[fd'[s]]
                             ELSE Active(s)' = {}
BY DEF ListInv

\* Every step keeps one active entry for a socket in service, and none for
\* another.
LEMMA ListStepKept ==
  ASSUME TypeOK, TaskInv, SocketInv, EveryConnectionServed, ListInv, [Next]_vars
  PROVE  ListInv'
<1> DEFINE Right(s) == /\ \A i, j \in Active(s) : i = j
                       /\ IF InService(s)
                          THEN \E i \in Active(s) : clients[i].ip = peerOf[fd[s]]
                          ELSE Active(s) = {}
<1> SUFFICES ASSUME ~ raced', NEW s \in Descriptors
             PROVE  Right(s)'
  BY DEF ListInv
<1>0. Conns \subseteq Nat \ {0} /\ Len(peerOf) \in Nat /\ Len(peerOf) <= MaxConns /\ MaxConns \in Nat
  BY TcpAssumption DEF Conns, TypeOK, SocketTypes
<1>1. ~ raced /\ fd[s] \in 0 .. Len(peerOf) /\ Right(s)
  BY RacedStays DEF TypeOK, SocketTypes, ListInv
<1>2. fd[s] # 0 => fd[s] \in Conns
  BY <1>0, <1>1 DEF Conns
<1>3. ASSUME NEW p \in Peers, Accept(p)
      PROVE  Right(s)'
  <2>1. Active(s)' = Active(s) /\ clients' = clients
    BY <1>3, AcceptSockets DEF Active
  <2>2. CASE s = Lowest(Free)
    <3>1. ~ InService(s) /\ ~ InService(s)'
      BY <1>0, <1>3, <2>2, AcceptSockets DEF InService, Listed
    <3>. QED
      BY <1>1, <2>1, <3>1, ListKeptFor
  <2>3. CASE s # Lowest(Free)
    <3>1. fd'[s] = fd[s] /\ wd' = wd /\ server.pc = "accept" /\ Len(peerOf') = Len(peerOf) + 1
      BY <1>3, <2>3, AcceptSockets
    <3>2. InService(s)' <=> InService(s)
      BY <1>0, <1>1, <3>1 DEF InService, Listed
    <3>3. fd[s] # 0 => peerOf'[fd[s]] = peerOf[fd[s]]
      BY <1>0, <1>1, <1>3, AcceptSockets
    <3>. QED
      BY <1>1, <2>1, <3>1, <3>2, <3>3, ListKeptFor DEF InService
  <2>. QED
    BY <2>2, <2>3
<1>4. CASE ListClient
  <2> DEFINE e == [sock |-> server.sock, ip |-> peerOf[Len(peerOf)], active |-> 1]
             N == Len(clients)
  <2>0. N \in Nat /\ Handling /\ server.pc = "list" /\ server'.pc = "store"
        /\ UNCHANGED <<fd, peerOf, wd>>
    BY <1>4 DEF TypeOK, ClientTypes, ServerTypes, ListClient, Handling, taskVars
  <2>1. e.sock = server.sock /\ e.ip = peerOf[Len(peerOf)] /\ e.active = 1
    OBVIOUS
  <2>2. \/ /\ Len(clients') = N + 1
           /\ \A i \in 1 .. N : clients'[i] = clients[i]
           /\ clients'[N + 1] = e
        \/ /\ Len(clients') = N
           /\ \E i \in 1 .. N :
                 /\ clients[i].sock = e.sock /\ clients[i].ip = e.ip
                 /\ clients'[i] = e
                 /\ \A j \in 1 .. N \ {i} : clients'[j] = clients[j]
    BY <1>4, ListClientLists DEF TypeOK
  <2>3. fd[server.sock] = Len(peerOf) /\ server.sock \in Descriptors
    BY <1>1, <2>0 DEF SocketInv, TaskInv
  <2> HIDE DEF e, N
  <2>4. CASE s = server.sock
    <3>1. Active(s) = {}
      BY <1>0, <1>1, <2>0, <2>3, <2>4 DEF InService, Listed
    <3>2. PICK i \in 1 .. Len(clients') :
             clients'[i] = e /\ \A j \in 1 .. Len(clients') \ {i} :
                                   j \in 1 .. N /\ clients'[j] = clients[j]
      <4>1. CASE /\ Len(clients') = N + 1
                 /\ \A i \in 1 .. N : clients'[i] = clients[i]
                 /\ clients'[N + 1] = e
        <5>1. N + 1 \in 1 .. Len(clients') /\ 1 .. Len(clients') \ {N + 1} = 1 .. N
          BY <2>0, <4>1
        <5>. QED
          BY <4>1, <5>1
      <4>. QED
        BY <2>2, <4>1
    <3>3. Active(s)' = {i}
      BY <2>1, <2>4, <3>1, <3>2 DEF Active, N
    <3>4. InService(s)'
      <4>1. wd[Len(peerOf)].pc = "none" /\ fd'[s] = Len(peerOf) /\ Len(peerOf) # 0
        BY <1>0, <1>2, <2>0, <2>3, <2>4 DEF TaskInv
      <4>. QED
        BY <2>0, <4>1 DEF InService, Listed
    <3>5. clients'[i].ip = peerOf'[fd'[s]]
      BY <2>0, <2>1, <2>3, <2>4, <3>2
    <3>. QED
      BY <3>3, <3>4, <3>5
  <2>5. CASE s # server.sock
    <3>1. Active(s)' = Active(s) /\ \A i \in Active(s) : clients'[i] = clients[i]
      <4>1. CASE Len(clients') = N + 1
        <5>1. /\ \A i \in 1 .. N : clients'[i] = clients[i]
              /\ clients'[N + 1] = e
          BY <2>0, <2>2, <4>1
        <5>2. \A i \in 1 .. N + 1 : i \in 1 .. N \/ i = N + 1
          BY <2>0
        <5>3. 1 .. N \subseteq 1 .. N + 1
          BY <2>0
        <5>. QED
          BY <2>1, <2>5, <4>1, <5>1, <5>2, <5>3 DEF Active, N
      <4>2. CASE Len(clients') = N
        BY <2>0, <2>1, <2>2, <2>5, <4>2 DEF Active, N
      <4>. QED
        BY <2>2, <4>1, <4>2
    <3>2. fd[s] # 0 => fd[s] # Len(peerOf)
      BY <2>3, <2>5 DEF SocketInv
    <3>3. InService(s)' <=> InService(s)
      <4>1. fd[s] # 0 => fd[s] < Len(peerOf)
        BY <1>0, <1>1, <3>2
      <4>. QED
        BY <2>0, <4>1 DEF InService, Listed
    <3>. QED
      BY <1>1, <2>0, <3>1, <3>3, ListKeptFor
  <2>. QED
    BY <2>4, <2>5
<1>5. ASSUME NEW n \in Conns, DeleteClient(n)
      PROVE  Right(s)'
  <2>0. wd[n].pc = "delete" /\ UNCHANGED <<server, fd, peerOf>> /\ wd[n].sck \in Descriptors
    BY <1>5 DEF DeleteClient, TaskInv
  <2>1. fd[wd[n].sck] = n
    BY <1>1, <2>0 DEF SocketInv
  <2>2. /\ Len(clients') = Len(clients)
        /\ \A i \in 1 .. Len(clients) :
              /\ clients'[i].sock = clients[i].sock /\ clients'[i].ip = clients[i].ip
              /\ clients'[i] = clients[i]
                   \/ (clients'[i].active = 0 /\ clients[i].sock = wd[n].sck)
        /\ \A i \in 1 .. Len(clients) :
              clients[i].sock = wd[n].sck /\ clients[i].active = 1
              /\ (\A j \in Active(wd[n].sck) : j = i)
                   => clients'[i].active = 0
    BY <1>5, DeleteClientLists DEF TypeOK
  <2>3. wd'[n].pc = "close" /\ \A m \in Conns \ {n} : wd'[m] = wd[m]
    BY <1>5 DEF DeleteClient, TypeOK, TaskTypes
  <2>4. CASE s = wd[n].sck
    <3>1. Active(s)' = {}
      BY <1>1, <2>2, <2>4 DEF Active
    <3>2. ~ InService(s)'
      BY <2>0, <2>1, <2>3, <2>4 DEF InService
    <3>. QED
      BY <3>1, <3>2
  <2>5. CASE s # wd[n].sck
    <3>1. fd[s] # n
      BY <1>0, <2>0, <2>1, <2>5 DEF SocketInv
    <3>2. InService(s)' <=> InService(s)
      BY <1>2, <2>0, <2>3, <3>1 DEF InService, Listed
    <3>3. Active(s)' = Active(s)
      BY <2>2, <2>5 DEF Active
    <3>4. \A i \in Active(s) : clients'[i].ip = clients[i].ip
      BY <2>2 DEF Active
    <3>. QED
      BY <1>1, <2>0, <3>2, <3>3, <3>4, ListKeptFor
  <2>. QED
    BY <2>4, <2>5
<1>6. ASSUME NEW n \in Conns, Close(n)
      PROVE  Right(s)'
  <2>1. Active(s)' = Active(s) /\ UNCHANGED <<clients, server, peerOf>>
    BY <1>6 DEF Active, Close
  <2>2. wd[n].pc = "close" /\ \A m \in Conns \ {n} : wd'[m] = wd[m]
    BY <1>6 DEF Close, TypeOK, TaskTypes
  <2>3. fd'[s] = IF fd[s] = n THEN 0 ELSE fd[s]
    BY <1>1, <1>6, CloseOwn
  <2>4. InService(s)' <=> InService(s)
    BY <1>2, <2>1, <2>2, <2>3 DEF InService, Listed
  <2>5. InService(s) => fd'[s] = fd[s]
    BY <2>2, <2>3 DEF InService
  <2>. QED
    BY <1>1, <2>1, <2>4, <2>5, ListKeptFor
<1>7. ASSUME UNCHANGED <<clients, fd, peerOf>>
      PROVE  Right(s)'
  <2>1. CASE ListClient
    BY <1>4, <2>1
  <2>2. ASSUME ~ ListClient, \A n \in Conns : ~ DeleteClient(n) /\ ~ Close(n)
        PROVE  Right(s)'
    <3>1. server'.pc = "list" <=> server.pc = "list"
      <4>1. \A p \in Peers : ~ Accept(p)
        BY <1>0, <1>7, AcceptSockets
      <4>2. CASE AcceptFails \/ StoreSocket \/ CreateTask \/ UNCHANGED <<server, last_socket>>
        BY <4>2 DEF AcceptFails, StoreSocket, CreateTask, TypeOK, ServerTypes
      <4>. QED
        BY <2>2, <4>1, <4>2, WhoTouchesServer DEF ServerStep
    <3>2. \A k \in Conns : wd'[k].pc = "close" <=> wd[k].pc = "close"
      <4>1. CASE CreateTask
        <5>1. wd[Len(peerOf)].pc = "none" /\ wd'[Len(peerOf)].pc = "start"
          BY <4>1, TaskCreated DEF TypeOK, TaskInv, CreateTask, Handling
        <5>. QED
          BY <4>1, <5>1, TaskCreated DEF TypeOK
      <4>2. ASSUME NEW n \in Conns, Receive(n) \/ TaskStep(n)
            PROVE  wd[n].pc # "close" /\ wd'[n].pc # "close"
        BY <2>2, <4>2 DEF Receive, TaskStep, Start, DelayOver, EndOfData, TypeOK, TaskTypes
      <4>3. ASSUME NEW n \in Conns, Receive(n) \/ TaskStep(n)
            PROVE  \A k \in Conns : wd'[k].pc = "close" <=> wd[k].pc = "close"
        BY <4>2, <4>3, TaskMoves DEF TypeOK
      <4>4. CASE UNCHANGED wd
        BY <4>4
      <4>. QED
        BY <4>1, <4>3, <4>4, WhoTouchesTasks
    <3>3. InService(s)' <=> InService(s)
      BY <1>2, <1>7, <3>1, <3>2 DEF InService, Listed
    <3>4. Active(s)' = Active(s)
      BY <1>7 DEF Active
    <3>. QED
      BY <1>1, <1>7, <3>3, <3>4, ListKeptFor
  <2>. QED
    BY <1>5, <1>6, <2>1, <2>2
<1>. QED
  BY <1>3, <1>4, <1>5, <1>6, <1>7, WhoTouchesServer

-----------------------------------------------------------------------------
(* Events, and the busy flag.                                               *)

LEMMA EventStepKept ==
  ASSUME TypeOK, TaskInv, EventInv, [Next]_vars
  PROVE  EventInv'
<1> DEFINE Fresh(i) == /\ wd[events[i].task].pc = "delay"
                       /\ rx_buffer[events[i].task] = events[i].data
<1> SUFFICES ASSUME ~ slow'
             PROVE  \A i \in 1 .. Len(events') : Fresh(i)'
  BY DEF EventInv
<1>0. ~ slow /\ Len(events) \in Nat
  BY SlowStays DEF TypeOK, TaskTypes
<1>1. \A i \in 1 .. Len(events) : Fresh(i) /\ events[i].task \in Conns
  <2>1. \A i \in 1 .. Len(events) : Fresh(i)
    BY <1>0, Zenon DEF EventInv
  <2>2. \A i \in 1 .. Len(events) : events[i] \in [task : Conns, data : 1 .. MaxData]
    BY ElementOfSeq DEF TypeOK, TaskTypes
  <2>. QED
    BY <2>1, <2>2
<1>2. ASSUME NEW n \in Conns, Receive(n)
      PROVE  \A i \in 1 .. Len(events') : Fresh(i)'
  <2> DEFINE v == [task |-> n, data |-> received + 1]
  <2>1. v \in [task : Conns, data : 1 .. MaxData]
    BY <1>2, TcpAssumption DEF Receive, TypeOK, TaskTypes
  <2>2. /\ Len(events') = Len(events) + 1 /\ events'[Len(events) + 1] = v
        /\ \A i \in 1 .. Len(events) : events'[i] = events[i]
    BY <1>2, <2>1, AppendProperties DEF Receive, TypeOK, TaskTypes
  <2>3. /\ wd[n].pc = "recv" /\ wd'[n].pc = "delay" /\ rx_buffer'[n] = received + 1
        /\ \A m \in Conns \ {n} : wd'[m] = wd[m] /\ rx_buffer'[m] = rx_buffer[m]
    BY <1>2 DEF Receive, TypeOK, TaskTypes
  <2>4. ASSUME NEW i \in 1 .. Len(events)
        PROVE  Fresh(i)'
    BY <1>1, <2>2, <2>3
  <2>5. ASSUME NEW i, i = Len(events) + 1
        PROVE  Fresh(i)'
    BY <1>0, <2>2, <2>3, <2>5
  <2>6. \A i \in 1 .. Len(events') : i \in 1 .. Len(events) \/ i = Len(events) + 1
    BY <1>0, <2>2
  <2>. QED
    BY <1>0, <2>2, <2>4, <2>5, <2>6
<1>3. CASE HandleEvent
  <2>1. events # <<>> /\ events' = Tail(events) /\ UNCHANGED <<wd, rx_buffer>>
    BY <1>3 DEF HandleEvent, taskVars
  <2>2. Len(events') = Len(events) - 1 /\ \A i \in 1 .. Len(events') : events'[i] = events[i + 1]
    BY <2>1, HeadTailProperties DEF TypeOK, TaskTypes
  <2>3. \A i \in 1 .. Len(events') : i + 1 \in 1 .. Len(events)
    BY <1>0, <2>2
  <2>. QED
    BY <1>1, <2>1, <2>2, <2>3
<1>4. ASSUME NEW n \in Conns, TaskStep(n), UNCHANGED events
      PROVE  \A i \in 1 .. Len(events') : Fresh(i)'
  <2>1. \A m \in Conns \ {n} : wd'[m] = wd[m] /\ rx_buffer'[m] = rx_buffer[m]
    BY <1>4 DEF TaskStep, Start, DelayOver, EndOfData, DeleteClient, Close, TypeOK, TaskTypes
  <2>2. \A i \in 1 .. Len(events) : events[i].task # n
    <3>1. CASE DelayOver(n)
      <4>1. ~ Pending(n)
        BY <3>1, Zenon DEF DelayOver
      <4>. QED
        BY <4>1 DEF Pending
    <3>2. CASE ~ DelayOver(n)
      <4>1. wd[n].pc # "delay"
        BY <1>4, <3>2 DEF TaskStep, Start, EndOfData, DeleteClient, Close
      <4>. QED
        BY <1>1, <4>1
    <3>. QED
      BY <3>1, <3>2
  <2>. QED
    BY <1>1, <1>4, <2>1, <2>2
<1>5. CASE CreateTask /\ UNCHANGED events
  <2>1. wd[Len(peerOf)].pc # "delay" /\ Len(peerOf) \in Conns
    BY <1>5, TaskCreated DEF TypeOK, TaskInv, CreateTask, Handling
  <2>2. rx_buffer' = rx_buffer /\ \A m \in Conns \ {Len(peerOf)} : wd'[m] = wd[m]
    BY <1>5, TaskCreated DEF TypeOK, CreateTask
  <2>. QED
    BY <1>1, <1>5, <2>1, <2>2
<1>6. CASE UNCHANGED <<wd, rx_buffer, events>>
  BY <1>1, <1>6
<1>. QED
  <2>1. CASE UNCHANGED events
    BY <1>2, <1>4, <1>5, <1>6, <2>1, WhoTouchesTasks
  <2>. QED
    BY <1>2, <1>3, <2>1, WhoTouchesTasks

\* A step of one sender moves that sender only.
LEMMA SenderMoves ==
  ASSUME SendTypes, NEW s \in Senders, NEW q, NEW k, Move(s, q, k)
  PROVE  /\ snd'[s] = [pc |-> q, at |-> k] /\ snd'[s].pc = q /\ snd'[s].at = k
         /\ \A r \in Senders \ {s} : snd'[r] = snd[r]
BY DEF Move, SendTypes

\* Every step keeps sender_busy owned by a sender, and a sender at an entry when
\* it sends.
LEMMA SendStepKept ==
  ASSUME TypeOK, SendInv, [Next]_vars
  PROVE  SendInv'
<1> DEFINE Sending(s) == snd[s].pc \in {"test", "send"}
<1>0. SendTypes /\ \A s \in Senders : snd[s].pc = "send" => snd[s].at > 0
  BY DEF TypeOK, SendInv
<1>1. sender_busy => \E s \in Senders : Sending(s)
  BY DEF SendInv, BusyHasOwner
<1>2. \A s \in Senders : snd'[s].pc = "send" => snd'[s].at > 0
  <2>1. ASSUME NEW s \in Senders, NEW q, NEW k, Move(s, q, k), q = "send" => k > 0
        PROVE  \A r \in Senders : snd'[r].pc = "send" => snd'[r].at > 0
    <3>1. \A r \in Senders \ {s} : snd'[r] = snd[r]
      BY <1>0, <2>1, SenderMoves
    <3>2. snd'[s].pc = q /\ snd'[s].at = k
      BY <1>0, <2>1, SenderMoves
    <3>. QED
      BY <1>0, <2>1, <3>1, <3>2
  <2>2. CASE HandleEvent
    BY <2>1, <2>2, TcpAssumption DEF HandleEvent
  <2>3. ASSUME NEW s \in Senders, WantSend(s) \/ SendStep(s)
        PROVE  \A r \in Senders : snd'[r].pc = "send" => snd'[r].at > 0
    BY <2>1, <2>3 DEF WantSend, SendStep, SendRefused, SendEnter, SendBegin, SendTest,
       SendOut, SendEnd
  <2>. QED
    BY <1>0, <2>2, <2>3, WhoTouchesTasks
<1>3. ASSUME sender_busy'
      PROVE  \E s \in Senders : Sending(s)'
  <2>1. ASSUME NEW s \in Senders, NEW q, NEW k, Move(s, q, k),
               ~ Sending(s), sender_busy' = sender_busy
        PROVE  \E r \in Senders : Sending(r)'
    <3>1. PICK r \in Senders : Sending(r)
      BY <1>1, <1>3, <2>1, Zenon
    <3>2. r # s
      BY <2>1, <3>1
    <3>. QED
      BY ZenonT(60), <1>0, <2>1, <3>1, <3>2, SenderMoves
  <2>2. ASSUME NEW s \in Senders, NEW q \in {"test", "send"}, NEW k, Move(s, q, k)
        PROVE  \E r \in Senders : Sending(r)'
    <3>1. snd'[s].pc = q
      BY <1>0, <2>2, SenderMoves
    <3>. QED
      BY <2>2, <3>1
  <2>3. CASE HandleEvent
    BY <2>1, <2>3, TcpAssumption DEF HandleEvent
  <2>4. ASSUME NEW s \in Senders, WantSend(s) \/ SendStep(s)
        PROVE  \E r \in Senders : Sending(r)'
    <3>1. CASE WantSend(s)
      BY <2>1, <3>1 DEF WantSend
    <3>2. CASE SendRefused(s)
      BY <2>1, <3>2 DEF SendRefused
    <3>3. CASE SendEnter(s)
      BY <2>1, <3>3 DEF SendEnter
    <3>4. CASE SendBegin(s)
      BY <2>2, <3>4 DEF SendBegin
    <3>5. CASE SendTest(s)
      BY <2>2, <3>5 DEF SendTest
    <3>6. CASE SendOut(s)
      BY <2>2, <3>6 DEF SendOut
    <3>7. CASE SendEnd(s)
      BY <1>3, <3>7, Zenon DEF SendEnd
    <3>. QED
      BY <2>4, <3>1, <3>2, <3>3, <3>4, <3>5, <3>6, <3>7 DEF SendStep
  <2>5. CASE UNCHANGED <<sender_busy, snd>>
    <3>1. sender_busy
      BY <1>3, <2>5, Zenon
    <3>. QED
      BY <1>1, <2>5, <3>1
  <2>. QED
    BY <2>3, <2>4, <2>5, WhoTouchesTasks
<1>. QED
  BY <1>2, <1>3 DEF SendInv, BusyHasOwner

-----------------------------------------------------------------------------
(* The invariant is inductive.                                              *)

LEMMA InitInv == Init => IInv
<1> SUFFICES ASSUME Init PROVE IInv
  OBVIOUS
<1>0. TypeOK
  BY InitType
<1>1. TaskInv
  BY DEF Init, TaskInv, Handling, Conns
<1>2. SocketInv
  BY DEF Init, SocketInv, Handling
<1>3. EveryConnectionServed
  BY DEF Init, EveryConnectionServed
<1>4. ListInv
  <2>1. Len(clients) = 0
    BY DEF Init
  <2>2. \A s \in Descriptors : Active(s) = {}
    BY <2>1 DEF Active
  <2>. QED
    BY <2>2 DEF Init, ListInv, InService
<1>5. EventInv
  <2>1. Len(events) = 0
    BY DEF Init
  <2>. QED
    BY <2>1 DEF EventInv
<1>6. SendInv
  <2>1. ~ sender_busy
    BY Zenon DEF Init
  <2>. QED
    BY <2>1 DEF Init, SendInv, BusyHasOwner
<1>. QED
  BY <1>0, <1>1, <1>2, <1>3, <1>4, <1>5, <1>6 DEF IInv

\* The inductive invariant of the server survives every step.
LEMMA StepInv == IInv /\ [Next]_vars => IInv'
<1> SUFFICES ASSUME IInv, [Next]_vars PROVE IInv'
  OBVIOUS
<1>0. /\ TypeOK /\ TaskInv /\ SocketInv /\ EveryConnectionServed /\ ListInv
      /\ EventInv /\ SendInv
  BY DEF IInv
<1>1. TypeOK'
  <2>1. FlagTypes' /\ ServerTypes' /\ SocketTypes' /\ TaskTypes'
    BY <1>0, FlagType, ServerType, SocketType, TaskType DEF TypeOK
  <2>2. ClientTypes' /\ Len(clients') >= Len(clients)
    BY <1>0, ClientType DEF TypeOK
  <2>3. SendTypes'
    BY <1>0, <2>2, SendType DEF TypeOK
  <2>. QED
    BY <2>1, <2>2, <2>3 DEF TypeOK
<1>2. TaskInv'
  BY <1>0, TaskStepKept
<1>3. SocketInv'
  BY <1>0, SocketStepKept
<1>4. EveryConnectionServed'
  BY <1>0, ServedStepKept
<1>5. ListInv'
  BY <1>0, ListStepKept
<1>6. EventInv' /\ SendInv'
  BY <1>0, EventStepKept, SendStepKept
<1>. QED
  BY <1>1, <1>2, <1>3, <1>4, <1>5, <1>6 DEF IInv

\* IInv is an inductive invariant of the server (tcpserver.cpp).
THEOREM Inductive == Spec => []IInv
<1>. QED
  BY InitInv, StepInv, PTL DEF Spec

-----------------------------------------------------------------------------
(* What the server promises.                                                *)

\* Every variable stays within its type (tcpserver.cpp, tcpserver.h).
THEOREM TypesHold == Spec => []TypeOK
<1>1. IInv => TypeOK
  BY DEF IInv
<1>. QED
  BY <1>1, Inductive, PTL

\* sender_busy is set only while somebody sends, and every open connection is
\* in the hands of the server or of the task that will close it, unless a task
\* took the socket of another (tcpserver.cpp:10, 109-112, 146-153, 163-180).
THEOREM NothingIsAbandoned == Spec => []NothingAbandoned
<1>1. IInv => NothingAbandoned
  BY DEF IInv, SendInv, NothingAbandoned
<1>. QED
  BY <1>1, Inductive, PTL

\* The client list has, for each listed connection, exactly one active entry,
\* with its address, and no other active entry (tcpserver.cpp:124-145, 215-229).
THEOREM ListIsRight == Spec => []ListMatchesSockets
<1>1. IInv => ListMatchesSockets
  <2> SUFFICES ASSUME IInv, ~ raced, NEW s \in Descriptors
               PROVE  /\ Cardinality(Active(s)) <= 1
                      /\ Active(s) # {} => fd[s] # 0
                      /\ fd[s] # 0 /\ Listed(fd[s]) /\ wd[fd[s]].pc # "close" =>
                              \E i \in Active(s) : clients[i].ip = peerOf[fd[s]]
    BY DEF ListMatchesSockets
  <2>1. /\ \A i, j \in Active(s) : i = j
        /\ IF InService(s)
           THEN \E i \in Active(s) : clients[i].ip = peerOf[fd[s]]
           ELSE Active(s) = {}
    BY DEF IInv, ListInv
  <2>2. Cardinality(Active(s)) <= 1
    <3>1. CASE Active(s) = {}
      BY <3>1, FS_EmptySet
    <3>2. CASE Active(s) # {}
      <4>1. PICK i \in Active(s) : Active(s) = {i}
        BY <2>1, <3>2
      <4>. QED
        BY <4>1, FS_Singleton
    <3>. QED
      BY <3>1, <3>2
  <2>. QED
    BY <2>1, <2>2 DEF InService
<1>. QED
  BY <1>1, Inductive, PTL

\* No task closes the descriptor of another connection, and no text goes to a
\* peer other than the one whose entry was tested (tcpserver.cpp:48-49, 168-178).
THEOREM SocketsAreKeptApart == Spec => SocketsStayApart
<1> DEFINE Closing == \A s \in Descriptors :
                         fd[s] # 0 /\ fd'[s] = 0 => fd[s] \in gone \/ raced
           Sending == \A s \in Senders : snd[s].pc = "send" /\ snd'[s].pc = "test" =>
                         LET e == clients[snd[s].at]
                         IN  \/ fd[e.sock] = 0
                             \/ peerOf[fd[e.sock]] = e.ip
                             \/ e.active = 0
                             \/ raced
<1>1. IInv /\ [Next]_vars => Closing
  <2> SUFFICES ASSUME IInv, [Next]_vars, ~ raced, NEW s \in Descriptors,
                      fd[s] # 0, fd'[s] = 0
               PROVE  fd[s] \in gone
    OBVIOUS
  <2>1. TypeOK /\ TaskInv /\ SocketInv /\ Len(peerOf) \in Nat
    BY DEF IInv, TypeOK, SocketTypes
  <2>2. \A p \in Peers : ~ Accept(p)
    BY <2>1, AcceptSockets
  <2>3. PICK n \in Conns : Close(n)
    BY <2>2, WhoTouchesServer
  <2>. QED
    BY <2>1, <2>3, CloseOwn
<1>2. IInv => Sending
  <2> SUFFICES ASSUME IInv, ~ raced, NEW s \in Senders, snd[s].pc = "send",
                      clients[snd[s].at].active # 0
               PROVE  peerOf[fd[clients[snd[s].at].sock]] = clients[snd[s].at].ip
    OBVIOUS
  <2> DEFINE k == snd[s].at
             d == clients[k].sock
  <2>1. k \in 1 .. Len(clients)
    BY DEF IInv, TypeOK, ClientTypes, SendTypes, SendInv
  <2>2. clients[k] \in Entries
    BY <2>1, ElementOfSeq DEF IInv, TypeOK, ClientTypes
  <2>3. d \in Descriptors /\ k \in Active(d)
    BY <2>1, <2>2 DEF Entries, Active
  <2> HIDE DEF k, d
  <2>4. PICK i \in Active(d) : clients[i].ip = peerOf[fd[d]]
    BY <2>3 DEF IInv, ListInv
  <2>5. i = k
    BY <2>3, <2>4 DEF IInv, ListInv
  <2>. QED
    BY <2>4, <2>5 DEF k, d
<1>3. IInv /\ [Next]_vars => [Closing]_vars /\ [Sending]_vars
  BY <1>1, <1>2
<1>4. Spec => [][Closing]_vars /\ [][Sending]_vars
  BY <1>3, Inductive, PTL DEF Spec
<1>. QED
  BY <1>4 DEF SocketsStayApart, ClosedByOwnEnd, SentToEntry

\* The event loop finds in the buffer what was posted, unless an event waited
\* for longer than the 100 ms the task leaves it (tcpserver.cpp:32-39, 56).
THEOREM EventsAreIntact == Spec => EventDataIntact
<1> DEFINE Intact == events # <<>> /\ events' = Tail(events) =>
                        \/ rx_buffer[Head(events).task] = Head(events).data
                        \/ slow
<1>1. IInv => Intact
  <2> SUFFICES ASSUME IInv, ~ slow, events # <<>>
               PROVE  rx_buffer[Head(events).task] = Head(events).data
    OBVIOUS
  <2>1. Head(events) = events[1] /\ 1 \in 1 .. Len(events)
    BY DEF IInv, TypeOK, TaskTypes
  <2>2. EventInv
    BY DEF IInv
  <2>. QED
    BY <2>1, <2>2, Zenon DEF EventInv
<1>2. IInv /\ [Next]_vars => [Intact]_vars
  BY <1>1
<1>3. Spec => [][Intact]_vars
  BY <1>2, Inductive, PTL DEF Spec
<1>. QED
  BY <1>3 DEF EventDataIntact
=============================================================================
