---------------------------- MODULE LobbyProofs ----------------------------
(***************************************************************************)
(* Proofs about Lobby: the hand-over of connections to the servers.        *)
(***************************************************************************)
EXTENDS Lobby, TLAPS

(* Three facts about sequences: what the hand-over does to them.           *)
LEMMA MoveHead ==
    ASSUME NEW s \in Seq(Conn), NEW q \in Seq(Conn), NEW a \in Seq(Conn), q # <<>>
    PROVE  Append(s, Head(q)) \o Tail(q) \o a = s \o q \o a
<1> DEFINE l == Append(s, Head(q)) \o Tail(q)
           r == s \o q
<1>1. Head(q) \in Conn /\ Tail(q) \in Seq(Conn) /\ Len(q) \in Nat \ {0}
  OBVIOUS
<1>2. l \in Seq(Conn) /\ r \in Seq(Conn) /\ Len(l) = Len(r)
  BY <1>1
<1>3. ASSUME NEW i \in 1..Len(l) PROVE l[i] = r[i]
  BY <1>1
<1>4. l = r
  BY <1>2, <1>3
<1> QED BY <1>4

(* Moving a connection from the lobby's hand to the end of a queue leaves  *)
(* the order of all connections as it is.                                  *)
LEMMA AppendTail ==
    ASSUME NEW s \in Seq(Conn), NEW q \in Seq(Conn), NEW e \in Conn
    PROVE  s \o Append(q, e) \o <<>> = s \o q \o <<e>>
OBVIOUS

(* A connection the lobby takes in hand is the last of all connections.    *)
LEMMA AppendLast ==
    ASSUME NEW s \in Seq(Conn), NEW q \in Seq(Conn), NEW e \in Conn
    PROVE  s \o q \o <<e>> = Append(s \o q \o <<>>, e)
OBVIOUS

-----------------------------------------------------------------------------
(* Type correctness.                                                       *)

AddsToServer == main = "add" => header[client] \in Server

(* A socket that waits for room is one whose header named a server.        *)
TypeInv == TypeOK /\ AddsToServer

(* The first state is typed.                                               *)
LEMMA InitTypeInv == Init => TypeInv
BY NoneAssumption DEF Init, TypeInv, TypeOK, AddsToServer, Header, Server

(* Every step keeps the types.                                             *)
LEMMA NextTypeInv == TypeInv /\ [Next]_vars => TypeInv'
<1> SUFFICES ASSUME TypeInv, [Next]_vars PROVE TypeInv'
  OBVIOUS
<1> USE DEF TypeInv, TypeOK, AddsToServer, lobbyVars, clientVars, serverVars, apiVars
<1>1. CASE UNCHANGED vars
  BY <1>1 DEF vars
<1>2. ASSUME NEW c \in Conn, Connect(c) PROVE TypeInv'
  BY <1>2 DEF Connect
<1>3. ASSUME NEW c \in Conn, SendHeader(c) PROVE TypeInv'
  BY <1>3, NoneAssumption DEF SendHeader, Header
<1>4. ASSUME NEW c \in Conn, Close(c) PROVE TypeInv'
  BY <1>4 DEF Close
<1>5. ASSUME NEW c \in Conn, InitClient(c) PROVE TypeInv'
  BY <1>5 DEF InitClient
<1>6. ASSUME NEW c \in Conn, WorkerEnds(c) PROVE TypeInv'
  BY <1>6 DEF WorkerEnds
<1>7. CASE Accept \/ AcceptFails
  <2>1. CASE Accept
    BY <2>1 DEF Accept
  <2>2. CASE AcceptFails
    BY <2>2 DEF AcceptFails
  <2> QED BY <1>7, <2>1, <2>2
<1>8. CASE HeaderRead
  <2>1. client \in Conn /\ header[client] \in Server
    BY <1>8 DEF HeaderRead
  <2> QED BY <1>8, <2>1 DEF HeaderRead
<1>9. CASE HeaderRejected
  BY <1>9 DEF HeaderRejected, NextClient
<1>10. CASE GamePanics
  BY <1>10 DEF GamePanics
<1>11. CASE Add
  <2>1. client \in Conn /\ header[client] \in Server
    BY <1>11 DEF Add
  <2> QED BY <1>11, <2>1 DEF Add, NextClient
<1>12. CASE Shutdown
  BY <1>12 DEF Shutdown
<1>13. CASE CtrlC
  <2>1. shutdowns' \in Nat
    BY <1>13 DEF CtrlC
  <2>2. ctrl_c' \in BOOLEAN
    BY <1>13, Zenon DEF CtrlC
  <2> QED BY <1>13, <2>1, <2>2 DEF CtrlC
<1>14. ASSUME NEW k \in Server, StartWorker(k) PROVE TypeInv'
  <2>1. Head(queue[k]) \in Conn /\ Tail(queue[k]) \in Seq(Conn)
    BY <1>14 DEF StartWorker
  <2> QED BY <1>14, <2>1 DEF StartWorker
<1>15. CASE ApiStart
  BY <1>15 DEF ApiStart
<1>16. ASSUME NEW r \in Request, ApiRequest(r) \/ ShutdownRequest(r) \/ ApiReply(r) PROVE TypeInv'
  <2>1. CASE ApiRequest(r)
    BY <2>1 DEF ApiRequest
  <2>2. CASE ShutdownRequest(r)
    BY <2>2 DEF ShutdownRequest
  <2>3. CASE ApiReply(r)
    BY <2>3 DEF ApiReply
  <2> QED BY <1>16, <2>1, <2>2, <2>3
<1>17. CASE ApiShutdown \/ ApiDone
  BY <1>17 DEF ApiShutdown, ApiDone
<1> QED
  BY <1>1, <1>2, <1>3, <1>4, <1>5, <1>6, <1>7, <1>8, <1>9, <1>10, <1>11, <1>12, <1>13, <1>14,
     <1>15, <1>16, <1>17 DEF Next, AcceptLoop, Api

(* Every variable of the lobby, the servers' queues and the API keeps its  *)
(* type, for any connections and any size of the queues.                   *)
THEOREM TypeCorrect == Spec => []TypeOK
<1>1. TypeInv => TypeOK
  BY DEF TypeInv
<1> QED BY InitTypeInv, NextTypeInv, <1>1, PTL DEF Spec

-----------------------------------------------------------------------------
(* The hand-over.  HandedOverInOrder needs that the connections of one     *)
(* server are told from those of another by their headers, which do not    *)
(* change once they were sent.                                             *)

InOrder  == \A k \in Server : started[k] \o queue[k] \o adding(k) = admitted[k]
Bounded  == \A k \in Server : Len(queue[k]) <= IncomingSize
ByHeader == \A k \in Server : \A i \in 1..Len(admitted[k]) : header[admitted[k][i]] = k
HasStart == \A c \in Conn : worker[c] # "none" =>
              \E k \in Server : \E i \in 1..Len(started[k]) : started[k][i] = c

IInv == TypeInv /\ InOrder /\ Bounded /\ ByHeader /\ HasStart

handVars == <<main, client, header, queue, admitted, started>>

(* What the lobby is handing over is a sequence of connections.            *)
LEMMA AddingType == ASSUME TypeInv, NEW k \in Server PROVE adding(k) \in Seq(Conn)
<1>1. main = "add" => client \in Conn
  BY DEF TypeInv, TypeOK
<1> QED BY <1>1 DEF adding

(* No connection has been accepted at first.                               *)
LEMMA InitIInv == Init => IInv
<1> SUFFICES ASSUME Init PROVE IInv
  OBVIOUS
<1>1. TypeInv
  BY InitTypeInv
<1>2. ASSUME NEW k \in Server
      PROVE  started[k] = <<>> /\ queue[k] = <<>> /\ adding(k) = <<>> /\ admitted[k] = <<>>
  BY DEF Init, adding
<1>3. InOrder
  <2>1. <<>> \o <<>> \o <<>> = <<>>
    OBVIOUS
  <2> QED BY <1>2, <2>1, Zenon DEF InOrder
<1>4. Bounded /\ ByHeader
  BY <1>2, IncomingAssumption DEF Bounded, ByHeader
<1>5. HasStart
  BY DEF Init, HasStart
<1> QED BY <1>1, <1>3, <1>4, <1>5 DEF IInv

(* Steps that do not touch the hand-over.                                  *)
LEMMA HandKept ==
    ASSUME IInv, UNCHANGED handVars,
           \A c \in Conn : worker'[c] # "none" => worker[c] # "none"
    PROVE  (InOrder /\ Bounded /\ ByHeader /\ HasStart)'
<1>1. ASSUME NEW k \in Server PROVE adding(k)' = adding(k)
  BY DEF handVars, adding
<1>2. InOrder' /\ Bounded' /\ ByHeader'
  BY <1>1 DEF IInv, InOrder, Bounded, ByHeader, handVars
<1>3. HasStart'
  BY DEF IInv, HasStart, handVars
<1> QED BY <1>2, <1>3

(* Every step keeps the order and the place of each connection.            *)
LEMMA NextIInv == IInv /\ [Next]_vars => IInv'
<1> SUFFICES ASSUME IInv, [Next]_vars PROVE IInv'
  OBVIOUS
<1>t. TypeInv /\ TypeInv'
  BY NextTypeInv DEF IInv
<1> DEFINE Goal == (InOrder /\ Bounded /\ ByHeader /\ HasStart)'
<1> SUFFICES Goal
  BY <1>t DEF IInv
<1> USE DEF lobbyVars, clientVars, serverVars, apiVars
<1>1. CASE UNCHANGED vars
  BY <1>1, HandKept DEF vars, handVars
<1>2. ASSUME NEW c \in Conn, Connect(c) \/ Close(c) PROVE Goal
  BY <1>2, HandKept DEF Connect, Close, handVars
<1>3. ASSUME NEW c \in Conn, SendHeader(c) PROVE Goal
  <2>1. \A d \in Conn : header[d] # None => header'[d] = header[d]
    BY <1>3, <1>t DEF SendHeader, TypeInv, TypeOK
  <2>2. None \notin Server
    BY NoneAssumption DEF Header
  <2>3. main = "add" => header'[client] = header[client]
    BY <1>t, <2>1, <2>2 DEF TypeInv, TypeOK, AddsToServer
  <2>4. ASSUME NEW k \in Server PROVE adding(k)' = adding(k)
    BY <1>3, <2>3 DEF SendHeader, adding
  <2>5. InOrder' /\ Bounded' /\ HasStart'
    BY <1>3, <2>4 DEF SendHeader, IInv, InOrder, Bounded, HasStart
  <2>6. ASSUME NEW k \in Server, NEW i \in 1..Len(admitted[k])
        PROVE  header'[admitted[k][i]] = k
    <3>1. admitted[k][i] \in Conn
      BY <1>t DEF TypeInv, TypeOK
    <3>2. header[admitted[k][i]] = k
      BY DEF IInv, ByHeader
    <3> QED BY <3>1, <3>2, <2>1, <2>2
  <2> QED BY <1>3, <2>5, <2>6 DEF SendHeader, ByHeader
<1>4. ASSUME NEW c \in Conn, InitClient(c) \/ WorkerEnds(c) PROVE Goal
  <2>1. \A d \in Conn : worker'[d] # "none" => worker[d] # "none"
    BY <1>4, <1>t DEF InitClient, WorkerEnds, TypeInv, TypeOK
  <2> QED BY <1>4, <2>1, HandKept DEF InitClient, WorkerEnds, handVars
<1>5. CASE Accept \/ AcceptFails \/ HeaderRejected
  <2>1. ASSUME NEW k \in Server PROVE adding(k) = <<>> /\ adding(k)' = <<>>
    BY <1>5 DEF Accept, AcceptFails, HeaderRejected, NextClient, lobbyVars, adding
  <2>2. UNCHANGED <<queue, started, admitted, header, worker>>
    BY <1>5 DEF Accept, AcceptFails, HeaderRejected, lobbyVars, clientVars, serverVars
  <2>3. InOrder'
    BY <2>1, <2>2 DEF IInv, InOrder
  <2> QED BY <2>2, <2>3 DEF IInv, Bounded, ByHeader, HasStart
<1>6. CASE HeaderRead
  <2> DEFINE h == header[client]
  <2>1. client \in Conn /\ h \in Server /\ main = "header" /\ main' = "add" /\ client' = client
    BY <1>6, <1>t DEF HeaderRead, TypeInv, TypeOK
  <2>2. /\ admitted' = [admitted EXCEPT ![h] = Append(@, client)]
        /\ UNCHANGED <<queue, started, header, worker>>
    BY <1>6 DEF HeaderRead
  <2>3. ASSUME NEW k \in Server
        PROVE  /\ started[k] \in Seq(Conn) /\ queue[k] \in Seq(Conn) /\ admitted[k] \in Seq(Conn)
               /\ adding(k) = <<>>
               /\ started[k] \o queue[k] \o <<>> = admitted[k]
    BY <2>1, <1>t DEF TypeInv, TypeOK, adding, IInv, InOrder
  <2>4. ASSUME NEW k \in Server PROVE (started[k] \o queue[k] \o adding(k) = admitted[k])'
    <3>1. CASE k = h
      <4>1. adding(k)' = <<client>>
        BY <3>1, <2>1, <2>2 DEF adding
      <4>2. admitted'[k] = Append(started[k] \o queue[k] \o <<>>, client)
        BY <3>1, <2>2, <2>3, <1>t DEF TypeInv, TypeOK
      <4>3. started[k] \o queue[k] \o <<client>> = Append(started[k] \o queue[k] \o <<>>, client)
        BY <2>1, <2>3, AppendLast
      <4> QED BY <4>1, <4>2, <4>3, <2>2
    <3>2. CASE k # h
      <4>1. adding(k)' = <<>> /\ admitted'[k] = admitted[k]
        BY <3>2, <2>1, <2>2, <1>t DEF adding, TypeInv, TypeOK
      <4> QED BY <4>1, <2>2, <2>3
    <3> QED BY <3>1, <3>2
  <2>5. ASSUME NEW k \in Server, NEW i \in 1..Len(admitted'[k])
        PROVE  header[admitted'[k][i]] = k
    BY <2>1, <2>2, <2>3, <1>t DEF TypeInv, TypeOK, IInv, ByHeader
  <2>6. InOrder'
    BY <2>4 DEF InOrder
  <2>7. ByHeader'
    BY <2>2, <2>5 DEF ByHeader
  <2> QED BY <2>2, <2>6, <2>7 DEF Bounded, HasStart, IInv
<1>7. CASE Add
  <2> DEFINE h == header[client]
  <2>1. client \in Conn /\ h \in Server /\ main = "add" /\ main' = "accept"
    BY <1>7, <1>t DEF Add, NextClient, TypeInv, TypeOK, AddsToServer
  <2>2. /\ queue' = [queue EXCEPT ![h] = Append(@, client)]
        /\ Len(queue[h]) < IncomingSize
        /\ UNCHANGED <<admitted, started, header, worker>>
    BY <1>7 DEF Add
  <2>3. ASSUME NEW k \in Server
        PROVE  /\ started[k] \in Seq(Conn) /\ queue[k] \in Seq(Conn)
               /\ started[k] \o queue[k] \o adding(k) = admitted[k]
               /\ Len(queue[k]) <= IncomingSize
    BY <1>t DEF TypeInv, TypeOK, IInv, InOrder, Bounded
  <2>4. ASSUME NEW k \in Server
        PROVE  (started[k] \o queue[k] \o adding(k) = admitted[k] /\ Len(queue[k]) <= IncomingSize)'
    <3>0. adding(k)' = <<>>
      BY <2>1 DEF adding
    <3>1. CASE k = h
      <4>1. adding(k) = <<client>> /\ queue'[k] = Append(queue[k], client)
        BY <3>1, <2>1, <2>2, <1>t DEF adding, TypeInv, TypeOK
      <4>2. started[k] \o Append(queue[k], client) \o <<>> = started[k] \o queue[k] \o <<client>>
        BY <2>1, <2>3, AppendTail
      <4>3. Len(queue'[k]) <= IncomingSize
        BY <4>1, <2>2, <2>3, <3>1, IncomingAssumption
      <4> QED BY <3>0, <4>1, <4>2, <4>3, <2>2, <2>3
    <3>2. CASE k # h
      <4>1. adding(k) = <<>> /\ queue'[k] = queue[k]
        BY <3>2, <2>1, <2>2, <1>t DEF adding, TypeInv, TypeOK
      <4> QED BY <3>0, <4>1, <2>2, <2>3
    <3> QED BY <3>1, <3>2
  <2>5. InOrder' /\ Bounded'
    BY <2>4 DEF InOrder, Bounded
  <2> QED BY <2>2, <2>5 DEF ByHeader, HasStart, IInv
<1>8. CASE GamePanics \/ Shutdown \/ CtrlC
  BY <1>8, HandKept DEF GamePanics, Shutdown, CtrlC, handVars
<1>9. ASSUME NEW j \in Server, StartWorker(j) PROVE Goal
  <2> DEFINE c == Head(queue[j])
  <2>1. /\ queue[j] # <<>> /\ c \in Conn
        /\ queue' = [queue EXCEPT ![j] = Tail(@)]
        /\ worker' = [worker EXCEPT ![c] = "init"]
        /\ started' = [started EXCEPT ![j] = Append(@, c)]
        /\ UNCHANGED <<main, client, header, admitted>>
    BY <1>9, <1>t DEF StartWorker, TypeInv, TypeOK
  <2>2. ASSUME NEW k \in Server
        PROVE  /\ started[k] \in Seq(Conn) /\ queue[k] \in Seq(Conn) /\ adding(k) \in Seq(Conn)
               /\ started[k] \o queue[k] \o adding(k) = admitted[k]
               /\ Len(queue[k]) <= IncomingSize
               /\ adding(k)' = adding(k)
    <3>1. adding(k)' = adding(k)
      BY <2>1 DEF adding
    <3> QED BY <3>1, <1>t, AddingType DEF TypeInv, TypeOK, IInv, InOrder, Bounded
  <2>3. ASSUME NEW k \in Server
        PROVE  (started[k] \o queue[k] \o adding(k) = admitted[k] /\ Len(queue[k]) <= IncomingSize)'
    <3>1. CASE k = j
      <4>1. queue'[k] = Tail(queue[k]) /\ started'[k] = Append(started[k], Head(queue[k]))
        BY <3>1, <2>1, <1>t DEF TypeInv, TypeOK
      <4>2. Append(started[k], Head(queue[k])) \o Tail(queue[k]) \o adding(k)
              = started[k] \o queue[k] \o adding(k)
        BY <3>1, <2>1, <2>2, MoveHead
      <4>3. Len(Tail(queue[k])) <= IncomingSize
        <5>1. queue[k] \in Seq(Conn) /\ queue[k] # <<>> /\ Len(queue[k]) <= IncomingSize
          BY <3>1, <2>1, <2>2
        <5> QED BY <5>1, IncomingAssumption
      <4> QED BY <4>1, <4>2, <4>3, <2>1, <2>2
    <3>2. CASE k # j
      BY <3>2, <2>1, <2>2, <1>t DEF TypeInv, TypeOK
    <3> QED BY <3>1, <3>2
  <2>4. HasStart'
    <3> SUFFICES ASSUME NEW d \in Conn, worker'[d] # "none"
                 PROVE  \E k \in Server : \E i \in 1..Len(started'[k]) : started'[k][i] = d
      BY DEF HasStart
    <3>1. started[j] \in Seq(Conn) /\ started'[j] = Append(started[j], c)
      BY <2>1, <2>2, <1>t DEF TypeInv, TypeOK
    <3>2. CASE d = c
      <4>1. Len(started'[j]) \in 1..Len(started'[j]) /\ started'[j][Len(started'[j])] = c
        BY <3>1, <2>1
      <4> QED BY <3>2, <4>1
    <3>3. CASE d # c
      <4>1. worker[d] # "none"
        BY <3>3, <2>1, <1>t DEF TypeInv, TypeOK
      <4>2. PICK k \in Server : \E i \in 1..Len(started[k]) : started[k][i] = d
        BY <4>1 DEF IInv, HasStart
      <4>3. PICK i \in 1..Len(started[k]) : started[k][i] = d
        BY <4>2
      <4>4. i \in 1..Len(started'[k]) /\ started'[k][i] = d
        <5>1. CASE k = j
          BY <5>1, <3>1, <2>1, <4>3
        <5>2. CASE k # j
          BY <5>2, <2>1, <4>3, <1>t DEF TypeInv, TypeOK
        <5> QED BY <5>1, <5>2
      <4> QED BY <4>4
    <3> QED BY <3>2, <3>3
  <2> QED BY <2>1, <2>3, <2>4 DEF InOrder, Bounded, ByHeader, IInv
<1>10. CASE ApiStart \/ ApiShutdown \/ ApiDone
  BY <1>10, HandKept DEF ApiStart, ApiShutdown, ApiDone, handVars
<1>11. ASSUME NEW r \in Request, ApiRequest(r) \/ ShutdownRequest(r) \/ ApiReply(r) PROVE Goal
  BY <1>11, HandKept DEF ApiRequest, ShutdownRequest, ApiReply, handVars
<1> QED
  BY <1>1, <1>2, <1>3, <1>4, <1>5, <1>6, <1>7, <1>8, <1>9, <1>10, <1>11 DEF Next, AcceptLoop, Api

(* What reached a server is what was accepted for it, in order.            *)
LEMMA IInvHandedOver == IInv => HandedOverInOrder
<1> SUFFICES ASSUME IInv PROVE HandedOverInOrder
  OBVIOUS
<1>1. ASSUME NEW c \in Conn, worker[c] # "none"
      PROVE  \E k \in Server : /\ c \in ToSet(started[k])
                              /\ \A l \in Server \ {k} : c \notin ToSet(admitted[l])
  <2>1. PICK k \in Server : \E i \in 1..Len(started[k]) : started[k][i] = c
    BY <1>1 DEF IInv, HasStart
  <2>2. PICK i \in 1..Len(started[k]) : started[k][i] = c
    BY <2>1
  <2>3. /\ started[k] \in Seq(Conn) /\ queue[k] \in Seq(Conn) /\ adding(k) \in Seq(Conn)
        /\ started[k] \o queue[k] \o adding(k) = admitted[k]
    BY AddingType DEF IInv, TypeInv, TypeOK, InOrder
  <2>4. i \in 1..Len(admitted[k]) /\ admitted[k][i] = c
    <3> DEFINE s == started[k]  q == queue[k]  a == adding(k)
    <3>1. s \in Seq(Conn) /\ q \in Seq(Conn) /\ a \in Seq(Conn) /\ i \in 1..Len(s)
      BY <2>2, <2>3
    <3> HIDE DEF s, q, a
    <3>2. i \in 1..Len(s \o q \o a) /\ (s \o q \o a)[i] = s[i]
      BY <3>1
    <3> QED BY <3>2, <2>2, <2>3 DEF s, q, a
  <2>5. header[c] = k
    BY <2>4 DEF IInv, ByHeader
  <2>6. ASSUME NEW l \in Server \ {k}, c \in ToSet(admitted[l]) PROVE FALSE
    <3>1. PICK n \in 1..Len(admitted[l]) : admitted[l][n] = c
      BY <2>6 DEF ToSet, IInv, TypeInv, TypeOK
    <3> QED BY <3>1, <2>5 DEF IInv, ByHeader
  <2>7. c \in ToSet(started[k])
    BY <2>2, <2>3 DEF ToSet
  <2> QED BY <2>6, <2>7
<1> QED BY <1>1 DEF IInv, InOrder, Bounded, HandedOverInOrder

(* For any number of connections and any size of the queues: every         *)
(* connection whose header named a server reaches that server, once, and   *)
(* in the order in which the lobby read the headers.                       *)
THEOREM NoneLostOnTheWay == Spec => []HandedOverInOrder
BY InitIInv, NextIInv, IInvHandedOver, PTL DEF Spec
=============================================================================
