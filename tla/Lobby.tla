------------------------------- MODULE Lobby -------------------------------
(***************************************************************************)
(* The lobby: the accept loop of the server, the hand-over of connections  *)
(* to the gate keeper, file and auth servers, the web API beside it, and   *)
(* shutdown (src/src/lobby.rs, src/src/api.rs, and the start functions of  *)
(* the three servers).                                                     *)
(*                                                                         *)
(* The accept loop is the main task.  It reads the header of a connection  *)
(* and hands the socket over before it accepts the next one, all inside    *)
(* one branch of a select! whose other branch waits for shutdown.  The     *)
(* servers, their workers and the API are spawned tasks: they end with the *)
(* runtime when the main task returns or panics.                           *)
(***************************************************************************)
EXTENDS Naturals, Sequences, SequencesExt

CONSTANTS
    Conn,          \* connections of game clients
    Silent,        \* those whose client need never send a header or go away
    Request,       \* requests to the web API
    None,
    IncomingSize   \* 5 in the code

ASSUME SilentAssumption == Silent \subseteq Conn
ASSUME IncomingAssumption == IncomingSize \in Nat \ {0}

Server == {"gate_keeper", "file", "auth"}

\* What the header of a connection says: a server, or a game server, or
\* something the lobby rejects (CSR, an unknown type, a wrong size).
Header == Server \cup {"game", "rejected"}

ASSUME NoneAssumption == None \notin Conn \cup Header

VARIABLES
    process,    \* "running"; "shut_down" or "panicked" when the main task has ended
    shutdowns,  \* messages sent on the shutdown channel
    ctrl_c,     \* the Ctrl+C task waits for the signal
    link,       \* the client's side of a connection
    header,     \* the header it has sent
    backlog,    \* connections the listener has for accept()
    main,       \* where the accept loop is
    client,     \* the connection in accept_client
    queue,      \* the mpsc queue of each server
    worker,     \* the task of each connection
    admitted,   \* the connections whose header named a server, in order
    started,    \* the connections a server has started a worker for, in order
    api,        \* the API task
    api_since,  \* the shutdowns before it subscribed
    request     \* API requests

lobbyVars  == <<main, client, admitted>>
clientVars == <<link, header>>
serverVars == <<queue, worker, started>>
apiVars    == <<api, api_since, request>>
vars == <<process, shutdowns, ctrl_c, backlog, lobbyVars, clientVars, serverVars, apiVars>>

Init ==
    /\ process = "running"
    /\ shutdowns = 0 /\ ctrl_c = TRUE
    /\ link = [c \in Conn |-> "none"] /\ header = [c \in Conn |-> None]
    /\ backlog = <<>>
    /\ main = "accept" /\ client = None
    /\ queue = [k \in Server |-> <<>>]
    /\ worker = [c \in Conn |-> "none"]
    /\ admitted = [k \in Server |-> <<>>] /\ started = admitted
    /\ api = "starting" /\ api_since = 0
    /\ request = [r \in Request |-> "none"]

running == process = "running"
-----------------------------------------------------------------------------
(* The clients.                                                            *)

Connect(c) ==
    /\ running /\ link[c] = "none"
    /\ link' = [link EXCEPT ![c] = "open"]
    /\ backlog' = Append(backlog, c)
    /\ UNCHANGED <<process, shutdowns, ctrl_c, header, lobbyVars, serverVars, apiVars>>

SendHeader(c) ==
    /\ running /\ link[c] = "open" /\ header[c] = None
    /\ \E h \in Header : header' = [header EXCEPT ![c] = h]
    /\ UNCHANGED <<process, shutdowns, ctrl_c, link, backlog, lobbyVars, serverVars, apiVars>>

Close(c) ==
    /\ running /\ link[c] = "open"
    /\ link' = [link EXCEPT ![c] = "closed"]
    /\ UNCHANGED <<process, shutdowns, ctrl_c, header, backlog, lobbyVars, serverVars, apiVars>>

-----------------------------------------------------------------------------
(* LobbyServer::start and accept_client.                                   *)

Accept ==
    /\ running /\ main = "accept" /\ backlog # <<>>
    /\ main' = "header"
    /\ client' = Head(backlog)
    /\ backlog' = Tail(backlog)
    /\ UNCHANGED <<process, shutdowns, ctrl_c, admitted, clientVars, serverVars, apiVars>>

\* accept() returns an error instead: the connection was reset before.
AcceptFails ==
    /\ running /\ main = "accept" /\ backlog # <<>>
    /\ link[Head(backlog)] = "closed"
    /\ backlog' = Tail(backlog)
    /\ UNCHANGED <<process, shutdowns, ctrl_c, lobbyVars, clientVars, serverVars, apiVars>>

NextClient == main' = "accept" /\ client' = None

\* A header that names a server: the queue of that server is next.
HeaderRead ==
    /\ running /\ main = "header" /\ header[client] \in Server
    /\ main' = "add"
    /\ admitted' = [admitted EXCEPT ![header[client]] = Append(@, client)]
    /\ UNCHANGED <<process, shutdowns, ctrl_c, client, backlog, clientVars, serverVars, apiVars>>

\* A mistaken read, which waits on when the stream has ended.
HeaderRejected_waits ==
    /\ running /\ main = "header"
    /\ header[client] = "rejected"
    /\ NextClient
    /\ UNCHANGED <<process, shutdowns, ctrl_c, admitted, backlog, clientVars, serverVars, apiVars>>

\* A header that is rejected, or a connection that ends or is reset.
HeaderRejected ==
    /\ running /\ main = "header"
    /\ header[client] = "rejected" \/ link[client] = "closed"
    /\ NextClient
    /\ UNCHANGED <<process, shutdowns, ctrl_c, admitted, backlog, clientVars, serverVars, apiVars>>

\* CONN_CLI_TO_GAME is todo!(): the main task panics.
GamePanics ==
    /\ running /\ main = "header" /\ header[client] = "game"
    /\ process' = "panicked"
    /\ UNCHANGED <<shutdowns, ctrl_c, backlog, lobbyVars, clientVars, serverVars, apiVars>>

\* A mistaken add, which does not wait for room: a full queue loses the socket.
Add_try ==
    /\ running /\ main = "add"
    /\ queue' = [queue EXCEPT ![header[client]] =
                   IF Len(@) < IncomingSize THEN Append(@, client) ELSE @]
    /\ NextClient
    /\ UNCHANGED <<process, shutdowns, ctrl_c, backlog, admitted, clientVars, worker, started, apiVars>>

\* incoming_send.send(sock).await.
Add ==
    /\ running /\ main = "add" /\ Len(queue[header[client]]) < IncomingSize
    /\ queue' = [queue EXCEPT ![header[client]] = Append(@, client)]
    /\ NextClient
    /\ UNCHANGED <<process, shutdowns, ctrl_c, backlog, admitted, clientVars, worker, started, apiVars>>

\* A mistaken select!: shutdown is looked at only between two connections.
Shutdown_between ==
    /\ running /\ main = "accept" /\ shutdowns > 0
    /\ process' = "shut_down"
    /\ UNCHANGED <<shutdowns, ctrl_c, backlog, lobbyVars, clientVars, serverVars, apiVars>>

\* shutdown_recv.recv(), a message or Lagged: the loop ends, wherever
\* accept_client is; block_on returns and the runtime is dropped.
Shutdown ==
    /\ running /\ shutdowns > 0
    /\ process' = "shut_down"
    /\ UNCHANGED <<shutdowns, ctrl_c, backlog, lobbyVars, clientVars, serverVars, apiVars>>

CtrlC ==
    /\ running /\ ctrl_c
    /\ ctrl_c' = FALSE
    /\ shutdowns' = shutdowns + 1
    /\ UNCHANGED <<process, backlog, lobbyVars, clientVars, serverVars, apiVars>>

-----------------------------------------------------------------------------
(* The servers.                                                            *)

StartWorker(k) ==
    /\ running /\ queue[k] # <<>>
    /\ queue' = [queue EXCEPT ![k] = Tail(@)]
    /\ worker' = [worker EXCEPT ![Head(queue[k])] = "init"]
    /\ started' = [started EXCEPT ![k] = Append(@, Head(queue[k]))]
    /\ UNCHANGED <<process, shutdowns, ctrl_c, backlog, lobbyVars, clientVars, apiVars>>

\* init_client and init_crypt: the client is served; or its handshake is
\* refused, ends early or panics in crypt_key_create, and the task ends.
InitClient(c) ==
    /\ running /\ worker[c] = "init"
    /\ \E w \in {"done"} \cup (IF link[c] = "open" THEN {"run"} ELSE {}) :
         worker' = [worker EXCEPT ![c] = w]
    /\ UNCHANGED <<process, shutdowns, ctrl_c, backlog, lobbyVars, clientVars, queue, started, apiVars>>

\* run returns, or panics, when the client is gone or cannot be understood.
WorkerEnds(c) ==
    /\ running /\ worker[c] = "run"
    /\ worker' = [worker EXCEPT ![c] = "done"]
    /\ UNCHANGED <<process, shutdowns, ctrl_c, backlog, lobbyVars, clientVars, queue, started, apiVars>>

-----------------------------------------------------------------------------
(* start_api.                                                              *)

\* The task subscribes to shutdown and binds its address, or fails to.
ApiStart ==
    /\ running /\ api = "starting"
    /\ api' \in {"serving", "done"}
    /\ api_since' = shutdowns
    /\ UNCHANGED <<process, shutdowns, ctrl_c, backlog, lobbyVars, clientVars, serverVars, request>>

ApiRequest(r) ==
    /\ running /\ api = "serving" /\ request[r] = "none"
    /\ request' = [request EXCEPT ![r] = "open"]
    /\ UNCHANGED <<process, shutdowns, ctrl_c, backlog, lobbyVars, clientVars, serverVars, api, api_since>>

\* POST /shutdown with an administrator's token.
ShutdownRequest(r) ==
    /\ running /\ request[r] = "open"
    /\ shutdowns' = shutdowns + 1
    /\ request' = [request EXCEPT ![r] = "replying"]
    /\ UNCHANGED <<process, ctrl_c, backlog, lobbyVars, clientVars, serverVars, api, api_since>>

\* The reply, here or of any other request.
ApiReply(r) ==
    /\ running /\ request[r] \in {"open", "replying"}
    /\ request' = [request EXCEPT ![r] = "answered"]
    /\ UNCHANGED <<process, shutdowns, ctrl_c, backlog, lobbyVars, clientVars, serverVars, api, api_since>>

ApiShutdown ==
    /\ running /\ api = "serving" /\ shutdowns > api_since
    /\ api' = "closing"
    /\ UNCHANGED <<process, shutdowns, ctrl_c, backlog, lobbyVars, clientVars, serverVars, api_since, request>>

\* graceful.shutdown() has no connection left, or 10 seconds are over.
ApiDone ==
    /\ running /\ api = "closing"
    /\ api' = "done"
    /\ UNCHANGED <<process, shutdowns, ctrl_c, backlog, lobbyVars, clientVars, serverVars, api_since, request>>

-----------------------------------------------------------------------------
AcceptLoop == Accept \/ AcceptFails \/ HeaderRead \/ HeaderRejected \/ GamePanics \/ Add

Api ==
    \/ ApiStart \/ ApiShutdown \/ ApiDone
    \/ \E r \in Request : ApiRequest(r) \/ ShutdownRequest(r) \/ ApiReply(r)

Next ==
    \/ \E c \in Conn : Connect(c) \/ SendHeader(c) \/ Close(c) \/ InitClient(c) \/ WorkerEnds(c)
    \/ AcceptLoop \/ Shutdown \/ CtrlC
    \/ \E k \in Server : StartWorker(k)
    \/ Api

\* The runtime polls the main task and the servers.  accept() does not fail
\* for good, as it does when no file descriptor is ever free again.  A client
\* that is not in Silent sends its header or goes away.
Fairness ==
    /\ WF_vars(AcceptLoop) /\ WF_vars(Shutdown)
    /\ \A k \in Server : WF_vars(StartWorker(k))
    /\ \A c \in Conn \ Silent : WF_vars(SendHeader(c) \/ Close(c))

Spec == Init /\ [][Next]_vars /\ Fairness

-----------------------------------------------------------------------------
(* Properties.                                                             *)

TypeOK ==
    /\ process \in {"running", "shut_down", "panicked"}
    /\ shutdowns \in Nat /\ api_since \in Nat /\ ctrl_c \in BOOLEAN
    /\ link \in [Conn -> {"none", "open", "closed"}]
    /\ header \in [Conn -> Header \cup {None}]
    /\ backlog \in Seq(Conn)
    /\ main \in {"accept", "header", "add"}
    /\ client \in IF main = "accept" THEN {None} ELSE Conn
    /\ queue \in [Server -> Seq(Conn)]
    /\ worker \in [Conn -> {"none", "init", "run", "done"}]
    /\ admitted \in [Server -> Seq(Conn)] /\ started \in [Server -> Seq(Conn)]
    /\ api \in {"starting", "serving", "closing", "done"}
    /\ request \in [Request -> {"none", "open", "replying", "answered"}]

(* Between the lobby and a server no connection is lost, served twice, by  *)
(* two servers or before one that came first, also when the queue of the   *)
(* server is full and the accept loop waits for room.                      *)
adding(k) == IF main = "add" /\ header[client] = k THEN <<client>> ELSE <<>>
HandedOverInOrder ==
    /\ \A k \in Server : started[k] \o queue[k] \o adding(k) = admitted[k]
    /\ \A k \in Server : Len(queue[k]) <= IncomingSize
    /\ \A c \in Conn : worker[c] # "none" =>
         \E k \in Server : c \in ToSet(started[k]) /\ \A l \in Server \ {k} : c \notin ToSet(admitted[l])

(* The accept loop handles one connection at a time, header and hand-over  *)
(* included.  A connection that waits in the backlog for good is kept      *)
(* there by a client that never sends its header, and by nothing else      *)
(* while the process has descriptors left.                                 *)
HeldUpOnlyBySilence ==
    \A c \in Conn :
        \/ []<>~(running /\ c \in ToSet(backlog))
        \/ <>[](main = "header" /\ client \in Silent)

(* The shutdown branch stands beside the whole of accept_client: the       *)
(* server goes down on Ctrl+C and on /shutdown though a silent client, or  *)
(* a full queue, holds the accept loop up.                                 *)
ShutdownEnds == shutdowns > 0 ~> ~running

=============================================================================
