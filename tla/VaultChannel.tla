---------------------------- MODULE VaultChannel ----------------------------
(***************************************************************************)
(* The channels between the vault task and the workers of the auth server, *)
(* and the select! loop in which a worker serves both: VaultServer::start  *)
(* and ::request of src/src/vault/server.rs, AuthServerWorker::run of      *)
(* src/src/auth_srv/server.rs.                                             *)
(*                                                                         *)
(*   - requests: an mpsc queue of QueueSize messages.  Who finds it full   *)
(*     waits in line; the permit of a message that is received goes to the *)
(*     first in line;                                                      *)
(*   - replies: a oneshot per request;                                     *)
(*   - broadcasts: a ring of RingSize messages with a cursor per receiver. *)
(*     A receiver that has been overtaken gets Lagged and goes on at the   *)
(*     oldest message that is left.                                        *)
(*                                                                         *)
(* A client message comes in MsgSize parts.  CliToAuth::read takes the     *)
(* parts out of the stream as they come and keeps them in its future,      *)
(* which select! drops when a broadcast is ready.                          *)
(*                                                                         *)
(* What messages are about is left out: a request changes something that   *)
(* is broadcast, or it does not.                                           *)
(***************************************************************************)
EXTENDS Integers, Sequences, FiniteSets

CONSTANTS
    Workers,
    Reading,      \* the workers whose clients read what they are sent
    Backends,     \* values db_type of the configuration may have
    QueueSize,    \* 20 in the code
    RingSize,     \* 100 in the code
    MsgSize,      \* parts of a client message
    MaxMessages,  \* bound: messages of each client
    MaxCalls      \* bound: vault calls of all workers

ASSUME ReadingAssumption == Reading \subseteq Workers
ASSUME BackendAssumption == Backends # {} /\ Backends \subseteq {"None", "Sqlite", "Postgres"}
ASSUME SizesAssumption ==
    /\ QueueSize \in Nat \ {0} /\ RingSize \in Nat \ {0} /\ MsgSize \in Nat \ {0}
    /\ MaxMessages \in [Workers -> Nat] /\ MaxCalls \in Nat

VARIABLES
    vault,      \* the vault task: "starting", "running" or "panicked"
    queue,      \* the mpsc queue
    line,       \* workers waiting for a permit to send, in order
    granted,    \* workers that have been given one
    current,    \* the message in process_vault_message
    slot,       \* the oneshot of each worker
    posted,     \* number of broadcasts so far; they are named 1, 2, ...
    next,       \* the broadcast each receiver will get next
    from,       \* the first broadcast after it subscribed
    told,       \* broadcasts sent to the client of a worker
    missed,     \* broadcasts it was overtaken by
    own,        \* the last broadcast that a call of this worker caused
    pc,         \* where a worker is
    item,       \* the broadcast a worker is sending, or 0
    leaving,    \* it is in handle_disconnect
    calls,      \* calls made so far, by all workers
    arrived,    \* parts that have come from the client
    taken,      \* parts taken out of the stream
    got,        \* of these, the ones in the current CliToAuth::read
    torn,       \* a read was dropped that had parts
    handled     \* the client's messages handled, 0 for one the client did not send

chanVars == <<vault, queue, line, granted, current, slot>>
bcastVars == <<posted, next, from, told, missed, own>>
streamVars == <<arrived, taken, got, torn, handled>>
workVars == <<pc, item, leaving, calls>>
vars == <<chanVars, bcastVars, streamVars, workVars>>

Kinds == {"read", "change"}
Message(w, kind) == [from |-> w, kind |-> kind]
NoMessage == [kind |-> "none"]

Init ==
    /\ vault = "starting"
    /\ queue = <<>> /\ line = <<>> /\ granted = {} /\ current = NoMessage
    /\ slot = [w \in Workers |-> "none"]
    /\ posted = 0
    /\ next = [w \in Workers |-> 1] /\ from = next
    /\ told = [w \in Workers |-> <<>>]
    /\ missed = [w \in Workers |-> {}]
    /\ own = [w \in Workers |-> 0]
    /\ pc = [w \in Workers |-> "absent"]
    /\ item = [w \in Workers |-> 0]
    /\ leaving = [w \in Workers |-> FALSE]
    /\ calls = 0
    /\ arrived = [w \in Workers |-> 0] /\ taken = arrived /\ got = arrived
    /\ torn = [w \in Workers |-> FALSE]
    /\ handled = [w \in Workers |-> <<>>]

-----------------------------------------------------------------------------
(* The vault task.                                                         *)

\* A mistaken panic: the messages in the queue are kept.
VaultPanics_kept ==
    /\ vault = "starting" /\ Backends \ {"None"} # {}
    /\ vault' = "panicked"
    /\ UNCHANGED <<queue, line, granted, current, slot, bcastVars, streamVars, workVars>>

\* Sqlite and Postgres are todo!(): the task panics and drops the queue, with
\* the reply channels of the messages in it.
VaultPanics ==
    /\ vault = "starting" /\ Backends \ {"None"} # {}
    /\ vault' = "panicked"
    /\ queue' = <<>>
    /\ slot' = [w \in Workers |->
                  IF \E i \in DOMAIN queue : queue[i].from = w THEN "dropped" ELSE slot[w]]
    /\ UNCHANGED <<line, granted, current, bcastVars, streamVars, workVars>>

VaultStarts ==
    /\ vault = "starting" /\ "None" \in Backends
    /\ vault' = "running"
    /\ UNCHANGED <<queue, line, granted, current, slot, bcastVars, streamVars, workVars>>

\* msg_recv.recv() gives the permit of the message to the first in line.
VaultRecv ==
    /\ vault = "running" /\ current = NoMessage /\ queue # <<>>
    /\ current' = Head(queue)
    /\ queue' = Tail(queue)
    /\ line' = IF line = <<>> THEN line ELSE Tail(line)
    /\ granted' = IF line = <<>> THEN granted ELSE granted \cup {Head(line)}
    /\ UNCHANGED <<vault, slot, bcastVars, streamVars, workVars>>

\* check_bcast: what was changed is broadcast, and the reply comes next.
CheckBcast ==
    /\ current.kind = "change"
    /\ posted' = posted + 1
    /\ own' = [own EXCEPT ![current.from] = posted + 1]
    /\ current' = Message(current.from, "read")
    /\ UNCHANGED <<vault, queue, line, granted, slot, next, from, told, missed,
                   streamVars, workVars>>

\* A mistaken order: the reply of a change before its broadcast.
CheckSend_early ==
    /\ current # NoMessage
    /\ slot[current.from] = "waiting" \/ current.kind = "read"
    /\ slot' = [slot EXCEPT ![current.from] = "ok"]
    /\ current' = IF current.kind = "read" THEN NoMessage ELSE current
    /\ UNCHANGED <<vault, queue, line, granted, bcastVars, streamVars, workVars>>

\* check_send.
CheckSend ==
    /\ current.kind = "read"
    /\ slot' = [slot EXCEPT ![current.from] = "ok"]
    /\ current' = NoMessage
    /\ UNCHANGED <<vault, queue, line, granted, bcastVars, streamVars, workVars>>

Vault == VaultPanics \/ VaultStarts \/ VaultRecv \/ CheckBcast \/ CheckSend

-----------------------------------------------------------------------------
(* VaultServer::request.                                                   *)

permits == QueueSize - Len(queue) - Cardinality(granted)

\* msg_send.send() on a closed queue: the worker panics.
SendFails(w) ==
    /\ pc[w] \in {"call", "send"} /\ vault = "panicked"
    /\ pc' = [pc EXCEPT ![w] = "gone"]
    /\ UNCHANGED <<chanVars, bcastVars, streamVars, item, leaving, calls>>

Enqueue(w, kind) ==
    /\ queue' = Append(queue, Message(w, kind))
    /\ slot' = [slot EXCEPT ![w] = "waiting"]
    /\ pc' = [pc EXCEPT ![w] = "wait"]
    /\ UNCHANGED <<vault, current, bcastVars, streamVars, item, leaving, calls>>

SendNow(w, kind) ==
    /\ pc[w] = "call" /\ vault # "panicked" /\ permits > 0
    /\ Enqueue(w, kind)
    /\ UNCHANGED <<line, granted>>

SendQueued(w) ==
    /\ pc[w] = "call" /\ vault # "panicked" /\ permits = 0
    /\ line' = Append(line, w)
    /\ pc' = [pc EXCEPT ![w] = "send"]
    /\ UNCHANGED <<vault, queue, granted, current, slot, bcastVars, streamVars,
                   item, leaving, calls>>

SendGranted(w, kind) ==
    /\ pc[w] = "send" /\ w \in granted
    /\ granted' = granted \ {w}
    /\ Enqueue(w, kind)
    /\ UNCHANGED line

MayCall == IF calls < MaxCalls THEN {"call"} ELSE {}

\* Worker w goes on at label l; a call is counted.
Goto(w, l) ==
    /\ pc' = [pc EXCEPT ![w] = l]
    /\ calls' = calls + IF l = "call" THEN 1 ELSE 0

\* The reply has come or its channel was dropped, which is an error: the
\* handler makes its next call or answers the client; handle_disconnect ends.
ReplyReceived(w) ==
    /\ pc[w] = "wait" /\ slot[w] \in {"ok", "dropped"}
    /\ slot' = [slot EXCEPT ![w] = "none"]
    /\ \E l \in MayCall \cup (IF leaving[w] THEN {"gone"} ELSE {"write"}) : Goto(w, l)
    /\ UNCHANGED <<vault, queue, line, granted, current, bcastVars, streamVars, item, leaving>>

-----------------------------------------------------------------------------
(* AuthServerWorker::start and ::run.                                      *)

\* vault.subscribe(), then send_caps.
Connect(w) ==
    /\ pc[w] = "absent"
    /\ pc' = [pc EXCEPT ![w] = "caps"]
    /\ next' = [next EXCEPT ![w] = posted + 1]
    /\ from' = [from EXCEPT ![w] = posted + 1]
    /\ UNCHANGED <<chanVars, posted, told, missed, own, streamVars, item, leaving, calls>>

oldest == IF posted > RingSize THEN posted - RingSize + 1 ELSE 1

\* select! drops the read.
DropRead(w) ==
    /\ got' = [got EXCEPT ![w] = 0]
    /\ torn' = [torn EXCEPT ![w] = @ \/ got[w] > 0]
    /\ UNCHANGED <<arrived, taken, handled>>

\* A mistaken answer to being overtaken: to subscribe anew.
Lagged_resubscribes(w) ==
    /\ pc[w] = "select" /\ next[w] < oldest
    /\ missed' = [missed EXCEPT ![w] = @ \cup next[w]..posted]
    /\ next' = [next EXCEPT ![w] = posted + 1]
    /\ DropRead(w)
    /\ UNCHANGED <<chanVars, posted, from, told, own, workVars>>

\* recv() of a receiver that was overtaken: a warning, and the loop goes on.
Lagged(w) ==
    /\ pc[w] = "select" /\ next[w] < oldest
    /\ missed' = [missed EXCEPT ![w] = @ \cup next[w]..(oldest - 1)]
    /\ next' = [next EXCEPT ![w] = oldest]
    /\ DropRead(w)
    /\ UNCHANGED <<chanVars, posted, from, told, own, workVars>>

\* A mistaken handling of a broadcast: the cursor stays.
RecvBcast_again(w) ==
    /\ pc[w] = "select" /\ oldest <= next[w] /\ next[w] <= posted
    /\ item' = [item EXCEPT ![w] = next[w]]
    /\ pc' = [pc EXCEPT ![w] = "write"]
    /\ DropRead(w)
    /\ UNCHANGED <<chanVars, bcastVars, leaving, calls>>

\* A mistaken test for broadcasts: the last one is left for later.
RecvBcast_late(w) ==
    /\ pc[w] = "select" /\ oldest <= next[w] /\ next[w] < posted
    /\ next' = [next EXCEPT ![w] = @ + 1]
    /\ item' = [item EXCEPT ![w] = next[w]]
    /\ pc' = [pc EXCEPT ![w] = "write"]
    /\ DropRead(w)
    /\ UNCHANGED <<chanVars, posted, from, told, missed, own, leaving, calls>>

\* recv() of a broadcast, which handle_bcast_msg sends to the client.
RecvBcast(w) ==
    /\ pc[w] = "select" /\ oldest <= next[w] /\ next[w] <= posted
    /\ next' = [next EXCEPT ![w] = @ + 1]
    /\ item' = [item EXCEPT ![w] = next[w]]
    /\ pc' = [pc EXCEPT ![w] = "write"]
    /\ DropRead(w)
    /\ UNCHANGED <<chanVars, posted, from, told, missed, own, leaving, calls>>

\* No broadcast is ready; the read is polled next.
NoBcast(w) ==
    /\ pc[w] = "select" /\ next[w] > posted
    /\ taken[w] < arrived[w]
    /\ pc' = [pc EXCEPT ![w] = "read"]
    /\ UNCHANGED <<chanVars, bcastVars, streamVars, item, leaving, calls>>

\* A poll of CliToAuth::read that does not get to the end of the message.
ReadPart(w) ==
    /\ pc[w] = "read"
    /\ got[w] + (arrived[w] - taken[w]) < MsgSize
    /\ got' = [got EXCEPT ![w] = @ + (arrived[w] - taken[w])]
    /\ taken' = [taken EXCEPT ![w] = arrived[w]]
    /\ pc' = [pc EXCEPT ![w] = "select"]
    /\ UNCHANGED <<chanVars, bcastVars, arrived, torn, handled, item, leaving, calls>>

\* The message made of the parts up to part n.
MessageAt(n) == IF n % MsgSize = 0 THEN n \div MsgSize ELSE 0

\* A mistaken read: a message that ends short of its last part.
ReadMessage_short(w) ==
    /\ pc[w] = "read"
    /\ got[w] + (arrived[w] - taken[w]) >= MsgSize - 1
    /\ LET end == taken[w] + MsgSize - 1 - got[w]
       IN  /\ taken' = [taken EXCEPT ![w] = end]
           /\ handled' = [handled EXCEPT ![w] = Append(@, MessageAt(end))]
    /\ got' = [got EXCEPT ![w] = 0]
    /\ \E l \in MayCall \cup {"write", "select", "leave", "gone"} : Goto(w, l)
    /\ UNCHANGED <<chanVars, bcastVars, arrived, torn, item, leaving>>

\* A poll that does, and handle_message: it calls the vault, answers, ignores
\* the message, gives the client up or panics.
ReadMessage(w) ==
    /\ pc[w] = "read"
    /\ got[w] + (arrived[w] - taken[w]) >= MsgSize
    /\ LET end == taken[w] + MsgSize - got[w]
       IN  /\ taken' = [taken EXCEPT ![w] = end]
           /\ handled' = [handled EXCEPT ![w] = Append(@, MessageAt(end))]
    /\ got' = [got EXCEPT ![w] = 0]
    /\ \E l \in MayCall \cup {"write", "select", "leave", "gone"} : Goto(w, l)
    /\ UNCHANGED <<chanVars, bcastVars, arrived, torn, item, leaving>>

\* The client has gone and CliToAuth::read fails.  The message about it asks
\* for the peer's address and panics if the connection has none any more.
ReadFails(w) ==
    /\ pc[w] = "select" /\ next[w] > posted
    /\ \E l \in {"leave", "gone"} : pc' = [pc EXCEPT ![w] = l]
    /\ UNCHANGED <<chanVars, bcastVars, streamVars, item, leaving, calls>>

\* send_message, of a reply or of a broadcast.
Written(w) ==
    /\ pc[w] = "write"
    /\ told' = [told EXCEPT ![w] = IF item[w] = 0 THEN @ ELSE Append(@, item[w])]
    /\ item' = [item EXCEPT ![w] = 0]
    /\ pc' = [pc EXCEPT ![w] = "select"]
    /\ UNCHANGED <<chanVars, posted, next, from, missed, own, streamVars, leaving, calls>>

\* It fails: run ends, with the same message.
WriteFails(w) ==
    /\ pc[w] = "write"
    /\ \E l \in {"leave", "gone"} : pc' = [pc EXCEPT ![w] = l]
    /\ UNCHANGED <<chanVars, bcastVars, streamVars, item, leaving, calls>>

\* send_caps only warns when it fails.
CapsSent(w) ==
    /\ pc[w] = "caps"
    /\ pc' = [pc EXCEPT ![w] = "select"]
    /\ UNCHANGED <<chanVars, bcastVars, streamVars, item, leaving, calls>>

\* handle_disconnect calls the vault if there is a player.
Leave(w) ==
    /\ pc[w] = "leave"
    /\ leaving' = [leaving EXCEPT ![w] = TRUE]
    /\ \E l \in MayCall \cup {"gone"} : Goto(w, l)
    /\ UNCHANGED <<chanVars, bcastVars, streamVars, item>>

\* The client sends a part of a message.
ClientSends(w) ==
    /\ pc[w] \notin {"absent", "gone"}
    /\ arrived[w] < MsgSize * MaxMessages[w]
    /\ arrived' = [arrived EXCEPT ![w] = @ + 1]
    /\ UNCHANGED <<chanVars, bcastVars, taken, got, torn, handled, workVars>>

-----------------------------------------------------------------------------
Request(w) ==
    \/ SendFails(w) \/ SendQueued(w) \/ ReplyReceived(w)
    \/ \E kind \in Kinds : SendNow(w, kind) \/ SendGranted(w, kind)

Run(w) ==
    \/ Lagged(w) \/ RecvBcast(w) \/ NoBcast(w)
    \/ ReadPart(w) \/ ReadMessage(w) \/ Leave(w)

Output(w) == Written(w) \/ WriteFails(w) \/ CapsSent(w)

Client(w) == Connect(w) \/ ClientSends(w) \/ ReadFails(w)

Next == Vault \/ \E w \in Workers : Request(w) \/ Run(w) \/ Output(w) \/ Client(w)

\* tokio polls tasks that are woken.  A client that reads takes what it is sent.
Fairness ==
    /\ WF_vars(Vault)
    /\ \A w \in Workers : WF_vars(Request(w) \/ Run(w))
    /\ \A w \in Reading : WF_vars(Output(w))

Spec == Init /\ [][Next]_vars /\ Fairness

-----------------------------------------------------------------------------
TypeOK ==
    /\ vault \in {"starting", "running", "panicked"}
    /\ queue \in Seq([from : Workers, kind : Kinds])
    /\ line \in Seq(Workers)
    /\ granted \subseteq Workers
    /\ current \in [from : Workers, kind : Kinds] \cup {NoMessage}
    /\ slot \in [Workers -> {"none", "waiting", "ok", "dropped"}]
    /\ posted \in Nat
    /\ next \in [Workers -> Nat] /\ from \in [Workers -> Nat]
    /\ own \in [Workers -> Nat]
    /\ told \in [Workers -> Seq(Nat)]
    /\ missed \in [Workers -> SUBSET Nat]
    /\ pc \in [Workers -> {"absent", "caps", "select", "read", "call", "send", "wait",
                           "write", "leave", "gone"}]
    /\ item \in [Workers -> Nat]
    /\ leaving \in [Workers -> BOOLEAN]
    /\ calls \in Nat
    /\ arrived \in [Workers -> Nat] /\ taken \in [Workers -> Nat] /\ got \in [Workers -> Nat]
    /\ torn \in [Workers -> BOOLEAN]
    /\ handled \in [Workers -> Seq(Nat)]

(* A client hears of the broadcasts since it was connected in order and    *)
(* each once, and misses only those its worker was overtaken by.           *)
heard(w) == IF item[w] = 0 THEN told[w] ELSE Append(told[w], item[w])
HeardInOrder ==
    \A w \in Workers :
        /\ \A i, j \in DOMAIN heard(w) : i < j => heard(w)[i] < heard(w)[j]
        /\ {heard(w)[i] : i \in DOMAIN heard(w)} \cup missed[w] = from[w]..(next[w] - 1)

MissedOnlyByLag ==
    \A w \in Workers : \A n \in missed[w] : posted >= n + RingSize

(* When a worker turns to its client's next message, the client has been   *)
(* told of every change that its own messages have made, or the worker was *)
(* overtaken: the vault broadcasts before it replies and the loop takes    *)
(* broadcasts first.                                                       *)
OwnChangeFirst ==
    \A w \in Workers : pc[w] = "read" => own[w] < next[w]

(* A worker handles its client's messages whole, each once and in order,   *)
(* as long as no broadcast has come in the middle of one.                  *)
FramingKept ==
    \A w \in Workers : torn[w] \/ \A i \in DOMAIN handled[w] : handled[w][i] = i

(* A call to the vault returns, whether the vault answers or panics, and   *)
(* even if other clients do not read what they are sent.                   *)
CallsReturn == \A w \in Workers : pc[w] \in {"send", "wait"} ~> pc[w] \notin {"send", "wait"}

(* A worker whose client reads gets past every broadcast.                  *)
GetsPast ==
    \A w \in Reading : \A n \in 1..MaxCalls :
        (pc[w] # "absent" /\ from[w] <= n /\ n <= posted)
            ~> (next[w] > n \/ pc[w] \in {"leave", "gone"} \/ leaving[w])
=============================================================================
