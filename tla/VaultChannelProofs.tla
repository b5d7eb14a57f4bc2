------------------------- MODULE VaultChannelProofs -------------------------
(***************************************************************************)
(* Proofs of the safety of the channels around the vault, for any workers, *)
(* sizes and backends.                                                     *)
(***************************************************************************)
EXTENDS VaultChannel, TLAPS

Messages == [from : Workers, kind : Kinds]

(* The one worker's step that is not an action by itself.                  *)
LEMMA NextCases ==
    ASSUME Next
    PROVE  \/ VaultPanics \/ VaultStarts \/ VaultRecv \/ CheckBcast \/ CheckSend
           \/ \E w \in Workers :
                \/ SendFails(w) \/ SendQueued(w) \/ ReplyReceived(w)
                \/ \E kind \in Kinds : SendNow(w, kind) \/ SendGranted(w, kind)
                \/ Lagged(w) \/ RecvBcast(w) \/ NoBcast(w)
                \/ ReadPart(w) \/ ReadMessage(w) \/ Leave(w)
                \/ Written(w) \/ WriteFails(w) \/ CapsSent(w)
                \/ Connect(w) \/ ClientSends(w) \/ ReadFails(w)
  BY DEF Next, Vault, Request, Run, Output, Client

(* The messages of the channel.                                            *)
LEMMA MessageType ==
    /\ \A w \in Workers, kind \in Kinds :
          Message(w, kind) \in Messages /\ Message(w, kind).from = w /\ Message(w, kind).kind = kind
    /\ \A m \in Messages : m.from \in Workers /\ m.kind \in Kinds
    /\ NoMessage.kind = "none"
    /\ NoMessage \notin Messages
  <1>1. NoMessage.kind = "none"
    BY DEF NoMessage
  <1>2. \A m \in Messages : m.kind # "none"
    BY DEF Messages, Kinds
  <1> QED
    BY <1>1, <1>2 DEF Message, Messages

-----------------------------------------------------------------------------
(* Broadcasts are missed only by being overtaken: the ring has moved on by *)
(* RingSize messages before a receiver skips one.                          *)
BcastInv ==
    /\ posted \in Nat
    /\ next \in [Workers -> Nat \ {0}]
    /\ missed \in [Workers -> SUBSET Nat]
    /\ MissedOnlyByLag

(* Every step keeps the bookkeeping of the broadcast.                      *)
LEMMA BcastInvNext == BcastInv /\ [Next]_vars => BcastInv'
  <1> SUFFICES ASSUME BcastInv, [Next]_vars PROVE BcastInv'
    OBVIOUS
  <1>1. CASE UNCHANGED <<posted, next, missed>>
    BY <1>1 DEF BcastInv, MissedOnlyByLag
  <1>2. CASE CheckBcast
    BY <1>2, SizesAssumption DEF CheckBcast, BcastInv, MissedOnlyByLag
  <1>3. ASSUME NEW w \in Workers, Lagged(w) PROVE BcastInv'
    <2>1. /\ posted' = posted
          /\ next' = [next EXCEPT ![w] = oldest]
          /\ missed' = [missed EXCEPT ![w] = @ \cup next[w]..(oldest - 1)]
          /\ next[w] < oldest
      BY <1>3 DEF Lagged
    <2>2. oldest \in Nat \ {0} /\ \A n \in next[w]..(oldest - 1) : n \in Nat /\ posted >= n + RingSize
      BY <2>1, SizesAssumption DEF oldest, BcastInv
    <2>3. /\ next' \in [Workers -> Nat \ {0}] /\ missed' \in [Workers -> SUBSET Nat]
          /\ missed'[w] = missed[w] \cup next[w]..(oldest - 1)
          /\ \A v \in Workers \ {w} : missed'[v] = missed[v]
      BY <2>1, <2>2 DEF BcastInv
    <2>4. ASSUME NEW v \in Workers, NEW n \in missed'[v] PROVE posted >= n + RingSize
      BY <2>2, <2>3 DEF BcastInv, MissedOnlyByLag
    <2> QED
      BY <2>1, <2>3, <2>4 DEF BcastInv, MissedOnlyByLag
  <1>4. ASSUME NEW w \in Workers, RecvBcast(w) PROVE BcastInv'
    BY <1>4 DEF RecvBcast, BcastInv, MissedOnlyByLag
  <1>5. ASSUME NEW w \in Workers, Connect(w) PROVE BcastInv'
    BY <1>5 DEF Connect, BcastInv, MissedOnlyByLag
  <1>6. CASE VaultPanics \/ VaultStarts \/ VaultRecv \/ CheckSend
    BY <1>1, <1>6 DEF VaultPanics, VaultStarts, VaultRecv, CheckSend, bcastVars
  <1>7. ASSUME NEW w \in Workers,
               \/ SendFails(w) \/ SendQueued(w) \/ ReplyReceived(w)
               \/ \E kind \in Kinds : SendNow(w, kind) \/ SendGranted(w, kind)
        PROVE  BcastInv'
    BY <1>1, <1>7 DEF SendFails, SendQueued, ReplyReceived, SendNow, SendGranted, Enqueue, bcastVars
  <1>8. ASSUME NEW w \in Workers,
               \/ NoBcast(w) \/ ReadPart(w) \/ ReadMessage(w) \/ Leave(w)
               \/ Written(w) \/ WriteFails(w) \/ CapsSent(w)
               \/ ClientSends(w) \/ ReadFails(w)
        PROVE  BcastInv'
    BY <1>1, <1>8 DEF NoBcast, ReadPart, ReadMessage, Leave, Written, WriteFails, CapsSent,
                      ClientSends, ReadFails, bcastVars
  <1>9. CASE UNCHANGED vars
    BY <1>1, <1>9 DEF vars, bcastVars
  <1> QED
    BY <1>2, <1>3, <1>4, <1>5, <1>6, <1>7, <1>8, <1>9, NextCases

(* A worker skips a broadcast only after RingSize newer ones have come.    *)
THEOREM MissesOnlyByLag == Spec => []MissedOnlyByLag
  <1>1. Init => BcastInv
    BY DEF Init, BcastInv, MissedOnlyByLag
  <1>2. BcastInv => MissedOnlyByLag
    BY DEF BcastInv
  <1> QED
    BY <1>1, <1>2, BcastInvNext, PTL DEF Spec

-----------------------------------------------------------------------------
(* A worker has at most one message with the vault, in the queue or in     *)
(* process_vault_message, and awaits its reply all that time.  So whatever *)
(* a call of it broadcasts is in the ring before the worker returns to its *)
(* loop, where it finds it before it reads.                                *)
Labels == {"absent", "caps", "select", "read", "call", "send", "wait", "write", "leave", "gone"}
Awaits(w) == pc[w] = "wait" /\ slot[w] = "waiting"

OwnTypes ==
    /\ posted \in Nat
    /\ next \in [Workers -> Nat] /\ own \in [Workers -> Nat]
    /\ pc \in [Workers -> Labels]
    /\ slot \in [Workers -> {"none", "waiting", "ok", "dropped"}]
    /\ queue \in Seq(Messages)
    /\ current \in Messages \cup {NoMessage}

OneMessage ==
    /\ \A i \in 1..Len(queue) : Awaits(queue[i].from)
    /\ \A i, j \in 1..Len(queue) : queue[i].from = queue[j].from => i = j
    /\ current # NoMessage =>
          Awaits(current.from) /\ \A i \in 1..Len(queue) : queue[i].from # current.from

OwnPosted == \A w \in Workers : own[w] <= posted

OwnInv == OwnTypes /\ OneMessage /\ OwnPosted /\ OwnChangeFirst

(* A step that leaves the messages alone, and of one worker, without a     *)
(* message, the oneshot, changes where that worker is.                     *)
LEMMA WorkerStep ==
    ASSUME OwnInv, NEW w \in Workers, NEW l \in Labels, l # "read" \/ own[w] < next[w],
           pc[w] # "wait" \/ slot[w] # "waiting",
           pc' = [pc EXCEPT ![w] = l],
           slot' \in [Workers -> {"none", "waiting", "ok", "dropped"}],
           \A v \in Workers \ {w} : slot'[v] = slot[v],
           UNCHANGED <<queue, current, posted, own>>,
           next' \in [Workers -> Nat],
           l = "read" => next' = next,
           \A v \in Workers \ {w} : next'[v] = next[v]
    PROVE  OwnInv'
  <1>1. OwnTypes'
    BY DEF OwnInv, OwnTypes
  <1>2. \A i \in 1..Len(queue) : queue[i].from \in Workers \ {w}
    BY MessageType DEF OwnInv, OwnTypes, OneMessage, Awaits
  <1>3. current # NoMessage => current.from \in Workers \ {w}
    BY MessageType DEF OwnInv, OwnTypes, OneMessage, Awaits
  <1>4. \A v \in Workers \ {w} : Awaits(v) => Awaits(v)'
    BY DEF OwnInv, OwnTypes, Awaits
  <1>5. OneMessage'
    BY <1>2, <1>3, <1>4 DEF OwnInv, OneMessage
  <1>6. OwnPosted'
    BY DEF OwnInv, OwnPosted
  <1>7. OwnChangeFirst'
    BY DEF OwnInv, OwnTypes, OwnChangeFirst
  <1> QED
    BY <1>1, <1>5, <1>6, <1>7 DEF OwnInv

(* A worker sends a message.                                               *)
LEMMA SendStep ==
    ASSUME OwnInv, NEW w \in Workers, NEW kind \in Kinds, pc[w] # "wait", Enqueue(w, kind)
    PROVE  OwnInv'
  <1> DEFINE m == Message(w, kind)
  <1>0. m \in Messages /\ m.from = w
    BY MessageType
  <1> HIDE DEF m
  <1>1. /\ queue' = Append(queue, m) /\ UNCHANGED <<current, posted, next, own>>
        /\ slot' = [slot EXCEPT ![w] = "waiting"] /\ pc' = [pc EXCEPT ![w] = "wait"]
    BY DEF Enqueue, bcastVars, m
  <1>2. OwnTypes'
    BY <1>0, <1>1 DEF OwnInv, OwnTypes, Labels
  <1>3. /\ Len(queue) \in Nat /\ Len(queue') = Len(queue) + 1
        /\ \A i \in 1..Len(queue) : queue'[i] = queue[i]
        /\ queue'[Len(queue) + 1] = m
    BY <1>0, <1>1 DEF OwnInv, OwnTypes
  <1>4. Awaits(w)' /\ \A v \in Workers \ {w} : Awaits(v) => Awaits(v)'
    BY <1>1 DEF OwnInv, OwnTypes, Awaits
  <1>5. /\ \A i \in 1..Len(queue) : queue[i].from \in Workers \ {w}
        /\ current # NoMessage => current.from \in Workers \ {w}
    BY MessageType DEF OwnInv, OwnTypes, OneMessage, Awaits
  <1>6. \A i \in 1..Len(queue') : i \in 1..Len(queue) \/ i = Len(queue) + 1
    BY <1>3
  <1>7. OneMessage'
    <2>1. ASSUME NEW i \in 1..Len(queue') PROVE Awaits(queue[i].from)'
      <3>1. CASE i \in 1..Len(queue)
        <4>1. queue'[i] = queue[i] /\ queue[i].from \in Workers \ {w} /\ Awaits(queue[i].from)
          BY <1>3, <1>5, <3>1 DEF OwnInv, OneMessage
        <4> QED
          BY <1>1, <4>1 DEF OwnInv, OwnTypes, Awaits
      <3>2. CASE i = Len(queue) + 1
        BY <1>0, <1>3, <1>4, <3>2 DEF Awaits
      <3> QED
        BY <1>6, <3>1, <3>2
    <2>2. \A i, j \in 1..Len(queue') : queue'[i].from = queue'[j].from => i = j
      BY <1>0, <1>3, <1>5, <1>6 DEF OwnInv, OneMessage
    <2>3. current' # NoMessage =>
            Awaits(current.from)' /\ \A i \in 1..Len(queue') : queue'[i].from # current'.from
      BY <1>0, <1>1, <1>3, <1>4, <1>5, <1>6 DEF OwnInv, OneMessage
    <2> QED
      BY <2>1, <2>2, <2>3 DEF OneMessage
  <1>8. OwnPosted' /\ OwnChangeFirst'
    BY <1>1 DEF OwnInv, OwnTypes, OwnPosted, OwnChangeFirst
  <1> QED
    BY <1>2, <1>7, <1>8 DEF OwnInv

(* The steps of the vault task.                                            *)
LEMMA VaultStep ==
    ASSUME OwnInv, VaultPanics \/ VaultStarts \/ VaultRecv \/ CheckBcast \/ CheckSend
    PROVE  OwnInv'
  <1>0. /\ OwnTypes /\ OneMessage /\ OwnPosted /\ OwnChangeFirst
        /\ \A i \in 1..Len(queue) : queue[i] \in Messages /\ queue[i].from \in Workers
        /\ current # NoMessage => current \in Messages /\ current.from \in Workers
    BY MessageType DEF OwnInv, OwnTypes
  <1>1. CASE VaultPanics
    <2>1. /\ queue' = <<>> /\ UNCHANGED <<current, posted, next, own, pc>>
          /\ slot' = [w \in Workers |->
                  IF \E i \in DOMAIN queue : queue[i].from = w THEN "dropped" ELSE slot[w]]
      BY <1>1 DEF VaultPanics, bcastVars, workVars
    <2>2. OwnTypes'
      BY <1>0, <2>1 DEF OwnTypes
    <2>3. DOMAIN queue = 1..Len(queue)
      BY <1>0 DEF OwnTypes
    <2>4. OneMessage'
      BY <1>0, <2>1, <2>3 DEF OneMessage, Awaits
    <2> QED
      BY <1>0, <2>1, <2>2, <2>4 DEF OwnInv, OwnPosted, OwnChangeFirst
  <1>2. CASE VaultStarts
    BY <1>0, <1>2 DEF VaultStarts, bcastVars, workVars, OwnInv, OwnTypes, OneMessage, Awaits,
                      OwnPosted, OwnChangeFirst
  <1>3. CASE VaultRecv
    <2>1. /\ queue # <<>> /\ current' = Head(queue) /\ queue' = Tail(queue)
          /\ UNCHANGED <<slot, posted, next, own, pc>>
      BY <1>3 DEF VaultRecv, bcastVars, workVars
    <2>2. /\ Len(queue) \in Nat \ {0} /\ Len(queue') = Len(queue) - 1
          /\ queue' \in Seq(Messages)
          /\ \A i \in 1..Len(queue') : queue'[i] = queue[i + 1] /\ i + 1 \in 1..Len(queue)
          /\ current' = queue[1] /\ 1 \in 1..Len(queue)
      BY <1>0, <2>1 DEF OwnTypes
    <2>3. OwnTypes'
      BY <1>0, <2>1, <2>2 DEF OwnTypes
    <2>4. \A i \in 1..Len(queue') : Awaits(queue[i].from)'
      BY <1>0, <2>1, <2>2 DEF OneMessage, Awaits
    <2>5. \A i, j \in 1..Len(queue') : queue'[i].from = queue'[j].from => i = j
      <3> SUFFICES ASSUME NEW i \in 1..Len(queue'), NEW j \in 1..Len(queue'),
                          queue'[i].from = queue'[j].from
                   PROVE  i = j
        OBVIOUS
      <3>1. i + 1 = j + 1
        BY <1>0, <2>2 DEF OneMessage
      <3> QED
        BY <2>2, <3>1
    <2>6. Awaits(current.from)' /\ \A i \in 1..Len(queue') : queue'[i].from # current'.from
      <3>1. Awaits(current.from)'
        BY <1>0, <2>1, <2>2 DEF OneMessage, Awaits
      <3>2. ASSUME NEW i \in 1..Len(queue') PROVE queue'[i].from # current'.from
        <4>1. i + 1 # 1 /\ i + 1 \in 1..Len(queue)
          BY <2>2
        <4> QED
          BY <1>0, <2>2, <4>1 DEF OneMessage
      <3> QED
        BY <3>1, <3>2
    <2> QED
      BY <1>0, <2>1, <2>3, <2>4, <2>5, <2>6 DEF OwnInv, OneMessage, OwnPosted, OwnChangeFirst
  <1>4. CASE CheckBcast
    <2>1. /\ current # NoMessage /\ posted' = posted + 1
          /\ own' = [own EXCEPT ![current.from] = posted + 1]
          /\ current' = Message(current.from, "read")
          /\ UNCHANGED <<queue, slot, next, pc>>
      BY <1>4, MessageType DEF CheckBcast, workVars
    <2>2. current' \in Messages /\ current'.from = current.from
      BY <1>0, <2>1, MessageType DEF Kinds
    <2>3. OwnTypes'
      BY <1>0, <2>1, <2>2 DEF OwnTypes
    <2>4. OneMessage'
      BY <1>0, <2>1, <2>2 DEF OneMessage, Awaits
    <2>5. OwnPosted'
      BY <1>0, <2>1 DEF OwnTypes, OwnPosted
    <2>6. pc[current.from] = "wait"
      BY <1>0, <2>1 DEF OneMessage, Awaits
    <2>7. OwnChangeFirst'
      BY <1>0, <2>1, <2>6 DEF OwnTypes, OwnChangeFirst
    <2> QED
      BY <2>3, <2>4, <2>5, <2>7 DEF OwnInv
  <1>5. CASE CheckSend
    <2>1. /\ current # NoMessage /\ current' = NoMessage
          /\ slot' = [slot EXCEPT ![current.from] = "ok"]
          /\ UNCHANGED <<queue, posted, next, own, pc>>
      BY <1>5, MessageType DEF CheckSend, bcastVars, workVars
    <2>2. OwnTypes'
      BY <1>0, <2>1 DEF OwnTypes
    <2>3. OneMessage'
      BY <1>0, <2>1 DEF OwnTypes, OneMessage, Awaits
    <2> QED
      BY <1>0, <2>1, <2>2, <2>3 DEF OwnInv, OwnPosted, OwnChangeFirst
  <1> QED
    BY <1>1, <1>2, <1>3, <1>4, <1>5

(* A worker keeps one message under way, and its own change ahead of it.   *)
LEMMA OwnInvNext == OwnInv /\ [Next]_vars => OwnInv'
  <1> SUFFICES ASSUME OwnInv, [Next]_vars PROVE OwnInv'
    OBVIOUS
  <1>0. OwnTypes /\ OwnPosted
    BY DEF OwnInv
  <1>1. CASE VaultPanics \/ VaultStarts \/ VaultRecv \/ CheckBcast \/ CheckSend
    BY <1>1, VaultStep
  <1>2. ASSUME NEW w \in Workers, NEW kind \in Kinds, SendNow(w, kind) \/ SendGranted(w, kind)
        PROVE  OwnInv'
    BY <1>2, SendStep DEF SendNow, SendGranted
  <1>3. ASSUME NEW w \in Workers,
               \/ SendFails(w) \/ SendQueued(w) \/ NoBcast(w) \/ ReadPart(w)
               \/ Written(w) \/ WriteFails(w) \/ CapsSent(w) \/ ReadFails(w)
        PROVE  OwnInv'
    <2>1. /\ UNCHANGED <<queue, current, slot, posted, own, next>> /\ pc[w] # "wait"
          /\ \E l \in Labels : pc' = [pc EXCEPT ![w] = l] /\ (l = "read" => next[w] > posted)
      BY <1>3 DEF SendFails, SendQueued, NoBcast, ReadPart, Written, WriteFails, CapsSent,
                  ReadFails, chanVars, bcastVars, Labels
    <2>2. PICK l \in Labels : pc' = [pc EXCEPT ![w] = l] /\ (l = "read" => next[w] > posted)
      BY <2>1
    <2>3. l # "read" \/ own[w] < next[w]
      BY <1>0, <2>2 DEF OwnTypes, OwnPosted
    <2>4. /\ slot' \in [Workers -> {"none", "waiting", "ok", "dropped"}]
          /\ next' \in [Workers -> Nat]
      BY <1>0, <2>1 DEF OwnTypes
    <2> QED
      BY <2>1, <2>2, <2>3, <2>4, WorkerStep
  <1>4. ASSUME NEW w \in Workers, ReadMessage(w) \/ Leave(w) PROVE OwnInv'
    <2>1. /\ UNCHANGED <<queue, current, slot, posted, own, next>> /\ pc[w] # "wait"
          /\ \E l \in Labels \ {"read"} : pc' = [pc EXCEPT ![w] = l]
      BY <1>4 DEF ReadMessage, Leave, Goto, MayCall, chanVars, bcastVars, Labels
    <2>2. /\ slot' \in [Workers -> {"none", "waiting", "ok", "dropped"}]
          /\ next' \in [Workers -> Nat]
      BY <1>0, <2>1 DEF OwnTypes
    <2> QED
      BY <2>1, <2>2, WorkerStep
  <1>5. ASSUME NEW w \in Workers, ReplyReceived(w) PROVE OwnInv'
    <2>1. /\ UNCHANGED <<queue, current, posted, own, next>> /\ slot[w] # "waiting"
          /\ slot' = [slot EXCEPT ![w] = "none"]
          /\ \E l \in Labels \ {"read"} : pc' = [pc EXCEPT ![w] = l]
      BY <1>5 DEF ReplyReceived, Goto, MayCall, bcastVars, Labels
    <2>2. /\ slot' \in [Workers -> {"none", "waiting", "ok", "dropped"}]
          /\ next' \in [Workers -> Nat]
          /\ \A v \in Workers \ {w} : slot'[v] = slot[v]
      BY <1>0, <2>1 DEF OwnTypes
    <2> QED
      BY <2>1, <2>2, WorkerStep
  <1>6. ASSUME NEW w \in Workers, Lagged(w) \/ RecvBcast(w) \/ Connect(w) PROVE OwnInv'
    <2>1. oldest \in Nat
      BY <1>0, SizesAssumption DEF oldest, OwnTypes
    <2>2. /\ UNCHANGED <<queue, current, slot, posted, own>> /\ pc[w] # "wait"
          /\ \E n \in Nat : next' = [next EXCEPT ![w] = n]
          /\ \E l \in Labels \ {"read"} : pc' = [pc EXCEPT ![w] = l]
      BY <1>0, <1>6, <2>1 DEF Lagged, RecvBcast, Connect, chanVars, workVars, Labels, OwnTypes
    <2>3. /\ slot' \in [Workers -> {"none", "waiting", "ok", "dropped"}]
          /\ next' \in [Workers -> Nat]
          /\ \A v \in Workers \ {w} : next'[v] = next[v]
      BY <1>0, <2>2 DEF OwnTypes
    <2> QED
      BY <2>2, <2>3, WorkerStep
  <1>7. CASE UNCHANGED <<queue, current, slot, posted, own, next, pc>>
    BY <1>7 DEF OwnInv, OwnTypes, OneMessage, Awaits, OwnPosted, OwnChangeFirst
  <1>8. ASSUME NEW w \in Workers, ClientSends(w) PROVE OwnInv'
    BY <1>7, <1>8 DEF ClientSends, chanVars, bcastVars, workVars
  <1>9. CASE UNCHANGED vars
    BY <1>7, <1>9 DEF vars, chanVars, bcastVars, workVars
  <1> QED
    BY <1>1, <1>2, <1>3, <1>4, <1>5, <1>6, <1>8, <1>9, NextCases

(* When a worker reads its client's next message it has taken, or been     *)
(* overtaken by, every broadcast its own calls have caused.                *)
THEOREM OwnChangesComeFirst == Spec => []OwnChangeFirst
  <1>1. Init => OwnInv
    BY DEF Init, OwnInv, OwnTypes, OneMessage, OwnPosted, OwnChangeFirst, Labels
  <1>2. OwnInv => OwnChangeFirst
    BY DEF OwnInv
  <1> QED
    BY <1>1, <1>2, OwnInvNext, PTL DEF Spec

-----------------------------------------------------------------------------
(* What a client hears.  The loop takes a broadcast only when the last one *)
(* has been written: one whose write failed stays in item while the worker *)
(* leaves, and a worker that leaves never returns to its loop.             *)
HearTypes ==
    /\ posted \in Nat
    /\ next \in [Workers -> Nat \ {0}] /\ from \in [Workers -> Nat \ {0}]
    /\ told \in [Workers -> Seq(Nat)] /\ item \in [Workers -> Nat]
    /\ missed \in [Workers -> SUBSET Nat]
    /\ pc \in [Workers -> Labels]
    /\ leaving \in [Workers -> BOOLEAN]

Calling == {"call", "send", "wait"}

ItemInv(w) ==
    /\ leaving[w] => pc[w] \in Calling \cup {"gone"}
    /\ item[w] # 0 => pc[w] \in {"write", "leave", "gone"} \/ (leaving[w] /\ pc[w] \in Calling)
    /\ pc[w] = "absent" => told[w] = <<>> /\ missed[w] = {}
    /\ from[w] <= next[w]

HeardBy(w) ==
    /\ \A i, j \in DOMAIN heard(w) : i < j => heard(w)[i] < heard(w)[j]
    /\ {heard(w)[i] : i \in DOMAIN heard(w)} \cup missed[w] = from[w]..(next[w] - 1)

HearInv == HearTypes /\ \A w \in Workers : ItemInv(w) /\ HeardBy(w)

(* A step of w that leaves what was heard alone.                           *)
LEMMA HearOther ==
    ASSUME HearInv, NEW v \in Workers,
           told'[v] = told[v], item'[v] = item[v], missed'[v] = missed[v],
           from'[v] = from[v], next'[v] = next[v]
    PROVE  HeardBy(v)'
  <1>1. heard(v)' = heard(v)
    BY DEF heard
  <1> QED
    BY <1>1 DEF HearInv, HeardBy

(* Every step keeps what was heard in order, and all of it heard or missed.*)
LEMMA HearInvNext == HearInv /\ [Next]_vars => HearInv'
  <1> SUFFICES ASSUME HearInv, [Next]_vars PROVE HearInv'
    OBVIOUS
  <1>0. HearTypes /\ \A v \in Workers : ItemInv(v) /\ HeardBy(v)
    BY DEF HearInv
  <1>1. CASE UNCHANGED <<next, from, told, missed, pc, item, leaving>> /\ posted' \in Nat
    <2>1. HearTypes'
      BY <1>0, <1>1 DEF HearTypes
    <2>2. \A v \in Workers : ItemInv(v)'
      BY <1>0, <1>1 DEF ItemInv
    <2>3. \A v \in Workers : HeardBy(v)'
      BY <1>1, HearOther
    <2> QED
      BY <2>1, <2>2, <2>3 DEF HearInv
  <1>2. CASE UNCHANGED vars
    BY <1>0, <1>1, <1>2 DEF vars, bcastVars, workVars, HearTypes
  <1>3. CASE VaultPanics \/ VaultStarts \/ VaultRecv \/ CheckBcast \/ CheckSend
    BY <1>0, <1>1, <1>3 DEF VaultPanics, VaultStarts, VaultRecv, CheckBcast, CheckSend, bcastVars,
                            workVars, HearTypes
  <1>4. ASSUME NEW w \in Workers, ClientSends(w) PROVE HearInv'
    BY <1>0, <1>1, <1>4 DEF ClientSends, bcastVars, workVars, HearTypes
  <1>5. ASSUME NEW w \in Workers,
               \/ SendFails(w) \/ SendQueued(w) \/ ReplyReceived(w)
               \/ \E kind \in Kinds : SendNow(w, kind) \/ SendGranted(w, kind)
               \/ NoBcast(w) \/ ReadPart(w) \/ ReadMessage(w) \/ Leave(w)
               \/ WriteFails(w) \/ CapsSent(w) \/ ReadFails(w)
        PROVE  HearInv'
    <2>1. UNCHANGED <<posted, next, from, told, missed, item>>
      BY <1>5 DEF SendFails, SendQueued, ReplyReceived, SendNow, SendGranted, Enqueue, NoBcast,
                  ReadPart, ReadMessage, Leave, WriteFails, CapsSent, ReadFails, bcastVars, workVars
    <2>2. PICK l \in Labels \ {"absent"} :
            /\ pc' = [pc EXCEPT ![w] = l]
            /\ \/ leaving' = leaving /\ l \in Calling /\ pc[w] \in Calling
               \/ leaving' = leaving /\ l = "gone"
               \/ leaving' = leaving /\ l = "write" /\ pc[w] = "wait" /\ ~leaving[w]
               \/ leaving' = leaving /\ pc[w] \in {"select", "read", "caps"}
               \/ leaving' = leaving /\ pc[w] = "write" /\ l = "leave"
               \/ leaving' = [leaving EXCEPT ![w] = TRUE] /\ pc[w] = "leave" /\ l \in {"call", "gone"}
      BY <1>0, <1>5 DEF SendFails, SendQueued, ReplyReceived, SendNow, SendGranted, Enqueue, NoBcast,
                  ReadPart, ReadMessage, Leave, WriteFails, CapsSent, ReadFails, Goto, MayCall,
                  workVars, Labels, Calling, HearTypes
    <2>3. HearTypes'
      BY <1>0, <2>1, <2>2 DEF HearTypes
    <2>4. ItemInv(w)'
      BY <1>0, <2>1, <2>2 DEF HearTypes, ItemInv, Calling, Labels
    <2>5. \A v \in Workers \ {w} : ItemInv(v)'
      BY <1>0, <2>1, <2>2 DEF HearTypes, ItemInv
    <2>6. \A v \in Workers : HeardBy(v)'
      BY <2>1, HearOther
    <2> QED
      BY <2>3, <2>4, <2>5, <2>6 DEF HearInv
  <1>6. ASSUME NEW w \in Workers, Connect(w) PROVE HearInv'
    <2>1. /\ pc[w] = "absent" /\ pc' = [pc EXCEPT ![w] = "caps"]
          /\ next' = [next EXCEPT ![w] = posted + 1] /\ from' = [from EXCEPT ![w] = posted + 1]
          /\ UNCHANGED <<posted, told, missed, item, leaving>>
      BY <1>6 DEF Connect
    <2>2. HearTypes'
      BY <1>0, <2>1 DEF HearTypes, Labels
    <2>3. \A v \in Workers : ItemInv(v)'
      BY <1>0, <2>1 DEF HearTypes, ItemInv, Calling
    <2>4. HeardBy(w)'
      <3>1. told[w] = <<>> /\ missed[w] = {} /\ item[w] = 0
        BY <1>0, <2>1 DEF ItemInv, Calling
      <3>2. heard(w)' = <<>>
        BY <2>1, <3>1 DEF heard
      <3>3. (from[w]..(next[w] - 1))' = {}
        BY <1>0, <2>1 DEF HearTypes
      <3> QED
        BY <2>1, <3>1, <3>2, <3>3 DEF HeardBy
    <2>5. \A v \in Workers \ {w} : HeardBy(v)'
      BY <1>0, <2>1, HearOther DEF HearTypes
    <2> QED
      BY <2>2, <2>3, <2>4, <2>5 DEF HearInv
  <1>7. ASSUME NEW w \in Workers, Lagged(w) PROVE HearInv'
    <2>1. /\ next[w] < oldest /\ next' = [next EXCEPT ![w] = oldest]
          /\ missed' = [missed EXCEPT ![w] = @ \cup next[w]..(oldest - 1)]
          /\ UNCHANGED <<posted, from, told, item, leaving, pc>>
      BY <1>7 DEF Lagged, workVars
    <2>2. oldest \in Nat \ {0}
      BY <1>0, SizesAssumption DEF oldest, HearTypes
    <2>3. HearTypes'
      BY <1>0, <2>1, <2>2 DEF HearTypes
    <2>4. \A v \in Workers : ItemInv(v)'
      <3>1. pc[w] # "absent"
        BY <1>7 DEF Lagged
      <3> QED BY <1>0, <2>1, <2>2, <3>1 DEF HearTypes, ItemInv
    <2>5. HeardBy(w)'
      <3>1. heard(w)' = heard(w)
        BY <2>1 DEF heard
      <3>2. (from[w]..(next[w] - 1))' = from[w]..(next[w] - 1) \cup next[w]..(oldest - 1)
        BY <1>0, <2>1, <2>2 DEF HearTypes, ItemInv
      <3>3. missed'[w] = missed[w] \cup next[w]..(oldest - 1)
        BY <1>0, <2>1 DEF HearTypes
      <3> QED
        BY <1>0, <3>1, <3>2, <3>3 DEF HeardBy
    <2>6. \A v \in Workers \ {w} : HeardBy(v)'
      BY <1>0, <2>1, HearOther DEF HearTypes
    <2> QED
      BY <2>3, <2>4, <2>5, <2>6 DEF HearInv
  <1>8. ASSUME NEW w \in Workers, RecvBcast(w) PROVE HearInv'
    <2> DEFINE n == next[w]
    <2>1. /\ pc[w] = "select" /\ n \in Nat \ {0} /\ from[w] \in Nat \ {0} /\ from[w] <= n
          /\ next' = [next EXCEPT ![w] = n + 1] /\ item' = [item EXCEPT ![w] = n]
          /\ pc' = [pc EXCEPT ![w] = "write"]
          /\ UNCHANGED <<posted, from, told, missed, leaving>>
      BY <1>0, <1>8 DEF RecvBcast, HearTypes, ItemInv
    <2>2. HearTypes'
      BY <1>0, <2>1 DEF HearTypes, Labels
    <2>3. \A v \in Workers : ItemInv(v)'
      BY <1>0, <2>1 DEF HearTypes, ItemInv, Calling
    <2>4. HeardBy(w)'
      <3> DEFINE t == told[w]
      <3>1. t \in Seq(Nat) /\ item[w] = 0 /\ item'[w] = n
        BY <1>0, <2>1 DEF HearTypes, ItemInv, Calling
      <3>2. heard(w) = t /\ heard(w)' = Append(t, n)
        <4>1. told'[w] = t /\ n # 0
          BY <2>1
        <4> QED
          BY <3>1, <4>1 DEF heard
      <3>3. /\ Len(t) \in Nat /\ DOMAIN t = 1..Len(t) /\ DOMAIN Append(t, n) = 1..(Len(t) + 1)
            /\ \A i \in 1..Len(t) : Append(t, n)[i] = t[i] /\ t[i] \in Nat
            /\ Append(t, n)[Len(t) + 1] = n
        BY <3>1, <2>1
      <3>4. \A i \in 1..Len(t) : t[i] < n
        <4>1. ASSUME NEW i \in 1..Len(t) PROVE t[i] \in from[w]..(n - 1)
          BY <1>0, <3>2, <3>3 DEF HeardBy
        <4> QED
          BY <4>1, <2>1
      <3>5. \A i, j \in 1..Len(t) : i < j => t[i] < t[j]
        BY <1>0, <3>2, <3>3 DEF HeardBy
      <3>6. \A i, j \in DOMAIN Append(t, n) : i < j => Append(t, n)[i] < Append(t, n)[j]
        BY <3>3, <3>4, <3>5
      <3>7. {Append(t, n)[i] : i \in DOMAIN Append(t, n)} = {t[i] : i \in DOMAIN t} \cup {n}
        BY <3>3
      <3>8. (from[w]..(next[w] - 1))' = from[w]..(n - 1) \cup {n}
        BY <1>0, <2>1 DEF HearTypes
      <3>9. {t[i] : i \in DOMAIN t} \cup missed[w] = from[w]..(n - 1)
        BY <1>0, <3>2 DEF HeardBy
      <3>10. ({heard(w)[i] : i \in DOMAIN heard(w)})' \cup missed[w] = (from[w]..(next[w] - 1))'
        <4>1. ({heard(w)[i] : i \in DOMAIN heard(w)})' = {t[i] : i \in DOMAIN t} \cup {n}
          BY <3>2, <3>7
        <4> HIDE DEF n, t
        <4> QED
          BY <4>1, <3>8, <3>9
      <3>11. (\A i, j \in DOMAIN heard(w) : i < j => heard(w)[i] < heard(w)[j])'
        BY <3>2, <3>6
      <3>12. missed'[w] = missed[w]
        BY <2>1
      <3> QED
        BY <3>10, <3>11, <3>12 DEF HeardBy
    <2>5. \A v \in Workers \ {w} : HeardBy(v)'
      BY <1>0, <2>1, HearOther DEF HearTypes
    <2> QED
      BY <2>2, <2>3, <2>4, <2>5 DEF HearInv
  <1>9. ASSUME NEW w \in Workers, Written(w) PROVE HearInv'
    <2>1. /\ pc[w] = "write" /\ pc' = [pc EXCEPT ![w] = "select"]
          /\ told' = [told EXCEPT ![w] = IF item[w] = 0 THEN @ ELSE Append(@, item[w])]
          /\ item' = [item EXCEPT ![w] = 0]
          /\ UNCHANGED <<posted, next, from, missed, leaving>>
      BY <1>9 DEF Written
    <2>2. HearTypes'
      BY <1>0, <2>1 DEF HearTypes, Labels
    <2>3. \A v \in Workers : ItemInv(v)'
      BY <1>0, <2>1 DEF HearTypes, ItemInv, Calling
    <2>4. HeardBy(w)'
      <3>1. told[w] \in Seq(Nat) /\ item[w] \in Nat /\ item'[w] = 0
        BY <1>0, <2>1 DEF HearTypes
      <3>2. told'[w] = IF item[w] = 0 THEN told[w] ELSE Append(told[w], item[w])
        BY <1>0, <2>1 DEF HearTypes
      <3>3. heard(w)' = heard(w)
        BY <3>1, <3>2 DEF heard
      <3> QED
        BY <1>0, <2>1, <3>3 DEF HeardBy
    <2>5. \A v \in Workers \ {w} : HeardBy(v)'
      BY <1>0, <2>1, HearOther DEF HearTypes
    <2> QED
      BY <2>2, <2>3, <2>4, <2>5 DEF HearInv
  <1> QED
    BY <1>2, <1>3, <1>4, <1>5, <1>6, <1>7, <1>8, <1>9, NextCases

(* For any workers, queue and ring: a client hears of the broadcasts since *)
(* it was connected in order and once, and with those its worker was       *)
(* overtaken by they are all there are up to the receiver's cursor.        *)
THEOREM ClientsHearInOrder == Spec => []HeardInOrder
  <1>1. Init => HearInv
    <2> SUFFICES ASSUME Init PROVE HearInv
      OBVIOUS
    <2>1. HearTypes
      BY DEF Init, HearTypes, Labels
    <2>2. ASSUME NEW w \in Workers PROVE ItemInv(w)
      BY DEF Init, ItemInv, Calling
    <2>3. ASSUME NEW w \in Workers PROVE HeardBy(w)
      <3>1. heard(w) = <<>> /\ missed[w] = {} /\ from[w] = 1 /\ next[w] = 1
        BY DEF Init, heard
      <3> QED
        BY <3>1 DEF HeardBy
    <2> QED
      BY <2>1, <2>2, <2>3 DEF HearInv
  <1>2. HearInv => HeardInOrder
    BY DEF HearInv, HeardBy, HeardInOrder
  <1> QED
    BY <1>1, <1>2, HearInvNext, PTL DEF Spec

-----------------------------------------------------------------------------
(* Framing.  As long as no read was dropped with parts in it, what has     *)
(* been taken out of the stream are the messages handled and the parts in  *)
(* the current read; so the next message ends where the client ended it.   *)
FrameTypes ==
    /\ arrived \in [Workers -> Nat] /\ taken \in [Workers -> Nat] /\ got \in [Workers -> Nat]
    /\ torn \in [Workers -> BOOLEAN]
    /\ handled \in [Workers -> Seq(Nat)]

Framed(w) ==
    /\ got[w] < MsgSize /\ taken[w] <= arrived[w]
    /\ ~torn[w] => /\ taken[w] = MsgSize * Len(handled[w]) + got[w]
                   /\ \A i \in 1..Len(handled[w]) : handled[w][i] = i

FrameInv == FrameTypes /\ \A w \in Workers : Framed(w)

(* The message whose last part is part MsgSize * k is the k-th.            *)
LEMMA MessageAtEnd == \A k \in Nat : MessageAt(MsgSize * k) = k
  <1> SUFFICES ASSUME NEW k \in Nat PROVE MessageAt(MsgSize * k) = k
    OBVIOUS
  <1>1. MsgSize \in Nat \ {0}
    BY SizesAssumption
  <1> DEFINE d == (MsgSize * k) \div MsgSize
             r == (MsgSize * k) % MsgSize
  <1>2. MsgSize * k = MsgSize * d + r /\ d \in Int /\ r \in 0..(MsgSize - 1)
    BY <1>1
  <1>3. d = k /\ r = 0
    <2> HIDE DEF d, r
    <2>1. r = MsgSize * (k - d)
      BY <1>1, <1>2
    <2>2. CASE k - d >= 1
      <3>1. MsgSize * (k - d) >= MsgSize
        BY <1>1, <1>2, <2>2
      <3> QED
        BY <1>1, <1>2, <2>1, <3>1
    <2>3. CASE k - d <= -1
      <3>1. MsgSize * (k - d) <= - MsgSize
        BY <1>1, <1>2, <2>3
      <3> QED
        BY <1>1, <1>2, <2>1, <3>1
    <2>4. CASE k - d = 0
      BY <1>1, <1>2, <2>1, <2>4
    <2> QED
      BY <1>1, <1>2, <2>2, <2>3, <2>4
  <1> QED
    BY <1>3 DEF MessageAt

(* Every step keeps the framing.                                           *)
LEMMA FrameInvNext == FrameInv /\ [Next]_vars => FrameInv'
  <1> SUFFICES ASSUME FrameInv, [Next]_vars PROVE FrameInv'
    OBVIOUS
  <1>0. FrameTypes /\ (\A w \in Workers : Framed(w)) /\ MsgSize \in Nat \ {0}
    BY SizesAssumption DEF FrameInv
  <1>1. CASE UNCHANGED streamVars
    BY <1>0, <1>1 DEF streamVars, FrameInv, FrameTypes, Framed
  <1>2. CASE VaultPanics \/ VaultStarts \/ VaultRecv \/ CheckBcast \/ CheckSend
    BY <1>1, <1>2 DEF VaultPanics, VaultStarts, VaultRecv, CheckBcast, CheckSend
  <1>3. ASSUME NEW w \in Workers,
               \/ SendFails(w) \/ SendQueued(w) \/ ReplyReceived(w)
               \/ \E kind \in Kinds : SendNow(w, kind) \/ SendGranted(w, kind)
        PROVE  FrameInv'
    BY <1>1, <1>3 DEF SendFails, SendQueued, ReplyReceived, SendNow, SendGranted, Enqueue
  <1>4. ASSUME NEW w \in Workers,
               \/ NoBcast(w) \/ Leave(w) \/ Written(w) \/ WriteFails(w) \/ CapsSent(w)
               \/ Connect(w) \/ ReadFails(w)
        PROVE  FrameInv'
    BY <1>1, <1>4 DEF NoBcast, Leave, Written, WriteFails, CapsSent, Connect, ReadFails
  <1>5. ASSUME NEW w \in Workers, Lagged(w) \/ RecvBcast(w) PROVE FrameInv'
    <2>1. /\ got' = [got EXCEPT ![w] = 0]
          /\ torn' = [torn EXCEPT ![w] = torn[w] \/ got[w] > 0]
          /\ UNCHANGED <<arrived, taken, handled>>
      BY <1>5, Zenon DEF Lagged, RecvBcast, DropRead
    <2>2. FrameTypes'
      BY <1>0, <2>1 DEF FrameTypes
    <2>3. ASSUME NEW v \in Workers PROVE Framed(v)'
      <3>1. CASE v # w
        BY <1>0, <2>1, <3>1 DEF FrameTypes, Framed
      <3>2. CASE v = w
        <4>1. got'[w] = 0 /\ torn'[w] = (torn[w] \/ got[w] > 0)
          BY <1>0, <2>1 DEF FrameTypes
        <4>2. ~(got[w] > 0) => got[w] = 0
          BY <1>0 DEF FrameTypes
        <4>3. ~torn'[w] => ~torn[w] /\ got[w] = 0
          BY <4>1, <4>2, Zenon
        <4>4. Framed(w) /\ UNCHANGED <<arrived, taken, handled>>
          BY <1>0, <2>1
        <4>5. got'[w] < MsgSize /\ taken'[w] <= arrived'[w]
          BY <1>0, <4>1, <4>4 DEF Framed
        <4>6. ASSUME ~torn'[w]
              PROVE  /\ taken'[w] = MsgSize * Len(handled'[w]) + got'[w]
                     /\ \A i \in 1..Len(handled'[w]) : handled'[w][i] = i
          BY <4>1, <4>3, <4>4, <4>6 DEF Framed
        <4> QED
          BY <3>2, <4>5, <4>6 DEF Framed
      <3> QED
        BY <3>1, <3>2
    <2> QED
      BY <2>2, <2>3 DEF FrameInv
  <1>6. ASSUME NEW w \in Workers, ReadPart(w) PROVE FrameInv'
    <2>1. /\ got[w] + (arrived[w] - taken[w]) < MsgSize
          /\ got' = [got EXCEPT ![w] = got[w] + (arrived[w] - taken[w])]
          /\ taken' = [taken EXCEPT ![w] = arrived[w]]
          /\ UNCHANGED <<arrived, torn, handled>>
      BY <1>6 DEF ReadPart
    <2>2. Framed(w)
      BY <1>0
    <2>3. got[w] + (arrived[w] - taken[w]) \in Nat
      BY <1>0, <2>2 DEF FrameTypes, Framed
    <2>4. FrameTypes'
      BY <1>0, <2>1, <2>3 DEF FrameTypes
    <2>5. ASSUME NEW v \in Workers PROVE Framed(v)'
      <3>1. CASE v # w
        BY <1>0, <2>1, <3>1 DEF FrameTypes, Framed
      <3>2. CASE v = w
        <4>1. got'[w] = got[w] + (arrived[w] - taken[w]) /\ taken'[w] = arrived[w]
          BY <1>0, <2>1 DEF FrameTypes
        <4>2. MsgSize * Len(handled[w]) \in Nat
          BY <1>0 DEF FrameTypes
        <4> QED
          BY <1>0, <2>1, <2>2, <3>2, <4>1, <4>2 DEF FrameTypes, Framed
      <3> QED
        BY <3>1, <3>2
    <2> QED
      BY <2>4, <2>5 DEF FrameInv
  <1>7. ASSUME NEW w \in Workers, ReadMessage(w) PROVE FrameInv'
    <2> DEFINE end == taken[w] + MsgSize - got[w]
               n == Len(handled[w])
    <2>1. /\ got[w] + (arrived[w] - taken[w]) >= MsgSize
          /\ got' = [got EXCEPT ![w] = 0]
          /\ taken' = [taken EXCEPT ![w] = end]
          /\ handled' = [handled EXCEPT ![w] = Append(handled[w], MessageAt(end))]
          /\ UNCHANGED <<arrived, torn>>
      BY <1>7 DEF ReadMessage
    <2>2. Framed(w) /\ handled[w] \in Seq(Nat) /\ n \in Nat
      BY <1>0 DEF FrameTypes
    <2>3. end \in Nat /\ end <= arrived[w]
      BY <1>0, <2>1, <2>2 DEF FrameTypes, Framed
    <2>4. MessageAt(end) \in Nat
      BY <1>0, <2>3 DEF MessageAt
    <2>5. ~torn[w] => end = MsgSize * (n + 1) /\ MessageAt(end) = n + 1
      <3>1. ASSUME ~torn[w] PROVE end = MsgSize * n + MsgSize
        <4>1. MsgSize * n \in Nat
          BY <1>0, <2>2
        <4> QED
          BY <1>0, <2>2, <3>1, <4>1 DEF FrameTypes, Framed
      <3>2. MsgSize * (n + 1) = MsgSize * n + MsgSize
        BY <1>0, <2>2
      <3> QED
        BY <2>2, <3>1, <3>2, MessageAtEnd
    <2> HIDE DEF end
    <2>6. FrameTypes'
      BY <1>0, <2>1, <2>2, <2>3, <2>4 DEF FrameTypes
    <2>7. ASSUME NEW v \in Workers PROVE Framed(v)'
      <3>1. CASE v # w
        BY <1>0, <2>1, <3>1 DEF FrameTypes, Framed
      <3>2. CASE v = w
        <4>1. /\ got'[w] = 0 /\ taken'[w] = end /\ torn'[w] = torn[w] /\ arrived'[w] = arrived[w]
              /\ Len(handled'[w]) = n + 1 /\ handled'[w][n + 1] = MessageAt(end)
              /\ \A i \in 1..n : handled'[w][i] = handled[w][i]
          BY <1>0, <2>1, <2>2, <2>4 DEF FrameTypes
        <4>2. ~torn[w] => taken'[w] = MsgSize * Len(handled'[w]) + got'[w]
          <5>1. MsgSize * (n + 1) \in Nat
            BY <1>0, <2>2
          <5> QED
            BY <2>5, <4>1, <5>1
        <4>3. ~torn[w] => \A i \in 1..(n + 1) : handled'[w][i] = i
          <5> SUFFICES ASSUME ~torn[w], NEW i \in 1..(n + 1) PROVE handled'[w][i] = i
            OBVIOUS
          <5>1. CASE i = n + 1
            BY <2>5, <4>1, <5>1
          <5>2. CASE i # n + 1
            <6>1. i \in 1..n
              BY <2>2, <5>2
            <6> QED
              BY <2>2, <4>1, <6>1 DEF Framed
          <5> QED
            BY <5>1, <5>2
        <4> QED
          BY <1>0, <2>3, <3>2, <4>1, <4>2, <4>3 DEF Framed
      <3> QED
        BY <3>1, <3>2
    <2> QED
      BY <2>6, <2>7 DEF FrameInv
  <1>8. ASSUME NEW w \in Workers, ClientSends(w) PROVE FrameInv'
    <2>1. arrived' = [arrived EXCEPT ![w] = arrived[w] + 1] /\ UNCHANGED <<taken, got, torn, handled>>
      BY <1>8 DEF ClientSends
    <2>2. FrameTypes' /\ \A v \in Workers : arrived[v] <= arrived'[v]
      BY <1>0, <2>1 DEF FrameTypes
    <2>3. \A v \in Workers : taken[v] \in Nat /\ arrived[v] \in Nat /\ arrived'[v] \in Nat
      BY <1>0, <2>2 DEF FrameTypes
    <2>4. ASSUME NEW v \in Workers PROVE Framed(v)'
      BY <1>0, <2>1, <2>2, <2>3 DEF Framed
    <2> QED
      BY <2>2, <2>4 DEF FrameInv
  <1>9. CASE UNCHANGED vars
    BY <1>1, <1>9 DEF vars
  <1> QED
    BY <1>2, <1>3, <1>4, <1>5, <1>6, <1>7, <1>8, <1>9, NextCases

(* For messages of any length: a worker handles its client's messages      *)
(* whole, each once and in order, until select! drops a CliToAuth::read    *)
(* that has begun one.                                                     *)
THEOREM MessagesStayFramed == Spec => []FramingKept
  <1>1. Init => FrameInv
    BY SizesAssumption DEF Init, FrameInv, FrameTypes, Framed
  <1>2. FrameInv => FramingKept
    BY DEF FrameInv, FrameTypes, Framed, FramingKept
  <1> QED
    BY <1>1, <1>2, FrameInvNext, PTL DEF Spec
=============================================================================
