------------------------- MODULE FileTransferProofs -------------------------
(***************************************************************************)
(* Downloads, for files, sizes and chunks of any kind and any number of    *)
(* requests and of rewrites.                                               *)
(***************************************************************************)
EXTENDS FileTransfer, FiniteSetTheorems, SequenceTheorems, TLAPS

Request == [trans : Nat, kind : Kinds, name : Name \cup {Plain}, stale : BOOLEAN]
Data == [version : Nat, from : Nat, count : Nat]
ReplySet == [trans : Nat, kind : Kinds,
             result : {"success", "oldBuildId", "fileNotFound", "internalError"},
             reader : Nat, total : Nat, offset : Nat, data : Data]
EndSet == [trans : Nat, kind : Kinds \cup {"failed"}, name : Name \cup {Plain}, calm : BOOLEAN,
           total : Nat, pos : Nat]

TypeOK ==
    /\ server \in {"file", "auth"}
    /\ file \in [Name -> [version : Nat, size : Nat, whole : BOOLEAN]]
    /\ rewrites \in Nat /\ asked \in Nat
    /\ inbox \in Seq(Request)
    /\ pc \in {"wait", "open", "reading", "gone"}
    /\ request \in Request
    /\ reader \in Nat /\ total \in Nat /\ pos \in Nat
    /\ out \in Seq(ReplySet)
    /\ calm \in BOOLEAN
    /\ ended \in Seq(EndSet)
    /\ \A i \in DOMAIN inbox : inbox[i].name \in Name
    /\ pc \in {"open", "reading"} => request.name \in Name
    /\ pc = "reading" => request.kind = "download"
    /\ pc # "reading" => total = 0 /\ pos = 0

(* The replies the code builds are replies.                                *)
LEMMA Typing ==
    /\ NoRequest \in Request /\ NoData \in Data
    /\ \A r \in Request, result \in {"success", "oldBuildId", "fileNotFound", "internalError"},
          id \in Nat, size \in Nat, offset \in Nat, data \in Data :
            Reply(r, result, id, size, offset, data) \in ReplySet
    /\ \A r \in Request, result \in {"oldBuildId", "fileNotFound", "internalError"} :
            ErrorReply(r, result) \in ReplySet
  BY DEF NoRequest, NoData, Request, Data, ReplySet, Reply, ErrorReply, Kinds

(* The first state is typed.                                               *)
LEMMA InitTypeOK == Init => TypeOK
  <1> SUFFICES ASSUME Init PROVE TypeOK
    OBVIOUS
  <1>1. file \in [Name -> [version : Nat, size : Nat, whole : BOOLEAN]]
    BY TransferAssumption DEF Init
  <1> QED
    BY <1>1, Typing DEF Init, TypeOK

(* The size of a directory listing is a number.                            *)
LEMMA DirSize == Cardinality(from_dir) \in Nat
  <1>1. from_dir \subseteq Name
    BY TransferAssumption DEF from_dir
  <1> QED
    BY <1>1, TransferAssumption, FS_Subset, FS_CardinalityType

(* The offset in a chunk is the position, as long as it fits.              *)
LEMMA OffsetType == ASSUME pos \in Nat PROVE Offset \in Nat /\ (pos <= MaxTotal => Offset = pos)
  BY TransferAssumption DEF Offset

(* The record of a request that ended is typed.                            *)
LEMMA EndType ==
    ASSUME TypeOK, NEW k \in Kinds \cup {"failed"}
    PROVE  [trans |-> request.trans, kind |-> k, name |-> request.name,
            calm |-> calm, total |-> total, pos |-> pos] \in EndSet
  BY DEF TypeOK, Request, EndSet

(* Every step keeps the types.                                             *)
LEMMA NextTypeOK == TypeOK /\ [Next]_vars => TypeOK'
  <1> SUFFICES ASSUME TypeOK, [Next]_vars PROVE TypeOK'
    OBVIOUS
  <1>d. ASSUME Done(request), NEW r \in Seq(ReplySet), out' = r, reader' \in Nat,
               UNCHANGED <<server, fs, client>>
        PROVE  TypeOK'
    <2>1. ended' \in Seq(EndSet)
      BY <1>d, EndType, AppendProperties DEF Done, End, TypeOK, Request
    <2> QED
      BY <1>d, <2>1, Typing DEF Done, TypeOK, fs, client
  <1>o. ASSUME NEW r \in ReplySet PROVE Append(out, r) \in Seq(ReplySet)
    BY AppendProperties DEF TypeOK
  <1>1. ASSUME NEW k \in Kinds, NEW n \in Name, NEW st \in BOOLEAN, Ask(k, n, st) PROVE TypeOK'
    <2> DEFINE q == [trans |-> asked + 1, kind |-> k, name |-> n, stale |-> st]
    <2>1. q \in Request /\ q.name \in Name
      BY DEF TypeOK, Request
    <2>2. inbox' = Append(inbox, q)
      BY <1>1 DEF Ask
    <2> HIDE DEF q
    <2>3. inbox' \in Seq(Request) /\ \A i \in DOMAIN inbox' : inbox'[i].name \in Name
      BY <2>1, <2>2, AppendProperties DEF TypeOK
    <2> QED
      BY <1>1, <2>3 DEF Ask, TypeOK, fs
  <1>2. ASSUME NEW n \in Name, Truncate(n) PROVE TypeOK'
    BY <1>2 DEF Truncate, TypeOK, client
  <1>3. ASSUME NEW n \in Name, Write(n) PROVE TypeOK'
    BY <1>3, TransferAssumption DEF Write, TypeOK, client
  <1>4. CASE Take
    <2>1. /\ Head(inbox) \in Request /\ Tail(inbox) \in Seq(Request)
          /\ Head(inbox).name \in Name
          /\ \A i \in DOMAIN Tail(inbox) : Tail(inbox)[i].name \in Name
      BY <1>4 DEF Take, TypeOK
    <2> QED
      BY <1>4, <2>1 DEF Take, TypeOK, fs
  <1>5. CASE Simple
    BY <1>5, <1>d, <1>o, Typing DEF Simple, TypeOK
  <1>6. CASE Refuse
    BY <1>6, <1>d, <1>o, Typing DEF Refuse, TypeOK
  <1>7. CASE DoManifest
    <2> DEFINE n == request.name
               data == [version |-> file[n].version, from |-> 0, count |-> file[n].size]
               r == Reply(request, "success", reader + 1, file[n].size, 0, data)
    <2>1. data \in Data /\ file[n].size \in Nat
      BY <1>7 DEF DoManifest, TypeOK, Data
    <2>2. r \in ReplySet
      BY <2>1, Typing DEF TypeOK
    <2> HIDE DEF data, r
    <2>3. /\ out' = Append(out, r) \/ out' = Append(out, ErrorReply(request, "fileNotFound"))
          /\ reader' \in Nat /\ Done(request) /\ UNCHANGED <<server, fs, client>>
      BY <1>7 DEF DoManifest, TypeOK, r, data
    <2> QED
      BY <2>2, <2>3, <1>d, <1>o, Typing DEF TypeOK
  <1>8. CASE DoFileList
    <2> DEFINE r == Reply(request, "success", 0, Cardinality(from_dir), 0, NoData)
    <2>1. r \in ReplySet /\ ErrorReply(request, "fileNotFound") \in ReplySet
      BY DirSize, Typing DEF TypeOK
    <2> HIDE DEF r
    <2>2. out' = Append(out, r) \/ out' = Append(out, ErrorReply(request, "fileNotFound"))
      BY <1>8 DEF DoFileList, r
    <2> QED
      BY <1>8, <2>1, <2>2, <1>d, <1>o DEF DoFileList, TypeOK
  <1>9. CASE DownloadFails
    <2>1. ErrorReply(request, "internalError") \in ReplySet /\ ErrorReply(request, "fileNotFound") \in ReplySet
      BY Typing DEF TypeOK
    <2> QED
      BY <1>9, <2>1, <1>d, <1>o DEF DownloadFails, TypeOK
  <1>10. CASE DownloadOpen
    BY <1>10 DEF DownloadOpen, TypeOK, fs, client
  <1>11. CASE ReadChunk
    <2> DEFINE n == request.name
    <2>1. n \in Name /\ file[n].size \in Nat /\ file[n].version \in Nat
      BY <1>11 DEF ReadChunk, TypeOK
    <2>2. Left \in Nat
      BY <2>1 DEF Left, TypeOK
    <2>3. PICK count \in 1..(IF Left < ChunkSize THEN Left ELSE ChunkSize) :
        /\ out' = Append(out, Reply(request, "success",
                            IF server = "file" THEN reader ELSE 0, total,
                            IF server = "auth" THEN Offset ELSE 0,
                            [version |-> file[request.name].version, from |-> pos,
                             count |-> count]))
        /\ pos' = pos + count
      BY <1>11 DEF ReadChunk
    <2>4. count \in Nat
      BY <2>2, <2>3, TransferAssumption
    <2>5. [version |-> file[request.name].version, from |-> pos, count |-> count] \in Data
      BY <2>1, <2>4 DEF TypeOK, Data
    <2>6. out' \in Seq(ReplySet)
      BY <2>3, <2>5, <1>o, Typing, OffsetType DEF TypeOK
    <2> QED
      BY <1>11, <2>3, <2>4, <2>6 DEF ReadChunk, TypeOK, fs, client
  <1>12. CASE ReadEnd
    BY <1>12, <1>d DEF ReadEnd, TypeOK
  <1>13. CASE ReadFails
    <2>1. out' \in Seq(ReplySet)
      BY <1>13, <1>o, Typing DEF ReadFails, TypeOK
    <2>2. ended' \in Seq(EndSet)
      BY <1>13, EndType, AppendProperties DEF ReadFails, TypeOK
    <2> QED
      BY <1>13, <2>1, <2>2, Typing DEF ReadFails, TypeOK, fs, client
  <1>14. CASE HangUp
    BY <1>14, Typing DEF HangUp, TypeOK, fs
  <1>15. CASE UNCHANGED vars
    BY <1>15 DEF vars, TypeOK, fs, client
  <1> QED
    BY <1>1, <1>2, <1>3, <1>4, <1>5, <1>6, <1>7, <1>8, <1>9, <1>10, <1>11, <1>12, <1>13, <1>14, <1>15
       DEF Next, Worker

-----------------------------------------------------------------------------
(* The transaction of the last request that was taken.                     *)
Current == asked - Len(inbox)

(* Requests are numbered as they come, and what was answered or dealt with *)
(* is no later than the one at hand.                                       *)
Ordered ==
    /\ Len(inbox) <= asked
    /\ \A i \in DOMAIN inbox : inbox[i].trans = Current + i
    /\ pc \in {"open", "reading"} => request.trans = Current
    /\ \A i \in DOMAIN out : out[i].trans <= Current
    /\ \A i \in DOMAIN ended : ended[i].trans <= Current
    /\ pc = "open" => \A i \in DOMAIN out : out[i].trans < request.trans
    /\ pc \in {"open", "reading"} => \A i \in DOMAIN ended : ended[i].trans < request.trans

(* The loop of a download: nothing was sent while pos is 0, the last chunk *)
(* reaches to pos after that, and as long as nobody writes the file it is  *)
(* the one that was announced.                                             *)
Reading ==
    pc = "reading" =>
        /\ calm => total = file[request.name].size /\ pos <= total
        /\ pos = 0 => \A i \in DOMAIN out : out[i].trans < request.trans
        /\ pos > 0 =>
             /\ Len(out) > 0 /\ IsChunk(out[Len(out)]) /\ out[Len(out)].trans = request.trans
             /\ out[Len(out)].data.from + out[Len(out)].data.count = pos
             /\ out[Len(out)].total = total
             /\ out[Len(out)].reader = IF server = "file" THEN reader ELSE 0
        /\ \A i \in DOMAIN out : out[i].trans = request.trans =>
             /\ out[i].total = total /\ out[i].data.from + out[i].data.count <= pos
             /\ calm => out[i].data.version = file[request.name].version

Inv == TypeOK /\ Ordered /\ Reading /\ ChunksInOrder /\ UndisturbedComplete /\ AnsweredInOrder

(* What a reply or a record at the end of a sequence leaves in place.      *)
LEMMA Appended ==
    ASSUME NEW S, NEW s \in Seq(S), NEW x \in S
    PROVE  /\ Len(s) \in Nat /\ DOMAIN s = 1..Len(s)
           /\ Members(Append(s, x)) = Members(s) \cup {x}
           /\ Len(Append(s, x)) = Len(s) + 1
           /\ DOMAIN Append(s, x) = 1..(Len(s) + 1)
           /\ \A i \in 1..Len(s) : Append(s, x)[i] = s[i]
           /\ Append(s, x)[Len(s) + 1] = x
  <1>1. /\ Len(s) \in Nat /\ DOMAIN s = 1..Len(s)
        /\ Len(Append(s, x)) = Len(s) + 1
        /\ DOMAIN Append(s, x) = 1..(Len(s) + 1)
        /\ \A i \in 1..Len(s) : Append(s, x)[i] = s[i]
        /\ Append(s, x)[Len(s) + 1] = x
    BY LenProperties, AppendProperties
  <1> DEFINE a == Append(s, x)
  <1> HIDE DEF a
  <1>2. /\ DOMAIN a = 1..(Len(s) + 1) /\ \A i \in 1..Len(s) : a[i] = s[i]
        /\ a[Len(s) + 1] = x
    BY <1>1 DEF a
  <1>3. Members(a) \subseteq Members(s) \cup {x}
    BY <1>1, <1>2 DEF Members
  <1>4. Members(s) \cup {x} \subseteq Members(a)
    BY <1>1, <1>2 DEF Members
  <1> QED
    BY <1>1, <1>3, <1>4 DEF a

(* The members of the two histories, by index.                             *)
LEMMA ByIndex ==
    /\ \A r \in Members(out) : \E i \in DOMAIN out : r = out[i]
    /\ \A e \in Members(ended) : \E i \in DOMAIN ended : e = ended[i]
    /\ \A i \in DOMAIN out : out[i] \in Members(out)
    /\ \A i \in DOMAIN ended : ended[i] \in Members(ended)
  BY DEF Members

(* The numbers in them.                                                    *)
LEMMA ItemTypes ==
    ASSUME TypeOK
    PROVE  /\ \A i \in DOMAIN out : /\ out[i].trans \in Nat
                                    /\ out[i].data.from \in Nat /\ out[i].data.count \in Nat
           /\ \A i \in DOMAIN ended : ended[i].trans \in Nat
  <1>1. \A i \in DOMAIN out : out[i] \in ReplySet
    BY LenProperties, ElementOfSeq DEF TypeOK
  <1>2. \A i \in DOMAIN ended : ended[i] \in EndSet
    BY LenProperties, ElementOfSeq DEF TypeOK
  <1> QED
    BY <1>1, <1>2 DEF ReplySet, Data, EndSet

(* Nothing is asked or answered at first.                                  *)
LEMMA InitInv == Init => Inv
  <1> SUFFICES ASSUME Init PROVE Inv
    OBVIOUS
  <1>1. DOMAIN out = {} /\ DOMAIN ended = {} /\ DOMAIN inbox = {} /\ Len(inbox) = 0 /\ pc = "wait"
        /\ asked = 0
    BY DEF Init
  <1>2. Members(out) = {} /\ Members(ended) = {}
    BY <1>1 DEF Members
  <1> QED
    BY <1>1, <1>2, InitTypeOK
       DEF Inv, Ordered, Reading, ChunksInOrder, UndisturbedComplete, AnsweredInOrder, Current

(* A reply that is not a chunk, and nothing after it but the end: what     *)
(* ChunksInOrder, and AnsweredInOrder for the replies, need.               *)
LEMMA Replied ==
    ASSUME Inv, pc \in {"open", "reading"}, NEW x \in ReplySet, x.trans = request.trans, ~IsChunk(x),
           out' = Append(out, x), server' = server
    PROVE  /\ ChunksInOrder'
           /\ \A i, j \in DOMAIN out' : i < j => out'[i].trans <= out'[j].trans
  <1>1. /\ Len(out) \in Nat /\ DOMAIN out = 1..Len(out)
        /\ DOMAIN out' = 1..(Len(out) + 1)
        /\ \A i \in 1..Len(out) : out'[i] = out[i]
        /\ out'[Len(out) + 1] = x
    BY Appended DEF Inv, TypeOK
  <1>2. \A i \in DOMAIN out : out[i].trans <= x.trans
    BY DEF Inv, Ordered
  <1>3. ChunksInOrder'
    <2> SUFFICES ASSUME NEW i \in DOMAIN out', IsChunk(out'[i])
                 PROVE  /\ \/ out'[i].data.from = 0 /\ \A j \in 1..(i - 1) : out'[j].trans # out'[i].trans
                           \/ i > 1 /\ Continues(out'[i], out'[i - 1])
                        /\ server = "auth" => out'[i].offset = out'[i].data.from \/ out'[i].data.from > MaxTotal
      BY DEF ChunksInOrder, IsChunk, Continues
    <2>1. i \in 1..Len(out) /\ out'[i] = out[i] /\ \A j \in 1..(i - 1) : out'[j] = out[j]
      BY <1>1
    <2>2. i > 1 => out'[i - 1] = out[i - 1]
      BY <1>1, <2>1
    <2> QED
      BY <1>1, <2>1, <2>2 DEF Inv, ChunksInOrder
  <1>4. \A i, j \in DOMAIN out' : i < j => out'[i].trans <= out'[j].trans
    BY <1>1, <1>2 DEF Inv, AnsweredInOrder
  <1> QED
    BY <1>3, <1>4

(* The request at hand is dealt with, after a last reply that is not a     *)
(* chunk: what the histories keep.                                         *)
LEMMA Settled ==
    ASSUME Inv, pc \in {"open", "reading"}, NEW x \in ReplySet, x.trans = request.trans, ~IsChunk(x),
           out' = Append(out, x), server' = server, UNCHANGED client, pc' = "wait",
           NEW e \in EndSet, e.trans = request.trans, ended' = Append(ended, e),
           e.kind = "download" /\ e.calm => pc = "open" /\ e.pos = 0 /\ e.total = 0
    PROVE  Ordered' /\ Reading' /\ ChunksInOrder' /\ UndisturbedComplete' /\ AnsweredInOrder'
  <1>1. /\ Len(out) \in Nat /\ DOMAIN out = 1..Len(out)
        /\ DOMAIN out' = 1..(Len(out) + 1) /\ Members(out') = Members(out) \cup {x}
        /\ \A i \in 1..Len(out) : out'[i] = out[i]
        /\ out'[Len(out) + 1] = x
    BY Appended DEF Inv, TypeOK
  <1>2. /\ Len(ended) \in Nat /\ DOMAIN ended = 1..Len(ended)
        /\ DOMAIN ended' = 1..(Len(ended) + 1) /\ Members(ended') = Members(ended) \cup {e}
        /\ \A i \in 1..Len(ended) : ended'[i] = ended[i]
        /\ ended'[Len(ended) + 1] = e
    BY Appended DEF Inv, TypeOK
  <1>0. request.trans = Current /\ request.trans \in Nat
    BY DEF Inv, TypeOK, Request, Ordered
  <1>3. Ordered'
    <2>1. \A i \in DOMAIN out' : out'[i].trans <= Current
      BY <1>0, <1>1 DEF Inv, Ordered
    <2>2. \A i \in DOMAIN ended' : ended'[i].trans <= Current
      BY <1>0, <1>2 DEF Inv, Ordered
    <2> QED
      BY <2>1, <2>2 DEF Inv, Ordered, client, Current
  <1>4. Reading'
    BY DEF Reading
  <1>5. \A k : ChunksOf(k)' = ChunksOf(k)
    BY <1>1 DEF ChunksOf, IsChunk
  <1>6. UndisturbedComplete'
    <2>1. ASSUME e.kind = "download", e.calm PROVE ChunksOf(e.trans) = {}
      BY <1>0, <2>1, ByIndex DEF Inv, Ordered, ChunksOf
    <2>2. ASSUME e.kind = "download", e.calm PROVE Delivered(e)'
      BY <1>5, <2>1, <2>2 DEF Delivered
    <2>3. \A d \in Members(ended) : Delivered(d) => Delivered(d)'
      BY <1>5 DEF Delivered
    <2> QED
      BY <1>2, <2>2, <2>3 DEF Inv, UndisturbedComplete
  <1>7. AnsweredInOrder'
    BY <1>1, <1>2, Replied DEF Inv, AnsweredInOrder
  <1> QED
    BY <1>3, <1>4, <1>6, <1>7, Replied

(* The request at hand is dealt with and gets no last reply.               *)
LEMMA SettledSilently ==
    ASSUME Inv, pc \in {"open", "reading"}, out' = out, server' = server, UNCHANGED client, pc' = "wait",
           NEW e \in EndSet, e.trans = request.trans, ended' = Append(ended, e),
           e.kind = "download" /\ e.calm => Delivered(e),
           \/ \E r \in Members(out) : r.trans = e.trans
           \/ e.kind = "ack"
           \/ e.kind = "download" /\ (e.total = 0 \/ ~e.calm)
    PROVE  Ordered' /\ Reading' /\ ChunksInOrder' /\ UndisturbedComplete' /\ AnsweredInOrder'
  <1>0. request.trans = Current /\ request.trans \in Nat
    BY DEF Inv, TypeOK, Request, Ordered
  <1>2. /\ Len(ended) \in Nat /\ DOMAIN ended = 1..Len(ended)
        /\ DOMAIN ended' = 1..(Len(ended) + 1) /\ Members(ended') = Members(ended) \cup {e}
        /\ \A i \in 1..Len(ended) : ended'[i] = ended[i]
        /\ ended'[Len(ended) + 1] = e
    BY Appended DEF Inv, TypeOK
  <1>3. Ordered'
    <2>2. \A i \in DOMAIN ended' : ended'[i].trans <= Current
      BY <1>0, <1>2 DEF Inv, Ordered
    <2> QED
      BY <2>2 DEF Inv, Ordered, client, Current
  <1>4. Reading' /\ ChunksInOrder'
    BY DEF Reading, Inv, ChunksInOrder
  <1>5. \A k : ChunksOf(k)' = ChunksOf(k)
    BY DEF ChunksOf
  <1>6. UndisturbedComplete'
    <2>3. \A d \in Members(ended) \cup {e} : Delivered(d) => Delivered(d)'
      BY <1>5 DEF Delivered
    <2> QED
      BY <1>2, <2>3 DEF Inv, UndisturbedComplete
  <1>7. AnsweredInOrder'
    BY <1>2 DEF Inv, AnsweredInOrder
  <1> QED
    BY <1>3, <1>4, <1>6, <1>7

(* The record that Done leaves of the request at hand.                     *)
LEMMA DoneRecord ==
    ASSUME Inv, Done(request)
    PROVE  \E e \in EndSet : /\ ended' = Append(ended, e) /\ pc' = "wait"
                             /\ e.trans = request.trans /\ e.kind = request.kind /\ e.calm = calm
                             /\ e.total = total /\ e.pos = pos
  <1> DEFINE e == [trans |-> request.trans, kind |-> request.kind, name |-> request.name,
                   calm |-> calm, total |-> total, pos |-> pos]
  <1>1. request.kind \in Kinds
    BY DEF Inv, TypeOK, Request
  <1>2. e \in EndSet
    BY <1>1, EndType DEF Inv
  <1>3. ended' = Append(ended, e) /\ pc' = "wait"
    BY DEF Done, End
  <1> QED
    BY <1>2, <1>3

(* The replies other than chunks.                                          *)
LEMMA PlainReplies ==
    ASSUME Inv
    PROVE  /\ \A result \in {"oldBuildId", "fileNotFound", "internalError"} :
                LET x == ErrorReply(request, result)
                IN  x \in ReplySet /\ x.trans = request.trans /\ ~IsChunk(x)
           /\ request.kind # "download" => \A id \in Nat, size \in Nat, data \in Data :
                LET x == Reply(request, "success", id, size, 0, data)
                IN  x \in ReplySet /\ x.trans = request.trans /\ ~IsChunk(x)
  <1>1. request \in Request
    BY DEF Inv, TypeOK
  <1>2. \A result, id, size, off, data :
          LET x == Reply(request, result, id, size, off, data)
          IN  x.trans = request.trans /\ x.kind = request.kind /\ x.result = result
    BY DEF Reply
  <1>3. \A result : LET x == ErrorReply(request, result) IN x.trans = request.trans /\ x.result = result
    BY <1>2 DEF ErrorReply
  <1> QED
    BY <1>1, <1>2, <1>3, Typing DEF IsChunk

(* A request is answered by one reply that is not a chunk, and is over.    *)
LEMMA Answered ==
    ASSUME Inv, pc = "open", NEW x \in ReplySet, x.trans = request.trans, ~IsChunk(x),
           out' = Append(out, x), server' = server, UNCHANGED client, Done(request)
    PROVE  Ordered' /\ Reading' /\ ChunksInOrder' /\ UndisturbedComplete' /\ AnsweredInOrder'
  <1>1. PICK e \in EndSet : /\ ended' = Append(ended, e) /\ pc' = "wait"
                            /\ e.trans = request.trans /\ e.kind = request.kind /\ e.calm = calm
                            /\ e.total = total /\ e.pos = pos
    BY DoneRecord
  <1>2. total = 0 /\ pos = 0
    BY DEF Inv, TypeOK
  <1> QED
    BY <1>1, <1>2, Settled

(* A chunk is sent: it continues the one before, or is the first.          *)
LEMMA ChunkSent ==
    ASSUME Inv, ReadChunk
    PROVE  Ordered' /\ Reading' /\ ChunksInOrder' /\ UndisturbedComplete' /\ AnsweredInOrder'
  <1> DEFINE n == request.name
             id == IF server = "file" THEN reader ELSE 0
             offset == IF server = "auth" THEN Offset ELSE 0
  <1>t. TypeOK
    BY DEF Inv
  <1>0. /\ n \in Name /\ file[n].size \in Nat /\ file[n].version \in Nat /\ pc = "reading"
        /\ request.kind = "download" /\ request \in Request /\ request.trans \in Nat
        /\ request.trans = Current /\ pos \in Nat /\ total \in Nat
    BY <1>t DEF ReadChunk, TypeOK, Inv, Ordered, Request
  <1>1. Left \in Nat /\ Left > 0
    BY <1>0 DEF Left, ReadChunk
  <1>2. PICK count \in 1..(IF Left < ChunkSize THEN Left ELSE ChunkSize) :
          /\ out' = Append(out, Reply(request, "success", id, total, offset,
                              [version |-> file[n].version, from |-> pos, count |-> count]))
          /\ pos' = pos + count
    BY DEF ReadChunk
  <1>3. count \in Nat \ {0} /\ count <= Left
    BY <1>1, <1>2, TransferAssumption
  <1>4. pos + count <= file[n].size
    BY <1>0, <1>1, <1>3 DEF Left
  <1> DEFINE data == [version |-> file[n].version, from |-> pos, count |-> count]
             x == Reply(request, "success", id, total, offset, data)
  <1>5. data \in Data /\ id \in Nat /\ offset \in Nat
    BY <1>0, <1>3, <1>t, OffsetType DEF Data, TypeOK
  <1>6. x \in ReplySet
    BY <1>0, <1>5, Typing
  <1>7. /\ x.trans = request.trans /\ x.kind = "download" /\ x.result = "success" /\ x.reader = id
        /\ x.total = total /\ x.offset = offset /\ x.data = data
        /\ data.version = file[n].version /\ data.from = pos /\ data.count = count
    BY <1>0 DEF Reply
  <1>8. server = "auth" => x.offset = x.data.from \/ x.data.from > MaxTotal
    BY <1>0, <1>7, OffsetType, TransferAssumption
  <1>9. IsChunk(x)
    BY <1>7 DEF IsChunk
  <1>10. /\ x.data.from = pos /\ x.data.count = count /\ x.data.version = file[n].version
         /\ x.trans = request.trans /\ x.total = total /\ x.reader = id
    BY <1>7
  <1>11. out' = Append(out, x)
    BY <1>2
  <1> HIDE DEF x, data, id, offset, n
  <1>12. /\ Len(out) \in Nat /\ DOMAIN out = 1..Len(out)
         /\ Len(out') = Len(out) + 1
         /\ DOMAIN out' = 1..(Len(out) + 1) /\ Members(out') = Members(out) \cup {x}
         /\ \A i \in 1..Len(out) : out'[i] = out[i]
         /\ out'[Len(out) + 1] = x
    BY <1>6, <1>11, <1>t, Appended DEF TypeOK
  <1>13. /\ server' = server /\ file' = file /\ asked' = asked /\ inbox' = inbox /\ pc' = pc
         /\ request' = request /\ reader' = reader /\ total' = total /\ calm' = calm /\ ended' = ended
    BY DEF ReadChunk, fs, client
  <1>14. Ordered'
    <2>1. \A i \in DOMAIN out' : out'[i].trans <= Current
      BY <1>0, <1>10, <1>12 DEF Inv, Ordered
    <2> QED
      BY <1>0, <1>13, <2>1 DEF Inv, Ordered, Current
  <1>15. Reading'
    <2>1. calm => total = file[n].size /\ pos + count <= total
      BY <1>0, <1>4 DEF Inv, Reading, n
    <2>2. pos + count # 0
      BY <1>0, <1>3
    <2>3. ASSUME NEW i \in DOMAIN out', out'[i].trans = request.trans
          PROVE  /\ out'[i].total = total /\ out'[i].data.from + out'[i].data.count <= pos + count
                 /\ calm => out'[i].data.version = file[n].version
      <3>1. CASE i = Len(out) + 1
        BY <1>0, <1>3, <1>10, <1>12, <3>1
      <3>2. CASE i # Len(out) + 1
        <4>1. i \in DOMAIN out /\ out'[i] = out[i]
          BY <1>12, <3>2
        <4>2. /\ out[i].total = total /\ out[i].data.from + out[i].data.count <= pos
              /\ calm => out[i].data.version = file[n].version
          BY <1>0, <2>3, <4>1 DEF Inv, Reading, n
        <4>3. out[i].data.from \in Nat /\ out[i].data.count \in Nat
          BY <1>t, <4>1, ItemTypes
        <4> QED
          BY <1>0, <1>3, <4>1, <4>2, <4>3
      <3> QED
        BY <3>1, <3>2
    <2>4. /\ out'[Len(out')] = x /\ Len(out') > 0
      BY <1>12
    <2> QED
      BY <1>0, <1>2, <1>3, <1>9, <1>10, <1>13, <2>1, <2>2, <2>3, <2>4 DEF Reading, IsChunk, id, n
  <1>16. ChunksInOrder'
    <2> SUFFICES ASSUME NEW i \in DOMAIN out', IsChunk(out'[i])
                 PROVE  /\ \/ out'[i].data.from = 0 /\ \A j \in 1..(i - 1) : out'[j].trans # out'[i].trans
                           \/ i > 1 /\ Continues(out'[i], out'[i - 1])
                        /\ server = "auth" => out'[i].offset = out'[i].data.from \/ out'[i].data.from > MaxTotal
      BY <1>13 DEF ChunksInOrder, IsChunk, Continues
    <2>1. CASE i # Len(out) + 1
      <3>1. i \in 1..Len(out) /\ out'[i] = out[i] /\ \A j \in 1..(i - 1) : out'[j] = out[j]
        BY <1>12, <2>1
      <3>2. i > 1 => out'[i - 1] = out[i - 1]
        BY <1>12, <3>1
      <3> QED
        BY <1>12, <3>1, <3>2 DEF Inv, ChunksInOrder
    <2>2. CASE i = Len(out) + 1 /\ pos = 0
      <3>1. out'[i] = x /\ \A j \in 1..(i - 1) : j \in DOMAIN out /\ out'[j] = out[j]
        BY <1>12, <2>2
      <3>2. \A j \in DOMAIN out : out[j].trans < request.trans
        BY <1>0, <2>2 DEF Inv, Reading
      <3>3. \A j \in DOMAIN out : out[j].trans \in Nat
        BY <1>t, ItemTypes
      <3> QED
        BY <1>0, <1>8, <1>10, <2>2, <3>1, <3>2, <3>3
    <2>3. CASE i = Len(out) + 1 /\ pos # 0
      <3> DEFINE l == out[Len(out)]
      <3>1. /\ Len(out) > 0 /\ IsChunk(l) /\ l.trans = request.trans
            /\ l.data.from + l.data.count = pos /\ l.total = total /\ l.reader = id
        BY <1>0, <2>3 DEF Inv, Reading, id
      <3>2. out'[i] = x /\ i > 1 /\ out'[i - 1] = l
        BY <1>12, <2>3, <3>1
      <3> HIDE DEF l
      <3>3. Continues(x, l)
        BY <1>10, <3>1 DEF Continues
      <3> QED
        BY <1>8, <3>2, <3>3
    <2> QED
      BY <2>1, <2>2, <2>3
  <1>17. UndisturbedComplete'
    <2>1. \A k \in Members(ended) : k.trans # request.trans
      <3>1. \A i \in DOMAIN ended : ended[i].trans < request.trans
        BY <1>0 DEF Inv, Ordered
      <3> QED
        BY <1>0, <3>1, ByIndex
    <2>2. \A k \in Members(ended) : ChunksOf(k.trans)' = ChunksOf(k.trans)
      BY <1>10, <1>12, <1>13, <2>1 DEF ChunksOf
    <2>3. \A k \in Members(ended) : Delivered(k) => Delivered(k)'
      BY <2>2 DEF Delivered
    <2> QED
      BY <1>13, <2>3 DEF Inv, UndisturbedComplete
  <1>18. AnsweredInOrder'
    <2>1. \A i \in DOMAIN out : out[i].trans <= x.trans
      BY <1>0, <1>10 DEF Inv, Ordered
    <2>2. \A i, j \in DOMAIN out' : i < j => out'[i].trans <= out'[j].trans
      BY <1>12, <2>1 DEF Inv, AnsweredInOrder
    <2> QED
      BY <1>12, <1>13, <2>2 DEF Inv, AnsweredInOrder
  <1> QED
    BY <1>14, <1>15, <1>16, <1>17, <1>18

(* Every step of the worker, of its client and of who writes the files.    *)
LEMMA NextInv == Inv /\ [Next]_vars => Inv'
  <1> SUFFICES ASSUME Inv, [Next]_vars PROVE Inv'
    OBVIOUS
  <1>t. TypeOK /\ TypeOK'
    BY NextTypeOK DEF Inv
  <1> DEFINE Rest == Ordered /\ Reading /\ ChunksInOrder /\ UndisturbedComplete /\ AnsweredInOrder
  <1> SUFFICES Rest'
    BY <1>t DEF Inv
  <1>r. request \in Request /\ reader \in Nat
    BY <1>t DEF TypeOK
  <1>h. ASSUME out' = out, ended' = ended, server' = server
        PROVE  ChunksInOrder' /\ UndisturbedComplete' /\ AnsweredInOrder'
    <2>1. \A k : ChunksOf(k)' = ChunksOf(k)
      BY <1>h DEF ChunksOf
    <2>2. \A k \in Members(ended) : Delivered(k) => Delivered(k)'
      BY <2>1 DEF Delivered
    <2> QED
      BY <1>h, <2>2 DEF Inv, ChunksInOrder, UndisturbedComplete, AnsweredInOrder
  <1>1. ASSUME NEW k \in Kinds, NEW n \in Name, NEW st \in BOOLEAN, Ask(k, n, st) PROVE Rest'
    <2> DEFINE q == [trans |-> asked + 1, kind |-> k, name |-> n, stale |-> st]
    <2>1. q \in Request /\ q.trans = asked + 1 /\ asked \in Nat
      BY <1>t DEF TypeOK, Request
    <2>2. inbox' = Append(inbox, q) /\ asked' = asked + 1
          /\ UNCHANGED <<server, file, pc, request, reader, total, pos, out, calm, ended>>
      BY <1>1 DEF Ask, fs
    <2> HIDE DEF q
    <2>3. /\ Len(inbox) \in Nat /\ DOMAIN inbox = 1..Len(inbox)
          /\ Len(inbox') = Len(inbox) + 1 /\ DOMAIN inbox' = 1..(Len(inbox) + 1)
          /\ \A i \in 1..Len(inbox) : inbox'[i] = inbox[i]
          /\ inbox'[Len(inbox) + 1] = q
      BY <1>t, <2>1, <2>2, Appended DEF TypeOK
    <2>4. Current' = Current
      BY <2>1, <2>2, <2>3 DEF Current
    <2>5. \A i \in DOMAIN inbox' : inbox'[i].trans = Current + i
      BY <2>1, <2>3 DEF Inv, Ordered, Current
    <2>6. Ordered'
      BY <2>1, <2>2, <2>3, <2>4, <2>5 DEF Inv, Ordered
    <2>7. Reading'
      BY <2>2 DEF Inv, Reading
    <2> QED
      BY <1>h, <2>2, <2>6, <2>7
  <1>2. ASSUME NEW n \in Name, Truncate(n) \/ Write(n) PROVE Rest'
    <2>1. /\ UNCHANGED <<server, client, pc, request, reader, total, pos, out, ended>>
          /\ \A m \in Name \ {n} : file'[m] = file[m]
          /\ calm' => calm /\ ~(pc = "reading" /\ request.name = n)
      BY <1>2, <1>t DEF Truncate, Write, TypeOK
    <2>2. Ordered'
      BY <2>1 DEF Inv, Ordered, Current, client
    <2>3. Reading'
      BY <2>1, <1>t DEF Inv, Reading, TypeOK
    <2> QED
      BY <1>h, <2>1, <2>2, <2>3
  <1>3. CASE Take
    <2>1. /\ UNCHANGED <<server, asked, out, ended>> /\ pc' = "open" /\ request' = Head(inbox)
          /\ inbox' = Tail(inbox) /\ inbox # <<>> /\ inbox \in Seq(Request)
      BY <1>3, <1>t DEF Take, TypeOK
    <2>2. /\ Len(inbox) \in Nat \ {0} /\ Head(inbox) = inbox[1] /\ Len(inbox') = Len(inbox) - 1
          /\ DOMAIN inbox' = 1..(Len(inbox) - 1) /\ DOMAIN inbox = 1..Len(inbox)
          /\ \A i \in 1..(Len(inbox) - 1) : inbox'[i] = inbox[i + 1]
      BY <2>1
    <2>3. Current' = Current + 1 /\ Current \in Nat /\ asked \in Nat
      BY <1>t, <2>1, <2>2 DEF Current, TypeOK, Inv, Ordered
    <2>4. request'.trans = Current + 1
      BY <2>1, <2>2 DEF Inv, Ordered
    <2>5. \A i \in DOMAIN inbox' : inbox'[i].trans = Current' + i
      <3> TAKE i \in DOMAIN inbox'
      <3>1. i + 1 \in DOMAIN inbox /\ inbox'[i] = inbox[i + 1] /\ i \in Nat
        BY <2>2
      <3>2. inbox[i + 1].trans = Current + (i + 1)
        BY <3>1 DEF Inv, Ordered
      <3> QED
        BY <2>3, <3>1, <3>2
    <2>6. /\ \A i \in DOMAIN out : out[i].trans < Current + 1
          /\ \A i \in DOMAIN ended : ended[i].trans < Current + 1
      <3>1. /\ \A i \in DOMAIN out : out[i].trans \in Nat
            /\ \A i \in DOMAIN ended : ended[i].trans \in Nat
        BY <1>t, ItemTypes
      <3> QED
        BY <2>3, <3>1 DEF Inv, Ordered
    <2>a. /\ \A i \in DOMAIN out : out[i].trans <= Current + 1
          /\ \A i \in DOMAIN ended : ended[i].trans <= Current + 1
      <3>1. /\ \A i \in DOMAIN out : out[i].trans \in Nat
            /\ \A i \in DOMAIN ended : ended[i].trans \in Nat
        BY <1>t, ItemTypes
      <3> QED
        BY <2>3, <2>6, <3>1
    <2>7. Len(inbox') <= asked'
      BY <2>1, <2>2, <2>3 DEF Inv, Ordered
    <2>8. Ordered'
      BY <2>1, <2>3, <2>4, <2>5, <2>6, <2>7, <2>a DEF Ordered
    <2>9. Reading'
      BY <2>1 DEF Reading
    <2> QED
      BY <1>h, <2>1, <2>8, <2>9
  <1>4. CASE Simple
    <2>1. CASE request.kind = "ack"
      <3>1. PICK e \in EndSet : /\ ended' = Append(ended, e) /\ pc' = "wait"
                                /\ e.trans = request.trans /\ e.kind = request.kind /\ e.calm = calm
                                /\ e.total = total /\ e.pos = pos
        BY <1>4, DoneRecord DEF Simple
      <3> QED
        BY <1>4, <2>1, <3>1, SettledSilently DEF Simple
    <2>2. CASE request.kind # "ack"
      <3>1. request.kind # "download" /\ 0 \in Nat /\ NoData \in Data
        BY <1>4, Typing DEF Simple
      <3> DEFINE x == Reply(request, "success", 0, 0, 0, NoData)
      <3>2. x \in ReplySet /\ x.trans = request.trans /\ ~IsChunk(x)
        BY <3>1, PlainReplies
      <3>3. out' = Append(out, x) /\ pc = "open" /\ server' = server /\ UNCHANGED client /\ Done(request)
        BY <1>4, <2>2 DEF Simple
      <3> HIDE DEF x
      <3> QED
        BY <3>2, <3>3, Answered
    <2> QED
      BY <2>1, <2>2
  <1>5. CASE Refuse
    <2> DEFINE x == ErrorReply(request, "oldBuildId")
    <2>1. x \in ReplySet /\ x.trans = request.trans /\ ~IsChunk(x)
      BY PlainReplies
    <2>2. out' = Append(out, x) /\ pc = "open" /\ server' = server /\ UNCHANGED client /\ Done(request)
      BY <1>5 DEF Refuse
    <2> HIDE DEF x
    <2> QED
      BY <2>1, <2>2, Answered
  <1>6. CASE DoManifest
    <2> DEFINE n == request.name
               data == [version |-> file[n].version, from |-> 0, count |-> file[n].size]
               x == Reply(request, "success", reader + 1, file[n].size, 0, data)
               y == ErrorReply(request, "fileNotFound")
    <2>1. data \in Data /\ file[n].size \in Nat /\ request.kind # "download" /\ reader + 1 \in Nat
      BY <1>6, <1>t DEF DoManifest, TypeOK, Data
    <2>2. /\ x \in ReplySet /\ x.trans = request.trans /\ ~IsChunk(x)
          /\ y \in ReplySet /\ y.trans = request.trans /\ ~IsChunk(y)
      BY <2>1, PlainReplies
    <2>3. /\ out' = Append(out, x) \/ out' = Append(out, y)
          /\ pc = "open" /\ server' = server /\ UNCHANGED client /\ Done(request)
      BY <1>6 DEF DoManifest
    <2> HIDE DEF x, y
    <2> QED
      BY <2>2, <2>3, Answered
  <1>7. CASE DoFileList
    <2> DEFINE x == Reply(request, "success", 0, Cardinality(from_dir), 0, NoData)
               y == ErrorReply(request, "fileNotFound")
    <2>1. NoData \in Data /\ Cardinality(from_dir) \in Nat /\ request.kind # "download"
      BY <1>7, Typing, DirSize DEF DoFileList
    <2>2. /\ x \in ReplySet /\ x.trans = request.trans /\ ~IsChunk(x)
          /\ y \in ReplySet /\ y.trans = request.trans /\ ~IsChunk(y)
      BY <2>1, PlainReplies
    <2>3. /\ out' = Append(out, x) \/ out' = Append(out, y)
          /\ pc = "open" /\ server' = server /\ UNCHANGED client /\ Done(request)
      BY <1>7 DEF DoFileList
    <2> HIDE DEF x, y
    <2> QED
      BY <2>2, <2>3, Answered
  <1>8. CASE DownloadFails
    <2> DEFINE x == ErrorReply(request, "internalError")
               y == ErrorReply(request, "fileNotFound")
    <2>2. /\ x \in ReplySet /\ x.trans = request.trans /\ ~IsChunk(x)
          /\ y \in ReplySet /\ y.trans = request.trans /\ ~IsChunk(y)
      BY PlainReplies
    <2>3. /\ out' = Append(out, x) \/ out' = Append(out, y)
          /\ pc = "open" /\ server' = server /\ UNCHANGED client /\ Done(request)
      BY <1>8 DEF DownloadFails
    <2> HIDE DEF x, y
    <2> QED
      BY <2>2, <2>3, Answered
  <1>9. CASE DownloadOpen
    <2>1. /\ UNCHANGED <<server, file, client, request, out, ended>> /\ pc = "open" /\ pc' = "reading"
          /\ total' = file[request.name].size /\ pos' = 0
      BY <1>9 DEF DownloadOpen, fs
    <2>2. Ordered'
      BY <2>1 DEF Inv, Ordered, Current, client
    <2>3. /\ \A i \in DOMAIN out : out[i].trans < request.trans /\ out[i].trans # request.trans
          /\ total' \in Nat
      <3>1. \A i \in DOMAIN out : out[i].trans \in Nat
        BY <1>t, ItemTypes
      <3> QED
        BY <1>t, <2>1, <3>1 DEF Inv, Ordered, TypeOK
    <2>4. Reading'
      BY <2>1, <2>3 DEF Reading
    <2> QED
      BY <1>h, <2>1, <2>2, <2>4
  <1>10. CASE ReadChunk
    BY <1>10, ChunkSent
  <1>11. CASE ReadEnd
    <2> DEFINE n == request.name
    <2>1. PICK e \in EndSet : /\ ended' = Append(ended, e) /\ pc' = "wait"
                              /\ e.trans = request.trans /\ e.kind = request.kind /\ e.calm = calm
                              /\ e.total = total /\ e.pos = pos
      BY <1>11, DoneRecord DEF ReadEnd
    <2>2. /\ pc = "reading" /\ request.kind = "download" /\ file[n].size \in Nat /\ pos \in Nat
          /\ total \in Nat /\ out' = out /\ server' = server /\ UNCHANGED client
          /\ ~(file[n].size > pos)
      <3>1. /\ pc = "reading" /\ Left = 0 /\ out' = out /\ server' = server /\ UNCHANGED client
        BY <1>11 DEF ReadEnd
      <3>2. request.kind = "download" /\ file[n].size \in Nat /\ pos \in Nat /\ total \in Nat
        BY <1>t, <3>1 DEF TypeOK
      <3> QED
        BY <3>1, <3>2 DEF Left
    <2>3. calm => pos = total
      BY <2>2 DEF Inv, Reading
    <2>4. pos > 0 => \E r \in ChunksOf(request.trans) : r.data.from + r.data.count = pos
      <3>1. ASSUME pos > 0 PROVE Len(out) \in DOMAIN out
        BY <1>t, <2>2, <3>1, LenProperties DEF Inv, Reading, TypeOK
      <3> QED
        BY <2>2, <3>1, ByIndex DEF Inv, Reading, ChunksOf
    <2>5. ASSUME NEW r \in ChunksOf(request.trans)
          PROVE  r.total = total /\ r.data.from + r.data.count <= pos
                 /\ (calm => r.data.version = file[n].version)
      BY <2>2, ByIndex DEF Inv, Reading, ChunksOf
    <2>6. calm => Delivered(e)
      BY <2>1, <2>2, <2>3, <2>4, <2>5 DEF Delivered
    <2>7. \/ \E r \in Members(out) : r.trans = e.trans
          \/ e.kind = "download" /\ (e.total = 0 \/ ~e.calm)
      BY <2>1, <2>2, <2>3, <2>4 DEF ChunksOf
    <2> QED
      BY <2>1, <2>2, <2>6, <2>7, SettledSilently
  <1>12. CASE ReadFails
    <2> DEFINE x == ErrorReply(request, "internalError")
               e == [trans |-> request.trans, kind |-> "failed", name |-> request.name,
                     calm |-> calm, total |-> total, pos |-> pos]
    <2>1. x \in ReplySet /\ x.trans = request.trans /\ ~IsChunk(x)
      BY PlainReplies
    <2>2. e \in EndSet /\ e.trans = request.trans /\ e.kind # "download"
      BY <1>t, EndType
    <2>3. /\ out' = Append(out, x) /\ pc = "reading" /\ server' = server /\ UNCHANGED client
          /\ pc' = "wait" /\ ended' = Append(ended, e)
      BY <1>12 DEF ReadFails
    <2> HIDE DEF x, e
    <2> QED
      BY <2>1, <2>2, <2>3, Settled
  <1>13. CASE HangUp
    <2>1. UNCHANGED <<server, asked, out, ended>> /\ pc' = "gone" /\ inbox' = <<>>
      BY <1>13 DEF HangUp
    <2>2. /\ asked \in Nat /\ Len(inbox) \in Nat /\ Len(inbox') = 0 /\ DOMAIN inbox' = {}
          /\ \A i \in DOMAIN out : out[i].trans \in Nat
          /\ \A i \in DOMAIN ended : ended[i].trans \in Nat
      BY <1>t, <2>1, ItemTypes DEF TypeOK
    <2>3. /\ \A i \in DOMAIN out : out[i].trans <= asked
          /\ \A i \in DOMAIN ended : ended[i].trans <= asked
      BY <2>2 DEF Inv, Ordered, Current
    <2>4. Ordered'
      BY <2>1, <2>2, <2>3 DEF Ordered, Current
    <2>5. Reading'
      BY <2>1 DEF Reading
    <2> QED
      BY <1>h, <2>1, <2>4, <2>5
  <1>14. CASE UNCHANGED vars
    <2>1. Ordered' /\ Reading'
      BY <1>14 DEF vars, fs, client, Inv, Ordered, Reading, Current
    <2> QED
      BY <1>14, <1>h, <2>1 DEF vars
  <1> QED
    BY <1>1, <1>2, <1>3, <1>4, <1>5, <1>6, <1>7, <1>8, <1>9, <1>10, <1>11, <1>12, <1>13, <1>14
       DEF Next, Worker

(* The invariant of a connection holds in every reachable state.           *)
LEMMA Invariant == Spec => []Inv
  BY InitInv, NextInv, PTL DEF Spec

(* Whatever is written to a file while it is sent, and however it is read, *)
(* a client can put the chunks it gets in place.                           *)
THEOREM ChunksFollow == Spec => []ChunksInOrder
  BY Invariant, PTL DEF Inv

(* A download that nobody disturbed delivered what it announced, whatever  *)
(* the size of the file and of the buffer.                                 *)
THEOREM UndisturbedDownloads == Spec => []UndisturbedComplete
  BY Invariant, PTL DEF Inv

(* Requests are answered in their order, and none but acks and downloads   *)
(* of empty files without an answer.                                       *)
THEOREM AnswersInOrder == Spec => []AnsweredInOrder
  BY Invariant, PTL DEF Inv
=============================================================================
