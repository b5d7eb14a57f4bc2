---------------------------- MODULE FileTransfer ----------------------------
(***************************************************************************)
(* One connection of the file server, or of the auth server as far as it   *)
(* serves files: a worker takes the requests of its client in turn and     *)
(* answers each before it reads the next.  A download is a loop of reads   *)
(* and messages with the file open, while mfs_tool, or the administrator,  *)
(* may truncate that file and write it anew.  Workers share nothing but    *)
(* the files, which none of them writes, so one is enough.                 *)
(*                                                                         *)
(* A file is a version and a size; the chunk of a download is the version  *)
(* that was read, and from where to where.                                 *)
(***************************************************************************)
EXTENDS Naturals, Sequences, FiniteSets

CONSTANTS
    Name,           \* the paths under the data root
    Mfs,            \* those of manifests
    Hidden,         \* those the file server does not give away
    Whitelist,      \* those the auth server does: Python\*.pak and SDL\*.sdl
    Size0,          \* the size of each file at the start; 0 when there is none
    Sizes,          \* the sizes a file may be rewritten with
    ChunkSize,      \* FILE_CHUNK_SIZE
    MaxTotal,       \* the largest size that fits the message
    MaxRequests, MaxRewrites    \* bounds

ASSUME TransferAssumption ==
    /\ IsFiniteSet(Name)
    /\ Mfs \subseteq Name /\ Hidden \subseteq Name /\ Whitelist \subseteq Name
    /\ Sizes \subseteq Nat /\ Size0 \in [Name -> Nat]
    /\ ChunkSize \in Nat \ {0} /\ MaxTotal \in Nat
    /\ MaxRequests \in Nat /\ MaxRewrites \in Nat

VARIABLES
    server,     \* which of the two this is: "file" or "auth"
    file,       \* Name -> [version, size, whole]; whole: not being written
    rewrites,   \* how often a file was rewritten
    asked,      \* the requests sent so far
    inbox,      \* those the worker has not taken
    pc,         \* "wait", "open", "reading", "gone"
    request,    \* the one it works on
    reader,     \* client_reader_id
    total, pos, \* of the open file: the announced size, how far it was read
    out,        \* the replies
    calm,       \* history: the open file was not written since it was opened
    ended       \* history: the requests dealt with, in order

fs     == <<file, rewrites>>
client == <<asked, inbox>>
vars   == <<server, fs, client, pc, request, reader, total, pos, out, calm, ended>>

Kinds == {"ping", "buildId", "manifest", "download", "ack"}
Plain     == CHOOSE n \in Name : TRUE     \* stands in where there is no name
NoRequest == [trans |-> 0, kind |-> "ack", name |-> Plain, stale |-> FALSE]

Exists(n) == file[n].version > 0

Init ==
    /\ server \in {"file", "auth"}
    /\ file = [n \in Name |-> [version |-> IF Size0[n] = 0 THEN 0 ELSE 1,
                               size |-> Size0[n], whole |-> TRUE]]
    /\ rewrites = 0
    /\ asked = 0 /\ inbox = <<>>
    /\ pc = "wait" /\ request = NoRequest
    /\ reader = 0 /\ total = 0 /\ pos = 0
    /\ out = <<>> /\ calm = TRUE /\ ended = <<>>

(* The client: stale is a build_id that is neither 0 nor the server's. *)
Ask(kind, n, stale) ==
    /\ asked < MaxRequests /\ pc # "gone"
    /\ stale => server = "file" /\ kind \in {"manifest", "download"}
    /\ kind = "buildId" => server = "file"
    /\ kind \notin {"manifest", "download"} => n = Plain
    /\ asked' = asked + 1
    /\ inbox' = Append(inbox, [trans |-> asked + 1, kind |-> kind, name |-> n,
                               stale |-> stale])
    /\ UNCHANGED <<server, fs, pc, request, reader, total, pos, out, calm, ended>>

(* Somebody creates a file or writes one anew: File::create truncates it,  *)
(* the open handle of a download stays on it, and the bytes come later.    *)
Truncate(n) ==
    /\ rewrites < MaxRewrites /\ file[n].whole
    /\ rewrites' = rewrites + 1
    /\ file' = [file EXCEPT ![n] = [version |-> @.version + 1, size |-> 0, whole |-> FALSE]]
    /\ calm' = (calm /\ ~(pc = "reading" /\ request.name = n))
    /\ UNCHANGED <<server, client, pc, request, reader, total, pos, out, ended>>

Write(n) ==
    /\ ~file[n].whole
    /\ \E s \in Sizes : file' = [file EXCEPT ![n].size = s, ![n].whole = TRUE]
    /\ calm' = (calm /\ ~(pc = "reading" /\ request.name = n))
    /\ UNCHANGED <<server, rewrites, client, pc, request, reader, total, pos, out, ended>>

-----------------------------------------------------------------------------
Reply(r, result, id, size, offset, data) ==
    [trans |-> r.trans, kind |-> r.kind, result |-> result, reader |-> id,
     total |-> size, offset |-> offset, data |-> data]
NoData == [version |-> 0, from |-> 0, count |-> 0]
(* manifest_error and download_error *)
ErrorReply(r, result) == Reply(r, result, 0, 0, 0, NoData)

End(r) == ended' = Append(ended, [trans |-> r.trans, kind |-> r.kind, name |-> r.name,
                                  calm |-> calm, total |-> total, pos |-> pos])
Done(r) ==
    /\ pc' = "wait" /\ request' = NoRequest
    /\ total' = 0 /\ pos' = 0 /\ calm' = TRUE
    /\ End(r)

(* read: the next message of the client. *)
Take ==
    /\ pc = "wait" /\ inbox # <<>>
    /\ pc' = "open" /\ request' = Head(inbox) /\ inbox' = Tail(inbox)
    /\ UNCHANGED <<server, fs, asked, reader, total, pos, out, calm, ended>>

(* handle_message for what is answered at once, and for the acks, which    *)
(* are ignored.  The auth server has no build id request.                  *)
Simple ==
    /\ pc = "open" /\ request.kind \in {"ping", "buildId", "ack"}
    /\ out' = IF request.kind = "ack" THEN out
              ELSE Append(out, Reply(request, "success", 0, 0, 0, NoData))
    /\ Done(request)
    /\ UNCHANGED <<server, fs, client, reader>>

(* Mutant: an old client is ignored. *)
Refuse_silent ==
    /\ pc = "open" /\ request.stale
    /\ Done(request)
    /\ UNCHANGED <<server, fs, client, reader, out>>

Refuse ==
    /\ pc = "open" /\ request.stale
    /\ out' = Append(out, ErrorReply(request, "oldBuildId"))
    /\ Done(request)
    /\ UNCHANGED <<server, fs, client, reader>>

(* A manifest parses when its file is there and is not being written. *)
fetch_manifest(n) == n \in Mfs /\ Exists(n) /\ file[n].whole /\ file[n].size > 0

DoManifest ==
    LET n == request.name IN
    /\ pc = "open" /\ request.kind = "manifest" /\ server = "file" /\ ~request.stale
    /\ IF fetch_manifest(n)
       THEN /\ reader' = reader + 1
            /\ out' = Append(out, Reply(request, "success", reader + 1, file[n].size, 0,
                        [version |-> file[n].version, from |-> 0, count |-> file[n].size]))
       ELSE out' = Append(out, ErrorReply(request, "fileNotFound")) /\ UNCHANGED reader
    /\ Done(request)
    /\ UNCHANGED <<server, fs, client>>

(* The auth server lists a directory, here by one of the files in it.  A   *)
(* file too large for the message is left out; the total is the number of  *)
(* entries.  The directory may not be readable.                            *)
check_file_request(n) == n \in Whitelist
from_dir == {n \in Whitelist : Exists(n) /\ file[n].size <= MaxTotal}

DoFileList ==
    /\ pc = "open" /\ request.kind = "manifest" /\ server = "auth"
    /\ \/ /\ check_file_request(request.name)
          /\ out' = Append(out, Reply(request, "success", 0, Cardinality(from_dir), 0, NoData))
       \/ out' = Append(out, ErrorReply(request, "fileNotFound"))
    /\ Done(request)
    /\ UNCHANGED <<server, fs, client, reader>>

(* open_server_file of the two servers. *)
ignore_file(n) == n \in Hidden
open_server_file(n) == Exists(n) /\ ~ignore_file(n)
open_secure_file(n) == check_file_request(n) /\ Exists(n)
Opens(n) == IF server = "file" THEN open_server_file(n) ELSE open_secure_file(n)

(* The length is the one of the file as it is opened. *)
DownloadFails ==
    LET n == request.name IN
    /\ pc = "open" /\ request.kind = "download" /\ ~request.stale
    /\ Opens(n) => file[n].size > MaxTotal
    /\ out' = Append(out, ErrorReply(request,
                              IF Opens(n) THEN "internalError" ELSE "fileNotFound"))
    /\ Done(request)
    /\ UNCHANGED <<server, fs, client, reader>>

DownloadOpen ==
    LET n == request.name IN
    /\ pc = "open" /\ request.kind = "download" /\ ~request.stale
    /\ Opens(n) /\ file[n].size <= MaxTotal
    /\ total' = file[n].size /\ pos' = 0 /\ calm' = TRUE
    /\ reader' = IF server = "file" THEN reader + 1 ELSE reader
    /\ pc' = "reading"
    /\ UNCHANGED <<server, fs, client, request, out, ended>>

(* file.read returns up to a buffer of what is left, and 0 at the end. *)
Left == IF file[request.name].size > pos THEN file[request.name].size - pos ELSE 0

(* Mutant: the offset is the number of the chunk, not of the byte. *)
Offset_index == Cardinality({i \in DOMAIN out : out[i].trans = request.trans})

(* offset is a u32, and adding to it wraps: the size was checked when the  *)
(* file was opened, and the file may have grown since.                     *)
Offset == pos % (MaxTotal + 1)

ReadChunk ==
    /\ pc = "reading" /\ Left > 0
    /\ \E count \in 1..(IF Left < ChunkSize THEN Left ELSE ChunkSize) :
        /\ out' = Append(out, Reply(request, "success",
                            IF server = "file" THEN reader ELSE 0, total,
                            IF server = "auth" THEN Offset ELSE 0,
                            [version |-> file[request.name].version, from |-> pos,
                             count |-> count]))
        /\ pos' = pos + count
    /\ UNCHANGED <<server, fs, client, pc, request, reader, total, calm, ended>>

(* Mutant: a read that fills less than the buffer is taken for the end. *)
ReadEnd_short ==
    /\ pc = "reading" /\ Left < ChunkSize
    /\ Done(request)
    /\ UNCHANGED <<server, fs, client, reader, out>>

(* Mutant: the loop goes on until the announced size was sent. *)
ReadEnd_total ==
    /\ pc = "reading" /\ Left = 0 /\ pos >= total
    /\ Done(request)
    /\ UNCHANGED <<server, fs, client, reader, out>>

ReadEnd ==
    /\ pc = "reading" /\ Left = 0
    /\ Done(request)
    /\ UNCHANGED <<server, fs, client, reader, out>>

(* The file cannot be read: the client gets an error after some chunks. *)
ReadFails ==
    /\ pc = "reading"
    /\ out' = Append(out, ErrorReply(request, "internalError"))
    /\ pc' = "wait" /\ request' = NoRequest /\ total' = 0 /\ pos' = 0 /\ calm' = TRUE
    /\ ended' = Append(ended, [trans |-> request.trans, kind |-> "failed",
                    name |-> request.name, calm |-> calm, total |-> total, pos |-> pos])
    /\ UNCHANGED <<server, fs, client, reader>>

(* The connection is lost: a read or a write fails and the worker returns. *)
HangUp ==
    /\ pc # "gone"
    /\ pc' = "gone" /\ request' = NoRequest /\ total' = 0 /\ pos' = 0
    /\ inbox' = <<>> /\ calm' = TRUE
    /\ UNCHANGED <<server, fs, asked, reader, out, ended>>

Worker ==
    \/ Take \/ Simple \/ Refuse \/ DoManifest \/ DoFileList
    \/ DownloadFails \/ DownloadOpen \/ ReadChunk \/ ReadEnd

Next ==
    \/ Worker \/ ReadFails \/ HangUp
    \/ \E n \in Name : Truncate(n) \/ Write(n)
    \/ \E k \in Kinds, n \in Name, s \in BOOLEAN : Ask(k, n, s)

(* The worker's task goes on as long as it can: its reads of files return,  *)
(* and so do its writes, as the client reads.  Nothing is assumed of the   *)
(* client, of who writes the files, or of failures.                        *)
Spec == Init /\ [][Next]_vars /\ WF_vars(Worker)

-----------------------------------------------------------------------------
Members(s) == {s[i] : i \in DOMAIN s}
IsChunk(r) == r.kind = "download" /\ r.result = "success"

Continues(r, previous) ==
    /\ IsChunk(previous) /\ previous.trans = r.trans
    /\ r.data.from = previous.data.from + previous.data.count
    /\ r.total = previous.total /\ r.reader = previous.reader

(* The chunks of a download follow each other without a gap and with       *)
(* nothing in between, with the same total and reader id on all of them    *)
(* and, from the auth server, each with the offset it belongs at, even     *)
(* when the file changes under the loop of do_download: the client can     *)
(* always put in place what it gets, unless the file has grown past what   *)
(* an offset can say.                                                      *)
ChunksInOrder ==
    \A i \in DOMAIN out : IsChunk(out[i]) =>
        /\ \/ out[i].data.from = 0 /\ \A j \in 1..(i - 1) : out[j].trans # out[i].trans
           \/ i > 1 /\ Continues(out[i], out[i - 1])
        /\ server = "auth" => out[i].offset = out[i].data.from \/ out[i].data.from > MaxTotal

ChunksOf(t) == {r \in Members(out) : IsChunk(r) /\ r.trans = t}
Delivered(e) ==
    /\ e.pos = e.total
    /\ \A r \in ChunksOf(e.trans) :
         /\ r.total = e.total /\ r.data.from + r.data.count <= e.total
         /\ \A q \in ChunksOf(e.trans) : q.data.version = r.data.version
    /\ e.total > 0 => \E r \in ChunksOf(e.trans) : r.data.from + r.data.count = e.total

(* A download that ran to its end while nobody wrote the file delivered    *)
(* all of it, from one version, and as much as it announced: only a write  *)
(* during the transfer can mix versions or make the announced size wrong.  *)
UndisturbedComplete ==
    \A e \in Members(ended) : e.kind = "download" /\ e.calm => Delivered(e)

(* Requests are answered in their order and one after the other, and none  *)
(* is passed over.  The exceptions: acks, and a download whose file is     *)
(* empty when it is opened or emptied before it is read, which gets        *)
(* nothing, not even an error, so its client waits for ever.               *)
AnsweredInOrder ==
    /\ \A i, j \in DOMAIN out : i < j => out[i].trans <= out[j].trans
    /\ \A e \in Members(ended) :
         \/ \E r \in Members(out) : r.trans = e.trans
         \/ e.kind = "ack"
         \/ e.kind = "download" /\ (e.total = 0 \/ ~e.calm)

(* Every request is dealt with or the connection ends, whatever becomes of *)
(* the files: a file that shrinks or grows does not keep the loop going.   *)
Served ==
    \A t \in 1..MaxRequests : asked >= t ~> (pc = "gone" \/ Len(ended) >= t)
=============================================================================
