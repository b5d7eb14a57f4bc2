---------------------------- MODULE CryptStream ----------------------------
(***************************************************************************)
(* Reading from an encrypted connection: CryptTcpStream of                 *)
(* src/src/net_crypt.rs inside a tokio BufReader, as every server of this  *)
(* program reads its clients' messages, with read_exact.                   *)
(*                                                                         *)
(* RC4 adds (xor) a key stream to the bytes.  Adding the same key byte     *)
(* twice removes it, so what counts about a byte is which positions of the *)
(* key stream are in it: none, for a byte that is decrypted.               *)
(*                                                                         *)
(* BufReader and read_exact are tokio's, modelled by what they do: a read  *)
(* goes through the buffer, unless the buffer is empty and the read wants  *)
(* at least as much as the buffer holds; then it goes to the stream, with  *)
(* the caller's ReadBuf.  read_exact polls until its ReadBuf is full.      *)
(***************************************************************************)
EXTENDS Integers, Sequences

CONSTANTS
    BufSize,     \* capacity of the BufReader (8192 in tokio)
    ReadSizes,   \* sizes of the reads the message parsers make
    MaxBytes     \* bound: bytes the client sends

ASSUME BufSizeAssumption == BufSize \in Nat \ {0}
ASSUME ReadSizesAssumption == ReadSizes \subseteq Nat \ {0}
ASSUME MaxBytesAssumption == MaxBytes \in Nat

VARIABLES
    sent,     \* bytes the client has written
    wire,     \* bytes in the socket
    kpos,     \* bytes of key stream that cipher_read has used
    buf,      \* unread bytes in the BufReader
    want,     \* size of the read_exact under way, 0 when there is none
    filled,   \* the filled part of its ReadBuf
    out       \* all bytes that reads have returned

vars == <<sent, wire, kpos, buf, want, filled, out>>

\* The n-th byte of the client's messages, with the key positions in it.
Byte(n, keys) == [id |-> n, keys |-> keys]
Bytes == [id : Nat, keys : SUBSET Nat]

Take(s, n) == SubSeq(s, 1, n)
Drop(s, n) == SubSeq(s, n + 1, Len(s))
Least(m, n) == IF m < n THEN m ELSE n

Init ==
    /\ sent = 0
    /\ wire = <<>>
    /\ kpos = 0
    /\ buf = <<>>
    /\ want = 0
    /\ filled = <<>>
    /\ out = <<>>

\* The xor of a key byte with a byte that may have it already.
xor(keys, k) == (keys \ {k}) \cup ({k} \ keys)

\* cipher_read.apply_keystream, for bytes s and the key stream from position k on.
apply_keystream(s, k) ==
    [i \in DOMAIN s |-> Byte(s[i].id, xor(s[i].keys, k + i))]

\* The client encrypts with the same key stream and sends a byte.
ClientWrites ==
    /\ sent < MaxBytes
    /\ sent' = sent + 1
    /\ wire' = Append(wire, Byte(sent + 1, {sent + 1}))
    /\ UNCHANGED <<kpos, buf, want, filled, out>>

\* A mistaken poll_read: the key stream starts anew.
poll_read_restarts(before, n) == apply_keystream(before \o Take(wire, n), 0)

\* CryptTcpStream::poll_read with a ReadBuf whose filled part is `before`: the
\* socket adds n bytes, and everything that is filled then goes through
\* apply_keystream.
poll_read(before, n) == apply_keystream(before \o Take(wire, n), kpos)

remaining == want - Len(filled)

\* The parsers call read_u16_le, read_u32_le, read_exact, ...
ReadExact(n) ==
    /\ want = 0
    /\ want' = n
    /\ UNCHANGED <<sent, wire, kpos, buf, filled, out>>

\* BufReader, with an empty buffer and a large read: the stream reads into
\* the caller's ReadBuf.
PollStream(n) ==
    /\ want > 0
    /\ buf = <<>>
    /\ remaining >= BufSize
    /\ n <= Len(wire) /\ n <= remaining
    /\ filled' = poll_read(filled, n)
    /\ kpos' = kpos + Len(filled) + n
    /\ wire' = Drop(wire, n)
    /\ UNCHANGED <<sent, buf, want, out>>

\* BufReader, with an empty buffer: the stream reads into the buffer, with a
\* new ReadBuf.
PollFill(n) ==
    /\ buf = <<>>
    /\ 0 < remaining /\ remaining < BufSize
    /\ n <= Len(wire) /\ n <= BufSize
    /\ buf' = poll_read(<<>>, n)
    /\ kpos' = kpos + n
    /\ wire' = Drop(wire, n)
    /\ UNCHANGED <<sent, want, filled, out>>

\* A mistaken copy: it waits for the buffer to hold all of the rest.
PollCopy_whole ==
    /\ Len(buf) >= remaining
    /\ remaining > 0
    /\ filled' = filled \o Take(buf, remaining)
    /\ buf' = Drop(buf, remaining)
    /\ UNCHANGED <<sent, wire, kpos, want, out>>

\* BufReader, with bytes in its buffer: copy what fits.
PollCopy ==
    /\ buf # <<>>
    /\ remaining > 0
    /\ LET amt == Least(Len(buf), remaining)
       IN  /\ filled' = filled \o Take(buf, amt)
           /\ buf' = Drop(buf, amt)
    /\ UNCHANGED <<sent, wire, kpos, want, out>>

\* read_exact returns.
ReadReturns ==
    /\ want > 0
    /\ remaining = 0
    /\ out' = out \o filled
    /\ filled' = <<>>
    /\ want' = 0
    /\ UNCHANGED <<sent, wire, kpos, buf>>

Poll == (\E n \in 1..Len(wire) : PollStream(n) \/ PollFill(n)) \/ PollCopy \/ ReadReturns

Next == ClientWrites \/ (\E n \in ReadSizes : ReadExact(n)) \/ Poll

\* The runtime polls a read whose bytes have come.
Spec == Init /\ [][Next]_vars /\ WF_vars(Poll)

-----------------------------------------------------------------------------
TypeOK ==
    /\ sent \in Nat /\ kpos \in Nat /\ want \in Nat
    /\ wire \in Seq(Bytes) /\ buf \in Seq(Bytes)
    /\ filled \in Seq(Bytes) /\ out \in Seq(Bytes)

(* What the parsers get is what the client wrote: every byte, once, in     *)
(* order and decrypted, however the network cuts the stream into pieces    *)
(* and however the reads fall on the buffer.                               *)
Decrypted == \A i \in DOMAIN out : out[i] = Byte(i, {})

(* A read returns once its bytes have been sent.                           *)
ReadsReturn == \A n \in ReadSizes : (want = n /\ sent - Len(out) >= n) ~> want = 0
=============================================================================
