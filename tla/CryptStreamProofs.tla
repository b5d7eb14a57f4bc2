------------------------- MODULE CryptStreamProofs -------------------------
(***************************************************************************)
(* Proof that reads of at most the capacity of the BufReader are decrypted *)
(* correctly, for every capacity and every way of cutting the stream.      *)
(*                                                                         *)
(* IInv says where the key stream stands: all that is read, filled or      *)
(* buffered has been through it once, and nothing that is in the socket    *)
(* has.  A read within the capacity goes past the buffer only with an      *)
(* empty ReadBuf, so no byte goes through the key stream twice.            *)
(***************************************************************************)
EXTENDS CryptStream, SequenceTheorems, TLAPS

ReadsFit == \A n \in ReadSizes : n <= BufSize

(* The n-th byte, decrypted and as it was sent.                            *)
Plain(n)  == Byte(n, {})
Cipher(n) == Byte(n, {n})

(* s holds the bytes after the first k, decrypted or as they were sent.    *)
PlainFrom(s, k)  == \A i \in 1..Len(s) : s[i] = Plain(k + i)
CipherFrom(s, k) == \A i \in 1..Len(s) : s[i] = Cipher(k + i)

IInv ==
    /\ TypeOK
    /\ Len(out) + Len(filled) + Len(buf) = kpos
    /\ kpos + Len(wire) = sent
    /\ PlainFrom(out, 0)
    /\ PlainFrom(filled, Len(out))
    /\ PlainFrom(buf, Len(out) + Len(filled))
    /\ CipherFrom(wire, kpos)
    /\ want \in ReadSizes \cup {0}
    /\ Len(filled) <= want

-----------------------------------------------------------------------------
(* The two parts of a sequence.                                            *)
LEMMA TakeFacts ==
    ASSUME NEW s \in Seq(Bytes), NEW n \in Nat, n <= Len(s)
    PROVE  /\ Take(s, n) \in Seq(Bytes)
           /\ Len(Take(s, n)) = n
           /\ \A i \in 1..n : Take(s, n)[i] = s[i]
  BY DEF Take

(* What is left of a sequence after its first entries.                     *)
LEMMA DropFacts ==
    ASSUME NEW s \in Seq(Bytes), NEW n \in Nat, n <= Len(s)
    PROVE  /\ Drop(s, n) \in Seq(Bytes)
           /\ Len(Drop(s, n)) = Len(s) - n
           /\ \A i \in 1..(Len(s) - n) : Drop(s, n)[i] = s[n + i]
  BY DEF Drop

(* Bytes as they were sent, at the position of the key stream, come out of *)
(* it decrypted.                                                           *)
LEMMA KeystreamFacts ==
    ASSUME NEW s \in Seq(Bytes), NEW k \in Nat, CipherFrom(s, k)
    PROVE  /\ apply_keystream(s, k) \in Seq(Bytes)
           /\ Len(apply_keystream(s, k)) = Len(s)
           /\ PlainFrom(apply_keystream(s, k), k)
  <1>1. ASSUME NEW i \in 1..Len(s)
        PROVE  Byte(s[i].id, xor(s[i].keys, k + i)) = Plain(k + i)
    <2>1. s[i] = Cipher(k + i)
      BY DEF CipherFrom
    <2>2. s[i].id = k + i /\ s[i].keys = {k + i}
      BY <2>1 DEF Cipher, Byte
    <2>3. xor({k + i}, k + i) = {}
      BY DEF xor
    <2> QED
      BY <2>2, <2>3 DEF Plain
  <1>2. apply_keystream(s, k) = [i \in 1..Len(s) |-> Plain(k + i)]
    <2>1. DOMAIN s = 1..Len(s)
      OBVIOUS
    <2> QED
      BY <1>1, <2>1 DEF apply_keystream
  <1>3. \A i \in 1..Len(s) : Plain(k + i) \in Bytes
    BY DEF Plain, Byte, Bytes
  <1>4. Len(s) \in Nat
    OBVIOUS
  <1> HIDE DEF apply_keystream
  <1>5. apply_keystream(s, k) \in Seq(Bytes) /\ Len(apply_keystream(s, k)) = Len(s)
    BY <1>2, <1>3, <1>4
  <1> QED
    BY <1>2, <1>5 DEF PlainFrom

(* What poll_read makes of the first n bytes of the socket, in an empty    *)
(* ReadBuf.                                                                *)
LEMMA PollReadFacts ==
    ASSUME IInv, NEW n \in 1..Len(wire)
    PROVE  /\ poll_read(<<>>, n) \in Seq(Bytes)
           /\ Len(poll_read(<<>>, n)) = n
           /\ PlainFrom(poll_read(<<>>, n), kpos)
           /\ Drop(wire, n) \in Seq(Bytes)
           /\ Len(Drop(wire, n)) = Len(wire) - n
           /\ CipherFrom(Drop(wire, n), kpos + n)
  <1>1. wire \in Seq(Bytes) /\ kpos \in Nat /\ CipherFrom(wire, kpos) /\ n \in Nat /\ n <= Len(wire)
    BY DEF IInv, TypeOK
  <1>2. /\ Take(wire, n) \in Seq(Bytes) /\ Len(Take(wire, n)) = n
        /\ CipherFrom(Take(wire, n), kpos)
    BY <1>1, TakeFacts DEF CipherFrom
  <1>3. <<>> \o Take(wire, n) = Take(wire, n)
    BY <1>2
  <1>4. poll_read(<<>>, n) = apply_keystream(Take(wire, n), kpos)
    BY <1>3 DEF poll_read
  <1>5. /\ Drop(wire, n) \in Seq(Bytes) /\ Len(Drop(wire, n)) = Len(wire) - n
        /\ \A i \in 1..(Len(wire) - n) : Drop(wire, n)[i] = wire[n + i]
    BY <1>1, DropFacts
  <1>6. ASSUME NEW i \in 1..(Len(wire) - n)
        PROVE  Drop(wire, n)[i] = Cipher((kpos + n) + i)
    <2>1. n + i \in 1..Len(wire) /\ kpos + (n + i) = (kpos + n) + i
      BY <1>1
    <2> QED
      BY <1>1, <1>5, <2>1 DEF CipherFrom
  <1> QED
    BY <1>1, <1>2, <1>4, <1>5, <1>6, KeystreamFacts DEF CipherFrom

-----------------------------------------------------------------------------
(* A connection begins with nothing sent, buffered or read.                *)
LEMMA InitIInv == Init => IInv
  BY DEF Init, IInv, TypeOK, PlainFrom, CipherFrom

(* Every step keeps the invariant, when the reads fit.                     *)
LEMMA NextIInv == ReadsFit /\ IInv /\ [Next]_vars => IInv'
  <1> SUFFICES ASSUME ReadsFit, IInv, [Next]_vars PROVE IInv'
    OBVIOUS
  <1>0. /\ sent \in Nat /\ kpos \in Nat /\ want \in Nat
        /\ wire \in Seq(Bytes) /\ buf \in Seq(Bytes)
        /\ filled \in Seq(Bytes) /\ out \in Seq(Bytes)
        /\ Len(wire) \in Nat /\ Len(buf) \in Nat /\ Len(filled) \in Nat /\ Len(out) \in Nat
    <2>1. TypeOK
      BY DEF IInv
    <2> QED
      BY <2>1, LenProperties DEF TypeOK
  <1>sum. /\ Len(out) + Len(filled) + Len(buf) = kpos
          /\ kpos + Len(wire) = sent
          /\ Len(filled) <= want
    BY DEF IInv
  <1>nat. /\ Len(wire) \in Nat /\ Len(buf) \in Nat /\ Len(filled) \in Nat /\ Len(out) \in Nat
          /\ sent \in Nat /\ kpos \in Nat
    BY <1>0
  <1>1. CASE ClientWrites
    <2>1. Byte(sent + 1, {sent + 1}) \in Bytes
      BY <1>0 DEF Byte, Bytes
    <2>2. /\ wire' \in Seq(Bytes) /\ Len(wire') = Len(wire) + 1
          /\ \A i \in 1..Len(wire) : wire'[i] = wire[i]
          /\ wire'[Len(wire) + 1] = Cipher(sent + 1)
      BY <1>0, <1>1, <2>1 DEF ClientWrites, Cipher
    <2>3. CipherFrom(wire', kpos)
      <3>1. sent + 1 = kpos + (Len(wire) + 1) /\ Len(wire) \in Nat
        BY <1>0 DEF IInv
      <3>2. ASSUME NEW i \in 1..(Len(wire) + 1) PROVE wire'[i] = Cipher(kpos + i)
        <4>1. CASE i = Len(wire) + 1
          BY <2>2, <3>1, <4>1
        <4>2. CASE i # Len(wire) + 1
          <5>1. i \in 1..Len(wire)
            BY <1>0, <4>2
          <5> QED
            BY <2>2, <5>1 DEF IInv, CipherFrom
        <4> QED
          BY <4>1, <4>2
      <3> QED
        BY <2>2, <3>2 DEF CipherFrom
    <2>4. sent' = sent + 1 /\ UNCHANGED <<kpos, buf, want, filled, out>>
      BY <1>1 DEF ClientWrites
    <2>5. TypeOK'
      BY <1>0, <2>2, <2>4 DEF TypeOK
    <2>6. kpos' + Len(wire') = sent'
      BY <1>0, <1>sum, <2>2, <2>4
    <2> QED
      BY <2>3, <2>4, <2>5, <2>6 DEF IInv
  <1>2. ASSUME NEW n \in ReadSizes, ReadExact(n) PROVE IInv'
    BY <1>0, <1>2, ReadSizesAssumption DEF ReadExact, IInv, TypeOK
  <1>3. ASSUME NEW n \in 1..Len(wire), PollStream(n) PROVE IInv'
    <2>1. filled = <<>> /\ buf = <<>>
      BY <1>0, <1>3, BufSizeAssumption DEF PollStream, remaining, IInv, ReadsFit
    <2>2. /\ filled' = poll_read(<<>>, n) /\ kpos' = kpos + n /\ wire' = Drop(wire, n)
          /\ UNCHANGED <<sent, buf, want, out>> /\ n <= want
      BY <1>0, <1>3, <2>1 DEF PollStream, remaining
    <2>3. kpos = Len(out)
      BY <1>0, <2>1 DEF IInv
    <2>4. /\ filled' \in Seq(Bytes) /\ Len(filled') = n /\ PlainFrom(filled', Len(out))
          /\ wire' \in Seq(Bytes) /\ Len(wire') = Len(wire) - n /\ CipherFrom(wire', kpos')
      BY <2>2, <2>3, PollReadFacts
    <2>5. PlainFrom(buf', Len(out') + Len(filled'))
      BY <2>1, <2>2 DEF PlainFrom
    <2>6. TypeOK'
      BY <1>0, <2>2, <2>4 DEF TypeOK
    <2>7. /\ Len(out') + Len(filled') + Len(buf') = kpos'
          /\ kpos' + Len(wire') = sent'
      <3>1. n \in Nat /\ Len(buf') = 0 /\ Len(out') = Len(out) /\ sent' = sent
        BY <1>0, <2>1, <2>2
      <3>2. kpos' = kpos + n /\ Len(filled') = n /\ Len(wire') = Len(wire) - n
        BY <2>2, <2>4
      <3> QED
        BY <1>0, <1>sum, <2>3, <3>1, <3>2
    <2> QED
      BY <2>2, <2>4, <2>5, <2>6, <2>7 DEF IInv
  <1>4. ASSUME NEW n \in 1..Len(wire), PollFill(n) PROVE IInv'
    <2>1. /\ buf' = poll_read(<<>>, n) /\ kpos' = kpos + n /\ wire' = Drop(wire, n)
          /\ UNCHANGED <<sent, want, filled, out>> /\ buf = <<>>
      BY <1>4 DEF PollFill
    <2>2. kpos = Len(out) + Len(filled)
      BY <1>0, <2>1 DEF IInv
    <2>3. /\ buf' \in Seq(Bytes) /\ Len(buf') = n
          /\ PlainFrom(buf', Len(out) + Len(filled))
          /\ wire' \in Seq(Bytes) /\ Len(wire') = Len(wire) - n /\ CipherFrom(wire', kpos')
      BY <2>1, <2>2, PollReadFacts
    <2>4. TypeOK'
      BY <1>0, <2>1, <2>3 DEF TypeOK
    <2>5. /\ Len(out') + Len(filled') + Len(buf') = kpos'
          /\ kpos' + Len(wire') = sent'
      <3>1. n \in Nat /\ Len(filled') = Len(filled) /\ Len(out') = Len(out) /\ sent' = sent
        BY <1>0, <2>1
      <3>2. kpos' = kpos + n /\ Len(buf') = n /\ Len(wire') = Len(wire) - n
        BY <2>1, <2>3
      <3>3. Len(buf) = 0 /\ 0 + n = n
        BY <2>1, <3>1
      <3>4. /\ Len(out) + Len(filled) + (0 + n) = kpos + n
            /\ (kpos + n) + (Len(wire) - n) = sent
        BY <1>nat, <1>sum, <3>1, <3>3
      <3> QED
        BY <3>1, <3>2, <3>3, <3>4
    <2> QED
      BY <2>1, <2>3, <2>4, <2>5 DEF IInv
  <1>5. CASE PollCopy
    <2> DEFINE amt == Least(Len(buf), remaining)
    <2>1. amt \in Nat /\ amt <= Len(buf) /\ Len(filled) + amt <= want
      BY <1>0, <1>5 DEF PollCopy, Least, remaining, IInv
    <2>2. /\ filled' = filled \o Take(buf, amt) /\ buf' = Drop(buf, amt)
          /\ UNCHANGED <<sent, wire, kpos, want, out>>
      BY <1>5 DEF PollCopy
    <2> HIDE DEF amt
    <2>3. /\ Take(buf, amt) \in Seq(Bytes) /\ Len(Take(buf, amt)) = amt
          /\ \A i \in 1..amt : Take(buf, amt)[i] = buf[i]
          /\ Drop(buf, amt) \in Seq(Bytes) /\ Len(Drop(buf, amt)) = Len(buf) - amt
          /\ \A i \in 1..(Len(buf) - amt) : Drop(buf, amt)[i] = buf[amt + i]
      BY <1>0, <2>1, TakeFacts, DropFacts
    <2>4. filled' \in Seq(Bytes) /\ Len(filled') = Len(filled) + amt
      <3>1. /\ filled \o Take(buf, amt) \in Seq(Bytes)
            /\ Len(filled \o Take(buf, amt)) = Len(filled) + Len(Take(buf, amt))
        BY <1>0, <2>3, ConcatProperties
      <3> QED
        BY <2>2, <2>3, <3>1
    <2>5. ASSUME NEW i \in 1..Len(filled') PROVE filled'[i] = Plain(Len(out) + i)
      <3>1. CASE i <= Len(filled)
        BY <1>0, <2>2, <2>3, <3>1 DEF IInv, PlainFrom
      <3>2. CASE i > Len(filled)
        <4> DEFINE j == i - Len(filled)
        <4>1. j \in 1..amt /\ j \in 1..Len(buf)
          BY <1>0, <2>1, <2>4, <3>2
        <4>2. filled'[i] = Take(buf, amt)[j]
          BY <1>0, <2>2, <2>3, <2>4, <3>2
        <4>3. buf[j] = Plain((Len(out) + Len(filled)) + j)
          BY <4>1 DEF IInv, PlainFrom
        <4>4. (Len(out) + Len(filled)) + j = Len(out) + i
          BY <1>0, <2>4
        <4> QED
          BY <2>3, <4>1, <4>2, <4>3, <4>4
      <3> QED
        BY <1>0, <2>4, <3>1, <3>2
    <2>6. ASSUME NEW i \in 1..(Len(buf) - amt)
          PROVE  buf'[i] = Plain((Len(out) + Len(filled')) + i)
      <3>1. amt + i \in 1..Len(buf)
        BY <1>0, <2>1
      <3>2. buf[amt + i] = Plain((Len(out) + Len(filled)) + (amt + i))
        BY <3>1 DEF IInv, PlainFrom
      <3>3. (Len(out) + Len(filled)) + (amt + i) = (Len(out) + Len(filled')) + i
        BY <1>0, <2>1, <2>4
      <3> QED
        BY <2>2, <2>3, <3>2, <3>3
    <2>7. PlainFrom(filled', Len(out')) /\ PlainFrom(buf', Len(out') + Len(filled'))
      BY <2>2, <2>3, <2>5, <2>6 DEF PlainFrom
    <2>8. buf' \in Seq(Bytes) /\ Len(buf') = Len(buf) - amt
      BY <2>2, <2>3
    <2>9. TypeOK'
      BY <1>0, <2>2, <2>4, <2>8 DEF TypeOK
    <2>10. /\ Len(out') + Len(filled') + Len(buf') = kpos'
           /\ kpos' + Len(wire') = sent'
           /\ Len(filled') <= want'
      <3>1. /\ Len(out') = Len(out) /\ kpos' = kpos /\ Len(wire') = Len(wire)
            /\ sent' = sent /\ want' = want
        BY <2>2
      <3>2. Len(filled') = Len(filled) + amt /\ Len(buf') = Len(buf) - amt
        BY <2>4, <2>8
      <3>3. Len(out) + (Len(filled) + amt) + (Len(buf) - amt) = kpos
        BY <1>nat, <1>sum, <2>1
      <3> QED
        BY <1>sum, <2>1, <3>1, <3>2, <3>3
    <2> QED
      BY <2>2, <2>7, <2>9, <2>10 DEF IInv
  <1>6. CASE ReadReturns
    <2>1. /\ out' = out \o filled /\ filled' = <<>> /\ want' = 0
          /\ UNCHANGED <<sent, wire, kpos, buf>>
      BY <1>6 DEF ReadReturns
    <2>2. /\ out' \in Seq(Bytes) /\ Len(out') = Len(out) + Len(filled)
          /\ PlainFrom(out', 0)
      BY <1>0, <2>1 DEF IInv, PlainFrom
    <2>3. PlainFrom(filled', Len(out'))
      BY <2>1 DEF PlainFrom
    <2> QED
      BY <1>0, <2>1, <2>2, <2>3 DEF IInv, TypeOK
  <1>7. CASE UNCHANGED vars
    BY <1>7 DEF vars, IInv, TypeOK, PlainFrom, CipherFrom
  <1> QED
    BY <1>1, <1>2, <1>3, <1>4, <1>5, <1>6, <1>7 DEF Next, Poll

(* Reads of at most BufSize bytes return the bytes the client wrote, in    *)
(* order, each decrypted exactly once, whatever the capacity of the        *)
(* BufReader and wherever the network cuts the stream.                     *)
THEOREM ShortReadsAreDecrypted == ReadsFit => (Spec => []Decrypted)
  <1> SUFFICES ASSUME ReadsFit PROVE Spec => []Decrypted
    OBVIOUS
  <1>1. IInv /\ [Next]_vars => IInv'
    BY NextIInv
  <1>2. IInv => Decrypted
    BY DEF IInv, TypeOK, PlainFrom, Plain, Decrypted
  <1> QED
    BY InitIInv, <1>1, <1>2, PTL DEF Spec
=============================================================================
