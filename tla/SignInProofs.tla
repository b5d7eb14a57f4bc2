---------------------------- MODULE SignInProofs ----------------------------
(***************************************************************************)
(* The sign-in protocol for any number of sessions and players.            *)
(*                                                                         *)
(* SingleHolder is not inductive: nothing in it keeps a session that has   *)
(* read a player as offline from writing after somebody else did.  What    *)
(* does, for a player that was never raced for, is that it is read by one  *)
(* session at a time (OneReader) and is offline and unheld for as long     *)
(* (ReadIsFree); a held one is online (HeldIsOnline), so that nobody reads *)
(* it as offline.                                                          *)
(***************************************************************************)
EXTENDS SignIn, TLAPS

(* Two sessions that have read one player as offline make it raced.        *)
OneReader ==
    \A s, t \in Session : s # t /\ seen[s] = seen[t] /\ seen[s] # None => seen[s] \in raced

(* A player that was read as offline and never raced for still is offline, *)
(* and nobody is signed in as it.                                          *)
ReadIsFree ==
    \A s \in Session : seen[s] # None /\ seen[s] \notin raced =>
        /\ seen[s] \notin online
        /\ \A t \in Session : holding[t] # seen[s]

IInv == TypeOK /\ OneReader /\ ReadIsFree /\ HeldIsOnline /\ SingleHolder

(* Nobody is signed in at first.                                           *)
LEMMA InitIInv == Init => IInv
  BY DEF Init, IInv, TypeOK, OneReader, ReadIsFree, HeldIsOnline, SingleHolder

(* Every read and write of the online flag keeps IInv.                     *)
LEMMA NextIInv == IInv /\ [Next]_vars => IInv'
  <1> SUFFICES ASSUME IInv, [Next]_vars PROVE IInv'
    OBVIOUS
  <1> USE DEF IInv
  <1>1. ASSUME NEW s \in Session, NEW p \in Player, SeeOffline(s, p) PROVE IInv'
    <2>1. TypeOK'
      BY <1>1 DEF SeeOffline, TypeOK
    <2>2. OneReader'
      BY <1>1 DEF SeeOffline, TypeOK, OneReader
    <2>3. ReadIsFree'
      BY <1>1 DEF SeeOffline, TypeOK, ReadIsFree, HeldIsOnline
    <2>4. HeldIsOnline' /\ SingleHolder'
      BY <1>1 DEF SeeOffline, TypeOK, HeldIsOnline, SingleHolder
    <2> QED
      BY <2>1, <2>2, <2>3, <2>4
  <1>2. ASSUME NEW s \in Session, GoOnline(s) PROVE IInv'
    <2>1. TypeOK'
      BY <1>2 DEF GoOnline, TypeOK
    <2>2. OneReader'
      BY <1>2 DEF GoOnline, TypeOK, OneReader
    <2>3. ReadIsFree'
      BY <1>2 DEF GoOnline, TypeOK, OneReader, ReadIsFree
    <2>4. HeldIsOnline'
      BY <1>2 DEF GoOnline, TypeOK, HeldIsOnline
    <2>5. SingleHolder'
      BY <1>2 DEF GoOnline, TypeOK, ReadIsFree, SingleHolder
    <2> QED
      BY <2>1, <2>2, <2>3, <2>4, <2>5
  <1>3. ASSUME NEW s \in Session, GoOffline(s) PROVE IInv'
    <2>1. TypeOK' /\ OneReader' /\ ReadIsFree'
      BY <1>3 DEF GoOffline, TypeOK, OneReader, ReadIsFree
    <2>2. HeldIsOnline' /\ SingleHolder'
      BY <1>3 DEF GoOffline, TypeOK, HeldIsOnline, SingleHolder
    <2> QED
      BY <2>1, <2>2
  <1>4. ASSUME NEW s \in Session, Vanish(s) PROVE IInv'
    BY <1>4 DEF Vanish, TypeOK, OneReader, ReadIsFree, HeldIsOnline, SingleHolder
  <1>5. CASE UNCHANGED vars
    BY <1>5 DEF vars, TypeOK, OneReader, ReadIsFree, HeldIsOnline, SingleHolder
  <1> QED
    BY <1>1, <1>2, <1>3, <1>4, <1>5 DEF Next

(* IInv holds throughout.                                                  *)
LEMMA IInvInvariant == Spec => []IInv
  BY InitIInv, NextIInv, PTL DEF Spec

(* For any number of sessions, do_set_player's check of the online flag    *)
(* keeps a player to one session, unless two sessions had both passed the  *)
(* check before either had written.                                        *)
THEOREM OneSessionPerPlayer == Spec => []SingleHolder
  BY IInvInvariant, PTL DEF IInv

(* For any number of sessions, a player in use is marked online, with the  *)
(* same exception.                                                         *)
THEOREM HeldPlayersAreOnline == Spec => []HeldIsOnline
  BY IInvInvariant, PTL DEF IInv
=============================================================================
