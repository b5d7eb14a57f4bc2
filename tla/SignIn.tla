------------------------------- MODULE SignIn -------------------------------
(***************************************************************************)
(* What signing in and out of a player amounts to, whatever else the auth  *)
(* server does: the abstract specification of AcctSetPlayer and of the     *)
(* clean-up after a disconnect (do_set_player, set_player_offline and      *)
(* handle_disconnect of src/src/auth_srv/server.rs).                       *)
(*                                                                         *)
(* A player is online when its PlayerInfo node says so, and the vault is   *)
(* the only place that all sessions share.  A session first reads that the *)
(* player is offline, and only in a later vault message writes that it is  *)
(* online: two sessions may read before either writes.  `raced` keeps the  *)
(* players to which that has happened.                                     *)
(***************************************************************************)
CONSTANTS
    Session,   \* connections to the auth server
    Player,    \* players
    None       \* no player

VARIABLES
    online,    \* the players whose PlayerInfo node says online
    holding,   \* AuthServerWorker::player_id of each session
    seen,      \* the player a session has read as offline and will write
    raced      \* players that two sessions had read as offline at a time

vars == <<online, holding, seen, raced>>

Init ==
    /\ online = {}
    /\ holding = [s \in Session |-> None]
    /\ seen = [s \in Session |-> None]
    /\ raced = {}

\* get_player_info_node answers a node that is not online.
SeeOffline(s, p) ==
    /\ seen[s] = None
    /\ p \notin online
    /\ seen' = [seen EXCEPT ![s] = p]
    /\ raced' = IF \E t \in Session \ {s} : seen[t] = p THEN raced \cup {p} ELSE raced
    /\ UNCHANGED <<online, holding>>

\* update_node(online = 1).  The player held before, if any, stays online.
GoOnline(s) ==
    /\ seen[s] # None
    /\ online' = online \cup {seen[s]}
    /\ holding' = [holding EXCEPT ![s] = seen[s]]
    /\ seen' = [seen EXCEPT ![s] = None]
    /\ UNCHANGED raced

\* update_node(online = 0), at the end of handle_disconnect.
GoOffline(s) ==
    /\ seen[s] = None
    /\ holding[s] # None
    /\ online' = online \ {holding[s]}
    /\ holding' = [holding EXCEPT ![s] = None]
    /\ UNCHANGED <<seen, raced>>

\* The worker's task panics: handle_disconnect is not reached.
Vanish(s) ==
    /\ seen[s] = None
    /\ holding[s] # None
    /\ holding' = [holding EXCEPT ![s] = None]
    /\ UNCHANGED <<online, seen, raced>>

Next ==
    \E s \in Session : \/ \E p \in Player : SeeOffline(s, p)
                       \/ GoOnline(s)
                       \/ GoOffline(s)
                       \/ Vanish(s)

Spec == Init /\ [][Next]_vars

-----------------------------------------------------------------------------
TypeOK ==
    /\ online \subseteq Player
    /\ holding \in [Session -> Player \cup {None}]
    /\ seen \in [Session -> Player \cup {None}]
    /\ raced \subseteq Player

(* NetLoggedInElsewhere keeps a player to one session: two sessions are    *)
(* signed in as one player only if both had read it as offline before      *)
(* either wrote.                                                           *)
SingleHolder ==
    \A s, t \in Session :
        s # t /\ holding[s] = holding[t] /\ holding[s] # None => holding[s] \in raced

(* A player that somebody is signed in as is online for everybody else,    *)
(* unless such a race let another session's disconnect sign it off.        *)
HeldIsOnline ==
    \A s \in Session : holding[s] # None => holding[s] \in online \cup raced
=============================================================================
