---------------------------- MODULE AuthSession ----------------------------
(***************************************************************************)
(* The auth server's workers over one vault: login, sign-in and sign-off,  *)
(* the creation of players and of ages, and the references that clients    *)
(* add (src/src/auth_srv/server.rs, src/src/auth_srv/vault_helpers.rs).    *)
(*                                                                         *)
(* A worker handles one client message at a time, and a handler waits for  *)
(* the vault at every `.await` of a vault call.  The vault answers one     *)
(* call at a time, so an action is one vault call together with the local  *)
(* code up to the next call; between two actions of a worker any other     *)
(* worker may act.  Handlers that answer from local state, or whose one    *)
(* vault call only reads, change nothing and are not actions; a reply that *)
(* cannot be sent ends the loop in the same way as the end of the stream,  *)
(* and is HangUp.                                                          *)
(*                                                                         *)
(* A node is a pair <<instance, slot>>: the instance is the player or age  *)
(* whose helper created it, the slot is the local variable of the helper   *)
(* that holds the id.  The vault's numbering of nodes is in VaultDb, and   *)
(* so is what clients create with VaultNodeCreate: the nodes here are the  *)
(* server's own.                                                           *)
(***************************************************************************)
EXTENDS Naturals, Sequences, FiniteSets

CONSTANTS
    Session,     \* connections
    Account,     \* accounts
    Player,      \* players, each with a name of its own
    AgeUuid,     \* ages that clients ask for by UUID
    ClientRef,   \* pairs of ids that clients refer from and to, of nodes or not
    None,
    OwnerOf,     \* [Ready -> Account]: the players there are at first
    Ready,       \* the set of those
    BadSdl       \* the cases of the SDL files: of {"relto", "age"}, whose state fails to build

ASSUME NonesAssumption == None \notin Player \cup Account \cup AgeUuid
ASSUME ReadyAssumption == Ready \subseteq Player /\ OwnerOf \in [Ready -> Account]
ASSUME BadSdlAssumption == BadSdl # {} /\ BadSdl \subseteq SUBSET {"relto", "age"}

-----------------------------------------------------------------------------
(* Nodes.                                                                  *)

VaultOf    == <<"vault", None, None>>
PlayerOf(p) == <<"player", p, None>>
ReltoOf(p) == <<"relto", p, None>>
AgeOf(s, u) == <<"age", s, u>>        \* u's age, created by session s

System     == <<VaultOf, "system">>
GlobalInbox == <<VaultOf, "global_inbox">>
AllPlayers == <<VaultOf, "all_players">>
PlayerInfo(p) == <<PlayerOf(p), "player_info">>

-----------------------------------------------------------------------------
(* The helpers of vault_helpers.rs, each the sequence of its vault calls.  *)
(* get_system_node and get_all_players_node are left out: they find the    *)
(* nodes of init_vault unless a client has created another system node or  *)
(* All Players list (VaultDb!LookupsHitOwnNodes).                          *)

create(node)       == [op |-> "create", node |-> node, child |-> None]
ref(parent, child) == [op |-> "ref", node |-> parent, child |-> child]
sdl_blob(inst)     == [op |-> "sdl_blob", node |-> inst, child |-> None]
add_game_server(inst) == [op |-> "game", node |-> inst, child |-> None]

\* Mistaken forms, to show what the properties catch: one create is missing;
\* parent and child are swapped.
CreateEach_short(inst, slots) ==
    [i \in 1..(Len(slots) - 1) |-> create(<<inst, slots[i]>>)]
RefEach_swapped(inst, parent, slots) ==
    [i \in DOMAIN slots |-> ref(<<inst, slots[i]>>, <<inst, parent>>)]

CreateEach(inst, slots) == [i \in DOMAIN slots |-> create(<<inst, slots[i]>>)]
RefEach(inst, parent, slots) ==
    [i \in DOMAIN slots |-> ref(<<inst, parent>>, <<inst, slots[i]>>)]

\* `owners` is <<>>, or the one PlayerInfo node of add_owner.
create_age_nodes(inst, owners) ==
    CreateEach(inst, <<"age", "chronicle_folder", "people_list", "sub_ages", "age_info",
                       "devices_folder", "can_visit">>)
      \o <<sdl_blob(inst)>>
      \o CreateEach(inst, <<"sdl_node", "age_owners", "child_ages">>)
      \o <<ref(<<inst, "age">>, System)>>
      \o RefEach(inst, "age", <<"chronicle_folder", "people_list", "sub_ages", "age_info",
                                "devices_folder">>)
      \o RefEach(inst, "age_info", <<"can_visit", "sdl_node", "age_owners", "child_ages">>)
      \o [i \in DOMAIN owners |-> ref(<<inst, "age_owners">>, owners[i])]
      \o <<add_game_server(inst)>>

PlayerSlots ==
    <<"player_info", "buddy_list", "ignore_list", "invite_folder", "owned_ages",
      "journals_folder", "chronicle_folder", "visit_ages", "outfit_folder",
      "closet_folder", "inbox", "people_list">>

LinkSlots == <<"relto_link", "hood_link", "city_link">>

\* A mistaken order: the player is listed before its Relto is there.
create_player_nodes_listed_first(p) ==
    CreateEach(PlayerOf(p), PlayerSlots \o LinkSlots)
      \o <<ref(AllPlayers, PlayerInfo(p))>>
      \o create_age_nodes(ReltoOf(p), <<PlayerInfo(p)>>)

create_player_nodes(p) ==
    CreateEach(PlayerOf(p), PlayerSlots \o LinkSlots)
      \o create_age_nodes(ReltoOf(p), <<PlayerInfo(p)>>)
      \o <<ref(<<PlayerOf(p), "player">>, System)>>
      \o RefEach(PlayerOf(p), "player", PlayerSlots)
      \o RefEach(PlayerOf(p), "owned_ages", LinkSlots)
      \o <<ref(<<PlayerOf(p), "relto_link">>, <<ReltoOf(p), "age_info">>),
           ref(<<ReltoOf(p), "age">>, <<PlayerOf(p), "owned_ages">>),
           ref(AllPlayers, PlayerInfo(p))>>

(* The calls for every player and age, and what they add to the vault.     *)
PlayerCalls == [p \in Player |-> create_player_nodes(p)]
AgeCalls == [x \in Session \X AgeUuid |-> create_age_nodes(AgeOf(x[1], x[2]), <<>>)]

Tree(calls) ==
    [nodes |-> {calls[i].node : i \in {j \in DOMAIN calls : calls[j].op = "create"}},
     refs  |-> {<<calls[i].node, calls[i].child>> : i \in {j \in DOMAIN calls : calls[j].op = "ref"}},
     games |-> {calls[i].node : i \in {j \in DOMAIN calls : calls[j].op = "game"}}]

PlayerTree == [p \in Player |-> Tree(PlayerCalls[p])]
AgeTree == [x \in Session \X AgeUuid |-> Tree(AgeCalls[x])]

-----------------------------------------------------------------------------
VARIABLES
    nodes, game_servers,         \* the vault
    refs, client_refs,           \* its node_refs: the helpers' and the clients'
    owner,        \* the account of every player that was created
    bad_sdl,      \* the case of BadSdl the SDL files are
    online,       \* players whose PlayerInfo node says online
    pc,           \* where each worker is
    account_id, player_id,       \* fields of AuthServerWorker
    target,       \* the player or age of the message being handled
    step,         \* the vault call a helper is at
    found,        \* find_age_instance's age_id: the session that created it
    age_reply,    \* the last VaultInitAgeReply of each worker
    raced,        \* players two workers had read as offline at a time
    raced_ages    \* ages two workers had found missing at a time

vaultVars  == <<nodes, refs, client_refs, game_servers, owner, online, bad_sdl>>
workerVars == <<pc, account_id, player_id, target, step, found, age_reply>>
ghostVars  == <<raced, raced_ages>>
vars == <<vaultVars, workerVars, ghostVars>>

Init ==
    /\ nodes = {System, GlobalInbox, AllPlayers}
                 \cup UNION {{<<PlayerOf(p), "player">>} \cup PlayerTree[p].nodes : p \in Ready}
    /\ refs = {<<System, GlobalInbox>>} \cup UNION {PlayerTree[p].refs : p \in Ready}
    /\ client_refs = {}
    /\ game_servers = UNION {PlayerTree[p].games : p \in Ready}
    /\ owner = [p \in Player |-> IF p \in Ready THEN OwnerOf[p] ELSE None]
    /\ online = {}
    /\ bad_sdl \in BadSdl
    /\ pc = [s \in Session |-> "gone"]
    /\ account_id = [s \in Session |-> None]
    /\ player_id = [s \in Session |-> None]
    /\ target = [s \in Session |-> None]
    /\ step = [s \in Session |-> 0]
    /\ found = [s \in Session |-> None]
    /\ age_reply = [s \in Session |-> None]
    /\ raced = {}
    /\ raced_ages = {}

\* A worker goes on to the vault call named next for message data d.
Goto(s, next, d) ==
    /\ pc' = [pc EXCEPT ![s] = next]
    /\ target' = [target EXCEPT ![s] = d]

\* The handler is done, and its reply is sent.
Done(s) == Goto(s, "idle", None)
-----------------------------------------------------------------------------
(* Connection, login and loss.                                             *)

Connect(s) ==
    /\ pc[s] = "gone"
    /\ Done(s)
    /\ UNCHANGED <<vaultVars, account_id, player_id, step, found, age_reply, ghostVars>>

\* do_login_request, when the account's checks pass.  A worker that already
\* has an account, or a player, may log in again.
LoginRequest(s, a) ==
    /\ pc[s] = "idle"
    /\ account_id' = [account_id EXCEPT ![s] = a]
    /\ UNCHANGED <<vaultVars, pc, player_id, target, step, found, age_reply, ghostVars>>

\* The task has ended, and its AuthServerWorker with it.
Gone(s) ==
    /\ Goto(s, "gone", None)
    /\ account_id' = [account_id EXCEPT ![s] = None]
    /\ player_id' = [player_id EXCEPT ![s] = None]
    /\ step' = [step EXCEPT ![s] = 0]
    /\ found' = [found EXCEPT ![s] = None]
    /\ age_reply' = [age_reply EXCEPT ![s] = None]

\* Mistaken forms: the worker signs off though it has no player; the loss of
\* the client cancels the handler.
HangUp_always(s) ==
    /\ pc[s] = "idle"
    /\ Goto(s, "off_info", None)
    /\ UNCHANGED <<vaultVars, account_id, player_id, step, found, age_reply, ghostVars>>

HangUp_cancels(s) ==
    /\ pc[s] \in {"idle", "create_player", "create_age"}
    /\ player_id[s] = None
    /\ Gone(s)
    /\ UNCHANGED <<vaultVars, ghostVars>>

\* The stream ends or fails, or a reply cannot be sent: run returns and
\* handle_disconnect follows.
HangUp(s) ==
    /\ pc[s] = "idle"
    /\ IF player_id[s] = None
       THEN Gone(s)
       ELSE /\ Goto(s, "off_info", None)
            /\ UNCHANGED <<account_id, player_id, step, found, age_reply>>
    /\ UNCHANGED <<vaultVars, ghostVars>>

\* A todo!() arm of handle_message, or peer_addr().unwrap() at the end of run
\* when the connection was reset: the task panics before handle_disconnect.
Panic(s) ==
    /\ pc[s] = "idle"
    /\ Gone(s)
    /\ UNCHANGED <<vaultVars, ghostVars>>

\* get_player_info_node, of the vault, for a player: its answer is a node the
\* Player node refers to, whoever made the reference.
HasInfo(p) ==
    /\ <<<<PlayerOf(p), "player">>, PlayerInfo(p)>> \in refs \cup client_refs
    /\ PlayerInfo(p) \in nodes

\* set_player_offline: the lookup, which gives up when there is no node ...
OffInfo(s) ==
    /\ pc[s] = "off_info"
    /\ IF HasInfo(player_id[s])
       THEN /\ Goto(s, "off_update", None)
            /\ UNCHANGED <<account_id, player_id, step, found, age_reply>>
       ELSE Gone(s)
    /\ UNCHANGED <<vaultVars, ghostVars>>

\* A mistaken update: it is lost.
OffUpdate_lost(s) ==
    /\ pc[s] = "off_update"
    /\ Gone(s)
    /\ UNCHANGED <<vaultVars, ghostVars>>

\* ... and the update.
OffUpdate(s) ==
    /\ pc[s] = "off_update"
    /\ online' = online \ {player_id[s]}
    /\ Gone(s)
    /\ UNCHANGED <<nodes, refs, client_refs, game_servers, owner, bad_sdl, ghostVars>>

-----------------------------------------------------------------------------
(* do_set_player: fetch_node and the check of the account, the lookup and  *)
(* the check of the online flag, the update.                               *)

\* Mistaken checks: any account's player will do; the online flag is ignored.
may_set_any(s, p) == account_id[s] # None /\ <<PlayerOf(p), "player">> \in nodes
refuses_nobody(p) == ~HasInfo(p)

may_set_player(s, p) ==
    /\ account_id[s] # None
    /\ <<PlayerOf(p), "player">> \in nodes
    /\ owner[p] = account_id[s]

SetPlayerRequest(s, p) ==
    /\ pc[s] = "idle"
    /\ may_set_player(s, p)
    /\ Goto(s, "set_info", p)
    /\ UNCHANGED <<vaultVars, account_id, player_id, step, found, age_reply, ghostVars>>

\* NetVaultNodeNotFound while the player is being created, and
\* NetLoggedInElsewhere for one that is online.
refuses(p) == ~HasInfo(p) \/ p \in online

SetInfo(s) ==
    /\ pc[s] = "set_info"
    /\ IF refuses(target[s])
       THEN Done(s) /\ UNCHANGED raced
       ELSE /\ Goto(s, "set_update", target[s])
            /\ raced' = IF \E t \in Session \ {s} : pc[t] = "set_update" /\ target[t] = target[s]
                        THEN raced \cup {target[s]} ELSE raced
    /\ UNCHANGED <<vaultVars, account_id, player_id, step, found, age_reply, raced_ages>>

SetUpdate(s) ==
    /\ pc[s] = "set_update"
    /\ online' = online \cup {target[s]}
    /\ player_id' = [player_id EXCEPT ![s] = target[s]]
    /\ Done(s)
    /\ UNCHANGED <<nodes, refs, client_refs, game_servers, owner, bad_sdl, account_id, step, found,
                   age_reply, ghostVars>>

-----------------------------------------------------------------------------
(* player_create and VaultInitAgeRequest.                                  *)

\* The vault's create_player, when it does not refuse: VaultDb!CreatePlayer.
PlayerCreateRequest(s, p) ==
    /\ pc[s] = "idle"
    /\ account_id[s] # None
    /\ owner[p] = None
    /\ owner' = [owner EXCEPT ![p] = account_id[s]]
    /\ nodes' = nodes \cup {<<PlayerOf(p), "player">>}
    /\ Goto(s, "create_player", p)
    /\ step' = [step EXCEPT ![s] = 1]
    /\ UNCHANGED <<refs, client_refs, game_servers, online, bad_sdl, account_id, player_id, found,
                   age_reply, ghostVars>>

\* find_nodes with VaultAgeNode::new_lookup and VaultAgeInfoNode::new_lookup:
\* the sessions that created a node of the age.
\* (find_no_age: a mistaken template, which matches nothing.)
find_no_age(u)   == {}
find_age(u)      == {t \in Session : <<AgeOf(t, u), "age">> \in nodes}
find_age_info(u) == {t \in Session : <<AgeOf(t, u), "age_info">> \in nodes}

InitAgeRequest(s, u) ==
    /\ pc[s] = "idle"
    /\ IF find_age(u) = {}
       THEN /\ Goto(s, "create_age", u)
            /\ step' = [step EXCEPT ![s] = 1]
            /\ raced_ages' = IF \E t \in Session \ {s} : pc[t] = "create_age" /\ target[t] = u
                             THEN raced_ages \cup {u} ELSE raced_ages
            /\ UNCHANGED found
       ELSE \E t \in find_age(u) :
              /\ Goto(s, "age_info", u)
              /\ found' = [found EXCEPT ![s] = t]
              /\ UNCHANGED <<step, raced_ages>>
    /\ UNCHANGED <<vaultVars, account_id, player_id, age_reply, raced>>

\* NetInternalError when there is no AgeInfo node.
FindAgeInfo(s) ==
    /\ pc[s] = "age_info"
    /\ \/ \E t \in find_age_info(target[s]) :
            age_reply' = [age_reply EXCEPT ![s] = [uuid |-> target[s], age |-> found[s], info |-> t]]
       \/ find_age_info(target[s]) = {} /\ UNCHANGED age_reply
    /\ Done(s)
    /\ found' = [found EXCEPT ![s] = None]
    /\ UNCHANGED <<vaultVars, account_id, player_id, step, ghostVars>>

calls(s) == IF pc[s] = "create_player" THEN PlayerCalls[target[s]] ELSE AgeCalls[<<s, target[s]>>]

creating(s) == pc[s] \in {"create_player", "create_age"}

fails(call) == call.op = "sdl_blob" /\ call.node[1] \in bad_sdl

\* The next call of a helper, and after the last one the reply.
HelperCall(s) ==
    LET call == calls(s)[step[s]]
        last == step[s] = Len(calls(s))
    IN  /\ creating(s)
        /\ ~fails(call)
        /\ nodes' = IF call.op = "create" THEN nodes \cup {call.node} ELSE nodes
        /\ refs' = IF call.op = "ref" THEN refs \cup {<<call.node, call.child>>} ELSE refs
        /\ game_servers' = IF call.op = "game" THEN game_servers \cup {call.node} ELSE game_servers
        /\ IF last THEN Done(s) ELSE UNCHANGED <<pc, target>>
        /\ step' = [step EXCEPT ![s] = IF last THEN 0 ELSE @ + 1]
        /\ age_reply' = IF last /\ pc[s] = "create_age"
                        THEN [age_reply EXCEPT ![s] = [uuid |-> target[s], age |-> s, info |-> s]]
                        ELSE age_reply
        /\ UNCHANGED <<client_refs, owner, online, bad_sdl, account_id, player_id, found, ghostVars>>

\* The SDL state cannot be built: NetInternalError, or a panic.  What was
\* created stays.
HelperFails(s) ==
    /\ creating(s)
    /\ fails(calls(s)[step[s]])
    /\ \/ /\ Done(s)
          /\ step' = [step EXCEPT ![s] = 0]
          /\ UNCHANGED <<account_id, player_id, found, age_reply>>
       \/ Gone(s)
    /\ UNCHANGED <<vaultVars, ghostVars>>

\* VaultNodeAdd: a client, logged in or not, refers from any id to any other,
\* and the vault stores it.
VaultNodeAdd(s, r) ==
    /\ pc[s] = "idle"
    /\ client_refs' = client_refs \cup {r}
    /\ UNCHANGED <<nodes, refs, game_servers, owner, online, bad_sdl, workerVars, ghostVars>>

-----------------------------------------------------------------------------
\* What a client may do next, and what a worker does by itself.
Client(s) ==
    \/ Connect(s)
    \/ \E a \in Account : LoginRequest(s, a)
    \/ HangUp(s)
    \/ Panic(s)
    \/ \E p \in Player : SetPlayerRequest(s, p) \/ PlayerCreateRequest(s, p)
    \/ \E r \in ClientRef : VaultNodeAdd(s, r)
    \/ \E u \in AgeUuid : InitAgeRequest(s, u)

Worker(s) ==
    \/ OffInfo(s)
    \/ OffUpdate(s)
    \/ SetInfo(s)
    \/ SetUpdate(s)
    \/ FindAgeInfo(s)
    \/ HelperCall(s)
    \/ HelperFails(s)

Next == \E s \in Session : Client(s) \/ Worker(s)

\* The runtime polls every task that can go on, and the vault answers every
\* call.  Nothing is assumed of the clients.
Fairness == \A s \in Session : WF_vars(Worker(s))

Spec == Init /\ [][Next]_vars /\ Fairness

-----------------------------------------------------------------------------
(* Properties.                                                             *)

published(p) == <<AllPlayers, PlayerInfo(p)>> \in refs

complete(tree) ==
    /\ tree.nodes \subseteq nodes
    /\ tree.refs \subseteq refs
    /\ tree.games \subseteq game_servers

(* fetch_refs with `recursive` follows references without remembering      *)
(* where it has been, inside the vault task: a cycle stops the vault for   *)
(* everyone.  VaultNodeAdd lets a client close one.  The server's own      *)
(* helpers never do, however many of them run at a time: every reference   *)
(* they make leads to a slot of a higher rank, so that a cycle has a       *)
(* client's reference in it.                                               *)
SlotRank == [player |-> 0, all_players |-> 0, age |-> 1, owned_ages |-> 2, relto_link |-> 3,
             age_info |-> 4, player_info |-> 6, system |-> 7, global_inbox |-> 8]
Rank(node) == IF node[2] \in DOMAIN SlotRank THEN SlotRank[node[2]] ELSE 5
RefsDescend == \A r \in refs : Rank(r[1]) < Rank(r[2])

(* ref_node does not look whether its nodes exist, and a client may refer  *)
(* to anything.  Both ends of what the helpers refer to exist by then: a   *)
(* client that walks the server's references while a player or age is      *)
(* being created never gets NetVaultNodeNotFound.                          *)
NoDanglingRefs == \A r \in refs : r[1] \in nodes /\ r[2] \in nodes

(* The All Players list, and the broadcast that goes with it, makes a      *)
(* player known to the others: the server lists it only once its whole     *)
(* tree is there, however many players are being created and whatever      *)
(* fails on the way.                                                       *)
PublishedComplete ==
    \A p \in Player : published(p) => complete(PlayerTree[p])

(* A worker that must sign a player off finds the player's info node, so   *)
(* "Failed to get Player Info node" never leaves a player online, not even *)
(* one whose client made the reference to the info node itself and signed  *)
(* in before the player was complete.                                      *)
SignOffFindsInfo == \A s \in Session : pc[s] = "off_info" => HasInfo(player_id[s])

(* A session is only ever signed in as a player of the account it has at   *)
(* that time, though the account was checked two vault calls earlier.      *)
SignsInOwnPlayer ==
    [][\A s \in Session :
         player_id'[s] \notin {None, player_id[s]} => owner[player_id'[s]] = account_id[s]]_vars

(* find_age_instance and create_age_nodes keep one age per UUID and answer *)
(* an Age node with the AgeInfo node that belongs to it, unless two        *)
(* workers had both found the age missing before either created it.        *)
AgesConsistent ==
    \A u \in AgeUuid \ raced_ages :
        /\ \A t1, t2 \in Session :
             {<<AgeOf(t1, u), "age">>, <<AgeOf(t2, u), "age">>} \subseteq nodes => t1 = t2
        /\ \A s \in Session : age_reply[s] # None /\ age_reply[s].uuid = u =>
             age_reply[s].age = age_reply[s].info

(* The workers, of all that they do, only sign in and off as SignIn says.  *)
SI == INSTANCE SignIn WITH
        holding <- player_id,
        seen <- [s \in Session |-> IF pc[s] = "set_update" THEN target[s] ELSE None]
RefinesSignIn == SI!Spec

(* A client that is lost while signed in leads to its player being offline *)
(* again: no player stays locked by a session that ended in order.         *)
DisconnectSignsOff ==
    \A s \in Session, p \in Player :
        (pc[s] = "off_info" /\ player_id[s] = p) ~> p \notin online

(* The rest of a player's initialization is left to the auth task, and is  *)
(* completed whatever happens to the client meanwhile, if the SDL state of *)
(* a Relto can be built.                                                   *)
CreationCompletes ==
    \A p \in Player : ("relto" \notin bad_sdl /\ owner[p] # None) ~> published(p)

(* The age that VaultInitAgeReply names may still be being created by      *)
(* another worker; it will be complete, if its SDL state can be built.     *)
RepliedAgeCompletes ==
    \A s \in Session, u \in AgeUuid :
        ("age" \notin bad_sdl /\ age_reply[s] # None /\ age_reply[s].uuid = u) ~>
            \E t \in Session : complete(AgeTree[<<t, u>>])

(* "Return JSON object containing the names and locations of online        *)
(* players": a player that the vault calls online is the player of a       *)
(* session.                                                                *)
OnlinePlayersAreHeld == \A p \in online : \E s \in Session : player_id[s] = p
=============================================================================
