------------------------------ MODULE VaultDb ------------------------------
(***************************************************************************)
(* The vault task: process_vault_message of src/src/vault/server.rs over   *)
(* the in-memory backend of src/src/vault/db_memory.rs.                    *)
(*                                                                         *)
(* The task takes one message at a time and answers it before it takes the *)
(* next one, so every message is one action.  `reply` is the result code   *)
(* of the message that was just answered and `sent` the broadcasts that    *)
(* were put on the broadcast channel before the answer.  Messages that     *)
(* only read the database are operators: they are defined after the        *)
(* actions, with the set of answers HashMap's iteration order allows.      *)
(***************************************************************************)
EXTENDS VaultNode, Sequences, FiniteSets

CONSTANTS
    ClientNode,      \* the nodes that clients send with VaultNodeCreate
    Ref,             \* the references that callers add, of any ids at all
    MAX_PLAYERS,     \* 5 in the code
    MaxNodeIndex,    \* bound: node ids handed out stay below it
    MaxRefs,         \* bound: how many references are stored
    MaxGameServers   \* bound: how many game servers are stored

(* A client's node is what from_blob reads: a field outside the mask has   *)
(* its default.  Nothing else is asked of it.                              *)
ASSUME ClientNodeAssumption ==
    \A node \in ClientNode :
        node \in Node /\ \A f \in Field : f \notin node.fields => node[f] = DefaultNode[f]
ASSUME RefAssumption == Ref \subseteq [parent : Nat, child : Nat, owner : Nat]
ASSUME MaxPlayersAssumption == MAX_PLAYERS \in Nat \ {0}
ASSUME BoundsAssumption == MaxNodeIndex \in Nat /\ MaxRefs \in Nat /\ MaxGameServers \in Nat

VARIABLES
    accounts,       \* HashMap<UniCase<String>, AccountInfo>
    players,        \* HashMap<Uuid, Vec<PlayerInfo>>; no entry is an empty Vec
    game_servers,   \* HashMap<u32, GameServer>
    game_index,     \* the next game server id
    vault,          \* HashMap<u32, Arc<VaultNode>>
    node_refs,      \* HashSet<NodeRef>
    node_index,     \* the next node id
    reply,          \* the result of the last message
    sent,           \* its broadcasts
    client_nodes    \* history: the ids of the nodes that clients created

db == <<accounts, players, game_servers, game_index, vault, node_refs, node_index>>
vars == <<accounts, players, game_servers, game_index, vault, node_refs, node_index, reply, sent,
          client_nodes>>

AccountInfo == [account_name : Name, account_id : Uuid]
PlayerInfo  == [player_id : Nat, player_name : Name, avatar_shape : AvatarShape]
NodeRef     == [parent : Nat, child : Nat, owner : Nat]
NetResult   == {"NetSuccess", "NetInternalError", "NetPlayerAlreadyExists",
                "NetMaxPlayersOnAcct", "NetVaultNodeNotFound"}

NodeChanged(node_id) == [msg |-> "NodeChanged", node_id |-> node_id]
NodeAdded(ref) == [msg |-> "NodeAdded", parent_id |-> ref.parent,
                   child_id |-> ref.child, owner_id |-> ref.owner]

-----------------------------------------------------------------------------
(* HashMap::insert *)
insert(map, key, value) == [k \in DOMAIN map \cup {key} |-> IF k = key THEN value ELSE map[k]]

(* The nodes init_vault creates, in this order, and Backend::new's index.  *)
FirstNodeId    == 1000
SystemNode     == FirstNodeId
GlobalInbox    == FirstNodeId + 1
AllPlayersNode == FirstNodeId + 2

init_vault ==
    /\ vault = [n \in {SystemNode, GlobalInbox, AllPlayersNode} |->
                  IF n = SystemNode THEN VaultSystemNode_new
                  ELSE IF n = GlobalInbox THEN VaultFolderNode_new(GlobalInboxFolder)
                  ELSE VaultPlayerInfoListNode_new(AllPlayersFolder)]
    /\ node_refs = {[parent |-> SystemNode, child |-> GlobalInbox, owner |-> 0]}
    /\ node_index = FirstNodeId + 3

Init ==
    /\ accounts = [k \in {} |-> [account_name |-> NoName, account_id |-> NilUuid]]
    /\ players = [u \in Uuid |-> <<>>]
    /\ game_servers = [i \in {} |-> NilUuid]
    /\ game_index = 1
    /\ init_vault
    /\ reply = "NetSuccess"
    /\ sent = {}
    /\ client_nodes = {}

-----------------------------------------------------------------------------
(* A login asks for an account, and this backend creates it when there is  *)
(* none under that name, upper and lower case being the same.  The random  *)
(* account id is taken to be fresh.                                        *)
GetAccount(account_name) ==
    /\ IF UniCase(account_name) \in DOMAIN accounts
       THEN UNCHANGED accounts
       ELSE \E account_id \in Uuid \ {accounts[k].account_id : k \in DOMAIN accounts} :
              accounts' = insert(accounts, UniCase(account_name),
                                 [account_name |-> account_name, account_id |-> account_id])
    /\ reply' = "NetSuccess"
    /\ sent' = {}
    /\ UNCHANGED <<players, game_servers, game_index, vault, node_refs, node_index>>

(* create_pass_hash failed: the account table is not looked at.            *)
GetAccountFails ==
    /\ reply' = "NetInternalError"
    /\ sent' = {}
    /\ UNCHANGED db

\* A mistaken check: letters of another case make another name.
player_exists_exact(player_name) ==
    \E u \in Uuid : \E i \in DOMAIN players[u] : players[u][i].player_name = player_name

player_exists(player_name) ==
    \E u \in Uuid : \E i \in DOMAIN players[u] :
        UniCase(players[u][i].player_name) = UniCase(player_name)

count_players(account_id) == Len(players[account_id])

\* A mistaken limit: off by one.
at_limit_late(account_id) == count_players(account_id) > MAX_PLAYERS

at_limit(account_id) == count_players(account_id) >= MAX_PLAYERS

\* A mistaken create: the index stays.
create_node_stuck(node) ==
    /\ node_index < MaxNodeIndex
    /\ vault' = insert(vault, node_index, node)
    /\ UNCHANGED node_index

(* DbMemory::create_node: the index moves on and the node is stored, and   *)
(* the answer is an error if the id was taken.                             *)
create_node(node) ==
    /\ node_index < MaxNodeIndex
    /\ node_index' = node_index + 1
    /\ vault' = insert(vault, node_index, node)

create_node_result ==
    IF node_index \in DOMAIN vault THEN "NetInternalError" ELSE "NetSuccess"

CreatePlayerRejected(account_id, player_name) ==
    /\ \/ /\ player_exists(player_name)
          /\ reply' = "NetPlayerAlreadyExists"
       \/ /\ ~player_exists(player_name)
          /\ at_limit(account_id)
          /\ reply' = "NetMaxPlayersOnAcct"
    /\ sent' = {}
    /\ UNCHANGED db

CreatePlayer(account_id, player_name, avatar_shape) ==
    /\ ~player_exists(player_name)
    /\ ~at_limit(account_id)
    /\ create_node(VaultPlayerNode_new(account_id, player_name, avatar_shape))
    /\ players' = IF create_node_result = "NetSuccess"
                  THEN [players EXCEPT ![account_id] =
                          Append(@, [player_id    |-> node_index,
                                     player_name  |-> player_name,
                                     avatar_shape |-> avatar_shape])]
                  ELSE players
    /\ reply' = create_node_result
    /\ sent' = {}
    /\ UNCHANGED <<accounts, game_servers, game_index, node_refs>>

AddGameServer(instance_id) ==
    /\ game_index <= MaxGameServers
    /\ game_index' = game_index + 1
    /\ game_servers' = insert(game_servers, game_index, instance_id)
    /\ reply' = IF game_index \in DOMAIN game_servers THEN "NetInternalError" ELSE "NetSuccess"
    /\ sent' = {}
    /\ UNCHANGED <<accounts, players, vault, node_refs, node_index>>

CreateNode(node) ==
    /\ create_node(node)
    /\ reply' = create_node_result
    /\ sent' = {}
    /\ UNCHANGED <<accounts, players, game_servers, game_index, node_refs>>

UpdateNodeNotFound(node_id) ==
    /\ node_id \notin DOMAIN vault
    /\ reply' = "NetVaultNodeNotFound"
    /\ sent' = {}
    /\ UNCHANGED db

\* A mistaken loop: the nodes of the answer are not announced.
announce_none(updated) == {}

\* The broadcasts for the node ids that update_node answers.
announce(updated) == {NodeChanged(n) : n \in updated}

UpdateNode(node_id, node) ==
    /\ node_id \in DOMAIN vault
    /\ vault' = [vault EXCEPT ![node_id] = update_node(@, node)]
    /\ reply' = "NetSuccess"
    /\ sent' = announce({node_id})
    /\ UNCHANGED <<accounts, players, game_servers, game_index, node_refs, node_index>>

RefNode(ref, broadcast) ==
    /\ node_refs' = node_refs \cup {ref}
    /\ Cardinality(node_refs') <= MaxRefs
    /\ reply' = "NetSuccess"
    /\ sent' = IF broadcast THEN {NodeAdded(ref)} ELSE {}
    /\ UNCHANGED <<accounts, players, game_servers, game_index, vault, node_index>>

-----------------------------------------------------------------------------
(* The messages that only read.  A lookup that stops at the first hit of a *)
(* HashMap iteration may answer any of the hits: the operator is the set   *)
(* of them, and the empty set stands for NetVaultNodeNotFound.             *)

find_nodes(template) == {n \in DOMAIN vault : node_match(template, vault[n])}

get_system_node == {n \in DOMAIN vault : vault[n].node_type = SystemType}

\* A mistaken lookup: the folder type is not compared.
get_all_players_node_any == {n \in DOMAIN vault : vault[n].node_type = PlayerInfoListType}

get_all_players_node ==
    {n \in DOMAIN vault : /\ vault[n].node_type = PlayerInfoListType
                          /\ vault[n].int32_1 = AllPlayersFolder}

\* Without `recursive`, the references of the node itself.
fetch_refs(parent) == {r \in node_refs : r.parent = parent}

get_player_info_node(player_id) ==
    {n \in {r.child : r \in fetch_refs(player_id)} \cap DOMAIN vault :
        vault[n].node_type = PlayerInfoType /\ vault[n].uint32_1 = player_id}

-----------------------------------------------------------------------------
(* What the callers send.  Account ids are those of accounts.  The auth    *)
(* server's own nodes: a player's info node, and lists and folders as      *)
(* create_player_nodes makes them (of the kinds that no lookup asks for    *)
(* there are more).  A client's node is stored as it comes, of whatever    *)
(* type and with whatever values, and so are references.  Updates: the two *)
(* that sign a player in and out, of a PlayerInfo node or of an id nobody  *)
(* has; there is no other, as the handler of VaultNodeSave is a todo!().   *)

AccountIds == {accounts[k].account_id : k \in DOMAIN accounts}
PlayerIds  == {n \in DOMAIN vault : vault[n].node_type = PlayerType}
InfoIds    == {n \in DOMAIN vault : vault[n].node_type = PlayerInfoType}

NewNodes ==
    {VaultPlayerInfoNode_new(p, vault[p].istring64_1) : p \in PlayerIds}
      \cup {VaultFolderNode_new(UserDefined), VaultPlayerInfoListNode_new(BuddyListFolder)}

SignUpdates ==
    {VaultPlayerInfoNode_new_update(1, "Lobby"), VaultPlayerInfoNode_new_update(0, EmptyString)}

\* The handler of VaultNodeCreate: the node goes to create_node unchecked.
VaultNodeCreate(node) ==
    /\ CreateNode(node)
    /\ client_nodes' = client_nodes \cup {node_index}

process_vault_message ==
    \/ \E a \in Name : GetAccount(a)
    \/ GetAccountFails
    \/ \E u \in AccountIds, n \in Name : CreatePlayerRejected(u, n)
    \/ \E u \in AccountIds, n \in Name, s \in AvatarShape : CreatePlayer(u, n, s)
    \/ \E u \in Uuid : AddGameServer(u)
    \/ \E node \in NewNodes : CreateNode(node)
    \/ UpdateNodeNotFound(node_index)
    \/ \E n \in InfoIds, node \in SignUpdates : UpdateNode(n, node)
    \/ \E r \in Ref, b \in BOOLEAN : RefNode(r, b)

Next ==
    \/ process_vault_message /\ UNCHANGED client_nodes
    \/ \E node \in ClientNode : VaultNodeCreate(node)

Spec == Init /\ [][Next]_vars

-----------------------------------------------------------------------------
TypeOK ==
    /\ DOMAIN accounts \subseteq Name
    /\ \A k \in DOMAIN accounts : accounts[k] \in AccountInfo
    /\ players \in [Uuid -> Seq(PlayerInfo)]
    /\ DOMAIN game_servers \subseteq Nat
    /\ \A i \in DOMAIN game_servers : game_servers[i] \in Uuid
    /\ game_index \in Nat
    /\ DOMAIN vault \subseteq Nat
    /\ \A n \in DOMAIN vault : vault[n] \in Node
    /\ node_refs \subseteq NodeRef
    /\ node_index \in Nat
    /\ reply \in NetResult
    /\ client_nodes \subseteq DOMAIN vault

(* Two players never have the same name, whatever their accounts and       *)
(* whatever the case of the letters: the check for the name and the entry  *)
(* of the player are one message of the vault task.                        *)
NamesUnique ==
    \A u, v \in Uuid : \A i \in DOMAIN players[u], j \in DOMAIN players[v] :
        UniCase(players[u][i].player_name) = UniCase(players[v][j].player_name)
          => u = v /\ i = j

(* No account has more than MAX_PLAYERS players.                           *)
AtMostMaxPlayers == \A u \in Uuid : Len(players[u]) <= MAX_PLAYERS

(* The players table and the Player nodes, which AcctSetPlayer goes by,    *)
(* tell the same story: a listed player has a Player node with its name    *)
(* and account, and a Player node is listed under the account it names     *)
(* unless a client made it up: VaultNodeCreate stores a Player node of any *)
(* account, and it never displaces the node of a listed player.            *)
PlayersMatchNodes ==
    /\ \A u \in Uuid : \A i \in DOMAIN players[u] :
         LET p == players[u][i] IN
         /\ p.player_id \in DOMAIN vault \ client_nodes
         /\ vault[p.player_id].node_type = PlayerType
         /\ vault[p.player_id].uuid_1 = u
         /\ vault[p.player_id].istring64_1 = p.player_name
    /\ \A n \in DOMAIN vault \ client_nodes : vault[n].node_type = PlayerType =>
         /\ vault[n].uuid_1 \in Uuid
         /\ \E i \in DOMAIN players[vault[n].uuid_1] :
              players[vault[n].uuid_1][i].player_id = n

(* "Created duplicate node ID" and "Created duplicate game server ID" are  *)
(* never logged: the next id is never taken, so no create overwrites a     *)
(* node or answers NetInternalError after the insert.                      *)
NoDuplicateIds ==
    /\ node_index \notin DOMAIN vault
    /\ game_index \notin DOMAIN game_servers

(* What the lookups that answer the first hit in HashMap order may find:   *)
(* the system node and the All Players list of init_vault, always, and     *)
(* besides them only nodes that clients created.  Two servers that look up *)
(* the parent of a player or an age get different answers in no other      *)
(* case: no update and no helper of the server makes a second hit.         *)
LookupsHitOwnNodes ==
    /\ get_system_node \ client_nodes = {SystemNode}
    /\ get_all_players_node \ client_nodes = {AllPlayersNode}

(* What the API service lists as online (find_nodes with new_lookup(1))    *)
(* are PlayerInfo nodes, whoever created them, so its unwrap of            *)
(* as_player_info_node never panics at the vault's answer; and each of     *)
(* them has a location to show, if it is not a client's own node.          *)
OnlineHaveLocation ==
    \A n \in find_nodes(VaultPlayerInfoNode_new_lookup(1)) :
        /\ vault[n].node_type = PlayerInfoType
        /\ n \notin client_nodes => vault[n].string64_1 # EmptyString

(* What a client is sent of a node is the node: after every update that    *)
(* the vault has made to it, the mask still names all that was ever set,   *)
(* so that to_blob leaves nothing out and from_blob puts nothing else in   *)
(* its place.                                                              *)
BlobsKeepNodes == \A n \in DOMAIN vault : stream_read(stream_write(vault[n])) = vault[n]

(* A message that is answered with an error has changed nothing: not one   *)
(* of them fails after a write.                                            *)
RejectionLeavesNoTrace == [][reply' # "NetSuccess" => UNCHANGED db]_vars

(* Clients keep a copy of the nodes they have fetched and rely on          *)
(* NodeChanged to refresh it: whenever a message gives an existing node    *)
(* another value, the node's id is broadcast with it.  And what NodeAdded  *)
(* announces is in the database by then.                                   *)
ChangesAnnounced ==
    [][/\ \A n \in DOMAIN vault :
            (n \notin DOMAIN vault' \/ vault'[n] # vault[n]) => NodeChanged(n) \in sent'
       /\ \A b \in sent' : b.msg = "NodeAdded" =>
            [parent |-> b.parent_id, child |-> b.child_id, owner |-> b.owner_id] \in node_refs'
      ]_vars
=============================================================================
