--------------------------- MODULE VaultDbProofs ---------------------------
(***************************************************************************)
(* Proofs about the vault task for any set of accounts and names, any      *)
(* MAX_PLAYERS and any bounds, whatever nodes and references clients send. *)
(*                                                                         *)
(* Every message keeps IInv, the conjunction of the invariants with the    *)
(* freshness of ids, which makes a create an insert of a new key.  What a  *)
(* node is sent as needs MaskInv on top of it.                             *)
(***************************************************************************)
EXTENDS VaultDb, TLAPS

(* No node and no game server has an id that is still to be handed out.    *)
FreshIds ==
    /\ \A n \in DOMAIN vault : n < node_index
    /\ \A i \in DOMAIN game_servers : i < game_index

(* A PlayerInfo node that says online has a location, unless a client      *)
(* created it that way.                                                    *)
OnlineIsLocated ==
    \A n \in DOMAIN vault \ client_nodes :
        vault[n].node_type = PlayerInfoType /\ vault[n].int32_1 = 1 => vault[n].string64_1 # EmptyString

IInv ==
    /\ TypeOK
    /\ FreshIds
    /\ NamesUnique
    /\ AtMostMaxPlayers
    /\ PlayersMatchNodes
    /\ LookupsHitOwnNodes
    /\ OnlineIsLocated

-----------------------------------------------------------------------------
(* The constructors of vnode_access.rs make nodes of the type they name.   *)
LEMMA ConstructorTypes ==
    /\ VaultSystemNode_new \in Node
    /\ VaultSystemNode_new.node_type = SystemType
    /\ \A f \in Nat : /\ VaultFolderNode_new(f) \in Node
                      /\ VaultFolderNode_new(f).node_type = FolderType
                      /\ VaultPlayerInfoListNode_new(f) \in Node
                      /\ VaultPlayerInfoListNode_new(f).node_type = PlayerInfoListType
                      /\ VaultPlayerInfoListNode_new(f).int32_1 = f
    /\ \A u \in Uuid, n \in Name, s \in AvatarShape :
         /\ VaultPlayerNode_new(u, n, s) \in Node
         /\ VaultPlayerNode_new(u, n, s).node_type = PlayerType
         /\ VaultPlayerNode_new(u, n, s).uuid_1 = u
         /\ VaultPlayerNode_new(u, n, s).istring64_1 = n
    /\ \A p \in Nat, n \in Name \cup {NoName} :
         /\ VaultPlayerInfoNode_new(p, n) \in Node
         /\ VaultPlayerInfoNode_new(p, n).node_type = PlayerInfoType
         /\ VaultPlayerInfoNode_new(p, n).int32_1 = 0
  <1>1. DefaultNode \in Node
    BY DEF DefaultNode, Node, Field
  <1>2. /\ VaultSystemNode_new \in Node
        /\ VaultSystemNode_new.node_type = SystemType
    BY <1>1 DEF VaultSystemNode_new, DefaultNode, Node, Field, SystemType
  <1>3. ASSUME NEW f \in Nat
        PROVE  /\ VaultFolderNode_new(f) \in Node
               /\ VaultFolderNode_new(f).node_type = FolderType
               /\ VaultFolderNode_new(f).int32_1 = f
    BY <1>1 DEF VaultFolderNode_new, DefaultNode, Node, Field, FolderType
  <1>4. ASSUME NEW f \in Nat
        PROVE  /\ VaultPlayerInfoListNode_new(f) \in Node
               /\ VaultPlayerInfoListNode_new(f).node_type = PlayerInfoListType
               /\ VaultPlayerInfoListNode_new(f).int32_1 = f
    BY <1>1 DEF VaultPlayerInfoListNode_new, VaultFolderNode_new, DefaultNode, Node, Field,
       PlayerInfoListType
  <1>5. ASSUME NEW u \in Uuid, NEW n \in Name, NEW s \in AvatarShape
        PROVE  /\ VaultPlayerNode_new(u, n, s) \in Node
               /\ VaultPlayerNode_new(u, n, s).node_type = PlayerType
               /\ VaultPlayerNode_new(u, n, s).uuid_1 = u
               /\ VaultPlayerNode_new(u, n, s).istring64_1 = n
    BY <1>1 DEF VaultPlayerNode_new, DefaultNode, Node, Field, PlayerType
  <1>6. ASSUME NEW p \in Nat, NEW n \in Name \cup {NoName}
        PROVE  /\ VaultPlayerInfoNode_new(p, n) \in Node
               /\ VaultPlayerInfoNode_new(p, n).node_type = PlayerInfoType
               /\ VaultPlayerInfoNode_new(p, n).int32_1 = 0
    BY <1>1 DEF VaultPlayerInfoNode_new, DefaultNode, Node, Field, PlayerInfoType
  <1> QED
    BY <1>2, <1>3, <1>4, <1>5, <1>6

(* Signing a player in or out leaves the type of the node alone.           *)
LEMMA SignUpdateFacts ==
    ASSUME NEW old \in Node, NEW new \in SignUpdates
    PROVE  /\ update_node(old, new) \in Node
           /\ update_node(old, new).node_type = old.node_type
           /\ update_node(old, new).int32_1 = 1 => update_node(old, new).string64_1 # EmptyString
  <1>1. ASSUME NEW online \in Nat, NEW loc \in {EmptyString, "Lobby"}
        PROVE  LET n == VaultPlayerInfoNode_new_update(online, loc) IN
               /\ n \in Node /\ n.fields = {"int32_1", "string64_1", "uuid_1"}
               /\ n.int32_1 = online /\ n.string64_1 = loc
    BY DEF VaultPlayerInfoNode_new_update, DefaultNode, Node, Field
  <1>2. /\ new \in Node /\ new.fields = {"int32_1", "string64_1", "uuid_1"}
        /\ new.int32_1 = 1 => new.string64_1 # EmptyString
    <2>1. CASE new = VaultPlayerInfoNode_new_update(1, "Lobby")
      BY <1>1, <2>1 DEF EmptyString
    <2>2. CASE new = VaultPlayerInfoNode_new_update(0, EmptyString)
      BY <1>1, <2>2 DEF EmptyString
    <2> QED
      BY <2>1, <2>2 DEF SignUpdates
  <1>3. old.fields \cup new.fields \in SUBSET Field
    BY <1>2 DEF Node
  <1> QED
    BY <1>2, <1>3 DEF update_node, Node

-----------------------------------------------------------------------------
(* init_vault establishes the invariant.                                   *)
LEMMA InitIInv == Init => IInv
  <1> SUFFICES ASSUME Init PROVE IInv
    OBVIOUS
  <1> USE DEF Init
  <1>1. /\ DOMAIN vault = {1000, 1001, 1002}
        /\ vault[1000] = VaultSystemNode_new
        /\ vault[1001] = VaultFolderNode_new(GlobalInboxFolder)
        /\ vault[1002] = VaultPlayerInfoListNode_new(AllPlayersFolder)
        /\ node_index = 1003
    BY DEF init_vault, SystemNode, GlobalInbox, AllPlayersNode, FirstNodeId
  <1>2. GlobalInboxFolder \in Nat /\ AllPlayersFolder \in Nat
    BY DEF GlobalInboxFolder, AllPlayersFolder
  <1>3. /\ vault[1000] \in Node /\ vault[1000].node_type = 24
        /\ vault[1001] \in Node /\ vault[1001].node_type = 22
        /\ vault[1002] \in Node /\ vault[1002].node_type = 30 /\ vault[1002].int32_1 = 12
    BY <1>1, <1>2, ConstructorTypes
       DEF SystemType, FolderType, PlayerInfoListType, AllPlayersFolder
  <1>4. TypeOK
    <2>1. node_refs \subseteq NodeRef
      BY DEF init_vault, NodeRef, SystemNode, GlobalInbox, FirstNodeId
    <2>2. players \in [Uuid -> Seq(PlayerInfo)]
      OBVIOUS
    <2> QED
      BY <1>1, <1>3, <2>1, <2>2 DEF TypeOK, NetResult
  <1>5. FreshIds
    BY <1>1 DEF FreshIds
  <1>6. NamesUnique /\ AtMostMaxPlayers
    BY MaxPlayersAssumption DEF NamesUnique, AtMostMaxPlayers
  <1>7. PlayersMatchNodes
    BY <1>1, <1>3 DEF PlayersMatchNodes, PlayerType
  <1>8. LookupsHitOwnNodes
    BY <1>1, <1>3 DEF LookupsHitOwnNodes, get_system_node, get_all_players_node,
       SystemType, PlayerInfoListType, AllPlayersFolder, SystemNode, AllPlayersNode, FirstNodeId
  <1>9. OnlineIsLocated
    BY <1>1, <1>3 DEF OnlineIsLocated, PlayerInfoType
  <1> QED
    BY <1>4, <1>5, <1>6, <1>7, <1>8, <1>9 DEF IInv

-----------------------------------------------------------------------------
(* Storing a node under the next id keeps what holds of the nodes, if the  *)
(* node is not a system node, an All Players list or a Player node.        *)
LEMMA CreateNodeFacts ==
    ASSUME IInv, NEW node \in Node, create_node(node)
    PROVE  /\ node_index \notin DOMAIN vault
           /\ create_node_result = "NetSuccess"
           /\ DOMAIN vault' = DOMAIN vault \cup {node_index}
           /\ vault'[node_index] = node
           /\ \A n \in DOMAIN vault : vault'[n] = vault[n]
           /\ DOMAIN vault' \subseteq Nat
           /\ \A n \in DOMAIN vault' : vault'[n] \in Node /\ n < node_index'
           /\ node_index' \in Nat
  <1>1. node_index \in Nat /\ node_index \notin DOMAIN vault
    BY DEF IInv, TypeOK, FreshIds
  <1>2. /\ DOMAIN vault' = DOMAIN vault \cup {node_index}
        /\ vault'[node_index] = node
        /\ \A n \in DOMAIN vault : vault'[n] = vault[n]
        /\ node_index' = node_index + 1
    BY <1>1 DEF create_node, insert
  <1>3. create_node_result = "NetSuccess"
    BY <1>1 DEF create_node_result
  <1>4. /\ DOMAIN vault' \subseteq Nat
        /\ \A n \in DOMAIN vault' : vault'[n] \in Node /\ n < node_index'
        /\ node_index' \in Nat
    BY <1>1, <1>2 DEF IInv, TypeOK, FreshIds
  <1> QED
    BY <1>1, <1>2, <1>3, <1>4

(* The system node and the All Players list stay the only ones of the      *)
(* server when no node becomes another and the new node is neither, or a   *)
(* client's.                                                               *)
LEMMA LookupsKept ==
    ASSUME LookupsHitOwnNodes, NEW id,
           DOMAIN vault' = DOMAIN vault \cup {id}, id \notin DOMAIN vault,
           \A n \in DOMAIN vault : vault'[n] = vault[n],
           \A n \in DOMAIN vault : n \in client_nodes' <=> n \in client_nodes,
           \/ id \in client_nodes'
           \/ /\ vault'[id].node_type # SystemType
              /\ vault'[id].node_type # PlayerInfoListType \/ vault'[id].int32_1 # AllPlayersFolder
    PROVE  LookupsHitOwnNodes'
  <1>1. get_system_node' \ client_nodes' = get_system_node \ client_nodes
    BY DEF get_system_node
  <1>2. get_all_players_node' \ client_nodes' = get_all_players_node \ client_nodes
    BY DEF get_all_players_node
  <1> QED
    BY <1>1, <1>2 DEF LookupsHitOwnNodes, SystemNode, AllPlayersNode

(* Every message keeps the invariant.                                      *)
LEMMA NextIInv == IInv /\ [Next]_vars => IInv'
  <1> SUFFICES ASSUME IInv, [Next]_vars PROVE IInv'
    OBVIOUS
  <1>1. ASSUME NEW a \in Name, GetAccount(a), UNCHANGED client_nodes PROVE IInv'
    <2>1. UNCHANGED <<players, game_servers, game_index, vault, node_refs, node_index,
                      client_nodes>>
          /\ reply' = "NetSuccess"
      BY <1>1 DEF GetAccount
    <2>2. /\ DOMAIN accounts' \subseteq Name
          /\ \A k \in DOMAIN accounts' : accounts'[k] \in AccountInfo
      <3>1. CASE UniCase(a) \in DOMAIN accounts
        BY <1>1, <3>1 DEF GetAccount, IInv, TypeOK
      <3>2. CASE UniCase(a) \notin DOMAIN accounts
        <4>1. PICK u \in Uuid : accounts' = insert(accounts, UniCase(a),
                                   [account_name |-> a, account_id |-> u])
          BY <1>1, <3>2 DEF GetAccount
        <4>2. UniCase(a) \in Name
          BY FoldAssumption DEF UniCase
        <4>3. [account_name |-> a, account_id |-> u] \in AccountInfo
          BY DEF AccountInfo
        <4> QED
          BY <3>2, <4>1, <4>2, <4>3 DEF IInv, TypeOK, insert
      <3> QED
        BY <3>1, <3>2
    <2> QED
      BY <2>1, <2>2 DEF IInv, TypeOK, FreshIds, NamesUnique, AtMostMaxPlayers,
         PlayersMatchNodes, LookupsHitOwnNodes, get_system_node, get_all_players_node,
         OnlineIsLocated, NetResult
  <1>10. CASE GetAccountFails /\ UNCHANGED client_nodes
    BY <1>10 DEF GetAccountFails, db, IInv, TypeOK, FreshIds, NamesUnique,
       AtMostMaxPlayers, PlayersMatchNodes, LookupsHitOwnNodes, get_system_node,
       get_all_players_node, OnlineIsLocated, NetResult
  <1>2. ASSUME NEW u \in AccountIds, NEW n \in Name, CreatePlayerRejected(u, n),
               UNCHANGED client_nodes
        PROVE  IInv'
    BY <1>2 DEF CreatePlayerRejected, db, IInv, TypeOK, FreshIds, NamesUnique,
       AtMostMaxPlayers, PlayersMatchNodes, LookupsHitOwnNodes, get_system_node,
       get_all_players_node, OnlineIsLocated, NetResult
  <1>3. ASSUME NEW u \in AccountIds, NEW n \in Name, NEW s \in AvatarShape,
               CreatePlayer(u, n, s), UNCHANGED client_nodes
        PROVE  IInv'
    <2> DEFINE node == VaultPlayerNode_new(u, n, s)
               player == [player_id |-> node_index, player_name |-> n, avatar_shape |-> s]
    <2>1. u \in Uuid
      BY DEF AccountIds, IInv, TypeOK, AccountInfo
    <2>2. /\ node \in Node /\ node.node_type = PlayerType
          /\ node.uuid_1 = u /\ node.istring64_1 = n
      BY <2>1, ConstructorTypes
    <2>3. /\ node_index \notin DOMAIN vault
          /\ create_node_result = "NetSuccess"
          /\ DOMAIN vault' = DOMAIN vault \cup {node_index}
          /\ vault'[node_index] = node
          /\ \A m \in DOMAIN vault : vault'[m] = vault[m]
          /\ DOMAIN vault' \subseteq Nat
          /\ \A m \in DOMAIN vault' : vault'[m] \in Node /\ m < node_index'
          /\ node_index' \in Nat
      <3>1. create_node(node)
        BY <1>3 DEF CreatePlayer
      <3> HIDE DEF node
      <3> QED
        BY <3>1, <2>2, CreateNodeFacts
    <2>4. /\ players' = [players EXCEPT ![u] = Append(players[u], player)]
          /\ reply' = "NetSuccess"
          /\ UNCHANGED <<accounts, game_servers, game_index, node_refs, client_nodes>>
      BY <1>3, <2>3 DEF CreatePlayer
    <2>5. player \in PlayerInfo
      BY DEF PlayerInfo, IInv, TypeOK
    <2> HIDE DEF node, player
    <2>6. players \in [Uuid -> Seq(PlayerInfo)]
      BY DEF IInv, TypeOK
    <2>7. /\ players' \in [Uuid -> Seq(PlayerInfo)]
          /\ \A v \in Uuid : v # u => players'[v] = players[v]
          /\ Len(players'[u]) = Len(players[u]) + 1
          /\ \A i \in DOMAIN players[u] : i \in DOMAIN players'[u] /\ players'[u][i] = players[u][i]
          /\ \A i \in DOMAIN players'[u] : i \in DOMAIN players[u] \/ i = Len(players[u]) + 1
          /\ Len(players[u]) + 1 \in DOMAIN players'[u]
          /\ players'[u][Len(players[u]) + 1] = player
          /\ Len(players[u]) + 1 \notin DOMAIN players[u]
      BY <2>1, <2>4, <2>5, <2>6
    <2>8. TypeOK'
      BY <2>3, <2>4, <2>7 DEF IInv, TypeOK, NetResult
    <2>9. FreshIds'
      BY <2>3, <2>4 DEF IInv, FreshIds
    <2>10. NamesUnique'
      <3>1. \A v \in Uuid : \A i \in DOMAIN players[v] :
              UniCase(players[v][i].player_name) # UniCase(player.player_name)
        BY <1>3 DEF CreatePlayer, player_exists, player
      <3> SUFFICES ASSUME NEW v \in Uuid, NEW w \in Uuid,
                          NEW i \in DOMAIN players'[v], NEW j \in DOMAIN players'[w],
                          UniCase(players'[v][i].player_name) = UniCase(players'[w][j].player_name)
                   PROVE  v = w /\ i = j
        BY DEF NamesUnique
      <3>2. CASE (v = u /\ i = Len(players[u]) + 1) /\ (w = u /\ j = Len(players[u]) + 1)
        BY <3>2
      <3>3. CASE (v = u /\ i = Len(players[u]) + 1) /\ ~(w = u /\ j = Len(players[u]) + 1)
        <4>1. players'[v][i] = player
          BY <3>3, <2>7
        <4>2. j \in DOMAIN players[w] /\ players'[w][j] = players[w][j]
          BY <3>3, <2>7
        <4> QED
          BY <4>1, <4>2, <3>1
      <3>4. CASE ~(v = u /\ i = Len(players[u]) + 1) /\ (w = u /\ j = Len(players[u]) + 1)
        <4>1. players'[w][j] = player
          BY <3>4, <2>7
        <4>2. i \in DOMAIN players[v] /\ players'[v][i] = players[v][i]
          BY <3>4, <2>7
        <4> QED
          BY <4>1, <4>2, <3>1
      <3>5. CASE ~(v = u /\ i = Len(players[u]) + 1) /\ ~(w = u /\ j = Len(players[u]) + 1)
        <4>1. j \in DOMAIN players[w] /\ players'[w][j] = players[w][j]
          BY <3>5, <2>7
        <4>2. i \in DOMAIN players[v] /\ players'[v][i] = players[v][i]
          BY <3>5, <2>7
        <4> QED
          BY <4>1, <4>2 DEF IInv, NamesUnique
      <3> QED
        BY <3>2, <3>3, <3>4, <3>5
    <2>11. AtMostMaxPlayers'
      <3>1. Len(players[u]) < MAX_PLAYERS /\ Len(players[u]) \in Nat
        BY <1>3, <2>1, <2>6, MaxPlayersAssumption DEF CreatePlayer, count_players, at_limit
      <3>2. Len(players'[u]) <= MAX_PLAYERS
        BY <3>1, <2>7, MaxPlayersAssumption
      <3> QED
        BY <3>2, <2>7 DEF IInv, AtMostMaxPlayers
    <2>12. PlayersMatchNodes'
      <3>1. ASSUME NEW v \in Uuid, NEW i \in DOMAIN players'[v]
            PROVE  LET p == players'[v][i] IN
                   /\ p.player_id \in DOMAIN vault' \ client_nodes'
                   /\ vault'[p.player_id].node_type = PlayerType
                   /\ vault'[p.player_id].uuid_1 = v
                   /\ vault'[p.player_id].istring64_1 = p.player_name
        <4>1. CASE v = u /\ i = Len(players[u]) + 1
          <5>1. players'[v][i] = player
            BY <4>1, <2>7
          <5>2. player.player_id = node_index /\ player.player_name = n
            BY DEF player
          <5> QED
            BY <4>1, <5>1, <5>2, <2>2, <2>3, <2>4 DEF IInv, TypeOK
        <4>2. CASE ~(v = u /\ i = Len(players[u]) + 1)
          <5>1. i \in DOMAIN players[v] /\ players'[v][i] = players[v][i]
            BY <4>2, <2>7
          <5> QED
            BY <5>1, <2>3, <2>4 DEF IInv, PlayersMatchNodes
        <4> QED
          BY <4>1, <4>2
      <3>2. ASSUME NEW m \in DOMAIN vault' \ client_nodes', vault'[m].node_type = PlayerType
            PROVE  /\ vault'[m].uuid_1 \in Uuid
                   /\ \E i \in DOMAIN players'[vault'[m].uuid_1] :
                        players'[vault'[m].uuid_1][i].player_id = m
        <4>1. CASE m = node_index
          <5>1. player.player_id = node_index
            BY DEF player
          <5> QED
            BY <4>1, <5>1, <2>1, <2>2, <2>3, <2>7
        <4>2. CASE m # node_index
          <5>1. m \in DOMAIN vault \ client_nodes /\ vault'[m] = vault[m]
            BY <4>2, <2>3, <2>4
          <5>2. PICK i \in DOMAIN players[vault[m].uuid_1] :
                  vault[m].uuid_1 \in Uuid /\ players[vault[m].uuid_1][i].player_id = m
            BY <5>1, <3>2 DEF IInv, PlayersMatchNodes
          <5>3. /\ i \in DOMAIN players'[vault[m].uuid_1]
                /\ players'[vault[m].uuid_1][i] = players[vault[m].uuid_1][i]
            BY <5>2, <2>7
          <5> QED
            BY <5>1, <5>2, <5>3
        <4> QED
          BY <4>1, <4>2
      <3> QED
        BY <3>1, <3>2 DEF PlayersMatchNodes
    <2>13. LookupsHitOwnNodes'
      <3>1. vault'[node_index].node_type = 2
        BY <2>2, <2>3 DEF PlayerType
      <3> QED
        BY <3>1, <2>3, <2>4, LookupsKept DEF IInv, SystemType, PlayerInfoListType
    <2>14. OnlineIsLocated'
      BY <2>2, <2>3, <2>4 DEF IInv, OnlineIsLocated, PlayerType, PlayerInfoType
    <2> QED
      BY <2>4, <2>8, <2>9, <2>10, <2>11, <2>12, <2>13, <2>14 DEF IInv
  <1>4. ASSUME NEW u \in Uuid, AddGameServer(u), UNCHANGED client_nodes PROVE IInv'
    <2>1. /\ game_index \notin DOMAIN game_servers
          /\ DOMAIN game_servers' = DOMAIN game_servers \cup {game_index}
          /\ game_servers'[game_index] = u
          /\ \A i \in DOMAIN game_servers : game_servers'[i] = game_servers[i]
          /\ game_index \in Nat /\ game_index' = game_index + 1
          /\ reply' = "NetSuccess"
      BY <1>4 DEF AddGameServer, insert, IInv, TypeOK, FreshIds
    <2>2. UNCHANGED <<accounts, players, vault, node_refs, node_index, client_nodes>>
      BY <1>4 DEF AddGameServer
    <2>3. TypeOK'
      BY <2>1, <2>2 DEF IInv, TypeOK, NetResult
    <2>4. FreshIds'
      BY <2>1, <2>2 DEF IInv, TypeOK, FreshIds
    <2> QED
      BY <2>1, <2>2, <2>3, <2>4 DEF IInv, NamesUnique, AtMostMaxPlayers, PlayersMatchNodes,
         LookupsHitOwnNodes, get_system_node, get_all_players_node, OnlineIsLocated
  <1>5. ASSUME NEW node \in NewNodes, CreateNode(node), UNCHANGED client_nodes PROVE IInv'
    <2>1. /\ node \in Node
          /\ node.node_type \in {22, 23, 30}
          /\ node.node_type = 30 => node.int32_1 = 2
          /\ node.node_type = 23 => node.int32_1 = 0
      <3>1. CASE node = VaultFolderNode_new(UserDefined)
        BY <3>1, ConstructorTypes DEF FolderType, UserDefined
      <3>2. CASE node = VaultPlayerInfoListNode_new(BuddyListFolder)
        BY <3>2, ConstructorTypes DEF PlayerInfoListType, BuddyListFolder
      <3>3. ASSUME NEW p \in PlayerIds, node = VaultPlayerInfoNode_new(p, vault[p].istring64_1)
            PROVE  node \in Node /\ node.node_type = 23 /\ node.int32_1 = 0
        <4>1. p \in Nat /\ vault[p].istring64_1 \in Name \cup {NoName}
          BY DEF PlayerIds, IInv, TypeOK, Node
        <4> QED
          BY <4>1, <3>3, ConstructorTypes DEF PlayerInfoType
      <3> QED
        BY <3>1, <3>2, <3>3 DEF NewNodes
    <2>2. /\ node_index \notin DOMAIN vault
          /\ create_node_result = "NetSuccess"
          /\ DOMAIN vault' = DOMAIN vault \cup {node_index}
          /\ vault'[node_index] = node
          /\ \A m \in DOMAIN vault : vault'[m] = vault[m]
          /\ DOMAIN vault' \subseteq Nat
          /\ \A m \in DOMAIN vault' : vault'[m] \in Node /\ m < node_index'
          /\ node_index' \in Nat
      BY <1>5, <2>1, CreateNodeFacts DEF CreateNode
    <2>3. /\ reply' = "NetSuccess"
          /\ UNCHANGED <<accounts, players, game_servers, game_index, node_refs, client_nodes>>
      BY <1>5, <2>2 DEF CreateNode
    <2>4. TypeOK' /\ FreshIds'
      BY <2>2, <2>3 DEF IInv, TypeOK, FreshIds, NetResult
    <2>5. NamesUnique' /\ AtMostMaxPlayers'
      BY <2>3 DEF IInv, NamesUnique, AtMostMaxPlayers
    <2>6. PlayersMatchNodes'
      BY <2>1, <2>2, <2>3 DEF IInv, PlayersMatchNodes, PlayerType
    <2>7. LookupsHitOwnNodes'
      BY <2>1, <2>2, <2>3, LookupsKept DEF IInv, SystemType, PlayerInfoListType, AllPlayersFolder
    <2>8. OnlineIsLocated'
      BY <2>1, <2>2, <2>3 DEF IInv, OnlineIsLocated, PlayerInfoType
    <2> QED
      BY <2>3, <2>4, <2>5, <2>6, <2>7, <2>8 DEF IInv
  <1>11. ASSUME NEW node \in ClientNode, VaultNodeCreate(node) PROVE IInv'
    <2>1. /\ node_index \notin DOMAIN vault
          /\ create_node_result = "NetSuccess"
          /\ DOMAIN vault' = DOMAIN vault \cup {node_index}
          /\ \A m \in DOMAIN vault : vault'[m] = vault[m]
          /\ DOMAIN vault' \subseteq Nat
          /\ \A m \in DOMAIN vault' : vault'[m] \in Node /\ m < node_index'
          /\ node_index' \in Nat
      BY <1>11, ClientNodeAssumption, CreateNodeFacts DEF VaultNodeCreate, CreateNode
    <2>2. /\ reply' = "NetSuccess"
          /\ client_nodes' = client_nodes \cup {node_index}
          /\ UNCHANGED <<accounts, players, game_servers, game_index, node_refs>>
      BY <1>11, <2>1 DEF VaultNodeCreate, CreateNode
    <2>3. DOMAIN vault' \ client_nodes' = DOMAIN vault \ client_nodes
      BY <2>1, <2>2
    <2>4. TypeOK' /\ FreshIds'
      BY <2>1, <2>2 DEF IInv, TypeOK, FreshIds, NetResult
    <2>5. NamesUnique' /\ AtMostMaxPlayers'
      BY <2>2 DEF IInv, NamesUnique, AtMostMaxPlayers
    <2>6. PlayersMatchNodes'
      BY <2>1, <2>2, <2>3 DEF IInv, PlayersMatchNodes
    <2>7. LookupsHitOwnNodes'
      BY <2>1, <2>2, LookupsKept DEF IInv
    <2>8. OnlineIsLocated'
      BY <2>1, <2>3 DEF IInv, OnlineIsLocated
    <2> QED
      BY <2>4, <2>5, <2>6, <2>7, <2>8 DEF IInv
  <1>6. CASE UpdateNodeNotFound(node_index) /\ UNCHANGED client_nodes
    BY <1>6 DEF UpdateNodeNotFound, db, IInv, TypeOK, FreshIds, NamesUnique,
       AtMostMaxPlayers, PlayersMatchNodes, LookupsHitOwnNodes, get_system_node,
       get_all_players_node, OnlineIsLocated, NetResult
  <1>7. ASSUME NEW id \in InfoIds, NEW node \in SignUpdates, UpdateNode(id, node),
               UNCHANGED client_nodes
        PROVE  IInv'
    <2>1. /\ id \in DOMAIN vault /\ vault[id].node_type = 23
          /\ vault[id] \in Node
      BY DEF InfoIds, IInv, TypeOK, PlayerInfoType
    <2>2. /\ vault' = [vault EXCEPT ![id] = update_node(vault[id], node)]
          /\ reply' = "NetSuccess"
          /\ UNCHANGED <<accounts, players, game_servers, game_index, node_refs, node_index,
                         client_nodes>>
      BY <1>7 DEF UpdateNode
    <2>3. /\ DOMAIN vault' = DOMAIN vault
          /\ vault'[id] \in Node /\ vault'[id].node_type = 23
          /\ vault'[id].int32_1 = 1 => vault'[id].string64_1 # EmptyString
          /\ \A m \in DOMAIN vault : m # id => vault'[m] = vault[m]
      BY <2>1, <2>2, SignUpdateFacts
    <2>4. TypeOK' /\ FreshIds'
      BY <2>2, <2>3 DEF IInv, TypeOK, FreshIds, NetResult
    <2>5. NamesUnique' /\ AtMostMaxPlayers'
      BY <2>2 DEF IInv, NamesUnique, AtMostMaxPlayers
    <2>6. PlayersMatchNodes'
      BY <2>1, <2>2, <2>3 DEF IInv, PlayersMatchNodes, PlayerType
    <2>7. LookupsHitOwnNodes'
      <3>1. get_system_node' = get_system_node
        BY <2>1, <2>3 DEF get_system_node, SystemType
      <3>2. get_all_players_node' = get_all_players_node
        BY <2>1, <2>3 DEF get_all_players_node, PlayerInfoListType
      <3> QED
        BY <2>2, <3>1, <3>2 DEF IInv, LookupsHitOwnNodes
    <2>8. OnlineIsLocated'
      BY <2>2, <2>3 DEF IInv, OnlineIsLocated
    <2> QED
      BY <2>2, <2>4, <2>5, <2>6, <2>7, <2>8 DEF IInv
  <1>8. ASSUME NEW r \in Ref, NEW b \in BOOLEAN, RefNode(r, b), UNCHANGED client_nodes
        PROVE  IInv'
    <2>1. r \in NodeRef
      BY RefAssumption DEF NodeRef
    <2> QED
      BY <1>8, <2>1 DEF RefNode, IInv, TypeOK, FreshIds, NamesUnique, AtMostMaxPlayers,
         PlayersMatchNodes, LookupsHitOwnNodes, get_system_node, get_all_players_node,
         OnlineIsLocated, NetResult
  <1>9. CASE UNCHANGED vars
    <2>1. TypeOK' /\ FreshIds'
      BY <1>9 DEF vars, IInv, TypeOK, FreshIds
    <2>2. NamesUnique' /\ AtMostMaxPlayers'
      BY <1>9 DEF vars, IInv, NamesUnique, AtMostMaxPlayers
    <2>3. PlayersMatchNodes' /\ OnlineIsLocated'
      BY <1>9 DEF vars, IInv, PlayersMatchNodes, OnlineIsLocated
    <2>4. LookupsHitOwnNodes'
      BY <1>9 DEF vars, IInv, LookupsHitOwnNodes, get_system_node, get_all_players_node
    <2> QED
      BY <2>1, <2>2, <2>3, <2>4 DEF IInv
  <1> QED
    BY <1>1, <1>2, <1>3, <1>4, <1>5, <1>6, <1>7, <1>8, <1>9, <1>10, <1>11
       DEF Next, process_vault_message

(* IInv holds throughout.                                                  *)
LEMMA IInvInvariant == Spec => []IInv
  BY InitIInv, NextIInv, PTL DEF Spec

(* Every variable of the vault task keeps its type.                        *)
THEOREM TypeCorrect == Spec => []TypeOK
  BY IInvInvariant, PTL DEF IInv

(* process_vault_message checks a name and enters the player in one go, so *)
(* no two players ever share a name, whatever its case.                    *)
THEOREM NamesAreUnique == Spec => []NamesUnique
  BY IInvInvariant, PTL DEF IInv

(* The check against MAX_PLAYERS bounds every account's list of players.   *)
THEOREM PlayersAreBounded == Spec => []AtMostMaxPlayers
  BY IInvInvariant, PTL DEF IInv

(* The players table and the Player nodes that no client made up agree     *)
(* after every message, whatever nodes clients create.                     *)
THEOREM PlayersAgree == Spec => []PlayersMatchNodes
  BY IInvInvariant, PTL DEF IInv

(* The first-hit lookups of the backend hit init_vault's node, and no      *)
(* other node that the server itself created or updated.                   *)
THEOREM LookupsFindOwnNodes == Spec => []LookupsHitOwnNodes
  BY IInvInvariant, PTL DEF IInv

(* The nodes that the API service lists as online are PlayerInfo nodes,    *)
(* and have a location if no client created them.                          *)
THEOREM OnlineListingIsSound == Spec => []OnlineHaveLocation
  <1>1. IInv => OnlineHaveLocation
    <2> SUFFICES ASSUME IInv, NEW n \in find_nodes(VaultPlayerInfoNode_new_lookup(1))
                 PROVE  /\ vault[n].node_type = PlayerInfoType
                        /\ n \notin client_nodes => vault[n].string64_1 # EmptyString
      BY DEF OnlineHaveLocation
    <2> DEFINE t == VaultPlayerInfoNode_new_lookup(1)
    <2>1. t.fields = {"node_type", "int32_1"} /\ t.node_type = PlayerInfoType /\ t.int32_1 = 1
      BY DEF VaultPlayerInfoNode_new_lookup, DefaultNode
    <2>2. n \in DOMAIN vault /\ node_match(t, vault[n]) /\ vault[n] \in Node
      BY DEF find_nodes, IInv, TypeOK
    <2> HIDE DEF t
    <2>3. vault[n]["node_type"] = t["node_type"] /\ vault[n]["int32_1"] = t["int32_1"]
      BY <2>1, <2>2 DEF node_match
    <2> QED
      BY <2>1, <2>2, <2>3 DEF IInv, OnlineIsLocated
  <1> QED
    BY <1>1, IInvInvariant, PTL

(* create_node and add_game_server never find their id taken.              *)
THEOREM IdsAreHandedOutOnce == Spec => []NoDuplicateIds
  <1>1. IInv => NoDuplicateIds
    BY DEF IInv, TypeOK, FreshIds, NoDuplicateIds
  <1> QED
    BY <1>1, IInvInvariant, PTL

(* A message that process_vault_message answers with an error leaves the   *)
(* database as it was: the error answers of create_node and                *)
(* add_game_server, which come after the insert, are never given.          *)
THEOREM RejectionsLeaveNoTrace == Spec => RejectionLeavesNoTrace
  <1>1. IInv /\ [Next]_vars
          => [reply' # "NetSuccess" => UNCHANGED db]_vars
    <2> SUFFICES ASSUME IInv, Next, reply' # "NetSuccess"
                 PROVE  UNCHANGED db
      BY DEF vars
    <2>1. node_index \notin DOMAIN vault /\ game_index \notin DOMAIN game_servers
      BY DEF IInv, TypeOK, FreshIds
    <2>2. ASSUME NEW u, NEW n, NEW s, CreatePlayer(u, n, s) PROVE FALSE
      BY <2>1, <2>2 DEF CreatePlayer, create_node_result
    <2>3. ASSUME NEW u, AddGameServer(u) PROVE FALSE
      BY <2>1, <2>3 DEF AddGameServer
    <2>4. ASSUME NEW node, CreateNode(node) PROVE FALSE
      BY <2>1, <2>4 DEF CreateNode, create_node_result
    <2> QED
      BY <2>2, <2>3, <2>4 DEF Next, process_vault_message, VaultNodeCreate, GetAccount,
         GetAccountFails, CreatePlayerRejected, UpdateNodeNotFound, UpdateNode, RefNode
  <1> QED
    BY <1>1, IInvInvariant, PTL DEF Spec, RejectionLeavesNoTrace

(* A node that a message changes is announced with NodeChanged, and what   *)
(* NodeAdded announces is stored: creates never overwrite, updates and     *)
(* references broadcast what they wrote.                                   *)
THEOREM ChangesAreAnnounced == Spec => ChangesAnnounced
  <1> DEFINE Announced ==
        /\ \A n \in DOMAIN vault :
             (n \notin DOMAIN vault' \/ vault'[n] # vault[n]) => NodeChanged(n) \in sent'
        /\ \A b \in sent' : b.msg = "NodeAdded" =>
             [parent |-> b.parent_id, child |-> b.child_id, owner |-> b.owner_id] \in node_refs'
  <1>1. ASSUME IInv, Next PROVE Announced
    <2>1. ASSUME vault' = vault, sent' = {} PROVE Announced
      BY <2>1
    <2>2. ASSUME NEW node, create_node(node), sent' = {} PROVE Announced
      <3>1. node_index \notin DOMAIN vault
        BY <1>1 DEF IInv, TypeOK, FreshIds
      <3> QED
        BY <2>2, <3>1 DEF create_node, insert
    <2>3. ASSUME NEW id \in InfoIds, NEW node, UpdateNode(id, node) PROVE Announced
      <3>1. sent' = {[msg |-> "NodeChanged", node_id |-> id]}
        BY <2>3 DEF UpdateNode, announce, NodeChanged
      <3>2. \A b \in sent' : b.msg # "NodeAdded"
        BY <3>1
      <3>3. NodeChanged(id) \in sent'
        BY <3>1 DEF NodeChanged
      <3>4. DOMAIN vault' = DOMAIN vault /\ \A n \in DOMAIN vault : n # id => vault'[n] = vault[n]
        BY <2>3 DEF UpdateNode
      <3> QED
        BY <3>2, <3>3, <3>4
    <2>4. ASSUME NEW r \in Ref, NEW b \in BOOLEAN, RefNode(r, b) PROVE Announced
      <3>1. /\ vault' = vault /\ r \in node_refs'
            /\ sent' \subseteq {NodeAdded(r)}
        BY <2>4 DEF RefNode
      <3>2. [parent |-> NodeAdded(r).parent_id, child |-> NodeAdded(r).child_id,
             owner |-> NodeAdded(r).owner_id] = r
        BY RefAssumption DEF NodeAdded
      <3> QED
        BY <3>1, <3>2
    <2> HIDE DEF Announced
    <2> QED
      BY <1>1, <2>1, <2>2, <2>3, <2>4 DEF Next, process_vault_message, VaultNodeCreate,
         GetAccount, GetAccountFails, CreatePlayerRejected, CreatePlayer, AddGameServer, CreateNode, UpdateNodeNotFound, db
  <1>2. IInv /\ [Next]_vars => [Announced]_vars
    BY <1>1
  <1> QED
    BY <1>2, IInvInvariant, PTL DEF Spec, ChangesAnnounced

-----------------------------------------------------------------------------
(* A field that is not in the mask has its default.                        *)
Masked(node) ==
    /\ "node_type" \notin node.fields => node.node_type = DefaultNode.node_type
    /\ "int32_1" \notin node.fields => node.int32_1 = DefaultNode.int32_1
    /\ "uint32_1" \notin node.fields => node.uint32_1 = DefaultNode.uint32_1
    /\ "uuid_1" \notin node.fields => node.uuid_1 = DefaultNode.uuid_1
    /\ "string64_1" \notin node.fields => node.string64_1 = DefaultNode.string64_1
    /\ "istring64_1" \notin node.fields => node.istring64_1 = DefaultNode.istring64_1

MaskInv == \A n \in DOMAIN vault : Masked(vault[n])

Cell(node, f)     == [kind |-> FieldKind[f], value |-> node[f]]
Past(at, node, f) == IF f \in node.fields THEN at + 1 ELSE at

(* With one more field, d has what s has, and then the field, if it is in  *)
(* the mask, where it is read.                                             *)
Adds(S, s, node, f, d) ==
    /\ d \in Seq(S) /\ Len(s) \in Nat
    /\ Len(d) + 1 = Past(Len(s) + 1, node, f)
    /\ \A i \in 1..Len(s) : d[i] = s[i]
    /\ f \in node.fields => d[Len(s) + 1] = Cell(node, f)

(* f_write adds a field.                                                   *)
LEMMA OneField ==
    ASSUME NEW S, NEW s \in Seq(S), NEW node, NEW f, Cell(node, f) \in S
    PROVE  Adds(S, s, node, f, s \o f_write(node, f))
  <1>1. CASE f \in node.fields
    <2>1. f_write(node, f) = <<Cell(node, f)>>
      BY <1>1 DEF f_write, Cell
    <2>2. s \o <<Cell(node, f)>> = Append(s, Cell(node, f))
      OBVIOUS
    <2> QED
      BY <1>1, <2>1, <2>2 DEF Past, Adds
  <1>2. CASE f \notin node.fields
    BY <1>2 DEF f_write, Past, Adds
  <1> QED
    BY <1>1, <1>2

(* What f_read finds where a field was written.                            *)
LEMMA OneRead ==
    ASSUME NEW blob, NEW node, NEW f, NEW at, blob.fields = node.fields,
           f \in node.fields => blob.data[at] = Cell(node, f),
           f \notin node.fields => node[f] = DefaultNode[f]
    PROVE  f_read(blob, f, at) = node[f]
  BY DEF f_read, Cell

(* stream_read gives back what stream_write wrote of a masked node.        *)
LEMMA BlobRoundTrip ==
    ASSUME NEW node \in Node, Masked(node)
    PROVE  stream_read(stream_write(node)) = node
  <1> DEFINE S  == {Cell(node, f) : f \in Field}
             d1 == f_write(node, "node_type")
             d2 == d1 \o f_write(node, "int32_1")
             d3 == d2 \o f_write(node, "uint32_1")
             d4 == d3 \o f_write(node, "uuid_1")
             d5 == d4 \o f_write(node, "string64_1")
             d6 == d5 \o f_write(node, "istring64_1")
             blob == stream_write(node)
             p2 == Past(1, node, "node_type")
             p3 == Past(p2, node, "int32_1")
             p4 == Past(p3, node, "uint32_1")
             p5 == Past(p4, node, "uuid_1")
             p6 == Past(p5, node, "string64_1")
  <1>1. \A f \in Field : Cell(node, f) \in S
    OBVIOUS
  <1>2. /\ "node_type" \in Field /\ "int32_1" \in Field /\ "uint32_1" \in Field
        /\ "uuid_1" \in Field /\ "string64_1" \in Field /\ "istring64_1" \in Field
    BY DEF Field
  <1>9. blob.fields = node.fields /\ blob.data = d6
    BY DEF stream_write
  <1>10. stream_read(blob) =
          [fields      |-> blob.fields,
           node_type   |-> f_read(blob, "node_type", 1),
           int32_1     |-> f_read(blob, "int32_1", p2),
           uint32_1    |-> f_read(blob, "uint32_1", p3),
           uuid_1      |-> f_read(blob, "uuid_1", p4),
           string64_1  |-> f_read(blob, "string64_1", p5),
           istring64_1 |-> f_read(blob, "istring64_1", p6)]
    <2> HIDE DEF blob
    <2> QED
      BY <1>9 DEF stream_read, Past
  <1> HIDE DEF S, blob
  <1>3. /\ d1 \in Seq(S) /\ Len(d1) \in Nat /\ Len(d1) + 1 = p2
        /\ "node_type" \in node.fields => d1[1] = Cell(node, "node_type")
    <2>1. Cell(node, "node_type") \in S
      BY <1>1, <1>2
    <2>2. CASE "node_type" \in node.fields
      <3>1. d1 = <<Cell(node, "node_type")>>
        BY <2>2 DEF f_write, Cell
      <3> HIDE DEF d1
      <3> QED
        BY <2>1, <2>2, <3>1 DEF Past
    <2>3. CASE "node_type" \notin node.fields
      <3>1. d1 = <<>>
        BY <2>3 DEF f_write
      <3> HIDE DEF d1
      <3> QED
        BY <2>3, <3>1 DEF Past
    <2> QED
      BY <2>2, <2>3
  <1>4. Adds(S, d1, node, "int32_1", d2)
    <2> HIDE DEF d1
    <2>1. d1 \in Seq(S) /\ Cell(node, "int32_1") \in S
      BY <1>1, <1>2, <1>3
    <2> QED
      BY <2>1, OneField
  <1>5. Adds(S, d2, node, "uint32_1", d3)
    <2> HIDE DEF d2
    <2>1. d2 \in Seq(S) /\ Cell(node, "uint32_1") \in S
      BY <1>1, <1>2, <1>4 DEF Adds
    <2> QED
      BY <2>1, OneField
  <1>6. Adds(S, d3, node, "uuid_1", d4)
    <2> HIDE DEF d3
    <2>1. d3 \in Seq(S) /\ Cell(node, "uuid_1") \in S
      BY <1>1, <1>2, <1>5 DEF Adds
    <2> QED
      BY <2>1, OneField
  <1>7. Adds(S, d4, node, "string64_1", d5)
    <2> HIDE DEF d4
    <2>1. d4 \in Seq(S) /\ Cell(node, "string64_1") \in S
      BY <1>1, <1>2, <1>6 DEF Adds
    <2> QED
      BY <2>1, OneField
  <1>8. Adds(S, d5, node, "istring64_1", d6)
    <2> HIDE DEF d5
    <2>1. d5 \in Seq(S) /\ Cell(node, "istring64_1") \in S
      BY <1>1, <1>2, <1>7 DEF Adds
    <2> QED
      BY <2>1, OneField
  <1> HIDE DEF d1, d2, d3, d4, d5, d6
  <1>11. /\ Len(d2) \in Nat /\ Len(d3) \in Nat /\ Len(d4) \in Nat /\ Len(d5) \in Nat
         /\ Len(d2) + 1 = p3 /\ Len(d3) + 1 = p4 /\ Len(d4) + 1 = p5 /\ Len(d5) + 1 = p6
    BY <1>3, <1>4, <1>5, <1>6, <1>7, <1>8 DEF Adds
  <1>12. /\ Len(d1) <= Len(d2) /\ Len(d2) <= Len(d3) /\ Len(d3) <= Len(d4) /\ Len(d4) <= Len(d5)
    <2> HIDE DEF p2, p3, p4, p5, p6
    <2>1. Len(d1) <= Len(d2)
      BY <1>3, <1>4, <1>11 DEF Past, Adds
    <2>2. Len(d2) <= Len(d3)
      BY <1>5, <1>11 DEF Past, Adds
    <2>3. Len(d3) <= Len(d4)
      BY <1>6, <1>11 DEF Past, Adds
    <2>4. Len(d4) <= Len(d5)
      BY <1>7, <1>11 DEF Past, Adds
    <2> QED
      BY <2>1, <2>2, <2>3, <2>4
  <1>13. \A i \in 1..Len(d5) : d6[i] = d5[i]
    BY <1>8 DEF Adds
  <1>14. \A i \in 1..Len(d4) : d6[i] = d4[i]
    BY <1>13, <1>7, <1>11, <1>12 DEF Adds
  <1>15. \A i \in 1..Len(d3) : d6[i] = d3[i]
    BY <1>14, <1>6, <1>11, <1>12 DEF Adds
  <1>16. \A i \in 1..Len(d2) : d6[i] = d2[i]
    BY <1>15, <1>5, <1>11, <1>12 DEF Adds
  <1>17. \A i \in 1..Len(d1) : d6[i] = d1[i]
    BY <1>16, <1>4, <1>3, <1>11, <1>12 DEF Adds
  <1>18. "node_type" \in node.fields => d6[1] = Cell(node, "node_type")
    BY <1>3, <1>17 DEF Past
  <1>19. "int32_1" \in node.fields => d6[p2] = Cell(node, "int32_1")
    BY <1>3, <1>4, <1>11, <1>16 DEF Past, Adds
  <1>20. "uint32_1" \in node.fields => d6[p3] = Cell(node, "uint32_1")
    BY <1>5, <1>11, <1>15 DEF Past, Adds
  <1>21. "uuid_1" \in node.fields => d6[p4] = Cell(node, "uuid_1")
    BY <1>6, <1>11, <1>14 DEF Past, Adds
  <1>22. "string64_1" \in node.fields => d6[p5] = Cell(node, "string64_1")
    BY <1>7, <1>11, <1>13 DEF Past, Adds
  <1>23. "istring64_1" \in node.fields => d6[p6] = Cell(node, "istring64_1")
    BY <1>8, <1>11 DEF Adds
  <1> HIDE DEF p2, p3, p4, p5, p6
  <1>24. /\ "node_type" \notin node.fields => node["node_type"] = DefaultNode["node_type"]
         /\ "int32_1" \notin node.fields => node["int32_1"] = DefaultNode["int32_1"]
         /\ "uint32_1" \notin node.fields => node["uint32_1"] = DefaultNode["uint32_1"]
         /\ "uuid_1" \notin node.fields => node["uuid_1"] = DefaultNode["uuid_1"]
         /\ "string64_1" \notin node.fields => node["string64_1"] = DefaultNode["string64_1"]
         /\ "istring64_1" \notin node.fields => node["istring64_1"] = DefaultNode["istring64_1"]
    BY DEF Masked
  <1>25. /\ f_read(blob, "node_type", 1) = node["node_type"]
         /\ f_read(blob, "int32_1", p2) = node["int32_1"]
         /\ f_read(blob, "uint32_1", p3) = node["uint32_1"]
         /\ f_read(blob, "uuid_1", p4) = node["uuid_1"]
         /\ f_read(blob, "string64_1", p5) = node["string64_1"]
         /\ f_read(blob, "istring64_1", p6) = node["istring64_1"]
    <2>1. f_read(blob, "node_type", 1) = node["node_type"]
      BY <1>9, <1>18, <1>24 DEF f_read, Cell
    <2>2. f_read(blob, "int32_1", p2) = node["int32_1"]
      BY <1>9, <1>19, <1>24, OneRead
    <2>3. f_read(blob, "uint32_1", p3) = node["uint32_1"]
      BY <1>9, <1>20, <1>24, OneRead
    <2>4. f_read(blob, "uuid_1", p4) = node["uuid_1"]
      BY <1>9, <1>21, <1>24, OneRead
    <2>5. f_read(blob, "string64_1", p5) = node["string64_1"]
      BY <1>9, <1>22, <1>24, OneRead
    <2>6. f_read(blob, "istring64_1", p6) = node["istring64_1"]
      BY <1>9, <1>23, <1>24, OneRead
    <2> QED
      BY <2>1, <2>2, <2>3, <2>4, <2>5, <2>6
  <1>26. stream_read(blob) = node
    BY <1>9, <1>10, <1>25 DEF Node
  <1> QED
    BY <1>26 DEF blob

(* The constructors set the fields of their mask and no others.            *)
LEMMA ConstructorMasks ==
    /\ Masked(VaultSystemNode_new)
    /\ \A f \in Nat : Masked(VaultFolderNode_new(f)) /\ Masked(VaultPlayerInfoListNode_new(f))
    /\ \A u \in Uuid, n \in Name, s \in AvatarShape : Masked(VaultPlayerNode_new(u, n, s))
    /\ \A p \in Nat, n \in Name \cup {NoName} : Masked(VaultPlayerInfoNode_new(p, n))
  <1>1. Masked(VaultSystemNode_new)
    BY DEF VaultSystemNode_new, Masked, DefaultNode
  <1>2. ASSUME NEW f \in Nat PROVE Masked(VaultFolderNode_new(f))
    BY DEF VaultFolderNode_new, Masked, DefaultNode
  <1>3. ASSUME NEW f \in Nat PROVE Masked(VaultPlayerInfoListNode_new(f))
    BY DEF VaultPlayerInfoListNode_new, VaultFolderNode_new, Masked, DefaultNode
  <1>4. ASSUME NEW u \in Uuid, NEW n \in Name, NEW s \in AvatarShape
        PROVE  Masked(VaultPlayerNode_new(u, n, s))
    BY DEF VaultPlayerNode_new, Masked, DefaultNode
  <1>5. ASSUME NEW p \in Nat, NEW n \in Name \cup {NoName}
        PROVE  Masked(VaultPlayerInfoNode_new(p, n))
    BY DEF VaultPlayerInfoNode_new, Masked, DefaultNode
  <1> QED
    BY <1>1, <1>2, <1>3, <1>4, <1>5

(* update_node takes over values together with their bits of the mask.     *)
LEMMA UpdateMasks ==
    ASSUME NEW old \in Node, Masked(old), NEW new
    PROVE  Masked(update_node(old, new))
  BY DEF update_node, Masked

(* Every message keeps the nodes masked.                                   *)
LEMMA NextMaskInv == IInv /\ MaskInv /\ [Next]_vars => MaskInv'
  <1> SUFFICES ASSUME IInv, MaskInv, [Next]_vars PROVE MaskInv'
    OBVIOUS
  <1>1. ASSUME vault' = vault PROVE MaskInv'
    BY <1>1 DEF MaskInv
  <1>2. ASSUME NEW node \in Node, Masked(node), create_node(node) PROVE MaskInv'
    <2>1. /\ DOMAIN vault' = DOMAIN vault \cup {node_index}
          /\ vault'[node_index] = node
          /\ \A n \in DOMAIN vault : vault'[n] = vault[n]
      BY <1>2, CreateNodeFacts
    <2> QED
      BY <1>2, <2>1 DEF MaskInv
  <1>3. ASSUME NEW u \in AccountIds, NEW n \in Name, NEW s \in AvatarShape, CreatePlayer(u, n, s)
        PROVE  MaskInv'
    <2>1. u \in Uuid
      BY DEF AccountIds, IInv, TypeOK, AccountInfo
    <2>2. PICK node : node = VaultPlayerNode_new(u, n, s)
      OBVIOUS
    <2>3. node \in Node /\ Masked(node)
      BY <2>1, <2>2, ConstructorTypes, ConstructorMasks
    <2>4. create_node(node)
      BY <1>3, <2>2 DEF CreatePlayer
    <2> QED
      BY <1>2, <2>3, <2>4
  <1>4. ASSUME NEW node \in NewNodes, CreateNode(node) PROVE MaskInv'
    <2>1. CASE node = VaultFolderNode_new(UserDefined) \/ node = VaultPlayerInfoListNode_new(BuddyListFolder)
      BY <1>2, <1>4, <2>1, ConstructorTypes, ConstructorMasks
         DEF CreateNode, UserDefined, BuddyListFolder
    <2>2. ASSUME NEW p \in PlayerIds, node = VaultPlayerInfoNode_new(p, vault[p].istring64_1)
          PROVE  MaskInv'
      <3>1. p \in Nat /\ vault[p].istring64_1 \in Name \cup {NoName}
        BY DEF PlayerIds, IInv, TypeOK, Node
      <3>2. node \in Node /\ Masked(node)
        BY <2>2, <3>1, ConstructorTypes, ConstructorMasks
      <3> QED
        BY <1>2, <1>4, <3>2 DEF CreateNode
    <2> QED
      BY <2>1, <2>2 DEF NewNodes
  <1>5. ASSUME NEW id \in InfoIds, NEW node \in SignUpdates, UpdateNode(id, node) PROVE MaskInv'
    <2>1. id \in DOMAIN vault /\ vault[id] \in Node /\ Masked(vault[id])
      BY DEF InfoIds, IInv, TypeOK, MaskInv
    <2>2. vault' = [vault EXCEPT ![id] = update_node(vault[id], node)]
      BY <1>5 DEF UpdateNode
    <2>3. Masked(update_node(vault[id], node))
      BY <2>1, UpdateMasks
    <2> QED
      BY <2>1, <2>2, <2>3 DEF MaskInv
  <1>6. ASSUME NEW node \in ClientNode, VaultNodeCreate(node) PROVE MaskInv'
    <2>1. node \in Node /\ Masked(node)
      BY ClientNodeAssumption DEF Masked, Node, Field
    <2> QED
      BY <1>2, <1>6, <2>1 DEF VaultNodeCreate, CreateNode
  <1> QED
    BY <1>1, <1>3, <1>4, <1>5, <1>6 DEF Next, process_vault_message, vars, db, GetAccount,
       GetAccountFails, CreatePlayerRejected, AddGameServer, UpdateNodeNotFound, RefNode

(* What a client is sent of a node is the node: update_node and the        *)
(* constructors never leave a value outside the mask, and stream_read      *)
(* finds every field of the mask where stream_write put it.                *)
THEOREM BlobsAreFaithful == Spec => []BlobsKeepNodes
  <1>1. Init => MaskInv
    <2> SUFFICES ASSUME Init PROVE MaskInv
      OBVIOUS
    <2>1. /\ DOMAIN vault = {1000, 1001, 1002}
          /\ vault[1000] = VaultSystemNode_new
          /\ vault[1001] = VaultFolderNode_new(GlobalInboxFolder)
          /\ vault[1002] = VaultPlayerInfoListNode_new(AllPlayersFolder)
      BY DEF Init, init_vault, SystemNode, GlobalInbox, AllPlayersNode, FirstNodeId
    <2>2. GlobalInboxFolder \in Nat /\ AllPlayersFolder \in Nat
      BY DEF GlobalInboxFolder, AllPlayersFolder
    <2> QED
      BY <2>1, <2>2, ConstructorMasks DEF MaskInv
  <1>2. IInv /\ MaskInv => BlobsKeepNodes
    BY BlobRoundTrip DEF IInv, TypeOK, MaskInv, BlobsKeepNodes
  <1> QED
    BY <1>1, <1>2, NextMaskInv, IInvInvariant, PTL DEF Spec
=============================================================================
