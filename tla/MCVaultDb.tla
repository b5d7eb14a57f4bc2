----------------------------- MODULE MCVaultDb -----------------------------
(* VaultDb for TLC.  Of the names, ANN is ann in capitals.                 *)
EXTENDS VaultDb, TLC

CONSTANTS u1, u2, nil, ann, ANN, bob, noname

MCUuid == {u1, u2}
MCName == {ann, ANN, bob}
MCFold == [n \in MCName |-> IF n = ANN THEN ann ELSE n]

(* What clients make up: a second system node, a second All Players list,  *)
(* a Player node of somebody's account, and an info node that says online  *)
(* and has no location.                                                    *)
MCClientNode ==
    {VaultSystemNode_new, VaultPlayerInfoListNode_new(AllPlayersFolder)}
      \cup {VaultPlayerNode_new(u, ann, "male") : u \in MCUuid}
      \cup {[VaultPlayerInfoNode_new(FirstNodeId + 3, bob) EXCEPT
                 !.fields = @ \cup {"int32_1"}, !.int32_1 = 1]}

(* A reference that is there already, and one of nodes that may not exist  *)
(* yet.                                                                    *)
MCRef ==
    {[parent |-> SystemNode, child |-> GlobalInbox, owner |-> 0],
     [parent |-> FirstNodeId + 3, child |-> FirstNodeId + 4, owner |-> FirstNodeId + 3]}

Symmetry == Permutations({u1, u2})
=============================================================================
