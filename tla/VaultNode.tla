----------------------------- MODULE VaultNode -----------------------------
(***************************************************************************)
(* A vault node, src/src/vault/vault_node.rs, and the two operations of    *)
(* the in-memory backend that work on whole nodes, node_match and          *)
(* update_node of src/src/vault/db_memory.rs.                              *)
(*                                                                         *)
(* A node has a mask `fields` of the fields that were set, and a value for *)
(* every field: the default for a field that is not in the mask.  Of the   *)
(* code's 32 fields the model keeps the ones that the vault and auth       *)
(* servers look at; every other field is treated by the same macros        *)
(* (node_field!) and by the same line of node_match and update_node.       *)
(***************************************************************************)
EXTENDS Integers, Sequences, FiniteSets

CONSTANTS
    Uuid,       \* account and age UUIDs, the nil UUID excluded
    NilUuid,    \* Uuid::nil()
    Name,       \* account and player names
    NoName,     \* the empty string, in a name field
    Fold        \* UniCase: names that differ only in case have one image

ASSUME NilUuidAssumption == NilUuid \notin Uuid
ASSUME NoNameAssumption == NoName \notin Name
ASSUME FoldAssumption == Fold \in [Name -> Name]

-----------------------------------------------------------------------------
(* NodeType and StandardNode, with the numbers the code gives them.        *)

PlayerType         == 2
FolderType         == 22
PlayerInfoType     == 23
SystemType         == 24
PlayerInfoListType == 30

UserDefined        == 0
BuddyListFolder    == 2
AllPlayersFolder   == 12
GlobalInboxFolder  == 30

AvatarShape == {"male", "female"}

\* String::new()
EmptyString == "empty"

Field == {"node_type", "int32_1", "uint32_1", "uuid_1", "string64_1", "istring64_1"}

Node == [fields      : SUBSET Field,
         node_type   : Nat,
         int32_1     : Nat,
         uint32_1    : Nat,
         uuid_1      : Uuid \cup {NilUuid},
         string64_1  : {EmptyString, "Lobby"} \cup AvatarShape,
         istring64_1 : Name \cup {NoName}]

\* VaultNode::default()
DefaultNode == [fields      |-> {},
                node_type   |-> 0,
                int32_1     |-> 0,
                uint32_1    |-> 0,
                uuid_1      |-> NilUuid,
                string64_1  |-> EmptyString,
                istring64_1 |-> NoName]

-----------------------------------------------------------------------------
(* The constructors of vnode_access.rs that the servers use.               *)

VaultSystemNode_new ==
    [DefaultNode EXCEPT !.fields = {"node_type"}, !.node_type = SystemType]

\* A mistaken constructor, to show what the properties catch: set_uuid_1 is
\* forgotten.
VaultPlayerNode_new_unowned(account_id, player_name, avatar_shape) ==
    [DefaultNode EXCEPT !.fields = {"node_type", "string64_1", "istring64_1"},
                        !.node_type = PlayerType,
                        !.string64_1 = avatar_shape,
                        !.istring64_1 = player_name]

VaultPlayerNode_new(account_id, player_name, avatar_shape) ==
    [DefaultNode EXCEPT !.fields = {"node_type", "uuid_1", "string64_1", "istring64_1"},
                        !.node_type = PlayerType,
                        !.uuid_1 = account_id,
                        !.string64_1 = avatar_shape,
                        !.istring64_1 = player_name]

VaultFolderNode_new(folder_type) ==
    [DefaultNode EXCEPT !.fields = {"node_type", "int32_1"},
                        !.node_type = FolderType,
                        !.int32_1 = folder_type]

VaultPlayerInfoListNode_new(folder_type) ==
    [VaultFolderNode_new(folder_type) EXCEPT !.node_type = PlayerInfoListType]

VaultPlayerInfoNode_new(player_id, player_name) ==
    [DefaultNode EXCEPT !.fields = {"node_type", "uint32_1", "istring64_1"},
                        !.node_type = PlayerInfoType,
                        !.uint32_1 = player_id,
                        !.istring64_1 = player_name]

\* The update that signs a player in (online = 1) or out (online = 0).  Its
\* node id is an argument of UpdateNode here.
VaultPlayerInfoNode_new_update(online, age_instance_name) ==
    [DefaultNode EXCEPT !.fields = {"int32_1", "string64_1", "uuid_1"},
                        !.int32_1 = online,
                        !.string64_1 = age_instance_name]

\* The template with which the API service asks who is online.
VaultPlayerInfoNode_new_lookup(online) ==
    [DefaultNode EXCEPT !.fields = {"node_type", "int32_1"},
                        !.node_type = PlayerInfoType,
                        !.int32_1 = online]

-----------------------------------------------------------------------------
UniCase(name) == IF name \in Name THEN Fold[name] ELSE name

\* Every field of the template's mask has the template's value in the node;
\* istring64 fields are compared without regard to case.
node_match(template, node) ==
    \A f \in template.fields :
        IF f = "istring64_1" THEN UniCase(node[f]) = UniCase(template[f])
                             ELSE node[f] = template[f]

\* A mistaken update: one line copied and not adapted.
update_node_copied(old, new) ==
    [old EXCEPT !.fields = @ \cup new.fields,
                !.int32_1 = IF "int32_1" \in new.fields THEN new.int32_1 ELSE @,
                !.string64_1 = IF "string64_1" \in new.fields THEN new.istring64_1 ELSE @]

\* A mistaken update: the values without the mask.
update_node_unmasked(old, new) ==
    [f \in DOMAIN old |-> IF f \in new.fields THEN new[f] ELSE old[f]]

\* The old node, overridden by the fields of the new node's mask.
update_node(old, new) ==
    [fields      |-> old.fields \cup new.fields,
     node_type   |-> IF "node_type" \in new.fields THEN new.node_type ELSE old.node_type,
     int32_1     |-> IF "int32_1" \in new.fields THEN new.int32_1 ELSE old.int32_1,
     uint32_1    |-> IF "uint32_1" \in new.fields THEN new.uint32_1 ELSE old.uint32_1,
     uuid_1      |-> IF "uuid_1" \in new.fields THEN new.uuid_1 ELSE old.uuid_1,
     string64_1  |-> IF "string64_1" \in new.fields THEN new.string64_1 ELSE old.string64_1,
     istring64_1 |-> IF "istring64_1" \in new.fields THEN new.istring64_1 ELSE old.istring64_1]

-----------------------------------------------------------------------------
(* to_blob and from_blob: a node on its way to and from a client is its    *)
(* mask and the values of the fields in the mask, in the order in which    *)
(* stream_write and stream_read go through them.  A value is read as the   *)
(* kind of number, string or UUID that was written, or not at all.         *)

FieldKind == [node_type |-> "i32", int32_1 |-> "i32", uint32_1 |-> "u32", uuid_1 |-> "uuid",
              string64_1 |-> "string", istring64_1 |-> "string"]

(* The f_write macros: a field that is in the mask, and nothing otherwise. *)
f_write(node, f) ==
    IF f \in node.fields THEN <<[kind |-> FieldKind[f], value |-> node[f]]>> ELSE <<>>

stream_write(node) ==
    [fields |-> node.fields,
     data   |-> f_write(node, "node_type") \o f_write(node, "int32_1")
                  \o f_write(node, "uint32_1") \o f_write(node, "uuid_1")
                  \o f_write(node, "string64_1") \o f_write(node, "istring64_1")]

(* The f_read macros: what comes next, for a field that is in the mask,    *)
(* and its default otherwise.                                              *)
f_read(blob, f, at) ==
    IF f \in blob.fields /\ blob.data[at].kind = FieldKind[f]
    THEN blob.data[at].value
    ELSE DefaultNode[f]

stream_read(blob) ==
    LET past(at, f) == IF f \in blob.fields THEN at + 1 ELSE at
        int32_1     == past(1, "node_type")
        uint32_1    == past(int32_1, "int32_1")
        uuid_1      == past(uint32_1, "uint32_1")
        string64_1  == past(uuid_1, "uuid_1")
        istring64_1 == past(string64_1, "string64_1")
    IN  [fields      |-> blob.fields,
         node_type   |-> f_read(blob, "node_type", 1),
         int32_1     |-> f_read(blob, "int32_1", int32_1),
         uint32_1    |-> f_read(blob, "uint32_1", uint32_1),
         uuid_1      |-> f_read(blob, "uuid_1", uuid_1),
         string64_1  |-> f_read(blob, "string64_1", string64_1),
         istring64_1 |-> f_read(blob, "istring64_1", istring64_1)]
=============================================================================
