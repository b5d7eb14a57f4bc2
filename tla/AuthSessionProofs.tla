------------------------- MODULE AuthSessionProofs -------------------------
(***************************************************************************)
(* Proofs about the workers of the auth server, for any sessions,          *)
(* accounts, players and ages, whatever SDL states fail to build and       *)
(* whatever references clients add.                                        *)
(***************************************************************************)
EXTENDS AuthSession, SequenceTheorems, TLAPS

-----------------------------------------------------------------------------
(* The sequences of vault calls that the helpers make.                     *)

Instance ==
    {VaultOf} \cup {PlayerOf(p) : p \in Player} \cup {ReltoOf(p) : p \in Player}
      \cup {AgeOf(s, u) : s \in Session, u \in AgeUuid}
AgeSlot == {"age", "chronicle_folder", "people_list", "sub_ages", "age_info", "devices_folder",
            "can_visit", "sdl_node", "age_owners", "child_ages"}
PlayerSlot == {"player_info", "buddy_list", "ignore_list", "invite_folder", "owned_ages",
               "journals_folder", "chronicle_folder", "visit_ages", "outfit_folder",
               "closet_folder", "inbox", "people_list"}
LinkSlot == {"relto_link", "hood_link", "city_link"}
Slot == AgeSlot \cup PlayerSlot \cup LinkSlot \cup {"player", "system", "global_inbox", "all_players"}
NodeSet == Instance \X Slot
Call == [op : {"create", "ref", "sdl_blob", "game"}, node : NodeSet \cup Instance,
         child : NodeSet \cup {None}]

Creates(c) == {c[i].node : i \in {j \in DOMAIN c : c[j].op = "create"}}

(* The nodes that must be there before a call: those a reference is        *)
(* between.                                                                *)
CallNeeds(call) == IF call.op = "ref" THEN {call.node, call.child} ELSE {}

(* Every call of c finds what it needs in base or was created before it.   *)
Grounded(base, c) ==
    \A i \in DOMAIN c :
        CallNeeds(c[i]) \subseteq base \cup {c[j].node : j \in {k \in 1..(i - 1) : c[k].op = "create"}}

(* What a concatenation is, entry by entry.                                *)
LEMMA Concat ==
    ASSUME NEW S, NEW s \in Seq(S), NEW t \in Seq(S)
    PROVE  /\ s \o t \in Seq(S)
           /\ Len(s) \in Nat /\ Len(t) \in Nat
           /\ Len(s \o t) = Len(s) + Len(t)
           /\ DOMAIN s = 1..Len(s) /\ DOMAIN t = 1..Len(t)
           /\ DOMAIN (s \o t) = 1..(Len(s) + Len(t))
           /\ \A i \in 1..Len(s) : (s \o t)[i] = s[i]
           /\ \A i \in 1..Len(t) : (s \o t)[Len(s) + i] = t[i]
           /\ \A i \in DOMAIN (s \o t) : i \in 1..Len(s) \/ (i - Len(s) \in 1..Len(t)
                                                            /\ (s \o t)[i] = t[i - Len(s)])
  <1>1. /\ s \o t \in Seq(S)
        /\ Len(s \o t) = Len(s) + Len(t)
        /\ \A i \in 1 .. Len(s) + Len(t) : (s \o t)[i] =
                     IF i <= Len(s) THEN s[i] ELSE t[i - Len(s)]
    BY ConcatProperties
  <1>2. Len(s) \in Nat /\ Len(t) \in Nat /\ DOMAIN s = 1..Len(s) /\ DOMAIN t = 1..Len(t)
        /\ DOMAIN (s \o t) = 1..Len(s \o t)
    BY <1>1, LenProperties
  <1> QED
    BY <1>1, <1>2

(* Two lists of calls create what either creates.                          *)
LEMMA CreatesConcat ==
    ASSUME NEW s \in Seq(Call), NEW t \in Seq(Call)
    PROVE  Creates(s \o t) = Creates(s) \cup Creates(t)
  <1>1. Creates(s \o t) \subseteq Creates(s) \cup Creates(t)
    BY Concat DEF Creates
  <1>2. Creates(s) \subseteq Creates(s \o t)
    BY Concat DEF Creates
  <1>3. Creates(t) \subseteq Creates(s \o t)
    <2> SUFFICES ASSUME NEW i \in DOMAIN t, t[i].op = "create" PROVE t[i].node \in Creates(s \o t)
      BY DEF Creates
    <2>1. Len(s) + i \in DOMAIN (s \o t) /\ (s \o t)[Len(s) + i] = t[i]
      BY Concat
    <2> QED
      BY <2>1 DEF Creates
  <1> QED
    BY <1>1, <1>2, <1>3

(* Calls that find what they need, followed by calls that find what the    *)
(* first ones left, find what they need.                                   *)
LEMMA GroundedConcat ==
    ASSUME NEW s \in Seq(Call), NEW t \in Seq(Call), NEW base, NEW known,
           Grounded(base, s), known \subseteq base \cup Creates(s), Grounded(known, t)
    PROVE  Grounded(base, s \o t)
  <1> DEFINE c == s \o t
             Before(x, i) == {x[j].node : j \in {k \in 1..(i - 1) : x[k].op = "create"}}
  <1>0. /\ c \in Seq(Call) /\ Len(s) \in Nat /\ Len(t) \in Nat
        /\ DOMAIN s = 1..Len(s) /\ DOMAIN t = 1..Len(t) /\ DOMAIN c = 1..(Len(s) + Len(t))
        /\ \A i \in 1..Len(s) : c[i] = s[i]
        /\ \A i \in 1..Len(t) : c[Len(s) + i] = t[i]
        /\ \A i \in DOMAIN c : i \in 1..Len(s) \/ (i - Len(s) \in 1..Len(t)
                                                   /\ c[i] = t[i - Len(s)])
    BY Concat
  <1> HIDE DEF c
  <1>1. ASSUME NEW i \in DOMAIN c, i \in 1..Len(s)
        PROVE  CallNeeds(c[i]) \subseteq base \cup Before(c, i)
    <2>1. c[i] = s[i] /\ \A k \in 1..(i - 1) : c[k] = s[k]
      BY <1>1, <1>0
    <2>2. CallNeeds(s[i]) \subseteq base \cup Before(s, i)
      BY <1>1, <1>0 DEF Grounded
    <2>3. Before(s, i) = Before(c, i)
      BY <2>1
    <2> QED
      BY <2>1, <2>2, <2>3
  <1>2. ASSUME NEW i \in DOMAIN c, i - Len(s) \in 1..Len(t), c[i] = t[i - Len(s)]
        PROVE  CallNeeds(c[i]) \subseteq base \cup Before(c, i)
    <2> DEFINE j == i - Len(s)
    <2>1. CallNeeds(t[j]) \subseteq base \cup Creates(s) \cup Before(t, j)
      BY <1>2, <1>0 DEF Grounded
    <2>2. ASSUME NEW k \in DOMAIN s, s[k].op = "create" PROVE s[k].node \in Before(c, i)
      <3>1. k \in 1..(i - 1) /\ c[k] = s[k]
        BY <1>2, <1>0
      <3> QED
        BY <2>2, <3>1
    <2>3. ASSUME NEW k \in 1..(j - 1), t[k].op = "create" PROVE t[k].node \in Before(c, i)
      <3>1. Len(s) + k \in 1..(i - 1) /\ c[Len(s) + k] = t[k]
        BY <1>2, <1>0
      <3> QED
        BY <2>3, <3>1
    <2>4. Creates(s) \subseteq Before(c, i) /\ Before(t, j) \subseteq Before(c, i)
      BY <2>2, <2>3 DEF Creates
    <2> QED
      BY <1>2, <2>1, <2>4
  <1>3. \A i \in DOMAIN c : CallNeeds(c[i]) \subseteq base \cup Before(c, i)
    BY <1>0, <1>1, <1>2
  <1> QED
    BY <1>3 DEF c, Grounded

(* Ranks of the slots.                                                     *)
LEMMA Ranks ==
    /\ \A x : /\ Rank(<<x, "player">>) = 0 /\ Rank(<<x, "all_players">>) = 0
              /\ Rank(<<x, "age">>) = 1 /\ Rank(<<x, "owned_ages">>) = 2
              /\ Rank(<<x, "relto_link">>) = 3 /\ Rank(<<x, "age_info">>) = 4
              /\ Rank(<<x, "player_info">>) = 6 /\ Rank(<<x, "system">>) = 7
              /\ Rank(<<x, "global_inbox">>) = 8
    /\ \A x, slot : slot \in {"chronicle_folder", "people_list", "sub_ages", "devices_folder",
                              "can_visit", "sdl_node", "age_owners", "child_ages", "buddy_list",
                              "ignore_list", "invite_folder", "journals_folder", "visit_ages",
                              "outfit_folder", "closet_folder", "inbox", "hood_link", "city_link"}
                    => Rank(<<x, slot>>) = 5
    /\ \A n : Rank(n) \in Nat
  <1>1. DOMAIN SlotRank = {"player", "all_players", "age", "owned_ages", "relto_link",
                           "age_info", "player_info", "system", "global_inbox"}
    BY DEF SlotRank
  <1>2. /\ SlotRank["player"] = 0 /\ SlotRank["all_players"] = 0 /\ SlotRank["age"] = 1
        /\ SlotRank["owned_ages"] = 2 /\ SlotRank["relto_link"] = 3 /\ SlotRank["age_info"] = 4
        /\ SlotRank["player_info"] = 6 /\ SlotRank["system"] = 7 /\ SlotRank["global_inbox"] = 8
    BY DEF SlotRank
  <1>3. \A x, slot : <<x, slot>>[2] = slot
    OBVIOUS
  <1> QED
    BY <1>1, <1>2, <1>3 DEF Rank

(* The calls that only concern the given instances: what they create       *)
(* belongs to one of these, and what they refer to is of a higher rank and *)
(* not listed in All Players.                                              *)
Quiet(insts) ==
    {c \in Call : /\ c.op = "create" => c.node \in insts \X Slot
                  /\ c.op = "ref" => c.node # AllPlayers /\ Rank(c.node) < Rank(c.child)}

(* Quiet calls are calls.                                                  *)
LEMMA QuietSeq == ASSUME NEW insts, NEW s \in Seq(Quiet(insts)) PROVE s \in Seq(Call)
  BY SeqMonotonic DEF Quiet

(* The vault's own instance is none of the helpers'.                       *)
LEMMA Instances ==
    /\ VaultOf \in Instance
    /\ \A p \in Player : PlayerOf(p) \in Instance /\ ReltoOf(p) \in Instance
    /\ \A s \in Session, u \in AgeUuid : AgeOf(s, u) \in Instance
    /\ \A p \in Player : VaultOf # PlayerOf(p) /\ VaultOf # ReltoOf(p)
    /\ \A s \in Session, u \in AgeUuid : VaultOf # AgeOf(s, u)
  BY DEF Instance, VaultOf, PlayerOf, ReltoOf, AgeOf

(* One call as a list of calls.                                            *)
LEMMA OneCall ==
    ASSUME NEW insts, NEW x \in Quiet(insts)
    PROVE  /\ <<x>> \in Seq(Quiet(insts))
           /\ x.op # "create" => Creates(<<x>>) = {}
           /\ \A base : CallNeeds(x) \subseteq base => Grounded(base, <<x>>)
  <1>1. DOMAIN <<x>> = {1} /\ <<x>>[1] = x
    OBVIOUS
  <1> QED
    BY <1>1 DEF Creates, Grounded

(* CreateEach creates one node per slot and needs nothing.                 *)
LEMMA CreateEachCalls ==
    ASSUME NEW insts \in SUBSET Instance, NEW inst \in insts, NEW slots \in Seq(Slot)
    PROVE  /\ CreateEach(inst, slots) \in Seq(Quiet(insts))
           /\ Creates(CreateEach(inst, slots)) = {<<inst, slots[i]>> : i \in DOMAIN slots}
           /\ \A base : Grounded(base, CreateEach(inst, slots))
           /\ Len(CreateEach(inst, slots)) = Len(slots)
           /\ \A i \in DOMAIN slots : CreateEach(inst, slots)[i] = create(<<inst, slots[i]>>)
  <1> DEFINE c == CreateEach(inst, slots)
  <1>1. DOMAIN slots = 1..Len(slots) /\ Len(slots) \in Nat /\ \A i \in DOMAIN slots : slots[i] \in Slot
    BY LenProperties, ElementOfSeq
  <1>2. \A i \in DOMAIN slots : /\ c[i] = create(<<inst, slots[i]>>)
                                /\ create(<<inst, slots[i]>>) \in Quiet(insts)
                                /\ c[i].op = "create" /\ c[i].node = <<inst, slots[i]>>
    BY <1>1 DEF CreateEach, create, Quiet, Call, NodeSet
  <1>3. c \in Seq(Quiet(insts)) /\ DOMAIN c = DOMAIN slots /\ Len(c) = Len(slots)
    BY <1>1, <1>2, IsASeq DEF CreateEach
  <1>4. Creates(c) = {<<inst, slots[i]>> : i \in DOMAIN slots}
    BY <1>2, <1>3 DEF Creates
  <1>5. \A base : Grounded(base, c)
    BY <1>2, <1>3 DEF Grounded, CallNeeds
  <1> QED
    BY <1>2, <1>3, <1>4, <1>5

(* RefEach creates nothing and is grounded where its parent and children   *)
(* are there.                                                              *)
LEMMA RefEachCalls ==
    ASSUME NEW insts \in SUBSET Instance, NEW inst \in insts, inst # VaultOf,
           NEW parent \in Slot, NEW slots \in Seq(Slot), NEW base,
           <<inst, parent>> \in base,
           \A i \in DOMAIN slots : <<inst, slots[i]>> \in base
                                   /\ Rank(<<inst, parent>>) < Rank(<<inst, slots[i]>>)
    PROVE  /\ RefEach(inst, parent, slots) \in Seq(Quiet(insts))
           /\ Creates(RefEach(inst, parent, slots)) = {}
           /\ Grounded(base, RefEach(inst, parent, slots))
  <1> DEFINE c == RefEach(inst, parent, slots)
  <1>1. DOMAIN slots = 1..Len(slots) /\ Len(slots) \in Nat /\ \A i \in DOMAIN slots : slots[i] \in Slot
    BY LenProperties, ElementOfSeq
  <1>2. \A i \in DOMAIN slots : /\ c[i] = ref(<<inst, parent>>, <<inst, slots[i]>>)
                                /\ c[i].op = "ref" /\ c[i].node = <<inst, parent>>
                                /\ c[i].child = <<inst, slots[i]>>
    BY <1>1 DEF RefEach, ref
  <1>3. \A i \in DOMAIN slots : ref(<<inst, parent>>, <<inst, slots[i]>>) \in Quiet(insts)
    BY <1>1 DEF ref, Quiet, Call, NodeSet, AllPlayers
  <1>4. c \in Seq(Quiet(insts)) /\ DOMAIN c = DOMAIN slots
    <2>1. /\ DOMAIN c = 1..Len(slots)
          /\ c = [i \in 1..Len(slots) |-> ref(<<inst, parent>>, <<inst, slots[i]>>)]
      BY <1>1 DEF RefEach
    <2>2. \A i \in 1..Len(slots) : c[i] \in Quiet(insts)
      BY <1>1, <1>2, <1>3
    <2> HIDE DEF c
    <2>3. c \in [1..Len(slots) -> Quiet(insts)]
      BY <2>1, <2>2
    <2>4. [1..Len(slots) -> Quiet(insts)] \subseteq Seq(Quiet(insts))
      BY <1>1, SeqDef
    <2> QED
      BY <1>1, <2>1, <2>3, <2>4
  <1>5. Creates(c) = {}
    BY <1>2, <1>4 DEF Creates
  <1>6. Grounded(base, c)
    <2>1. \A i \in DOMAIN slots : CallNeeds(c[i]) \subseteq base
      BY <1>2 DEF CallNeeds
    <2> QED
      BY <1>4, <2>1 DEF Grounded
  <1> QED
    BY <1>4, <1>5, <1>6

(* A piece of a helper that is grounded by what comes before it.           *)
LEMMA Extend ==
    ASSUME NEW insts, NEW base, NEW s \in Seq(Quiet(insts)), NEW t \in Seq(Quiet(insts)),
           NEW known, Grounded(base, s), known \subseteq base \cup Creates(s), Grounded(known, t)
    PROVE  /\ s \o t \in Seq(Quiet(insts))
           /\ Grounded(base, s \o t)
           /\ Creates(s \o t) = Creates(s) \cup Creates(t)
  <1>1. s \o t \in Seq(Quiet(insts))
    BY Concat
  <1>2. Grounded(base, s \o t) /\ Creates(s \o t) = Creates(s) \cup Creates(t)
    BY QuietSeq, GroundedConcat, CreatesConcat
  <1> QED
    BY <1>1, <1>2

(* A concatenation begins as its first part does.                          *)
LEMMA FirstOfConcat ==
    ASSUME NEW S, NEW s \in Seq(S), NEW t \in Seq(S), Len(s) > 0
    PROVE  Len(s \o t) > 0 /\ (s \o t)[1] = s[1]
  BY Concat

(* create_age_nodes: everything it refers to is there, if the owner is,    *)
(* and the Age node is what it creates first.                              *)
LEMMA AgeCallsGrounded ==
    ASSUME NEW insts \in SUBSET Instance, NEW inst \in insts, inst # VaultOf,
           NEW owners \in Seq(NodeSet), NEW base, System \in base,
           \A i \in DOMAIN owners : /\ owners[i][2] = "player_info" /\ Rank(owners[i]) = 6
                                    /\ owners[i] \in base
    PROVE  LET c == create_age_nodes(inst, owners)
           IN  /\ c \in Seq(Quiet(insts))
               /\ Grounded(base, c)
               /\ {<<inst, "age">>, <<inst, "age_info">>} \subseteq Creates(c)
               /\ Len(c) > 0
               /\ c[1] = create(<<inst, "age">>)
  <1> DEFINE q == Seq(Quiet(insts))
             slots1 == <<"age", "chronicle_folder", "people_list", "sub_ages", "age_info",
                         "devices_folder", "can_visit">>
             slots3 == <<"sdl_node", "age_owners", "child_ages">>
             slots5 == <<"chronicle_folder", "people_list", "sub_ages", "age_info", "devices_folder">>
             slots6 == <<"can_visit", "sdl_node", "age_owners", "child_ages">>
             c1 == CreateEach(inst, slots1)
             c2 == <<sdl_blob(inst)>>
             c3 == CreateEach(inst, slots3)
             c4 == <<ref(<<inst, "age">>, System)>>
             c5 == RefEach(inst, "age", slots5)
             c6 == RefEach(inst, "age_info", slots6)
             c7 == [i \in DOMAIN owners |-> ref(<<inst, "age_owners">>, owners[i])]
             c8 == <<add_game_server(inst)>>
             d2 == c1 \o c2
             d3 == d2 \o c3
             d4 == d3 \o c4
             d5 == d4 \o c5
             d6 == d5 \o c6
             d7 == d6 \o c7
             new == {<<inst, x>> : x \in AgeSlot}
             known == base \cup new
  <1>a. create_age_nodes(inst, owners) = d7 \o c8
    BY DEF create_age_nodes
  <1>s. /\ slots1 \in Seq(Slot) /\ slots3 \in Seq(Slot)
        /\ slots5 \in Seq(Slot) /\ slots6 \in Seq(Slot)
    BY DEF Slot, AgeSlot
  <1>r. /\ slots1[1] = "age" /\ Len(slots1) = 7 /\ 1 \in DOMAIN slots1
        /\ {<<inst, slots1[i]>> : i \in DOMAIN slots1} \cup {<<inst, slots3[i]>> : i \in DOMAIN slots3} = new
        /\ \A i \in DOMAIN slots5 : slots5[i] \in {"chronicle_folder", "people_list", "sub_ages",
                                                   "age_info", "devices_folder"}
        /\ \A i \in DOMAIN slots6 : slots6[i] \in {"can_visit", "sdl_node", "age_owners", "child_ages"}
    <2>1. /\ DOMAIN slots1 = 1..7 /\ DOMAIN slots3 = 1..3 /\ DOMAIN slots5 = 1..5 /\ DOMAIN slots6 = 1..4
      OBVIOUS
    <2>2. {<<inst, slots1[i]>> : i \in DOMAIN slots1} =
            {<<inst, x>> : x \in {"age", "chronicle_folder", "people_list", "sub_ages",
                                  "age_info", "devices_folder", "can_visit"}}
      BY <2>1
    <2>3. {<<inst, slots3[i]>> : i \in DOMAIN slots3} =
            {<<inst, x>> : x \in {"sdl_node", "age_owners", "child_ages"}}
      BY <2>1
    <2> QED
      BY <2>1, <2>2, <2>3 DEF AgeSlot
  <1> HIDE DEF slots1, slots3, slots5, slots6
  <1>1. /\ c1 \in q /\ Grounded(base, c1)
        /\ Creates(c1) = {<<inst, slots1[i]>> : i \in DOMAIN slots1}
    BY <1>s, CreateEachCalls
  <1>2. c2 \in q /\ Creates(c2) = {} /\ Grounded(base, c2)
    <2>1. sdl_blob(inst) \in Quiet(insts) /\ sdl_blob(inst).op = "sdl_blob"
      BY DEF sdl_blob, Quiet, Call
    <2> QED
      BY <2>1, OneCall DEF CallNeeds
  <1>3. /\ c3 \in q /\ Grounded(base, c3)
        /\ Creates(c3) = {<<inst, slots3[i]>> : i \in DOMAIN slots3}
    BY <1>s, CreateEachCalls
  <1>t. /\ System \in NodeSet /\ System[2] = "system" /\ Rank(System) = 7
        /\ \A x \in Slot : <<inst, x>> # AllPlayers /\ <<inst, x>> \in NodeSet
    <2>1. "system" \in Slot /\ VaultOf \in Instance /\ inst \in Instance
      BY Instances DEF Slot
    <2>2. Rank(System) = 7
      BY Ranks DEF System
    <2>3. \A x : <<inst, x>> # AllPlayers
      BY DEF AllPlayers
    <2> QED
      BY <2>1, <2>2, <2>3 DEF System, NodeSet
  <1>u. \A x \in AgeSlot : x \in Slot /\ <<inst, x>> \in known
    BY DEF Slot
  <1>k. base \subseteq known
    OBVIOUS
  <1> HIDE DEF known
  <1>4. c4 \in q /\ Creates(c4) = {} /\ Grounded(known, c4)
    <2> DEFINE a == <<inst, "age">>
    <2>1. Rank(a) = 1 /\ a \in NodeSet /\ a # AllPlayers /\ a \in known
      BY <1>t, <1>u, Ranks DEF AgeSlot
    <2> HIDE DEF a
    <2>2. ref(a, System) \in Quiet(insts)
      BY <1>t, <2>1 DEF ref, Quiet, Call
    <2>3. CallNeeds(ref(a, System)) = {a, System}
      BY <1>t DEF ref, CallNeeds
    <2>4. ref(a, System).op # "create"
      BY DEF ref
    <2>5. <<ref(a, System)>> \in q /\ Creates(<<ref(a, System)>>) = {} /\ Grounded(known, <<ref(a, System)>>)
      BY <1>k, <2>1, <2>2, <2>3, <2>4, OneCall
    <2> QED
      BY <2>5 DEF a
  <1>5. c5 \in q /\ Creates(c5) = {} /\ Grounded(known, c5)
    <2>1. \A i \in DOMAIN slots5 : Rank(<<inst, "age">>) < Rank(<<inst, slots5[i]>>)
      BY <1>r, Ranks
    <2>2. /\ "age" \in Slot /\ <<inst, "age">> \in known
          /\ \A i \in DOMAIN slots5 : <<inst, slots5[i]>> \in known /\ slots5[i] # "player_info"
      BY <1>r, <1>u DEF AgeSlot
    <2> QED
      BY <1>s, <2>1, <2>2, RefEachCalls
  <1>6. c6 \in q /\ Creates(c6) = {} /\ Grounded(known, c6)
    <2>1. \A i \in DOMAIN slots6 : Rank(<<inst, "age_info">>) < Rank(<<inst, slots6[i]>>)
      BY <1>r, Ranks
    <2>2. /\ "age_info" \in Slot /\ <<inst, "age_info">> \in known
          /\ \A i \in DOMAIN slots6 : <<inst, slots6[i]>> \in known /\ slots6[i] # "player_info"
      BY <1>r, <1>u DEF AgeSlot
    <2> QED
      BY <1>s, <2>1, <2>2, RefEachCalls
  <1>7. c7 \in q /\ Creates(c7) = {} /\ Grounded(known, c7)
    <2> DEFINE a == <<inst, "age_owners">>
    <2>1. DOMAIN owners = 1..Len(owners) /\ Len(owners) \in Nat /\ \A i \in DOMAIN owners : owners[i] \in NodeSet
      BY LenProperties, ElementOfSeq
    <2>2. Rank(a) = 5 /\ a \in known /\ a # AllPlayers /\ a \in NodeSet
      BY <1>t, <1>u, Ranks DEF AgeSlot
    <2>3. \A i \in DOMAIN owners : /\ c7[i] = ref(a, owners[i])
                                   /\ c7[i].op = "ref" /\ c7[i].node = a
                                   /\ c7[i].child = owners[i]
      BY DEF ref
    <2> HIDE DEF a
    <2>4. \A i \in DOMAIN owners : ref(a, owners[i]) \in Quiet(insts)
      <3> TAKE i \in DOMAIN owners
      <3>1. ref(a, owners[i]) \in Call
        BY <2>1, <2>2 DEF ref, Call
      <3>2. /\ ref(a, owners[i]).op = "ref" /\ ref(a, owners[i]).node = a
            /\ ref(a, owners[i]).child = owners[i]
        BY DEF ref
      <3>3. Rank(owners[i]) = 6
        OBVIOUS
      <3>4. Rank(a) < Rank(owners[i])
        BY <2>2, <3>3
      <3> QED
        BY <2>2, <3>1, <3>2, <3>4 DEF Quiet
    <2>5. c7 \in q /\ DOMAIN c7 = DOMAIN owners
      BY <2>1, <2>4, IsASeq DEF a
    <2> HIDE DEF c7
    <2>6. \A i \in DOMAIN owners : CallNeeds(c7[i]) \subseteq known
      BY <1>k, <2>2, <2>3 DEF CallNeeds
    <2> QED
      BY <2>3, <2>5, <2>6 DEF Grounded, Creates
  <1>8. c8 \in q /\ Creates(c8) = {} /\ Grounded(known, c8)
    <2>1. add_game_server(inst) \in Quiet(insts) /\ add_game_server(inst).op = "game"
      BY DEF add_game_server, Quiet, Call
    <2> QED
      BY <2>1, OneCall DEF CallNeeds
  <1>9. Len(c1) > 0 /\ c1[1] = create(<<inst, "age">>)
    <2>1. Len(c1) = Len(slots1) /\ \A i \in DOMAIN slots1 : c1[i] = create(<<inst, slots1[i]>>)
      BY <1>s, CreateEachCalls
    <2> HIDE DEF c1
    <2> QED
      BY <1>r, <2>1
  <1> HIDE DEF q, c1, c2, c3, c4, c5, c6, c7, c8, new
  <1>12. /\ d2 \in q /\ Grounded(base, d2) /\ Creates(d2) = Creates(c1)
         /\ Len(d2) > 0 /\ d2[1] = create(<<inst, "age">>)
    BY <1>1, <1>2, <1>9, Extend, FirstOfConcat DEF q
  <1>13. /\ d3 \in q /\ Grounded(base, d3) /\ Creates(d3) = new
         /\ Len(d3) > 0 /\ d3[1] = create(<<inst, "age">>)
    <2> HIDE DEF d2
    <2>1. /\ d3 \in q /\ Grounded(base, d3) /\ Creates(d3) = Creates(d2) \cup Creates(c3)
          /\ Len(d3) > 0 /\ d3[1] = create(<<inst, "age">>)
      BY <1>12, <1>3, Extend, FirstOfConcat DEF q
    <2> QED
      BY <2>1, <1>1, <1>12, <1>3, <1>r
  <1>l. known \subseteq base \cup new
    BY DEF known
  <1>e. ASSUME NEW s \in q, NEW t \in q, Grounded(base, s), Creates(s) = new,
               Len(s) > 0, s[1] = create(<<inst, "age">>), Creates(t) = {}, Grounded(known, t)
        PROVE  /\ s \o t \in q /\ Grounded(base, s \o t) /\ Creates(s \o t) = new
               /\ Len(s \o t) > 0 /\ (s \o t)[1] = create(<<inst, "age">>)
    <2>1. known \subseteq base \cup Creates(s)
      BY <1>e, <1>l
    <2>a. s \in Seq(Quiet(insts)) /\ t \in Seq(Quiet(insts)) /\ Grounded(base, s) /\ Grounded(known, t)
      BY <1>e DEF q
    <2>2. s \o t \in Seq(Quiet(insts)) /\ Grounded(base, s \o t)
      BY <2>a, <2>1, Extend
    <2>b. Creates(s \o t) = Creates(s) \cup Creates(t)
      BY <2>a, <2>1, Extend
    <2>3. Len(s \o t) > 0 /\ (s \o t)[1] = s[1]
      BY <1>e, FirstOfConcat DEF q
    <2> QED
      BY <1>e, <2>2, <2>b, <2>3 DEF q
  <1> HIDE DEF d3
  <1>14. /\ d4 \in q /\ Grounded(base, d4) /\ Creates(d4) = new
         /\ Len(d4) > 0 /\ d4[1] = create(<<inst, "age">>)
    BY <1>13, <1>4, <1>e
  <1> HIDE DEF d4
  <1>15. /\ d5 \in q /\ Grounded(base, d5) /\ Creates(d5) = new
         /\ Len(d5) > 0 /\ d5[1] = create(<<inst, "age">>)
    BY <1>14, <1>5, <1>e
  <1> HIDE DEF d5
  <1>16. /\ d6 \in q /\ Grounded(base, d6) /\ Creates(d6) = new
         /\ Len(d6) > 0 /\ d6[1] = create(<<inst, "age">>)
    BY <1>15, <1>6, <1>e
  <1> HIDE DEF d6
  <1>17. /\ d7 \in q /\ Grounded(base, d7) /\ Creates(d7) = new
         /\ Len(d7) > 0 /\ d7[1] = create(<<inst, "age">>)
    BY <1>16, <1>7, <1>e
  <1> HIDE DEF d7
  <1>18. /\ d7 \o c8 \in q /\ Grounded(base, d7 \o c8) /\ Creates(d7 \o c8) = new
         /\ Len(d7 \o c8) > 0 /\ (d7 \o c8)[1] = create(<<inst, "age">>)
    BY <1>17, <1>8, <1>e
  <1> QED
    BY <1>a, <1>18 DEF q, new, AgeSlot

(* create_player_nodes: everything it refers to is there, and all of it    *)
(* comes before the reference that lists the player.                       *)
PlayerBase(p) == {System, AllPlayers, <<PlayerOf(p), "player">>}

(* create_player_nodes: everything it refers to is there, and the last     *)
(* call is the one that lists the player.                                  *)
LEMMA PlayerCallsGrounded ==
    ASSUME NEW p \in Player
    PROVE  LET c == create_player_nodes(p)
           IN  /\ c \in Seq(Call) /\ Len(c) > 0
               /\ Grounded(PlayerBase(p), c)
               /\ \A i \in DOMAIN c : i # Len(c) => c[i] \in Quiet({PlayerOf(p), ReltoOf(p)})
               /\ c[Len(c)] = ref(AllPlayers, PlayerInfo(p))
  <1> DEFINE me == PlayerOf(p)
             base == PlayerBase(p)
             insts == {PlayerOf(p), ReltoOf(p)}
             q == Seq(Quiet(insts))
             owners == <<PlayerInfo(p)>>
             slots == PlayerSlots \o LinkSlots
             mine == {<<me, x>> : x \in PlayerSlot \cup LinkSlot}
             c1 == CreateEach(me, slots)
             c2 == create_age_nodes(ReltoOf(p), owners)
             c3 == <<ref(<<me, "player">>, System)>>
             c4 == RefEach(me, "player", PlayerSlots)
             c5 == RefEach(me, "owned_ages", LinkSlots)
             c6 == <<ref(<<me, "relto_link">>, <<ReltoOf(p), "age_info">>),
                     ref(<<ReltoOf(p), "age">>, <<me, "owned_ages">>),
                     ref(AllPlayers, PlayerInfo(p))>>
             d2 == c1 \o c2
             d3 == d2 \o c3
             d4 == d3 \o c4
             d5 == d4 \o c5
             known == base \cup mine \cup {<<ReltoOf(p), "age">>, <<ReltoOf(p), "age_info">>}
  <1>a. create_player_nodes(p) = d5 \o c6
    BY DEF create_player_nodes
  <1>i. insts \in SUBSET Instance /\ me \in insts /\ ReltoOf(p) \in insts /\ me # VaultOf /\ ReltoOf(p) # VaultOf
        /\ VaultOf \in Instance
    BY Instances
  <1>s. /\ PlayerSlots \in Seq(Slot) /\ LinkSlots \in Seq(Slot) /\ slots \in Seq(Slot)
        /\ {<<me, slots[i]>> : i \in DOMAIN slots} = mine
        /\ \A i \in DOMAIN PlayerSlots : PlayerSlots[i] \in PlayerSlot
        /\ \A i \in DOMAIN LinkSlots : LinkSlots[i] \in LinkSlot
    <2>1. /\ PlayerSlots \in Seq(Slot) /\ DOMAIN PlayerSlots = 1..12 /\ Len(PlayerSlots) = 12
          /\ \A i \in DOMAIN PlayerSlots : PlayerSlots[i] \in PlayerSlot
      BY DEF PlayerSlots, Slot, PlayerSlot
    <2>2. /\ LinkSlots \in Seq(Slot) /\ DOMAIN LinkSlots = 1..3 /\ Len(LinkSlots) = 3
          /\ \A i \in DOMAIN LinkSlots : LinkSlots[i] \in LinkSlot
      BY DEF LinkSlots, Slot, LinkSlot
    <2>3. \A x \in PlayerSlot : \E i \in DOMAIN PlayerSlots : PlayerSlots[i] = x
      BY <2>1 DEF PlayerSlots, PlayerSlot
    <2>4. \A x \in LinkSlot : \E i \in DOMAIN LinkSlots : LinkSlots[i] = x
      BY <2>2 DEF LinkSlots, LinkSlot
    <2>5. /\ slots \in Seq(Slot) /\ DOMAIN slots = 1..15
          /\ \A i \in 1..12 : slots[i] = PlayerSlots[i]
          /\ \A i \in 1..3 : slots[12 + i] = LinkSlots[i]
          /\ \A i \in DOMAIN slots : i \in 1..12 \/ (i - 12 \in 1..3 /\ slots[i] = LinkSlots[i - 12])
      <3>1. /\ slots \in Seq(Slot)
            /\ DOMAIN slots = 1..(Len(PlayerSlots) + Len(LinkSlots))
            /\ \A i \in 1..Len(PlayerSlots) : slots[i] = PlayerSlots[i]
            /\ \A i \in 1..Len(LinkSlots) : slots[Len(PlayerSlots) + i] = LinkSlots[i]
            /\ \A i \in DOMAIN slots : i \in 1..Len(PlayerSlots)
                                       \/ (i - Len(PlayerSlots) \in 1..Len(LinkSlots)
                                           /\ slots[i] = LinkSlots[i - Len(PlayerSlots)])
        <4>1. PlayerSlots \in Seq(Slot) /\ LinkSlots \in Seq(Slot)
          BY <2>1, <2>2
        <4> QED
          BY <4>1, Concat
      <3> HIDE DEF slots
      <3> QED
        BY <3>1, <2>1, <2>2
    <2> HIDE DEF slots
    <2>6. \A i \in DOMAIN slots : slots[i] \in PlayerSlot \cup LinkSlot
      BY <2>1, <2>2, <2>5
    <2>7. \A x \in PlayerSlot \cup LinkSlot : \E i \in DOMAIN slots : slots[i] = x
      BY <2>1, <2>2, <2>3, <2>4, <2>5
    <2> QED
      BY <2>1, <2>2, <2>5, <2>6, <2>7
  <1> HIDE DEF slots
  <1>1. c1 \in q /\ Grounded(base, c1) /\ Creates(c1) = mine
    BY <1>i, <1>s, CreateEachCalls
  <1>m. /\ \A x \in PlayerSlot \cup LinkSlot : x \in Slot /\ <<me, x>> \in known
        /\ {<<me, "player">>, System, AllPlayers, <<ReltoOf(p), "age">>, <<ReltoOf(p), "age_info">>} \subseteq known
        /\ PlayerInfo(p) \in mine
        /\ PlayerInfo(p)[1] = me /\ PlayerInfo(p)[2] = "player_info" /\ Rank(PlayerInfo(p)) = 6
        /\ PlayerInfo(p) \in NodeSet
    <2>1. PlayerInfo(p) = <<me, "player_info">>
      BY DEF PlayerInfo
    <2>2. "player_info" \in PlayerSlot
      BY DEF PlayerSlot
    <2>3. \A x \in PlayerSlot \cup LinkSlot : x \in Slot
      BY DEF Slot
    <2>4. Rank(<<me, "player_info">>) = 6
      BY Ranks
    <2>5. <<me, "player_info">> \in NodeSet
      BY <1>i, <2>2, <2>3 DEF NodeSet
    <2> QED
      BY <2>1, <2>2, <2>3, <2>4, <2>5 DEF PlayerBase
  <1>2. /\ c2 \in q /\ Grounded(base \cup mine, c2)
        /\ {<<ReltoOf(p), "age">>, <<ReltoOf(p), "age_info">>} \subseteq Creates(c2)
    <2>1. owners \in Seq(NodeSet) /\ DOMAIN owners = {1} /\ owners[1] = PlayerInfo(p)
      BY <1>m
    <2>2. System \in base \cup mine
      BY DEF PlayerBase
    <2>3. \A i \in DOMAIN owners : /\ owners[i][2] = "player_info" /\ Rank(owners[i]) = 6
                                   /\ owners[i] \in base \cup mine
      BY <1>m, <2>1
    <2> HIDE DEF owners, mine, base
    <2> QED
      BY <1>i, <2>1, <2>2, <2>3, AgeCallsGrounded
  <1> HIDE DEF c1, c2, mine, base, known
  <1>t. /\ System \in NodeSet /\ System[2] = "system" /\ Rank(System) = 7
        /\ AllPlayers \in NodeSet
        /\ \A x \in Slot : <<me, x>> # AllPlayers /\ <<me, x>> \in NodeSet
                           /\ <<ReltoOf(p), x>> # AllPlayers /\ <<ReltoOf(p), x>> \in NodeSet
    <2>1. "system" \in Slot /\ "all_players" \in Slot /\ me \in Instance /\ ReltoOf(p) \in Instance
      BY <1>i DEF Slot
    <2>2. Rank(System) = 7
      BY Ranks DEF System
    <2>3. \A x : <<me, x>> # AllPlayers /\ <<ReltoOf(p), x>> # AllPlayers
      BY <1>i DEF AllPlayers
    <2> QED
      BY <1>i, <2>1, <2>2, <2>3 DEF System, AllPlayers, NodeSet
  <1>o. ASSUME NEW a \in NodeSet, NEW b \in NodeSet, a # AllPlayers, Rank(a) < Rank(b)
        PROVE  ref(a, b) \in Quiet(insts)
    BY <1>o DEF ref, Quiet, Call
  <1>3. c3 \in q /\ Creates(c3) = {} /\ Grounded(known, c3)
    <2> DEFINE a == <<me, "player">>
    <2>1. Rank(a) = 0 /\ a \in NodeSet /\ a # AllPlayers /\ a \in known
      BY <1>t, <1>m, Ranks DEF Slot
    <2> HIDE DEF a
    <2>2. ref(a, System) \in Quiet(insts)
      BY <1>t, <1>o, <2>1
    <2>3. CallNeeds(ref(a, System)) = {a, System}
      BY <1>t DEF ref, CallNeeds
    <2>4. ref(a, System).op # "create"
      BY DEF ref
    <2>5. <<ref(a, System)>> \in q /\ Creates(<<ref(a, System)>>) = {} /\ Grounded(known, <<ref(a, System)>>)
      BY <1>m, <2>1, <2>2, <2>3, <2>4, OneCall
    <2> QED
      BY <2>5 DEF a
  <1>4. c4 \in q /\ Creates(c4) = {} /\ Grounded(known, c4)
    <2>1. \A x \in PlayerSlot : Rank(<<me, "player">>) < Rank(<<me, x>>)
      BY Ranks DEF PlayerSlot
    <2>2. /\ "player" \in Slot /\ <<me, "player">> \in known
          /\ \A i \in DOMAIN PlayerSlots : /\ <<me, PlayerSlots[i]>> \in known
                                           /\ Rank(<<me, "player">>) < Rank(<<me, PlayerSlots[i]>>)
      BY <1>m, <1>s, <2>1 DEF Slot, PlayerSlot
    <2> QED
      BY <1>i, <1>s, <2>2, RefEachCalls
  <1>5. c5 \in q /\ Creates(c5) = {} /\ Grounded(known, c5)
    <2>1. \A x \in LinkSlot : Rank(<<me, "owned_ages">>) < Rank(<<me, x>>)
      BY Ranks DEF LinkSlot
    <2>2. /\ "owned_ages" \in Slot /\ <<me, "owned_ages">> \in known
          /\ \A i \in DOMAIN LinkSlots : /\ <<me, LinkSlots[i]>> \in known
                                         /\ Rank(<<me, "owned_ages">>) < Rank(<<me, LinkSlots[i]>>)
      BY <1>m, <1>s, <2>1 DEF PlayerSlot
    <2> QED
      BY <1>i, <1>s, <2>2, RefEachCalls
  <1>6. /\ c6 \in Seq(Call) /\ Grounded(known, c6) /\ Len(c6) = 3
        /\ c6[1] \in Quiet(insts) /\ c6[2] \in Quiet(insts)
        /\ c6[3] = ref(AllPlayers, PlayerInfo(p))
    <2> DEFINE link == <<me, "relto_link">>
               info == <<ReltoOf(p), "age_info">>
               age == <<ReltoOf(p), "age">>
               ages == <<me, "owned_ages">>
               pinfo == PlayerInfo(p)
    <2>1. /\ Rank(link) = 3 /\ Rank(info) = 4 /\ Rank(age) = 1 /\ Rank(ages) = 2
          /\ link[2] = "relto_link" /\ info[2] = "age_info" /\ ages[2] = "owned_ages"
      BY Ranks
    <2>2. {link, info, age, ages} \subseteq NodeSet \ {AllPlayers}
      BY <1>t DEF Slot, LinkSlot, PlayerSlot, AgeSlot
    <2>3. {link, info, age, ages, pinfo, AllPlayers} \subseteq known
      BY <1>m DEF PlayerSlot, LinkSlot, PlayerInfo
    <2>4. pinfo \in NodeSet /\ pinfo[2] = "player_info" /\ pinfo[1] = me
      BY <1>m
    <2> HIDE DEF link, info, age, ages, pinfo
    <2>5. ref(link, info) \in Quiet(insts) /\ ref(age, ages) \in Quiet(insts)
      BY <1>o, <2>1, <2>2
    <2>6. ref(AllPlayers, pinfo) \in Call
      BY <1>t, <2>4 DEF ref, Call
    <2>7. /\ CallNeeds(ref(link, info)) = {link, info} /\ CallNeeds(ref(age, ages)) = {age, ages}
          /\ CallNeeds(ref(AllPlayers, pinfo)) = {AllPlayers, pinfo}
      BY <2>1, <2>4 DEF ref, CallNeeds
    <2> DEFINE x1 == ref(link, info)
               x2 == ref(age, ages)
               x3 == ref(AllPlayers, pinfo)
               xs == <<x1, x2, x3>>
    <2>8. x1 \in Call /\ x2 \in Call /\ x3 \in Call
      BY <2>5, <2>6 DEF Quiet
    <2>9. CallNeeds(x1) \subseteq known /\ CallNeeds(x2) \subseteq known /\ CallNeeds(x3) \subseteq known
      BY <2>3, <2>7
    <2> HIDE DEF x1, x2, x3
    <2>10. xs \in Seq(Call) /\ Len(xs) = 3 /\ DOMAIN xs = 1..3 /\ xs[1] = x1 /\ xs[2] = x2 /\ xs[3] = x3
      BY <2>8
    <2>11. \A i \in DOMAIN xs : xs[i] = x1 \/ xs[i] = x2 \/ xs[i] = x3
      BY <2>10
    <2> HIDE DEF xs
    <2>12. Grounded(known, xs)
      BY <2>9, <2>11 DEF Grounded
    <2>13. c6 = xs
      BY DEF xs, x1, x2, x3, link, info, age, ages, pinfo
    <2> HIDE DEF c6
    <2>14. c6 \in Seq(Call) /\ Grounded(known, c6) /\ Len(c6) = 3
      BY <2>10, <2>12, <2>13
    <2>15. c6[1] = x1 /\ c6[2] = x2 /\ c6[3] = x3
      BY <2>10, <2>13
    <2> QED
      BY <2>5, <2>14, <2>15 DEF x1, x2, x3, pinfo
  <1> HIDE DEF c3, c4, c5, c6, insts
  <1>e. ASSUME NEW s \in q, NEW t \in q, Grounded(base, s), known \subseteq base \cup Creates(s),
               Grounded(known, t)
        PROVE  s \o t \in q /\ Grounded(base, s \o t) /\ known \subseteq base \cup Creates(s \o t)
    <2>1. s \o t \in q /\ Grounded(base, s \o t) /\ Creates(s \o t) = Creates(s) \cup Creates(t)
      BY <1>e, Extend
    <2> QED
      BY <1>e, <2>1
  <1>12. d2 \in q /\ Grounded(base, d2) /\ known \subseteq base \cup Creates(d2)
    <2> DEFINE kn == base \cup mine
    <2>1. kn \subseteq base \cup Creates(c1) /\ Grounded(kn, c2)
      BY <1>1, <1>2
    <2>2. known \subseteq base \cup mine \cup Creates(c2)
      BY <1>2 DEF known
    <2> HIDE DEF kn
    <2>3. d2 \in q /\ Grounded(base, d2) /\ Creates(d2) = Creates(c1) \cup Creates(c2)
      BY <1>1, <1>2, <2>1, Extend
    <2> QED
      BY <1>1, <2>2, <2>3
  <1> HIDE DEF d2
  <1>13. d3 \in q /\ Grounded(base, d3) /\ known \subseteq base \cup Creates(d3)
    BY <1>12, <1>3, <1>e
  <1> HIDE DEF d3
  <1>14. d4 \in q /\ Grounded(base, d4) /\ known \subseteq base \cup Creates(d4)
    BY <1>13, <1>4, <1>e
  <1> HIDE DEF d4
  <1>15. d5 \in q /\ Grounded(base, d5) /\ known \subseteq base \cup Creates(d5)
    BY <1>14, <1>5, <1>e
  <1> HIDE DEF d5
  <1> DEFINE c == d5 \o c6
  <1>16. d5 \in Seq(Call) /\ (\A i \in 1..Len(d5) : d5[i] \in Quiet(insts)) /\ Len(d5) \in Nat
    BY <1>15, QuietSeq, ElementOfSeq, LenProperties
  <1>17. Grounded(base, c)
    BY <1>6, <1>15, <1>16, GroundedConcat
  <1>18. /\ c \in Seq(Call) /\ Len(c) = Len(d5) + Len(c6)
         /\ DOMAIN c = 1..(Len(d5) + Len(c6))
         /\ \A i \in 1..Len(d5) : c[i] = d5[i]
         /\ \A i \in 1..Len(c6) : c[Len(d5) + i] = c6[i]
         /\ \A i \in DOMAIN c : i \in 1..Len(d5) \/ (i - Len(d5) \in 1..Len(c6)
                                                     /\ c[i] = c6[i - Len(d5)])
    <2>1. d5 \in Seq(Call) /\ c6 \in Seq(Call)
      BY <1>6, <1>16
    <2> QED
      BY <2>1, Concat
  <1> HIDE DEF c
  <1>19. Len(c) > 0 /\ c[Len(c)] = ref(AllPlayers, PlayerInfo(p))
    BY <1>6, <1>16, <1>18
  <1>20. ASSUME NEW i \in DOMAIN c, i # Len(c) PROVE c[i] \in Quiet(insts)
    <2>1. CASE i \in 1..Len(d5)
      BY <2>1, <1>16, <1>18
    <2>2. CASE i - Len(d5) \in 1..Len(c6) /\ c[i] = c6[i - Len(d5)]
      <3>1. i - Len(d5) = 1 \/ i - Len(d5) = 2
        BY <2>2, <1>6, <1>16, <1>18, <1>20
      <3> QED
        BY <2>2, <3>1, <1>6
    <2> QED
      BY <2>1, <2>2, <1>18
  <1> QED
    BY <1>a, <1>17, <1>18, <1>19, <1>20 DEF c, insts, base

-----------------------------------------------------------------------------
(* The helpers' calls for every player and age.                            *)

PlayerHelper(p, c) ==
    /\ c \in Seq(Call) /\ Len(c) \in Nat \ {0} /\ DOMAIN c = 1..Len(c)
    /\ Grounded(PlayerBase(p), c)
    /\ \A i \in DOMAIN c : i # Len(c) => c[i] \in Quiet({PlayerOf(p), ReltoOf(p)})
    /\ c[Len(c)] = ref(AllPlayers, PlayerInfo(p))

AgeHelper(s, u, c) ==
    /\ c \in Seq(Call) /\ Len(c) \in Nat \ {0} /\ DOMAIN c = 1..Len(c)
    /\ Grounded({System}, c)
    /\ \A i \in DOMAIN c : c[i] \in Quiet({AgeOf(s, u)})
    /\ c[1] = create(<<AgeOf(s, u), "age">>)

(* The tabulated calls of the player helper have those properties.         *)
LEMMA PlayerCallsFacts == ASSUME NEW p \in Player PROVE PlayerHelper(p, PlayerCalls[p])
  <1>1. PlayerCalls[p] = create_player_nodes(p)
    BY DEF PlayerCalls
  <1> DEFINE c == create_player_nodes(p)
  <1>2. /\ c \in Seq(Call) /\ Len(c) > 0 /\ Grounded(PlayerBase(p), c)
        /\ \A i \in DOMAIN c : i # Len(c) => c[i] \in Quiet({PlayerOf(p), ReltoOf(p)})
        /\ c[Len(c)] = ref(AllPlayers, PlayerInfo(p))
    BY PlayerCallsGrounded
  <1> HIDE DEF c
  <1>3. Len(c) \in Nat /\ DOMAIN c = 1..Len(c)
    BY <1>2, LenProperties
  <1>4. PlayerHelper(p, c)
    <2>1. Len(c) \in Nat \ {0}
      BY <1>2, <1>3
    <2> QED
      BY <1>2, <1>3, <2>1, Zenon DEF PlayerHelper
  <1> QED
    BY <1>1, <1>4 DEF c

(* The tabulated calls of the age helper have those properties.            *)
LEMMA AgeCallsFacts ==
    ASSUME NEW s \in Session, NEW u \in AgeUuid PROVE AgeHelper(s, u, AgeCalls[<<s, u>>])
  <1> DEFINE inst == AgeOf(s, u)
             owners == <<>>
             base == {System}
             c == create_age_nodes(inst, owners)
  <1>1. AgeCalls[<<s, u>>] = c
    BY DEF AgeCalls
  <1>2. inst \in Instance /\ inst # VaultOf
    BY Instances
  <1>3. owners \in Seq(NodeSet) /\ DOMAIN owners = {}
    OBVIOUS
  <1>4. System \in base /\ {inst} \in SUBSET Instance /\ inst \in {inst}
    BY <1>2
  <1> HIDE DEF inst, owners, base
  <1>6. /\ c \in Seq(Quiet({inst})) /\ Grounded(base, c) /\ Len(c) > 0
        /\ c[1] = create(<<inst, "age">>)
    BY <1>2, <1>3, <1>4, AgeCallsGrounded
  <1> HIDE DEF c
  <1>7. /\ c \in Seq(Call) /\ Len(c) \in Nat /\ DOMAIN c = 1..Len(c)
        /\ \A i \in DOMAIN c : c[i] \in Quiet({inst})
    BY <1>6, QuietSeq, LenProperties, ElementOfSeq
  <1>8. AgeHelper(s, u, c)
    BY <1>6, <1>7 DEF inst, base, AgeHelper
  <1> QED
    BY <1>1, <1>8

(* Both helpers have at least one call to make.                            *)
LEMMA CallLengths ==
    /\ \A p \in Player : Len(PlayerCalls[p]) \in Nat \ {0}
    /\ \A s \in Session, u \in AgeUuid : Len(AgeCalls[<<s, u>>]) \in Nat \ {0}
  <1>1. ASSUME NEW p \in Player PROVE Len(PlayerCalls[p]) \in Nat \ {0}
    BY PlayerCallsFacts, Zenon DEF PlayerHelper
  <1>2. ASSUME NEW s \in Session, NEW u \in AgeUuid PROVE Len(AgeCalls[<<s, u>>]) \in Nat \ {0}
    BY AgeCallsFacts, Zenon DEF AgeHelper
  <1> QED
    BY <1>1, <1>2

-----------------------------------------------------------------------------
(* Where the workers are, and what they hold there.                        *)

Handlers ==
    \A s \in Session :
        /\ pc[s] \in {"set_info", "set_update", "create_player"} => target[s] \in Player
        /\ pc[s] \in {"create_age", "age_info"} => target[s] \in AgeUuid
        /\ pc[s] = "age_info" => found[s] \in Session
        /\ pc[s] \in {"off_info", "off_update"} => player_id[s] # None
        /\ creating(s) => step[s] \in 1..Len(calls(s))

TypeOK ==
    /\ online \subseteq Player
    /\ owner \in [Player -> Account \cup {None}]
    /\ pc \in [Session -> {"gone", "idle", "off_info", "off_update", "set_info", "set_update",
                           "age_info", "create_player", "create_age"}]
    /\ account_id \in [Session -> Account \cup {None}]
    /\ player_id \in [Session -> Player \cup {None}]
    /\ target \in [Session -> Player \cup AgeUuid \cup {None}]
    /\ step \in [Session -> Nat]
    /\ found \in [Session -> Session \cup {None}]
    /\ age_reply \in [Session -> [uuid : AgeUuid, age : Session, info : Session] \cup {None}]
    /\ raced \subseteq Player
    /\ raced_ages \subseteq AgeUuid
    /\ Handlers

(* The first state is typed.                                               *)
LEMMA InitTypeOK == Init => TypeOK
  <1> SUFFICES ASSUME Init PROVE TypeOK
    OBVIOUS
  <1>1. owner \in [Player -> Account \cup {None}]
    BY ReadyAssumption DEF Init
  <1>2. Handlers
    BY DEF Init, Handlers, creating
  <1> QED
    BY <1>1, <1>2 DEF Init, TypeOK

(* Nothing that a worker does concerns the handler of another worker.      *)
LEMMA OthersHandlers ==
    ASSUME TypeOK, NEW s \in Session,
           \A t \in Session \ {s} : /\ pc'[t] = pc[t] /\ target'[t] = target[t] /\ step'[t] = step[t]
                                    /\ found'[t] = found[t] /\ player_id'[t] = player_id[t],
           pc'[s] \in {"set_info", "set_update", "create_player"} => target'[s] \in Player,
           pc'[s] \in {"create_age", "age_info"} => target'[s] \in AgeUuid,
           pc'[s] = "age_info" => found'[s] \in Session,
           pc'[s] \in {"off_info", "off_update"} => player_id'[s] # None,
           creating(s)' => step'[s] \in 1..Len(calls(s)')
    PROVE  Handlers'
  <1> SUFFICES ASSUME NEW t \in Session \ {s}
               PROVE  /\ pc'[t] \in {"set_info", "set_update", "create_player"} => target'[t] \in Player
                      /\ pc'[t] \in {"create_age", "age_info"} => target'[t] \in AgeUuid
                      /\ pc'[t] = "age_info" => found'[t] \in Session
                      /\ pc'[t] \in {"off_info", "off_update"} => player_id'[t] # None
                      /\ creating(t)' => step'[t] \in 1..Len(calls(t)')
    BY DEF Handlers
  <1>1. creating(t)' = creating(t) /\ calls(t)' = calls(t)
    BY DEF creating, calls
  <1> QED
    BY <1>1 DEF TypeOK, Handlers

(* Every step keeps the types.                                             *)
LEMMA NextTypeOK == TypeOK /\ [Next]_vars => TypeOK'
  <1> SUFFICES ASSUME TypeOK, [Next]_vars PROVE TypeOK'
    OBVIOUS
  <1>u. CASE UNCHANGED vars
    BY <1>u DEF vars, vaultVars, workerVars, ghostVars, TypeOK, Handlers, creating, calls
  <1> SUFFICES ASSUME NEW s \in Session, Client(s) \/ Worker(s) PROVE TypeOK'
    BY <1>u DEF Next
  <1> USE DEF TypeOK
  <1> DEFINE Elsewhere == \A t \in Session \ {s} :
                 /\ pc'[t] = pc[t] /\ target'[t] = target[t] /\ step'[t] = step[t]
                 /\ found'[t] = found[t] /\ player_id'[t] = player_id[t]
             Here == /\ pc'[s] \in {"set_info", "set_update", "create_player"} => target'[s] \in Player
                     /\ pc'[s] \in {"create_age", "age_info"} => target'[s] \in AgeUuid
                     /\ pc'[s] = "age_info" => found'[s] \in Session
                     /\ pc'[s] \in {"off_info", "off_update"} => player_id'[s] # None
                     /\ creating(s)' => step'[s] \in 1..Len(calls(s)')
  <1>h. ASSUME Elsewhere, Here PROVE Handlers'
    BY <1>h, OthersHandlers
  <1>c. \A p \in Player : 1 \in 1..Len(PlayerCalls[p])
    BY CallLengths
  <1>d. \A u \in AgeUuid : 1 \in 1..Len(AgeCalls[<<s, u>>])
    BY CallLengths
  <1>1. CASE Connect(s) \/ HangUp(s) \/ Panic(s)
    <2>1. Elsewhere /\ Here
      BY <1>1 DEF Connect, HangUp, Panic, Gone, Done, Goto, creating
    <2> HIDE DEF Elsewhere, Here
    <2> QED
      BY <1>1, <1>h, <2>1 DEF Connect, HangUp, Panic, Gone, Done, Goto, vaultVars, ghostVars
  <1>2. ASSUME NEW a \in Account, LoginRequest(s, a) PROVE TypeOK'
    <2>1. Elsewhere /\ Here
      BY <1>2 DEF LoginRequest, creating
    <2> HIDE DEF Elsewhere, Here
    <2> QED
      BY <1>2, <1>h, <2>1 DEF LoginRequest, vaultVars, ghostVars
  <1>3. ASSUME NEW p \in Player, SetPlayerRequest(s, p) PROVE TypeOK'
    <2>1. Elsewhere /\ Here
      BY <1>3 DEF SetPlayerRequest, Goto, creating
    <2> HIDE DEF Elsewhere, Here
    <2> QED
      BY <1>3, <1>h, <2>1 DEF SetPlayerRequest, Goto, vaultVars, ghostVars
  <1>4. ASSUME NEW p \in Player, PlayerCreateRequest(s, p) PROVE TypeOK'
    <2>1. Elsewhere /\ Here
      BY <1>4, <1>c DEF PlayerCreateRequest, Goto, creating, calls
    <2> HIDE DEF Elsewhere, Here
    <2> QED
      BY <1>4, <1>h, <2>1 DEF PlayerCreateRequest, Goto, ghostVars
  <1>5. ASSUME NEW r \in ClientRef, VaultNodeAdd(s, r) PROVE TypeOK'
    <2>1. Elsewhere /\ Here
      BY <1>5 DEF VaultNodeAdd, workerVars, creating
    <2> HIDE DEF Elsewhere, Here
    <2> QED
      BY <1>5, <1>h, <2>1 DEF VaultNodeAdd, workerVars, ghostVars
  <1>6. ASSUME NEW u \in AgeUuid, InitAgeRequest(s, u) PROVE TypeOK'
    <2>1. Elsewhere /\ Here
      BY <1>6, <1>d DEF InitAgeRequest, find_age, Goto, creating, calls
    <2> HIDE DEF Elsewhere, Here
    <2>2. CASE find_age(u) = {}
      BY <1>6, <1>h, <2>1, <2>2 DEF InitAgeRequest, Goto, vaultVars
    <2>3. CASE find_age(u) # {}
      <3>1. PICK t \in Session : found' = [found EXCEPT ![s] = t]
        BY <1>6, <2>3 DEF InitAgeRequest, find_age
      <3> QED
        BY <1>6, <1>h, <2>1, <2>3, <3>1 DEF InitAgeRequest, Goto, vaultVars
    <2> QED
      BY <2>2, <2>3
  <1>7. CASE OffInfo(s) \/ OffUpdate(s)
    <2>1. Elsewhere /\ Here
      BY <1>7 DEF OffInfo, OffUpdate, Handlers, Gone, Goto, creating
    <2> HIDE DEF Elsewhere, Here
    <2> QED
      BY <1>7, <1>h, <2>1 DEF OffInfo, OffUpdate, Gone, Goto, vaultVars, ghostVars
  <1>8. CASE SetInfo(s) \/ SetUpdate(s)
    <2>0. target[s] \in Player
      BY <1>8 DEF SetInfo, SetUpdate, Handlers
    <2>1. Elsewhere /\ Here
      BY <1>8, <2>0 DEF SetInfo, SetUpdate, Done, Goto, creating
    <2> HIDE DEF Elsewhere, Here
    <2>2. Handlers'
      BY <1>h, <2>1
    <2>3. CASE SetInfo(s)
      BY <2>0, <2>2, <2>3 DEF SetInfo, Done, Goto, vaultVars
    <2>4. CASE SetUpdate(s)
      BY <2>0, <2>2, <2>4 DEF SetUpdate, Done, Goto, ghostVars
    <2> QED
      BY <1>8, <2>3, <2>4
  <1>9. CASE FindAgeInfo(s)
    <2>0. target[s] \in AgeUuid /\ found[s] \in Session
      BY <1>9 DEF FindAgeInfo, Handlers
    <2>1. Elsewhere /\ Here
      BY <1>9 DEF FindAgeInfo, Done, Goto, creating
    <2> HIDE DEF Elsewhere, Here
    <2>2. age_reply' \in [Session -> [uuid : AgeUuid, age : Session, info : Session] \cup {None}]
      <3>1. CASE UNCHANGED age_reply
        BY <3>1
      <3>2. ASSUME NEW t \in Session,
                   age_reply' = [age_reply EXCEPT ![s] = [uuid |-> target[s], age |-> found[s], info |-> t]]
            PROVE  age_reply' \in [Session -> [uuid : AgeUuid, age : Session, info : Session] \cup {None}]
        BY <2>0, <3>2
      <3> QED
        BY <1>9, <3>1, <3>2 DEF FindAgeInfo, find_age_info
    <2> QED
      BY <1>9, <1>h, <2>1, <2>2 DEF FindAgeInfo, Done, Goto, vaultVars, ghostVars
  <1>10. CASE HelperCall(s)
    <2>0. step[s] \in 1..Len(calls(s)) /\ (pc[s] = "create_age" => target[s] \in AgeUuid)
          /\ (pc[s] = "create_player" => target[s] \in Player)
      BY <1>10 DEF HelperCall, Handlers
    <2>1. Len(calls(s)) \in Nat
      BY <1>10, CallLengths DEF HelperCall, Handlers, creating, calls
    <2>2. Elsewhere
      BY <1>10 DEF HelperCall, Done, Goto
    <2>3. CASE step[s] = Len(calls(s))
      <3>1. Here
        BY <1>10, <2>3 DEF HelperCall, Done, Goto, creating
      <3> HIDE DEF Elsewhere, Here
      <3> QED
        BY <1>10, <1>h, <2>0, <2>2, <2>3, <3>1 DEF HelperCall, Done, Goto, ghostVars
    <2>4. CASE step[s] # Len(calls(s))
      <3>1. pc' = pc /\ target' = target /\ step'[s] = step[s] + 1
        BY <1>10, <2>4 DEF HelperCall
      <3>2. calls(s)' = calls(s) /\ creating(s)' = creating(s)
        BY <3>1 DEF calls, creating
      <3>3. Here
        BY <1>10, <2>0, <2>1, <2>4, <3>1, <3>2 DEF HelperCall, creating
      <3> HIDE DEF Elsewhere, Here
      <3> QED
        BY <1>10, <1>h, <2>2, <2>4, <3>3 DEF HelperCall, ghostVars
    <2> QED
      BY <2>3, <2>4
  <1>11. CASE HelperFails(s)
    <2>1. Elsewhere /\ Here
      BY <1>11 DEF HelperFails, Gone, Done, Goto, creating
    <2> HIDE DEF Elsewhere, Here
    <2> QED
      BY <1>11, <1>h, <2>1 DEF HelperFails, Gone, Done, Goto, vaultVars, ghostVars
  <1> QED
    BY <1>1, <1>2, <1>3, <1>4, <1>5, <1>6, <1>7, <1>8, <1>9, <1>10, <1>11 DEF Client, Worker

-----------------------------------------------------------------------------
(* The vault: what is referred to is there, and what is listed is whole.   *)

(* What a call leaves behind, in a vault of such nodes, references and     *)
(* game servers.                                                           *)
Leaves(call, vnodes, vrefs, games) ==
    /\ call.op = "create" => call.node \in vnodes
    /\ call.op = "ref" => <<call.node, call.child>> \in vrefs
    /\ call.op = "game" => call.node \in games
Performed(call) == Leaves(call, nodes, refs, game_servers)

(* The nodes that helpers find: those of the vault itself and, for a       *)
(* player that is being created, its Player node.                          *)
Rooted ==
    /\ {System, GlobalInbox, AllPlayers} \subseteq nodes
    /\ \A s \in Session : pc[s] = "create_player" => <<PlayerOf(target[s]), "player">> \in nodes

(* A helper's calls were all made up to the one it is at.                  *)
CallsPerformed ==
    \A s \in Session : creating(s) => \A i \in 1..(step[s] - 1) : Performed(calls(s)[i])

(* All of the calls were made for a player that is listed.                 *)
ListedWhole ==
    \A p \in Player : published(p) => \A i \in DOMAIN PlayerCalls[p] : Performed(PlayerCalls[p][i])

(* A player that a session has, or is about to have, has an info node.     *)
SignedInFound ==
    \A s \in Session : /\ player_id[s] # None => HasInfo(player_id[s])
                       /\ pc[s] = "set_update" => HasInfo(target[s])

VaultInv ==
    /\ TypeOK
    /\ Rooted
    /\ NoDanglingRefs
    /\ RefsDescend
    /\ CallsPerformed
    /\ ListedWhole
    /\ SignedInFound

(* A tree is complete when all of its helper's calls were made.            *)
LEMMA CompleteIsPerformed ==
    ASSUME NEW p \in Player
    PROVE  complete(PlayerTree[p]) <=> \A i \in DOMAIN PlayerCalls[p] : Performed(PlayerCalls[p][i])
  <1> DEFINE c == PlayerCalls[p]
             T == PlayerTree[p]
  <1>1. /\ T.nodes = {c[i].node : i \in {j \in DOMAIN c : c[j].op = "create"}}
        /\ T.refs = {<<c[i].node, c[i].child>> : i \in {j \in DOMAIN c : c[j].op = "ref"}}
        /\ T.games = {c[i].node : i \in {j \in DOMAIN c : c[j].op = "game"}}
    BY DEF PlayerTree, Tree
  <1> HIDE DEF c, T
  <1>2. complete(T) => \A i \in DOMAIN c : Performed(c[i])
    BY <1>1 DEF complete, Performed, Leaves
  <1>3. (\A i \in DOMAIN c : Performed(c[i])) => complete(T)
    BY <1>1 DEF complete, Performed, Leaves
  <1> QED
    BY <1>2, <1>3 DEF c, T

(* The last call of create_player_nodes is the only one that lists a       *)
(* player, and every reference leads to a higher rank.                     *)
LEMMA PlayerCallKinds ==
    ASSUME NEW p \in Player, NEW i \in DOMAIN PlayerCalls[p]
    PROVE  /\ PlayerCalls[p][i] \in Call
           /\ \/ PlayerCalls[p][i] \in Quiet({PlayerOf(p), ReltoOf(p)})
              \/ i = Len(PlayerCalls[p]) /\ PlayerCalls[p][i] = ref(AllPlayers, PlayerInfo(p))
  <1> DEFINE c == PlayerCalls[p]
  <1>1. /\ c \in Seq(Call) /\ DOMAIN c = 1..Len(c)
        /\ i # Len(c) => c[i] \in Quiet({PlayerOf(p), ReltoOf(p)})
        /\ c[Len(c)] = ref(AllPlayers, PlayerInfo(p))
    BY PlayerCallsFacts, Zenon DEF PlayerHelper
  <1> HIDE DEF c
  <1>2. c[i] \in Call
    BY <1>1, ElementOfSeq DEF c
  <1> QED
    BY <1>1, <1>2 DEF c

(* The reference that lists a player goes down from All Players to its     *)
(* info node.                                                              *)
LEMMA ListingRef ==
    ASSUME NEW p \in Player
    PROVE  LET x == ref(AllPlayers, PlayerInfo(p))
           IN  /\ x.op = "ref" /\ x.node = AllPlayers /\ x.child = PlayerInfo(p)
               /\ Rank(x.node) = 0 /\ Rank(x.child) = 6
  <1>1. Rank(AllPlayers) = 0 /\ Rank(PlayerInfo(p)) = 6
    BY Ranks DEF AllPlayers, PlayerInfo
  <1> QED
    BY <1>1 DEF ref

(* Players have different info nodes.                                      *)
LEMMA InfoInjective ==
    /\ \A p, q : PlayerInfo(p) = PlayerInfo(q) => p = q
    /\ System # AllPlayers
  BY DEF PlayerInfo, PlayerOf, AllPlayers, System, VaultOf

(* The vault's first state, with System and All Players in it, is          *)
(* consistent.                                                             *)
LEMMA InitVaultInv == Init => VaultInv
  <1> SUFFICES ASSUME Init PROVE VaultInv
    OBVIOUS
  <1>1. TypeOK
    BY InitTypeOK
  <1>2. Rooted /\ CallsPerformed /\ SignedInFound
    BY DEF Init, Rooted, CallsPerformed, SignedInFound, creating
  <1>3. ASSUME NEW p \in Ready PROVE \A i \in DOMAIN PlayerCalls[p] : Performed(PlayerCalls[p][i])
    <2>1. p \in Player
      BY ReadyAssumption
    <2>2. complete(PlayerTree[p])
      BY DEF Init, complete
    <2> QED
      BY <2>1, <2>2, CompleteIsPerformed
  <1>4. ASSUME NEW r \in refs, r # <<System, GlobalInbox>>
        PROVE  \E p \in Ready : \E i \in DOMAIN PlayerCalls[p] :
                 PlayerCalls[p][i].op = "ref" /\ r = <<PlayerCalls[p][i].node, PlayerCalls[p][i].child>>
    <2>1. PICK p \in Ready : r \in PlayerTree[p].refs
      BY <1>4 DEF Init
    <2>2. p \in Player
      BY ReadyAssumption
    <2>3. PlayerTree[p].refs = {<<PlayerCalls[p][i].node, PlayerCalls[p][i].child>> :
                                  i \in {j \in DOMAIN PlayerCalls[p] : PlayerCalls[p][j].op = "ref"}}
      BY <2>2 DEF PlayerTree, Tree
    <2> QED
      BY <2>1, <2>3
  <1>5. NoDanglingRefs
    <2> SUFFICES ASSUME NEW r \in refs PROVE {r[1], r[2]} \subseteq nodes
      BY DEF NoDanglingRefs
    <2>1. CASE r = <<System, GlobalInbox>>
      <3>1. GlobalInbox[2] = "global_inbox" /\ r[1] = System /\ r[2] = GlobalInbox
        BY <2>1 DEF GlobalInbox
      <3> QED
        BY <3>1 DEF Init
    <2>2. CASE r # <<System, GlobalInbox>>
      <3>1. PICK p \in Ready : \E i \in DOMAIN PlayerCalls[p] :
              PlayerCalls[p][i].op = "ref" /\ r = <<PlayerCalls[p][i].node, PlayerCalls[p][i].child>>
        BY <1>4, <2>2
      <3> DEFINE c == PlayerCalls[p]
      <3>2. PICK i \in DOMAIN c : c[i].op = "ref" /\ r = <<c[i].node, c[i].child>>
        BY <3>1
      <3>3. p \in Player
        BY ReadyAssumption
      <3>4. Grounded(PlayerBase(p), c) /\ DOMAIN c = 1..Len(c) /\ Len(c) \in Nat
        BY <3>3, PlayerCallsFacts, Zenon DEF PlayerHelper
      <3>5. \A j \in DOMAIN c : Performed(c[j])
        BY <1>3
      <3> HIDE DEF c
      <3>6. CallNeeds(c[i]) \subseteq PlayerBase(p) \cup {c[j].node : j \in {k \in 1..(i - 1) : c[k].op = "create"}}
        BY <3>4 DEF Grounded
      <3>7. {c[j].node : j \in {k \in 1..(i - 1) : c[k].op = "create"}} \subseteq nodes
        <4>1. ASSUME NEW k \in 1..(i - 1), c[k].op = "create" PROVE c[k].node \in nodes
          <5>1. k \in DOMAIN c
            BY <3>4
          <5> QED
            BY <3>5, <4>1, <5>1 DEF Performed, Leaves
        <4> QED
          BY <4>1
      <3>8. PlayerBase(p) \subseteq nodes
        BY DEF Init, PlayerBase
      <3>9. CallNeeds(c[i]) = {r[1], r[2]}
        BY <3>2 DEF CallNeeds
      <3> QED
        BY <3>6, <3>7, <3>8, <3>9
    <2> QED
      BY <2>1, <2>2
  <1>6. RefsDescend
    <2> SUFFICES ASSUME NEW r \in refs PROVE Rank(r[1]) < Rank(r[2])
      BY DEF RefsDescend
    <2>1. CASE r = <<System, GlobalInbox>>
      <3>1. Rank(System) = 7 /\ Rank(GlobalInbox) = 8
        BY Ranks DEF System, GlobalInbox
      <3>2. r[1] = System /\ r[2] = GlobalInbox
        BY <2>1
      <3> QED
        BY <3>1, <3>2
    <2>2. CASE r # <<System, GlobalInbox>>
      <3>1. PICK p \in Ready : \E i \in DOMAIN PlayerCalls[p] :
              PlayerCalls[p][i].op = "ref" /\ r = <<PlayerCalls[p][i].node, PlayerCalls[p][i].child>>
        BY <1>4, <2>2
      <3>2. PICK i \in DOMAIN PlayerCalls[p] :
              PlayerCalls[p][i].op = "ref" /\ r = <<PlayerCalls[p][i].node, PlayerCalls[p][i].child>>
        BY <3>1
      <3>3. p \in Player
        BY ReadyAssumption
      <3>4. r[1] = PlayerCalls[p][i].node /\ r[2] = PlayerCalls[p][i].child
        BY <3>2
      <3>5. CASE PlayerCalls[p][i] \in Quiet({PlayerOf(p), ReltoOf(p)})
        BY <3>2, <3>4, <3>5 DEF Quiet
      <3>6. CASE PlayerCalls[p][i] = ref(AllPlayers, PlayerInfo(p))
        BY <3>3, <3>4, <3>6, ListingRef
      <3> QED
        BY <3>3, <3>5, <3>6, PlayerCallKinds
    <2> QED
      BY <2>1, <2>2
  <1>7. ListedWhole
    <2> SUFFICES ASSUME NEW p \in Player, published(p) PROVE p \in Ready
      BY <1>3 DEF ListedWhole
    <2> DEFINE r == <<AllPlayers, PlayerInfo(p)>>
    <2>1. r \in refs /\ r # <<System, GlobalInbox>>
      BY InfoInjective DEF published
    <2>2. PICK q \in Ready : \E i \in DOMAIN PlayerCalls[q] :
            PlayerCalls[q][i].op = "ref" /\ r = <<PlayerCalls[q][i].node, PlayerCalls[q][i].child>>
      BY <1>4, <2>1
    <2>3. PICK i \in DOMAIN PlayerCalls[q] :
            PlayerCalls[q][i].op = "ref" /\ r = <<PlayerCalls[q][i].node, PlayerCalls[q][i].child>>
      BY <2>2
    <2>4. q \in Player
      BY ReadyAssumption
    <2>5. PlayerCalls[q][i].node = AllPlayers /\ PlayerCalls[q][i].child = PlayerInfo(p)
      BY <2>3
    <2>6. PlayerCalls[q][i] \notin Quiet({PlayerOf(q), ReltoOf(q)})
      BY <2>3, <2>5 DEF Quiet
    <2>7. PlayerCalls[q][i] = ref(AllPlayers, PlayerInfo(q))
      BY <2>4, <2>6, PlayerCallKinds
    <2>8. PlayerInfo(p) = PlayerInfo(q)
      BY <2>4, <2>5, <2>7, ListingRef
    <2> QED
      BY <2>8, InfoInjective
  <1> QED
    BY <1>1, <1>2, <1>5, <1>6, <1>7 DEF VaultInv

(* The helper a worker is in.                                              *)
LEMMA HelperOf ==
    ASSUME TypeOK, NEW s \in Session, creating(s)
    PROVE  /\ step[s] \in 1..Len(calls(s)) /\ Len(calls(s)) \in Nat
           /\ DOMAIN calls(s) = 1..Len(calls(s))
           /\ \/ /\ pc[s] = "create_player" /\ target[s] \in Player
                 /\ calls(s) = PlayerCalls[target[s]]
                 /\ PlayerHelper(target[s], calls(s))
              \/ /\ pc[s] = "create_age" /\ target[s] \in AgeUuid
                 /\ calls(s) = AgeCalls[<<s, target[s]>>]
                 /\ AgeHelper(s, target[s], calls(s))
  <1>1. step[s] \in 1..Len(calls(s))
    BY DEF TypeOK, Handlers
  <1>2. CASE pc[s] = "create_player"
    <2>1. target[s] \in Player /\ calls(s) = PlayerCalls[target[s]]
      BY <1>2 DEF TypeOK, Handlers, calls
    <2>2. PlayerHelper(target[s], calls(s))
      BY <2>1, PlayerCallsFacts
    <2>3. Len(calls(s)) \in Nat /\ DOMAIN calls(s) = 1..Len(calls(s))
      BY <2>2, Zenon DEF PlayerHelper
    <2> QED
      BY <1>1, <1>2, <2>1, <2>2, <2>3
  <1>3. CASE pc[s] = "create_age"
    <2>1. target[s] \in AgeUuid /\ calls(s) = AgeCalls[<<s, target[s]>>]
      BY <1>3 DEF TypeOK, Handlers, calls
    <2>2. AgeHelper(s, target[s], calls(s))
      BY <2>1, AgeCallsFacts
    <2>3. Len(calls(s)) \in Nat /\ DOMAIN calls(s) = 1..Len(calls(s))
      BY <2>2, Zenon DEF AgeHelper
    <2> QED
      BY <1>1, <1>3, <2>1, <2>2, <2>3
  <1> QED
    BY <1>2, <1>3 DEF creating

(* What the next call of a helper refers to is in the vault, in order of   *)
(* rank; and it lists a player only when it is the last call for it.       *)
LEMMA NextCall ==
    ASSUME TypeOK, Rooted, CallsPerformed, NEW s \in Session, creating(s)
    PROVE  LET call == calls(s)[step[s]]
           IN  /\ CallNeeds(call) \subseteq nodes
               /\ call.op = "ref" => Rank(call.node) < Rank(call.child)
               /\ \/ /\ call.op = "ref" => call.node # AllPlayers
                     /\ call.op = "create" => call.node \in
                          (IF pc[s] = "create_player"
                           THEN {PlayerOf(target[s]), ReltoOf(target[s])}
                           ELSE {AgeOf(s, target[s])}) \X Slot
                  \/ /\ pc[s] = "create_player" /\ step[s] = Len(calls(s))
                     /\ call = ref(AllPlayers, PlayerInfo(target[s]))
  <1> DEFINE c == calls(s)
             i == step[s]
             before == {c[j].node : j \in {k \in 1..(i - 1) : c[k].op = "create"}}
  <1>1. i \in 1..Len(c) /\ DOMAIN c = 1..Len(c) /\ Len(c) \in Nat
    BY HelperOf
  <1>2. \A k \in 1..(i - 1) : Performed(c[k])
    BY DEF CallsPerformed
  <1> HIDE DEF c, i
  <1>3. before \subseteq nodes
    BY <1>2 DEF Performed, Leaves
  <1>4. CASE pc[s] = "create_player" /\ target[s] \in Player /\ PlayerHelper(target[s], c)
    <2> DEFINE p == target[s]
    <2>1. /\ Grounded(PlayerBase(p), c)
          /\ \A k \in DOMAIN c : k # Len(c) => c[k] \in Quiet({PlayerOf(p), ReltoOf(p)})
          /\ c[Len(c)] = ref(AllPlayers, PlayerInfo(p))
      BY <1>4, Zenon DEF PlayerHelper
    <2>2. PlayerBase(p) \subseteq nodes
      BY <1>4 DEF Rooted, PlayerBase
    <2> HIDE DEF p
    <2>3. CallNeeds(c[i]) \subseteq PlayerBase(p) \cup before
      BY <1>1, <2>1 DEF Grounded
    <2>4. CASE i # Len(c)
      <3>1. c[i] \in Quiet({PlayerOf(p), ReltoOf(p)})
        BY <1>1, <2>1, <2>4
      <3>2. /\ c[i].op = "ref" => c[i].node # AllPlayers /\ Rank(c[i].node) < Rank(c[i].child)
            /\ c[i].op = "create" => c[i].node \in {PlayerOf(p), ReltoOf(p)} \X Slot
        BY <3>1 DEF Quiet
      <3> QED
        BY <1>3, <1>4, <2>2, <2>3, <3>2 DEF c, i, p
    <2>5. CASE i = Len(c)
      <3>1. c[i] = ref(AllPlayers, PlayerInfo(p))
        BY <2>1, <2>5
      <3>2. Rank(c[i].node) < Rank(c[i].child)
        BY <1>4, <3>1, ListingRef DEF p
      <3> QED
        BY <1>3, <1>4, <2>2, <2>3, <2>5, <3>1, <3>2 DEF c, i, p
    <2> QED
      BY <2>4, <2>5
  <1>5. CASE pc[s] = "create_age" /\ AgeHelper(s, target[s], c)
    <2>1. Grounded({System}, c) /\ \A k \in DOMAIN c : c[k] \in Quiet({AgeOf(s, target[s])})
      BY <1>5, Zenon DEF AgeHelper
    <2>2. CallNeeds(c[i]) \subseteq {System} \cup before
      BY <1>1, <2>1 DEF Grounded
    <2>3. System \in nodes
      BY DEF Rooted
    <2>4. c[i] \in Quiet({AgeOf(s, target[s])})
      BY <1>1, <2>1
    <2>5. /\ c[i].op = "ref" => c[i].node # AllPlayers /\ Rank(c[i].node) < Rank(c[i].child)
          /\ c[i].op = "create" => c[i].node \in {AgeOf(s, target[s])} \X Slot
      BY <2>4 DEF Quiet
    <2> QED
      BY <1>3, <1>5, <2>2, <2>3, <2>5 DEF c, i
  <1> QED
    BY <1>4, <1>5, HelperOf DEF c

(* The vault only grows, so what was performed stays performed.            *)
LEMMA PerformedStays ==
    ASSUME nodes \subseteq nodes', refs \subseteq refs', game_servers \subseteq game_servers',
           NEW call, Performed(call)
    PROVE  Leaves(call, nodes', refs', game_servers')
  BY DEF Performed, Leaves

(* A step that leaves the vault alone, and at most starts on an age.       *)
LEMMA VaultAlone ==
    ASSUME VaultInv, UNCHANGED <<nodes, refs, game_servers>>,
           \A t \in Session : creating(t)' =>
             \/ pc'[t] = "create_age" /\ step'[t] = 1
             \/ pc'[t] = pc[t] /\ target'[t] = target[t] /\ step'[t] = step[t]
    PROVE  Rooted' /\ NoDanglingRefs' /\ RefsDescend' /\ CallsPerformed' /\ ListedWhole'
  <1>1. Rooted'
    BY DEF VaultInv, Rooted, creating
  <1>2. NoDanglingRefs' /\ RefsDescend'
    BY DEF VaultInv, NoDanglingRefs, RefsDescend
  <1>3. CallsPerformed'
    <2> SUFFICES ASSUME NEW t \in Session, creating(t)', NEW i \in 1..(step'[t] - 1)
                 PROVE  Performed(calls(t)[i])'
      BY DEF CallsPerformed
    <2>1. pc'[t] = pc[t] /\ target'[t] = target[t] /\ step'[t] = step[t]
      OBVIOUS
    <2>2. calls(t)' = calls(t) /\ creating(t)
      BY <2>1 DEF calls, creating
    <2>3. Performed(calls(t)[i])
      BY <2>1, <2>2 DEF VaultInv, CallsPerformed
    <2> QED
      BY <2>2, <2>3 DEF Performed
  <1>4. ListedWhole'
    BY DEF VaultInv, ListedWhole, published, Performed
  <1> QED
    BY <1>1, <1>2, <1>3, <1>4

(* Signing in takes the player whose info node was found.                  *)
LEMMA FoundStays ==
    ASSUME VaultInv, nodes \subseteq nodes', refs \subseteq refs', client_refs \subseteq client_refs',
           \A t \in Session : \/ player_id'[t] \in {None, player_id[t]}
                              \/ pc[t] = "set_update" /\ player_id'[t] = target[t],
           \A t \in Session : pc'[t] = "set_update" =>
             \/ pc[t] = "set_update" /\ target'[t] = target[t]
             \/ HasInfo(target'[t])
    PROVE  SignedInFound'
  BY DEF VaultInv, SignedInFound, HasInfo

(* One call of a creation helper, the only step that adds nodes or         *)
(* references of a tree, keeps the vault consistent.                       *)
LEMMA HelperCallVault ==
    ASSUME VaultInv, NEW s \in Session, HelperCall(s)
    PROVE  Rooted' /\ NoDanglingRefs' /\ RefsDescend' /\ CallsPerformed' /\ ListedWhole' /\ SignedInFound'
  <1> DEFINE call == calls(s)[step[s]]
  <1>a. /\ creating(s)
        /\ nodes' = IF call.op = "create" THEN nodes \cup {call.node} ELSE nodes
        /\ refs' = IF call.op = "ref" THEN refs \cup {<<call.node, call.child>>} ELSE refs
        /\ game_servers' = IF call.op = "game" THEN game_servers \cup {call.node} ELSE game_servers
        /\ player_id' = player_id /\ client_refs' = client_refs
    BY DEF HelperCall
  <1>b. TypeOK /\ Rooted /\ CallsPerformed /\ NoDanglingRefs /\ RefsDescend /\ ListedWhole
    BY DEF VaultInv
  <1>c. /\ CallNeeds(call) \subseteq nodes
        /\ call.op = "ref" => Rank(call.node) < Rank(call.child)
        /\ \/ call.op = "ref" => call.node # AllPlayers
           \/ /\ pc[s] = "create_player" /\ step[s] = Len(calls(s))
              /\ call = ref(AllPlayers, PlayerInfo(target[s]))
    BY <1>a, <1>b, NextCall
  <1>d. \A t \in Session : creating(t)' =>
          /\ pc'[t] = pc[t] /\ target'[t] = target[t]
          /\ step'[t] = IF t = s THEN step[t] + 1 ELSE step[t]
    BY <1>b DEF HelperCall, Done, Goto, TypeOK, creating
  <1>e. \A t \in Session : pc'[t] = "set_update" => pc[t] = "set_update" /\ target'[t] = target[t]
    BY <1>b DEF HelperCall, Done, Goto, TypeOK, creating
  <1>f. step[s] \in 1..Len(calls(s)) /\ Len(calls(s)) \in Nat /\ DOMAIN calls(s) = 1..Len(calls(s))
    BY <1>a, <1>b, HelperOf
  <1>g. nodes \subseteq nodes' /\ refs \subseteq refs' /\ game_servers \subseteq game_servers'
    BY <1>a
  <1>h. Leaves(call, nodes', refs', game_servers')
    <2> HIDE DEF call
    <2> QED
      BY <1>a DEF Leaves
  <1> HIDE DEF call
  <1>1. Rooted'
    BY <1>b, <1>d, <1>g DEF Rooted, creating
  <1>2. NoDanglingRefs'
    <2> SUFFICES ASSUME NEW r \in refs' PROVE {r[1], r[2]} \subseteq nodes'
      BY DEF NoDanglingRefs
    <2>1. CASE r \in refs
      BY <2>1, <1>b, <1>g DEF NoDanglingRefs
    <2>2. CASE r \notin refs
      <3>1. call.op = "ref" /\ r = <<call.node, call.child>>
        BY <1>a, <2>2
      <3>2. CallNeeds(call) = {r[1], r[2]}
        BY <3>1 DEF CallNeeds
      <3> QED
        BY <1>c, <1>g, <3>2
    <2> QED
      BY <2>1, <2>2
  <1>3. RefsDescend'
    BY <1>a, <1>b, <1>c DEF RefsDescend
  <1>4. CallsPerformed'
    <2> SUFFICES ASSUME NEW t \in Session, creating(t)', NEW i \in 1..(step'[t] - 1)
                 PROVE  Performed(calls(t)[i])'
      BY DEF CallsPerformed
    <2>1. calls(t)' = calls(t) /\ creating(t)
      BY <1>d DEF calls, creating
    <2>2. CASE t = s /\ i = step[s]
      BY <1>h, <2>1, <2>2 DEF call, Performed
    <2>3. CASE ~(t = s /\ i = step[s])
      <3>1. i \in 1..(step[t] - 1)
        BY <1>b, <1>d, <1>f, <2>3 DEF TypeOK
      <3>2. Performed(calls(t)[i])
        BY <1>b, <2>1, <3>1 DEF CallsPerformed
      <3>3. Leaves(calls(t)[i], nodes', refs', game_servers')
        BY <1>g, <3>2, PerformedStays
      <3> QED
        BY <2>1, <3>3 DEF Performed
    <2> QED
      BY <2>2, <2>3
  <1>5. ListedWhole'
    <2> SUFFICES ASSUME NEW p \in Player, published(p)', NEW i \in DOMAIN PlayerCalls[p]
                 PROVE  Performed(PlayerCalls[p][i])'
      BY DEF ListedWhole
    <2>1. CASE published(p)
      BY <1>b, <1>g, <2>1, PerformedStays DEF ListedWhole, Performed
    <2>2. CASE ~published(p)
      <3>1. call.op = "ref" /\ <<AllPlayers, PlayerInfo(p)>> = <<call.node, call.child>>
        BY <1>a, <2>2 DEF published
      <3>2. pc[s] = "create_player" /\ step[s] = Len(calls(s)) /\ call = ref(AllPlayers, PlayerInfo(target[s]))
        BY <1>c, <3>1
      <3>3. target[s] \in Player /\ calls(s) = PlayerCalls[target[s]]
        BY <1>b, <3>2 DEF TypeOK, Handlers, calls
      <3>4. target[s] = p
        BY <3>1, <3>2, <3>3, ListingRef, InfoInjective
      <3>5. CASE i = step[s]
        BY <1>h, <3>3, <3>4, <3>5 DEF call, Performed
      <3>6. CASE i # step[s]
        <4>1. i \in 1..(step[s] - 1)
          BY <1>f, <3>2, <3>3, <3>4, <3>6
        <4>2. Performed(PlayerCalls[p][i])
          BY <1>a, <1>b, <3>3, <3>4, <4>1 DEF CallsPerformed
        <4> QED
          BY <1>g, <4>2, PerformedStays DEF Performed
      <3> QED
        BY <3>5, <3>6
    <2> QED
      BY <2>1, <2>2
  <1>6. SignedInFound'
    BY <1>a, <1>e, <1>g, FoundStays
  <1> QED
    BY <1>1, <1>2, <1>3, <1>4, <1>5, <1>6

(* Every step keeps the vault consistent.                                  *)
LEMMA NextVaultInv == VaultInv /\ [Next]_vars => VaultInv'
  <1> SUFFICES ASSUME VaultInv, [Next]_vars PROVE VaultInv'
    OBVIOUS
  <1> DEFINE Vault == Rooted /\ NoDanglingRefs /\ RefsDescend /\ CallsPerformed /\ ListedWhole
                        /\ SignedInFound
  <1>t. TypeOK /\ TypeOK'
    BY NextTypeOK DEF VaultInv
  <1> SUFFICES Vault'
    BY <1>t DEF VaultInv
  <1> DEFINE
        Same == /\ UNCHANGED <<nodes, refs, game_servers>> /\ client_refs \subseteq client_refs'
                /\ \A t \in Session : creating(t)' =>
                     \/ pc'[t] = "create_age" /\ step'[t] = 1
                     \/ pc'[t] = pc[t] /\ target'[t] = target[t] /\ step'[t] = step[t]
        Signs == /\ \A t \in Session : \/ player_id'[t] \in {None, player_id[t]}
                                       \/ pc[t] = "set_update" /\ player_id'[t] = target[t]
                 /\ \A t \in Session : pc'[t] = "set_update" =>
                      \/ pc[t] = "set_update" /\ target'[t] = target[t]
                      \/ HasInfo(target'[t])
  <1>q. ASSUME Same, Signs PROVE Vault'
    BY <1>q, VaultAlone, FoundStays
  <1>u. CASE UNCHANGED vars
    <2>1. Same /\ Signs
      BY <1>u DEF vars, vaultVars, workerVars, creating
    <2> QED
      BY <1>q, <2>1
  <1> SUFFICES ASSUME NEW s \in Session, Client(s) \/ Worker(s) PROVE Vault'
    BY <1>u DEF Next
  <1> USE <1>t
  <1>1. CASE Connect(s) \/ HangUp(s) \/ Panic(s)
    <2>1. Same
      BY <1>1 DEF Connect, HangUp, Panic, Gone, Done, Goto, vaultVars, creating, TypeOK
    <2>2. Signs
      BY <1>1 DEF Connect, HangUp, Panic, Gone, Done, Goto, TypeOK
    <2> QED
      BY <1>q, <2>1, <2>2
  <1>2. ASSUME NEW a \in Account, LoginRequest(s, a) PROVE Vault'
    <2>1. Same /\ Signs
      BY <1>2 DEF LoginRequest, vaultVars, creating
    <2> QED
      BY <1>q, <2>1
  <1>3. ASSUME NEW p \in Player, SetPlayerRequest(s, p) PROVE Vault'
    <2>1. Same /\ Signs
      BY <1>3 DEF SetPlayerRequest, Goto, vaultVars, creating, TypeOK
    <2> QED
      BY <1>q, <2>1
  <1>4. ASSUME NEW p \in Player, PlayerCreateRequest(s, p) PROVE Vault'
    <2>1. nodes \subseteq nodes' /\ refs' = refs /\ game_servers' = game_servers
          /\ player_id' = player_id /\ client_refs' = client_refs
          /\ <<PlayerOf(p), "player">> \in nodes'
      BY <1>4 DEF PlayerCreateRequest
    <2>2. pc'[s] = "create_player" /\ target'[s] = p /\ step'[s] = 1
      BY <1>4 DEF PlayerCreateRequest, Goto, TypeOK
    <2>3. \A t \in Session \ {s} : pc'[t] = pc[t] /\ target'[t] = target[t] /\ step'[t] = step[t]
      BY <1>4 DEF PlayerCreateRequest, Goto, TypeOK
    <2>4. Rooted'
      BY <2>1, <2>2, <2>3 DEF VaultInv, Rooted
    <2>5. NoDanglingRefs' /\ RefsDescend'
      BY <2>1 DEF VaultInv, NoDanglingRefs, RefsDescend
    <2>6. CallsPerformed'
      <3> SUFFICES ASSUME NEW t \in Session, creating(t)', NEW i \in 1..(step'[t] - 1)
                   PROVE  Performed(calls(t)[i])'
        BY DEF CallsPerformed
      <3>1. t # s /\ pc'[t] = pc[t] /\ target'[t] = target[t] /\ step'[t] = step[t]
        BY <2>2, <2>3
      <3>2. calls(t)' = calls(t) /\ creating(t)
        BY <3>1 DEF calls, creating
      <3>3. Performed(calls(t)[i])
        BY <3>1, <3>2 DEF VaultInv, CallsPerformed
      <3> QED
        BY <2>1, <3>2, <3>3, PerformedStays DEF Performed
    <2>7. ListedWhole'
      BY <2>1, PerformedStays DEF VaultInv, ListedWhole, published, Performed
    <2>8. SignedInFound'
      <3>1. \A t \in Session : pc'[t] = "set_update" => pc[t] = "set_update" /\ target'[t] = target[t]
        BY <2>2, <2>3
      <3> QED
        BY <2>1, <3>1, FoundStays
    <2> QED
      BY <2>4, <2>5, <2>6, <2>7, <2>8
  <1>5. ASSUME NEW r \in ClientRef, VaultNodeAdd(s, r) PROVE Vault'
    <2>1. Same /\ Signs
      BY <1>5 DEF VaultNodeAdd, workerVars, creating
    <2> QED
      BY <1>q, <2>1
  <1>6. ASSUME NEW u \in AgeUuid, InitAgeRequest(s, u) PROVE Vault'
    <2>1. Same
      BY <1>6 DEF InitAgeRequest, Goto, vaultVars, creating, TypeOK
    <2>2. Signs
      BY <1>6 DEF InitAgeRequest, Goto, TypeOK
    <2> QED
      BY <1>q, <2>1, <2>2
  <1>7. CASE OffInfo(s) \/ OffUpdate(s)
    <2>1. Same
      BY <1>7 DEF OffInfo, OffUpdate, Gone, Goto, vaultVars, creating, TypeOK
    <2>2. Signs
      BY <1>7 DEF OffInfo, OffUpdate, Gone, Goto, TypeOK
    <2> QED
      BY <1>q, <2>1, <2>2
  <1>8. CASE SetInfo(s)
    <2>1. Same
      BY <1>8 DEF SetInfo, Done, Goto, vaultVars, creating, TypeOK
    <2>2. Signs
      BY <1>8 DEF SetInfo, refuses, Done, Goto, TypeOK
    <2> QED
      BY <1>q, <2>1, <2>2
  <1>9. CASE SetUpdate(s)
    <2>1. Same
      BY <1>9 DEF SetUpdate, Done, Goto, vaultVars, creating, TypeOK
    <2>2. Signs
      BY <1>9 DEF SetUpdate, Done, Goto, TypeOK
    <2> QED
      BY <1>q, <2>1, <2>2
  <1>10. CASE FindAgeInfo(s)
    <2>1. Same /\ Signs
      BY <1>10 DEF FindAgeInfo, Done, Goto, vaultVars, creating, TypeOK
    <2> QED
      BY <1>q, <2>1
  <1>11. CASE HelperCall(s)
    BY <1>11, HelperCallVault
  <1>12. CASE HelperFails(s)
    <2>1. Same
      BY <1>12 DEF HelperFails, Gone, Done, Goto, vaultVars, creating, TypeOK
    <2>2. Signs
      BY <1>12 DEF HelperFails, Gone, Done, Goto, creating, TypeOK
    <2> QED
      BY <1>q, <2>1, <2>2
  <1> QED
    BY <1>1, <1>2, <1>3, <1>4, <1>5, <1>6, <1>7, <1>8, <1>9, <1>10, <1>11, <1>12 DEF Client, Worker

(* The vault is consistent in every reachable state.                       *)
LEMMA VaultInvariant == Spec => []VaultInv
  BY InitVaultInv, NextVaultInv, PTL DEF Spec

(* Whatever handlers interleave, wherever a helper gives up and whatever   *)
(* clients refer to, a node that a helper's reference names is in the      *)
(* vault.                                                                  *)
THEOREM ReferencesResolve == Spec => []NoDanglingRefs
  BY VaultInvariant, PTL DEF VaultInv

(* The helpers' references descend by rank: a recursive fetch_refs ends in *)
(* every vault whose clients have closed no cycle themselves.              *)
THEOREM ReferencesDescend == Spec => []RefsDescend
  BY VaultInvariant, PTL DEF VaultInv

(* A player in the All Players list has its whole tree, its Relto          *)
(* included, for any number of creations at a time and whatever fails.     *)
THEOREM ListedPlayersAreWhole == Spec => []PublishedComplete
  <1>1. VaultInv => PublishedComplete
    BY CompleteIsPerformed DEF VaultInv, ListedWhole, PublishedComplete
  <1> QED
    BY <1>1, VaultInvariant, PTL

(* set_player_offline always finds the PlayerInfo node it must update.     *)
THEOREM SignOffSucceeds == Spec => []SignOffFindsInfo
  <1>1. VaultInv => SignOffFindsInfo
    BY DEF VaultInv, TypeOK, Handlers, SignedInFound, SignOffFindsInfo
  <1> QED
    BY <1>1, VaultInvariant, PTL

-----------------------------------------------------------------------------
(* Accounts.                                                               *)

(* The player of the message being handled is still one of the account     *)
(* that the worker has: neither can change before the handler is done.     *)
OwnTarget ==
    \A s \in Session : pc[s] \in {"set_info", "set_update"} =>
        account_id[s] # None /\ owner[target[s]] = account_id[s]

(* A worker passes the ownership check only for its own account's player,  *)
(* and the owner of a player never changes.                                *)
LEMMA NextOwnTarget == TypeOK /\ OwnTarget /\ [Next]_vars => OwnTarget'
  <1> SUFFICES ASSUME TypeOK, OwnTarget, [Next]_vars PROVE OwnTarget'
    OBVIOUS
  <1>u. CASE UNCHANGED vars
    BY <1>u DEF vars, vaultVars, workerVars, OwnTarget
  <1> SUFFICES ASSUME NEW s \in Session, Client(s) \/ Worker(s) PROVE OwnTarget'
    BY <1>u DEF Next
  <1>e. ASSUME \A t \in Session : pc'[t] \in {"set_info", "set_update"} =>
                 /\ pc[t] \in {"set_info", "set_update"}
                 /\ target'[t] = target[t] /\ account_id'[t] = account_id[t],
               \A p \in Player : owner[p] # None => owner'[p] = owner[p]
        PROVE  OwnTarget'
    BY <1>e DEF OwnTarget, TypeOK, Handlers
  <1> USE DEF TypeOK
  <1>1. CASE Connect(s) \/ HangUp(s) \/ Panic(s)
    BY <1>1, <1>e DEF Connect, HangUp, Panic, Gone, Done, Goto, vaultVars
  <1>2. ASSUME NEW a \in Account, LoginRequest(s, a) PROVE OwnTarget'
    BY <1>2, <1>e DEF LoginRequest, vaultVars
  <1>3. ASSUME NEW p \in Player, SetPlayerRequest(s, p) PROVE OwnTarget'
    BY <1>3 DEF SetPlayerRequest, may_set_player, Goto, vaultVars, OwnTarget
  <1>4. ASSUME NEW p \in Player, PlayerCreateRequest(s, p) PROVE OwnTarget'
    BY <1>4, <1>e DEF PlayerCreateRequest, Goto
  <1>5. ASSUME NEW r \in ClientRef, VaultNodeAdd(s, r) PROVE OwnTarget'
    BY <1>5, <1>e DEF VaultNodeAdd, workerVars
  <1>6. ASSUME NEW u \in AgeUuid, InitAgeRequest(s, u) PROVE OwnTarget'
    BY <1>6, <1>e DEF InitAgeRequest, Goto, vaultVars
  <1>7. CASE OffInfo(s) \/ OffUpdate(s)
    BY <1>7, <1>e DEF OffInfo, OffUpdate, Gone, Goto, vaultVars
  <1>8. CASE SetInfo(s)
    BY <1>8, <1>e DEF SetInfo, Done, Goto, vaultVars
  <1>9. CASE SetUpdate(s)
    BY <1>9, <1>e DEF SetUpdate, Done, Goto
  <1>10. CASE FindAgeInfo(s)
    BY <1>10, <1>e DEF FindAgeInfo, Done, Goto, vaultVars
  <1>11. CASE HelperCall(s)
    BY <1>11, <1>e DEF HelperCall, Done, Goto
  <1>12. CASE HelperFails(s)
    BY <1>12, <1>e DEF HelperFails, Gone, Done, Goto, vaultVars
  <1> QED
    BY <1>1, <1>2, <1>3, <1>4, <1>5, <1>6, <1>7, <1>8, <1>9, <1>10, <1>11, <1>12 DEF Client, Worker

(* A session's player only ever changes to none, or in SetUpdate.          *)
LEMMA PlayerSteps ==
    ASSUME TypeOK, [Next]_vars, NEW s \in Session, player_id'[s] \notin {None, player_id[s]}
    PROVE  pc[s] = "set_update" /\ player_id'[s] = target[s]
  <1>1. PICK t \in Session : Client(t) \/ Worker(t)
    BY DEF Next, vars, workerVars
  <1>2. SetUpdate(t)
    BY <1>1 DEF TypeOK, Client, Worker, Connect, LoginRequest, HangUp, Panic, SetPlayerRequest,
                PlayerCreateRequest, VaultNodeAdd, InitAgeRequest, OffInfo, OffUpdate, SetInfo,
                FindAgeInfo, HelperCall, HelperFails, Gone, workerVars
  <1> QED
    BY <1>2 DEF SetUpdate, TypeOK

(* For any accounts and players, and whatever a client sends while its     *)
(* messages are handled, nobody becomes a player of another account.       *)
THEOREM OwnPlayersOnly == Spec => SignsInOwnPlayer
  <1>1. Init => OwnTarget
    BY DEF Init, OwnTarget
  <1>2. TypeOK /\ OwnTarget /\ [Next]_vars =>
          [\A s \in Session :
             player_id'[s] \notin {None, player_id[s]} => owner[player_id'[s]] = account_id[s]]_vars
    BY PlayerSteps DEF OwnTarget
  <1> QED
    BY <1>1, <1>2, InitTypeOK, NextTypeOK, NextOwnTarget, PTL DEF Spec, SignsInOwnPlayer

-----------------------------------------------------------------------------
(* The workers implement the abstract sign-in.                             *)

(* The initial states are those of SignIn, and every step is one of its    *)
(* steps or changes nothing that it knows of.                              *)
THEOREM ImplementsSignIn == Spec => RefinesSignIn
  <1> DEFINE look == [t \in Session |-> IF pc[t] = "set_update" THEN target[t] ELSE None]
  <1>1. Init => SI!Init
    BY DEF Init, SI!Init
  <1>2. TypeOK /\ [Next]_vars => [SI!Next]_SI!vars
    <2> SUFFICES ASSUME TypeOK, [Next]_vars PROVE [SI!Next]_SI!vars
      OBVIOUS
    <2>n. None \notin Player
      BY NonesAssumption
    <2>z. ASSUME online' = online, player_id' = player_id, raced' = raced,
                 \A t \in Session : pc'[t] = "set_update" <=> pc[t] = "set_update",
                 \A t \in Session : pc[t] = "set_update" => target'[t] = target[t]
          PROVE  UNCHANGED SI!vars
      BY <2>z DEF SI!vars
    <2>u. CASE UNCHANGED vars
      BY <2>u, <2>z DEF vars, vaultVars, workerVars, ghostVars
    <2> SUFFICES ASSUME NEW s \in Session, Client(s) \/ Worker(s) PROVE [SI!Next]_SI!vars
      BY <2>u DEF Next
    <2> USE DEF TypeOK
    <2>g. ASSUME Gone(s), pc[s] # "set_update", online' = online, raced' = raced
          PROVE  [SI!Next]_SI!vars
      <3>1. look' = look /\ look[s] = None
        BY <2>g DEF Gone, Goto
      <3>2. CASE player_id[s] = None
        BY <2>g, <3>2, <2>z DEF Gone, Goto
      <3>3. CASE player_id[s] # None
        <4>1. SI!Vanish(s)
          BY <2>g, <3>1, <3>3 DEF SI!Vanish, Gone
        <4> QED
          BY <4>1 DEF SI!Next
      <3> QED
        BY <3>2, <3>3
    <2>1. CASE Connect(s)
      BY <2>1, <2>z DEF Connect, Done, Goto, vaultVars, ghostVars
    <2>2. CASE HangUp(s)
      <3>1. CASE Gone(s)
        BY <2>2, <3>1, <2>g DEF HangUp, vaultVars, ghostVars
      <3>2. CASE player_id[s] # None
        BY <2>2, <3>2, <2>z DEF HangUp, Goto, vaultVars, ghostVars
      <3> QED
        BY <2>2, <3>1, <3>2 DEF HangUp
    <2>3. CASE Panic(s)
      BY <2>3, <2>g DEF Panic, vaultVars, ghostVars
    <2>4. ASSUME NEW a \in Account, LoginRequest(s, a) PROVE [SI!Next]_SI!vars
      BY <2>4, <2>z DEF LoginRequest, vaultVars, ghostVars
    <2>5. ASSUME NEW p \in Player, SetPlayerRequest(s, p) PROVE [SI!Next]_SI!vars
      BY <2>5, <2>z DEF SetPlayerRequest, Goto, vaultVars, ghostVars
    <2>6. ASSUME NEW p \in Player, PlayerCreateRequest(s, p) PROVE [SI!Next]_SI!vars
      BY <2>6, <2>z DEF PlayerCreateRequest, Goto, ghostVars
    <2>7. ASSUME NEW r \in ClientRef, VaultNodeAdd(s, r) PROVE [SI!Next]_SI!vars
      BY <2>7, <2>z DEF VaultNodeAdd, workerVars, ghostVars
    <2>8. ASSUME NEW u \in AgeUuid, InitAgeRequest(s, u) PROVE [SI!Next]_SI!vars
      BY <2>8, <2>z DEF InitAgeRequest, Goto, vaultVars
    <2>9. CASE OffInfo(s)
      <3>1. CASE Gone(s)
        BY <2>9, <3>1, <2>g DEF OffInfo, vaultVars, ghostVars
      <3>2. CASE ~Gone(s)
        BY <2>9, <3>2, <2>z DEF OffInfo, Goto, vaultVars, ghostVars
      <3> QED
        BY <3>1, <3>2
    <2>10. CASE OffUpdate(s)
      <3>1. look' = look /\ look[s] = None
        BY <2>10 DEF OffUpdate, Gone, Goto
      <3>2. player_id[s] # None
        BY <2>10 DEF OffUpdate, Handlers
      <3>3. SI!GoOffline(s)
        BY <2>10, <3>1, <3>2 DEF SI!GoOffline, OffUpdate, Gone, ghostVars
      <3> QED
        BY <3>3 DEF SI!Next
    <2>11. CASE SetInfo(s)
      <3>1. CASE refuses(target[s])
        BY <2>11, <3>1, <2>z DEF SetInfo, Done, Goto, vaultVars
      <3>2. CASE ~refuses(target[s])
        <4>1. PICK p \in Player : p = target[s]
          BY <2>11 DEF SetInfo, Handlers
        <4>2. look[s] = None /\ look' = [look EXCEPT ![s] = p]
          BY <2>11, <3>2, <4>1 DEF SetInfo, Goto
        <4>3. raced' = IF \E t \in Session \ {s} : look[t] = p THEN raced \cup {p} ELSE raced
          BY <2>11, <3>2, <4>1, <2>n DEF SetInfo
        <4>4. SI!SeeOffline(s, p)
          BY <2>11, <3>2, <4>1, <4>2, <4>3 DEF SI!SeeOffline, SetInfo, refuses, vaultVars
        <4> QED
          BY <4>4 DEF SI!Next
      <3> QED
        BY <3>1, <3>2
    <2>12. CASE SetUpdate(s)
      <3>1. target[s] \in Player
        BY <2>12 DEF SetUpdate, Handlers
      <3>2. look[s] = target[s] /\ look' = [look EXCEPT ![s] = None]
        BY <2>12 DEF SetUpdate, Done, Goto
      <3>3. SI!GoOnline(s)
        BY <2>12, <3>1, <3>2, <2>n DEF SI!GoOnline, SetUpdate, ghostVars
      <3> QED
        BY <3>3 DEF SI!Next
    <2>13. CASE FindAgeInfo(s)
      BY <2>13, <2>z DEF FindAgeInfo, Done, Goto, vaultVars, ghostVars
    <2>14. CASE HelperCall(s)
      BY <2>14, <2>z DEF HelperCall, creating, Done, Goto, ghostVars
    <2>15. CASE HelperFails(s)
      <3>1. CASE Gone(s)
        BY <2>15, <3>1, <2>g DEF HelperFails, creating, vaultVars, ghostVars
      <3>2. CASE ~Gone(s)
        BY <2>15, <3>2, <2>z DEF HelperFails, creating, Done, Goto, vaultVars, ghostVars
      <3> QED
        BY <3>1, <3>2
    <2> QED
      BY <2>1, <2>2, <2>3, <2>4, <2>5, <2>6, <2>7, <2>8, <2>9, <2>10, <2>11, <2>12, <2>13,
         <2>14, <2>15 DEF Client, Worker
  <1> QED
    BY <1>1, <1>2, InitTypeOK, NextTypeOK, PTL DEF Spec, RefinesSignIn, SI!Spec

-----------------------------------------------------------------------------
(* Ages.                                                                   *)

AgeNode(t, u) == <<AgeOf(t, u), "age">>

(* The AgeInfo node of an age is created after its Age node.               *)
InfoAfterAge ==
    \A t \in Session, u \in AgeUuid : <<AgeOf(t, u), "age_info">> \in nodes => AgeNode(t, u) \in nodes

(* Two workers that create one age have raced for it ...                   *)
OneCreator ==
    \A s, t \in Session : s # t /\ pc[s] = "create_age" /\ pc[t] = "create_age" /\ target[s] = target[t]
                          => target[s] \in raced_ages

(* ... and the age that a worker creates unraced is nobody else's.         *)
CreatorsOwn ==
    \A s, t \in Session : pc[s] = "create_age" /\ target[s] \notin raced_ages
                          /\ AgeNode(t, target[s]) \in nodes => t = s

UniqueAge ==
    \A u \in AgeUuid \ raced_ages, t1, t2 \in Session :
        AgeNode(t1, u) \in nodes /\ AgeNode(t2, u) \in nodes => t1 = t2

(* find_age_instance has found the Age node it goes on with.               *)
FoundAge == \A s \in Session : pc[s] = "age_info" => AgeNode(found[s], target[s]) \in nodes

RepliesMatch ==
    \A s \in Session : age_reply[s] # None /\ age_reply[s].uuid \notin raced_ages =>
        age_reply[s].age = age_reply[s].info

AgeInv == InfoAfterAge /\ OneCreator /\ CreatorsOwn /\ UniqueAge /\ FoundAge /\ RepliesMatch

(* The nodes of two ages, of an age and a player, and of an age and the    *)
(* vault are different.                                                    *)
LEMMA AgeNodesDistinct ==
    /\ \A s, t, u, v : AgeOf(s, u) = AgeOf(t, v) => s = t /\ u = v
    /\ \A s, u, p : AgeOf(s, u) # PlayerOf(p) /\ AgeOf(s, u) # ReltoOf(p) /\ AgeOf(s, u) # VaultOf
  BY DEF AgeOf, PlayerOf, ReltoOf, VaultOf

(* The nodes of ages that a call of a helper adds: those of the worker's   *)
(* own age, the Age node first.                                            *)
LEMMA AgeCallAdds ==
    ASSUME VaultInv, NEW s \in Session, HelperCall(s), NEW t \in Session, NEW u \in AgeUuid,
           NEW slot \in Slot, <<AgeOf(t, u), slot>> \in nodes' \ nodes
    PROVE  /\ t = s /\ pc[s] = "create_age" /\ target[s] = u
           /\ slot # "age" => AgeNode(s, u) \in nodes
  <1> DEFINE call == calls(s)[step[s]]
             n == <<AgeOf(t, u), slot>>
  <1>1. creating(s) /\ call.op = "create" /\ call.node = n
    BY DEF HelperCall
  <1>2. \/ call.node \in (IF pc[s] = "create_player" THEN {PlayerOf(target[s]), ReltoOf(target[s])}
                                                     ELSE {AgeOf(s, target[s])}) \X Slot
        \/ call = ref(AllPlayers, PlayerInfo(target[s]))
    BY <1>1, NextCall DEF VaultInv
  <1>3. call # ref(AllPlayers, PlayerInfo(target[s]))
    BY <1>1 DEF ref
  <1>4. n[1] = AgeOf(t, u)
    OBVIOUS
  <1> HIDE DEF n
  <1>5. AgeOf(t, u) \in IF pc[s] = "create_player" THEN {PlayerOf(target[s]), ReltoOf(target[s])}
                                                   ELSE {AgeOf(s, target[s])}
    <2> HIDE DEF call
    <2> QED
      BY <1>1, <1>2, <1>3, <1>4
  <1>6. pc[s] = "create_age" /\ t = s /\ target[s] = u
    BY <1>1, <1>5, AgeNodesDistinct DEF creating
  <1>7. ASSUME slot # "age" PROVE AgeNode(s, u) \in nodes
    <2> DEFINE c == calls(s)
    <2>1. /\ AgeHelper(s, u, c) /\ step[s] \in 1..Len(c) /\ Len(c) \in Nat
      BY <1>1, <1>6, HelperOf DEF VaultInv
    <2>2. c[1] = create(AgeNode(s, u))
      BY <2>1, Zenon DEF AgeHelper, AgeNode
    <2>3. create(AgeNode(s, u)).op = "create" /\ create(AgeNode(s, u)).node = AgeNode(s, u)
      BY DEF create
    <2>4. AgeNode(s, u)[2] # n[2]
      BY <1>7 DEF AgeNode, n
    <2>5. step[s] # 1
      BY <1>1, <2>2, <2>3, <2>4
    <2>6. 1 \in 1..(step[s] - 1)
      BY <2>1, <2>5
    <2>7. Performed(c[1])
      BY <1>1, <2>6 DEF VaultInv, CallsPerformed
    <2> QED
      BY <2>2, <2>3, <2>7 DEF Performed, Leaves
  <1> QED
    BY <1>6, <1>7

(* There are no ages at first.                                             *)
LEMMA InitAgeInv == Init => AgeInv
  <1> SUFFICES ASSUME Init PROVE AgeInv
    OBVIOUS
  <1>1. ASSUME NEW t \in Session, NEW u \in AgeUuid, NEW slot, <<AgeOf(t, u), slot>> \in nodes PROVE FALSE
    <2> DEFINE n == <<AgeOf(t, u), slot>>
    <2>1. n[1] = AgeOf(t, u)
      OBVIOUS
    <2>2. /\ System[1] = VaultOf /\ GlobalInbox[1] = VaultOf /\ AllPlayers[1] = VaultOf
          /\ \A p : <<PlayerOf(p), "player">>[1] = PlayerOf(p)
      BY DEF System, GlobalInbox, AllPlayers
    <2> HIDE DEF n
    <2>3. PICK p \in Ready : n \in PlayerTree[p].nodes
      BY <1>1, <2>1, <2>2, AgeNodesDistinct DEF Init, n
    <2>4. p \in Player
      BY ReadyAssumption
    <2>5. PlayerTree[p].nodes = {PlayerCalls[p][i].node : i \in {j \in DOMAIN PlayerCalls[p] : PlayerCalls[p][j].op = "create"}}
      BY <2>4 DEF PlayerTree, Tree
    <2>6. PICK i \in DOMAIN PlayerCalls[p] : PlayerCalls[p][i].op = "create" /\ PlayerCalls[p][i].node = n
      BY <2>3, <2>5
    <2>7. PlayerCalls[p][i] # ref(AllPlayers, PlayerInfo(p))
      BY <2>6 DEF ref
    <2>8. PlayerCalls[p][i] \in Quiet({PlayerOf(p), ReltoOf(p)})
      BY <2>4, <2>7, PlayerCallKinds
    <2>9. n \in {PlayerOf(p), ReltoOf(p)} \X Slot
      BY <2>6, <2>8 DEF Quiet
    <2> QED
      BY <2>1, <2>9, AgeNodesDistinct
  <1>2. \A t \in Session, u \in AgeUuid : AgeNode(t, u) \notin nodes /\ <<AgeOf(t, u), "age_info">> \notin nodes
    BY <1>1 DEF AgeNode
  <1>3. InfoAfterAge /\ UniqueAge
    BY <1>2 DEF InfoAfterAge, UniqueAge
  <1>4. OneCreator /\ CreatorsOwn /\ FoundAge /\ RepliesMatch
    BY DEF Init, OneCreator, CreatorsOwn, FoundAge, RepliesMatch
  <1> QED
    BY <1>3, <1>4 DEF AgeInv

(* A step that neither starts on an age nor goes on with one.              *)
LEMMA AgesAlone ==
    ASSUME TypeOK, AgeInv, raced_ages' = raced_ages,
           \A t \in Session, u \in AgeUuid :
             /\ AgeNode(t, u) \in nodes' <=> AgeNode(t, u) \in nodes
             /\ <<AgeOf(t, u), "age_info">> \in nodes' <=> <<AgeOf(t, u), "age_info">> \in nodes,
           \A t \in Session : pc'[t] \in {"create_age", "age_info"} =>
             pc'[t] = pc[t] /\ target'[t] = target[t] /\ found'[t] = found[t],
           \A t \in Session : age_reply'[t] \in {None, age_reply[t]}
    PROVE  AgeInv'
  <1>1. InfoAfterAge' /\ UniqueAge'
    BY DEF AgeInv, InfoAfterAge, UniqueAge, AgeNode
  <1>2. OneCreator'
    BY DEF AgeInv, OneCreator
  <1>3. CreatorsOwn'
    BY DEF AgeInv, CreatorsOwn, TypeOK, Handlers, AgeNode
  <1>4. FoundAge'
    BY DEF AgeInv, FoundAge, TypeOK, Handlers, AgeNode
  <1>5. RepliesMatch'
    BY DEF AgeInv, RepliesMatch
  <1> QED
    BY <1>1, <1>2, <1>3, <1>4, <1>5 DEF AgeInv

(* Every step keeps the ages consistent.                                   *)
LEMMA NextAgeInv == VaultInv /\ AgeInv /\ [Next]_vars => AgeInv'
  <1> SUFFICES ASSUME VaultInv, AgeInv, [Next]_vars PROVE AgeInv'
    OBVIOUS
  <1>t. TypeOK
    BY DEF VaultInv
  <1> DEFINE Same == /\ raced_ages' = raced_ages
                     /\ \A t \in Session : pc'[t] \in {"create_age", "age_info"} =>
                          pc'[t] = pc[t] /\ target'[t] = target[t] /\ found'[t] = found[t]
                     /\ \A t \in Session : age_reply'[t] \in {None, age_reply[t]}
  <1>e. ASSUME nodes' = nodes, Same PROVE AgeInv'
    BY <1>e, <1>t, AgesAlone
  <1>u. CASE UNCHANGED vars
    <2>1. nodes' = nodes /\ Same
      BY <1>u DEF vars, vaultVars, workerVars, ghostVars
    <2> QED
      BY <1>e, <2>1
  <1> SUFFICES ASSUME NEW s \in Session, Client(s) \/ Worker(s) PROVE AgeInv'
    BY <1>u DEF Next
  <1>1. CASE Connect(s) \/ HangUp(s) \/ Panic(s)
    <2>1. nodes' = nodes /\ Same
      BY <1>1, <1>t DEF Connect, HangUp, Panic, Gone, Done, Goto, vaultVars, ghostVars, TypeOK
    <2> QED
      BY <1>e, <2>1
  <1>2. ASSUME NEW a \in Account, LoginRequest(s, a) PROVE AgeInv'
    <2>1. nodes' = nodes /\ Same
      BY <1>2 DEF LoginRequest, vaultVars, ghostVars
    <2> QED
      BY <1>e, <2>1
  <1>3. ASSUME NEW p \in Player, SetPlayerRequest(s, p) PROVE AgeInv'
    <2>1. nodes' = nodes /\ Same
      BY <1>3, <1>t DEF SetPlayerRequest, Goto, vaultVars, ghostVars, TypeOK
    <2> QED
      BY <1>e, <2>1
  <1>4. ASSUME NEW p \in Player, PlayerCreateRequest(s, p) PROVE AgeInv'
    <2>1. nodes' = nodes \cup {<<PlayerOf(p), "player">>} /\ Same
      BY <1>4, <1>t DEF PlayerCreateRequest, Goto, ghostVars, TypeOK
    <2>2. \A t, u, slot : <<AgeOf(t, u), slot>> # <<PlayerOf(p), "player">>
      BY AgeNodesDistinct
    <2>3. \A t \in Session, u \in AgeUuid :
            /\ AgeNode(t, u) \in nodes' <=> AgeNode(t, u) \in nodes
            /\ <<AgeOf(t, u), "age_info">> \in nodes' <=> <<AgeOf(t, u), "age_info">> \in nodes
      BY <2>1, <2>2 DEF AgeNode
    <2> QED
      BY <1>t, <2>1, <2>3, AgesAlone
  <1>5. ASSUME NEW r \in ClientRef, VaultNodeAdd(s, r) PROVE AgeInv'
    <2>1. nodes' = nodes /\ Same
      BY <1>5 DEF VaultNodeAdd, workerVars, ghostVars
    <2> QED
      BY <1>e, <2>1
  <1>6. ASSUME NEW u \in AgeUuid, InitAgeRequest(s, u) PROVE AgeInv'
    <2>0. /\ nodes' = nodes /\ age_reply' = age_reply
          /\ pc'[s] \in {"create_age", "age_info"} /\ target'[s] = u
          /\ \A t \in Session \ {s} : pc'[t] = pc[t] /\ target'[t] = target[t] /\ found'[t] = found[t]
          /\ raced_ages \subseteq raced_ages'
      BY <1>6, <1>t DEF InitAgeRequest, Goto, vaultVars, TypeOK
    <2>1. InfoAfterAge' /\ UniqueAge' /\ RepliesMatch'
      BY <2>0 DEF AgeInv, InfoAfterAge, UniqueAge, RepliesMatch, AgeNode
    <2>2. CASE find_age(u) = {}
      <3>1. /\ pc'[s] = "create_age"
            /\ (\E t \in Session \ {s} : pc[t] = "create_age" /\ target[t] = u) => u \in raced_ages'
        BY <1>6, <1>t, <2>2 DEF InitAgeRequest, Goto, TypeOK
      <3>2. \A t \in Session : AgeNode(t, u) \notin nodes
        BY <2>2 DEF find_age, AgeNode
      <3>3. OneCreator'
        BY <2>0, <3>1 DEF AgeInv, OneCreator
      <3>4. CreatorsOwn'
        <4> SUFFICES ASSUME NEW x \in Session, NEW t \in Session, pc'[x] = "create_age",
                            target'[x] \notin raced_ages', AgeNode(t, target'[x]) \in nodes'
                     PROVE  t = x
          BY DEF CreatorsOwn, AgeNode
        <4>1. CASE x = s
          BY <2>0, <3>2, <4>1
        <4>2. CASE x # s
          BY <2>0, <4>2 DEF AgeInv, CreatorsOwn
        <4> QED
          BY <4>1, <4>2
      <3>5. FoundAge'
        BY <2>0, <3>1 DEF AgeInv, FoundAge, AgeNode
      <3> QED
        BY <2>1, <3>3, <3>4, <3>5 DEF AgeInv
    <2>3. CASE find_age(u) # {}
      <3>1. PICK t \in find_age(u) : /\ pc'[s] = "age_info" /\ found'[s] = t
                                     /\ raced_ages' = raced_ages
        BY <1>6, <1>t, <2>3 DEF InitAgeRequest, Goto, TypeOK
      <3>2. AgeNode(t, u) \in nodes
        BY DEF find_age, AgeNode
      <3>3. OneCreator'
        BY <2>0, <3>1 DEF AgeInv, OneCreator
      <3>4. CreatorsOwn'
        BY <2>0, <3>1 DEF AgeInv, CreatorsOwn, AgeNode
      <3>5. FoundAge'
        BY <2>0, <3>1, <3>2 DEF AgeInv, FoundAge, AgeNode
      <3> QED
        BY <2>1, <3>3, <3>4, <3>5 DEF AgeInv
    <2> QED
      BY <2>2, <2>3
  <1>7. CASE OffInfo(s) \/ OffUpdate(s)
    <2>1. nodes' = nodes /\ Same
      BY <1>7, <1>t DEF OffInfo, OffUpdate, Gone, Goto, vaultVars, ghostVars, TypeOK
    <2> QED
      BY <1>e, <2>1
  <1>8. CASE SetInfo(s) \/ SetUpdate(s)
    <2>1. nodes' = nodes /\ Same
      BY <1>8, <1>t DEF SetInfo, SetUpdate, Done, Goto, vaultVars, ghostVars, TypeOK
    <2> QED
      BY <1>e, <2>1
  <1>9. CASE FindAgeInfo(s)
    <2>0. /\ nodes' = nodes /\ raced_ages' = raced_ages
          /\ \A t \in Session : pc'[t] \in {"create_age", "age_info"} =>
               pc'[t] = pc[t] /\ target'[t] = target[t] /\ found'[t] = found[t]
          /\ \A t \in Session \ {s} : age_reply'[t] = age_reply[t]
      BY <1>9, <1>t DEF FindAgeInfo, Done, Goto, vaultVars, ghostVars, TypeOK
    <2>1. CASE age_reply'[s] = age_reply[s]
      BY <1>e, <2>0, <2>1
    <2>2. ASSUME NEW t \in find_age_info(target[s]),
                 age_reply'[s] = [uuid |-> target[s], age |-> found[s], info |-> t]
          PROVE  AgeInv'
      <3>1. /\ pc[s] = "age_info" /\ target[s] \in AgeUuid /\ found[s] \in Session
        BY <1>9, <1>t DEF FindAgeInfo, TypeOK, Handlers
      <3>2. t \in Session /\ AgeNode(t, target[s]) \in nodes
        BY <3>1 DEF find_age_info, AgeInv, InfoAfterAge
      <3>3. AgeNode(found[s], target[s]) \in nodes
        BY <3>1 DEF AgeInv, FoundAge
      <3>4. target[s] \notin raced_ages => t = found[s]
        BY <3>1, <3>2, <3>3 DEF AgeInv, UniqueAge
      <3>5. RepliesMatch'
        <4>1. /\ age_reply'[s].uuid = target[s] /\ age_reply'[s].age = found[s]
              /\ age_reply'[s].info = t
          BY <2>2
        <4> QED
          BY <2>0, <3>4, <4>1 DEF AgeInv, RepliesMatch
      <3>6. InfoAfterAge' /\ UniqueAge' /\ OneCreator'
        BY <2>0 DEF AgeInv, InfoAfterAge, UniqueAge, OneCreator, AgeNode
      <3>7. CreatorsOwn' /\ FoundAge'
        BY <2>0 DEF AgeInv, CreatorsOwn, FoundAge, AgeNode
      <3> QED
        BY <3>5, <3>6, <3>7 DEF AgeInv
    <2>3. \/ age_reply'[s] = age_reply[s]
          \/ \E t \in find_age_info(target[s]) :
               age_reply'[s] = [uuid |-> target[s], age |-> found[s], info |-> t]
      BY <1>9, <1>t DEF FindAgeInfo, TypeOK
    <2> QED
      BY <2>1, <2>2, <2>3
  <1>10. CASE HelperCall(s)
    <2>0. /\ nodes \subseteq nodes' /\ raced_ages' = raced_ages
          /\ \A t \in Session : pc'[t] \in {"create_age", "age_info"} =>
               pc'[t] = pc[t] /\ target'[t] = target[t] /\ found'[t] = found[t]
      BY <1>10, <1>t DEF HelperCall, Done, Goto, ghostVars, TypeOK
    <2>1. \A t \in Session, u \in AgeUuid : AgeNode(t, u) \in nodes' \ nodes =>
            t = s /\ pc[s] = "create_age" /\ target[s] = u
      BY <1>10, AgeCallAdds DEF AgeNode, Slot, AgeSlot
    <2>2. \A t \in Session, u \in AgeUuid : <<AgeOf(t, u), "age_info">> \in nodes' \ nodes =>
            AgeNode(t, u) \in nodes
      BY <1>10, AgeCallAdds DEF Slot, AgeSlot
    <2>3. InfoAfterAge'
      BY <2>0, <2>2 DEF AgeInv, InfoAfterAge, AgeNode
    <2>4. OneCreator'
      BY <2>0 DEF AgeInv, OneCreator
    <2>5. CreatorsOwn'
      <3> SUFFICES ASSUME NEW x \in Session, NEW t \in Session, pc'[x] = "create_age",
                          target'[x] \notin raced_ages', AgeNode(t, target'[x]) \in nodes'
                   PROVE  t = x
        BY DEF CreatorsOwn, AgeNode
      <3>1. pc[x] = "create_age" /\ target'[x] = target[x] /\ target[x] \in AgeUuid
            /\ target[x] \notin raced_ages
        BY <1>t, <2>0 DEF TypeOK, Handlers
      <3>2. CASE AgeNode(t, target[x]) \in nodes
        BY <3>1, <3>2 DEF AgeInv, CreatorsOwn
      <3>3. CASE AgeNode(t, target[x]) \notin nodes
        BY <2>1, <3>1, <3>3 DEF AgeInv, OneCreator
      <3> QED
        BY <3>2, <3>3
    <2>6. UniqueAge'
      <3> SUFFICES ASSUME NEW u \in AgeUuid \ raced_ages, NEW t1 \in Session, NEW t2 \in Session,
                          AgeNode(t1, u) \in nodes', AgeNode(t2, u) \in nodes'
                   PROVE  t1 = t2
        BY <2>0 DEF UniqueAge, AgeNode
      <3> QED
        BY <2>1 DEF AgeInv, UniqueAge, CreatorsOwn
    <2>7. FoundAge'
      BY <2>0 DEF AgeInv, FoundAge, AgeNode
    <2>8. RepliesMatch'
      <3>1. \A t \in Session : \/ age_reply'[t] = age_reply[t]
                               \/ age_reply'[t] = [uuid |-> target[s], age |-> s, info |-> s]
        BY <1>10, <1>t DEF HelperCall, TypeOK
      <3> QED
        BY <2>0, <3>1 DEF AgeInv, RepliesMatch
    <2> QED
      BY <2>3, <2>4, <2>5, <2>6, <2>7, <2>8 DEF AgeInv
  <1>11. CASE HelperFails(s)
    <2>1. nodes' = nodes /\ Same
      BY <1>11, <1>t DEF HelperFails, Gone, Done, Goto, vaultVars, ghostVars, TypeOK
    <2> QED
      BY <1>e, <2>1
  <1> QED
    BY <1>1, <1>2, <1>3, <1>4, <1>5, <1>6, <1>7, <1>8, <1>9, <1>10, <1>11 DEF Client, Worker

(* For any number of workers, an age that no two of them had found missing *)
(* at a time has one Age node, and its replies name a matching pair.       *)
THEOREM AgesStayConsistent == Spec => []AgesConsistent
  <1>1. AgeInv => AgesConsistent
    BY DEF AgeInv, UniqueAge, RepliesMatch, AgesConsistent, AgeNode
  <1> QED
    BY <1>1, InitAgeInv, NextAgeInv, InitVaultInv, NextVaultInv, PTL DEF Spec

-----------------------------------------------------------------------------
(* What SignInProofs proves of the abstract sign-in holds of the workers.  *)

SIP == INSTANCE SignInProofs WITH
         holding <- player_id,
         seen <- [s \in Session |-> IF pc[s] = "set_update" THEN target[s] ELSE None]

(* Of any number of connections, two are signed in as one player only if   *)
(* both had read it as offline before either wrote; and a player that a    *)
(* connection is signed in as is online, with the same exception.          *)
THEOREM SessionsExcludeEachOther == Spec => [](SI!SingleHolder /\ SI!HeldIsOnline)
  <1>1. SIP!Spec => []SIP!SingleHolder
    BY SIP!OneSessionPerPlayer
  <1>2. SIP!Spec => []SIP!HeldIsOnline
    BY SIP!HeldPlayersAreOnline
  <1>3. SIP!Init <=> SI!Init
    BY DEF SIP!Init, SI!Init
  <1>4. [SI!Next]_SI!vars => [SIP!Next]_SIP!vars
    BY DEF SIP!Next, SI!Next, SIP!vars, SI!vars, SIP!SeeOffline, SI!SeeOffline, SIP!GoOnline, SI!GoOnline,
       SIP!GoOffline, SI!GoOffline, SIP!Vanish, SI!Vanish
  <1>5. SIP!SingleHolder /\ SIP!HeldIsOnline <=> SI!SingleHolder /\ SI!HeldIsOnline
    BY DEF SIP!SingleHolder, SI!SingleHolder, SIP!HeldIsOnline, SI!HeldIsOnline
  <1> QED
    BY <1>1, <1>2, <1>3, <1>4, <1>5, ImplementsSignIn, PTL DEF SIP!Spec, SI!Spec, RefinesSignIn
=============================================================================
