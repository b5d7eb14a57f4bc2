--------------------------- MODULE MCAuthSession ---------------------------
(* AuthSession for TLC.                                                    *)
EXTENDS AuthSession

CONSTANTS s1, s2, a1, a2, p1, p2, u1

TwoSessions == {s1, s2}
TwoAccounts == {a1, a2}
TwoPlayers == {p1, p2}
OnePlayer == {p1}
OneAge == {u1}
Nobody == {}
OwnedByFirst == [p \in OnePlayer |-> a1]
OwnedApart == [p \in TwoPlayers |-> IF p = p1 THEN a1 ELSE a2]
OwnsNothing == [p \in {} |-> a1]
(* A client's reference to an info node, made when neither end exists, or  *)
(* before the helper makes it, or later; and one that closes a cycle.      *)
EarlyInfo == {<<<<PlayerOf(p2), "player">>, PlayerInfo(p2)>>}
Cycle == {<<<<AgeOf(s1, u1), "age_info">>, <<AgeOf(s1, u1), "age">>>>}
GoodSdl == {{}}
BadRelto == {{}, {"relto"}}
BadAge == {{}, {"age"}}
=============================================================================
