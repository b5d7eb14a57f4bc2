----------------------------- MODULE MCSdlState -----------------------------
(* A descriptor with three versions.  The first and the last differ in a   *)
(* default, in whether the size of a variable is fixed, in their order and *)
(* by a new one, over a nested one; the second has variables at and above  *)
(* the limit, and a Point3.  Clients send each variable in every form: not *)
(* at all, as the default, with values, with a hint or a timestamp, with   *)
(* too many elements, and of the nested states all or some.                *)
EXTENDS SdlState

Var(name, type, fixed, count, default, of) ==
    [name |-> name, type |-> type, fixed |-> fixed, count |-> count,
     default |-> default, of |-> of]

Sub == <<Var("t", "Str", TRUE, 1, 1, 0), Var("s", "Bool", TRUE, 1, 0, 0)>>
Old == <<Var("a", "Bool", TRUE, 1, 0, 0), Var("n", "StateDesc", TRUE, 2, 0, 2),
         Var("l", "Int", FALSE, 0, 0, 0), Var("d", "Time", TRUE, 1, 0, 0),
         Var("b", "Int", TRUE, 1, 0, 0)>>
Mid == <<Var("c", "Int", TRUE, 4, 0, 0), Var("b", "Int", TRUE, 3, 0, 0),
         Var("p", "Point3", TRUE, 1, 0, 0)>>
New == <<Var("l", "Int", FALSE, 0, 0, 0), Var("a", "Bool", TRUE, 1, 1, 0),
         Var("m", "StateDesc", FALSE, 0, 0, 2), Var("n", "StateDesc", TRUE, 2, 0, 2),
         Var("b", "Int", FALSE, 0, 0, 0), Var("p", "Point3", TRUE, 1, 0, 0)>>

MCDb == [i \in {1, 2} |-> IF i = 1 THEN <<Old, Mid, New>> ELSE [v \in {2} |-> Sub]]

(* The empty string 0, a short one 1, and 30 letters followed by a letter  *)
(* of two bytes, 2, or by U+FFFD of three bytes, 3; 10 and 11 are what is  *)
(* left of these in 31 bytes, and 12 is 2 in all of the 32.                *)
MCText == 0..3
MCCut(x)   == CASE x = 2 -> 10 [] x = 3 -> 11 [] OTHER -> x
MCLossy(c) == CASE c \in {10, 11} -> 3 [] c = 12 -> 2 [] OTHER -> c

SubState(x) == [from_defaults(2, 2) EXCEPT
                  !.simple = [i \in {1, 2} |->
                     IF x[i] = 9 THEN @[i] ELSE [@[i] EXCEPT !.dirty = TRUE, !.vals = <<x[i]>>]]]
SubStates == {SubState(x) : x \in {<<9, 9>>, <<12, 9>>, <<1, 2>>}}
W(vals)   == {[stamp |-> 0, hint |-> 0, vals |-> x] : x \in vals}
MCWire == [n \in {"a", "b", "c", "l", "d", "p", "n", "m"} |->
             CASE n = "a" -> W({<<0>>, <<2>>}) \cup {[stamp |-> 0, hint |-> 7, vals |-> <<1>>],
                                                    [stamp |-> Now, hint |-> 0, vals |-> <<1>>]}
               [] n = "b" -> W({<<1>>, <<0, 1, 0>>})
               [] n = "c" -> W({<<0, 0, 0, 0>>, <<0, 0, 0, 1>>})
               [] n = "p" -> W({<<1>>})
               [] n = "d" -> W({<<0>>})
               [] n = "l" -> W({<<>>, <<1, 0>>})
               [] n = "n" -> W(SubStates \X SubStates)
               [] n = "m" -> W({<<>>, <<SubState(<<10, 9>>)>>,
                                <<SubState(<<9, 9>>), SubState(<<0, 1>>)>>})]
=============================================================================
