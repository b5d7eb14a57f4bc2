------------------------------ MODULE SdlState ------------------------------
(***************************************************************************)
(* The states of the state description language: made from the defaults of *)
(* a descriptor, read from the blob of a game client, changed, upgraded to *)
(* the latest version of the descriptor, written to a blob and read back.  *)
(*                                                                         *)
(* A blob is a sequence of cells, one for each field whatever its width;   *)
(* the reader sees numbers only, and takes what it finds at its position.  *)
(* "Str" is String32 and "Bool" is Bool, whose elements are not on the     *)
(* wire what they are in memory; "Time" is AgeTimeOfDay, of which only the *)
(* count is kept; Point3 cannot be compared with its default.  All other   *)
(* simple types come back as they were written, and are "Int".             *)
(***************************************************************************)
EXTENDS Naturals, Sequences, FiniteSets, SequencesExt

CONSTANTS
    Db,         \* descriptor name -> version -> sequence of variables
    Top,        \* the name of the descriptor the state is of
    Value,      \* the values of an element
    Wire,       \* what clients may send of each variable
    Now,        \* the time, as a variable's timestamp; 0 is the default
    TooMany,    \* the limit on the elements of a variable, 10000
    Text,       \* the values of a string
    Cut(_),     \* the 32 bytes a string is written as: 31 of its own and a 0
    Lossy(_)    \* the string read from 32 bytes: from_utf8_lossy up to a 0

ASSUME SdlAssumption ==
    /\ Top \in DOMAIN Db /\ 0 \in Value /\ Value \subseteq Nat /\ TooMany \in Nat
(* A string cut in the middle of a character ends in U+FFFD when it is     *)
(* read; cut again, that one is U+FFFD again.                              *)
ASSUME StringAssumption ==
    \A x \in Text : LET y == Lossy(Cut(x)) IN Lossy(Cut(y)) = y

VARIABLES
    st,     \* the State
    from,   \* history: what st was made of, by a client or by an upgrade
    how,    \* history: the last thing that was done
    taken   \* history: the variables whose values are what an upgrade took over

vars == <<st, from, how, taken>>

(* Flags, and the version of the format *)
HAS_UOID == 1
VAR_LENGTH_IO == 32768
HAS_NOTIFICATION_INFO == 2
HAS_TIMESTAMP   == 4
SAME_AS_DEFAULT == 8
HAS_DIRTY_FLAG  == 16
WANT_TIMESTAMP  == 32
IO_VERSION == 6

Has(flags, flag) == (flags \div flag) % 2 = 1
Flag(cond, flag) == IF cond THEN flag ELSE 0

-----------------------------------------------------------------------------
(* DescriptorDb: BTreeMap keeps the versions in order. *)
get_latest(name) == CHOOSE v \in DOMAIN Db[name] : \A u \in DOMAIN Db[name] : u <= v

RECURSIVE from_defaults(_, _)
(* Variable::from_defaults: count elements, none when the length varies. *)
NewVariable(d) ==
    [d |-> d, stamp |-> 0, hint |-> 0, dirty |-> FALSE,
     vals |-> [i \in 1..d.count |->
                 IF d.type = "StateDesc" THEN from_defaults(d.of, get_latest(d.of))
                 ELSE d.default]]

(* State::from_defaults: simple variables and nested states are kept apart. *)
Simple(d) == d.type # "StateDesc"
Nested(d) == d.type = "StateDesc"
from_defaults(name, version) ==
    LET ds == Db[name][version]
        each(test(_)) == [i \in 1..Len(SelectSeq(ds, test)) |->
                            NewVariable(SelectSeq(ds, test)[i])]
    IN  [name |-> name, version |-> version, object |-> 0, flags |-> 0,
         simple |-> each(Simple), nested |-> each(Nested)]

AllVars(s) ==
    [i \in 1..Len(s.simple) + Len(s.nested) |->
        IF i <= Len(s.simple) THEN s.simple[i] ELSE s.nested[i - Len(s.simple)]]
Names(s) == {AllVars(s)[i].d.name : i \in DOMAIN AllVars(s)}
get_var(s, name) ==
    AllVars(s)[CHOOSE i \in DOMAIN AllVars(s) : AllVars(s)[i].d.name = name]

(* is_default: the length of a variable-length one is part of its value.   *)
(* For a Point3 the code looks for Vector3 values and panics; a Point3 in  *)
(* a nested state is left out.                                             *)
RECURSIVE is_default(_)
is_default(v) ==
    /\ v.d.fixed
    /\ CASE v.d.type = "Time"      -> TRUE
         [] v.d.type = "StateDesc" -> \A i \in DOMAIN v.vals :
                                        \A j \in DOMAIN AllVars(v.vals[i]) :
                                            is_default(AllVars(v.vals[i])[j])
         [] OTHER                  -> \A i \in DOMAIN v.vals : v.vals[i] = v.d.default
Panics(v) == v.d.fixed /\ v.d.type = "Point3"

is_dirty(s) == \E i \in DOMAIN AllVars(s) : AllVars(s)[i].dirty

-----------------------------------------------------------------------------
(* Writing, by the server or by a game client.  A client's state has the   *)
(* cells it sends for values, and it writes a timestamp after the flag for *)
(* one, which write_simple does not.                                       *)
cell(d, x) == IF d.type = "Str" THEN Cut(x) ELSE x

write_simple(v, client) ==
    LET default == is_default(v)
        flags   == Flag(v.stamp # 0, HAS_TIMESTAMP) + Flag(default, SAME_AS_DEFAULT)
                     + Flag(v.dirty, HAS_DIRTY_FLAG)
    IN  <<flags>> \o (IF client /\ v.stamp # 0 THEN <<v.stamp>> ELSE <<>>)
        \o (IF default THEN <<>>
            ELSE (IF v.d.fixed THEN <<>> ELSE <<Len(v.vals)>>)
                 \o (IF v.d.type = "Time" THEN <<>>
                     ELSE [i \in DOMAIN v.vals |->
                             IF client THEN v.vals[i] ELSE cell(v.d, v.vals[i])]))

(* The given elements of a list of n, each preceded by its index, counted  *)
(* from 0, unless all of them are written.                                 *)
Listed(elements, n, cells) ==
    LET ks == SetToSortSeq(elements, <)
    IN  <<Len(ks)>> \o FlattenSeq([j \in DOMAIN ks |->
                          (IF Len(ks) = n THEN <<>> ELSE <<ks[j] - 1>>) \o cells[ks[j]]])

DirtyVars(vs)   == {i \in DOMAIN vs : vs[i].dirty}
DirtyStates(ss) == {i \in DOMAIN ss : is_dirty(ss[i])}

RECURSIVE write(_, _)
write_statedesc(v, client) ==
    <<0>> \o (IF v.d.fixed THEN <<>> ELSE <<Len(v.vals)>>)
    \o Listed(DirtyStates(v.vals), Len(v.vals),
              [i \in DirtyStates(v.vals) |-> write(v.vals[i], client)])
WriteVariable(v, client) ==
    (IF v.hint # 0 THEN <<HAS_NOTIFICATION_INFO, 0, v.hint>> ELSE <<0>>)
    \o (IF v.d.type = "StateDesc" THEN write_statedesc(v, client)
        ELSE write_simple(v, client))
write(s, client) ==
    <<s.flags, IO_VERSION>>
    \o Listed(DirtyVars(s.simple), Len(s.simple),
              [i \in DirtyVars(s.simple) |-> WriteVariable(s.simple[i], client)])
    \o Listed(DirtyVars(s.nested), Len(s.nested),
              [i \in DirtyVars(s.nested) |-> WriteVariable(s.nested[i], client)])

Blob(s, client) ==
    <<VAR_LENGTH_IO + Flag(s.object # 0, HAS_UOID), s.name, s.version>>
    \o (IF s.object # 0 THEN <<s.object>> ELSE <<>>) \o write(s, client)

(* write_var_count refuses more elements than TooMany; it is not called    *)
(* for a default, nor for nested states.                                   *)
RECURSIVE WriteFails(_)
WriteFails(s) ==
    \/ \E i \in DirtyVars(s.simple) :
         ~is_default(s.simple[i]) /\ Len(s.simple[i].vals) > TooMany
    \/ \E i \in DirtyVars(s.nested) :
         \E j \in DirtyStates(s.nested[i].vals) : WriteFails(s.nested[i].vals[j])

(* What a write gets right: a variable with a timestamp announces one that *)
(* does not follow, and for a Point3 is_default panics.  What is read from *)
(* the blob of any other state depends on the widths of the fields, which  *)
(* the model does not have.                                                *)
RECURSIVE Sound(_)
Sound(s) ==
    /\ \A i \in DirtyVars(s.simple) :
         s.simple[i].stamp = 0 /\ ~Panics(s.simple[i])
    /\ \A i \in DirtyVars(s.nested) :
         \A j \in DirtyStates(s.nested[i].vals) : Sound(s.nested[i].vals[j])

-----------------------------------------------------------------------------
(* Reading: from a position, to a value and the position after it.  Then   *)
(* is the `?` of the code.                                                 *)
Err       == [ok |-> FALSE, val |-> 0, pos |-> 0]
Ok(v, p)  == [ok |-> TRUE, val |-> v, pos |-> p]
Then(r, Go(_)) == IF r.ok THEN Go(r) ELSE Err
Cell(b, p) == IF p \in DOMAIN b THEN Ok(b[p], p + 1) ELSE Err

(* The next n cells; the end of the blob is an error. *)
Cells(b, p, n) == IF p + n - 1 <= Len(b) THEN Ok(SubSeq(b, p, p + n - 1), p + n) ELSE Err

read_var_count(b, p, d) ==
    Then(IF d.fixed THEN Ok(d.count, p) ELSE Cell(b, p),
         LAMBDA c : IF c.val < TooMany THEN c ELSE Err)

(* Mutant: the default flag is not looked at. *)
KeepsDefault_never(flags) == FALSE
KeepsDefault(flags) == Has(flags, SAME_AS_DEFAULT)

ReadStamp(b, p, flags, old) ==
    IF Has(flags, HAS_TIMESTAMP) THEN Cell(b, p)
    ELSE Ok(IF Has(flags, HAS_DIRTY_FLAG) /\ Has(flags, WANT_TIMESTAMP) THEN Now ELSE old, p)
element(d, c) ==
    CASE d.type = "Str"  -> Lossy(c)
      [] d.type = "Bool" -> IF c # 0 THEN 1 ELSE 0
      [] OTHER           -> c
ReadValues(b, p, d) ==
    Then(read_var_count(b, p, d), LAMBDA n :
    Then(IF d.type = "Time" THEN Ok([i \in 1..n.val |-> 0], n.pos) ELSE Cells(b, n.pos, n.val),
         LAMBDA c : Ok([i \in DOMAIN c.val |-> element(d, c.val[i])], c.pos)))
read_simple(b, p, v) ==
    Then(Cell(b, p), LAMBDA f :
    Then(ReadStamp(b, f.pos, f.val, v.stamp), LAMBDA t :
    Then(IF KeepsDefault(f.val) THEN Ok(v.vals, t.pos) ELSE ReadValues(b, t.pos, v.d),
         LAMBDA x : Ok([v EXCEPT !.stamp = t.val, !.vals = x.val], x.pos))))

(* Elements at the indices that Listed wrote, read over those in list. *)
RECURSIVE ReadState(_, _, _), ReadVariable(_, _, _), ReadEach(_, _, _, _, _, _)
ReadEach(b, p, k, count, list, states) ==
    IF k = count THEN Ok(list, p)
    ELSE Then(IF count # Len(list) THEN Cell(b, p) ELSE Ok(k, p), LAMBDA i :
         Then(IF i.val >= Len(list) THEN Err
              ELSE IF states THEN ReadState(b, i.pos, list[i.val + 1])
              ELSE ReadVariable(b, i.pos, list[i.val + 1]), LAMBDA e :
         ReadEach(b, e.pos, k + 1, count, [list EXCEPT ![i.val + 1] = e.val], states)))
ReadListed(b, p, list, states) ==
    Then(Cell(b, p), LAMBDA c : ReadEach(b, c.pos, 0, c.val, list, states))

read_statedesc(b, p, v) ==
    Then(Cell(b, p), LAMBDA f :
    Then(read_var_count(b, f.pos, v.d), LAMBDA n :
    Then(ReadListed(b, n.pos, [i \in 1..n.val |-> from_defaults(v.d.of, get_latest(v.d.of))],
                    TRUE),
         LAMBDA r : Ok([v EXCEPT !.vals = r.val], r.pos))))

Read(v, hint) == [v EXCEPT !.hint = hint, !.dirty = TRUE]

ReadVariable(b, p, v) ==
    Then(Cell(b, p), LAMBDA f :
    Then(IF Has(f.val, HAS_NOTIFICATION_INFO) THEN Cell(b, f.pos + 1) ELSE Ok(0, f.pos),
         LAMBDA h :
    Then(IF v.d.type = "StateDesc" THEN read_statedesc(b, h.pos, v)
         ELSE read_simple(b, h.pos, v),
         LAMBDA r : Ok(Read(r.val, h.val), r.pos))))

ReadState(b, p, s) ==
    Then(Cells(b, p, 2), LAMBDA head :
    Then(IF head.val[2] = IO_VERSION THEN ReadListed(b, head.pos, s.simple, FALSE) ELSE Err,
         LAMBDA simple :
    Then(ReadListed(b, simple.pos, s.nested, FALSE), LAMBDA nested :
         Ok([s EXCEPT !.flags = head.val[1], !.simple = simple.val, !.nested = nested.val],
            nested.pos))))

from_blob(b) ==
    Then(Cells(b, 1, 3), LAMBDA h :
    Then(IF ~Has(h.val[1], VAR_LENGTH_IO) THEN Err
         ELSE IF Has(h.val[1], HAS_UOID) THEN Cell(b, h.pos) ELSE Ok(0, h.pos), LAMBDA o :
    IF h.val[2] \in DOMAIN Db /\ h.val[3] \in DOMAIN Db[h.val[2]]
    THEN ReadState(b, o.pos, [from_defaults(h.val[2], h.val[3]) EXCEPT !.object = o.val])
    ELSE Err))

-----------------------------------------------------------------------------
(* Variable::upgrade_from and State::upgrade; the new variable has its     *)
(* defaults and is not dirty, and stays so.                                *)
RECURSIVE upgrade(_)
(* Mutant: what has changed its size is taken over too. *)
Convertible_resized(new, old) == new.type = old.type /\ new.of = old.of
Convertible(new, old) ==
    new.type = old.type /\ new.of = old.of /\ new.fixed = old.fixed /\ new.count = old.count
TakesOver(new, old) == ~is_default(old) /\ Convertible(new.d, old.d)
upgrade_from(new, old) ==
    IF ~TakesOver(new, old) THEN new
    ELSE [new EXCEPT !.vals = IF Nested(old.d)
                              THEN [i \in DOMAIN old.vals |-> upgrade(old.vals[i])]
                              ELSE old.vals]
Upgraded(vs, s) ==
    [i \in DOMAIN vs |-> IF vs[i].d.name \in Names(s)
                         THEN upgrade_from(vs[i], get_var(s, vs[i].d.name)) ELSE vs[i]]
Latest(s) == from_defaults(s.name, get_latest(s.name))
upgrade(s) ==
    IF s.version = get_latest(s.name) THEN s
    ELSE [Latest(s) EXCEPT !.simple = Upgraded(@, s), !.nested = Upgraded(@, s)]

(* The names for which upgrade calls upgrade_from.  It asks an old Point3  *)
(* whether it is the default; and where the old value is, a build with     *)
(* debug assertions insists that the new one is too, which one of varying  *)
(* length never is.                                                        *)
Renewed(s) == Names(s) \cap Names(Latest(s))
PanicsAlways(s, n) == Panics(get_var(s, n))
PanicsInDebug(s, n) ==
    LET new == get_var(Latest(s), n)
    IN  is_default(get_var(s, n)) /\ (Panics(new) \/ ~is_default(new))

-----------------------------------------------------------------------------
(* What a client may send: any choice of variables, each in a form of Wire. *)
(* The bare form of a nested state has no dirty variable.                  *)
Form(d) ==
    LET v == NewVariable(d)
    IN  {v} \cup {[v EXCEPT !.dirty = TRUE, !.stamp = w.stamp, !.hint = w.hint,
                            !.vals = w.vals] :
                  w \in {x \in Wire[d.name] : d.fixed => Len(x.vals) = d.count}}
RECURSIVE Selections(_)
Selections(ds) ==
    IF ds = <<>> THEN {<<>>}
    ELSE {<<v>> \o c : v \in Form(Head(ds)), c \in Selections(Tail(ds))}
Sent(version) ==
    {[from_defaults(Top, version) EXCEPT !.simple = s, !.nested = n, !.object = o] :
        s \in Selections(SelectSeq(Db[Top][version], Simple)),
        n \in Selections(SelectSeq(Db[Top][version], Nested)), o \in {0, 1}}

(* A State is made from defaults or read from a client's blob. *)
Init ==
    /\ taken = {}
    /\ \E version \in DOMAIN Db[Top] :
        \/ st = from_defaults(Top, version) /\ from = st /\ how = "made"
        \/ \E w \in Sent(version) :
             LET r == from_blob(Blob(w, TRUE))
             IN  st = (IF r.ok THEN r.val ELSE w) /\ from = w
                 /\ how = (IF r.ok THEN "received" ELSE "rejected")

(* set_bool, set_byte and set_int *)
(* Mutant: the value is set and the variable not marked. *)
Assign_unmarked(v, i, x) == [v EXCEPT !.vals[i] = x]
Assign(v, i, x) == [v EXCEPT !.vals[i] = x, !.dirty = TRUE]

InUse == how \notin {"rejected", "panicked"}

Set(k, i, x) ==
    /\ InUse
    /\ st.simple[k].d.type \in {"Int", "Bool"}
    /\ st' = [st EXCEPT !.simple[k] = Assign(@, i, x)]
    /\ how' = "set" /\ from' = st' /\ taken' = taken \ {st.simple[k].d.name}

Upgrade ==
    /\ InUse /\ st.version # get_latest(st.name)
    /\ \A n \in Renewed(st) : ~PanicsAlways(st, n)
    /\ st' = upgrade(st) /\ how' = "upgraded" /\ from' = st
    /\ taken' = {n \in Renewed(st) : TakesOver(get_var(Latest(st), n), get_var(st, n))}

(* Whether the second kind of panic happens depends on the build. *)
UpgradePanics ==
    /\ InUse /\ st.version # get_latest(st.name)
    /\ \E n \in Renewed(st) : PanicsAlways(st, n) \/ PanicsInDebug(st, n)
    /\ how' = "panicked" /\ UNCHANGED <<st, from, taken>>

(* Saved, and loaded into a new State.  A save that fails changes nothing. *)
Saved(s) == IF WriteFails(s) THEN Err ELSE from_blob(Blob(s, FALSE))
Reload ==
    LET r == Saved(st)
    IN  /\ InUse /\ Sound(st) /\ r.ok
        /\ st' = r.val /\ how' = "loaded" /\ from' = r.val /\ taken' = {}

Next ==
    \/ \E k \in DOMAIN st.simple, x \in Value :
         \E i \in DOMAIN st.simple[k].vals : Set(k, i, x)
    \/ Upgrade
    \/ UpgradePanics
    \/ Reload

Spec == Init /\ [][Next]_vars

-----------------------------------------------------------------------------
(* What is left of a state that is written and read: the dirty variables   *)
(* and, in them, the states with a dirty variable; the rest is default.    *)
RECURSIVE Kept(_, _)
KeptVar(v, client) ==
    IF ~v.dirty THEN NewVariable(v.d)
    ELSE IF Nested(v.d)
         THEN [v EXCEPT !.vals = [i \in DOMAIN v.vals |->
                 IF is_dirty(v.vals[i]) THEN Kept(v.vals[i], client)
                 ELSE from_defaults(v.d.of, get_latest(v.d.of))]]
    ELSE IF is_default(v) THEN v
    ELSE [v EXCEPT !.vals = [i \in DOMAIN v.vals |->
            element(v.d, IF client THEN v.vals[i] ELSE cell(v.d, v.vals[i]))]]
Kept(s, client) ==
    [s EXCEPT !.simple = [i \in DOMAIN s.simple |-> KeptVar(s.simple[i], client)],
              !.nested = [i \in DOMAIN s.nested |-> KeptVar(s.nested[i], client)]]

(* A variable to be written has as many elements as the reader refuses. *)
RECURSIVE Oversized(_)
Oversized(s) ==
    \/ \E i \in DirtyVars(s.simple) :
         ~is_default(s.simple[i]) /\ Len(s.simple[i].vals) >= TooMany
    \/ \E i \in DirtyVars(s.nested) :
         \/ Len(s.nested[i].vals) >= TooMany
         \/ \E j \in DirtyStates(s.nested[i].vals) : Oversized(s.nested[i].vals[j])

(* Every string to be written fits. *)
RECURSIVE Uncut(_)
Uncut(s) ==
    /\ \A i \in DirtyVars(s.simple) :
         s.simple[i].d.type = "Str" =>
            \A k \in DOMAIN s.simple[i].vals :
                Lossy(Cut(s.simple[i].vals[k])) = s.simple[i].vals[k]
    /\ \A i \in DirtyVars(s.nested) :
         \A j \in DirtyStates(s.nested[i].vals) : Uncut(s.nested[i].vals[j])

(* The blob of a client is read in full, unless a variable in it reaches   *)
(* the limit: what it sent is in the state, at the index it was sent for,  *)
(* and marked to be saved; nothing else is.  A state that is written can   *)
(* be read again under the same condition, unless it has a timestamp or a  *)
(* Point3 to write: all of the blob is used, every dirty variable comes    *)
(* back with its hint and its values, a string with what is left of it,    *)
(* and saving what was loaded changes nothing more, nor the blob if no     *)
(* string was cut (test_blob_round_trip, for every state the operations    *)
(* reach).                                                                 *)
RoundTrip ==
    /\ how = "rejected" <=> Oversized(from) /\ how \in {"received", "rejected"}
    /\ how = "received" => st = Kept(from, TRUE)
    /\ InUse /\ Sound(st) =>
        LET b == Blob(st, FALSE)
            r == Saved(st)
        IN  /\ r.ok = ~Oversized(st)
            /\ r.ok =>
                /\ r.pos = Len(b) + 1
                /\ r.val = Kept(st, FALSE)
                /\ Saved(r.val).val = r.val
                /\ Uncut(st) => Blob(r.val, FALSE) = b

(* An upgrade keeps every value that the new version still has room for,   *)
(* in nested states too, and takes the new defaults elsewhere              *)
(* (State::upgrade, Variable::upgrade_from).                               *)
RECURSIVE UpgradeOf(_, _)
UpgradeOf(s, t) ==
    /\ t.version = get_latest(s.name)
    /\ \A i \in DOMAIN AllVars(t) :
        LET v    == AllVars(t)[i]
            olds == {j \in DOMAIN AllVars(s) :
                        LET o == AllVars(s)[j]
                        IN  /\ [o.d EXCEPT !.default = 0] = [v.d EXCEPT !.default = 0]
                            /\ ~is_default(o)}
        IN  IF olds = {} THEN v.vals = NewVariable(v.d).vals
            ELSE \A j \in olds :
                    LET old == AllVars(s)[j].vals
                    IN  /\ Len(old) = Len(v.vals)
                        /\ \A k \in DOMAIN old : IF Nested(v.d) THEN UpgradeOf(old[k], v.vals[k])
                                                 ELSE v.vals[k] = old[k]
UpgradeKeeps == how = "upgraded" => UpgradeOf(from, st)

(* What a state holds, in nested states too, as far as a blob can hold it. *)
RECURSIVE Contents(_)
ContentsOf(v) == [k \in DOMAIN v.vals |-> IF Nested(v.d) THEN Contents(v.vals[k])
                                          ELSE element(v.d, cell(v.d, v.vals[k]))]
Contents(s) == [i \in DOMAIN AllVars(s) |-> ContentsOf(AllVars(s)[i])]

(* Saving a state and loading it loses exactly the values that an upgrade  *)
(* took over from an older version, simple or nested, and that nobody has  *)
(* set since: upgrade_from copies the values and not the marks by which    *)
(* State::write picks what it writes.  Whatever a client sent, set_* set   *)
(* or a blob gave back is there after the next load.                       *)
SaveLosesOnlyUpgraded ==
    LET r == Saved(st)
        Survives(v, loaded) ==
            ContentsOf(loaded) = ContentsOf(IF v.d.name \in taken THEN NewVariable(v.d) ELSE v)
    IN  InUse /\ Sound(st) /\ r.ok =>
            /\ \A i \in DOMAIN st.simple : Survives(st.simple[i], r.val.simple[i])
            /\ \A i \in DOMAIN st.nested : Survives(st.nested[i], r.val.nested[i])

=============================================================================
