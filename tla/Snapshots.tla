----------------------------- MODULE Snapshots -----------------------------
(***************************************************************************)
(* How a condition finds its value in the snapshots of an event:           *)
(* resolve_snapshot and resolve_object_key_value of                        *)
(* engine-core/src/actors/handlers/boolean_handler/boolean_handler.rs.     *)
(*                                                                         *)
(* A key is the sequence of its parts between dots, some of them Empty.    *)
(* An object maps keys to values; a key of several parts is one field      *)
(* whose name has dots.  Snapshots are the pairs of a name and a value in  *)
(* the order of the payload (serde_json keeps it).  Conditions!Check takes *)
(* fields[key] to be the ValueOf that key.                                 *)
(***************************************************************************)
EXTENDS Sequences, Naturals, SequencesExt

CONSTANTS
    None,    \* Option::None
    Empty,   \* the empty string
    Folded   \* a name in lower case

Object(fields) == [type |-> "object", fields |-> fields]

Get(object, key) == IF key \in DOMAIN object.fields THEN object.fields[key] ELSE None

SameName(a, b) == Folded[a] = Folded[b]

(* The snapshot of this very name, else the first that differs in case only. *)
SnapshotOf(snapshots, objectType) ==
    LET exact  == SelectInSeq(snapshots, LAMBDA s : s.name = objectType)
        folded == SelectInSeq(snapshots, LAMBDA s : SameName(s.name, objectType))
    IN  IF exact # 0 THEN snapshots[exact].value
        ELSE IF folded # 0 THEN snapshots[folded].value ELSE None

Into(v, part) == IF v = None \/ v.type # "object" THEN None ELSE Get(v, <<part>>)

(* From v, which the first-th part of a key names, along the parts that follow;
   empty parts are skipped. *)
Walk(v, key, first) ==
    LET current[i \in first .. Len(key)] ==
            IF i = first THEN v
            ELSE IF key[i] = Empty THEN current[i - 1] ELSE Into(current[i - 1], key[i])
    IN  current[Len(key)]

(* by_path: part by part through nested objects. *)
ByPath(object, key) ==
    LET first == SelectInSeq(key, LAMBDA part : part # Empty)
    IN  IF first = 0 THEN None ELSE Walk(Get(object, <<key[first]>>), key, first)

(* Faulty: drops the object type in its own spelling only. *)
UnqualifiedExactly(key, objectType) ==
    IF Len(key) > 1 /\ key[1] = objectType THEN Tail(key) ELSE << >>

(* What follows the object type in a key that begins with it. *)
Unqualified(key, objectType) ==
    IF Len(key) > 1 /\ SameName(key[1], objectType) THEN Tail(key) ELSE << >>

(* Faulty: takes the description of any field. *)
DescribedAny(object, key) ==
    IF Get(object, <<"value">>) # None THEN Get(object, <<"value">>)
    ELSE Get(object, <<"amount">>)

(* An object that describes one field: its name and its value. *)
Described(object, key) ==
    LET mapped == Get(object, <<"object_key">>)
    IN  IF mapped = None \/ mapped # [type |-> "string", text |-> key] THEN None
        ELSE IF Get(object, <<"value">>) # None THEN Get(object, <<"value">>)
        ELSE Get(object, <<"amount">>)

(* The first of the four that finds something. *)
ValueOf(object, objectType, key) ==
    LET ways == <<Get(object, key), ByPath(object, key),
                  ByPath(object, Unqualified(key, objectType)), Described(object, key)>>
        found == SelectInSeq(ways, LAMBDA v : v # None)
    IN  IF found = 0 THEN None ELSE ways[found]

=============================================================================
