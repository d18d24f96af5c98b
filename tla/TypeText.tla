------------------------------ MODULE TypeText ------------------------------
(***************************************************************************)
(* encodeType() of the library the reference hashes come from: the text of *)
(* a type, from the types of the JSON message. A schema is the sequence of *)
(* its structs, each a name and its fields.                                *)
(***************************************************************************)
EXTENDS Integers, FiniteSetsExt, SequencesExt

CONSTANT NULL

(* The numbers of a type have at most four digits.                         *)
Decimal(n) ==
    LET digit(unit) == 48 + ((n \div unit) % 10)
    IN  CASE n \in 0..9     -> <<digit(1)>>
          [] n \in 10..99   -> <<digit(10), digit(1)>>
          [] n \in 100..999 -> <<digit(100), digit(10), digit(1)>>
          [] OTHER          -> <<digit(1000), digit(100), digit(10), digit(1)>>

(* The type without the levels of an array: the struct a field is of.      *)
BaseName(type) == type.base \o (IF type.number = NULL THEN << >> ELSE Decimal(type.number))

(* [] or [n] for each level.                                               *)
TypeString(type) ==
    BaseName(type)
    \o FlattenSeq([i \in DOMAIN type.levels |->
           <<91>> \o (IF type.levels[i] = NULL THEN << >> ELSE Decimal(type.levels[i])) \o <<93>>])

StructsOf(schema) == {schema[i].name : i \in DOMAIN schema}

FieldsOf(schema, name) ==
    schema[Min({i \in DOMAIN schema : schema[i].name = name})].fields

UsedBy(schema, name) ==
    {BaseName(FieldsOf(schema, name)[i].type) : i \in DOMAIN FieldsOf(schema, name)}
        \cap StructsOf(schema)

(* The names, and all that the structs of those names use: the least set   *)
(* of structs that goes on to nothing else.                                *)
Reached(schema, names) ==
    {name \in StructsOf(schema) \cup names :
        \A closed \in SUBSET (StructsOf(schema) \cup names) :
            names \subseteq closed /\ (\A used \in closed : UsedBy(schema, used) \subseteq closed)
                => name \in closed}

Recursive(schema, name) == name \in Reached(schema, UsedBy(schema, name))

Before(s, t) ==
    \/ Len(s) < Len(t) /\ IsPrefix(s, t)
    \/ \E i \in DOMAIN s \cap DOMAIN t :
        s[i] < t[i] /\ \A j \in 1..(i - 1) : s[j] = t[j]

StructString(schema, name) ==
    LET fields == FieldsOf(schema, name)
    IN  name \o <<40>>
        \o FlattenSeq([i \in DOMAIN fields |->
               (IF i = 1 THEN << >> ELSE <<44>>)
               \o (TypeString(fields[i].type) \o <<32>> \o fields[i].name)])
        \o <<41>>

Sorted(names) ==
    CHOOSE list \in SetToSeqs(names) :
        \A i, j \in DOMAIN list : i < j => Before(list[i], list[j])

(* The type, and behind it those it uses, in the order of their names.     *)
EncodeType(schema, name) ==
    LET used == Sorted(Reached(schema, {name}) \ {name})
    IN  FlattenSeq([i \in 1..(Len(used) + 1) |->
            StructString(schema, IF i = 1 THEN name ELSE used[i - 1])])

=============================================================================
