------------------------------- MODULE Schema -------------------------------
(***************************************************************************)
(* What the definitions APDUs are for: a list of structs, each a name and  *)
(* a list of fields, that grows at its end. It can be lost as a whole.     *)
(***************************************************************************)
EXTENDS Sequences, Naturals

CONSTANTS Names, Fields, Lost

VARIABLE schema

Init == schema = << >>

DefineStruct(name) ==
    /\ schema # Lost
    /\ schema' = Append(schema, [name |-> name, fields |-> << >>])

DefineField(field) ==
    /\ schema \notin {Lost, << >>}
    /\ schema' = [schema EXCEPT ![Len(schema)].fields = Append(@, field)]

Lose == schema' = Lost

Next ==
    \/ \E name \in Names : DefineStruct(name)
    \/ \E field \in Fields : DefineField(field)
    \/ Lose

Spec == Init /\ [][Next]_schema

=============================================================================
