--------------------------- MODULE MCDefinitions ---------------------------
(***************************************************************************)
(* Definitions with names that begin alike, little room left in memory,    *)
(* and a bound on the number of steps.                                     *)
(***************************************************************************)
EXTENDS Definitions

CONSTANT MaxSteps   \* APDUs and uses of a context in a behaviour

VARIABLE steps

A == <<65>>
AB == <<65, 66>>

MCJsonNames == {A, AB}

(* uint8 x, A[][2] yy, bytes z, bytes4[3] zz, and a name one byte too long *)
(* for the index.                                                          *)
Field(base, number, levels, name) ==
    [type |-> [base |-> base, number |-> number, levels |-> levels], name |-> name]

Numbers == Field(typenames[2], 8, << >>, <<120>>)
Table == Field(A, NULL, <<NULL, 2>>, <<121, 121>>)
MCJsonFields ==
    {Numbers, Table,
     Field(typenames[6], NULL, << >>, <<122>>),
     Field(typenames[6], 4, <<3>>, <<122, 122>>),
     Field(typenames[3], NULL, << >>, [i \in 1..10 |-> 97])}

(* A field cut after its third byte, and the rest of it.                   *)
MCParts ==
    LET apdu == send_struct_def_field(Table.type, Table.name)
        payload == SubSeq(apdu, 6, Len(apdu))
    IN  {SubSeq(payload, 1, 3), SubSeq(payload, 4, Len(payload))}

MCInit == Init /\ steps = 0

MCNext == steps < MaxSteps /\ steps' = steps + 1 /\ Next

MCSpec == MCInit /\ [][MCNext]_<<vars, steps>>

=============================================================================
