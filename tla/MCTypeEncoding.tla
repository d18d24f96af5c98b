--------------------------- MODULE MCTypeEncoding ---------------------------
(***************************************************************************)
(* TypeEncoding on every way that three structs may refer to each other,   *)
(* the first in up to two fields and the others in up to one, and on a     *)
(* struct with every native type.                                          *)
(***************************************************************************)
EXTENDS EncodingForDevice

(* Defined in another order than their names are sorted in.                *)
A == <<65>>
AB == <<65, 66>>
B == <<66>>

Type(base, number, levels) == [base |-> base, number |-> number, levels |-> levels]

Struct(name, types) ==
    [name |-> name,
     fields |-> [i \in DOMAIN types |-> [type |-> types[i], name |-> <<96 + i>>]]]

(* A struct, then an array of twelve structs.                              *)
References(list) == [i \in DOMAIN list |-> Type(list[i], NULL, IF i = 1 THEN << >> ELSE <<12>>)]

Names == {A, AB, B}

UpTo(n) == UNION {[1..k -> Names] : k \in 0..n}

Graphs ==
    {<<Struct(B, References(b)), Struct(AB, References(ab)), Struct(A, References(a))>> :
        b \in UpTo(2), ab \in UpTo(1), a \in UpTo(1)}

Natives ==
    <<Struct(A, <<Type(typenames[4], NULL, <<2, NULL>>)>>),
      Struct(B, <<Type(typenames[1], 256, << >>), Type(typenames[2], 8, <<NULL, 3>>),
                  Type(A, NULL, <<10>>), Type(typenames[3], NULL, << >>),
                  Type(typenames[4], NULL, << >>), Type(typenames[5], NULL, <<NULL>>),
                  Type(typenames[6], 4, << >>), Type(typenames[6], NULL, << >>)>>)>>

MCSchemas == Graphs \cup {Natives}

(* A struct whose name ends in a number.                                   *)
Numbered ==
    {<<Struct(B, <<Type(A, 1, << >>)>>), Struct(<<65, 49>>, <<Type(typenames[4], NULL, << >>)>>)>>}

ASSUME PlainSchemas == \A s \in MCSchemas : Plain(s)

MCJsonNames == UNION {StructsOf(s) : s \in MCSchemas \cup Numbered}

MCJsonFields ==
    UNION {UNION {ToSet(s[i].fields) : i \in DOMAIN s} : s \in MCSchemas \cup Numbered}

=============================================================================
