------------------------------ MODULE MCFramer ------------------------------
(***************************************************************************)
(* Framer on every stream of up to three APDUs, cut short anywhere.        *)
(***************************************************************************)
EXTENDS Framer

(* A definition, a whole value and an array, and the three ways to be      *)
(* unknown: INS, P2, P1.                                                   *)
Headers == {<<0, 1, 0, 0>>, <<0, 2, 0, 2>>, <<1, 2, 1, 1>>,
            <<0, 0, 0, 0>>, <<0, 1, 0, 1>>, <<0, 2, 1, 2>>}

Apdus == {header \o <<Len(data)>> \o data :
             header \in Headers, data \in {<< >>, <<2>>, <<1, 0>>}}

Whole == {a \o b \o c : a, b, c \in Apdus \cup {<< >>}}

MCStreams == UNION {{SubSeq(s, 1, n) : n \in {0, Len(s) - 2, Len(s) - 1, Len(s)}} : s \in Whole}

=============================================================================
