------------------------------ MODULE MCDevice ------------------------------
(***************************************************************************)
(* Device on small schemas, with a bound on the number of APDUs.           *)
(***************************************************************************)
EXTENDS Device

CONSTANT MaxApdus   \* APDUs in a behaviour

VARIABLE sent

Native(type, size, lvls) == [type |-> type, typename |-> type, typesize |-> size, lvls |-> lvls]
Struct(name, lvls) == [type |-> "custom", typename |-> name, typesize |-> 0, lvls |-> lvls]
Dynamic == [kind |-> "dynamic", size |-> 0]
Fixed(n) == [kind |-> "fixed", size |-> n]

(* Mail holds an array of structs, a two-level array and a dynamic value;  *)
(* Box holds a Mail, and Crate a Box, which is deeper than the path of the *)
(* configuration allows. Note is a message in one value, for several       *)
(* messages one after the other.                                           *)
MCStructs ==
    "Person" :> <<Native("bool", 0, << >>), Native("bytes_fix", 2, <<Dynamic>>)>>
    @@ "Mail" :> <<Struct("Person", <<Dynamic>>),
                   Native("uint", 1, <<Fixed(2), Dynamic>>),
                   Native("string", 0, << >>)>>
    @@ "Box" :> <<Struct("Mail", << >>), Native("address", 0, << >>)>>
    @@ "Crate" :> <<Struct("Box", << >>)>>
    @@ "Note" :> <<Native("string", 0, << >>)>>

MCRootNames == {"Mail", "Crate", "Note", "Nothing"}

(* A byte that goes on with a value; one byte of one; one of two, so that  *)
(* another packet must follow.                                             *)
MCPackets == {<<7>>, <<0, 1, 7>>, <<0, 2, 1>>}

(* What the tables and the memory have no room for, and what the checks of *)
(* path.c let through: a type that contains itself, a struct without a     *)
(* field, an array of two levels where one can be open.                    *)
LimitStructs ==
    "Node" :> <<Struct("Node", << >>), Native("uint", 32, << >>)>>
    @@ "Void" :> << >>
    @@ "Holder" :> <<Struct("Leaf", <<Dynamic, Dynamic>>)>>
    @@ "Hub" :> <<Struct("Leaf", << >>), Struct("Void", << >>), Struct("Node", << >>)>>
    @@ "Leaf" :> <<Native("uint", 1, <<Dynamic>>)>>

LimitRootNames == {"Node", "Void", "Holder", "Hub", "Leaf"}

LimitPackets == {<<0, 1, 7>>}

MCInit == Init /\ sent = 0

MCContinue == Continue /\ UNCHANGED sent

MCHandle == sent < MaxApdus /\ sent' = sent + 1 /\ \E apdu \in APDU : handle_apdu(apdu)

MCSpec == MCInit /\ [][MCContinue \/ MCHandle]_<<vars, sent>> /\ WF_vars(Continue)

=============================================================================
