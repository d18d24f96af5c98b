----------------------------- MODULE MCSession -----------------------------
(***************************************************************************)
(* Session on a schema where the shapes of the samples meet: structs in    *)
(* structs, arrays of structs that hold arrays, arrays of two levels,      *)
(* values of several packets, a struct reached in two ways.                *)
(***************************************************************************)
EXTENDS Session

Native(type, size, lvls) == [type |-> type, typename |-> type, typesize |-> size, lvls |-> lvls]
Struct(name, lvls) == [type |-> "custom", typename |-> name, typesize |-> 0, lvls |-> lvls]
Dynamic == [kind |-> "dynamic", size |-> 0]
Fixed(n) == [kind |-> "fixed", size |-> n]

(* Order's items are structs that begin with a value; Tree's are structs   *)
(* that begin with a struct.                                               *)
MCStructs ==
    "EIP712Domain" :> <<Native("string", 0, << >>), Native("uint", 2, << >>)>>
    @@ "Person" :> <<Native("address", 0, << >>), Native("string", 0, <<Dynamic>>)>>
    @@ "Item" :> <<Native("uint", 1, << >>), Struct("Person", << >>),
                   Native("bytes_dyn", 0, <<Dynamic>>)>>
    @@ "Order" :> <<Struct("Person", << >>), Struct("Item", <<Fixed(2), Dynamic>>),
                    Native("bool", 0, << >>)>>
    @@ "Batch" :> <<Struct("Item", <<Dynamic>>), Struct("Person", <<Dynamic>>),
                    Native("bytes_fix", 2, <<Dynamic, Fixed(2)>>)>>
    @@ "Pair" :> <<Struct("Person", << >>), Native("int", 1, << >>)>>
    @@ "Tree" :> <<Struct("Pair", <<Dynamic>>), Native("uint", 1, << >>)>>
    @@ "Flags" :> <<Native("bool", 0, <<Dynamic>>), Native("uint", 1, << >>)>>
    @@ "Delta" :> <<Native("int", 1, << >>)>>

Texts == {<< >>, <<65, 66, 67>>, <<65, 66, 67, 68, 69, 70, 71, 72>>}

Domain(text) == <<text, 300>>

Person(names) == <<<<9, 9>>, names>>
Item(n, names, blobs) == <<n, Person(names), blobs>>

Orders ==
    {<<Person(<<t>>),
       <<<<Item(1, <<t, u>>, <<u>>), Item(2, <<t>>, <<t, u>>)>>>>,
       1>> : t \in Texts, u \in Texts}

Batches ==
    {<<[i \in 1..n |-> Item(i, <<t>>, <<t>>)],
       [i \in 1..m |-> Person(<<t>>)],
       <<[i \in 1..n |-> <<i, m>>], [i \in 1..m |-> <<m, i>>]>>>> :
        n \in 1..2, m \in 1..2, t \in Texts}

Of(type, data) == {[domain |-> Domain(t), primaryType |-> type, data |-> d] :
                      t \in {<<65, 66, 67>>}, d \in data}

MCMessages == Of("Order", Orders) \cup Of("Batch", Batches)

(* An array whose elements begin with a struct.                            *)
TreeMessages ==
    Of("Tree", {<<<<<<Person(<<t>>), 3>>, <<Person(<<t>>), 4>>>>, 5>> : t \in Texts})

(* An array with no element; a number below zero.                          *)
EmptyArrayMessages == Of("Flags", {<< << >>, n >> : n \in 1..3})
NegativeMessages == Of("Delta", {<<n>> : n \in {-1, -128, 5, 127}})

=============================================================================
