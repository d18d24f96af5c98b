------------------------- MODULE EncodingForDevice -------------------------
(***************************************************************************)
(* What Device takes type_hash() to be, next to what the function does.    *)
(***************************************************************************)
EXTENDS TypeEncoding

(* The schema as Eip712Types has it.                                       *)
TypeNames == <<"int", "uint", "address", "bool", "string", "bytes_fix", "bytes_dyn">>

AbstractField(field) ==
    LET enum == TypeEnum(field.type)
    IN  [type |-> IF enum = TYPE_CUSTOM THEN "custom" ELSE TypeNames[enum],
         typename |-> field.type.base,
         typesize |-> IF TypeSize(field.type) = NULL THEN 0 ELSE TypeSize(field.type),
         lvls |-> [i \in DOMAIN field.type.levels |->
                      IF field.type.levels[i] = NULL THEN [kind |-> "dynamic", size |-> 0]
                      ELSE [kind |-> "fixed", size |-> field.type.levels[i]]]]

AbstractSchema(s) ==
    [name \in StructsOf(s) |->
        [i \in DOMAIN FieldsOf(s, name) |-> AbstractField(FieldsOf(s, name)[i])]]

AbstractSchemas == {AbstractSchema(s) : s \in Schemas}

M(structs) == INSTANCE Memory WITH Structs <- structs, DefsEnd <- 0, CTX_SIZE <- 1,
                             ENC_SIZE <- 1, heap <- << >>, global_sha3 <- << >>

(* What Device takes type_hash() to be - which dependencies it keeps, when *)
(* it returns nothing, when it uses memory it was not given, and how much  *)
(* it leaves allocated - is what the function does, with any memory left:  *)
(* a recursive call that runs out of memory goes unnoticed, and the list   *)
(* is cut.                                                                 *)
AgreesWithDevice ==
    call.at = "done" =>
        \A structs \in AbstractSchemas :
            structs = AbstractSchema(schema) =>
                /\ M(structs)!TypeHashResult(call.name, call.from) =
                       (CASE status = "stray"     -> "stray"
                          [] call.result = "hash" -> "hash"
                          [] OTHER                -> "null")
                /\ call.result = "hash" =>
                       {get_struct_name(deps[i]) : i \in DOMAIN deps} = M(structs)!KeptDeps(call.name, call.from)
                /\ status = "run" /\ call.result = NULL =>
                       mem_idx = M(structs)!TypeHashLeft(call.name, call.from)

=============================================================================
