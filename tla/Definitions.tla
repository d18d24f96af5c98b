----------------------------- MODULE Definitions -----------------------------
(***************************************************************************)
(* The signer while it is told the types: STRUCT DEF APDUs in any order,   *)
(* until the memory, the counts or the index of a field are exhausted, cut *)
(* in parts, or sent when hash contexts already lie above the definitions. *)
(***************************************************************************)
EXTENDS StructDefs

CONSTANTS JsonNames,    \* names, as bytes
          JsonFields,   \* records of a type and a name
          Parts,        \* pieces of a field's payload that are sent on their own
          CTX_SIZE,     \* sizeof(cx_sha3_t)
          Lost

VARIABLES defined,   \* what was sent, for as long as it is kept
          intact,    \* nothing was refused, wrapped or sent too late
          contexts   \* hash contexts in memory

vars == <<defVars, defined, intact, contexts>>

(* What accessors give for a field, once it is defined.                    *)
Meaning(field) ==
    [type |-> TypeEnum(field.type),
     typename |-> field.type.base, typesize |-> TypeSize(field.type),
     lvls |-> field.type.levels, keyname |-> field.name]

(* What the host sends is bytes, and what it sends of a name fits its APDU *)
(* (send_apdu() of feed_apdu.py).                                          *)
ASSUME DefinitionsAssumption ==
    /\ CTX_SIZE \in Nat \ {0}
    /\ \A name \in JsonNames \cup Parts :
        name \in Seq(Byte) /\ OFFSET_DATA + Len(name) <= BUF_SIZE
    /\ \A field \in JsonFields :
        /\ field.name \in Seq(Byte) /\ field.type.base \in Seq(Byte)
        /\ field.type.levels \in Seq(Byte \cup {NULL})
        /\ TypeSize(field.type) \in Byte \cup {NULL}
    /\ Lost \notin Seq([name : Seq(Byte), fields : Seq({Meaning(field) : field \in JsonFields})])

Init ==
    /\ DefsInit
    /\ defined = << >>
    /\ intact = TRUE
    /\ contexts = 0

-----------------------------------------------------------------------------

(* The function stores all its pieces, right above the definitions.        *)
Whole(pieces) == contexts = 0 /\ Allocated(pieces, mem_idx) = Len(pieces)

DefineStruct(name) ==
    LET data == Received(send_struct_def_name(name))
    IN  /\ status = "run"
        /\ buf' = data
        /\ set_struct_name(data)
        /\ intact' = /\ intact
                     /\ Whole(NamePieces(data))
                     /\ mem[structs_array] + 1 < COUNT_VALUES
        /\ defined' = IF intact' THEN Append(defined, [name |-> name, fields |-> << >>])
                      ELSE defined
        /\ UNCHANGED contexts

DefineField(field) ==
    LET apdu == send_struct_def_field(field.type, field.name)
        data == Received(apdu)
    IN  /\ status = "run"
        /\ Len(apdu) <= BUF_SIZE
        /\ buf' = data
        /\ set_struct_field(data)
        /\ intact' = /\ intact
                     /\ status' = "run"
                     /\ Whole(FieldPieces(data))
                     /\ Len(apdu) <= INDEX_VALUES
                     /\ mem[current_struct_fields_array] + 1 < COUNT_VALUES
        /\ defined' = IF intact'
                      THEN [defined EXCEPT ![Len(defined)].fields = Append(@, Meaning(field))]
                      ELSE defined
        /\ UNCHANGED contexts

(* A field announced as partial (P1_PARTIAL), which is not looked at: what *)
(* is missing is read from where an earlier APDU was.                      *)
DefinePart(part) ==
    LET data == Received(<<224, 26, 255, 255, Len(part)>> \o part)
    IN  /\ status = "run"
        /\ buf' = data
        /\ set_struct_field(data)
        /\ intact' = FALSE
        /\ UNCHANGED <<defined, contexts>>

(* A message begins: path.c allocates a context and hashes into it.        *)
PushContext ==
    /\ status = "run"
    /\ mem_idx + CTX_SIZE <= SIZE_MEM_BUFFER
    /\ mem' = Written(mem, mem_idx, [i \in 1..CTX_SIZE |-> 255])
    /\ mem_idx' = mem_idx + CTX_SIZE
    /\ contexts' = contexts + 1
    /\ UNCHANGED <<buf, current_struct_fields_array, status, defined, intact>>

(* A value is hashed into what is taken for a context, below the top.      *)
HashIntoTop ==
    /\ status = "run"
    /\ contexts > 0
    /\ mem' = Written(mem, mem_idx - CTX_SIZE, [i \in 1..CTX_SIZE |-> 254])
    /\ UNCHANGED <<mem_idx, buf, current_struct_fields_array, status, defined, intact, contexts>>

PopContext ==
    /\ status = "run"
    /\ contexts > 0
    /\ mem_idx' = mem_idx - CTX_SIZE
    /\ contexts' = contexts - 1
    /\ UNCHANGED <<mem, buf, current_struct_fields_array, status, defined, intact>>

Next ==
    \/ \E name \in JsonNames : DefineStruct(name)
    \/ \E field \in JsonFields : DefineField(field)
    \/ \E part \in Parts : DefinePart(part)
    \/ PushContext
    \/ HashIntoTop
    \/ PopContext

Spec == Init /\ [][Next]_vars

-----------------------------------------------------------------------------

DecodedField(p) ==
    LET lvls == get_struct_field_array_lvls_array(p)
    IN  [type |-> struct_field_type(p),
         typename |-> get_struct_field_typename(p),
         typesize |-> IF struct_field_has_typesize(p) THEN get_struct_field_typesize(p) ELSE NULL,
         lvls |-> IF struct_field_is_array(p)
                  THEN [n \in 1..mem[lvls] |-> struct_field_array_depth(LevelPtr(lvls)[n])]
                  ELSE << >>,
         keyname |-> get_struct_field_keyname(p)]

DecodedStruct(p) ==
    [name |-> get_struct_name(p),
     fields |-> [n \in 1..FieldsCount(p) |-> DecodedField(FieldPtr(p)[n])]]

Decoded == [n \in 1..mem[structs_array] |-> DecodedStruct(StructPtr[n])]

(* The variables keep their C types, and the memory index its buffer.      *)
TypeOK ==
    /\ mem \in [0..(SIZE_MEM_BUFFER - 1) -> Byte]
    /\ mem_idx \in (structs_array + 1)..SIZE_MEM_BUFFER
    /\ buf \in [1..BUF_SIZE -> Byte]
    /\ current_struct_fields_array \in {NULL} \cup ((structs_array + 1)..(SIZE_MEM_BUFFER - 1))
    /\ status \in {"run", "stray"}
    /\ contexts \in 0..((SIZE_MEM_BUFFER - structs_array) \div CTX_SIZE)

(* The accessors read back what was sent, struct by struct and field by    *)
(* field, unless a definition was refused, cut, too long for the index,    *)
(* one too many for a count, or came after the first context: the handlers *)
(* and the accessors of entrypoint.c implement the list that the STRUCT    *)
(* DEF APDUs of docs/specs.md describe.                                    *)
S == INSTANCE Schema WITH schema <- IF intact THEN Decoded ELSE Lost,
                          Names <- JsonNames,
                          Fields <- {Meaning(field) : field \in JsonFields}

KeepsSchema == S!Spec

(* Whatever follows - definitions that do not fit, counts that wrap, parts *)
(* of fields, contexts that come and go - the structs before the last one  *)
(* defined in order still read as they were sent (set_struct_name() and    *)
(* set_struct_field() count before they allocate, and never look back).    *)
CompleteStructsKept ==
    \A n \in 1..(Len(defined) - 1) :
        /\ FieldsCount(StructPtr[n]) = Len(defined[n].fields)
        /\ DecodedStruct(StructPtr[n]) = defined[n]

(* A name defined twice stands for its first definition, and a name that   *)
(* begins another one is not mistaken for it (get_structn()).              *)
LookupFindsFirst ==
    intact =>
        \A name \in JsonNames :
            LET named == {n \in DOMAIN defined : defined[n].name = name}
            IN  get_structn(name) = IF named = {} THEN NULL ELSE StructPtr[Min(named)]

=============================================================================
