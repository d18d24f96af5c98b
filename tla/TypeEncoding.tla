---------------------------- MODULE TypeEncoding ----------------------------
(***************************************************************************)
(* type_hash.c over the bytes of the definitions: the structs a struct     *)
(* depends on are collected as pointers above the memory in use, sorted    *)
(* there, and the text of the types goes into a hash context struct by     *)
(* struct. The host has sent the definitions before (feed_apdu.py main()), *)
(* and a message may have taken a part of the memory.                      *)
(***************************************************************************)
EXTENDS Definitions

CONSTANTS Schemas,    \* sequences of structs, as the JSON message lists them
          Rooms,      \* bytes a message may leave free
          PTR_SIZE,   \* sizeof(void*)
          HASH_SIZE   \* KECCAK256_HASH_BYTESIZE

VARIABLES schema,  \* what the host defines
          told,    \* as much of it as was sent
          call,    \* where type_hash() is, its struct, and the memory it began with
          frames,  \* calls of get_struct_dependencies(): a struct, and its next field
          deps,    \* the pointers collected
          text     \* what was hashed, one text per struct

encodingVars == <<vars, schema, told, call, frames, deps, text>>

INSTANCE TypeText

ASSUME EncodingAssumption ==
    /\ {PTR_SIZE, HASH_SIZE} \subseteq Nat \ {0}
    /\ Rooms \subseteq Nat
    /\ Schemas \subseteq Seq([name : JsonNames, fields : Seq(JsonFields)])

(* The place in the list, and changed, are those of sort_dependencies().   *)
NoCall == [at |-> "none", name |-> << >>, from |-> 0, result |-> NULL,
           idx |-> 1, changed |-> FALSE]

EncodingInit ==
    /\ Init
    /\ schema \in Schemas
    /\ told = << >>
    /\ call = NoCall
    /\ frames = << >>
    /\ deps = << >>
    /\ text = << >>

(* The APDUs of a schema, in the order of main().                          *)
SendStructName ==
    /\ Len(told) < Len(schema)
    /\ told # << >> => Len(Last(told).fields) = Len(schema[Len(told)].fields)
    /\ LET name == schema[Len(told) + 1].name
       IN  /\ DefineStruct(name)
           /\ told' = Append(told, [name |-> name, fields |-> << >>])
    /\ UNCHANGED <<schema, call, frames, deps, text>>

SendStructField ==
    /\ told # << >>
    /\ Len(Last(told).fields) < Len(schema[Len(told)].fields)
    /\ LET field == schema[Len(told)].fields[Len(Last(told).fields) + 1]
       IN  /\ DefineField(field)
           /\ told' = [told EXCEPT ![Len(told)].fields = Append(@, field)]
    /\ UNCHANGED <<schema, call, frames, deps, text>>

(* Contexts of a message lie above the definitions.                        *)
Occupy(room) ==
    /\ told = schema
    /\ call = NoCall
    /\ mem_idx < SIZE_MEM_BUFFER - room
    /\ mem_idx' = SIZE_MEM_BUFFER - room
    /\ UNCHANGED <<mem, buf, current_struct_fields_array, status, defined, intact, contexts,
                   schema, told, call, frames, deps, text>>

-----------------------------------------------------------------------------

(* Faulty variant: only the bytes in use are compared with the buffer.     *)
CanAllocUnsized(idx, size) == idx < SIZE_MEM_BUFFER

CanAlloc(idx, size) == idx + size <= SIZE_MEM_BUFFER

(* Faulty variant: a pointer is compared with the last one only.           *)
ListedLast(dep, list) == list # << >> /\ Last(list) = dep

Listed(dep, list) == \E i \in DOMAIN list : list[i] = dep

(* type_hash() up to its call of get_struct_dependencies(). What is left   *)
(* of definitions that were not kept whole is looked at in Definitions.    *)
type_hash(name) ==
    /\ status = "run" /\ intact
    /\ told = schema
    /\ call = NoCall
    /\ get_structn(name) # NULL
    /\ call' = [NoCall EXCEPT !.at = "collect", !.name = name, !.from = mem_idx]
    /\ frames' = <<[struct |-> get_structn(name), field |-> 1]>>
    /\ UNCHANGED <<vars, schema, told, deps, text>>

Frame == Last(frames)

FieldLeft == Frame.field <= FieldsCount(Frame.struct)

FieldHere == FieldPtr(Frame.struct)[Frame.field]

(* The struct that the field is of.                                        *)
Dependency == get_structn(get_struct_field_typename(FieldHere))

PastField == [frames EXCEPT ![Len(frames)].field = @ + 1]

(* The field is no struct, or its struct is in the list.                   *)
SkipField ==
    /\ call.at = "collect"
    /\ FieldLeft
    /\ struct_field_type(FieldHere) # TYPE_CUSTOM \/ Listed(Dependency, deps)
    /\ frames' = PastField
    /\ UNCHANGED <<vars, schema, told, call, deps, text>>

NewDependency ==
    /\ call.at = "collect"
    /\ FieldLeft
    /\ struct_field_type(FieldHere) = TYPE_CUSTOM /\ ~Listed(Dependency, deps)

(* A struct that is not defined is added like any other, and its fields    *)
(* are looked for at the null pointer.                                     *)
AddDependency ==
    /\ NewDependency
    /\ CanAlloc(mem_idx, PTR_SIZE)
    /\ mem_idx' = mem_idx + PTR_SIZE
    /\ deps' = Append(deps, Dependency)
    /\ IF Dependency = NULL
       THEN status' = "stray" /\ call' = [call EXCEPT !.at = "done"] /\ frames' = << >>
       ELSE /\ frames' = Append(PastField, [struct |-> Dependency, field |-> 1])
            /\ UNCHANGED <<status, call>>
    /\ UNCHANGED <<mem, buf, current_struct_fields_array, defined, intact, contexts,
                   schema, told, text>>

(* What a recursive call returns is not looked at.                         *)
Return(outcome) ==
    /\ frames' = Front(frames)
    /\ call' = IF Len(frames) = 1 THEN [call EXCEPT !.at = outcome] ELSE call
    /\ UNCHANGED <<vars, schema, told, deps, text>>

DependenciesFull ==
    /\ NewDependency
    /\ ~CanAlloc(mem_idx, PTR_SIZE)
    /\ Return("done")

DependenciesFound ==
    /\ call.at = "collect"
    /\ ~FieldLeft
    /\ Return("sort")

-----------------------------------------------------------------------------

(* Faulty variant: names that differ are out of order.                     *)
AfterOrBefore(name1, name2) == name1 # name2

(* strncmp() on as many bytes as both names have, then the lengths.        *)
After(name1, name2) ==
    LET differ == {i \in 1..Min({Len(name1), Len(name2)}) : name1[i] # name2[i]}
    IN  IF differ # {} THEN name1[Min(differ)] > name2[Min(differ)]
        ELSE Len(name1) > Len(name2)

(* One pass of sort_dependencies(): a pointer goes on as long as its name  *)
(* comes after the next one's.                                             *)
Compare ==
    /\ call.at = "sort"
    /\ call.idx < Len(deps)
    /\ LET i == call.idx
           swap == After(get_struct_name(deps[i]), get_struct_name(deps[i + 1]))
       IN  /\ deps' = IF swap THEN [deps EXCEPT ![i] = deps[i + 1], ![i + 1] = deps[i]] ELSE deps
           /\ call' = [call EXCEPT !.idx = i + 1, !.changed = @ \/ swap]
    /\ UNCHANGED <<vars, schema, told, frames, text>>

(* Another pass, unless nothing moved.                                     *)
EndPass ==
    /\ call.at = "sort"
    /\ call.idx >= Len(deps)
    /\ call' = IF call.changed THEN [call EXCEPT !.idx = 1, !.changed = FALSE]
               ELSE [call EXCEPT !.at = "encode"]
    /\ UNCHANGED <<vars, schema, told, frames, deps, text>>

SortStep == Compare \/ EndPass

-----------------------------------------------------------------------------

(* mem_alloc_and_format_uint(): a digit for each division that leaves one. *)
DigitsOf[value \in Nat] ==
    IF value < 10 THEN <<48 + value>> ELSE Append(DigitsOf[value \div 10], 48 + (value % 10))

(* The number written for the size of a field.                             *)
FieldSize(p) ==
    IF struct_field_type(p) \in {TYPE_SOL_INT, TYPE_SOL_UINT}
    THEN 8 * get_struct_field_typesize(p) ELSE get_struct_field_typesize(p)

(* The levels of the array in a field.                                     *)
Levels(p) ==
    LET lvls == get_struct_field_array_lvls_array(p)
    IN  IF struct_field_is_array(p)
        THEN [n \in 1..mem[lvls] |-> struct_field_array_depth(LevelPtr(lvls)[n])] ELSE << >>

(* format_field_type_array_levels_string()                                 *)
LevelsText(levels) ==
    FlattenSeq([n \in DOMAIN levels |->
        <<91>> \o (IF levels[n] = NULL THEN << >> ELSE DigitsOf[levels[n]]) \o <<93>>])

(* encode_and_hash_field()                                                 *)
FieldText(p) ==
    get_struct_field_typename(p)
    \o (IF struct_field_has_typesize(p) THEN DigitsOf[FieldSize(p)] ELSE << >>)
    \o LevelsText(Levels(p))
    \o <<32>> \o get_struct_field_keyname(p)

(* encode_and_hash_type()                                                  *)
StructText(p) ==
    get_struct_name(p) \o <<40>>
    \o FlattenSeq([n \in 1..FieldsCount(p) |->
           (IF n = 1 THEN << >> ELSE <<44>>) \o FieldText(FieldPtr(p)[n])])
    \o <<41>>

(* The numbers that mem_alloc_and_format_uint() writes in memory, one at a *)
(* time, for the struct at p: one that does not fit is hashed from nowhere.*)
Formatted(p) ==
    LET fields == {FieldPtr(p)[n] : n \in 1..FieldsCount(p)}
    IN  {FieldSize(f) : f \in {g \in fields : struct_field_has_typesize(g)}}
        \cup ((UNION {ToSet(Levels(f)) : f \in fields}) \ {NULL})

(* The struct itself, then each dependency.                                *)
EncodeStruct ==
    /\ call.at = "encode"
    /\ Len(text) <= Len(deps)
    /\ LET p == IF text = << >> THEN get_structn(call.name) ELSE deps[Len(text)]
       IN  IF \A n \in Formatted(p) : CanAlloc(mem_idx, Len(DigitsOf[n]) + 1)
           THEN text' = Append(text, StructText(p)) /\ UNCHANGED <<status, call>>
           ELSE /\ status' = "stray"
                /\ call' = [call EXCEPT !.at = "done"]
                /\ UNCHANGED text
    /\ UNCHANGED <<mem, mem_idx, buf, current_struct_fields_array, defined, intact, contexts,
                   schema, told, frames, deps>>

(* Faulty variant: as many bytes are released as there are pointers.       *)
mem_dealloc_count(idx, count) == idx - count

mem_dealloc_pointers(idx, count) == idx - PTR_SIZE * count

(* The pointers are released and the hash allocated.                       *)
FinishHash ==
    /\ call.at = "encode"
    /\ Len(text) = Len(deps) + 1
    /\ LET idx == mem_dealloc_pointers(mem_idx, Len(deps))
           fits == CanAlloc(idx, HASH_SIZE)
       IN  /\ mem_idx' = IF fits THEN idx + HASH_SIZE ELSE idx
           /\ call' = [call EXCEPT !.at = "done", !.result = IF fits THEN "hash" ELSE NULL]
    /\ UNCHANGED <<mem, buf, current_struct_fields_array, status, defined, intact, contexts,
                   schema, told, frames, deps, text>>

EncodingNext ==
    \/ SendStructName
    \/ SendStructField
    \/ \E room \in Rooms : Occupy(room)
    \/ \E i \in DOMAIN schema : type_hash(schema[i].name)
    \/ SkipField
    \/ AddDependency
    \/ DependenciesFull
    \/ DependenciesFound
    \/ SortStep
    \/ EncodeStruct
    \/ FinishHash

(* sort_dependencies() passes over the list until nothing moves.           *)
EncodingSpec == EncodingInit /\ [][EncodingNext]_encodingVars /\ WF_encodingVars(SortStep)

-----------------------------------------------------------------------------

(* The pointers in memory are those of structs that are defined, below     *)
(* them is what a call found there, and a call is at one place.            *)
EncodingTypeOK ==
    /\ mem_idx \in (structs_array + 1)..SIZE_MEM_BUFFER
    /\ status \in {"run", "stray"}
    /\ call.at \in {"none", "collect", "sort", "encode", "done"}
    /\ call.at \in {"collect", "sort", "encode"} =>
        /\ ToSet(deps) \subseteq {StructPtr[n] : n \in 1..mem[structs_array]}
        /\ mem_idx = call.from + PTR_SIZE * Len(deps)
        /\ call.idx \in 1..(Len(deps) + 1)
        /\ Len(text) <= Len(deps) + 1
    /\ frames # << >> <=> call.at = "collect"

(* Room for every pointer, for the longest number and for the hash.        *)
Roomy ==
    /\ CanAlloc(call.from, PTR_SIZE * Len(schema) + 5)
    /\ CanAlloc(call.from, HASH_SIZE)

(* A message whose types the two sides read alike: names that differ, no   *)
(* native type named like a struct, and of each field a struct that is     *)
(* defined - without a number at its end - or a native type with as many   *)
(* bits or bytes as it has to have.                                        *)
Plain(s) ==
    /\ \A i, j \in DOMAIN s : s[i].name = s[j].name => i = j
    /\ \A i \in DOMAIN s : \A k \in DOMAIN s[i].fields :
        LET type == s[i].fields[k].type
        IN  CASE TypeEnum(type) = TYPE_CUSTOM ->
                     type.base \in StructsOf(s) /\ type.number = NULL
              [] TypeEnum(type) \in {TYPE_SOL_INT, TYPE_SOL_UINT} ->
                     BaseName(type) \notin StructsOf(s) /\ type.number \in Nat /\ type.number % 8 = 0
              [] TypeEnum(type) = TYPE_SOL_BYTES_FIX ->
                     BaseName(type) \notin StructsOf(s)
              [] OTHER ->
                     BaseName(type) \notin StructsOf(s) /\ type.number = NULL

(* From the types of the JSON message, through the feeder's APDUs, memory, *)
(* accessors, dependencies, sort and formatting: where memory suffices the *)
(* text that is hashed is the one the reference library encodes. (A type   *)
(* that contains itself is listed a second time, and left aside.)          *)
TextIsEncodeType ==
    call.at = "done" /\ Roomy /\ ~Recursive(schema, call.name) =>
        /\ call.result = "hash"
        /\ FlattenSeq(text) = EncodeType(schema, call.name)

(* The text of the dependencies is hashed in the strict order of their     *)
(* names, each once, also when memory cut their list short.                *)
DependenciesInOrder ==
    call.at = "encode" =>
        \A i \in 1..(Len(deps) - 1) : Before(get_struct_name(deps[i]), get_struct_name(deps[i + 1]))

(* Whatever the types refer to, and whichever pointers memory left in the  *)
(* list, the passes of sort_dependencies() come to an end.                 *)
SortEnds == call.at = "sort" ~> call.at = "encode"

=============================================================================
