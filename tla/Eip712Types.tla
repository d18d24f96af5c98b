---------------------------- MODULE Eip712Types ----------------------------
(***************************************************************************)
(* The type definitions the signer keeps after the STRUCT DEF APDUs: what  *)
(* the accessors of entrypoint.c read back from the memory buffer, and the *)
(* list of struct dependencies that type_hash.c computes from them.        *)
(*                                                                         *)
(* The serialised definitions are abstracted to the function Structs from  *)
(* a struct name to the sequence of its fields; every accessor that walks  *)
(* the bytes becomes an application of that function.                      *)
(***************************************************************************)
EXTENDS Integers, Sequences, FiniteSets, SequencesExt

CONSTANTS Structs,   \* struct name -> sequence of fields
          NULL       \* the C null pointer

StructNames == DOMAIN Structs

Byte == 0..255

Uint16 == 0..(256 * 256 - 1)

Types == {"custom", "int", "uint", "address", "bool", "string",
          "bytes_fix", "bytes_dyn"}

ArrayLevel == [kind : {"dynamic", "fixed"}, size : Byte]

(* TypeDesc, TypeName or TypeSize, and the array levels (outermost last).  *)
Field == [type : Types, typename : STRING, typesize : Byte, lvls : Seq(ArrayLevel)]

(* The fields of the schema: what a valid field pointer can point to.      *)
Fields == {f \in Field : \E s \in StructNames : \E i \in DOMAIN Structs[s] : Structs[s][i] = f}

(* Names of structs are strings; every struct named by a field is defined, *)
(* which the host checks while it sends (feed_apdu.py, send_struct_impl);  *)
(* counts are held in one byte.                                            *)
ASSUME SchemaAssumption ==
    /\ NULL \notin StructNames
    /\ \A s \in StructNames :
        /\ Structs[s] \in Seq(Field)
        /\ Len(Structs[s]) \in Byte
        /\ \A i \in DOMAIN Structs[s] :
            /\ Structs[s][i].type = "custom" => Structs[s][i].typename \in StructNames
            /\ Len(Structs[s][i].lvls) \in Byte

-----------------------------------------------------------------------------

IS_DYN(type) == type \in {"string", "bytes_dyn"}

IS_CUSTOM(field) == field.type = "custom"

struct_field_is_array(field) == field.lvls # << >>

struct_field_has_typesize(field) == field.type \in {"int", "uint", "bytes_fix"}

get_structn(name) == IF name \in StructNames THEN name ELSE NULL

-----------------------------------------------------------------------------

(* get_struct_dependencies(): the structs named by the fields, depth       *)
(* first, each once. The struct asked about is not in the list to begin    *)
(* with, so a recursive type gets listed among its own dependencies.       *)
get_struct_dependencies[s \in StructNames, idx \in Nat, deps \in Seq(StructNames)] ==
    IF idx > Len(Structs[s]) THEN deps
    ELSE LET name == Structs[s][idx].typename
         IN  get_struct_dependencies[s, idx + 1,
                IF ~IS_CUSTOM(Structs[s][idx]) \/ name \in ToSet(deps)
                THEN deps
                ELSE get_struct_dependencies[name, 1, Append(deps, name)]]

Dependencies(s) == get_struct_dependencies[s, 1, << >>]

(* Characters of a number up to 2040, which are at most four.              *)
Digits(value) ==
    IF value < 10 THEN 1 ELSE IF value < 100 THEN 2 ELSE IF value < 1000 THEN 3 ELSE 4

(* The numbers in the type of a field: the size in bits or, of bytes, in   *)
(* bytes, and those of the levels of the array.                            *)
Numbers(f) ==
    (IF ~struct_field_has_typesize(f) THEN {}
     ELSE IF f.type = "bytes_fix" THEN {f.typesize} ELSE {8 * f.typesize})
    \cup {f.lvls[i].size : i \in {j \in DOMAIN f.lvls : f.lvls[j].kind = "fixed"}}

(* Room that each number of struct s takes while it is formatted, its null *)
(* character included.                                                     *)
FormatRoom(s) == {Digits(n) + 1 : n \in UNION {Numbers(Structs[s][i]) : i \in DOMAIN Structs[s]}}

=============================================================================
