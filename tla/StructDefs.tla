----------------------------- MODULE StructDefs -----------------------------
(***************************************************************************)
(* The definitions the signer keeps, byte by byte: what the STRUCT DEF     *)
(* APDUs of entrypoint.c write in memory, what its accessors read there,   *)
(* and the bytes the host sends for a type of its JSON message.            *)
(***************************************************************************)
EXTENDS SolTypenames

CONSTANTS PATH_SIZE,     \* sizeof(s_path)
          FH_SIZE,       \* sizeof(s_field_hashing)
          ENUM_SIZE,     \* sizeof(e_array_type)
          BUF_SIZE,      \* bytes of buf in main()
          INDEX_VALUES,  \* of data_idx, a byte
          COUNT_VALUES   \* of a count in memory, a byte

VARIABLES buf,                          \* the APDU, and what is left of earlier ones
          current_struct_fields_array,  \* where the fields of the last struct are counted
          status                        \* "run", or "stray" after an access to nothing

defVars == <<mem, mem_idx, buf, current_struct_fields_array, status>>

(* Indices in buf, which begins at 0.                                      *)
OFFSET_LC == 4
OFFSET_DATA == 5

ARRAY_DYNAMIC == 0
ARRAY_FIXED_SIZE == 1

(* After the type names, the path and the state of field_hash().           *)
structs_array == Len(TypenamesTable) + PATH_SIZE + FH_SIZE

(* The table, and the count of structs, are the first things allocated.    *)
ASSUME StructDefsAssumption ==
    /\ {PATH_SIZE, FH_SIZE, ENUM_SIZE} \subseteq Nat \ {0}
    /\ SIZE_MEM_BUFFER \in Nat /\ SIZE_MEM_BUFFER > structs_array
    /\ NULL \notin Nat
    /\ INDEX_VALUES \in OFFSET_DATA..256
    /\ BUF_SIZE \in INDEX_VALUES..(OFFSET_DATA + 255)
    /\ COUNT_VALUES \in 2..256

DefsInit ==
    /\ mem = [a \in 0..(SIZE_MEM_BUFFER - 1) |->
                 IF a < Len(TypenamesTable) THEN TypenamesTable[a + 1] ELSE 0]
    /\ mem_idx = structs_array + 1
    /\ buf = [i \in 1..BUF_SIZE |-> 0]
    /\ current_struct_fields_array = NULL
    /\ status = "run"

-----------------------------------------------------------------------------

(***************************************************************************)
(* The accessors.                                                          *)
(***************************************************************************)
struct_field_is_array(p) == mem[p] >= 128

struct_field_has_typesize(p) == (mem[p] \div 64) % 2 = 1

struct_field_type(p) == mem[p] % 16

get_struct_field_typesize(p) == mem[p + 1]

get_struct_field_typename(p) ==
    IF struct_field_type(p) = TYPE_CUSTOM THEN StringAt(p + 1)
    ELSE get_struct_field_sol_typename(struct_field_type(p))

(* Faulty variant: a size is taken for part of the levels.                 *)
struct_field_half_skip_sized(p) ==
    IF struct_field_type(p) = TYPE_CUSTOM THEN AfterString(p + 1) ELSE p + 1

(* Behind the type, and its name or size.                                  *)
struct_field_half_skip(p) ==
    IF struct_field_type(p) = TYPE_CUSTOM     THEN AfterString(p + 1)
    ELSE IF struct_field_has_typesize(p)      THEN p + 2
    ELSE                                           p + 1

get_next_struct_field_array_lvl(p) == IF mem[p] = ARRAY_FIXED_SIZE THEN p + 2 ELSE p + 1

(* The n-th level of the array at p, or what follows the last one.         *)
LevelPtr(p) ==
    LET ptr[n \in Nat \ {0}] ==
            IF n = 1 THEN p + 1 ELSE get_next_struct_field_array_lvl(ptr[n - 1])
    IN  ptr

get_struct_field_array_lvls_array(p) == struct_field_half_skip(p)

(* The size of the array at a level, or NULL.                              *)
struct_field_array_depth(p) == IF mem[p] = ARRAY_FIXED_SIZE THEN mem[p + 1] ELSE NULL

KeynamePtr(p) ==
    LET lvls == get_struct_field_array_lvls_array(p)
    IN  IF struct_field_is_array(p) THEN LevelPtr(lvls)[mem[lvls] + 1] ELSE lvls

get_struct_field_keyname(p) == StringAt(KeynamePtr(p))

get_next_struct_field(p) == AfterString(KeynamePtr(p))

get_struct_name(p) == StringAt(p)

get_struct_fields_array(p) == AfterString(p)

(* The n-th field of the struct at p, or what follows the last one.        *)
FieldPtr(p) ==
    LET ptr[n \in Nat \ {0}] ==
            IF n = 1 THEN get_struct_fields_array(p) + 1
            ELSE get_next_struct_field(ptr[n - 1])
    IN  ptr

FieldsCount(p) == mem[get_struct_fields_array(p)]

get_next_struct(p) == FieldPtr(p)[FieldsCount(p) + 1]

StructPtr[n \in Nat \ {0}] ==
    IF n = 1 THEN structs_array + 1 ELSE get_next_struct(StructPtr[n - 1])

(* Faulty variant: a name is found by its beginning.                       *)
get_structn_prefix(name) ==
    LET found == {n \in 1..mem[structs_array] : IsPrefix(name, get_struct_name(StructPtr[n]))}
    IN  IF found = {} THEN NULL ELSE StructPtr[Min(found)]

(* The first struct of that name.                                          *)
get_structn(name) ==
    LET found == {n \in 1..mem[structs_array] : get_struct_name(StructPtr[n]) = name}
    IN  IF found = {} THEN NULL ELSE StructPtr[Min(found)]

-----------------------------------------------------------------------------

(***************************************************************************)
(* The handlers. An APDU is the bytes of its header and of its payload.    *)
(***************************************************************************)
(* What main() leaves in buf.                                              *)
Received(apdu) == apdu \o SubSeq(buf, Len(apdu) + 1, BUF_SIZE)

(* Where the function stored the n-th of its pieces.                       *)
Address(pieces, n) == mem_idx + SizeOf(pieces, n - 1)

Incremented(m, p) == [m EXCEPT ![p] = (@ + 1) % COUNT_VALUES]

(* The pieces that fit are stored, the others given up.                    *)
Keep(m, pieces) ==
    LET n == Allocated(pieces, mem_idx)
    IN  /\ mem' = Stored(m, mem_idx, pieces, n)
        /\ mem_idx' = mem_idx + SizeOf(pieces, n)

NamePieces(data) ==
    LET length == data[OFFSET_LC + 1]
    IN  <<Piece(<<length>>), Piece(SubSeq(data, OFFSET_DATA + 1, OFFSET_DATA + length)),
          Piece(<<0>>)>>

(* Faulty variant: the fields that follow stay with the struct before.     *)
set_struct_name_stays(data) ==
    LET pieces == NamePieces(data)
    IN  /\ Keep(Incremented(mem, structs_array), pieces)
        /\ current_struct_fields_array' =
               IF current_struct_fields_array = NULL THEN Address(pieces, 3)
               ELSE current_struct_fields_array
        /\ UNCHANGED status

(* The name is counted before it is known to fit. A name that does not     *)
(* leaves the fields that follow to the struct before it.                  *)
set_struct_name(data) ==
    LET pieces == NamePieces(data)
        fit == Allocated(pieces, mem_idx)
    IN  /\ Keep(Incremented(mem, structs_array), pieces)
        /\ current_struct_fields_array' =
               CASE fit = 3 -> Address(pieces, 3)
                 [] fit = 2 -> NULL
                 [] OTHER   -> current_struct_fields_array
        /\ UNCHANGED status

(* The byte data_idx points to after so many steps, wrapped to a byte.     *)
ByteAt(data, i) == data[(i % INDEX_VALUES) + 1]

(* A length, and as many bytes, copied from where the index then points.   *)
StringPieces(data, i) ==
    LET length == ByteAt(data, i)
        from == (i + 1) % INDEX_VALUES
    IN  <<Piece(<<length>>),
          [size |-> length, bytes |-> SubSeq(data, from + 1, Min({from + length, BUF_SIZE}))]>>

AfterCopy(data, i) == i + 1 + ByteAt(data, i)

(* A level is stored as an enumeration, in the byte allocated for it and   *)
(* those behind it.                                                        *)
LevelPieces(data, i) ==
    << [size |-> 1, bytes |-> <<ByteAt(data, i)>> \o [k \in 1..(ENUM_SIZE - 1) |-> 0]] >>
    \o IF ByteAt(data, i) = ARRAY_FIXED_SIZE THEN <<Piece(<<ByteAt(data, i + 1)>>)>> ELSE << >>

AfterLevel(data, i) == IF ByteAt(data, i) = ARRAY_FIXED_SIZE THEN i + 2 ELSE i + 1

TypeDesc(data) == ByteAt(data, OFFSET_DATA)

HasTypeSize(data) == (TypeDesc(data) \div 64) % 2 = 1

HasTypeName(data) == ~HasTypeSize(data) /\ TypeDesc(data) % 16 = TYPE_CUSTOM

(* The index after the type, and its size or name.                         *)
LevelsIndex(data) ==
    IF HasTypeSize(data)      THEN OFFSET_DATA + 2
    ELSE IF HasTypeName(data) THEN AfterCopy(data, OFFSET_DATA + 1)
    ELSE                           OFFSET_DATA + 1

LevelIndex(data) ==
    LET index[n \in Nat \ {0}] ==
            IF n = 1 THEN LevelsIndex(data) + 1 ELSE AfterLevel(data, index[n - 1])
    IN  index

(* Of the levels announced only those are looked at that fit, and the one  *)
(* that does not.                                                          *)
FieldPieces(data) ==
    LET room == SIZE_MEM_BUFFER - mem_idx
        levels == IF TypeDesc(data) >= 128
                  THEN Min({ByteAt(data, LevelsIndex(data)), room + 1}) ELSE 0
        key == IF TypeDesc(data) >= 128 THEN LevelIndex(data)[levels + 1] ELSE LevelsIndex(data)
    IN  <<Piece(<<TypeDesc(data)>>)>>
        \o (IF HasTypeSize(data) THEN <<Piece(<<ByteAt(data, OFFSET_DATA + 1)>>)>>
            ELSE IF HasTypeName(data) THEN StringPieces(data, OFFSET_DATA + 1)
            ELSE << >>)
        \o (IF TypeDesc(data) >= 128 THEN <<Piece(<<ByteAt(data, LevelsIndex(data))>>)>> ELSE << >>)
        \o FlattenSeq([n \in 1..levels |-> LevelPieces(data, LevelIndex(data)[n])])
        \o StringPieces(data, key)

(* What is stored past the end of the memory, or copied from past the end  *)
(* of buf, is undefined.                                                   *)
StaysInside(data, pieces) ==
    \A n \in 1..Allocated(pieces, mem_idx) :
        /\ Address(pieces, n) + Len(pieces[n].bytes) <= SIZE_MEM_BUFFER
        /\ pieces[n].size <= Len(pieces[n].bytes)

(* The field is counted first, in the last struct that got as far as its   *)
(* count; before there is one, through a null pointer.                     *)
set_struct_field(data) ==
    LET pieces == FieldPieces(data)
        m == Incremented(mem, current_struct_fields_array)
    IN  IF current_struct_fields_array = NULL \/ ~StaysInside(data, pieces)
        THEN status' = "stray" /\ UNCHANGED <<mem, mem_idx, current_struct_fields_array>>
        ELSE Keep(m, pieces) /\ UNCHANGED <<current_struct_fields_array, status>>

-----------------------------------------------------------------------------

(***************************************************************************)
(* The host. A type of the JSON message is its text, cut where the feeder  *)
(* cuts it: the name, the number that follows it or NULL, and the sizes of *)
(* the levels of an array, NULL for those without one.                     *)
(***************************************************************************)
NATIVE == {typenames[i] : i \in DOMAIN typenames}

TypeEnum(type) ==
    IF type.base \notin NATIVE THEN TYPE_CUSTOM
    ELSE IF type.base = typenames[6] /\ type.number = NULL THEN TYPE_SOL_BYTES_DYN
    ELSE CHOOSE n \in 1..6 : typenames[n] = type.base

(* In bytes; a struct whose name ends in a number loses it.                *)
TypeSize(type) ==
    CASE TypeEnum(type) \in {TYPE_SOL_INT, TYPE_SOL_UINT} -> type.number \div 8
      [] TypeEnum(type) = TYPE_SOL_BYTES_FIX              -> type.number
      [] OTHER                                            -> NULL

(* Faulty variant: the levels are sent from the last one on.               *)
LevelBytesReversed(levels) ==
    FlattenSeq([i \in DOMAIN levels |->
        LET size == levels[Len(levels) - i + 1]
        IN  IF size = NULL THEN <<ARRAY_DYNAMIC>> ELSE <<ARRAY_FIXED_SIZE, size>>])

LevelBytes(levels) ==
    FlattenSeq([i \in DOMAIN levels |->
        IF levels[i] = NULL THEN <<ARRAY_DYNAMIC>> ELSE <<ARRAY_FIXED_SIZE, levels[i]>>])

send_struct_def_name(name) == <<224, 26, 0, 0, Len(name)>> \o name

send_struct_def_field(type, keyname) ==
    LET size == TypeSize(type)
        payload ==
            <<Flag(type.levels # << >>, 128) + Flag(size # NULL, 64) + TypeEnum(type)>>
            \o (IF TypeEnum(type) = TYPE_CUSTOM THEN <<Len(type.base)>> \o type.base ELSE << >>)
            \o (IF size # NULL THEN <<size>> ELSE << >>)
            \o (IF type.levels # << >> THEN <<Len(type.levels)>> ELSE << >>)
            \o LevelBytes(type.levels)
            \o <<Len(keyname)>> \o keyname
    IN  <<224, 26, 0, 255, Len(payload)>> \o payload

=============================================================================
