---------------------------- MODULE SolTypenames ----------------------------
(***************************************************************************)
(* The memory buffer byte by byte, and the table of native type names that *)
(* init_sol_typenames() writes at its beginning. An address is an index in *)
(* mem_buffer.                                                             *)
(***************************************************************************)
EXTENDS Integers, FiniteSetsExt, SequencesExt

CONSTANTS SIZE_MEM_BUFFER,  \* bytes of the buffer
          NULL              \* the C null pointer

VARIABLES mem,      \* mem_buffer, which keeps what released memory held
          mem_idx   \* bytes in use

Byte == 0..255

TYPE_CUSTOM        == 0
TYPE_SOL_INT       == 1
TYPE_SOL_UINT      == 2
TYPE_SOL_ADDRESS   == 3
TYPE_SOL_BOOL      == 4
TYPE_SOL_STRING    == 5
TYPE_SOL_BYTES_FIX == 6
TYPE_SOL_BYTES_DYN == 7

Flag(condition, mask) == IF condition THEN mask ELSE 0

-----------------------------------------------------------------------------

(* What a function allocates and fills at once: the size it asks for and   *)
(* the bytes it stores there.                                              *)
Piece(bytes) == [size |-> Len(bytes), bytes |-> bytes]

SizeOf(pieces, n) ==
    LET size[i \in 0..n] == IF i = 0 THEN 0 ELSE size[i - 1] + pieces[i].size
    IN  size[n]

(* Faulty variant: the last byte asked for is not looked at.               *)
AllocatedLast(pieces, idx) ==
    Max({n \in 0..Len(pieces) : n = 0 \/ idx + SizeOf(pieces, n) - 1 <= SIZE_MEM_BUFFER})

(* One mem_alloc() per piece; the first that does not fit ends the         *)
(* function. The number of those that do.                                  *)
Allocated(pieces, idx) ==
    Max({n \in 0..Len(pieces) : idx + SizeOf(pieces, n) <= SIZE_MEM_BUFFER})

(* Memory m with bytes written from address p on.                          *)
Written(m, p, bytes) ==
    [a \in DOMAIN m |-> IF a \in p..(p + Len(bytes) - 1) THEN bytes[a - p + 1] ELSE m[a]]

(* Memory m with the first n pieces stored from address p on, one after    *)
(* the other.                                                              *)
Stored(m, p, pieces, n) ==
    LET after[i \in 0..n] ==
            IF i = 0 THEN m
            ELSE Written(after[i - 1], p + SizeOf(pieces, i - 1), pieces[i].bytes)
    IN  after[n]

(* A length, and as many bytes (get_array_in_mem, get_string_in_mem).      *)
StringAt(p) == [i \in 1..mem[p] |-> mem[p + i]]

AfterString(p) == p + 1 + mem[p]

-----------------------------------------------------------------------------

typenames == << <<105, 110, 116>>,                      \* int
                <<117, 105, 110, 116>>,                 \* uint
                <<97, 100, 100, 114, 101, 115, 115>>,   \* address
                <<98, 111, 111, 108>>,                  \* bool
                <<115, 116, 114, 105, 110, 103>>,       \* string
                <<98, 121, 116, 101, 115>> >>           \* bytes

(* Types and the index of their name: two share the last one.              *)
enum_to_idx == << <<TYPE_SOL_INT, 1>>, <<TYPE_SOL_UINT, 2>>, <<TYPE_SOL_ADDRESS, 3>>,
                  <<TYPE_SOL_BOOL, 4>>, <<TYPE_SOL_STRING, 5>>, <<TYPE_SOL_BYTES_FIX, 6>>,
                  <<TYPE_SOL_BYTES_DYN, 6>> >>

(* The types a name is for, all but the last marked TYPENAME_MORE_TYPE.    *)
find_enum_matches(s_idx) ==
    LET matches == {e \in DOMAIN enum_to_idx : enum_to_idx[e][2] = s_idx}
    IN  FlattenSeq([e \in DOMAIN enum_to_idx |->
            IF e \in matches THEN <<enum_to_idx[e][1] + Flag(e # Max(matches), 128)>>
            ELSE << >>])

(* What init_sol_typenames() leaves: a count, then for each name its types,*)
(* its length and itself.                                                  *)
TypenamesTable ==
    <<Len(typenames)>>
    \o FlattenSeq([s \in 1..Len(typenames) |->
           find_enum_matches(s) \o <<Len(typenames[s])>> \o typenames[s]])

-----------------------------------------------------------------------------

typenames_array == 0

(* After the types of the entry at p, the last of which is not marked: its *)
(* name.                                                                   *)
NameOfEntry[p \in Nat] ==
    1 + CHOOSE a \in p..(SIZE_MEM_BUFFER - 1) :
            mem[a] < 128 /\ \A b \in p..(a - 1) : mem[b] >= 128

EntryPtr[n \in Nat \ {0}] ==
    IF n = 1 THEN typenames_array + 1 ELSE AfterString(NameOfEntry[EntryPtr[n - 1]])

EntryTypes(p) == {mem[a] % 16 : a \in p..(NameOfEntry[p] - 1)}

(* The first entry one of whose types is this one.                         *)
get_struct_field_sol_typename(type) ==
    LET found == {n \in 1..mem[typenames_array] : type \in EntryTypes(EntryPtr[n])}
    IN  IF found = {} THEN NULL ELSE StringAt(NameOfEntry[EntryPtr[Min(found)]])

=============================================================================
