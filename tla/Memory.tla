------------------------------- MODULE Memory -------------------------------
(***************************************************************************)
(* The bump allocator of mem.c and what the signer keeps in it once the    *)
(* type definitions are complete: above them, a stack of progressive hash  *)
(* contexts that is only ever addressed from the top of the used memory    *)
(* (mem_alloc(0) - sizeof(cx_sha3_t)).                                     *)
(***************************************************************************)
EXTENDS Transcripts

CONSTANTS SIZE_MEM_BUFFER,  \* bytes of the buffer
          DefsEnd,          \* bytes used when the type definitions are complete
          CTX_SIZE,         \* sizeof(cx_sha3_t)
          HASH_SIZE,        \* KECCAK256_HASH_BYTESIZE
          PTR_SIZE          \* sizeof(void*)

ASSUME MemoryAssumption ==
    /\ SIZE_MEM_BUFFER \in Nat
    /\ DefsEnd \in 0..SIZE_MEM_BUFFER
    /\ CTX_SIZE \in Nat \ {0}
    /\ HASH_SIZE \in Nat \ {0}
    /\ PTR_SIZE \in Nat \ {0}

VARIABLES mem_idx,      \* bytes in use
          heap,         \* what lies above DefsEnd, bottom first
          global_sha3,  \* the one context outside the buffer
          status        \* "run", "exit", or the first access to nothing

(* A chunk of used memory: a hash context, or bytes nobody releases.       *)
Chunk == [kind : {"ctx", "leak"}, absorbed : Transcript]

Ctx(t) == [kind |-> "ctx", absorbed |-> t]

Leak == [kind |-> "leak", absorbed |-> << >>]

-----------------------------------------------------------------------------

(* Faulty variants, which the properties tell apart from what follows:     *)
(* only the bytes in use are compared with the buffer; nothing is released.*)
CanAllocUnsized(idx, size) == idx < SIZE_MEM_BUFFER
mem_dealloc_none(idx, size) == IF size > idx THEN 0 ELSE idx

CanAlloc(idx, size) == idx + size <= SIZE_MEM_BUFFER

mem_dealloc(idx, size) == IF size > idx THEN 0 ELSE idx - size

(* The n topmost chunks are contexts: what the code that addresses them    *)
(* from the top of the used memory relies on and does not check.           *)
TopAreContexts(n) ==
    /\ n <= Len(heap)
    /\ \A i \in (Len(heap) - n + 1)..Len(heap) : heap[i].kind = "ctx"

Top == heap[Len(heap)]

(* cx_hash() into the topmost context of h.                                *)
Absorbed(h, t) == [h EXCEPT ![Len(h)] = Ctx(@.absorbed \o t)]

(* The topmost context is finalised and released.                          *)
Popped(h) == SubSeq(h, 1, Len(h) - 1)

-----------------------------------------------------------------------------

(***************************************************************************)
(* type_hash.c. The dependencies are collected in memory, one pointer      *)
(* each, at idx and up. An allocation that fails ends its own level of the *)
(* recursion, and only the outermost level tells type_hash(): the list is  *)
(* then the longest prefix that fits, and it is a failure only if a field  *)
(* of the struct itself is still missing from it.                          *)
(***************************************************************************)
FittingDeps(s, idx) ==
    {i \in DOMAIN Dependencies(s) : CanAlloc(idx, PTR_SIZE * i)}

KeptDeps(s, idx) ==
    {d \in StructNames : \E i \in FittingDeps(s, idx) : Dependencies(s)[i] = d}

MissesOwnField(s, idx) ==
    \E i \in DOMAIN Structs[s] :
        IS_CUSTOM(Structs[s][i]) /\ Structs[s][i].typename \notin KeptDeps(s, idx)

(* Pointers that fit above idx: all of them stay allocated on failure.     *)
PointersLeft(idx) == (SIZE_MEM_BUFFER - idx) \div PTR_SIZE

(* No room to format a size while the pointers are allocated:              *)
(* mem_alloc_and_format_uint() returns NULL and leaves the length unset,   *)
(* and both are used.                                                      *)
FormatsNowhere(s, idx) ==
    \E t \in {s} \cup KeptDeps(s, idx) : \E room \in FormatRoom(t) :
        ~CanAlloc(idx, PTR_SIZE * Cardinality(FittingDeps(s, idx)) + room)

TypeHashResult(s, idx) ==
    IF MissesOwnField(s, idx)                THEN "null"
    ELSE IF FormatsNowhere(s, idx)           THEN "stray"
    ELSE IF ~CanAlloc(idx, HASH_SIZE)        THEN "null"
    ELSE                                          "hash"

(* Memory in use after a call that returned NULL.                          *)
TypeHashLeft(s, idx) ==
    IF MissesOwnField(s, idx) THEN idx + PTR_SIZE * PointersLeft(idx) ELSE idx

(* The 32 bytes type_hash() returns stand in a transcript as one token:    *)
(* the struct and the dependencies written after it, in their sorted order *)
(* (sort_dependencies), which the set determines.                          *)
type_hash(s, idx) == <<"type", s, KeptDeps(s, idx)>>

=============================================================================
