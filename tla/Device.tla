------------------------------- MODULE Device -------------------------------
(***************************************************************************)
(* The signer from the moment its type definitions are complete: main()    *)
(* hands one APDU after the other to handle_apdu(), and each is handled to *)
(* the end before the next is read. Any sequence of STRUCT IMPL APDUs may  *)
(* come. Whatever a handler returns, handle_apdu() goes on; only an APDU   *)
(* it does not know ends the program.                                      *)
(***************************************************************************)
EXTENDS FieldHash

CONSTANTS RootNames,  \* names in STRUCT IMPL / NAME
          Packets,    \* payloads of STRUCT IMPL / FIELD
          Sizes       \* array sizes in STRUCT IMPL / ARRAY

ASSUME HostAssumption ==
    /\ RootNames \subseteq STRING
    /\ Packets \subseteq Seq(Byte)
    /\ Sizes \subseteq Byte

vars == <<mem_idx, heap, global_sha3, status, ctl, cur, root, depths, arrays,
          digests, base, dropped, fh>>

APDU == [op : {"name"}, name : RootNames]
        \cup [op : {"field"}, data : Packets, partial : BOOLEAN]
        \cup [op : {"array"}, size : Sizes]
        \cup [op : {"other"}]

(* mem_idx after init_eip712_context() and the type definitions; the rest  *)
(* of the memory is zero, which is an empty path.                          *)
Init ==
    /\ mem_idx = DefsEnd
    /\ heap = << >>
    /\ global_sha3 = << >>
    /\ status = "run"
    /\ PathInit
    /\ FieldHashInit

StructImplName(apdu) ==
    apdu.op = "name" /\ path_set_root(apdu.name) /\ UNCHANGED fh

StructImplField(apdu) ==
    apdu.op = "field" /\ field_hash(apdu.data, apdu.partial)

StructImplArray(apdu) ==
    apdu.op = "array" /\ path_new_array_depth(apdu.size) /\ UNCHANGED fh

(* Unknown INS or P2, or a bad P1: main() returns.                         *)
Unknown(apdu) ==
    /\ apdu.op = "other"
    /\ Running("ready")
    /\ status' = "exit"
    /\ UNCHANGED <<ctl, cur, memVars, pathVars, dropped, fh>>

handle_apdu(apdu) ==
    \/ StructImplName(apdu)
    \/ StructImplField(apdu)
    \/ StructImplArray(apdu)
    \/ Unknown(apdu)

Continue == PathStep /\ UNCHANGED fh

Next == Continue \/ \E apdu \in APDU : handle_apdu(apdu)

(* The program runs: a handler that has more to do does it.                *)
Spec == Init /\ [][Next]_vars /\ WF_vars(Continue)

-----------------------------------------------------------------------------

(* Every variable stays in its C type, the memory index in the buffer, the *)
(* path and the open arrays in their tables.                               *)
TypeOK ==
    /\ mem_idx \in 0..SIZE_MEM_BUFFER
    /\ heap \in Seq(Chunk)
    /\ global_sha3 \in Transcript
    /\ status \in {"run", "exit", "stray_field", "stray_ctx", "stray_mem"}
    /\ ctl \in Control
    /\ cur \in Fields \cup {NULL}
    /\ root \in StructNames \cup {NULL}
    /\ depths \in Seq(Byte) /\ depth_count <= MAX_PATH_DEPTH
    /\ arrays \in Seq(ArrayDepth) /\ array_depth_count <= MAX_ARRAY_DEPTH
    /\ digests \in Seq(Transcript)
    /\ base \in Nat
    /\ dropped \in BOOLEAN
    /\ fh \in FieldHashing

(* As long as no failure was ignored, the memory above the definitions     *)
(* holds nothing but hash contexts: those of abandoned messages, then one  *)
(* per struct on the path and one per open array.                          *)
Balanced ==
    ~dropped =>
        /\ Len(heap) = base + depth_count + array_depth_count
        /\ \A i \in 1..Len(heap) : heap[i].kind = "ctx"
        /\ mem_idx = DefsEnd + CTX_SIZE * Len(heap)

(* No handler ever takes something else for a hash context, whatever the   *)
(* APDUs, unless a failure was ignored before (path.c and field_hash.c     *)
(* address the contexts from the top of the used memory, unchecked).       *)
NoStrayContext == status = "stray_ctx" => dropped

(* The bounds check of get_nth_field_from_path() lets the index after the  *)
(* last field through (path.c:41). No handler ever gets there, unless a    *)
(* failure was ignored before, but in a struct that has no field at all.   *)
OnlyEmptyStructsStray ==
    status = "stray_field" /\ ~dropped =>
        depth_count > 0 /\ Structs[StructAt(depth_count)] = << >>

Settled == Running("ready") /\ ~dropped

(* Between two APDUs the path points to a field that holds a value, never  *)
(* to a struct (what path_update() is for), unless the message is done.    *)
PathOnValue ==
    Settled /\ depth_count > 0 =>
        path_get_field \in Fields /\ ~IS_CUSTOM(path_get_field)

(* When path_update() is about to return true, the path points to a value: *)
(* it "doesn't point to a struct-type field, but rather only to actual     *)
(* fields" (path.c:208), whether or not the table of depths had room.      *)
UpdateLeavesValue ==
    Running("descend") /\ ~IS_CUSTOM(cur) =>
        path_get_field \in Fields /\ ~IS_CUSTOM(path_get_field)

(* Open arrays are those of fields on the path, the outer ones first, and  *)
(* no field has more of them open than it has levels.                      *)
ArraysOnPath ==
    Settled =>
        /\ \A i \in 1..array_depth_count : arrays[i].path_index < depth_count
        /\ \A i, j \in 1..array_depth_count :
               i < j => arrays[i].path_index <= arrays[j].path_index
        /\ \A n \in 1..depth_count :
               Cardinality({i \in 1..array_depth_count : arrays[i].path_index = n - 1})
                   <= Len(get_nth_field_from_path(n).lvls)

(* Where the context of the n-th struct of the path belongs: above those   *)
(* of the structs around it and of the arrays it is an element of.         *)
ContextOf(n) ==
    heap[base + n + Cardinality({i \in 1..array_depth_count : arrays[i].path_index < n - 1})]

(* Between two APDUs each struct on the path has its context in its place, *)
(* started on the type hash of that struct and fed with exactly the        *)
(* members before the current one.                                         *)
StackMirrorsPath ==
    Settled =>
        \A n \in 1..depth_count :
            /\ ContextOf(n).absorbed # << >>
            /\ SubSeq(ContextOf(n).absorbed[1], 1, 2) = <<"type", StructAt(n)>>
            /\ Items(ContextOf(n).absorbed) = 1 + depths[n]

(* A handler that is done with the last field of the root struct has put   *)
(* back all the memory the message used.                                   *)
Released ==
    Settled /\ depth_count = 0 => mem_idx = DefsEnd + CTX_SIZE * base

(* A digest comes out only as the hash of the whole root struct: its type  *)
(* hash, then one item per field.                                          *)
DigestIsWholeRoot ==
    [][digests' # digests /\ ~dropped =>
          LET hashed == SubSeq(digests'[Len(digests')], 2, Len(digests'[Len(digests')]) - 1)
          IN  /\ SubSeq(hashed[1], 1, 2) = <<"type", root>>
              /\ Items(hashed) = 1 + Len(Structs[root])]_vars

(* Every handler returns: the loops of path_advance() and path_update()    *)
(* come to an end, the latter because memory does.                         *)
HandlersReturn == (ctl # "ready") ~> (ctl = "ready")

=============================================================================
