-------------------------------- MODULE Path --------------------------------
(***************************************************************************)
(* path.c: the path to the field the next value belongs to, as an index in *)
(* the fields of each nested struct, and the arrays that are open on it.   *)
(* Moving the path also opens, feeds and closes the hash contexts.         *)
(*                                                                         *)
(* The loops of path_advance() and path_update() take one step per         *)
(* iteration: ctl is the place the handler has reached, and only its next  *)
(* step is enabled until it returns to main() ("ready").                   *)
(***************************************************************************)
EXTENDS Memory

CONSTANTS MAX_PATH_DEPTH, MAX_ARRAY_DEPTH,
          PastEnd   \* a field pointer to what lies after the fields of a struct

ASSUME PathAssumption ==
    /\ MAX_PATH_DEPTH \in 1..255
    /\ MAX_ARRAY_DEPTH \in 1..255
    /\ PastEnd # NULL
    /\ {NULL, PastEnd} \cap Fields = {}

VARIABLES ctl,      \* next step of the running handler
          cur,      \* field_ptr in path_update()
          root,     \* path_struct->root_struct
          depths,   \* path_struct->depths, the first depth_count of them
          arrays,   \* path_struct->array_depths, the first array_depth_count
          digests,  \* the struct hashes printed, oldest first
          base,     \* history: chunks left under the context of this root
          dropped   \* history: a failure was reported after a change, or not at all

memVars  == <<mem_idx, heap, global_sha3>>
pathVars == <<root, depths, arrays, base, digests>>

Control == {"ready", "array", "struct", "update", "descend"}

ArrayDepth == [path_index : Byte, size : Byte]

depth_count == Len(depths)
array_depth_count == Len(arrays)

Running(place) == status = "run" /\ ctl = place

(* The handler meets memory that is not what it takes it for. What the     *)
(* program does from there on is not modelled.                             *)
Stray(what) ==
    /\ status' = what
    /\ ctl' = "ready"
    /\ cur' = NULL
    /\ UNCHANGED <<memVars, pathVars, dropped>>

(* type_hash() returned NULL to path_update() or path_set_root(): the      *)
(* context it was for, and the pointers it collected, stay allocated.      *)
TypeHashLeaks(s, idx) ==
    LET left == TypeHashLeft(s, idx)
    IN  /\ mem_idx' = left
        /\ heap' = heap \o (IF left = idx THEN <<Ctx(<< >>)>> ELSE <<Ctx(<< >>), Leak>>)
        /\ global_sha3' = IF MissesOwnField(s, idx) THEN << >> ELSE <<type_hash(s, idx)>>
        /\ ctl' = "ready"
        /\ cur' = NULL
        /\ dropped' = TRUE
        /\ UNCHANGED <<status, depths, arrays, base, digests>>

-----------------------------------------------------------------------------

(* get_nth_field_from_path(): the field that the first n depths point to.  *)
(* PastEnd is what lies after the last field of a struct: the bounds       *)
(* check lets an index equal to the number of fields through. A field that *)
(* is not a struct leaves the struct to look in as it was.                 *)
Walk[n \in Nat] ==
    IF n = 0 THEN [struct |-> root, field |-> NULL]
    ELSE LET above == Walk[n - 1]
             fields == Structs[above.struct]
             at == depths[n]
         IN  IF n > 1 /\ above.field \in {NULL, PastEnd} THEN above
             ELSE IF above.struct = NULL                 THEN [above EXCEPT !.field = PastEnd]
             ELSE IF at > Len(fields)                    THEN [above EXCEPT !.field = NULL]
             ELSE IF at = Len(fields)                    THEN [above EXCEPT !.field = PastEnd]
             ELSE [struct |-> IF IS_CUSTOM(fields[at + 1])
                              THEN get_structn(fields[at + 1].typename)
                              ELSE above.struct,
                   field |-> fields[at + 1]]

get_nth_field_from_path(n) == IF n = 0 THEN NULL ELSE Walk[n].field

path_get_field == get_nth_field_from_path(depth_count)

(* The struct whose fields depths[n] indexes.                              *)
StructAt(n) == Walk[n - 1].struct

-----------------------------------------------------------------------------

(* path_depth_list_pop(), called when the last member of a struct is done: *)
(* its hash goes into the context below, or out if it was the root.        *)
path_depth_list_pop(upper) ==
    LET hash == Keccak(Top.absorbed)
        rest == Popped(heap)
    IN  IF ~TopAreContexts(IF upper = << >> THEN 1 ELSE 2)
        THEN Stray("stray_ctx")
        ELSE /\ depths' = upper
             /\ mem_idx' = mem_dealloc(mem_idx, CTX_SIZE)
             /\ heap' = IF upper = << >> THEN rest ELSE Absorbed(rest, hash)
             /\ digests' = IF upper = << >> THEN Append(digests, hash) ELSE digests
             /\ ctl' = "array"
             /\ UNCHANGED <<status, cur, global_sha3, root, arrays, base, dropped>>

(* Faulty variant: the array's context is not released.                    *)
array_depth_list_pop_unreleased ==
    IF ~TopAreContexts(2)
    THEN Stray("stray_ctx")
    ELSE /\ arrays' = Popped(arrays)
         /\ heap' = Absorbed(Popped(heap), Keccak(Top.absorbed))
         /\ UNCHANGED <<status, ctl, cur, mem_idx, global_sha3, root, depths, base, digests,
                        dropped>>

(* array_depth_list_pop(): the hash of a whole array goes into the context *)
(* below.                                                                  *)
array_depth_list_pop ==
    IF ~TopAreContexts(2)
    THEN Stray("stray_ctx")
    ELSE /\ arrays' = Popped(arrays)
         /\ mem_idx' = mem_dealloc(mem_idx, CTX_SIZE)
         /\ heap' = Absorbed(Popped(heap), Keccak(Top.absorbed))
         /\ UNCHANGED <<status, ctl, cur, global_sha3, root, depths, base, digests, dropped>>

-----------------------------------------------------------------------------

(* Faulty variants of what follows, which the properties tell apart from   *)
(* it: the innermost array is taken for one of the current field, whatever *)
(* it is of; the struct advances while an array goes on; the last field of *)
(* a struct is missed, or one more is looked for; path_update() enters one *)
(* struct only; a finished message is advanced for ever.                   *)
InArrayOfAny == array_depth_count > 0

LeaveArraysOpen ==
    /\ Running("array")
    /\ ctl' = "struct"
    /\ UNCHANGED <<status, cur, memVars, pathVars, dropped>>

FieldsButLast == Len(Structs[StructAt(depth_count)]) - 1

FieldsAndOne == Len(Structs[StructAt(depth_count)]) + 1

EnterStructOnce ==
    LET s == cur.typename
        idx == mem_idx + CTX_SIZE
    IN  /\ Running("descend")
        /\ IS_CUSTOM(cur)
        /\ CanAlloc(mem_idx, CTX_SIZE)
        /\ TypeHashResult(s, idx) = "hash"
        /\ depth_count < MAX_PATH_DEPTH
        /\ mem_idx' = idx
        /\ heap' = Append(heap, Ctx(<<type_hash(s, idx)>>))
        /\ global_sha3' = <<type_hash(s, idx), Final>>
        /\ depths' = Append(depths, 0)
        /\ ctl' = "ready"
        /\ cur' = NULL
        /\ UNCHANGED <<status, root, arrays, base, digests, dropped>>

NoMemberLoops ==
    /\ Running("struct")
    /\ ~(depth_count > 0 /\ path_get_field \in Fields)
    /\ ctl' = "array"
    /\ UNCHANGED <<status, cur, memVars, pathVars, dropped>>

(* path_advance_in_array(): is the innermost open array an array of the    *)
(* field the path points to?                                               *)
InArray ==
    /\ array_depth_count > 0
    /\ arrays[array_depth_count].path_index = depth_count - 1

ElementsLeft == (arrays[array_depth_count].size - 1) % 256

(* One element fewer to come, and the array is not finished: same field.   *)
NextElement ==
    /\ Running("array")
    /\ InArray
    /\ ElementsLeft # 0
    /\ arrays' = [arrays EXCEPT ![array_depth_count].size = ElementsLeft]
    /\ ctl' = "update"
    /\ UNCHANGED <<status, cur, memVars, root, depths, base, digests, dropped>>

(* The array is finished; the loop looks at the one around it.             *)
EndArray ==
    /\ Running("array")
    /\ InArray
    /\ ElementsLeft = 0
    /\ array_depth_list_pop

LeaveArrays ==
    /\ Running("array")
    /\ ~InArray
    /\ ctl' = "struct"
    /\ UNCHANGED <<status, cur, memVars, pathVars, dropped>>

(* path_advance_in_struct(), one action per outcome.                       *)
OnField == depth_count > 0 /\ path_get_field \in Fields

FieldsHere == Len(Structs[StructAt(depth_count)])

NextMember ==
    /\ Running("struct")
    /\ OnField
    /\ depths[depth_count] + 1 # FieldsHere
    /\ depths' = [depths EXCEPT ![depth_count] = (@ + 1) % 256]
    /\ ctl' = "update"
    /\ UNCHANGED <<status, cur, memVars, root, arrays, base, digests, dropped>>

EndStruct ==
    /\ Running("struct")
    /\ OnField
    /\ depths[depth_count] + 1 = FieldsHere
    /\ path_depth_list_pop(Popped(depths))

(* No field here: the whole message is done.                               *)
NoMember ==
    /\ Running("struct")
    /\ ~OnField
    /\ IF path_get_field = NULL
       THEN /\ ctl' = "update"
            /\ UNCHANGED <<status, cur, memVars, pathVars, dropped>>
       ELSE Stray("stray_field")

-----------------------------------------------------------------------------

(* path_update(): while the path points to a struct, enter it.             *)
UpdatePath ==
    /\ Running("update")
    /\ IF path_get_field \in Fields
       THEN /\ cur' = path_get_field
            /\ ctl' = "descend"
            /\ UNCHANGED <<status, memVars, pathVars, dropped>>
       ELSE IF path_get_field = NULL
       THEN /\ ctl' = "ready"
            /\ UNCHANGED <<status, cur, memVars, pathVars, dropped>>
       ELSE Stray("stray_field")

PathUpdated ==
    /\ Running("descend")
    /\ ~IS_CUSTOM(cur)
    /\ ctl' = "ready"
    /\ cur' = NULL
    /\ UNCHANGED <<status, memVars, pathVars, dropped>>

(* The context of the struct is allocated and started on the type hash.    *)
(* The push may be refused: the loop goes on as if it had not been.        *)
EnterStruct ==
    LET s == cur.typename
        idx == mem_idx + CTX_SIZE
        result == TypeHashResult(s, idx)
    IN  /\ Running("descend")
        /\ IS_CUSTOM(cur)
        /\ CanAlloc(mem_idx, CTX_SIZE)
        /\ result = "hash"
        /\ mem_idx' = idx
        /\ heap' = Append(heap, Ctx(<<type_hash(s, idx)>>))
        /\ global_sha3' = <<type_hash(s, idx), Final>>
        /\ IF depth_count = MAX_PATH_DEPTH
           THEN depths' = depths /\ dropped' = TRUE
           ELSE depths' = Append(depths, 0) /\ dropped' = dropped
        /\ IF Structs[s] = << >>
           THEN status' = "stray_field" /\ ctl' = "ready" /\ cur' = NULL
           ELSE status' = status /\ ctl' = ctl /\ cur' = Structs[s][1]
        /\ UNCHANGED <<root, arrays, base, digests>>

(* Out of memory for the context, or in type_hash(): path_update() returns *)
(* false, which no caller reads. Nothing that was allocated is released.   *)
EnterStructFails ==
    LET s == cur.typename
        idx == mem_idx + CTX_SIZE
        result == TypeHashResult(s, idx)
    IN  /\ Running("descend")
        /\ IS_CUSTOM(cur)
        /\ IF ~CanAlloc(mem_idx, CTX_SIZE)
           THEN /\ dropped' = TRUE
                /\ ctl' = "ready"
                /\ cur' = NULL
                /\ UNCHANGED <<status, memVars, pathVars>>
           ELSE /\ result # "hash"
                /\ IF result = "stray"
                   THEN Stray("stray_mem")
                   ELSE TypeHashLeaks(s, idx) /\ UNCHANGED root

-----------------------------------------------------------------------------

(* path_set_root(): the path starts over, whatever it was on. The contexts *)
(* of an unfinished message stay below the new one.                        *)
path_set_root(name) ==
    LET s == get_structn(name)
        idx == mem_idx + CTX_SIZE
        result == TypeHashResult(s, idx)
    IN  /\ Running("ready")
        /\ root' = s
        /\ IF s = NULL \/ ~CanAlloc(mem_idx, CTX_SIZE)
           THEN /\ dropped' = TRUE
                /\ UNCHANGED <<status, ctl, cur, memVars, depths, arrays, base, digests>>
           ELSE IF result = "stray"
           THEN status' = "stray_mem"
                /\ UNCHANGED <<ctl, cur, memVars, depths, arrays, base, digests, dropped>>
           ELSE IF result = "null"
           THEN TypeHashLeaks(s, idx)
           ELSE /\ mem_idx' = idx
                /\ heap' = Append(heap, Ctx(<<type_hash(s, idx)>>))
                /\ global_sha3' = <<type_hash(s, idx), Final>>
                /\ depths' = <<0>>
                /\ arrays' = << >>
                /\ base' = Len(heap)
                /\ ctl' = "update"
                /\ UNCHANGED <<status, cur, digests, dropped>>

-----------------------------------------------------------------------------

(* path_new_array_depth(): levels of the array fields met along the path,  *)
(* in a byte.                                                              *)
LevelsUpTo[n \in Nat] ==
    IF n = 0 THEN 0
    ELSE (LevelsUpTo[n - 1] + Len(get_nth_field_from_path(n).lvls)) % 256

(* The first field on the path with an array level that is not open yet.   *)
Opens(n) ==
    /\ \A i \in 1..n : get_nth_field_from_path(i) \in Fields
    /\ struct_field_is_array(get_nth_field_from_path(n))
    /\ LevelsUpTo[n] > array_depth_count

(* Faulty variants: a struct keeps its context below the array's; the      *)
(* array gets no context.                                                  *)
ArrayContextBelow(field) == Append(heap, Ctx(<< >>))
NoArrayContext(field) == heap

FirstToOpen(n) == Opens(n) /\ \A i \in 1..(n - 1) : ~Opens(i)

(* check_and_add_array_depth(): outer levels come last in the definition.  *)
LevelToOpen(n) ==
    get_nth_field_from_path(n).lvls[LevelsUpTo[n] - array_depth_count]

SizeAgrees(level, size) == level.kind = "fixed" => level.size = size

(* A struct element has its context already: it moves up and the array's   *)
(* takes its place.                                                        *)
WithArrayContext(field) ==
    IF IS_CUSTOM(field)
    THEN Append([heap EXCEPT ![Len(heap)] = Ctx(<< >>)], Top)
    ELSE Append(heap, Ctx(<< >>))

OpenArray(n, size) ==
    LET field == get_nth_field_from_path(n)
    IN  IF \/ ~SizeAgrees(LevelToOpen(n), size)
           \/ array_depth_count = MAX_ARRAY_DEPTH
        THEN UNCHANGED <<status, ctl, cur, memVars, pathVars, dropped>>
        ELSE IF CanAlloc(mem_idx, CTX_SIZE) /\ IS_CUSTOM(field) /\ ~TopAreContexts(1)
        THEN Stray("stray_ctx")
        ELSE /\ arrays' = Append(arrays, [path_index |-> n - 1, size |-> size])
             /\ IF CanAlloc(mem_idx, CTX_SIZE)
                THEN /\ mem_idx' = mem_idx + CTX_SIZE
                     /\ heap' = WithArrayContext(field)
                     /\ dropped' = dropped
                ELSE /\ dropped' = TRUE
                     /\ UNCHANGED <<mem_idx, heap>>
             /\ UNCHANGED <<status, ctl, cur, global_sha3, root, depths, base, digests>>

path_new_array_depth(size) ==
    /\ Running("ready")
    /\ \/ \E n \in 1..depth_count : FirstToOpen(n) /\ OpenArray(n, size)
       \/ /\ \A n \in 1..depth_count : ~Opens(n)
          /\ IF \E n \in 1..depth_count : get_nth_field_from_path(n) = PastEnd
             THEN Stray("stray_field")
             ELSE UNCHANGED <<status, ctl, cur, memVars, pathVars, dropped>>

-----------------------------------------------------------------------------

PathStep ==
    \/ NextElement \/ EndArray \/ LeaveArrays
    \/ NextMember \/ EndStruct \/ NoMember
    \/ UpdatePath \/ PathUpdated \/ EnterStruct \/ EnterStructFails

PathInit ==
    /\ ctl = "ready"
    /\ cur = NULL
    /\ root = NULL
    /\ depths = << >>
    /\ arrays = << >>
    /\ digests = << >>
    /\ base = 0
    /\ dropped = FALSE

=============================================================================
