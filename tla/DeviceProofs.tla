---------------------------- MODULE DeviceProofs ----------------------------
(***************************************************************************)
(* For every schema, every size of the memory and of the tables, and every *)
(* sequence of APDUs: the variables keep their types and bounds (TypeOK),  *)
(* and as long as no failure has been ignored the memory holds exactly the *)
(* hash contexts of the path (Balanced), so that no handler addresses      *)
(* anything else (NoStrayContext).                                         *)
(*                                                                         *)
(* Balanced is what makes NoStrayContext inductive: a handler that needs   *)
(* n contexts on top of the memory finds them because the path is long     *)
(* enough. CurOK types the pointer that path_update() holds from one       *)
(* iteration to the next.                                                  *)
(*                                                                         *)
(* The second part is where the path stands: on a value between two APDUs  *)
(* (PathOnValue), with the open arrays on it, in order and no more of them *)
(* than there are levels (ArraysOnPath), and none when the message is done *)
(* (Released). The index after the last field is only met in a struct that *)
(* has none (OnlyEmptyStructsStray).                                       *)
(*                                                                         *)
(* All of it holds until a failure is ignored, and rests on PathInv, which *)
(* says the same of every place inside a handler: each index but the last  *)
(* is that of a struct the path has entered, and the i-th open array is    *)
(* of the field whose levels, counted along the path, reach i.             *)
(*                                                                         *)
(* The two recursive functions of Path come first: the field a path leads  *)
(* to (Walk) and the levels of the arrays along it (LevelsUpTo). Each      *)
(* satisfies its own equation, in this state and the next, and depends on  *)
(* no more of the path than it walks. W stands for a walk along path from  *)
(* the struct top, L for the levels met on W.                              *)
(***************************************************************************)
EXTENDS Device, SequenceTheorems, FiniteSetTheorems, TLAPS

CurOK == ctl = "descend" => cur \in Fields

IInv == TypeOK /\ CurOK /\ Balanced /\ NoStrayContext

-----------------------------------------------------------------------------

(* Arithmetic of the memory index.                                         *)
LEMMA OneMore == ASSUME NEW c \in Nat, NEW n \in Nat PROVE c * (n + 1) = c * n + c
  OBVIOUS

LEMMA ModuloBounds == ASSUME NEW x \in Int, NEW m \in Nat \ {0} PROVE x % m \in 0..(m - 1)
  OBVIOUS

LEMMA BigEndian == ASSUME NEW high \in Int, NEW low \in Int PROVE 256 * high + low \in Int
  OBVIOUS

LEMMA AtLeastOne ==
    ASSUME NEW c \in Nat, NEW n \in Nat \ {0}
    PROVE  c * n >= c /\ c * (n - 1) = c * n - c
  OBVIOUS

LEMMA DivisionFits ==
    ASSUME NEW p \in Nat \ {0}, NEW n \in Nat
    PROVE  p * (n \div p) \in 0..n
  OBVIOUS

(* A pointer-sized chunk more, as long as there is room for one.           *)
LEMMA LeftFits ==
    ASSUME NEW s, NEW idx \in 0..SIZE_MEM_BUFFER
    PROVE  TypeHashLeft(s, idx) \in 0..SIZE_MEM_BUFFER
  <1>1. SIZE_MEM_BUFFER - idx \in Nat
    BY MemoryAssumption
  <1>2. PTR_SIZE * PointersLeft(idx) \in 0..(SIZE_MEM_BUFFER - idx)
    BY <1>1, DivisionFits, MemoryAssumption DEF PointersLeft
  <1> QED
    BY <1>1, <1>2, MemoryAssumption DEF TypeHashLeft

-----------------------------------------------------------------------------

AllContexts(h) == \A i \in 1..Len(h) : h[i].kind = "ctx"

LEMMA ContextType == ASSUME NEW t \in Transcript PROVE Ctx(t) \in Chunk /\ Ctx(t).kind = "ctx"
  BY DEF Ctx, Chunk

LEMMA ContextOnTop ==
    ASSUME NEW h \in Seq(Chunk), NEW t \in Transcript
    PROVE  /\ Append(h, Ctx(t)) \in Seq(Chunk)
           /\ Len(Append(h, Ctx(t))) = Len(h) + 1
           /\ AllContexts(h) => AllContexts(Append(h, Ctx(t)))
  <1>1. Ctx(t) \in Chunk /\ Ctx(t).kind = "ctx"
    BY ContextType
  <1> QED
    BY <1>1, AppendProperties DEF AllContexts

LEMMA AbsorbType ==
    ASSUME NEW h \in Seq(Chunk), h # << >>, NEW t \in Transcript
    PROVE  /\ Absorbed(h, t) \in Seq(Chunk)
           /\ Len(Absorbed(h, t)) = Len(h)
           /\ AllContexts(h) => AllContexts(Absorbed(h, t))
  <1>1. Len(h) \in 1..Len(h) /\ h[Len(h)] \in Chunk
    BY EmptySeq, LenProperties, ElementOfSeq
  <1>2. h[Len(h)].absorbed \o t \in Transcript
    BY <1>1, ConcatProperties DEF Chunk, Transcript
  <1>3. Ctx(h[Len(h)].absorbed \o t) \in Chunk /\ Ctx(h[Len(h)].absorbed \o t).kind = "ctx"
    BY <1>2, ContextType
  <1> QED
    BY <1>1, <1>3, ExceptSeq DEF Absorbed, AllContexts

LEMMA PoppedType ==
    ASSUME NEW S, NEW h \in Seq(S), h # << >>
    PROVE  /\ Popped(h) \in Seq(S)
           /\ Len(Popped(h)) = Len(h) - 1
           /\ \A i \in 1..(Len(h) - 1) : Popped(h)[i] = h[i]
  <1>1. Len(h) \in Nat \ {0}
    BY EmptySeq, LenProperties
  <1>2. \A i \in 1..(Len(h) - 1) : h[i] \in S
    BY <1>1, ElementOfSeq
  <1>3. 1 \in Int /\ Len(h) - 1 \in Int
    BY <1>1
  <1>4. Len(SubSeq(h, 1, Len(h) - 1)) = IF 1 <= Len(h) - 1 THEN Len(h) - 1 - 1 + 1 ELSE 0
    BY <1>2, <1>3, SubSeqProperties
  <1>5. Len(Popped(h)) = Len(h) - 1
    BY <1>1, <1>4, SMTT(30) DEF Popped
  <1>6. Popped(h) \in Seq(S)
    BY <1>2, <1>3, SubSeqProperties DEF Popped
  <1>7. \A i \in 1..(Len(h) - 1) : Popped(h)[i] = h[i]
    BY <1>1 DEF Popped
  <1> QED
    BY <1>5, <1>6, <1>7

LEMMA KeccakType == ASSUME NEW t \in Transcript PROVE Keccak(t) \in Transcript
  <1>1. Open \in Token /\ Close \in Token
    BY DEF Token
  <1>2. <<Open>> \in Seq(Token) /\ <<Close>> \in Seq(Token)
    BY <1>1
  <1> QED
    BY <1>2, ConcatProperties DEF Keccak, Transcript

LEMMA TypeHashToken ==
    ASSUME NEW s \in StructNames, NEW idx
    PROVE  /\ <<type_hash(s, idx)>> \in Transcript
           /\ <<type_hash(s, idx), Final>> \in Transcript
  <1>1. KeptDeps(s, idx) \in SUBSET StructNames
    BY DEF KeptDeps
  <1>2. type_hash(s, idx) \in Token
    BY <1>1 DEF type_hash, Token
  <1>3. Final \in Token
    BY DEF Token
  <1> QED
    BY <1>2, <1>3 DEF Transcript

(* The top of a non-empty stack holds a transcript.                        *)
LEMMA TopType ==
    ASSUME heap \in Seq(Chunk), heap # << >>
    PROVE  Top \in Chunk /\ Top.absorbed \in Transcript
  <1>1. Len(heap) \in 1..Len(heap)
    BY EmptySeq, LenProperties
  <1>2. Top \in Chunk
    BY <1>1, ElementOfSeq DEF Top
  <1> QED
    BY <1>2 DEF Chunk

-----------------------------------------------------------------------------

(* What the handlers rely on: with no failure ignored, a path with n       *)
(* structs and arrays on it stands for n contexts on top of the memory.    *)
LEMMA ContextsThere ==
    ASSUME IInv, ~dropped, NEW n \in Nat, n <= depth_count + array_depth_count
    PROVE  TopAreContexts(n)
  <1>1. Len(heap) = base + depth_count + array_depth_count
    BY DEF IInv, Balanced
  <1>2. depth_count \in Nat /\ array_depth_count \in Nat /\ base \in Nat /\ Len(heap) \in Nat
    BY LenProperties DEF IInv, TypeOK, depth_count, array_depth_count
  <1>3. (Len(heap) - n + 1)..Len(heap) \subseteq 1..Len(heap)
    BY <1>1, <1>2
  <1> QED
    BY <1>1, <1>2, <1>3 DEF IInv, Balanced, TopAreContexts

LEMMA StrayStep ==
    ASSUME IInv, UNCHANGED fh,
           NEW what \in {"stray_field", "stray_ctx", "stray_mem"}, Stray(what),
           what = "stray_ctx" => dropped
    PROVE  IInv'
  <1>1. TypeOK'
    BY DEF IInv, TypeOK, Stray, memVars, pathVars, Control, depth_count, array_depth_count
  <1>2. CurOK'
    BY DEF Stray, CurOK
  <1>3. Balanced'
    BY DEF IInv, Balanced, Stray, memVars, pathVars, depth_count, array_depth_count
  <1>4. NoStrayContext'
    BY DEF Stray, NoStrayContext
  <1> QED
    BY <1>1, <1>2, <1>3, <1>4 DEF IInv

(* The memory index when one context is released, or one more allocated.   *)
LEMMA ReleaseOne ==
    ASSUME TypeOK
    PROVE  /\ mem_dealloc(mem_idx, CTX_SIZE) \in 0..SIZE_MEM_BUFFER
           /\ \A n \in Nat \ {0} :
                 mem_idx = DefsEnd + CTX_SIZE * n
                    => mem_dealloc(mem_idx, CTX_SIZE) = DefsEnd + CTX_SIZE * (n - 1)
  <1>1. mem_dealloc(mem_idx, CTX_SIZE) \in 0..SIZE_MEM_BUFFER
    BY MemoryAssumption DEF TypeOK, mem_dealloc
  <1>2. ASSUME NEW n \in Nat \ {0}, mem_idx = DefsEnd + CTX_SIZE * n
        PROVE  mem_dealloc(mem_idx, CTX_SIZE) = DefsEnd + CTX_SIZE * (n - 1)
    <2>1. CTX_SIZE * n >= CTX_SIZE /\ CTX_SIZE * (n - 1) = CTX_SIZE * n - CTX_SIZE
      BY AtLeastOne, MemoryAssumption
    <2>2. CTX_SIZE * n \in Nat
      BY MemoryAssumption
    <2> QED
      BY <1>2, <2>1, <2>2, MemoryAssumption DEF mem_dealloc
  <1> QED
    BY <1>1, <1>2

LEMMA AllocateOne ==
    ASSUME TypeOK, CanAlloc(mem_idx, CTX_SIZE)
    PROVE  /\ mem_idx + CTX_SIZE \in 0..SIZE_MEM_BUFFER
           /\ \A n \in Nat :
                 mem_idx = DefsEnd + CTX_SIZE * n
                    => mem_idx + CTX_SIZE = DefsEnd + CTX_SIZE * (n + 1)
  <1>1. mem_idx + CTX_SIZE \in 0..SIZE_MEM_BUFFER
    BY MemoryAssumption DEF TypeOK, CanAlloc
  <1>2. ASSUME NEW n \in Nat, mem_idx = DefsEnd + CTX_SIZE * n
        PROVE  mem_idx + CTX_SIZE = DefsEnd + CTX_SIZE * (n + 1)
    <2>1. CTX_SIZE * (n + 1) = CTX_SIZE * n + CTX_SIZE /\ CTX_SIZE * n \in Nat
      BY OneMore, MemoryAssumption
    <2> QED
      BY <1>2, <2>1, MemoryAssumption
  <1> QED
    BY <1>1, <1>2

-----------------------------------------------------------------------------

(* Steps that leave the memory, the length of the path and the number of   *)
(* open arrays as they are.                                                *)
LEMMA SameStack ==
    ASSUME IInv, UNCHANGED <<mem_idx, heap, base, dropped>>,
           depth_count' = depth_count, array_depth_count' = array_depth_count
    PROVE  Balanced'
  BY DEF IInv, Balanced

LEMMA QuietStep ==
    ASSUME IInv, UNCHANGED <<mem_idx, heap, pathVars, dropped>>,
           global_sha3' \in Transcript, fh' \in FieldHashing,
           status' \in {status, "exit"}, ctl' \in Control, cur' \in Fields \cup {NULL},
           ctl' = "descend" => cur' \in Fields
    PROVE  IInv'
  <1>1. TypeOK'
    BY DEF IInv, TypeOK, pathVars, depth_count, array_depth_count
  <1>2. CurOK'
    BY DEF CurOK
  <1>3. Balanced'
    BY SameStack DEF pathVars, depth_count, array_depth_count
  <1>4. NoStrayContext'
    BY DEF IInv, NoStrayContext
  <1> QED
    BY <1>1, <1>2, <1>3, <1>4 DEF IInv

LEMMA NextElementStep == ASSUME IInv, NextElement, UNCHANGED fh PROVE IInv'
  <1>1. array_depth_count \in 1..Len(arrays) /\ arrays \in Seq(ArrayDepth)
    BY LenProperties DEF IInv, TypeOK, NextElement, InArray, array_depth_count
  <1>2. arrays[array_depth_count] \in ArrayDepth
    BY <1>1, ElementOfSeq
  <1>3. ElementsLeft \in Byte
    BY <1>2 DEF ElementsLeft, ArrayDepth, Byte
  <1>4. [arrays[array_depth_count] EXCEPT !.size = ElementsLeft] \in ArrayDepth
    BY <1>2, <1>3 DEF ArrayDepth
  <1>5. arrays' \in Seq(ArrayDepth) /\ Len(arrays') = Len(arrays)
    BY <1>1, <1>4, ExceptSeq DEF NextElement
  <1>6. TypeOK'
    BY <1>5 DEF IInv, TypeOK, NextElement, memVars, Control, depth_count, array_depth_count
  <1>7. CurOK'
    BY DEF NextElement, CurOK
  <1>8. Balanced'
    BY <1>5, SameStack DEF NextElement, memVars, depth_count, array_depth_count
  <1>9. NoStrayContext'
    BY DEF IInv, NextElement, NoStrayContext
  <1> QED
    BY <1>6, <1>7, <1>8, <1>9 DEF IInv

LEMMA NextMemberStep == ASSUME IInv, NextMember, UNCHANGED fh PROVE IInv'
  <1>1. depth_count \in 1..Len(depths) /\ depths \in Seq(Byte)
    BY LenProperties DEF IInv, TypeOK, NextMember, OnField, depth_count
  <1>2. depths[depth_count] \in Byte
    BY <1>1, ElementOfSeq
  <1>3. (depths[depth_count] + 1) % 256 \in Byte
    BY <1>2 DEF Byte
  <1>4. depths' \in Seq(Byte) /\ Len(depths') = Len(depths)
    BY <1>1, <1>3, ExceptSeq DEF NextMember
  <1>5. TypeOK'
    BY <1>4 DEF IInv, TypeOK, NextMember, memVars, Control, depth_count, array_depth_count
  <1>6. CurOK'
    BY DEF NextMember, CurOK
  <1>7. Balanced'
    BY <1>4, SameStack DEF NextMember, memVars, depth_count, array_depth_count
  <1>8. NoStrayContext'
    BY DEF IInv, NextMember, NoStrayContext
  <1> QED
    BY <1>5, <1>6, <1>7, <1>8 DEF IInv

(* The hash of the topmost context goes into the one below.                *)
LEMMA FoldedType ==
    ASSUME IInv, TopAreContexts(2)
    PROVE  LET folded == Absorbed(Popped(heap), Keccak(Top.absorbed))
           IN  /\ folded \in Seq(Chunk)
               /\ Len(folded) = Len(heap) - 1
               /\ Len(heap) >= 2
               /\ AllContexts(heap) => AllContexts(folded)
  <1>1. heap \in Seq(Chunk) /\ Len(heap) \in Nat /\ Len(heap) >= 2
    BY LenProperties DEF IInv, TypeOK, TopAreContexts
  <1>2. heap # << >>
    BY <1>1, EmptySeq
  <1>3. /\ Popped(heap) \in Seq(Chunk)
        /\ Len(Popped(heap)) = Len(heap) - 1
        /\ \A i \in 1..(Len(heap) - 1) : Popped(heap)[i] = heap[i]
    BY <1>1, <1>2, PoppedType
  <1>4. Popped(heap) # << >> /\ (AllContexts(heap) => AllContexts(Popped(heap)))
    BY <1>1, <1>3, EmptySeq DEF AllContexts
  <1>5. Keccak(Top.absorbed) \in Transcript
    BY <1>1, <1>2, TopType, KeccakType
  <1> QED
    BY <1>1, <1>3, <1>4, <1>5, AbsorbType

LEMMA EndArrayStep == ASSUME IInv, EndArray, UNCHANGED fh PROVE IInv'
  <1>1. /\ array_depth_count \in Nat /\ array_depth_count > 0
        /\ depth_count \in Nat /\ depth_count > 0
    <2>1. /\ array_depth_count \in 1..Len(arrays)
          /\ depth_count \in Nat
          /\ arrays \in Seq(ArrayDepth)
      BY LenProperties DEF IInv, TypeOK, EndArray, InArray, array_depth_count, depth_count
    <2>2. arrays[array_depth_count] \in ArrayDepth
      BY <2>1, ElementOfSeq
    <2>3. arrays[array_depth_count].path_index \in Byte
      BY <2>2 DEF ArrayDepth
    <2> QED
      BY <2>1, <2>3 DEF EndArray, InArray, Byte
  <1>2. CASE ~TopAreContexts(2)
    <2>1. dropped
      BY <1>1, <1>2, ContextsThere
    <2> QED
      BY <1>2, <2>1, StrayStep DEF EndArray, array_depth_list_pop
  <1>3. CASE TopAreContexts(2)
    <2>1. /\ arrays' = Popped(arrays)
          /\ mem_idx' = mem_dealloc(mem_idx, CTX_SIZE)
          /\ heap' = Absorbed(Popped(heap), Keccak(Top.absorbed))
          /\ UNCHANGED <<status, ctl, cur, global_sha3, root, depths, base, digests, dropped>>
      BY <1>3 DEF EndArray, array_depth_list_pop
    <2>2. /\ heap' \in Seq(Chunk)
          /\ Len(heap') = Len(heap) - 1
          /\ Len(heap) \in Nat /\ Len(heap) >= 2
          /\ AllContexts(heap) => AllContexts(heap')
      BY <1>3, <2>1, FoldedType, LenProperties DEF IInv, TypeOK
    <2>3. arrays' \in Seq(ArrayDepth) /\ Len(arrays') = Len(arrays) - 1
      <3>1. arrays \in Seq(ArrayDepth) /\ arrays # << >>
        BY <1>1, EmptySeq DEF IInv, TypeOK, array_depth_count
      <3> QED
        BY <2>1, <3>1, PoppedType
    <2>4. TypeOK'
      BY <1>1, <2>1, <2>2, <2>3, ReleaseOne, PathAssumption
      DEF IInv, TypeOK, depth_count, array_depth_count
    <2>5. CurOK'
      BY <2>1 DEF IInv, CurOK
    <2>6. Balanced'
      BY <1>1, <2>1, <2>2, <2>3, ReleaseOne
      DEF IInv, TypeOK, Balanced, AllContexts, depth_count, array_depth_count
    <2>7. NoStrayContext'
      BY <2>1 DEF IInv, NoStrayContext
    <2> QED
      BY <2>4, <2>5, <2>6, <2>7 DEF IInv
  <1> QED
    BY <1>2, <1>3

LEMMA EndStructStep == ASSUME IInv, EndStruct, UNCHANGED fh PROVE IInv'
  <1> DEFINE upper == Popped(depths)
  <1>1. depths \in Seq(Byte) /\ depths # << >> /\ depth_count \in Nat /\ depth_count > 0
    BY EmptySeq, LenProperties DEF IInv, TypeOK, EndStruct, OnField, depth_count
  <1>2. upper \in Seq(Byte) /\ Len(upper) = depth_count - 1
    BY <1>1, PoppedType DEF depth_count
  <1>3. heap \in Seq(Chunk) /\ Len(heap) \in Nat /\ array_depth_count \in Nat
    BY LenProperties DEF IInv, TypeOK, array_depth_count
  <1>4. CASE ~TopAreContexts(IF upper = << >> THEN 1 ELSE 2)
    <2>1. dropped
      <3>1. upper # << >> => depth_count >= 2
        BY <1>1, <1>2, EmptySeq, LenProperties
      <3> QED
        BY <1>1, <1>3, <1>4, <3>1, ContextsThere
    <2> QED
      BY <1>4, <2>1, StrayStep DEF EndStruct, path_depth_list_pop
  <1>5. CASE TopAreContexts(IF upper = << >> THEN 1 ELSE 2)
    <2>1. /\ depths' = upper
          /\ mem_idx' = mem_dealloc(mem_idx, CTX_SIZE)
          /\ heap' = IF upper = << >> THEN Popped(heap)
                     ELSE Absorbed(Popped(heap), Keccak(Top.absorbed))
          /\ digests' = IF upper = << >> THEN Append(digests, Keccak(Top.absorbed)) ELSE digests
          /\ ctl' = "array"
          /\ UNCHANGED <<status, cur, global_sha3, root, arrays, base, dropped>>
      BY <1>5 DEF EndStruct, path_depth_list_pop
    <2>2. Len(heap) >= 1 /\ heap # << >>
      BY <1>3, <1>5, EmptySeq DEF TopAreContexts
    <2>3. /\ heap' \in Seq(Chunk)
          /\ Len(heap') = Len(heap) - 1
          /\ AllContexts(heap) => AllContexts(heap')
      <3>1. CASE upper = << >>
        <4>1. /\ Popped(heap) \in Seq(Chunk)
              /\ Len(Popped(heap)) = Len(heap) - 1
              /\ \A i \in 1..(Len(heap) - 1) : Popped(heap)[i] = heap[i]
          BY <1>3, <2>2, PoppedType
        <4> QED
          BY <1>3, <2>1, <3>1, <4>1, SMTT(30) DEF AllContexts
      <3>2. CASE upper # << >>
        BY <1>5, <2>1, <3>2, FoldedType
      <3> QED
        BY <3>1, <3>2
    <2>4. digests' \in Seq(Transcript)
      <3>1. Keccak(Top.absorbed) \in Transcript
        BY <1>3, <2>2, TopType, KeccakType
      <3> QED
        BY <2>1, <3>1, AppendProperties DEF IInv, TypeOK
    <2>5. TypeOK'
      BY <1>1, <1>2, <2>1, <2>3, <2>4, ReleaseOne, PathAssumption
      DEF IInv, TypeOK, Control, depth_count, array_depth_count
    <2>6. CurOK'
      BY <2>1 DEF CurOK
    <2>7. Balanced'
      <3>1. SUFFICES ASSUME ~dropped
                     PROVE  /\ Len(heap') = base + Len(upper) + array_depth_count
                            /\ AllContexts(heap')
                            /\ mem_idx' = DefsEnd + CTX_SIZE * Len(heap')
        BY <2>1 DEF Balanced, AllContexts, depth_count, array_depth_count
      <3>2. /\ Len(heap) = base + depth_count + array_depth_count
            /\ AllContexts(heap)
            /\ mem_idx = DefsEnd + CTX_SIZE * Len(heap)
        BY <3>1 DEF IInv, Balanced, AllContexts
      <3>3. mem_idx' = DefsEnd + CTX_SIZE * (Len(heap) - 1)
        BY <1>3, <2>1, <2>2, <3>2, ReleaseOne DEF IInv
      <3> QED
        BY <1>1, <1>2, <1>3, <2>3, <3>2, <3>3 DEF IInv, TypeOK
    <2>8. NoStrayContext'
      BY <2>1 DEF IInv, NoStrayContext
    <2> QED
      BY <2>5, <2>6, <2>7, <2>8 DEF IInv
  <1> QED
    BY <1>4, <1>5

LEMMA LeaveArraysStep == ASSUME IInv, LeaveArrays, UNCHANGED fh PROVE IInv'
  BY QuietStep DEF LeaveArrays, IInv, TypeOK, Control, memVars

LEMMA NoMemberStep == ASSUME IInv, NoMember, UNCHANGED fh PROVE IInv'
  <1>1. CASE path_get_field = NULL
    BY <1>1, QuietStep DEF NoMember, IInv, TypeOK, Control, memVars
  <1>2. CASE path_get_field # NULL
    BY <1>2, StrayStep DEF NoMember
  <1> QED
    BY <1>1, <1>2

LEMMA UpdatePathStep == ASSUME IInv, UpdatePath, UNCHANGED fh PROVE IInv'
  <1>1. CASE path_get_field \in Fields
    BY <1>1, QuietStep DEF UpdatePath, IInv, TypeOK, Control, memVars
  <1>2. CASE path_get_field \notin Fields /\ path_get_field = NULL
    BY <1>2, QuietStep DEF UpdatePath, IInv, TypeOK, Control, memVars
  <1>3. CASE path_get_field \notin Fields /\ path_get_field # NULL
    BY <1>3, StrayStep DEF UpdatePath
  <1> QED
    BY <1>1, <1>2, <1>3

LEMMA PathUpdatedStep == ASSUME IInv, PathUpdated, UNCHANGED fh PROVE IInv'
  BY QuietStep DEF PathUpdated, IInv, TypeOK, Control, memVars

(* The schema is closed, and a struct with fields has a first one.         *)
LEMMA SchemaClosed ==
    /\ \A f \in Fields : IS_CUSTOM(f) => f.typename \in StructNames
    /\ \A s \in StructNames : Structs[s] # << >> => Structs[s][1] \in Fields
  <1>1. ASSUME NEW f \in Fields, IS_CUSTOM(f)
        PROVE  f.typename \in StructNames
    BY <1>1, SchemaAssumption DEF Fields, IS_CUSTOM
  <1>2. ASSUME NEW s \in StructNames, Structs[s] # << >>
        PROVE  Structs[s][1] \in Fields
    <2>1. Structs[s] \in Seq(Field)
      BY SchemaAssumption
    <2>2. 1 \in DOMAIN Structs[s] /\ Structs[s][1] \in Field
      BY <1>2, <2>1, EmptySeq, LenProperties, ElementOfSeq
    <2> QED
      BY <2>2 DEF Fields
  <1> QED
    BY <1>1, <1>2

LEMMA EnterStructStep == ASSUME IInv, EnterStruct, UNCHANGED fh PROVE IInv'
  <1> DEFINE s == cur.typename
             idx == mem_idx + CTX_SIZE
             token == type_hash(s, idx)
  <1>1. cur \in Fields /\ s \in StructNames
    BY SchemaClosed DEF IInv, CurOK, EnterStruct, Running
  <1>2. idx \in 0..SIZE_MEM_BUFFER
    BY AllocateOne DEF IInv, EnterStruct
  <1>3. <<token>> \in Transcript /\ <<token, Final>> \in Transcript
    BY <1>1, TypeHashToken
  <1>4. /\ heap' \in Seq(Chunk)
        /\ Len(heap') = Len(heap) + 1
        /\ AllContexts(heap) => AllContexts(heap')
    BY <1>3, ContextOnTop DEF IInv, TypeOK, EnterStruct
  <1>5. /\ depths' \in Seq(Byte) /\ Len(depths') <= MAX_PATH_DEPTH
        /\ ~dropped' => Len(depths') = Len(depths) + 1 /\ ~dropped
    <2>1. depths \in Seq(Byte) /\ depth_count \in Nat /\ depth_count <= MAX_PATH_DEPTH /\ 0 \in Byte
      BY LenProperties DEF IInv, TypeOK, depth_count, Byte
    <2>2. CASE depth_count = MAX_PATH_DEPTH
      BY <2>1, <2>2 DEF EnterStruct, depth_count
    <2>3. CASE depth_count # MAX_PATH_DEPTH
      <3>1. depths' = Append(depths, 0) /\ dropped' = dropped
        BY <2>3 DEF EnterStruct
      <3>2. depths' \in Seq(Byte) /\ Len(depths') = Len(depths) + 1
        BY <2>1, <3>1, AppendProperties
      <3> QED
        BY <2>1, <2>3, <3>1, <3>2, PathAssumption DEF depth_count
    <2> QED
      BY <2>2, <2>3
  <1>6. /\ cur' \in Fields \cup {NULL}
        /\ ctl' \in Control /\ (ctl' = "descend" => cur' \in Fields)
        /\ status' \in {status, "stray_field"}
    BY <1>1, SchemaClosed DEF IInv, TypeOK, EnterStruct, Control
  <1>7. TypeOK'
    BY <1>2, <1>3, <1>4, <1>5, <1>6 DEF IInv, TypeOK, EnterStruct, depth_count, array_depth_count
  <1>8. CurOK'
    BY <1>6 DEF CurOK
  <1>9. Balanced'
    <2>1. SUFFICES ASSUME ~dropped'
                   PROVE  /\ Len(heap') = base + Len(depths') + array_depth_count
                          /\ AllContexts(heap')
                          /\ mem_idx' = DefsEnd + CTX_SIZE * Len(heap')
      BY DEF EnterStruct, Balanced, AllContexts, depth_count, array_depth_count
    <2>2. /\ Len(heap) = base + depth_count + array_depth_count
          /\ AllContexts(heap)
          /\ mem_idx = DefsEnd + CTX_SIZE * Len(heap)
      BY <1>5, <2>1 DEF IInv, Balanced, AllContexts
    <2>3. Len(heap) \in Nat /\ depth_count \in Nat /\ array_depth_count \in Nat /\ base \in Nat
      BY LenProperties DEF IInv, TypeOK, depth_count, array_depth_count
    <2>4. mem_idx' = DefsEnd + CTX_SIZE * (Len(heap) + 1)
      BY <2>2, <2>3, AllocateOne DEF IInv, EnterStruct
    <2> QED
      BY <1>4, <1>5, <2>1, <2>2, <2>3, <2>4 DEF depth_count
  <1>10. NoStrayContext'
    BY <1>6, dropped => dropped' DEF IInv, NoStrayContext, EnterStruct
  <1> QED
    BY <1>7, <1>8, <1>9, <1>10 DEF IInv

(* type_hash() failed: what it leaves behind is typed and within bounds.   *)
LEMMA TypeHashLeaksStep ==
    ASSUME IInv, NEW s \in StructNames, CanAlloc(mem_idx, CTX_SIZE),
           TypeHashLeaks(s, mem_idx + CTX_SIZE),
           root' \in StructNames \cup {NULL}, UNCHANGED fh
    PROVE  IInv'
  <1> DEFINE idx == mem_idx + CTX_SIZE
             left == TypeHashLeft(s, idx)
             more == IF left = idx THEN <<Ctx(<< >>)>> ELSE <<Ctx(<< >>), Leak>>
  <1>1. left \in 0..SIZE_MEM_BUFFER
    BY AllocateOne, LeftFits DEF IInv
  <1>2. heap' \in Seq(Chunk)
    <2>1. << >> \in Transcript
      BY DEF Transcript
    <2>2. Ctx(<< >>) \in Chunk /\ Leak \in Chunk
      BY <2>1, ContextType DEF Leak, Chunk
    <2>3. more \in Seq(Chunk)
      BY <2>2
    <2>4. heap' = heap \o more
      BY DEF TypeHashLeaks
    <2> QED
      BY <2>3, <2>4, ConcatProperties DEF IInv, TypeOK
  <1>3. global_sha3' \in Transcript
    BY TypeHashToken DEF TypeHashLeaks, Transcript
  <1>4. TypeOK'
    BY <1>1, <1>2, <1>3 DEF IInv, TypeOK, TypeHashLeaks, Control, depth_count, array_depth_count
  <1>5. CurOK' /\ Balanced' /\ NoStrayContext'
    BY DEF TypeHashLeaks, CurOK, Balanced, NoStrayContext
  <1> QED
    BY <1>4, <1>5 DEF IInv

LEMMA EnterStructFailsStep == ASSUME IInv, EnterStructFails, UNCHANGED fh PROVE IInv'
  <1> DEFINE s == cur.typename
             idx == mem_idx + CTX_SIZE
  <1>1. cur \in Fields /\ s \in StructNames
    BY SchemaClosed DEF IInv, CurOK, EnterStructFails, Running
  <1>2. CASE ~CanAlloc(mem_idx, CTX_SIZE)
    <2>1. dropped' = TRUE /\ ctl' = "ready" /\ cur' = NULL /\ UNCHANGED <<status, memVars, pathVars>>
      BY <1>2 DEF EnterStructFails
    <2>2. TypeOK'
      BY <2>1 DEF IInv, TypeOK, memVars, pathVars, Control, depth_count, array_depth_count
    <2>3. CurOK' /\ Balanced' /\ NoStrayContext'
      BY <2>1 DEF CurOK, Balanced, NoStrayContext
    <2> QED
      BY <2>2, <2>3 DEF IInv
  <1>3. CASE CanAlloc(mem_idx, CTX_SIZE) /\ TypeHashResult(s, idx) = "stray"
    BY <1>3, StrayStep DEF EnterStructFails
  <1>4. CASE CanAlloc(mem_idx, CTX_SIZE) /\ TypeHashResult(s, idx) # "stray"
    <2>1. TypeHashLeaks(s, idx) /\ UNCHANGED root
      BY <1>4 DEF EnterStructFails
    <2> QED
      BY <1>1, <1>4, <2>1, TypeHashLeaksStep DEF IInv, TypeOK
  <1> QED
    BY <1>2, <1>3, <1>4

-----------------------------------------------------------------------------

LEMMA SetRootStep ==
    ASSUME IInv, NEW name, path_set_root(name), UNCHANGED fh
    PROVE  IInv'
  <1> DEFINE s == get_structn(name)
             idx == mem_idx + CTX_SIZE
             result == TypeHashResult(s, idx)
  <1>1. s \in StructNames \cup {NULL} /\ root' = s
    BY DEF path_set_root, get_structn
  <1>2. CASE s = NULL \/ ~CanAlloc(mem_idx, CTX_SIZE)
    <2>1. /\ dropped' = TRUE
          /\ UNCHANGED <<status, ctl, cur, memVars, depths, arrays, base, digests>>
      BY <1>2 DEF path_set_root
    <2>2. TypeOK'
      BY <1>1, <2>1 DEF IInv, TypeOK, memVars, depth_count, array_depth_count
    <2>3. CurOK' /\ Balanced' /\ NoStrayContext'
      BY <2>1 DEF IInv, CurOK, Balanced, NoStrayContext
    <2> QED
      BY <2>2, <2>3 DEF IInv
  <1>3. CASE ~(s = NULL \/ ~CanAlloc(mem_idx, CTX_SIZE)) /\ result = "stray"
    <2>1. /\ status' = "stray_mem"
          /\ UNCHANGED <<ctl, cur, memVars, depths, arrays, base, digests, dropped>>
      BY <1>3 DEF path_set_root
    <2>2. TypeOK'
      BY <1>1, <2>1 DEF IInv, TypeOK, memVars, depth_count, array_depth_count
    <2>3. Balanced'
      BY <2>1, SameStack DEF memVars, depth_count, array_depth_count
    <2>4. CurOK' /\ NoStrayContext'
      BY <2>1 DEF IInv, CurOK, NoStrayContext
    <2> QED
      BY <2>2, <2>3, <2>4 DEF IInv
  <1>4. CASE ~(s = NULL \/ ~CanAlloc(mem_idx, CTX_SIZE)) /\ result = "null"
    <2>1. TypeHashLeaks(s, idx)
      BY <1>4 DEF path_set_root
    <2> QED
      BY <1>1, <1>4, <2>1, TypeHashLeaksStep
  <1>5. CASE ~(s = NULL \/ ~CanAlloc(mem_idx, CTX_SIZE)) /\ result \notin {"stray", "null"}
    <2>1. /\ mem_idx' = idx
          /\ heap' = Append(heap, Ctx(<<type_hash(s, idx)>>))
          /\ global_sha3' = <<type_hash(s, idx), Final>>
          /\ depths' = <<0>>
          /\ arrays' = << >>
          /\ base' = Len(heap)
          /\ ctl' = "update"
          /\ UNCHANGED <<status, cur, digests, dropped>>
      BY <1>5 DEF path_set_root
    <2>2. s \in StructNames /\ idx \in 0..SIZE_MEM_BUFFER
      BY <1>1, <1>5, AllocateOne DEF IInv
    <2>3. /\ heap' \in Seq(Chunk)
          /\ Len(heap') = Len(heap) + 1
          /\ AllContexts(heap) => AllContexts(heap')
          /\ global_sha3' \in Transcript
      BY <2>1, <2>2, TypeHashToken, ContextOnTop DEF IInv, TypeOK
    <2>4. depths' \in Seq(Byte) /\ Len(depths') = 1 /\ arrays' \in Seq(ArrayDepth) /\ Len(arrays') = 0
      BY <2>1 DEF Byte
    <2>5. Len(heap) \in Nat
      BY LenProperties DEF IInv, TypeOK
    <2>6. TypeOK'
      BY <1>1, <2>1, <2>2, <2>3, <2>4, <2>5, PathAssumption
      DEF IInv, TypeOK, Control, depth_count, array_depth_count
    <2>7. CurOK' /\ NoStrayContext'
      BY <2>1 DEF IInv, CurOK, NoStrayContext
    <2>8. Balanced'
      <3>1. SUFFICES ASSUME ~dropped
                     PROVE  /\ Len(heap') = Len(heap) + 1
                            /\ AllContexts(heap')
                            /\ mem_idx' = DefsEnd + CTX_SIZE * Len(heap')
        BY <2>1, <2>4, <2>5 DEF Balanced, AllContexts, depth_count, array_depth_count
      <3>2. AllContexts(heap) /\ mem_idx = DefsEnd + CTX_SIZE * Len(heap)
        BY <3>1 DEF IInv, Balanced, AllContexts
      <3>3. mem_idx' = DefsEnd + CTX_SIZE * (Len(heap) + 1)
        BY <1>5, <2>1, <2>5, <3>2, AllocateOne DEF IInv
      <3> QED
        BY <2>3, <3>2, <3>3
    <2> QED
      BY <2>6, <2>7, <2>8 DEF IInv
  <1> QED
    BY <1>2, <1>3, <1>4, <1>5

(* Room for the array's context is made under the element's.               *)
LEMMA ArrayContextType ==
    ASSUME IInv, NEW field, IS_CUSTOM(field) => TopAreContexts(1)
    PROVE  /\ WithArrayContext(field) \in Seq(Chunk)
           /\ Len(WithArrayContext(field)) = Len(heap) + 1
           /\ AllContexts(heap) => AllContexts(WithArrayContext(field))
  <1>1. heap \in Seq(Chunk) /\ Len(heap) \in Nat /\ << >> \in Transcript
    BY LenProperties DEF IInv, TypeOK, Transcript
  <1>2. CASE ~IS_CUSTOM(field)
    BY <1>1, <1>2, ContextOnTop DEF WithArrayContext
  <1>3. CASE IS_CUSTOM(field)
    <2> DEFINE below == [heap EXCEPT ![Len(heap)] = Ctx(<< >>)]
    <2>1. Len(heap) \in 1..Len(heap) /\ heap # << >>
      BY <1>1, <1>3, EmptySeq DEF TopAreContexts
    <2>2. Top \in Chunk /\ Top.kind = "ctx"
      BY <1>1, <1>3, <2>1, TopType DEF TopAreContexts, Top
    <2>3. Ctx(<< >>) \in Chunk /\ Ctx(<< >>).kind = "ctx"
      BY <1>1, ContextType
    <2>4. below \in Seq(Chunk) /\ Len(below) = Len(heap)
          /\ (AllContexts(heap) => AllContexts(below))
      BY <1>1, <2>1, <2>3, ExceptSeq DEF AllContexts
    <2>5. WithArrayContext(field) = Append(below, Top)
      BY <1>3 DEF WithArrayContext
    <2> HIDE DEF below
    <2>6. /\ Append(below, Top) \in Seq(Chunk)
          /\ Len(Append(below, Top)) = Len(below) + 1
          /\ \A i \in 1..Len(below) : Append(below, Top)[i] = below[i]
          /\ Append(below, Top)[Len(below) + 1] = Top
      BY <2>2, <2>4, AppendProperties
    <2>7. ASSUME AllContexts(heap) PROVE AllContexts(Append(below, Top))
      BY <1>1, <2>2, <2>4, <2>6, <2>7 DEF AllContexts
    <2> QED
      BY <2>4, <2>5, <2>6, <2>7
  <1> QED
    BY <1>2, <1>3

LEMMA OpenArrayStep ==
    ASSUME IInv, NEW n \in 1..depth_count, NEW size \in Byte, OpenArray(n, size),
           Running("ready"), UNCHANGED fh
    PROVE  IInv'
  <1> DEFINE field == get_nth_field_from_path(n)
             refused == ~SizeAgrees(LevelToOpen(n), size) \/ array_depth_count = MAX_ARRAY_DEPTH
             stray == CanAlloc(mem_idx, CTX_SIZE) /\ IS_CUSTOM(field) /\ ~TopAreContexts(1)
  <1>1. /\ depth_count \in Nat /\ depth_count <= MAX_PATH_DEPTH
        /\ array_depth_count \in Nat /\ array_depth_count <= MAX_ARRAY_DEPTH
        /\ arrays \in Seq(ArrayDepth) /\ Len(heap) \in Nat /\ base \in Nat
    BY LenProperties DEF IInv, TypeOK, depth_count, array_depth_count
  <1>2. CASE refused
    BY <1>2, QuietStep DEF OpenArray, IInv, TypeOK, CurOK, memVars
  <1>3. CASE ~refused /\ stray
    <2>1. dropped
      BY <1>1, <1>3, ContextsThere
    <2> QED
      BY <1>3, <2>1, StrayStep DEF OpenArray
  <1>4. CASE ~refused /\ ~stray
    <2>1. /\ arrays' = Append(arrays, [path_index |-> n - 1, size |-> size])
          /\ IF CanAlloc(mem_idx, CTX_SIZE)
             THEN /\ mem_idx' = mem_idx + CTX_SIZE
                  /\ heap' = WithArrayContext(field)
                  /\ dropped' = dropped
             ELSE /\ dropped' = TRUE
                  /\ UNCHANGED <<mem_idx, heap>>
          /\ UNCHANGED <<status, ctl, cur, global_sha3, root, depths, base, digests>>
      BY <1>4 DEF OpenArray
    <2>2. [path_index |-> n - 1, size |-> size] \in ArrayDepth
      BY <1>1, PathAssumption DEF ArrayDepth, Byte
    <2>3. arrays' \in Seq(ArrayDepth) /\ Len(arrays') = array_depth_count + 1
      BY <1>1, <2>1, <2>2, AppendProperties DEF array_depth_count
    <2>4. array_depth_count + 1 <= MAX_ARRAY_DEPTH
      BY <1>1, <1>4, PathAssumption
    <2>5. CASE CanAlloc(mem_idx, CTX_SIZE)
      <3>1. /\ heap' \in Seq(Chunk)
            /\ Len(heap') = Len(heap) + 1
            /\ AllContexts(heap) => AllContexts(heap')
        BY <1>4, <2>1, <2>5, ArrayContextType
      <3>2. mem_idx' \in 0..SIZE_MEM_BUFFER
        BY <2>1, <2>5, AllocateOne DEF IInv
      <3>3. TypeOK'
        BY <2>1, <2>3, <2>4, <2>5, <3>1, <3>2 DEF IInv, TypeOK, depth_count, array_depth_count
      <3>4. CurOK' /\ NoStrayContext'
        BY <2>1, <2>5 DEF IInv, CurOK, NoStrayContext
      <3>5. Balanced'
        <4>1. SUFFICES ASSUME ~dropped
                       PROVE  /\ Len(heap') = base + depth_count + Len(arrays')
                              /\ AllContexts(heap')
                              /\ mem_idx' = DefsEnd + CTX_SIZE * Len(heap')
          BY <2>1, <2>5 DEF Balanced, AllContexts, depth_count, array_depth_count
        <4>2. /\ Len(heap) = base + depth_count + array_depth_count
              /\ AllContexts(heap)
              /\ mem_idx = DefsEnd + CTX_SIZE * Len(heap)
          BY <4>1 DEF IInv, Balanced, AllContexts
        <4>3. mem_idx' = DefsEnd + CTX_SIZE * (Len(heap) + 1)
          BY <1>1, <2>1, <2>5, <4>2, AllocateOne DEF IInv
        <4> QED
          BY <1>1, <2>3, <3>1, <4>2, <4>3
      <3> QED
        BY <3>3, <3>4, <3>5 DEF IInv
    <2>6. CASE ~CanAlloc(mem_idx, CTX_SIZE)
      <3>1. TypeOK'
        BY <2>1, <2>3, <2>4, <2>6 DEF IInv, TypeOK, depth_count, array_depth_count
      <3>2. CurOK' /\ Balanced' /\ NoStrayContext'
        BY <2>1, <2>6 DEF IInv, CurOK, Balanced, NoStrayContext
      <3> QED
        BY <3>1, <3>2 DEF IInv
    <2> QED
      BY <2>5, <2>6
  <1> QED
    BY <1>2, <1>3, <1>4

LEMMA NewArrayStep ==
    ASSUME IInv, NEW size \in Byte, path_new_array_depth(size), UNCHANGED fh
    PROVE  IInv'
  <1>1. CASE \E n \in 1..depth_count : FirstToOpen(n) /\ OpenArray(n, size)
    <2>1. PICK n \in 1..depth_count : OpenArray(n, size)
      BY <1>1
    <2> QED
      BY <2>1, OpenArrayStep DEF path_new_array_depth
  <1>2. CASE IF \E n \in 1..depth_count : get_nth_field_from_path(n) = PastEnd
             THEN Stray("stray_field")
             ELSE UNCHANGED <<status, ctl, cur, memVars, pathVars, dropped>>
    <2>1. CASE Stray("stray_field")
      BY <2>1, StrayStep
    <2>2. CASE UNCHANGED <<status, ctl, cur, memVars, pathVars, dropped>>
      BY <2>2, QuietStep DEF IInv, TypeOK, CurOK, memVars
    <2> QED
      BY <1>2, <2>1, <2>2
  <1> QED
    BY <1>1, <1>2 DEF path_new_array_depth

-----------------------------------------------------------------------------

(* A packet: its bytes, and how many are still to come after it.           *)
LEMMA PacketType ==
    ASSUME IInv, NEW data \in Seq(Byte), fh.state = "idle" => Len(data) >= 2
    PROVE  /\ Content(data) \in Seq(Byte)
           /\ Remaining(data) \in Uint16
           /\ Progress(data) \in Transcript
  <1>1. Len(data) \in Nat /\ \A i \in 1..Len(data) : data[i] \in Byte
    BY LenProperties, ElementOfSeq
  <1>2. Content(data) \in Seq(Byte)
    <2>1. SubSeq(data, 3, Len(data)) \in Seq(Byte)
      BY <1>1, SubSeqProperties
    <2> QED
      BY <2>1 DEF Content
  <1>3. Len(Content(data)) \in Nat
    BY <1>2, LenProperties
  <1>4. Remaining(data) \in Uint16
    <2> DEFINE expected == IF fh.state = "idle" THEN 256 * data[1] + data[2] ELSE fh.remaining_size
    <2>1. expected \in Int
      <3>1. CASE fh.state = "idle"
        <4>1. 1 \in 1..Len(data) /\ 2 \in 1..Len(data)
          BY <1>1, <3>1
        <4>2. data[1] \in Byte /\ data[2] \in Byte
          BY <1>1, <4>1
        <4>3. data[1] \in Int /\ data[2] \in Int
          <5>1. Byte \subseteq Int
            BY DEF Byte
          <5> QED
            BY <4>2, <5>1
        <4>4. 256 * data[1] + data[2] \in Int
          BY <4>3, BigEndian
        <4> QED
          BY <3>1, <4>4
      <3>2. CASE fh.state # "idle"
        <4>1. fh \in FieldHashing
          BY DEF IInv, TypeOK
        <4>2. fh.remaining_size \in Uint16
          BY <4>1 DEF FieldHashing
        <4>3. Uint16 \subseteq Int
          BY DEF Uint16
        <4> QED
          BY <3>2, <4>2, <4>3
      <3> QED
        BY <3>1, <3>2
    <2>2. 256 * 256 \in Nat \ {0}
      OBVIOUS
    <2> HIDE DEF expected
    <2>3. expected - Len(Content(data)) \in Int
      BY <1>3, <2>1
    <2>4. (expected - Len(Content(data))) % (256 * 256) \in 0..(256 * 256 - 1)
      BY <2>2, <2>3, ModuloBounds, ZenonT(30)
    <2> QED
      BY <2>4 DEF Remaining, Uint16, expected
  <1>5. AsTokens(Content(data)) \in Transcript
    <2>1. \A i \in 1..Len(Content(data)) : <<"byte", Content(data)[i]>> \in Token
      BY <1>2, ElementOfSeq DEF Token
    <2> QED
      BY <1>3, <2>1, IsASeq DEF AsTokens, Transcript
  <1>6. Progress(data) \in Transcript
    <2>1. (IF fh.state = "idle" THEN << >> ELSE global_sha3) \in Transcript
      BY DEF IInv, TypeOK, Transcript
    <2> QED
      BY <1>5, <2>1, ConcatProperties DEF Progress, Transcript
  <1> QED
    BY <1>2, <1>4, <1>6

(* The encoding of a static value is one token.                            *)
LEMMA EncodedType ==
    ASSUME NEW type, NEW value \in Seq(Byte)
    PROVE  <<Encoded(type, value)>> \in Transcript
  <1>1. ENC_SIZE \in Nat /\ Len(value) \in Nat /\ 0 \in Byte
        /\ \A i \in 1..Len(value) : value[i] \in Byte
    BY EncodingAssumption, LenProperties, ElementOfSeq, SMTT(30) DEF Byte
  <1>2. PaddedLeft(value) \in Seq(Byte)
    <2> DEFINE at(i) == IF i <= ENC_SIZE - Len(value) THEN 0 ELSE value[i - (ENC_SIZE - Len(value))]
    <2>1. ASSUME NEW i \in 1..ENC_SIZE PROVE at(i) \in Byte
      BY <1>1
    <2>2. [i \in 1..ENC_SIZE |-> at(i)] \in Seq(Byte)
      BY <1>1, <2>1, IsASeq
    <2> QED
      BY <2>2 DEF PaddedLeft
  <1>3. PaddedRight(value) \in Seq(Byte)
    <2> DEFINE at(i) == IF i <= Len(value) THEN value[i] ELSE 0
    <2>1. ASSUME NEW i \in 1..ENC_SIZE PROVE at(i) \in Byte
      BY <1>1
    <2>2. [i \in 1..ENC_SIZE |-> at(i)] \in Seq(Byte)
      BY <1>1, <2>1, IsASeq
    <2> QED
      BY <2>2 DEF PaddedRight
  <1>4. Encoded(type, value) \in Token
    BY <1>2, <1>3 DEF Encoded, Token
  <1> QED
    BY <1>4 DEF Transcript

LEMMA KeepWaitingStep ==
    ASSUME IInv, NEW data \in Seq(Byte), NEW partial \in BOOLEAN, NEW field,
           Running("ready"), fh.state = "idle" => Len(data) >= 2,
           KeepWaiting(field, data, partial)
    PROVE  IInv'
  <1>1. Remaining(data) \in Uint16 /\ Progress(data) \in Transcript
    BY PacketType
  <1>2. fh' \in FieldHashing /\ global_sha3' \in Transcript
    BY <1>1 DEF KeepWaiting, Receive, FieldHashing, IInv, TypeOK
  <1> QED
    BY <1>2, QuietStep DEF KeepWaiting, IInv, TypeOK, CurOK

(* A value belongs to a field, a field is on a path, and a path stands for *)
(* a context to absorb the value.                                          *)
LEMMA FinishValueStep ==
    ASSUME IInv, NEW data \in Seq(Byte), NEW partial \in BOOLEAN,
           fh.state = "idle" => Len(data) >= 2,
           path_get_field \in Fields, FinishValue(path_get_field, data, partial)
    PROVE  IInv'
  <1> DEFINE type == path_get_field.type
             value == IF IS_DYN(type)
                      THEN Keccak(Progress(data))
                      ELSE <<Encoded(type, Content(data))>>
  <1>1. depth_count \in Nat /\ depth_count > 0 /\ array_depth_count \in Nat
    BY PathAssumption, LenProperties
    DEF IInv, TypeOK, path_get_field, get_nth_field_from_path, depth_count, array_depth_count
  <1>2. value \in Transcript
    BY PacketType, KeccakType, EncodedType
  <1>3. CASE ~TopAreContexts(1)
    <2>1. dropped
      BY <1>1, <1>3, ContextsThere
    <2> QED
      BY <1>3, <2>1, StrayStep DEF FinishValue
  <1>4. CASE TopAreContexts(1)
    <2>1. /\ heap' = Absorbed(heap, value)
          /\ global_sha3' = IF IS_DYN(type) THEN Append(Progress(data), Final) ELSE global_sha3
          /\ fh' = [state |-> "idle", remaining_size |-> 0]
          /\ ctl' = "array"
          /\ UNCHANGED <<status, cur, mem_idx, pathVars, dropped>>
      BY <1>4 DEF FinishValue
    <2>2. /\ heap' \in Seq(Chunk)
          /\ Len(heap') = Len(heap)
          /\ AllContexts(heap) => AllContexts(heap')
      <3>1. heap \in Seq(Chunk) /\ heap # << >>
        BY <1>4, EmptySeq DEF IInv, TypeOK, TopAreContexts
      <3> QED
        BY <1>2, <2>1, <3>1, AbsorbType
    <2>3. global_sha3' \in Transcript
      <3>1. Final \in Token /\ Progress(data) \in Transcript
        BY PacketType DEF Token
      <3> QED
        BY <2>1, <3>1, AppendProperties DEF IInv, TypeOK, Transcript
    <2>4. fh' \in FieldHashing
      BY <2>1 DEF FieldHashing, Uint16
    <2>5. TypeOK'
      BY <2>1, <2>2, <2>3, <2>4 DEF IInv, TypeOK, pathVars, Control, depth_count, array_depth_count
    <2>6. CurOK' /\ NoStrayContext'
      BY <2>1 DEF IInv, CurOK, NoStrayContext
    <2>7. Balanced'
      BY <2>1, <2>2 DEF IInv, Balanced, AllContexts, pathVars, depth_count, array_depth_count
    <2> QED
      BY <2>5, <2>6, <2>7 DEF IInv
  <1> QED
    BY <1>3, <1>4

LEMMA FieldHashStep ==
    ASSUME IInv, NEW data \in Seq(Byte), NEW partial \in BOOLEAN, field_hash(data, partial)
    PROVE  IInv'
  <1>1. CASE NoField /\ path_get_field = NULL
    BY <1>1, QuietStep DEF NoField, IInv, TypeOK, CurOK, memVars
  <1>2. CASE NoField /\ path_get_field # NULL
    BY <1>2, StrayStep DEF NoField
  <1>3. CASE KeepWaiting(path_get_field, data, partial)
    BY <1>3, KeepWaitingStep DEF field_hash
  <1>4. CASE path_get_field \in Fields /\ FinishValue(path_get_field, data, partial)
    BY <1>4, FinishValueStep DEF field_hash
  <1> QED
    BY <1>1, <1>2, <1>3, <1>4 DEF field_hash

-----------------------------------------------------------------------------

LEMMA InitInv == Init => IInv
  <1> SUFFICES ASSUME Init PROVE IInv
    OBVIOUS
  <1>1. depth_count = 0 /\ array_depth_count = 0 /\ Len(heap) = 0
    BY DEF Init, PathInit, depth_count, array_depth_count
  <1>2. TypeOK
    <2>1. fh \in FieldHashing
      BY DEF Init, FieldHashInit, FieldHashing, Uint16
    <2>2. << >> \in Transcript /\ DefsEnd \in 0..SIZE_MEM_BUFFER
      BY MemoryAssumption DEF Transcript
    <2>3. 0 <= MAX_PATH_DEPTH /\ 0 <= MAX_ARRAY_DEPTH
      BY PathAssumption
    <2>4. /\ ctl \in Control /\ cur \in Fields \cup {NULL} /\ root \in StructNames \cup {NULL}
          /\ base \in Nat /\ dropped \in BOOLEAN /\ status = "run"
      BY DEF Init, PathInit, Control
    <2>5. /\ heap \in Seq(Chunk) /\ depths \in Seq(Byte) /\ arrays \in Seq(ArrayDepth)
          /\ digests \in Seq(Transcript)
      BY DEF Init, PathInit
    <2> QED
      BY <1>1, <2>1, <2>2, <2>3, <2>4, <2>5 DEF Init, TypeOK
  <1>3. CurOK /\ NoStrayContext
    BY DEF Init, PathInit, CurOK, NoStrayContext
  <1>4. DefsEnd = DefsEnd + CTX_SIZE * 0
    BY MemoryAssumption
  <1>5. Balanced
    BY <1>1, <1>4 DEF Init, PathInit, Balanced
  <1> QED
    BY <1>2, <1>3, <1>5 DEF IInv

LEMMA NextInv == IInv /\ [Next]_vars => IInv'
  <1> SUFFICES ASSUME IInv, [Next]_vars PROVE IInv'
    OBVIOUS
  <1>1. CASE UNCHANGED vars
    BY <1>1 DEF vars, IInv, TypeOK, CurOK, Balanced, NoStrayContext, depth_count, array_depth_count
  <1>2. CASE Continue
    <2>1. UNCHANGED fh
      BY <1>2 DEF Continue
    <2>2. CASE NextElement
      BY <2>1, <2>2, NextElementStep
    <2>3. CASE EndArray
      BY <2>1, <2>3, EndArrayStep
    <2>4. CASE LeaveArrays
      BY <2>1, <2>4, LeaveArraysStep
    <2>5. CASE NextMember
      BY <2>1, <2>5, NextMemberStep
    <2>6. CASE EndStruct
      BY <2>1, <2>6, EndStructStep
    <2>7. CASE NoMember
      BY <2>1, <2>7, NoMemberStep
    <2>8. CASE UpdatePath
      BY <2>1, <2>8, UpdatePathStep
    <2>9. CASE PathUpdated
      BY <2>1, <2>9, PathUpdatedStep
    <2>10. CASE EnterStruct
      BY <2>1, <2>10, EnterStructStep
    <2>11. CASE EnterStructFails
      BY <2>1, <2>11, EnterStructFailsStep
    <2> QED
      BY <1>2, <2>2, <2>3, <2>4, <2>5, <2>6, <2>7, <2>8, <2>9, <2>10, <2>11 DEF Continue, PathStep
  <1>3. ASSUME NEW apdu \in APDU, StructImplName(apdu) PROVE IInv'
    BY <1>3, SetRootStep DEF StructImplName
  <1>4. ASSUME NEW apdu \in APDU, StructImplField(apdu) PROVE IInv'
    <2>1. apdu.data \in Seq(Byte) /\ apdu.partial \in BOOLEAN
      BY <1>4, HostAssumption DEF APDU, StructImplField
    <2> QED
      BY <1>4, <2>1, FieldHashStep DEF StructImplField
  <1>5. ASSUME NEW apdu \in APDU, StructImplArray(apdu) PROVE IInv'
    <2>1. apdu.size \in Byte
      BY <1>5, HostAssumption DEF APDU, StructImplArray
    <2> QED
      BY <1>5, <2>1, NewArrayStep DEF StructImplArray
  <1>6. ASSUME NEW apdu \in APDU, Unknown(apdu) PROVE IInv'
    BY <1>6, QuietStep DEF Unknown, IInv, TypeOK, CurOK, memVars
  <1> QED
    BY <1>1, <1>2, <1>3, <1>4, <1>5, <1>6 DEF Next, handle_apdu

LEMMA Inductive == Spec => []IInv
  BY InitInv, NextInv, PTL DEF Spec

(* Whatever APDUs arrive, the memory index, the path, the open arrays and  *)
(* the field hash stay within their types and tables.                      *)
THEOREM TypeCorrect == Spec => []TypeOK
  <1>1. IInv => TypeOK
    BY DEF IInv
  <1> QED
    BY <1>1, Inductive, PTL

(* As long as no failure has been ignored, the memory above the type       *)
(* definitions is one hash context per struct and open array of the path,  *)
(* and mem_idx accounts for every byte of them.                            *)
THEOREM ContextsBalanced == Spec => []Balanced
  <1>1. IInv => Balanced
    BY DEF IInv
  <1> QED
    BY <1>1, Inductive, PTL

(* cx_hash() and the releases that address memory from its used end only   *)
(* ever find a hash context there, until a failure has been ignored.       *)
THEOREM OnlyContextsAddressed == Spec => []NoStrayContext
  <1>1. IInv => NoStrayContext
    BY DEF IInv
  <1> QED
    BY <1>1, Inductive, PTL

-----------------------------------------------------------------------------

WalkStart(top) == [struct |-> top, field |-> NULL]

(* One level down, the index there being at.                               *)
WalkStep(above, at, n) ==
    LET fields == Structs[above.struct]
    IN  IF n > 1 /\ above.field \in {NULL, PastEnd} THEN above
        ELSE IF above.struct = NULL                 THEN [above EXCEPT !.field = PastEnd]
        ELSE IF at > Len(fields)                    THEN [above EXCEPT !.field = NULL]
        ELSE IF at = Len(fields)                    THEN [above EXCEPT !.field = PastEnd]
        ELSE [struct |-> IF IS_CUSTOM(fields[at + 1])
                         THEN get_structn(fields[at + 1].typename)
                         ELSE above.struct,
              field |-> fields[at + 1]]

LevelStep(total, field, n) == (total + Len(field.lvls)) % 256

Walks == INSTANCE Recursion WITH Step <- WalkStep
Counts == INSTANCE Recursion WITH Step <- LevelStep

IsWalk(W, top, path) == Walks!IsRun(W, WalkStart(top), path)
IsLevels(L, W) == Counts!IsRun(L, 0, [n \in Nat |-> W[n].field])

-----------------------------------------------------------------------------

LEMMA WalkIsWalk == IsWalk(Walk, root, depths)
  <1>1. \E W : Walks!IsRun(W, WalkStart(root), depths)
    BY Walks!RunExists
  <1>2. Walk = CHOOSE W : Walks!IsRun(W, WalkStart(root), depths)
    BY DEF Walk, Walks!IsRun, WalkStart, WalkStep
  <1> QED
    BY <1>1, <1>2 DEF IsWalk

LEMMA NextWalkIsWalk == IsWalk(Walk', root', depths')
  <1>1. \E W : Walks!IsRun(W, WalkStart(root'), depths')
    BY Walks!RunExists
  <1>2. Walk' = CHOOSE W : Walks!IsRun(W, WalkStart(root'), depths')
    BY DEF Walk, Walks!IsRun, WalkStart, WalkStep
  <1> QED
    BY <1>1, <1>2 DEF IsWalk

LEMMA WalkUnfolds ==
    ASSUME NEW W, NEW top, NEW path, IsWalk(W, top, path)
    PROVE  /\ W[0] = WalkStart(top)
           /\ \A n \in Nat \ {0} : W[n] = WalkStep(W[n - 1], path[n], n)
  <1>1. W = [n \in Nat |-> IF n = 0 THEN WalkStart(top) ELSE WalkStep(W[n - 1], path[n], n)]
    BY DEF IsWalk, Walks!IsRun
  <1> QED
    BY <1>1

LEMMA SamePrefix ==
    ASSUME NEW W, NEW V, NEW top, NEW path, NEW other, NEW m \in Nat,
           IsWalk(W, top, path), IsWalk(V, top, other),
           \A n \in 1..m : path[n] = other[n]
    PROVE  \A n \in 0..m : W[n] = V[n]
  <1>1. Walks!RunsTo(W, WalkStart(top), path, m)
    BY WalkUnfolds DEF Walks!RunsTo
  <1>2. Walks!RunsTo(V, WalkStart(top), other, m)
    BY WalkUnfolds DEF Walks!RunsTo
  <1> QED
    BY <1>1, <1>2, Walks!SameRun

-----------------------------------------------------------------------------

(* The equation LevelsUpTo solves, over what the walk finds.               *)
LevelsEquation(L, W) ==
    L = [n \in Nat |-> IF n = 0 THEN 0
                       ELSE (L[n - 1] + Len((IF n = 0 THEN NULL ELSE W[n].field).lvls)) % 256]

LEMMA LevelsExist == ASSUME NEW W PROVE \E L : LevelsEquation(L, W)
  <1>1. PICK L : Counts!IsRun(L, 0, [n \in Nat |-> W[n].field])
    BY Counts!RunExists
  <1>2. LevelsEquation(L, W)
    BY <1>1 DEF LevelsEquation, Counts!IsRun, LevelStep
  <1> QED
    BY <1>2

LEMMA EquationIsLevels ==
    ASSUME NEW W, NEW L, LevelsEquation(L, W)
    PROVE  IsLevels(L, W)
  BY DEF LevelsEquation, IsLevels, Counts!IsRun, LevelStep

LEMMA LevelsAreLevels == IsLevels(LevelsUpTo, Walk)
  <1>1. LevelsUpTo = CHOOSE L : LevelsEquation(L, Walk)
    BY DEF LevelsUpTo, LevelsEquation, get_nth_field_from_path
  <1> QED
    BY <1>1, LevelsExist, EquationIsLevels

LEMMA NextLevelsAreLevels == IsLevels(LevelsUpTo', Walk')
  <1>1. LevelsUpTo' = CHOOSE L : LevelsEquation(L, Walk')
    BY DEF LevelsUpTo, LevelsEquation, get_nth_field_from_path
  <1> QED
    BY <1>1, LevelsExist, EquationIsLevels

LEMMA LevelsUnfold ==
    ASSUME NEW L, NEW W, IsLevels(L, W)
    PROVE  /\ L[0] = 0
           /\ \A n \in Nat \ {0} : L[n] = (L[n - 1] + Len(W[n].field.lvls)) % 256
  BY DEF IsLevels, Counts!IsRun, LevelStep

LEMMA SameLevels ==
    ASSUME NEW L, NEW M, NEW W, NEW V, NEW m \in Nat, IsLevels(L, W), IsLevels(M, V),
           \A n \in 1..m : W[n] = V[n]
    PROVE  \A n \in 0..m : L[n] = M[n]
  <1> DEFINE in == [n \in Nat |-> W[n].field]
             out == [n \in Nat |-> V[n].field]
  <1>1. /\ Counts!RunsTo(L, 0, in, m)
        /\ Counts!RunsTo(M, 0, out, m)
    BY LevelsUnfold DEF Counts!RunsTo, LevelStep
  <1>2. \A n \in 1..m : in[n] = out[n]
    OBVIOUS
  <1> HIDE DEF in, out
  <1> QED
    BY <1>1, <1>2, Counts!SameRun

-----------------------------------------------------------------------------

(* The n-th index of the path is that of a field of the struct it is in.   *)
Member(W, path, n) ==
    /\ W[n - 1].struct \in StructNames
    /\ path[n] \in Nat
    /\ path[n] < Len(Structs[W[n - 1].struct])

(* ... and of one that is a struct itself, which the path goes on in.      *)
Entered(W, path, n) ==
    /\ Member(W, path, n)
    /\ W[n].field \in Fields
    /\ IS_CUSTOM(W[n].field)

(* The schema is closed: members are fields, and those that are structs    *)
(* have a definition.                                                      *)
LEMMA FieldFacts ==
    /\ \A s \in StructNames : Len(Structs[s]) \in Byte
    /\ \A s \in StructNames : \A i \in 1..Len(Structs[s]) : Structs[s][i] \in Fields
    /\ \A f \in Fields : IS_CUSTOM(f) => f.typename \in StructNames
    /\ \A f \in Fields : f.lvls \in Seq(ArrayLevel) /\ Len(f.lvls) \in Nat
    /\ NULL \notin Fields /\ PastEnd \notin Fields /\ PastEnd # NULL
    /\ NULL \notin StructNames
  <1>1. ASSUME NEW s \in StructNames, NEW i \in 1..Len(Structs[s])
        PROVE  Structs[s][i] \in Fields
    <2>1. Structs[s] \in Seq(Field)
      BY SchemaAssumption
    <2>2. i \in DOMAIN Structs[s] /\ Structs[s][i] \in Field
      BY <2>1, LenProperties, ElementOfSeq
    <2> QED
      BY <2>2 DEF Fields
  <1>2. ASSUME NEW f \in Fields, IS_CUSTOM(f) PROVE f.typename \in StructNames
    BY <1>2, SchemaAssumption DEF Fields, IS_CUSTOM
  <1>3. ASSUME NEW f \in Fields PROVE f.lvls \in Seq(ArrayLevel) /\ Len(f.lvls) \in Nat
    BY LenProperties DEF Fields, Field
  <1> QED
    BY <1>1, <1>2, <1>3, SchemaAssumption, PathAssumption

LEMMA FieldCounts ==
    /\ \A s \in StructNames : Len(Structs[s]) \in Nat
    /\ NULL \notin StructNames
  <1>1. \A n \in Byte : n \in Nat
    BY DEF Byte
  <1> QED
    BY <1>1, FieldFacts, Zenon

LEMMA SomeField ==
    ASSUME NEW s \in StructNames, Structs[s] # << >>
    PROVE  0 < Len(Structs[s])
  <1>1. Structs[s] \in Seq(Field) /\ Len(Structs[s]) \in Nat
    BY SchemaAssumption, FieldCounts
  <1> QED
    BY <1>1, EmptySeq

LEMMA MemberField ==
    ASSUME NEW W, NEW top, NEW path, IsWalk(W, top, path), NEW n \in Nat \ {0},
           Member(W, path, n), n > 1 => W[n - 1].field \in Fields
    PROVE  LET f == Structs[W[n - 1].struct][path[n] + 1]
           IN  /\ f \in Fields
               /\ W[n] = [struct |-> IF IS_CUSTOM(f) THEN f.typename ELSE W[n - 1].struct,
                          field |-> f]
  <1> DEFINE above == W[n - 1]
             f == Structs[above.struct][path[n] + 1]
  <1>1. W[n] = WalkStep(above, path[n], n)
    BY WalkUnfolds
  <1>2. /\ above.struct \in StructNames /\ above.struct # NULL
        /\ path[n] \in Nat /\ Len(Structs[above.struct]) \in Nat
        /\ path[n] < Len(Structs[above.struct])
    <2>1. Member(W, path, n) /\ W[n - 1].struct \in StructNames
      BY DEF Member
    <2> HIDE DEF above
    <2> QED
      BY <2>1, FieldCounts DEF above, Member
  <1>3. f \in Fields
    <2>1. path[n] + 1 \in 1..Len(Structs[above.struct])
      BY <1>2
    <2> QED
      BY <1>2, <2>1, FieldFacts
  <1>4. ~(n > 1 /\ above.field \in {NULL, PastEnd})
    BY FieldFacts
  <1>5. W[n] = [struct |-> IF IS_CUSTOM(f) THEN get_structn(f.typename) ELSE above.struct,
                field |-> f]
    BY <1>1, <1>2, <1>4 DEF WalkStep
  <1>6. IS_CUSTOM(f) => get_structn(f.typename) = f.typename
    BY <1>3, FieldFacts DEF get_structn
  <1> QED
    BY <1>3, <1>5, <1>6

(* What lies after the last field of the root, when it has no field.       *)
LEMMA EmptyRootField ==
    ASSUME NEW W, NEW top \in StructNames, NEW path, IsWalk(W, top, path),
           Structs[top] = << >>, path[1] = 0
    PROVE  W[0].struct = top /\ W[1].field = PastEnd
  <1>1. W[0] = WalkStart(top) /\ W[1] = WalkStep(W[0], path[1], 1)
    BY WalkUnfolds
  <1>2. top # NULL /\ Len(Structs[top]) = 0
    BY SchemaAssumption
  <1> QED
    BY <1>1, <1>2 DEF WalkStart, WalkStep

LEMMA ByteSum ==
    ASSUME NEW x \in Nat, NEW y \in Nat
    PROVE  (x + y) % 256 \in 0..255 /\ (x + y) % 256 <= x + y
  OBVIOUS

LEMMA ByteValue ==
    ASSUME NEW x \in 0..255
    PROVE  x \in Nat /\ (x + 0) % 256 = x
  OBVIOUS

(* The count of levels stays in a byte, and a field adds no more than its  *)
(* own, whether or not the count wraps.                                    *)
LEMMA LevelsBounds ==
    ASSUME NEW L, NEW W, NEW m \in Nat, IsLevels(L, W),
           \A n \in 1..m : W[n].field \in Fields
    PROVE  /\ \A n \in 0..m : L[n] \in 0..255
           /\ \A n \in 1..m : L[n] <= L[n - 1] + Len(W[n].field.lvls)
           /\ \A n \in 1..m : W[n].field.lvls = << >> => L[n] = L[n - 1]
  <1> DEFINE S == {n \in Nat : n <= m => L[n] \in 0..255}
  <1>1. \A n \in 1..m : Len(W[n].field.lvls) \in Nat
    BY FieldFacts
  <1>2. 0 \in S
    BY LevelsUnfold
  <1>3. ASSUME NEW n \in S PROVE n + 1 \in S
    <2>1. n + 1 \in Nat \ {0} /\ n \in Nat /\ (n + 1) - 1 = n
      BY <1>3
    <2>2. ASSUME n + 1 <= m PROVE L[n + 1] \in 0..255
      <3>1. n \in 0..m /\ n + 1 \in 1..m /\ L[n] \in 0..255
        BY <1>3, <2>1, <2>2
      <3>2. L[n + 1] = (L[n] + Len(W[n + 1].field.lvls)) % 256
        BY <2>1, LevelsUnfold
      <3>3. L[n] \in Nat /\ Len(W[n + 1].field.lvls) \in Nat
        BY <1>1, <3>1, ByteValue
      <3>4. (L[n] + Len(W[n + 1].field.lvls)) % 256 \in 0..255
        BY <3>3, ByteSum, ZenonT(60)
      <3> QED
        BY <3>2, <3>4, Zenon
    <2> QED
      BY <2>1, <2>2
  <1> HIDE DEF S
  <1>4. S \in SUBSET Nat
    BY DEF S
  <1>5. S = Nat
    BY <1>2, <1>3, <1>4, Walks!SetInduction
  <1>6. \A n \in 0..m : L[n] \in 0..255
    BY <1>5 DEF S
  <1>7. ASSUME NEW n \in 1..m
        PROVE  /\ L[n] <= L[n - 1] + Len(W[n].field.lvls)
               /\ W[n].field.lvls = << >> => L[n] = L[n - 1]
    <2>1. n \in Nat \ {0} /\ n - 1 \in 0..m
      OBVIOUS
    <2>2. L[n] = (L[n - 1] + Len(W[n].field.lvls)) % 256
      BY <2>1, LevelsUnfold
    <2>3. L[n - 1] \in 0..255 /\ L[n - 1] \in Nat /\ Len(W[n].field.lvls) \in Nat
      BY <1>1, <1>6, <2>1, ByteValue
    <2>4. L[n] <= L[n - 1] + Len(W[n].field.lvls)
      BY <2>2, <2>3, ByteSum, ZenonT(60)
    <2>5. ASSUME W[n].field.lvls = << >> PROVE L[n] = L[n - 1]
      <3>1. Len(W[n].field.lvls) = 0
        BY <2>5
      <3> QED
        BY <2>2, <2>3, <3>1, ByteValue
    <2> QED
      BY <2>4, <2>5
  <1> QED
    BY <1>6, <1>7

-----------------------------------------------------------------------------

(* The first m indices of the path lead to a member.                       *)
Stands(W, path, m) ==
    /\ \A n \in 1..(m - 1) : Entered(W, path, n)
    /\ m > 0 => Member(W, path, m)

(* The open arrays are of the first m fields of the path, and the levels   *)
(* of the fields before that of the i-th do not reach i.                   *)
Spans(L, open, m) ==
    \A i \in 1..Len(open) :
        /\ open[i].path_index < m
        /\ \A n \in 0..open[i].path_index : L[n] < i
        /\ i <= L[open[i].path_index + 1]

Sound == status = "run" /\ ~dropped

OnEmptyRoot ==
    /\ ctl = "update"
    /\ depth_count = 1
    /\ root \in StructNames
    /\ Structs[root] = << >>
    /\ depths[1] = 0

PathInv ==
    Sound =>
        /\ Stands(Walk, depths, depth_count) \/ OnEmptyRoot
        /\ Spans(LevelsUpTo, arrays, IF ctl = "struct" THEN depth_count - 1 ELSE depth_count)
        /\ ctl = "ready" /\ depth_count > 0 => ~IS_CUSTOM(path_get_field)
        /\ ctl = "descend" => depth_count > 0 /\ cur = path_get_field

DInv == IInv /\ PathInv /\ OnlyEmptyStructsStray

-----------------------------------------------------------------------------

LEMMA StandsKept ==
    ASSUME NEW W, NEW V, NEW top, NEW path, NEW other, NEW m \in Nat,
           IsWalk(W, top, path), IsWalk(V, top, other),
           \A n \in 1..m : path[n] = other[n], Stands(W, path, m)
    PROVE  Stands(V, other, m)
  <1>1. \A n \in 0..m : W[n] = V[n]
    BY SamePrefix
  <1>2. \A n \in 1..m : n \in 0..m /\ n - 1 \in 0..m
    OBVIOUS
  <1>3. \A n \in 1..m : Member(W, path, n) => Member(V, other, n)
    BY <1>1, <1>2 DEF Member
  <1>4. \A n \in 1..m : Entered(W, path, n) => Entered(V, other, n)
    BY <1>1, <1>2, <1>3 DEF Entered
  <1>5. 1..(m - 1) \subseteq 1..m /\ (m > 0 => m \in 1..m)
    OBVIOUS
  <1> QED
    BY <1>3, <1>4, <1>5 DEF Stands

(* Every field on such a path is one of the schema.                        *)
LEMMA StandsFields ==
    ASSUME NEW W, NEW top, NEW path, NEW m \in Nat, IsWalk(W, top, path), Stands(W, path, m)
    PROVE  \A n \in 1..m :
               LET f == Structs[W[n - 1].struct][path[n] + 1]
               IN  /\ Member(W, path, n)
                   /\ f \in Fields
                   /\ W[n] = [struct |-> IF IS_CUSTOM(f) THEN f.typename ELSE W[n - 1].struct,
                              field |-> f]
                   /\ W[n].field \in Fields
  <1> TAKE n \in 1..m
  <1> DEFINE f == Structs[W[n - 1].struct][path[n] + 1]
  <1>1. n \in Nat \ {0} /\ (n = m \/ n \in 1..(m - 1)) /\ (n > 1 => n - 1 \in 1..(m - 1))
    OBVIOUS
  <1>2. Member(W, path, n)
    BY <1>1 DEF Stands, Entered
  <1>3. n > 1 => W[n - 1].field \in Fields
    BY <1>1 DEF Stands, Entered
  <1>4. /\ f \in Fields
        /\ W[n] = [struct |-> IF IS_CUSTOM(f) THEN f.typename ELSE W[n - 1].struct,
                   field |-> f]
    BY <1>1, <1>2, <1>3, MemberField, SMTT(30)
  <1> QED
    BY <1>2, <1>4

LEMMA PathIndex ==
    ASSUME NEW open \in Seq(ArrayDepth), NEW i \in 1..Len(open)
    PROVE  open[i].path_index \in Nat
  <1>1. open[i] \in ArrayDepth
    BY ElementOfSeq
  <1>2. open[i].path_index \in Byte
    BY <1>1 DEF ArrayDepth
  <1>3. Byte \subseteq Nat
    BY DEF Byte
  <1> QED
    BY <1>2, <1>3

LEMMA SpansKept ==
    ASSUME NEW L, NEW M, NEW m \in Int, NEW open \in Seq(ArrayDepth), Spans(L, open, m),
           \A n \in 0..m : L[n] = M[n]
    PROVE  Spans(M, open, m)
  <1> SUFFICES ASSUME NEW i \in 1..Len(open)
               PROVE  /\ open[i].path_index < m
                      /\ \A n \in 0..open[i].path_index : M[n] < i
                      /\ i <= M[open[i].path_index + 1]
    BY DEF Spans
  <1> DEFINE p == open[i].path_index
  <1>1. p \in Nat
    BY PathIndex
  <1>2. p < m /\ (\A n \in 0..p : L[n] < i) /\ i <= L[p + 1]
    BY DEF Spans
  <1>3. 0..p \subseteq 0..m /\ p + 1 \in 0..m
    BY <1>1, <1>2
  <1> QED
    BY <1>2, <1>3

LEMMA SpansSorted ==
    ASSUME NEW L, NEW m \in Int, NEW open \in Seq(ArrayDepth), Spans(L, open, m),
           \A n \in 0..m : L[n] \in Nat
    PROVE  \A i, j \in 1..Len(open) : i < j => open[i].path_index <= open[j].path_index
  <1> SUFFICES ASSUME NEW i \in 1..Len(open), NEW j \in 1..Len(open), i < j,
                      ~(open[i].path_index <= open[j].path_index)
               PROVE  FALSE
    OBVIOUS
  <1> DEFINE p == open[i].path_index
             q == open[j].path_index
  <1>1. p \in Nat /\ q \in Nat
    BY PathIndex
  <1>2. q + 1 \in 0..p /\ p < m
    BY <1>1 DEF Spans
  <1>3. L[q + 1] < i /\ j <= L[q + 1]
    BY <1>2 DEF Spans
  <1>4. L[q + 1] \in Nat
    BY <1>1, <1>2
  <1> HIDE DEF p, q
  <1> QED
    BY <1>3, <1>4

(* When the innermost array is not of the last field, none is.             *)
LEMMA SpansInner ==
    ASSUME NEW L, NEW m \in Int, NEW open \in Seq(ArrayDepth), Spans(L, open, m),
           \A n \in 0..m : L[n] \in Nat,
           Len(open) > 0 => open[Len(open)].path_index # m - 1
    PROVE  Spans(L, open, m - 1)
  <1> SUFFICES ASSUME NEW i \in 1..Len(open)
               PROVE  open[i].path_index < m - 1
    BY DEF Spans
  <1> DEFINE last == Len(open)
  <1>1. last \in Nat /\ last \in 1..Len(open) /\ last > 0
    BY LenProperties
  <1>2. open[last].path_index < m /\ open[last].path_index # m - 1
    BY <1>1 DEF Spans
  <1>3. open[last].path_index \in Nat /\ open[i].path_index \in Nat
    BY <1>1, PathIndex
  <1>4. open[i].path_index <= open[last].path_index
    <2>1. CASE i = last
      BY <1>3, <2>1
    <2>2. CASE i # last
      <3>1. i < last
        BY <1>1, <2>2
      <3> QED
        BY <1>1, <3>1, SpansSorted
    <2> QED
      BY <2>1, <2>2
  <1> QED
    BY <1>2, <1>3, <1>4

LEMMA SpansShorter ==
    ASSUME NEW L, NEW m, NEW open \in Seq(ArrayDepth), open # << >>, Spans(L, open, m)
    PROVE  Spans(L, Popped(open), m)
  <1>1. /\ Len(Popped(open)) = Len(open) - 1 /\ Len(open) \in Nat
        /\ \A i \in 1..(Len(open) - 1) : Popped(open)[i] = open[i]
    BY PoppedType, LenProperties
  <1>2. 1..(Len(open) - 1) \subseteq 1..Len(open)
    BY <1>1
  <1> QED
    BY <1>1, <1>2 DEF Spans

LEMMA SpansLonger ==
    ASSUME NEW L, NEW m \in Nat, NEW open \in Seq(ArrayDepth), Spans(L, open, m),
           NEW n \in 1..m, NEW size \in Byte, n - 1 \in Byte,
           \A k \in 0..(n - 1) : L[k] <= Len(open), Len(open) < L[n],
           \A k \in 0..m : L[k] \in Nat
    PROVE  Spans(L, Append(open, [path_index |-> n - 1, size |-> size]), m)
  <1> DEFINE new == [path_index |-> n - 1, size |-> size]
             more == Append(open, new)
  <1>1. new \in ArrayDepth
    BY DEF ArrayDepth
  <1>2. /\ Len(more) = Len(open) + 1 /\ Len(open) \in Nat
        /\ \A i \in 1..Len(open) : more[i] = open[i]
        /\ more[Len(open) + 1] = new
    BY <1>1, AppendProperties, LenProperties
  <1> SUFFICES ASSUME NEW i \in 1..Len(more)
               PROVE  /\ more[i].path_index < m
                      /\ \A k \in 0..more[i].path_index : L[k] < i
                      /\ i <= L[more[i].path_index + 1]
    BY DEF Spans
  <1>3. CASE i \in 1..Len(open)
    BY <1>2, <1>3 DEF Spans
  <1>4. CASE i \notin 1..Len(open)
    <2>1. i = Len(open) + 1
      BY <1>2, <1>4
    <2>2. more[i].path_index = n - 1 /\ n - 1 < m /\ (n - 1) + 1 = n
      BY <1>2, <2>1
    <2>3. \A k \in 0..(n - 1) : L[k] \in Nat /\ L[k] < i
      BY <1>2, <2>1
    <2>4. i <= L[n]
      BY <1>2, <2>1
    <2> QED
      BY <2>2, <2>3, <2>4
  <1> QED
    BY <1>3, <1>4

LEMMA SpansResized ==
    ASSUME NEW L, NEW m, NEW open, NEW sized, Spans(L, open, m), Len(sized) = Len(open),
           \A i \in 1..Len(open) : sized[i].path_index = open[i].path_index
    PROVE  Spans(L, sized, m)
  BY DEF Spans

LEMMA IntervalSize ==
    ASSUME NEW a \in Nat, NEW b \in Nat, NEW c \in Nat, b <= a + c
    PROVE  IsFiniteSet((a + 1)..b) /\ Cardinality((a + 1)..b) <= c
  <1>1. /\ IsFiniteSet((a + 1)..b)
        /\ Cardinality((a + 1)..b) = IF a + 1 > b THEN 0 ELSE b - (a + 1) + 1
    BY FS_Interval
  <1> QED
    BY <1>1

(* The arrays of one field are no more than its levels.                    *)
LEMMA SpansLevels ==
    ASSUME NEW L, NEW W, NEW m \in Nat, NEW open \in Seq(ArrayDepth), Spans(L, open, m),
           IsLevels(L, W), \A n \in 1..m : W[n].field \in Fields, NEW n \in 1..m
    PROVE  Cardinality({i \in 1..Len(open) : open[i].path_index = n - 1})
               <= Len(W[n].field.lvls)
  <1> DEFINE of == {i \in 1..Len(open) : open[i].path_index = n - 1}
             reach == (L[n - 1] + 1)..L[n]
  <1>1. n \in 0..m /\ n - 1 \in 0..m /\ (n - 1) + 1 = n /\ n - 1 \in 0..(n - 1)
    OBVIOUS
  <1>2. L[n - 1] \in 0..255 /\ L[n] \in 0..255 /\ L[n] <= L[n - 1] + Len(W[n].field.lvls)
    BY <1>1, LevelsBounds, ZenonT(60)
  <1>3. L[n - 1] \in Nat /\ L[n] \in Nat /\ Len(W[n].field.lvls) \in Nat
    BY <1>2, ByteValue, FieldFacts
  <1>4. IsFiniteSet(reach) /\ Cardinality(reach) <= Len(W[n].field.lvls)
    BY <1>2, <1>3, IntervalSize
  <1>5. of \subseteq reach
    <2> SUFFICES ASSUME NEW i \in of PROVE i \in reach
      OBVIOUS
    <2>1. i \in 1..Len(open) /\ open[i].path_index = n - 1 /\ Len(open) \in Nat
      BY LenProperties
    <2>2. L[n - 1] < i /\ i <= L[n]
      BY <1>1, <2>1 DEF Spans
    <2>3. i \in Int
      BY <2>1
    <2> QED
      BY <1>3, <2>2, <2>3
  <1> HIDE DEF of, reach
  <1>6. /\ IsFiniteSet(of) /\ Cardinality(of) <= Cardinality(reach)
        /\ Cardinality(of) \in Nat /\ Cardinality(reach) \in Nat
    BY <1>4, <1>5, FS_Subset, FS_CardinalityType
  <1>7. Cardinality(of) <= Len(W[n].field.lvls)
    BY <1>3, <1>4, <1>6
  <1> QED
    BY <1>7 DEF of

-----------------------------------------------------------------------------

(* Over a step that keeps the root and the first m indices, the walk and   *)
(* the levels stay what they are as far as m.                              *)
LEMMA PrefixKept ==
    ASSUME NEW m \in Nat, root' = root, \A n \in 1..m : depths'[n] = depths[n]
    PROVE  \A n \in 0..m : Walk'[n] = Walk[n] /\ LevelsUpTo'[n] = LevelsUpTo[n]
  <1>1. IsWalk(Walk, root, depths) /\ IsWalk(Walk', root, depths')
    BY WalkIsWalk, NextWalkIsWalk
  <1>2. \A n \in 1..m : depths[n] = depths'[n]
    OBVIOUS
  <1>3. \A n \in 0..m : Walk[n] = Walk'[n]
    BY <1>1, <1>2, SamePrefix
  <1>4. IsLevels(LevelsUpTo, Walk) /\ IsLevels(LevelsUpTo', Walk')
    BY LevelsAreLevels, NextLevelsAreLevels
  <1>5. \A n \in 1..m : Walk[n] = Walk'[n]
    BY <1>3
  <1>6. \A n \in 0..m : LevelsUpTo[n] = LevelsUpTo'[n]
    BY <1>4, <1>5, SameLevels
  <1> QED
    BY <1>3, <1>6

(* Then the path stands where it stood.                                    *)
LEMMA StillStands ==
    ASSUME NEW m \in Nat, root' = root, \A n \in 1..m : depths'[n] = depths[n],
           Stands(Walk, depths, m)
    PROVE  Stands(Walk', depths', m)
  <1>1. IsWalk(Walk, root, depths) /\ IsWalk(Walk', root, depths')
    BY WalkIsWalk, NextWalkIsWalk
  <1>2. \A n \in 1..m : depths[n] = depths'[n]
    OBVIOUS
  <1> QED
    BY <1>1, <1>2, StandsKept

LEMMA StillSpans ==
    ASSUME NEW m \in Nat, root' = root, \A n \in 1..m : depths'[n] = depths[n],
           NEW open \in Seq(ArrayDepth), NEW k \in Int, k <= m, Spans(LevelsUpTo, open, k)
    PROVE  Spans(LevelsUpTo', open, k)
  <1>1. \A n \in 0..k : LevelsUpTo[n] = LevelsUpTo'[n]
    BY PrefixKept
  <1> QED
    BY <1>1, SpansKept

LEMMA PathTypes ==
    ASSUME IInv
    PROVE  /\ depths \in Seq(Byte) /\ depth_count \in Nat /\ depth_count <= 255
           /\ \A n \in 1..depth_count : depths[n] \in 0..255
           /\ arrays \in Seq(ArrayDepth) /\ array_depth_count \in Nat
  <1>1. depths \in Seq(Byte) /\ arrays \in Seq(ArrayDepth)
    BY DEF IInv, TypeOK
  <1>2. \A n \in 1..Len(depths) : depths[n] \in Byte
    BY <1>1, ElementOfSeq
  <1>3. depth_count \in Nat /\ array_depth_count \in Nat
    BY <1>1, LenProperties DEF depth_count, array_depth_count
  <1>4. depth_count <= 255
    BY <1>3, PathAssumption DEF IInv, TypeOK
  <1> QED
    BY <1>1, <1>2, <1>3, <1>4 DEF depth_count, Byte

LEMMA SamePath ==
    ASSUME IInv, UNCHANGED <<root, depths>>
    PROVE  /\ depth_count' = depth_count /\ path_get_field' = path_get_field
           /\ depth_count > 0 => StructAt(depth_count)' = StructAt(depth_count)
           /\ Stands(Walk, depths, depth_count) => Stands(Walk', depths', depth_count)
           /\ \A open \in Seq(ArrayDepth) : \A k \in {depth_count, depth_count - 1} :
                  Spans(LevelsUpTo, open, k) => Spans(LevelsUpTo', open, k)
  <1>1. depth_count \in Nat /\ depth_count' = depth_count
        /\ (\A n \in 1..depth_count : depths'[n] = depths[n])
    BY PathTypes DEF depth_count
  <1>2. \A n \in 0..depth_count : Walk'[n] = Walk[n]
    BY <1>1, PrefixKept
  <1>3. path_get_field' = path_get_field
    BY <1>1, <1>2 DEF path_get_field, get_nth_field_from_path
  <1>4. depth_count > 0 => StructAt(depth_count)' = StructAt(depth_count)
    BY <1>1, <1>2 DEF StructAt
  <1>5. Stands(Walk, depths, depth_count) => Stands(Walk', depths', depth_count)
    BY <1>1, StillStands
  <1>6. ASSUME NEW open \in Seq(ArrayDepth), NEW k \in {depth_count, depth_count - 1},
               Spans(LevelsUpTo, open, k)
        PROVE  Spans(LevelsUpTo', open, k)
    <2>1. k \in Int /\ k <= depth_count
      BY <1>1
    <2> QED
      BY <1>1, <1>6, <2>1, StillSpans
  <1> QED
    BY <1>1, <1>3, <1>4, <1>5, <1>6

(* The field the path points to, once it stands.                           *)
LEMMA FieldHere ==
    ASSUME IInv, Stands(Walk, depths, depth_count), depth_count > 0
    PROVE  /\ path_get_field \in Fields
           /\ path_get_field = Walk[depth_count].field
           /\ Member(Walk, depths, depth_count)
           /\ IS_CUSTOM(path_get_field)
                  => Walk[depth_count].struct = path_get_field.typename
  <1>1. depth_count \in Nat /\ depth_count \in 1..depth_count
    BY PathTypes
  <1>2. path_get_field = Walk[depth_count].field
    BY <1>1 DEF path_get_field, get_nth_field_from_path
  <1> DEFINE f == Structs[Walk[depth_count - 1].struct][depths[depth_count] + 1]
  <1>3. /\ Member(Walk, depths, depth_count)
        /\ f \in Fields
        /\ Walk[depth_count] = [struct |-> IF IS_CUSTOM(f) THEN f.typename
                                           ELSE Walk[depth_count - 1].struct,
                                field |-> f]
    <2>1. \A n \in 1..depth_count :
              LET g == Structs[Walk[n - 1].struct][depths[n] + 1]
              IN  /\ Member(Walk, depths, n)
                  /\ g \in Fields
                  /\ Walk[n] = [struct |-> IF IS_CUSTOM(g) THEN g.typename ELSE Walk[n - 1].struct,
                                field |-> g]
                  /\ Walk[n].field \in Fields
      BY <1>1, WalkIsWalk, StandsFields
    <2> QED
      BY <1>1, <2>1
  <1> HIDE DEF f
  <1> QED
    BY <1>2, <1>3

-----------------------------------------------------------------------------

(* Steps that end in a failure, and steps into memory of another kind.     *)
LEMMA FailingStep == ASSUME dropped' PROVE PathInv' /\ OnlyEmptyStructsStray'
  BY DEF PathInv, Sound, OnlyEmptyStructsStray

LEMMA EndingStep ==
    ASSUME status' \in {"exit", "stray_ctx", "stray_mem"}
    PROVE  PathInv' /\ OnlyEmptyStructsStray'
  BY DEF PathInv, Sound, OnlyEmptyStructsStray

LEMMA StrayFieldStep ==
    ASSUME IInv, Stray("stray_field"),
           ~dropped => depth_count > 0 /\ Structs[StructAt(depth_count)] = << >>
    PROVE  PathInv' /\ OnlyEmptyStructsStray'
  <1>1. status' = "stray_field" /\ dropped' = dropped /\ UNCHANGED <<root, depths>>
    BY DEF Stray, pathVars
  <1>2. /\ depth_count' = depth_count
        /\ depth_count > 0 => StructAt(depth_count)' = StructAt(depth_count)
    BY <1>1, SamePath
  <1> QED
    BY <1>1, <1>2 DEF PathInv, Sound, OnlyEmptyStructsStray

(* Steps that leave the path where it is, and the arrays on it.            *)
LEMMA StandingStep ==
    ASSUME IInv, UNCHANGED <<root, depths, dropped, status>>, status = "run",
           arrays' \in Seq(ArrayDepth),
           ~dropped => Stands(Walk, depths, depth_count),
           ~dropped => Spans(LevelsUpTo, arrays',
                             IF ctl' = "struct" THEN depth_count - 1 ELSE depth_count),
           ~dropped /\ ctl' = "ready" /\ depth_count > 0 => ~IS_CUSTOM(path_get_field),
           ~dropped /\ ctl' = "descend" => depth_count > 0 /\ cur' = path_get_field
    PROVE  PathInv' /\ OnlyEmptyStructsStray'
  <1>1. OnlyEmptyStructsStray'
    BY DEF OnlyEmptyStructsStray
  <1>2. CASE dropped
    BY <1>1, <1>2, FailingStep
  <1>3. CASE ~dropped
    <2>1. depth_count \in Nat
      BY PathTypes
    <2>2. /\ depth_count' = depth_count /\ path_get_field' = path_get_field
          /\ Stands(Walk', depths', depth_count')
      BY <1>3, SamePath
    <2>3. Spans(LevelsUpTo', arrays', IF ctl' = "struct" THEN depth_count - 1 ELSE depth_count)
      BY <1>3, <2>1, SamePath
    <2> QED
      BY <1>1, <1>3, <2>1, <2>2, <2>3 DEF PathInv
  <1> QED
    BY <1>2, <1>3

LEMMA StandsNow ==
    ASSUME PathInv, status = "run", ~dropped
    PROVE  /\ ctl # "update" => Stands(Walk, depths, depth_count)
           /\ Spans(LevelsUpTo, arrays, IF ctl = "struct" THEN depth_count - 1 ELSE depth_count)
  BY DEF PathInv, Sound, OnEmptyRoot

LEMMA StandsInner ==
    ASSUME NEW W, NEW path, NEW m \in Nat \ {0}, Stands(W, path, m)
    PROVE  Stands(W, path, m - 1)
  <1>1. 1..((m - 1) - 1) \subseteq 1..(m - 1) /\ (m - 1 > 0 => m - 1 \in 1..(m - 1))
    OBVIOUS
  <1> QED
    BY <1>1 DEF Stands, Entered

LEMMA StillEntered ==
    ASSUME NEW m \in Nat, root' = root, \A n \in 1..m : depths'[n] = depths[n]
    PROVE  \A n \in 1..m : Entered(Walk, depths, n) => Entered(Walk', depths', n)
  <1>1. \A n \in 0..m : Walk'[n] = Walk[n]
    BY PrefixKept
  <1>2. \A n \in 1..m : Walk'[n] = Walk[n] /\ Walk'[n - 1] = Walk[n - 1]
    BY <1>1
  <1> QED
    BY <1>2 DEF Entered, Member

LEMMA SpansWider ==
    ASSUME NEW L, NEW open \in Seq(ArrayDepth), NEW m \in Int, NEW k \in Int, m <= k,
           Spans(L, open, m)
    PROVE  Spans(L, open, k)
  <1>1. \A i \in 1..Len(open) : open[i].path_index < m => open[i].path_index < k
    BY PathIndex
  <1> QED
    BY <1>1 DEF Spans

(* Levels are counted by natural numbers along a path that stands.         *)
LEMMA LevelsHere ==
    ASSUME IInv, Stands(Walk, depths, depth_count)
    PROVE  /\ \A n \in 1..depth_count : Walk[n].field \in Fields
           /\ \A n \in 0..depth_count : LevelsUpTo[n] \in Nat
           /\ \A n \in 1..depth_count :
                  Walk[n].field.lvls = << >> => LevelsUpTo[n] = LevelsUpTo[n - 1]
  <1>1. depth_count \in Nat
    BY PathTypes
  <1>2. \A n \in 1..depth_count : Walk[n].field \in Fields
    BY <1>1, WalkIsWalk, StandsFields
  <1>3. /\ \A n \in 0..depth_count : LevelsUpTo[n] \in 0..255
        /\ \A n \in 1..depth_count :
               Walk[n].field.lvls = << >> => LevelsUpTo[n] = LevelsUpTo[n - 1]
    BY <1>1, <1>2, LevelsAreLevels, LevelsBounds
  <1>4. \A n \in 0..depth_count : LevelsUpTo[n] \in Nat
    BY <1>3, ByteValue
  <1> QED
    BY <1>2, <1>3, <1>4

-----------------------------------------------------------------------------

LEMMA NextElementPath ==
    ASSUME IInv, PathInv, NextElement, UNCHANGED fh
    PROVE  PathInv' /\ OnlyEmptyStructsStray'
  <1>1. /\ status = "run" /\ ctl = "array" /\ ctl' = "update"
        /\ UNCHANGED <<status, root, depths, dropped>>
        /\ arrays' = [arrays EXCEPT ![array_depth_count].size = ElementsLeft]
    BY DEF NextElement, Running
  <1>2. arrays' \in Seq(ArrayDepth)
    BY NextElementStep DEF IInv, TypeOK
  <1>3. /\ Len(arrays') = Len(arrays)
        /\ \A i \in 1..Len(arrays) : arrays'[i].path_index = arrays[i].path_index
    <2>1. array_depth_count \in 1..Len(arrays) /\ arrays \in Seq(ArrayDepth)
      BY PathTypes DEF NextElement, InArray, array_depth_count
    <2>2. arrays[array_depth_count] \in ArrayDepth
      BY <2>1, ElementOfSeq
    <2> QED
      BY <1>1, <2>1, <2>2, ExceptSeq DEF ArrayDepth
  <1>4. ~dropped => Spans(LevelsUpTo, arrays', depth_count)
    BY <1>1, <1>3, StandsNow, SpansResized
  <1> QED
    BY <1>1, <1>2, <1>4, StandsNow, StandingStep

LEMMA EndArrayPath ==
    ASSUME IInv, PathInv, EndArray, UNCHANGED fh
    PROVE  PathInv' /\ OnlyEmptyStructsStray'
  <1>1. CASE ~TopAreContexts(2)
    BY <1>1, EndingStep DEF EndArray, array_depth_list_pop, Stray
  <1>2. CASE TopAreContexts(2)
    <2>1. /\ status = "run" /\ ctl = "array" /\ ctl' = "array"
          /\ UNCHANGED <<status, root, depths, dropped>>
          /\ arrays' = Popped(arrays)
      BY <1>2 DEF EndArray, array_depth_list_pop, Running
    <2>2. arrays \in Seq(ArrayDepth) /\ arrays # << >>
      BY PathTypes, EmptySeq DEF EndArray, InArray, array_depth_count
    <2>3. arrays' \in Seq(ArrayDepth)
      BY <2>1, <2>2, PoppedType
    <2>4. ~dropped => Spans(LevelsUpTo, arrays', depth_count)
      BY <2>1, <2>2, StandsNow, SpansShorter
    <2> QED
      BY <2>1, <2>3, <2>4, StandsNow, StandingStep
  <1> QED
    BY <1>1, <1>2

LEMMA LeaveArraysPath ==
    ASSUME IInv, PathInv, LeaveArrays, UNCHANGED fh
    PROVE  PathInv' /\ OnlyEmptyStructsStray'
  <1>1. /\ status = "run" /\ ctl = "array" /\ ctl' = "struct"
        /\ UNCHANGED <<status, root, depths, dropped, arrays>>
    BY DEF LeaveArrays, Running, pathVars
  <1>2. arrays \in Seq(ArrayDepth) /\ depth_count \in Nat
    BY PathTypes
  <1>3. ASSUME ~dropped PROVE Spans(LevelsUpTo, arrays, depth_count - 1)
    <2>1. Stands(Walk, depths, depth_count) /\ Spans(LevelsUpTo, arrays, depth_count)
      BY <1>1, <1>3, StandsNow
    <2>2. \A n \in 0..depth_count : LevelsUpTo[n] \in Nat
      BY <2>1, LevelsHere
    <2>3. Len(arrays) > 0 => arrays[Len(arrays)].path_index # depth_count - 1
      BY DEF LeaveArrays, InArray, array_depth_count
    <2>4. depth_count \in Int
      BY <1>2
    <2> QED
      BY <1>2, <2>1, <2>2, <2>3, <2>4, SpansInner, Zenon
  <1> QED
    BY <1>1, <1>2, <1>3, StandsNow, StandingStep

LEMMA ByteNext ==
    ASSUME NEW x \in Nat, NEW y \in 0..255, x < y, x + 1 # y
    PROVE  (x + 1) % 256 = x + 1 /\ x + 1 < y
  OBVIOUS

(* The index of the next member, which its byte has room for.              *)
LEMMA NextMemberIndex ==
    ASSUME IInv, PathInv, NextMember, ~dropped
    PROVE  /\ depth_count' = depth_count /\ depth_count \in Nat \ {0}
           /\ \A n \in 1..(depth_count - 1) : depths'[n] = depths[n]
           /\ depths'[depth_count] = depths[depth_count] + 1
           /\ depths'[depth_count] < FieldsHere
  <1> DEFINE dc == depth_count
  <1>1. /\ status = "run" /\ ctl = "struct" /\ dc > 0
        /\ depths' = [depths EXCEPT ![dc] = (@ + 1) % 256]
        /\ depths[dc] + 1 # FieldsHere
    BY DEF NextMember, OnField, Running
  <1>2. depths \in Seq(Byte) /\ dc \in Nat /\ dc = Len(depths)
    BY PathTypes DEF depth_count
  <1>3. /\ \A n \in 1..(dc - 1) : depths'[n] = depths[n]
        /\ depths'[dc] = (depths[dc] + 1) % 256
        /\ Len(depths') = dc
    BY <1>1, <1>2, LenProperties
  <1>4. Member(Walk, depths, dc)
    BY <1>1, StandsNow DEF Stands
  <1>5. FieldsHere = Len(Structs[Walk[dc - 1].struct])
    BY DEF FieldsHere, StructAt
  <1>6. Len(Structs[Walk[dc - 1].struct]) \in 0..255
    BY <1>4, FieldFacts DEF Member, Byte
  <1>7. (depths[dc] + 1) % 256 = depths[dc] + 1 /\ depths[dc] + 1 < FieldsHere
    <2>1. /\ depths[dc] \in Nat /\ FieldsHere \in 0..255
          /\ depths[dc] < FieldsHere /\ depths[dc] + 1 # FieldsHere
      BY <1>1, <1>4, <1>5, <1>6 DEF Member
    <2> QED
      BY <2>1, ByteNext
  <1>8. depth_count' = dc /\ dc \in Nat \ {0}
    <2>1. dc \in Nat /\ dc > 0 /\ Len(depths') = dc
      BY <1>1, <1>2, <1>3
    <2> QED
      BY <2>1 DEF depth_count
  <1>9. depths'[dc] = depths[dc] + 1 /\ depths'[dc] < FieldsHere
    BY <1>3, <1>7
  <1> QED
    BY <1>3, <1>8, <1>9

LEMMA NextMemberPath ==
    ASSUME IInv, PathInv, NextMember, UNCHANGED fh
    PROVE  PathInv' /\ OnlyEmptyStructsStray'
  <1> DEFINE dc == depth_count
  <1>1. /\ status = "run" /\ ctl = "struct" /\ ctl' = "update" /\ dc > 0
        /\ UNCHANGED <<status, root, arrays, dropped>>
        /\ depths' = [depths EXCEPT ![dc] = (@ + 1) % 256]
        /\ depths[dc] + 1 # FieldsHere
    BY DEF NextMember, OnField, Running
  <1>2. /\ depths \in Seq(Byte) /\ dc \in Nat /\ dc \in 1..dc /\ dc = Len(depths)
        /\ arrays \in Seq(ArrayDepth)
    BY <1>1, PathTypes DEF depth_count
  <1>3. /\ depths' \in Seq(Byte) /\ depth_count' = dc
    BY NextMemberStep, <1>1, <1>2 DEF IInv, TypeOK, depth_count
  <1>4. /\ \A n \in 1..(dc - 1) : depths'[n] = depths[n]
        /\ depths'[dc] = (depths[dc] + 1) % 256
    BY <1>1, <1>2, LenProperties
  <1>5. OnlyEmptyStructsStray'
    BY <1>1 DEF OnlyEmptyStructsStray
  <1>6. CASE dropped
    BY <1>1, <1>6, FailingStep
  <1>7. CASE ~dropped
    <2>1. Stands(Walk, depths, dc) /\ Spans(LevelsUpTo, arrays, dc - 1)
      BY <1>1, <1>7, StandsNow
    <2>2. dc - 1 \in Nat
      BY <1>1, <1>2
    <2>3. /\ \A n \in 0..(dc - 1) : Walk'[n] = Walk[n]
          /\ \A n \in 1..(dc - 1) : Entered(Walk', depths', n)
      BY <1>1, <1>4, <2>1, <2>2, PrefixKept, StillEntered DEF Stands
    <2>4. Member(Walk', depths', dc)
      <3>1. Member(Walk, depths, dc) /\ Walk'[dc - 1] = Walk[dc - 1]
        BY <1>1, <2>1, <2>2, <2>3 DEF Stands
      <3>2. FieldsHere = Len(Structs[Walk[dc - 1].struct])
        BY DEF FieldsHere, StructAt
      <3>3. depths'[dc] = depths[dc] + 1 /\ depths'[dc] < FieldsHere
        BY <1>7, NextMemberIndex
      <3> QED
        BY <3>1, <3>2, <3>3 DEF Member
    <2>5. Spans(LevelsUpTo', arrays', dc)
      <3>1. Spans(LevelsUpTo', arrays, dc - 1)
        BY <1>1, <1>2, <1>4, <2>1, <2>2, StillSpans, SMTT(30)
      <3> QED
        BY <1>1, <1>2, <3>1, SpansWider
    <2> QED
      BY <1>1, <1>3, <1>5, <2>3, <2>4, <2>5 DEF PathInv, Stands
  <1> QED
    BY <1>6, <1>7

LEMMA EndStructPath ==
    ASSUME IInv, PathInv, EndStruct, UNCHANGED fh
    PROVE  PathInv' /\ OnlyEmptyStructsStray'
  <1> DEFINE dc == depth_count
             upper == Popped(depths)
  <1>1. CASE ~TopAreContexts(IF upper = << >> THEN 1 ELSE 2)
    BY <1>1, EndingStep DEF EndStruct, path_depth_list_pop, Stray
  <1>2. CASE TopAreContexts(IF upper = << >> THEN 1 ELSE 2)
    <2>1. /\ status = "run" /\ ctl = "struct" /\ ctl' = "array" /\ dc > 0
          /\ UNCHANGED <<status, root, arrays, dropped>>
          /\ depths' = upper
      BY <1>2 DEF EndStruct, path_depth_list_pop, OnField, Running
    <2>2. /\ depths \in Seq(Byte) /\ dc - 1 \in Nat /\ dc \in Nat \ {0} /\ dc = Len(depths)
          /\ arrays \in Seq(ArrayDepth)
      BY <2>1, PathTypes DEF depth_count
    <2>3. depths # << >>
      BY <2>2, EmptySeq
    <2>4. depth_count' = dc - 1 /\ \A n \in 1..(dc - 1) : depths'[n] = depths[n]
      BY <2>1, <2>2, <2>3, PoppedType DEF depth_count
    <2>5. OnlyEmptyStructsStray'
      BY <2>1 DEF OnlyEmptyStructsStray
    <2>6. CASE dropped
      BY <2>1, <2>6, FailingStep
    <2>7. CASE ~dropped
      <3>1. Stands(Walk, depths, dc) /\ Spans(LevelsUpTo, arrays, dc - 1)
        BY <2>1, <2>7, StandsNow
      <3>2. Stands(Walk', depths', dc - 1)
        <4>1. Stands(Walk, depths, dc - 1)
          BY <2>2, <3>1, StandsInner
        <4> QED
          BY <2>1, <2>2, <2>4, <4>1, StillStands
      <3>3. Spans(LevelsUpTo', arrays', dc - 1)
        <4>1. dc - 1 \in Int /\ dc - 1 <= dc - 1
          BY <2>2
        <4>2. Spans(LevelsUpTo', arrays, dc - 1)
          BY <2>1, <2>2, <2>4, <3>1, <4>1, StillSpans
        <4> QED
          BY <2>1, <4>2
      <3> QED
        BY <2>1, <2>4, <2>5, <3>2, <3>3 DEF PathInv
    <2> QED
      BY <2>6, <2>7
  <1> QED
    BY <1>1, <1>2


LEMMA NoMemberPath ==
    ASSUME IInv, PathInv, NoMember, UNCHANGED fh
    PROVE  PathInv' /\ OnlyEmptyStructsStray'
  <1>1. status = "run" /\ ctl = "struct" /\ ~OnField
    BY DEF NoMember, Running
  <1>2. arrays \in Seq(ArrayDepth) /\ depth_count \in Nat
    BY PathTypes
  <1>3. ASSUME ~dropped PROVE depth_count = 0
    <2>1. Stands(Walk, depths, depth_count)
      BY <1>1, <1>3, StandsNow
    <2>2. CASE depth_count > 0
      <3>1. path_get_field \in Fields
        BY <2>1, <2>2, FieldHere
      <3> QED
        BY <1>1, <2>2, <3>1 DEF OnField
    <2> QED
      BY <1>2, <2>2
  <1>4. CASE path_get_field = NULL
    <2>1. ctl' = "update" /\ UNCHANGED <<status, root, depths, arrays, dropped>>
      BY <1>4 DEF NoMember, pathVars
    <2>2. ASSUME ~dropped PROVE Spans(LevelsUpTo, arrays, depth_count)
      <3>1. Spans(LevelsUpTo, arrays, depth_count - 1)
        BY <1>1, <2>2, StandsNow
      <3>2. depth_count - 1 \in Int /\ depth_count \in Int /\ depth_count - 1 <= depth_count
        BY <1>2
      <3> QED
        BY <1>2, <3>1, <3>2, SpansWider
    <2> QED
      BY <1>1, <1>2, <2>1, <2>2, StandsNow, StandingStep
  <1>5. CASE path_get_field # NULL
    <2>1. Stray("stray_field")
      BY <1>5 DEF NoMember
    <2>2. dropped
      BY <1>3, <1>5 DEF path_get_field, get_nth_field_from_path
    <2> QED
      BY <2>1, <2>2, StrayFieldStep
  <1> QED
    BY <1>4, <1>5

LEMMA UpdatePathPath ==
    ASSUME IInv, PathInv, UpdatePath, UNCHANGED fh
    PROVE  PathInv' /\ OnlyEmptyStructsStray'
  <1>1. status = "run" /\ ctl = "update"
    BY DEF UpdatePath, Running
  <1>2. arrays \in Seq(ArrayDepth) /\ depth_count \in Nat
    BY PathTypes
  <1>3. ~dropped => Spans(LevelsUpTo, arrays, depth_count)
    BY <1>1, StandsNow
  <1>4. ~dropped => Stands(Walk, depths, depth_count) \/ OnEmptyRoot
    BY <1>1 DEF PathInv, Sound
  <1>5. ASSUME OnEmptyRoot
        PROVE  /\ path_get_field = PastEnd
               /\ depth_count > 0 /\ Structs[StructAt(depth_count)] = << >>
    <2>1. /\ depth_count = 1 /\ root \in StructNames /\ Structs[root] = << >> /\ depths[1] = 0
      BY <1>5 DEF OnEmptyRoot
    <2>2. Walk[0].struct = root /\ Walk[1].field = PastEnd
      BY <2>1, WalkIsWalk, EmptyRootField
    <2>3. path_get_field = Walk[1].field /\ StructAt(depth_count) = Walk[0].struct
      BY <2>1 DEF path_get_field, get_nth_field_from_path, StructAt
    <2> QED
      BY <2>1, <2>2, <2>3
  <1>6. CASE path_get_field \in Fields
    <2>1. /\ ctl' = "descend" /\ cur' = path_get_field
          /\ UNCHANGED <<status, root, depths, arrays, dropped>>
      BY <1>6 DEF UpdatePath, pathVars
    <2>2. ~dropped => Stands(Walk, depths, depth_count)
      BY <1>4, <1>5, <1>6, FieldFacts
    <2>3. depth_count > 0
      BY <1>2, <1>6, FieldFacts DEF path_get_field, get_nth_field_from_path
    <2> QED
      BY <1>1, <1>2, <1>3, <2>1, <2>2, <2>3, StandingStep
  <1>7. CASE path_get_field = NULL
    <2>1. ctl' = "ready" /\ UNCHANGED <<status, root, depths, arrays, dropped>>
      BY <1>7, FieldFacts DEF UpdatePath, pathVars
    <2>2. ~dropped => Stands(Walk, depths, depth_count)
      BY <1>4, <1>5, <1>7, FieldFacts
    <2>3. ASSUME ~dropped, depth_count > 0 PROVE FALSE
      BY <1>7, <2>2, <2>3, FieldHere, FieldFacts
    <2> QED
      BY <1>1, <1>2, <1>3, <2>1, <2>2, <2>3, StandingStep
  <1>8. CASE path_get_field \notin Fields /\ path_get_field # NULL
    <2>1. Stray("stray_field")
      BY <1>8 DEF UpdatePath
    <2>2. ASSUME ~dropped, ~OnEmptyRoot PROVE FALSE
      <3>1. Stands(Walk, depths, depth_count)
        BY <1>4, <2>2
      <3>2. depth_count > 0
        BY <1>2, <1>8 DEF path_get_field, get_nth_field_from_path
      <3> QED
        BY <1>8, <3>1, <3>2, FieldHere
    <2> QED
      BY <1>5, <2>1, <2>2, StrayFieldStep
  <1> QED
    BY <1>6, <1>7, <1>8

LEMMA PathUpdatedPath ==
    ASSUME IInv, PathInv, PathUpdated, UNCHANGED fh
    PROVE  PathInv' /\ OnlyEmptyStructsStray'
  <1>1. /\ status = "run" /\ ctl = "descend" /\ ctl' = "ready" /\ ~IS_CUSTOM(cur)
        /\ UNCHANGED <<status, root, depths, arrays, dropped>>
    BY DEF PathUpdated, Running, pathVars
  <1>2. arrays \in Seq(ArrayDepth)
    BY PathTypes
  <1>3. ~dropped => cur = path_get_field
    BY <1>1 DEF PathInv, Sound
  <1> QED
    BY <1>1, <1>2, <1>3, StandsNow, StandingStep

(* path_update() enters the first member of a struct: one index more, that *)
(* of a member of the struct the field is.                                 *)
LEMMA EnterStructPath ==
    ASSUME IInv, PathInv, EnterStruct, UNCHANGED fh
    PROVE  PathInv' /\ OnlyEmptyStructsStray'
  <1> DEFINE dc == depth_count
             s == cur.typename
  <1>1. CASE dropped'
    BY <1>1, FailingStep
  <1>2. CASE ~dropped'
    <2>1. /\ status = "run" /\ ctl = "descend" /\ IS_CUSTOM(cur) /\ ~dropped
          /\ depths' = Append(depths, 0)
          /\ UNCHANGED <<root, arrays>>
          /\ IF Structs[s] = << >>
             THEN status' = "stray_field" /\ ctl' = "ready" /\ cur' = NULL
             ELSE status' = status /\ ctl' = ctl /\ cur' = Structs[s][1]
      BY <1>2 DEF EnterStruct, Running
    <2>2. /\ depths \in Seq(Byte) /\ dc \in Nat /\ dc = Len(depths)
          /\ arrays \in Seq(ArrayDepth)
      BY PathTypes DEF depth_count
    <2>3. /\ depth_count' = dc + 1
          /\ \A n \in 1..dc : depths'[n] = depths[n]
          /\ depths'[dc + 1] = 0
      BY <2>1, <2>2, AppendProperties DEF depth_count
    <2>4. dc > 0 /\ cur = path_get_field
      BY <2>1 DEF PathInv, Sound
    <2>5. Stands(Walk, depths, dc) /\ Spans(LevelsUpTo, arrays, dc)
      BY <2>1, StandsNow
    <2>6. /\ cur \in Fields /\ s \in StructNames /\ cur = Walk[dc].field
          /\ Member(Walk, depths, dc) /\ Walk[dc].struct = s
      BY <2>1, <2>4, <2>5, FieldHere, FieldFacts
    <2>7. Entered(Walk, depths, dc)
      BY <2>1, <2>6 DEF Entered
    <2>8. \A n \in 1..dc : Entered(Walk, depths, n)
      <3>1. \A n \in 1..dc : n = dc \/ n \in 1..(dc - 1)
        BY <2>2
      <3> QED
        BY <2>5, <2>7, <3>1 DEF Stands
    <2>9. /\ \A n \in 0..dc : Walk'[n] = Walk[n]
          /\ \A n \in 1..dc : Entered(Walk', depths', n)
      BY <2>1, <2>2, <2>3, <2>8, PrefixKept, StillEntered
    <2>10. /\ dc \in 0..dc /\ (dc + 1) - 1 = dc
      BY <2>2
    <2>11. Walk'[dc].struct = s
      BY <2>6, <2>9, <2>10
    <2>12. CASE Structs[s] = << >>
      <3>1. StructAt(depth_count)' = s
        BY <2>3, <2>10, <2>11 DEF StructAt
      <3> QED
        BY <2>1, <2>2, <2>3, <2>12, <3>1 DEF PathInv, Sound, OnlyEmptyStructsStray
    <2>13. CASE Structs[s] # << >>
      <3>1. status' = "run" /\ ctl' = "descend" /\ cur' = Structs[s][1]
        BY <2>1, <2>13
      <3>2. 0 < Len(Structs[s])
        BY <2>6, <2>13, SomeField
      <3>3. Member(Walk', depths', dc + 1)
        BY <2>3, <2>6, <2>10, <2>11, <3>2 DEF Member
      <3>4. Stands(Walk', depths', dc + 1)
        BY <2>9, <2>10, <3>3 DEF Stands
      <3>5. Spans(LevelsUpTo', arrays', dc + 1)
        <4>1. dc \in Int /\ dc <= dc /\ dc + 1 \in Int /\ dc <= dc + 1
          BY <2>2
        <4>2. Spans(LevelsUpTo', arrays, dc)
          BY <2>1, <2>2, <2>3, <2>5, <4>1, StillSpans
        <4>3. Spans(LevelsUpTo', arrays, dc + 1)
          BY <2>2, <4>1, <4>2, SpansWider
        <4> QED
          BY <2>1, <4>3
      <3>6. path_get_field' = Structs[s][1]
        <4>1. IsWalk(Walk', root', depths')
          BY NextWalkIsWalk
        <4>2. dc + 1 \in Nat \ {0} /\ (dc + 1 > 1 => Walk'[(dc + 1) - 1].field \in Fields)
          BY <2>2, <2>6, <2>9, <2>10
        <4>3. LET f == Structs[Walk'[(dc + 1) - 1].struct][depths'[dc + 1] + 1]
              IN  f \in Fields /\ Walk'[dc + 1].field = f
          <5>1. LET f == Structs[Walk'[(dc + 1) - 1].struct][depths'[dc + 1] + 1]
                IN  /\ f \in Fields
                    /\ Walk'[dc + 1] = [struct |-> IF IS_CUSTOM(f) THEN f.typename
                                                  ELSE Walk'[(dc + 1) - 1].struct,
                                       field |-> f]
            BY <3>3, <4>1, <4>2, MemberField, SMTT(30)
          <5> QED
            BY <5>1
        <4>4. Walk'[dc + 1].field = Structs[s][1]
          BY <2>3, <2>10, <2>11, <4>3
        <4> QED
          BY <2>2, <2>3, <4>4 DEF path_get_field, get_nth_field_from_path
      <3> QED
        BY <2>2, <2>3, <3>1, <3>4, <3>5, <3>6 DEF PathInv, OnlyEmptyStructsStray
    <2> QED
      BY <2>12, <2>13
  <1> QED
    BY <1>1, <1>2

LEMMA EnterStructFailsPath ==
    ASSUME EnterStructFails
    PROVE  PathInv' /\ OnlyEmptyStructsStray'
  BY FailingStep, EndingStep DEF EnterStructFails, Stray, TypeHashLeaks


-----------------------------------------------------------------------------

LEMMA SetRootPath ==
    ASSUME IInv, PathInv, NEW name, path_set_root(name), UNCHANGED fh
    PROVE  PathInv' /\ OnlyEmptyStructsStray'
  <1> DEFINE s == get_structn(name)
             result == TypeHashResult(s, mem_idx + CTX_SIZE)
  <1>1. CASE dropped'
    BY <1>1, FailingStep
  <1>2. CASE ~dropped' /\ result = "stray"
    BY <1>2, EndingStep DEF path_set_root
  <1>3. CASE ~dropped' /\ result # "stray"
    <2>1. /\ s # NULL /\ status = "run" /\ status' = "run" /\ ctl' = "update" /\ root' = s
          /\ depths' = <<0>> /\ arrays' = << >>
      BY <1>3 DEF path_set_root, TypeHashLeaks, Running
    <2>2. s \in StructNames
      BY <2>1 DEF get_structn
    <2>3. depth_count' = 1 /\ depths'[1] = 0 /\ Len(arrays') = 0
      BY <2>1 DEF depth_count
    <2>4. Spans(LevelsUpTo', arrays', depth_count')
      BY <2>3 DEF Spans
    <2>5. CASE Structs[s] = << >>
      BY <2>1, <2>2, <2>3, <2>4, <2>5 DEF PathInv, OnEmptyRoot, OnlyEmptyStructsStray
    <2>6. CASE Structs[s] # << >>
      <3>1. 0 < Len(Structs[s])
        BY <2>2, <2>6, SomeField
      <3>2. Walk'[0].struct = s
        <4>1. Walk'[0] = WalkStart(root')
          BY NextWalkIsWalk, WalkUnfolds
        <4> QED
          BY <2>1, <4>1 DEF WalkStart
      <3>3. Stands(Walk', depths', 1)
        BY <2>2, <2>3, <3>1, <3>2 DEF Stands, Member
      <3> QED
        BY <2>1, <2>3, <2>4, <3>3 DEF PathInv, OnlyEmptyStructsStray
    <2> QED
      BY <2>5, <2>6
  <1> QED
    BY <1>1, <1>2, <1>3

(* The first field with a level to open is the first whose levels, counted *)
(* along the path, are more than the open arrays: a field that is no array *)
(* adds none.                                                              *)
LEMMA LevelsBefore ==
    ASSUME IInv, Stands(Walk, depths, depth_count),
           NEW n \in 1..depth_count, \A k \in 1..(n - 1) : ~Opens(k)
    PROVE  \A k \in 0..(n - 1) : LevelsUpTo[k] <= array_depth_count
  <1> DEFINE S == {k \in Nat : k <= n - 1 => LevelsUpTo[k] <= array_depth_count}
  <1>1. depth_count \in Nat /\ array_depth_count \in Nat
    BY PathTypes
  <1>2. /\ \A k \in 1..depth_count : get_nth_field_from_path(k) \in Fields
        /\ \A k \in 1..depth_count : get_nth_field_from_path(k) = Walk[k].field
    BY LevelsHere DEF get_nth_field_from_path
  <1>3. LevelsUpTo[0] = 0
    BY LevelsAreLevels, LevelsUnfold
  <1>4. 0 \in S
    BY <1>1, <1>3
  <1>5. ASSUME NEW k \in S PROVE k + 1 \in S
    <2>1. k \in Nat /\ k + 1 \in Nat /\ (k + 1) - 1 = k
      BY <1>5
    <2>2. ASSUME k + 1 <= n - 1 PROVE LevelsUpTo[k + 1] <= array_depth_count
      <3>1. /\ k + 1 \in 1..(n - 1) /\ k + 1 \in 1..depth_count /\ k + 1 \in 0..depth_count
            /\ k <= n - 1 /\ 1..(k + 1) \subseteq 1..depth_count
        BY <1>1, <2>1, <2>2
      <3>2. LevelsUpTo[k] <= array_depth_count
        BY <1>5, <3>1
      <3>3. LevelsUpTo[k + 1] \in Nat
        BY <3>1, LevelsHere
      <3>4. CASE Walk[k + 1].field.lvls = << >>
        <4>1. LevelsUpTo[k + 1] = LevelsUpTo[(k + 1) - 1]
          BY <3>1, <3>4, LevelsHere
        <4> QED
          BY <2>1, <3>2, <4>1
      <3>5. CASE Walk[k + 1].field.lvls # << >>
        <4>1. ~Opens(k + 1)
          BY <3>1
        <4>2. struct_field_is_array(get_nth_field_from_path(k + 1))
          BY <1>2, <3>1, <3>5 DEF struct_field_is_array
        <4>3. \A i \in 1..(k + 1) : get_nth_field_from_path(i) \in Fields
          BY <1>2, <3>1
        <4>4. ~(LevelsUpTo[k + 1] > array_depth_count)
          BY <4>1, <4>2, <4>3 DEF Opens
        <4> QED
          BY <1>1, <3>3, <4>4
      <3> QED
        BY <3>4, <3>5
    <2> QED
      BY <2>1, <2>2
  <1> HIDE DEF S
  <1>6. S \in SUBSET Nat
    BY DEF S
  <1>7. S = Nat
    BY <1>4, <1>5, <1>6, Walks!SetInduction
  <1>8. \A k \in 0..(n - 1) : k \in Nat /\ k <= n - 1
    OBVIOUS
  <1> QED
    BY <1>7, <1>8 DEF S

LEMMA OpenArrayPath ==
    ASSUME IInv, PathInv, NEW n \in 1..depth_count, NEW size \in Byte, FirstToOpen(n),
           OpenArray(n, size), Running("ready"), UNCHANGED fh
    PROVE  PathInv' /\ OnlyEmptyStructsStray'
  <1> DEFINE new == [path_index |-> n - 1, size |-> size]
             more == Append(arrays, new)
  <1>1. /\ status = "run" /\ ctl = "ready"
        /\ \/ UNCHANGED <<status, ctl, cur, root, depths, arrays, dropped>>
           \/ status' = "stray_ctx"
           \/ dropped'
           \/ UNCHANGED <<status, ctl, cur, root, depths, dropped>> /\ arrays' = more
    BY DEF OpenArray, Running, pathVars, Stray
  <1>2. CASE status' = "stray_ctx" \/ dropped'
    BY <1>2, EndingStep, FailingStep
  <1>3. arrays \in Seq(ArrayDepth) /\ depth_count \in Nat
    BY PathTypes
  <1>4. /\ ~dropped => Stands(Walk, depths, depth_count) /\ Spans(LevelsUpTo, arrays, depth_count)
        /\ ~dropped /\ depth_count > 0 => ~IS_CUSTOM(path_get_field)
    BY <1>1, StandsNow DEF PathInv, Sound
  <1>5. CASE UNCHANGED <<status, ctl, cur, root, depths, arrays, dropped>>
    BY <1>1, <1>3, <1>4, <1>5, StandingStep
  <1>6. CASE UNCHANGED <<status, ctl, cur, root, depths, dropped>> /\ arrays' = more
    <2>1. more \in Seq(ArrayDepth)
      BY <1>6, OpenArrayStep DEF IInv, TypeOK
    <2>2. ASSUME ~dropped PROVE Spans(LevelsUpTo, more, depth_count)
      <3>1. Stands(Walk, depths, depth_count) /\ Spans(LevelsUpTo, arrays, depth_count)
        BY <1>4, <2>2
      <3>2. \A k \in 0..(n - 1) : LevelsUpTo[k] <= Len(arrays)
        BY <3>1, LevelsBefore DEF FirstToOpen, array_depth_count
      <3>3. Len(arrays) < LevelsUpTo[n]
        <4>1. LevelsUpTo[n] > Len(arrays)
          BY DEF FirstToOpen, Opens, array_depth_count
        <4> QED
          BY <4>1
      <3>4. \A k \in 0..depth_count : LevelsUpTo[k] \in Nat
        BY <3>1, LevelsHere
      <3>5. n - 1 \in Byte
        BY <1>3, PathTypes DEF Byte
      <3> QED
        BY <1>3, <3>1, <3>2, <3>3, <3>4, <3>5, SpansLonger
    <2> HIDE DEF more
    <2> QED
      BY <1>1, <1>4, <1>6, <2>1, <2>2, StandingStep
  <1> QED
    BY <1>1, <1>2, <1>5, <1>6

(* With a path that stands there is no field past the end to follow.       *)
LEMMA NewArrayPath ==
    ASSUME IInv, PathInv, NEW size \in Byte, path_new_array_depth(size), UNCHANGED fh
    PROVE  PathInv' /\ OnlyEmptyStructsStray'
  <1>1. status = "run" /\ ctl = "ready"
    BY DEF path_new_array_depth, Running
  <1>2. CASE \E n \in 1..depth_count : FirstToOpen(n) /\ OpenArray(n, size)
    BY <1>2, OpenArrayPath DEF path_new_array_depth
  <1>3. CASE UNCHANGED <<status, ctl, cur, memVars, pathVars, dropped>>
    <2>1. UNCHANGED <<status, ctl, root, depths, arrays, dropped>>
      BY <1>3 DEF pathVars
    <2>2. arrays \in Seq(ArrayDepth)
      BY PathTypes
    <2>3. /\ ~dropped => Stands(Walk, depths, depth_count) /\ Spans(LevelsUpTo, arrays, depth_count)
          /\ ~dropped /\ depth_count > 0 => ~IS_CUSTOM(path_get_field)
      BY <1>1, StandsNow DEF PathInv, Sound
    <2> QED
      BY <1>1, <2>1, <2>2, <2>3, StandingStep
  <1>4. CASE Stray("stray_field") /\ \E n \in 1..depth_count : get_nth_field_from_path(n) = PastEnd
    <2>1. ASSUME ~dropped PROVE FALSE
      <3>1. Stands(Walk, depths, depth_count)
        BY <1>1, <2>1, StandsNow
      <3>2. \A n \in 1..depth_count : get_nth_field_from_path(n) \in Fields
        BY <3>1, LevelsHere DEF get_nth_field_from_path
      <3> QED
        BY <1>4, <3>2, FieldFacts
    <2> QED
      BY <1>4, <2>1, StrayFieldStep
  <1> QED
    BY <1>2, <1>3, <1>4 DEF path_new_array_depth

LEMMA FieldHashPath ==
    ASSUME IInv, PathInv, NEW data \in Seq(Byte), NEW partial \in BOOLEAN,
           field_hash(data, partial)
    PROVE  PathInv' /\ OnlyEmptyStructsStray'
  <1>1. status = "run" /\ ctl = "ready" /\ arrays \in Seq(ArrayDepth) /\ depth_count \in Nat
    BY PathTypes DEF field_hash, Running
  <1>2. /\ ~dropped => Stands(Walk, depths, depth_count) /\ Spans(LevelsUpTo, arrays, depth_count)
        /\ ~dropped /\ depth_count > 0 => ~IS_CUSTOM(path_get_field)
    BY <1>1, StandsNow DEF PathInv, Sound
  <1>3. CASE NoField /\ path_get_field = NULL
    <2>1. UNCHANGED <<status, ctl, root, depths, arrays, dropped>>
      BY <1>3 DEF NoField, pathVars
    <2> QED
      BY <1>1, <1>2, <2>1, StandingStep
  <1>4. CASE NoField /\ path_get_field # NULL
    <2>1. Stray("stray_field")
      BY <1>4 DEF NoField
    <2>2. ASSUME ~dropped PROVE FALSE
      <3>1. depth_count > 0
        BY <1>1, <1>4 DEF path_get_field, get_nth_field_from_path
      <3> QED
        BY <1>2, <1>4, <2>2, <3>1, FieldHere DEF NoField
    <2> QED
      BY <2>1, <2>2, StrayFieldStep
  <1>5. CASE KeepWaiting(path_get_field, data, partial)
    <2>1. UNCHANGED <<status, ctl, root, depths, arrays, dropped>>
      BY <1>5 DEF KeepWaiting, pathVars
    <2> QED
      BY <1>1, <1>2, <2>1, StandingStep
  <1>6. CASE FinishValue(path_get_field, data, partial)
    <2>1. CASE ~TopAreContexts(1)
      BY <1>6, <2>1, EndingStep DEF FinishValue, Stray
    <2>2. CASE TopAreContexts(1)
      <3>1. ctl' = "array" /\ UNCHANGED <<status, root, depths, arrays, dropped>>
        BY <1>6, <2>2 DEF FinishValue, pathVars
      <3> QED
        BY <1>1, <1>2, <3>1, StandingStep
    <2> QED
      BY <2>1, <2>2
  <1> QED
    BY <1>3, <1>4, <1>5, <1>6 DEF field_hash


-----------------------------------------------------------------------------

LEMMA PathStarts == Init => DInv
  <1> SUFFICES ASSUME Init PROVE DInv
    OBVIOUS
  <1>1. IInv
    BY InitInv
  <1>2. status = "run" /\ ctl = "ready" /\ depth_count = 0 /\ Len(arrays) = 0
    BY DEF Init, PathInit, depth_count
  <1>3. Stands(Walk, depths, depth_count) /\ Spans(LevelsUpTo, arrays, depth_count)
    BY <1>2 DEF Stands, Spans
  <1>4. PathInv /\ OnlyEmptyStructsStray
    BY <1>2, <1>3 DEF PathInv, OnlyEmptyStructsStray
  <1> QED
    BY <1>1, <1>4 DEF DInv

LEMMA PathNext == DInv /\ [Next]_vars => DInv'
  <1> SUFFICES ASSUME DInv, [Next]_vars PROVE DInv'
    OBVIOUS
  <1>1. IInv /\ PathInv /\ OnlyEmptyStructsStray /\ IInv'
    BY NextInv DEF DInv
  <1> SUFFICES PathInv' /\ OnlyEmptyStructsStray'
    BY <1>1 DEF DInv
  <1>2. CASE UNCHANGED vars
    <2>1. /\ UNCHANGED <<status, ctl, cur, root, depths, arrays, dropped>>
          /\ arrays \in Seq(ArrayDepth) /\ depth_count \in Nat
      BY <1>1, <1>2, PathTypes DEF vars
    <2>2. /\ depth_count' = depth_count /\ path_get_field' = path_get_field
          /\ depth_count > 0 => StructAt(depth_count)' = StructAt(depth_count)
      BY <1>1, <2>1, SamePath
    <2>3. OnlyEmptyStructsStray'
      BY <1>1, <2>1, <2>2 DEF OnlyEmptyStructsStray
    <2>4. ASSUME Sound PROVE PathInv'
      <3>1. Stands(Walk, depths, depth_count) => Stands(Walk', depths', depth_count')
        BY <1>1, <2>1, <2>2, SamePath
      <3>2. Spans(LevelsUpTo', arrays', IF ctl' = "struct" THEN depth_count' - 1 ELSE depth_count')
        <4>1. Spans(LevelsUpTo, arrays, IF ctl = "struct" THEN depth_count - 1 ELSE depth_count)
          BY <1>1, <2>4 DEF PathInv
        <4>2. Spans(LevelsUpTo', arrays, IF ctl = "struct" THEN depth_count - 1 ELSE depth_count)
          BY <1>1, <2>1, <4>1, SamePath
        <4> QED
          BY <2>1, <2>2, <4>2
      <3>3. OnEmptyRoot => OnEmptyRoot'
        BY <2>1, <2>2 DEF OnEmptyRoot
      <3> QED
        BY <1>1, <2>1, <2>2, <2>4, <3>1, <3>2, <3>3 DEF PathInv
    <2>5. ASSUME ~Sound PROVE PathInv'
      BY <2>1, <2>5 DEF PathInv, Sound
    <2> QED
      BY <2>3, <2>4, <2>5
  <1>3. CASE Continue
    <2>1. UNCHANGED fh
      BY <1>3 DEF Continue
    <2>2. CASE NextElement
      BY <1>1, <2>1, <2>2, NextElementPath
    <2>3. CASE EndArray
      BY <1>1, <2>1, <2>3, EndArrayPath
    <2>4. CASE LeaveArrays
      BY <1>1, <2>1, <2>4, LeaveArraysPath
    <2>5. CASE NextMember
      BY <1>1, <2>1, <2>5, NextMemberPath
    <2>6. CASE EndStruct
      BY <1>1, <2>1, <2>6, EndStructPath
    <2>7. CASE NoMember
      BY <1>1, <2>1, <2>7, NoMemberPath
    <2>8. CASE UpdatePath
      BY <1>1, <2>1, <2>8, UpdatePathPath
    <2>9. CASE PathUpdated
      BY <1>1, <2>1, <2>9, PathUpdatedPath
    <2>10. CASE EnterStruct
      BY <1>1, <2>1, <2>10, EnterStructPath
    <2>11. CASE EnterStructFails
      BY <1>1, <2>1, <2>11, EnterStructFailsPath
    <2> QED
      BY <1>3, <2>2, <2>3, <2>4, <2>5, <2>6, <2>7, <2>8, <2>9, <2>10, <2>11 DEF Continue, PathStep
  <1>4. ASSUME NEW apdu \in APDU, StructImplName(apdu)
        PROVE  PathInv' /\ OnlyEmptyStructsStray'
    BY <1>1, <1>4, SetRootPath DEF StructImplName
  <1>5. ASSUME NEW apdu \in APDU, StructImplField(apdu)
        PROVE  PathInv' /\ OnlyEmptyStructsStray'
    <2>1. apdu.data \in Seq(Byte) /\ apdu.partial \in BOOLEAN
      BY <1>5, HostAssumption DEF APDU, StructImplField
    <2> QED
      BY <1>1, <1>5, <2>1, FieldHashPath DEF StructImplField
  <1>6. ASSUME NEW apdu \in APDU, StructImplArray(apdu)
        PROVE  PathInv' /\ OnlyEmptyStructsStray'
    <2>1. apdu.size \in Byte
      BY <1>6, HostAssumption DEF APDU, StructImplArray
    <2> QED
      BY <1>1, <1>6, <2>1, NewArrayPath DEF StructImplArray
  <1>7. ASSUME NEW apdu \in APDU, Unknown(apdu)
        PROVE  PathInv' /\ OnlyEmptyStructsStray'
    BY <1>7, EndingStep DEF Unknown
  <1> QED
    BY <1>2, <1>3, <1>4, <1>5, <1>6, <1>7 DEF Next, handle_apdu

LEMMA PathInductive == Spec => []DInv
  BY PathStarts, PathNext, PTL DEF Spec

-----------------------------------------------------------------------------

LEMMA SettledPath ==
    ASSUME DInv, Settled
    PROVE  /\ Stands(Walk, depths, depth_count)
           /\ Spans(LevelsUpTo, arrays, depth_count)
           /\ depth_count > 0 => path_get_field \in Fields /\ ~IS_CUSTOM(path_get_field)
  <1>1. status = "run" /\ ctl = "ready" /\ ~dropped /\ IInv /\ PathInv
    BY DEF DInv, Settled, Running
  <1>2. Stands(Walk, depths, depth_count) /\ Spans(LevelsUpTo, arrays, depth_count)
    BY <1>1, StandsNow
  <1>3. depth_count > 0 => ~IS_CUSTOM(path_get_field)
    BY <1>1 DEF PathInv, Sound
  <1> QED
    BY <1>1, <1>2, <1>3, FieldHere

(* Between two APDUs the path points to a field that holds a value: no     *)
(* advance, nested struct or array leaves it on a struct, past the last    *)
(* field or nowhere before the message is done (path_get_field).           *)
THEOREM PathStandsOnValue == Spec => []PathOnValue
  <1>1. DInv => PathOnValue
    BY SettledPath DEF PathOnValue
  <1> QED
    BY <1>1, PathInductive, PTL

(* The open arrays are of fields on the path, the outer ones first, and no *)
(* field has more of them open than it has levels, whether or not the      *)
(* count of levels wraps in its byte (path_new_array_depth).               *)
THEOREM ArraysStayOnPath == Spec => []ArraysOnPath
  <1>1. DInv => ArraysOnPath
    <2> SUFFICES ASSUME DInv, Settled
                 PROVE  /\ \A i \in 1..array_depth_count : arrays[i].path_index < depth_count
                        /\ \A i, j \in 1..array_depth_count :
                               i < j => arrays[i].path_index <= arrays[j].path_index
                        /\ \A n \in 1..depth_count :
                               Cardinality({i \in 1..array_depth_count :
                                                arrays[i].path_index = n - 1})
                                   <= Len(get_nth_field_from_path(n).lvls)
      BY DEF ArraysOnPath
    <2>1. IInv
      BY DEF DInv
    <2>2. Stands(Walk, depths, depth_count) /\ Spans(LevelsUpTo, arrays, depth_count)
      BY SettledPath
    <2>3. arrays \in Seq(ArrayDepth) /\ depth_count \in Nat /\ depth_count \in Int
      BY <2>1, PathTypes
    <2>4. /\ \A n \in 1..depth_count : Walk[n].field \in Fields
          /\ \A n \in 0..depth_count : LevelsUpTo[n] \in Nat
      BY <2>1, <2>2, LevelsHere
    <2>5. \A i \in 1..array_depth_count : arrays[i].path_index < depth_count
      BY <2>2 DEF Spans, array_depth_count
    <2>6. \A i, j \in 1..array_depth_count :
              i < j => arrays[i].path_index <= arrays[j].path_index
      <3>1. \A i, j \in 1..Len(arrays) :
                i < j => arrays[i].path_index <= arrays[j].path_index
        BY <2>2, <2>3, <2>4, SpansSorted
      <3> QED
        BY <3>1 DEF array_depth_count
    <2>7. ASSUME NEW n \in 1..depth_count
          PROVE  Cardinality({i \in 1..array_depth_count : arrays[i].path_index = n - 1})
                     <= Len(get_nth_field_from_path(n).lvls)
      <3>1. Cardinality({i \in 1..Len(arrays) : arrays[i].path_index = n - 1})
                <= Len(Walk[n].field.lvls)
        BY <2>2, <2>3, <2>4, LevelsAreLevels, SpansLevels
      <3>2. get_nth_field_from_path(n) = Walk[n].field
        BY DEF get_nth_field_from_path
      <3> QED
        BY <3>1, <3>2 DEF array_depth_count
    <2> QED
      BY <2>5, <2>6, <2>7
  <1> QED
    BY <1>1, PathInductive, PTL

(* When the last field of the root struct is done, all the memory the      *)
(* message used is back: no array is left open without a path.             *)
THEOREM MemoryReleased == Spec => []Released
  <1>1. DInv => Released
    <2> SUFFICES ASSUME DInv, Settled, depth_count = 0
                 PROVE  mem_idx = DefsEnd + CTX_SIZE * base
      BY DEF Released
    <2>1. IInv /\ ~dropped /\ base \in Nat /\ arrays \in Seq(ArrayDepth)
      BY PathTypes DEF DInv, IInv, TypeOK, Settled
    <2>2. array_depth_count = 0
      <3>1. array_depth_count \in Nat /\ Spans(LevelsUpTo, arrays, 0)
        BY <2>1, SettledPath, PathTypes
      <3>2. ASSUME array_depth_count > 0 PROVE FALSE
        <4>1. 1 \in 1..Len(arrays)
          BY <3>1, <3>2 DEF array_depth_count
        <4>2. arrays[1].path_index \in Nat /\ arrays[1].path_index < 0
          BY <2>1, <3>1, <4>1, PathIndex DEF Spans
        <4> QED
          BY <4>2
      <3> QED
        BY <3>1, <3>2
    <2>3. Len(heap) = base /\ mem_idx = DefsEnd + CTX_SIZE * Len(heap)
      BY <2>1, <2>2 DEF IInv, Balanced
    <2> QED
      BY <2>3
  <1> QED
    BY <1>1, PathInductive, PTL

(* The index after the last field, which the bounds check lets through, is *)
(* only ever used in a struct that has no field at all.                    *)
THEOREM PastTheEndOfEmptyOnly == Spec => []OnlyEmptyStructsStray
  <1>1. DInv => OnlyEmptyStructsStray
    BY DEF DInv
  <1> QED
    BY <1>1, PathInductive, PTL

=============================================================================
