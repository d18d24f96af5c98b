------------------------- MODULE DefinitionsProofs --------------------------
(***************************************************************************)
(* The definitions that the signer keeps, for every set of names and       *)
(* fields, every size of the memory and of its counts and every sequence   *)
(* of APDUs: their types (TypeOK), that those that were kept still read as *)
(* they were sent (CompleteStructsKept), that a name is looked up in the   *)
(* order of definition (LookupFindsFirst), and that the accessors show a   *)
(* list that grows as Schema says (KeepsSchema).                           *)
(*                                                                         *)
(* The invariant (DefInv) places the structs in memory: there are          *)
(* addresses at which they lie one after the other, each held byte by byte *)
(* (Kept), all but the last below what any step may still write - the      *)
(* count of fields, which is in the last struct or above, and the top of   *)
(* the definitions - and the last one too as long as nothing was refused,  *)
(* cut, wrapped or sent too late. That the accessors find them there       *)
(* (StructsFound) then follows struct by struct.                           *)
(***************************************************************************)
EXTENDS DefinitionsFacts

(* The contexts lie above the definitions.                                 *)
TypeInv ==
    /\ TypeOK
    /\ structs_array + 1 + contexts * CTX_SIZE <= mem_idx

LEMMA TypeFacts ==
    ASSUME TypeOK
    PROVE  /\ mem \in Memory /\ mem_idx \in Nat /\ mem_idx <= SIZE_MEM_BUFFER
           /\ structs_array + 1 <= mem_idx /\ mem_idx \in 0..SIZE_MEM_BUFFER
           /\ buf \in Buffer /\ contexts \in Nat
  <1>1. mem \in Memory /\ buf \in Buffer
    BY DEF TypeOK, Memory, Buffer
  <1>2. mem_idx \in (structs_array + 1)..SIZE_MEM_BUFFER
    BY DEF TypeOK
  <1>3. contexts \in Nat
    BY DEF TypeOK
  <1> QED
    BY <1>1, <1>2, <1>3, StructsArray, Constants

LEMMA IncrementedType ==
    ASSUME NEW m \in Memory, NEW p \in 0..(SIZE_MEM_BUFFER - 1)
    PROVE  /\ Incremented(m, p) \in Memory
           /\ Incremented(m, p)[p] = (m[p] + 1) % COUNT_VALUES
           /\ \A a \in 0..(SIZE_MEM_BUFFER - 1) : a # p => Incremented(m, p)[a] = m[a]
  <1>1. m[p] \in Nat
    BY ByteRange DEF Memory
  <1>2. (m[p] + 1) % COUNT_VALUES \in 0..(COUNT_VALUES - 1)
    BY <1>1, Constants
  <1>3. (m[p] + 1) % COUNT_VALUES \in Byte
    BY <1>2, Constants, ByteRange
  <1> QED
    BY <1>3 DEF Incremented, Memory

(* What a function that keeps its pieces leaves below them.                *)
LEMMA KeepType ==
    ASSUME TypeOK, NEW m \in Memory, NEW pieces \in Seq(AnyPiece), Keep(m, pieces)
    PROVE  /\ mem' \in Memory
           /\ mem_idx' \in mem_idx..SIZE_MEM_BUFFER
           /\ \A a \in 0..(SIZE_MEM_BUFFER - 1) : a < mem_idx => mem'[a] = m[a]
  <1> DEFINE n == Allocated(pieces, mem_idx)
  <1>1. mem_idx \in Nat /\ mem_idx \in 0..SIZE_MEM_BUFFER
    BY TypeFacts
  <1>2. n \in 0..Len(pieces) /\ mem_idx + SizeOf(pieces, n) <= SIZE_MEM_BUFFER
    BY <1>1, AllocatedType
  <1>3. mem' = Stored(m, mem_idx, pieces, n) /\ mem_idx' = mem_idx + SizeOf(pieces, n)
    BY DEF Keep
  <1> HIDE DEF n
  <1>4. SizeOf(pieces, n) \in Nat
    <2>1. n \in Nat /\ n <= Len(pieces) /\ n \in 0..n
      BY <1>2, LenProperties
    <2> QED
      BY <2>1, SizeType
  <1>5. /\ Stored(m, mem_idx, pieces, n) \in Memory
        /\ \A a \in 0..(SIZE_MEM_BUFFER - 1) : a < mem_idx => Stored(m, mem_idx, pieces, n)[a] = m[a]
    BY <1>1, <1>2, StoredType
  <1> QED
    BY <1>1, <1>2, <1>3, <1>4, <1>5, Constants

(* As many contexts as fit above the definitions.                          *)
LEMMA ContextsFit ==
    ASSUME NEW n \in Nat, NEW i \in Nat, i <= SIZE_MEM_BUFFER, structs_array + 1 + n * CTX_SIZE <= i
    PROVE  n \in 0..((SIZE_MEM_BUFFER - structs_array) \div CTX_SIZE)
  <1> DEFINE a == SIZE_MEM_BUFFER - structs_array
             q == a \div CTX_SIZE
  <1>1. a \in Nat /\ CTX_SIZE \in Nat /\ CTX_SIZE > 0
    BY StructsArray, Constants
  <1>2. n * CTX_SIZE <= a
    <2>1. n * CTX_SIZE \in Nat
      BY <1>1
    <2> QED
      BY <2>1, StructsArray, Constants
  <1> HIDE DEF a
  <1>3. q \in Nat /\ a < (q + 1) * CTX_SIZE
    BY <1>1
  <1> HIDE DEF q
  <1>4. n <= q
    <2>1. SUFFICES ASSUME n >= q + 1 PROVE FALSE
      BY <1>3
    <2>2. n * CTX_SIZE >= (q + 1) * CTX_SIZE
      BY <1>1, <1>3, <2>1
    <2>3. n * CTX_SIZE \in Nat /\ (q + 1) * CTX_SIZE \in Nat
      BY <1>1, <1>3
    <2> QED
      BY <1>1, <1>2, <1>3, <2>2, <2>3
  <1> QED
    BY <1>3, <1>4 DEF q, a

LEMMA TypeStarts == Init => TypeInv
  <1> SUFFICES ASSUME Init PROVE TypeInv
    OBVIOUS
  <1>1. /\ mem = [a \in 0..(SIZE_MEM_BUFFER - 1) |->
                    IF a < Len(TypenamesTable) THEN TypenamesTable[a + 1] ELSE 0]
        /\ mem_idx = structs_array + 1 /\ buf = [i \in 1..BUF_SIZE |-> 0]
        /\ current_struct_fields_array = NULL /\ status = "run" /\ contexts = 0
    BY DEF Init, DefsInit
  <1>2. mem \in [0..(SIZE_MEM_BUFFER - 1) -> Byte]
    <2>1. ASSUME NEW a \in 0..(SIZE_MEM_BUFFER - 1)
          PROVE  (IF a < Len(TypenamesTable) THEN TypenamesTable[a + 1] ELSE 0) \in Byte
      <3>1. 0 \in Byte
        BY DEF Byte
      <3>2. ASSUME a < Len(TypenamesTable) PROVE TypenamesTable[a + 1] \in Byte
        <4>1. a + 1 \in 1..Len(TypenamesTable)
          BY <3>2, StructsArray
        <4> QED
          BY <4>1, TableType, ElementOfSeq
      <3> QED
        BY <3>1, <3>2
    <2> QED
      BY <1>1, <2>1
  <1>3. buf \in [1..BUF_SIZE -> Byte]
    BY <1>1 DEF Byte
  <1>4. mem_idx \in (structs_array + 1)..SIZE_MEM_BUFFER
    BY <1>1, StructsArray, Constants
  <1>5. structs_array + 1 + contexts * CTX_SIZE <= mem_idx
    BY <1>1, StructsArray, Constants
  <1>6. contexts \in 0..((SIZE_MEM_BUFFER - structs_array) \div CTX_SIZE)
    <2>1. mem_idx \in Nat /\ mem_idx <= SIZE_MEM_BUFFER /\ contexts \in Nat
      BY <1>1, <1>4, StructsArray
    <2> QED
      BY <1>5, <2>1, ContextsFit
  <1> QED
    BY <1>1, <1>2, <1>3, <1>4, <1>5, <1>6 DEF TypeInv, TypeOK

LEMMA ContextBytes ==
    ASSUME NEW n \in Nat
    PROVE  n * CTX_SIZE \in Nat
  BY Constants

LEMMA StillTyped ==
    ASSUME mem' \in Memory, mem_idx' \in Nat, mem_idx' <= SIZE_MEM_BUFFER, contexts' \in Nat,
           structs_array + 1 + contexts' * CTX_SIZE <= mem_idx', buf' \in Buffer,
           current_struct_fields_array' \in {NULL} \cup ((structs_array + 1)..(SIZE_MEM_BUFFER - 1)),
           status' \in {"run", "stray"}
    PROVE  TypeInv'
  <1>1. contexts' \in 0..((SIZE_MEM_BUFFER - structs_array) \div CTX_SIZE)
    BY ContextsFit
  <1>2. mem_idx' \in (structs_array + 1)..SIZE_MEM_BUFFER
    <2> DEFINE taken == contexts' * CTX_SIZE
    <2>1. taken \in Nat
      BY ContextBytes
    <2>2. structs_array + 1 + taken <= mem_idx'
      OBVIOUS
    <2> HIDE DEF taken
    <2> QED
      BY <2>1, <2>2, StructsArray, Constants
  <1>3. mem' \in [0..(SIZE_MEM_BUFFER - 1) -> Byte] /\ buf' \in [1..BUF_SIZE -> Byte]
    BY DEF Memory, Buffer
  <1> QED
    BY <1>1, <1>2, <1>3 DEF TypeInv, TypeOK

LEMMA DefineStructTyped ==
    ASSUME TypeInv, NEW name \in JsonNames, DefineStruct(name)
    PROVE  TypeInv'
  <1> DEFINE data == Received(send_struct_def_name(name))
             pieces == NamePieces(data)
             m == Incremented(mem, structs_array)
             fit == Allocated(pieces, mem_idx)
  <1>1. /\ mem \in Memory /\ mem_idx \in Nat /\ mem_idx <= SIZE_MEM_BUFFER
        /\ structs_array + 1 <= mem_idx /\ mem_idx \in 0..SIZE_MEM_BUFFER
        /\ buf \in Buffer /\ contexts \in Nat /\ TypeOK
    BY TypeFacts DEF TypeInv
  <1>2. data \in Buffer /\ data[5] = Len(name)
    BY <1>1, NameReceived
  <1>3. pieces \in Seq(AnyPiece) /\ Len(pieces) = 3 /\ pieces[3].size = 1
    <2>1. OFFSET_DATA + data[OFFSET_LC + 1] <= BUF_SIZE
      <3>1. OFFSET_LC + 1 = 5 /\ OFFSET_DATA = 5
        BY DEF OFFSET_LC, OFFSET_DATA
      <3> HIDE DEF data
      <3> QED
        BY <1>2, <3>1, NameApdu
    <2> HIDE DEF data
    <2> QED
      BY <1>2, <2>1, NamePiecesType
  <1>4. m \in Memory
    <2>1. structs_array \in 0..(SIZE_MEM_BUFFER - 1)
      BY StructsArray, Constants
    <2> QED
      BY <1>1, <2>1, IncrementedType
  <1>5. /\ status = "run" /\ buf' = data /\ Keep(m, pieces)
        /\ current_struct_fields_array' = CASE fit = 3 -> Address(pieces, 3)
                                            [] fit = 2 -> NULL
                                            [] OTHER   -> current_struct_fields_array
        /\ status' = status /\ contexts' = contexts
    BY DEF DefineStruct, set_struct_name
  <1> HIDE DEF data, pieces, m, fit
  <1>6. mem' \in Memory /\ mem_idx' \in mem_idx..SIZE_MEM_BUFFER
    BY <1>1, <1>3, <1>4, <1>5, KeepType
  <1>7. current_struct_fields_array' \in {NULL} \cup ((structs_array + 1)..(SIZE_MEM_BUFFER - 1))
    <2>1. CASE fit = 3
      <3>1. fit \in 0..3 /\ mem_idx + SizeOf(pieces, fit) <= SIZE_MEM_BUFFER
        BY <1>1, <1>3, AllocatedType DEF fit
      <3>2. SizeOf(pieces, 3) = SizeOf(pieces, 2) + 1
        <4>1. SizeOf(pieces, 2 + 1) = SizeOf(pieces, 2) + pieces[2 + 1].size
          BY SizeSteps
        <4>2. 2 + 1 = 3
          OBVIOUS
        <4> QED
          BY <1>3, <4>1, <4>2
      <3>3. SizeOf(pieces, 2) \in Nat
        BY <1>3, SizeType, SMTT(30)
      <3>4. Address(pieces, 3) = mem_idx + SizeOf(pieces, 2)
        <4>1. 3 - 1 = 2
          OBVIOUS
        <4> QED
          BY <4>1 DEF Address
      <3>5. Address(pieces, 3) \in (structs_array + 1)..(SIZE_MEM_BUFFER - 1)
        BY <1>1, <2>1, <3>1, <3>2, <3>3, <3>4, StructsArray, Constants
      <3> QED
        BY <1>5, <2>1, <3>5
    <2>2. CASE fit = 2
      BY <1>5, <2>2
    <2>3. CASE fit \notin {2, 3}
      <3>1. current_struct_fields_array' = current_struct_fields_array
        BY <1>5, <2>3
      <3> QED
        BY <1>1, <3>1 DEF TypeOK
    <2> QED
      BY <2>1, <2>2, <2>3
  <1>8. structs_array + 1 + contexts' * CTX_SIZE <= mem_idx'
    <2>1. contexts * CTX_SIZE \in Nat /\ structs_array + 1 + contexts * CTX_SIZE <= mem_idx
      BY <1>1, Constants DEF TypeInv
    <2> QED
      BY <1>1, <1>5, <1>6, <2>1, StructsArray
  <1>9. mem_idx' \in Nat /\ mem_idx' <= SIZE_MEM_BUFFER
    BY <1>1, <1>6, Constants
  <1> QED
    BY <1>1, <1>2, <1>5, <1>6, <1>7, <1>8, <1>9, StillTyped

LEMMA SetFieldTyped ==
    ASSUME TypeInv, NEW data \in Buffer, set_struct_field(data), contexts' = contexts, buf' = data,
           status = "run"
    PROVE  TypeInv'
  <1> DEFINE pieces == FieldPieces(data)
             m == Incremented(mem, current_struct_fields_array)
  <1>1. /\ mem \in Memory /\ mem_idx \in Nat /\ mem_idx <= SIZE_MEM_BUFFER
        /\ structs_array + 1 <= mem_idx /\ mem_idx \in 0..SIZE_MEM_BUFFER
        /\ buf \in Buffer /\ contexts \in Nat /\ TypeOK
    BY TypeFacts DEF TypeInv
  <1>2. structs_array + 1 + contexts * CTX_SIZE <= mem_idx /\ contexts * CTX_SIZE \in Nat
    BY <1>1, Constants DEF TypeInv
  <1>3. CASE current_struct_fields_array = NULL \/ ~StaysInside(data, pieces)
    <2>1. status' = "stray" /\ UNCHANGED <<mem, mem_idx, current_struct_fields_array>>
      BY <1>3 DEF set_struct_field
    <2>2. current_struct_fields_array' \in {NULL} \cup ((structs_array + 1)..(SIZE_MEM_BUFFER - 1))
      BY <1>1, <2>1 DEF TypeOK
    <2> QED
      BY <1>1, <1>2, <2>1, <2>2, StillTyped
  <1>4. CASE ~(current_struct_fields_array = NULL \/ ~StaysInside(data, pieces))
    <2>1. Keep(m, pieces) /\ UNCHANGED <<current_struct_fields_array, status>>
      BY <1>4 DEF set_struct_field
    <2>2. current_struct_fields_array \in (structs_array + 1)..(SIZE_MEM_BUFFER - 1)
      BY <1>1, <1>4 DEF TypeOK
    <2>3. m \in Memory
      <3>1. current_struct_fields_array \in 0..(SIZE_MEM_BUFFER - 1)
        BY <2>2, StructsArray, Constants
      <3> QED
        BY <1>1, <3>1, IncrementedType
    <2>4. pieces \in Seq(AnyPiece)
      BY <1>1, FieldPiecesType
    <2> HIDE DEF m, pieces
    <2>5. mem' \in Memory /\ mem_idx' \in mem_idx..SIZE_MEM_BUFFER
      BY <1>1, <2>1, <2>3, <2>4, KeepType
    <2>6. /\ mem_idx' \in Nat /\ mem_idx' <= SIZE_MEM_BUFFER
          /\ structs_array + 1 + contexts' * CTX_SIZE <= mem_idx'
      BY <1>1, <1>2, <2>5, StructsArray, Constants
    <2>7. current_struct_fields_array' \in {NULL} \cup ((structs_array + 1)..(SIZE_MEM_BUFFER - 1))
      BY <2>1, <2>2
    <2> QED
      BY <1>1, <2>1, <2>5, <2>6, <2>7, StillTyped
  <1> QED
    BY <1>3, <1>4

LEMMA DefineFieldTyped ==
    ASSUME TypeInv, NEW field \in JsonFields, DefineField(field)
    PROVE  TypeInv'
  <1> DEFINE apdu == send_struct_def_field(field.type, field.name)
             data == Received(apdu)
  <1>1. /\ status = "run" /\ Len(apdu) <= BUF_SIZE /\ buf' = data
        /\ set_struct_field(data) /\ contexts' = contexts
    BY DEF DefineField
  <1>2. apdu \in Seq(Byte)
    BY <1>1, FieldSendable, FieldApdu
  <1>3. buf \in Buffer
    BY TypeFacts DEF TypeInv
  <1> HIDE DEF apdu
  <1>4. data \in Buffer
    BY <1>1, <1>2, <1>3, ReceivedType
  <1> HIDE DEF data
  <1> QED
    BY <1>1, <1>4, SetFieldTyped

LEMMA DefinePartTyped ==
    ASSUME TypeInv, NEW part \in Parts, DefinePart(part)
    PROVE  TypeInv'
  <1> DEFINE apdu == <<224, 26, 255, 255, Len(part)>> \o part
             data == Received(apdu)
  <1>1. status = "run" /\ buf' = data /\ set_struct_field(data) /\ contexts' = contexts
    BY DEF DefinePart
  <1>2. apdu \in Seq(Byte) /\ Len(apdu) <= BUF_SIZE
    BY PartApdu
  <1>3. buf \in Buffer
    BY TypeFacts DEF TypeInv
  <1> HIDE DEF apdu
  <1>4. data \in Buffer
    BY <1>2, <1>3, ReceivedType
  <1> HIDE DEF data
  <1> QED
    BY <1>1, <1>4, SetFieldTyped

LEMMA ContextImage ==
    ASSUME NEW b \in Byte
    PROVE  /\ [i \in 1..CTX_SIZE |-> b] \in Seq(Byte)
           /\ Len([i \in 1..CTX_SIZE |-> b]) = CTX_SIZE
  <1> DEFINE s == [i \in 1..CTX_SIZE |-> b]
  <1>1. CTX_SIZE \in Nat
    BY Constants
  <1>2. s \in [1..CTX_SIZE -> Byte]
    OBVIOUS
  <1>3. s \in Seq(Byte)
    BY <1>1, <1>2, SeqDef, Zenon
  <1>4. DOMAIN s = 1..CTX_SIZE
    OBVIOUS
  <1>5. Len(s) = CTX_SIZE
    <2>1. DOMAIN s = 1..Len(s) /\ Len(s) \in Nat
      BY <1>3, LenProperties, Zenon
    <2> HIDE DEF s
    <2> QED
      BY <1>1, <1>4, <2>1
  <1> QED
    BY <1>3, <1>5

LEMMA ContextSteps ==
    ASSUME NEW n \in Nat
    PROVE  /\ (n + 1) * CTX_SIZE = n * CTX_SIZE + CTX_SIZE
           /\ n > 0 => /\ n - 1 \in Nat
                       /\ (n - 1) * CTX_SIZE \in Nat
                       /\ n * CTX_SIZE = (n - 1) * CTX_SIZE + CTX_SIZE
  <1>1. \A k \in Nat : (k + 1) * CTX_SIZE = k * CTX_SIZE + CTX_SIZE
    BY Constants
  <1>2. ASSUME n > 0
        PROVE  /\ n - 1 \in Nat /\ (n - 1) * CTX_SIZE \in Nat
               /\ n * CTX_SIZE = (n - 1) * CTX_SIZE + CTX_SIZE
    <2>1. n - 1 \in Nat /\ (n - 1) + 1 = n
      BY <1>2
    <2>2. (n - 1) * CTX_SIZE \in Nat
      BY <2>1, ContextBytes
    <2>3. ((n - 1) + 1) * CTX_SIZE = (n - 1) * CTX_SIZE + CTX_SIZE
      BY <1>1, <2>1
    <2> QED
      BY <2>1, <2>2, <2>3
  <1> QED
    BY <1>1, <1>2

LEMMA PushTyped == ASSUME TypeInv, PushContext PROVE TypeInv'
  <1>1. /\ mem \in Memory /\ mem_idx \in Nat /\ buf \in Buffer /\ contexts \in Nat /\ TypeOK
        /\ structs_array + 1 + contexts * CTX_SIZE <= mem_idx /\ contexts * CTX_SIZE \in Nat
    BY TypeFacts, ContextBytes DEF TypeInv
  <1>2. /\ status' = status /\ buf' = buf /\ mem_idx' = mem_idx + CTX_SIZE
        /\ mem_idx + CTX_SIZE <= SIZE_MEM_BUFFER
        /\ current_struct_fields_array' = current_struct_fields_array /\ contexts' = contexts + 1
        /\ mem' = Written(mem, mem_idx, [i \in 1..CTX_SIZE |-> 255])
    BY DEF PushContext
  <1>3. mem' \in Memory
    <2>1. 255 \in Byte
      BY ByteRange
    <2> QED
      BY <1>1, <1>2, <2>1, ContextImage, WrittenType
  <1>4. structs_array + 1 + contexts' * CTX_SIZE <= mem_idx'
    <2>1. contexts' * CTX_SIZE = contexts * CTX_SIZE + CTX_SIZE
      BY <1>1, <1>2, ContextSteps
    <2> QED
      BY <1>1, <1>2, <2>1, StructsArray, Constants
  <1>5. mem_idx' \in Nat /\ mem_idx' <= SIZE_MEM_BUFFER /\ contexts' \in Nat
    BY <1>1, <1>2, Constants
  <1>6. /\ current_struct_fields_array' \in {NULL} \cup ((structs_array + 1)..(SIZE_MEM_BUFFER - 1))
        /\ status' \in {"run", "stray"} /\ buf' \in Buffer
    BY <1>1, <1>2 DEF TypeOK
  <1> QED
    BY <1>3, <1>4, <1>5, <1>6, StillTyped

LEMMA HashTyped == ASSUME TypeInv, HashIntoTop PROVE TypeInv'
  <1>1. /\ mem \in Memory /\ mem_idx \in Nat /\ buf \in Buffer /\ contexts \in Nat /\ TypeOK
        /\ mem_idx <= SIZE_MEM_BUFFER
        /\ structs_array + 1 + contexts * CTX_SIZE <= mem_idx /\ contexts * CTX_SIZE \in Nat
    BY TypeFacts, ContextBytes DEF TypeInv
  <1>2. /\ status' = status /\ buf' = buf /\ mem_idx' = mem_idx /\ contexts > 0
        /\ current_struct_fields_array' = current_struct_fields_array /\ contexts' = contexts
        /\ mem' = Written(mem, mem_idx - CTX_SIZE, [i \in 1..CTX_SIZE |-> 254])
    BY DEF HashIntoTop
  <1>3. mem' \in Memory
    <2>1. 254 \in Byte
      BY ByteRange
    <2>2. mem_idx - CTX_SIZE \in Nat
      <3>1. contexts * CTX_SIZE = (contexts - 1) * CTX_SIZE + CTX_SIZE /\ (contexts - 1) * CTX_SIZE \in Nat
        BY <1>1, <1>2, ContextSteps
      <3> QED
        BY <1>1, <3>1, StructsArray, Constants
    <2> QED
      BY <1>1, <1>2, <2>1, <2>2, ContextImage, WrittenType
  <1>4. /\ current_struct_fields_array' \in {NULL} \cup ((structs_array + 1)..(SIZE_MEM_BUFFER - 1))
        /\ status' \in {"run", "stray"} /\ buf' \in Buffer
    BY <1>1, <1>2 DEF TypeOK
  <1>5. /\ structs_array + 1 + contexts' * CTX_SIZE <= mem_idx'
        /\ mem_idx' \in Nat /\ mem_idx' <= SIZE_MEM_BUFFER /\ contexts' \in Nat
    BY <1>1, <1>2
  <1> QED
    BY <1>3, <1>4, <1>5, StillTyped

LEMMA PopTyped == ASSUME TypeInv, PopContext PROVE TypeInv'
  <1>1. /\ mem \in Memory /\ mem_idx \in Nat /\ buf \in Buffer /\ contexts \in Nat /\ TypeOK
        /\ mem_idx <= SIZE_MEM_BUFFER
        /\ structs_array + 1 + contexts * CTX_SIZE <= mem_idx
    BY TypeFacts DEF TypeInv
  <1>2. /\ status' = status /\ buf' = buf /\ mem_idx' = mem_idx - CTX_SIZE /\ contexts > 0
        /\ current_struct_fields_array' = current_struct_fields_array
        /\ contexts' = contexts - 1 /\ mem' = mem
    BY DEF PopContext
  <1>3. /\ contexts * CTX_SIZE = (contexts - 1) * CTX_SIZE + CTX_SIZE
        /\ (contexts - 1) * CTX_SIZE \in Nat /\ contexts - 1 \in Nat
    BY <1>1, <1>2, ContextSteps
  <1>4. /\ structs_array + 1 + contexts' * CTX_SIZE <= mem_idx'
        /\ mem_idx' \in Nat /\ mem_idx' <= SIZE_MEM_BUFFER /\ contexts' \in Nat
    <2>1. contexts' * CTX_SIZE = (contexts - 1) * CTX_SIZE
      BY <1>2
    <2> QED
      BY <1>1, <1>2, <1>3, <2>1, StructsArray, Constants
  <1>5. /\ current_struct_fields_array' \in {NULL} \cup ((structs_array + 1)..(SIZE_MEM_BUFFER - 1))
        /\ status' \in {"run", "stray"} /\ buf' \in Buffer /\ mem' \in Memory
    BY <1>1, <1>2 DEF TypeOK
  <1> QED
    BY <1>4, <1>5, StillTyped

LEMMA TypeStep == TypeInv /\ [Next]_vars => TypeInv'
  <1> SUFFICES ASSUME TypeInv, [Next]_vars PROVE TypeInv'
    OBVIOUS
  <1>1. ASSUME NEW name \in JsonNames, DefineStruct(name) PROVE TypeInv'
    BY <1>1, DefineStructTyped
  <1>2. ASSUME NEW field \in JsonFields, DefineField(field) PROVE TypeInv'
    BY <1>2, DefineFieldTyped
  <1>3. ASSUME NEW part \in Parts, DefinePart(part) PROVE TypeInv'
    BY <1>3, DefinePartTyped
  <1>4. CASE PushContext
    BY <1>4, PushTyped
  <1>5. CASE HashIntoTop
    BY <1>5, HashTyped
  <1>6. CASE PopContext
    BY <1>6, PopTyped
  <1>7. CASE UNCHANGED vars
    BY <1>7 DEF vars, defVars, TypeInv, TypeOK
  <1> QED
    BY <1>1, <1>2, <1>3, <1>4, <1>5, <1>6, <1>7 DEF Next

(* Whatever definitions arrive, however they are cut, and however contexts *)
(* come and go above them, the memory holds bytes, its index stays in it,  *)
(* and the fields counted are those of a struct (entrypoint.c, mem.c).     *)
THEOREM DefinitionsTypes == Spec => []TypeOK
  <1>1. TypeInv => TypeOK
    BY DEF TypeInv
  <1> QED
    BY TypeStarts, TypeStep, <1>1, PTL DEF Spec

-----------------------------------------------------------------------------

(***************************************************************************)
(* The structs held in memory, field by field.                             *)
(***************************************************************************)

(* w has the bytes of m from lo up to hi.                                  *)
Agree(w, m, lo, hi) == \A a \in lo..(hi - 1) : w[a] = m[a]

Meanings == {Meaning(field) : field \in JsonFields}

Definition == [name : Seq(Byte), fields : Seq(Meanings)]

(* At p is a field of that meaning, and at q what follows it.              *)
FieldAt(m, p, meaning, q) ==
    \E field \in JsonFields :
        /\ meaning = Meaning(field)
        /\ Holds(m, p, Payload(field.type, field.name))
        /\ q = p + Len(Payload(field.type, field.name))

(* The fields lie one after the other at the places at.                    *)
FieldsAt(m, fields, at) ==
    \A n \in 1..Len(fields) : FieldAt(m, at[n], fields[n], at[n + 1])

(* At p is that struct - its name, the count of its fields and those - and *)
(* at q what follows it.                                                   *)
StructAt(m, p, s, q) ==
    LET count == p + 1 + Len(s.name)
    IN  /\ Holds(m, p, <<Len(s.name)>> \o s.name)
        /\ m[count] = Len(s.fields)
        /\ \E at \in [1..(Len(s.fields) + 1) -> (count + 1)..q] :
               /\ at[1] = count + 1 /\ at[Len(s.fields) + 1] = q
               /\ FieldsAt(m, s.fields, at)

LEMMA HoldsFrame ==
    ASSUME NEW m, NEW w, NEW p \in Int, NEW s, Len(s) \in Nat, Holds(m, p, s),
           NEW lo \in Int, NEW hi \in Int, lo <= p, p + Len(s) <= hi, Agree(w, m, lo, hi)
    PROVE  Holds(w, p, s)
  <1> SUFFICES ASSUME NEW i \in 1..Len(s) PROVE w[p + i - 1] = s[i]
    BY DEF Holds
  <1> DEFINE k == Len(s)
             a == p + i - 1
  <1>1. k \in Nat /\ i \in 1..k /\ p + k <= hi
    OBVIOUS
  <1>2. a \in lo..(hi - 1)
    <2> HIDE DEF k
    <2> QED
      BY <1>1
  <1>3. m[a] = s[i]
    BY DEF Holds
  <1> HIDE DEF a
  <1>4. w[a] = m[a]
    BY <1>2 DEF Agree
  <1> QED
    BY <1>3, <1>4 DEF a

LEMMA PayloadSize ==
    ASSUME NEW field \in JsonFields
    PROVE  /\ Sendable(field.type, field.name)
           /\ Len(Payload(field.type, field.name)) \in Nat
  <1>1. Sendable(field.type, field.name)
    BY FieldSendable
  <1>2. Payload(field.type, field.name) \in Seq(Nat)
    BY <1>1, PayloadLength
  <1> QED
    BY <1>1, <1>2, LenProperties

LEMMA FieldFrame ==
    ASSUME NEW m, NEW w, NEW p \in Int, NEW meaning, NEW q \in Int, FieldAt(m, p, meaning, q),
           NEW lo \in Int, NEW hi \in Int, lo <= p, q <= hi, Agree(w, m, lo, hi)
    PROVE  FieldAt(w, p, meaning, q)
  <1>1. PICK field \in JsonFields :
            /\ meaning = Meaning(field)
            /\ Holds(m, p, Payload(field.type, field.name))
            /\ q = p + Len(Payload(field.type, field.name))
    BY DEF FieldAt
  <1>2. Len(Payload(field.type, field.name)) \in Nat
    BY PayloadSize
  <1> DEFINE payload == Payload(field.type, field.name)
  <1>3. Holds(m, p, payload) /\ Len(payload) \in Nat /\ p + Len(payload) <= hi
    BY <1>1, <1>2
  <1> HIDE DEF payload
  <1>4. Holds(w, p, payload)
    BY <1>3, HoldsFrame
  <1> QED
    BY <1>1, <1>4 DEF FieldAt, payload

LEMMA NameSize ==
    ASSUME NEW s \in Definition
    PROVE  /\ s.name \in Seq(Byte) /\ s.fields \in Seq(Meanings)
           /\ Len(s.name) \in Nat /\ Len(s.fields) \in Nat
           /\ <<Len(s.name)>> \o s.name \in Seq(Nat)
           /\ Len(<<Len(s.name)>> \o s.name) = 1 + Len(s.name)
  <1>1. s.name \in Seq(Byte) /\ s.fields \in Seq(Meanings)
    BY DEF Definition
  <1>2. Len(s.name) \in Nat /\ Len(s.fields) \in Nat /\ s.name \in Seq(Nat)
    BY <1>1, LenProperties, BytesAreNumbers
  <1>3. <<Len(s.name)>> \in Seq(Nat) /\ Len(<<Len(s.name)>>) = 1
    BY <1>2
  <1>4. /\ <<Len(s.name)>> \o s.name \in Seq(Nat)
        /\ Len(<<Len(s.name)>> \o s.name) = 1 + Len(s.name)
    BY <1>2, <1>3, ConcatProperties
  <1> QED
    BY <1>1, <1>2, <1>4

LEMMA StructFrame ==
    ASSUME NEW m, NEW w, NEW p \in Int, NEW s \in Definition, NEW q \in Int, StructAt(m, p, s, q),
           NEW lo \in Int, NEW hi \in Int, lo <= p, q <= hi, Agree(w, m, lo, hi)
    PROVE  StructAt(w, p, s, q)
  <1> DEFINE k == Len(s.fields)
             h == Len(s.name)
             count == p + 1 + h
             name == <<Len(s.name)>> \o s.name
  <1>1. k \in Nat /\ h \in Nat /\ Len(name) = 1 + h
    BY NameSize
  <1>2. /\ Holds(m, p, name) /\ m[count] = k
        /\ \E at \in [1..(k + 1) -> (count + 1)..q] :
               at[1] = count + 1 /\ at[k + 1] = q /\ FieldsAt(m, s.fields, at)
    BY DEF StructAt
  <1>3. PICK at \in [1..(k + 1) -> (count + 1)..q] :
            at[1] = count + 1 /\ at[k + 1] = q /\ FieldsAt(m, s.fields, at)
    BY <1>2
  <1> HIDE DEF k, h, name
  <1>4. at[1] \in (count + 1)..q
    BY <1>1, <1>3
  <1>5. count \in Int /\ count + 1 <= q
    BY <1>1, <1>3, <1>4
  <1>6. Holds(w, p, name)
    <2>1. Len(name) \in Nat /\ p + Len(name) <= hi
      BY <1>1, <1>5
    <2> QED
      BY <1>2, <2>1, HoldsFrame
  <1>7. w[count] = k
    <2>1. count \in lo..(hi - 1)
      BY <1>1, <1>5
    <2> HIDE DEF count
    <2> QED
      BY <1>2, <2>1 DEF Agree
  <1>8. FieldsAt(w, s.fields, at)
    <2> SUFFICES ASSUME NEW n \in 1..k PROVE FieldAt(w, at[n], s.fields[n], at[n + 1])
      BY DEF FieldsAt, k
    <2>1. FieldAt(m, at[n], s.fields[n], at[n + 1])
      BY <1>3 DEF FieldsAt, k
    <2>2. n \in 1..(k + 1) /\ n + 1 \in 1..(k + 1)
      BY <1>1
    <2>3. at[n] \in (count + 1)..q /\ at[n + 1] \in (count + 1)..q
      BY <1>3, <2>2
    <2> DEFINE x == at[n]
               y == at[n + 1]
    <2>4. x \in Int /\ y \in Int /\ lo <= x /\ y <= hi
      <3> HIDE DEF x, y
      <3>1. x \in (count + 1)..q /\ y \in (count + 1)..q
        BY <2>3 DEF x, y
      <3> QED
        BY <1>1, <1>5, <3>1
    <2>5. FieldAt(m, x, s.fields[n], y)
      BY <2>1
    <2> HIDE DEF x, y
    <2>6. FieldAt(w, x, s.fields[n], y)
      BY <2>4, <2>5, FieldFrame
    <2> QED
      BY <2>6 DEF x, y
  <1>9. \E g \in [1..(k + 1) -> (count + 1)..q] :
            g[1] = count + 1 /\ g[k + 1] = q /\ FieldsAt(w, s.fields, g)
    BY <1>3, <1>8
  <1> QED
    BY <1>6, <1>7, <1>9 DEF StructAt, k, h, name

LEMMA FieldPtrIs == ASSUME NEW p PROVE FieldPtr(p) = FieldsIn(mem, p)
  BY DEF FieldPtr, FieldsIn, get_struct_fields_array, AfterString, get_next_struct_field, NextField,
         KeynamePtr, KeyIn, get_struct_field_array_lvls_array, struct_field_half_skip, HalfSkip,
         struct_field_type, struct_field_has_typesize, struct_field_is_array, LevelPtr, LevelsIn,
         get_next_struct_field_array_lvl, NextLevel

LEMMA StructPtrIs == StructPtr = StructsIn(mem)
  BY DEF StructPtr, StructsIn, get_next_struct, NextStruct, FieldsCount,
         FieldPtr, FieldsIn, get_struct_fields_array, AfterString, get_next_struct_field, NextField,
         KeynamePtr, KeyIn, get_struct_field_array_lvls_array, struct_field_half_skip, HalfSkip,
         struct_field_type, struct_field_has_typesize, struct_field_is_array, LevelPtr, LevelsIn,
         get_next_struct_field_array_lvl, NextLevel

LEMMA FieldPtrSteps ==
    ASSUME NEW p
    PROVE  /\ FieldPtr(p)[1] = get_struct_fields_array(p) + 1
           /\ \A n \in Nat \ {0} : FieldPtr(p)[n + 1] = get_next_struct_field(FieldPtr(p)[n])
  <1>1. \A x : get_next_struct_field(x) = NextField(mem, x)
    BY LevelPtrIs, SMTT(30) DEF get_next_struct_field, NextField, AfterString,
         KeynamePtr, KeyIn, get_struct_field_array_lvls_array, struct_field_half_skip, HalfSkip,
         struct_field_type, struct_field_has_typesize, struct_field_is_array
  <1>2. FieldsIn(mem, p)[1] = get_struct_fields_array(p) + 1
    BY FieldsStep DEF get_struct_fields_array, AfterString
  <1> QED
    BY <1>1, <1>2, FieldPtrIs, FieldsStep

LEMMA StructPtrSteps ==
    /\ StructPtr[1] = structs_array + 1
    /\ \A n \in Nat \ {0} : StructPtr[n + 1] = get_next_struct(StructPtr[n])
  <1>1. \A x : get_next_struct(x) = NextStruct(mem, x)
    BY FieldPtrIs DEF get_next_struct, NextStruct, FieldsCount, get_struct_fields_array, AfterString
  <1> QED
    BY <1>1, StructPtrIs, StructsStep

(* A struct that is held is read back, and so is the place of the next.    *)
LEMMA StructHeld ==
    ASSUME mem \in Memory, Holds(mem, 0, TypenamesTable), NEW p \in Nat, NEW s \in Definition,
           NEW q \in Int, StructAt(mem, p, s, q)
    PROVE  /\ get_struct_name(p) = s.name /\ FieldsCount(p) = Len(s.fields)
           /\ DecodedStruct(p) = s /\ get_next_struct(p) = q
           /\ \A n \in 1..Len(s.fields) : SizeRead(FieldPtr(p)[n])
  <1> DEFINE k == Len(s.fields)
             h == Len(s.name)
             count == p + 1 + h
             name == <<Len(s.name)>> \o s.name
             P(n) == FieldPtr(p)[n]
  <1>1. k \in Nat /\ h \in Nat /\ s.name \in Seq(Nat) /\ s.fields \in Seq(Meanings)
    BY NameSize, BytesAreNumbers
  <1>2. Holds(mem, p, name) /\ mem[count] = k
    BY DEF StructAt
  <1>3. PICK at \in [1..(k + 1) -> (count + 1)..q] :
            at[1] = count + 1 /\ at[k + 1] = q /\ FieldsAt(mem, s.fields, at)
    BY DEF StructAt
  <1>4. StringAt(p) = s.name /\ AfterString(p) = count
    BY <1>1, <1>2, StringHeld
  <1>5. get_struct_name(p) = s.name /\ get_struct_fields_array(p) = count /\ FieldsCount(p) = k
    BY <1>2, <1>4 DEF get_struct_name, get_struct_fields_array, FieldsCount
  <1>6. P(1) = count + 1 /\ \A n \in Nat \ {0} : P(n + 1) = get_next_struct_field(P(n))
    <2> HIDE DEF count
    <2> QED
      BY <1>5, FieldPtrSteps
  <1> HIDE DEF P, name
  <1>7. ASSUME NEW n \in 1..k, P(n) = at[n]
        PROVE  DecodedField(P(n)) = s.fields[n] /\ P(n + 1) = at[n + 1] /\ SizeRead(P(n))
    <2>1. PICK field \in JsonFields :
              /\ s.fields[n] = Meaning(field)
              /\ Holds(mem, at[n], Payload(field.type, field.name))
              /\ at[n + 1] = at[n] + Len(Payload(field.type, field.name))
      BY <1>3 DEF FieldsAt, FieldAt
    <2> DEFINE x == at[n]
    <2>2. x \in Nat
      <3>1. n \in 1..(k + 1)
        BY <1>1
      <3>2. x \in (count + 1)..q
        BY <1>3, <3>1
      <3> HIDE DEF x, k, h
      <3> QED
        BY <1>1, <3>2
    <2> HIDE DEF x
    <2>3. Holds(mem, x, Payload(field.type, field.name))
      BY <2>1 DEF x
    <2>4. /\ DecodedField(x) = Meaning(field) /\ SizeRead(x)
          /\ get_next_struct_field(x) = x + Len(Payload(field.type, field.name))
      BY <2>2, <2>3, FieldHeld
    <2>5. P(n) = x /\ at[n + 1] = x + Len(Payload(field.type, field.name))
      BY <1>7, <2>1 DEF x
    <2>6. P(n + 1) = get_next_struct_field(P(n))
      BY <1>1, <1>6
    <2> QED
      BY <2>1, <2>4, <2>5, <2>6
  <1> HIDE DEF k
  <1> DEFINE T == {n \in Nat : n <= k => P(n + 1) = at[n + 1]}
  <1>8. T = Nat
    <2>1. 0 \in T
      <3>1. P(0 + 1) = at[0 + 1]
        <4> HIDE DEF count
        <4> QED
          BY <1>3, <1>6
      <3> QED
        BY <3>1
    <2>2. ASSUME NEW n \in T PROVE n + 1 \in T
      <3>1. n \in Nat /\ n + 1 \in Nat
        BY <2>2
      <3>2. ASSUME n + 1 <= k PROVE P((n + 1) + 1) = at[(n + 1) + 1]
        <4>1. n + 1 \in 1..k /\ n <= k
          BY <1>1, <3>1, <3>2
        <4>2. P(n + 1) = at[n + 1]
          BY <2>2, <4>1
        <4> QED
          BY <1>7, <4>1, <4>2
      <3> QED
        BY <3>1, <3>2
    <2>3. T \in SUBSET Nat
      OBVIOUS
    <2> HIDE DEF T
    <2> QED
      BY <2>1, <2>2, <2>3, Sizes!SetInduction
  <1> HIDE DEF T
  <1>9. P(k + 1) = q
    <2>1. k \in T /\ k <= k
      BY <1>1, <1>8
    <2> QED
      BY <1>3, <2>1 DEF T
  <1>10. ASSUME NEW n \in 1..k PROVE DecodedField(P(n)) = s.fields[n] /\ SizeRead(P(n))
    <2>1. n - 1 \in Nat /\ n - 1 <= k /\ (n - 1) + 1 = n
      BY <1>1
    <2>2. n - 1 \in T
      BY <1>8, <2>1
    <2>3. P(n) = at[n]
      BY <2>1, <2>2 DEF T
    <2> QED
      BY <1>7, <2>3
  <1>11. get_next_struct(p) = q
    BY <1>5, <1>9 DEF get_next_struct, P
  <1>12. DecodedStruct(p) = s
    <2>1. [n \in 1..k |-> DecodedField(P(n))] = s.fields
      <3>1. s.fields = [n \in 1..k |-> s.fields[n]]
        BY <1>1 DEF k
      <3> QED
        BY <1>10, <3>1
    <2>2. DecodedStruct(p) = [name |-> s.name, fields |-> [n \in 1..k |-> DecodedField(P(n))]]
      BY <1>5 DEF DecodedStruct, P
    <2>3. s = [name |-> s.name, fields |-> s.fields]
      BY DEF Definition
    <2> QED
      BY <2>1, <2>2, <2>3
  <1> QED
    BY <1>5, <1>10, <1>11, <1>12 DEF k, P

LEMMA StructBegins ==
    ASSUME NEW m, NEW p \in Nat, NEW name \in Seq(Byte),
           Holds(m, p, (<<Len(name)>> \o name) \o << 0 >>)
    PROVE  StructAt(m, p, [name |-> name, fields |-> << >>], p + 2 + Len(name))
  <1> DEFINE s == [name |-> name, fields |-> << >>]
             h == Len(name)
             bytes == <<Len(name)>> \o name
             first == p + 2 + h
             count == p + 1 + h
             at == [i \in 1..1 |-> first]
  <1>1. s \in Definition /\ s.name = name /\ s.fields = << >> /\ Len(<< >>) = 0
    <2>1. << >> \in Seq(Meanings)
      OBVIOUS
    <2> QED
      BY <2>1 DEF Definition
  <1>2. bytes \in Seq(Nat) /\ Len(bytes) = 1 + h /\ h \in Nat
    <2> HIDE DEF s
    <2>1. <<Len(s.name)>> \o s.name = bytes
      BY <1>1
    <2> QED
      BY <1>1, <2>1, NameSize
  <1>3. <<0>> \in Seq(Nat) /\ p \in Int
    OBVIOUS
  <1> HIDE DEF bytes, h, s
  <1>4. Holds(m, p, bytes \o <<0>>)
    BY DEF bytes
  <1>5. Holds(m, p, bytes) /\ Holds(m, p + Len(bytes), <<0>>)
    BY <1>2, <1>3, <1>4, HoldsConcat
  <1>6. p + Len(bytes) = count /\ count \in Int /\ count + 1 = first /\ first \in Int
    BY <1>2
  <1> HIDE DEF count, first
  <1>7. m[count] = 0
    BY <1>5, <1>6, HoldsOne
  <1>8. at \in [1..(0 + 1) -> (count + 1)..first] /\ at[1] = count + 1 /\ at[0 + 1] = first
    BY <1>6
  <1> HIDE DEF at
  <1>9. FieldsAt(m, s.fields, at)
    BY <1>1 DEF FieldsAt
  <1>10. \E g \in [1..(Len(s.fields) + 1) -> (count + 1)..first] :
             g[1] = count + 1 /\ g[Len(s.fields) + 1] = first /\ FieldsAt(m, s.fields, g)
    BY <1>1, <1>8, <1>9
  <1>11. StructAt(m, p, s, first)
    BY <1>1, <1>5, <1>7, <1>10 DEF StructAt, bytes, count, h
  <1> QED
    BY <1>11 DEF s, first, h

(* A struct that a field is counted in, and that the field lies behind.    *)
LEMMA StructGrows ==
    ASSUME NEW m, NEW w, NEW p \in Int, NEW s \in Definition, NEW q \in Int, StructAt(m, p, s, q),
           NEW meaning \in Meanings, NEW r \in Int, q <= r, FieldAt(w, q, meaning, r),
           w[p + 1 + Len(s.name)] = Len(s.fields) + 1,
           \A a \in p..(q - 1) : a # p + 1 + Len(s.name) => w[a] = m[a]
    PROVE  StructAt(w, p, [s EXCEPT !.fields = Append(@, meaning)], r)
  <1> DEFINE k == Len(s.fields)
             h == Len(s.name)
             count == p + 1 + h
             name == <<Len(s.name)>> \o s.name
             t == [s EXCEPT !.fields = Append(@, meaning)]
  <1>1. k \in Nat /\ h \in Nat /\ Len(name) = 1 + h /\ s.fields \in Seq(Meanings)
    BY NameSize
  <1>2. /\ t.name = s.name /\ t.fields = Append(s.fields, meaning)
        /\ t.fields \in Seq(Meanings) /\ Len(t.fields) = k + 1
        /\ \A i \in 1..(k + 1) : t.fields[i] = IF i <= k THEN s.fields[i] ELSE meaning
    <2>1. t.name = s.name /\ t.fields = Append(s.fields, meaning)
      BY DEF Definition
    <2>2. /\ Append(s.fields, meaning) \in Seq(Meanings) /\ Len(Append(s.fields, meaning)) = k + 1
          /\ \A i \in 1..k : Append(s.fields, meaning)[i] = s.fields[i]
          /\ Append(s.fields, meaning)[k + 1] = meaning
      BY <1>1, AppendProperties
    <2> HIDE DEF k, t
    <2>3. ASSUME NEW i \in 1..(k + 1) PROVE t.fields[i] = IF i <= k THEN s.fields[i] ELSE meaning
      <3>1. CASE i <= k
        <4>1. i \in 1..k
          BY <1>1, <3>1
        <4> QED
          BY <2>1, <2>2, <3>1, <4>1
      <3>2. CASE ~(i <= k)
        <4>1. i = k + 1
          BY <1>1, <3>2
        <4> QED
          BY <2>1, <2>2, <3>2, <4>1
      <3> QED
        BY <3>1, <3>2
    <2> QED
      BY <2>1, <2>2, <2>3
  <1>3. Holds(m, p, name) /\ w[count] = k + 1
    BY DEF StructAt
  <1>4. PICK at \in [1..(k + 1) -> (count + 1)..q] :
            at[1] = count + 1 /\ at[k + 1] = q /\ FieldsAt(m, s.fields, at)
    BY DEF StructAt
  <1>5. \A a \in p..(q - 1) : a # count => w[a] = m[a]
    OBVIOUS
  <1>6. FieldsAt(m, s.fields, at) <=> \A n \in 1..k : FieldAt(m, at[n], s.fields[n], at[n + 1])
    BY DEF FieldsAt
  <1> HIDE DEF k, h, name, t
  <1>7. at[1] \in (count + 1)..q
    BY <1>1, <1>4
  <1>8. count \in Int /\ count + 1 <= q
    BY <1>1, <1>4, <1>7
  <1>9. Agree(w, m, p, count) /\ Agree(w, m, count + 1, q)
    <2>1. ASSUME NEW a \in p..(count - 1) PROVE w[a] = m[a]
      <3>1. a \in p..(q - 1) /\ a # count
        BY <1>8
      <3> HIDE DEF count
      <3> QED
        BY <1>5, <3>1
    <2>2. ASSUME NEW a \in (count + 1)..(q - 1) PROVE w[a] = m[a]
      <3>1. a \in p..(q - 1) /\ a # count
        BY <1>1, <1>8
      <3> HIDE DEF count
      <3> QED
        BY <1>5, <3>1
    <2> QED
      BY <2>1, <2>2 DEF Agree
  <1>10. Holds(w, p, name)
    <2>1. Len(name) \in Nat /\ p + Len(name) <= count /\ p <= p
      BY <1>1
    <2> HIDE DEF count
    <2> QED
      BY <1>3, <1>8, <1>9, <2>1, HoldsFrame
  <1> HIDE DEF count
  <1> DEFINE g == [i \in 1..(k + 2) |-> IF i <= k + 1 THEN at[i] ELSE r]
  <1>11. /\ g \in [1..((k + 1) + 1) -> (count + 1)..r]
         /\ g[1] = count + 1 /\ g[(k + 1) + 1] = r
         /\ \A i \in 1..(k + 1) : g[i] = at[i]
    <2>1. (k + 1) + 1 = k + 2 /\ 1 <= k + 1 /\ ~(k + 2 <= k + 1) /\ 1 \in 1..(k + 2) /\ k + 2 \in 1..(k + 2)
      BY <1>1
    <2>2. ASSUME NEW i \in 1..(k + 1) PROVE i \in 1..(k + 2) /\ i <= k + 1
      BY <1>1
    <2>3. ASSUME NEW i \in 1..(k + 2)
          PROVE  (IF i <= k + 1 THEN at[i] ELSE r) \in (count + 1)..r
      <3>1. CASE i <= k + 1
        <4>1. i \in 1..(k + 1)
          BY <1>1, <3>1
        <4>2. at[i] \in (count + 1)..q
          BY <1>4, <4>1
        <4> QED
          BY <1>8, <3>1, <4>2
      <3>2. CASE ~(i <= k + 1)
        BY <1>8, <3>2
      <3> QED
        BY <3>1, <3>2
    <2>4. g \in [1..(k + 2) -> (count + 1)..r]
      BY <2>3
    <2>5. g[1] = at[1] /\ g[k + 2] = r
      BY <2>1
    <2>6. \A i \in 1..(k + 1) : g[i] = at[i]
      BY <2>2
    <2> QED
      BY <1>4, <2>1, <2>4, <2>5, <2>6
  <1> HIDE DEF g
  <1>12. ASSUME NEW n \in 1..(k + 1) PROVE FieldAt(w, g[n], t.fields[n], g[n + 1])
    <2>1. CASE n <= k
      <3>1. n \in 1..k /\ n \in 1..(k + 1) /\ n + 1 \in 1..(k + 1)
        BY <1>1, <2>1
      <3>2. FieldAt(m, at[n], s.fields[n], at[n + 1])
        BY <1>4, <1>6, <3>1
      <3> DEFINE x == at[n]
                 y == at[n + 1]
      <3>3. x \in (count + 1)..q /\ y \in (count + 1)..q
        BY <1>4, <3>1
      <3> HIDE DEF x, y
      <3>4. FieldAt(m, x, s.fields[n], y)
        BY <3>2 DEF x, y
      <3>5. x \in Int /\ y \in Int /\ count + 1 \in Int /\ count + 1 <= x /\ y <= q
        BY <1>8, <3>3
      <3>6. FieldAt(w, x, s.fields[n], y)
        BY <1>9, <3>4, <3>5, FieldFrame
      <3>7. g[n] = x /\ g[n + 1] = y /\ t.fields[n] = s.fields[n]
        BY <1>2, <1>11, <2>1, <3>1 DEF x, y
      <3> QED
        BY <3>6, <3>7
    <2>2. CASE n = k + 1
      <3>1. k + 1 \in 1..(k + 1) /\ ~(k + 1 <= k)
        BY <1>1
      <3>2. g[k + 1] = q /\ g[(k + 1) + 1] = r /\ t.fields[k + 1] = meaning
        BY <1>2, <1>4, <1>11, <3>1
      <3> QED
        BY <2>2, <3>2
    <2>3. n <= k \/ n = k + 1
      BY <1>1
    <2> QED
      BY <2>1, <2>2, <2>3
  <1>13. FieldsAt(w, t.fields, g)
    BY <1>2, <1>12 DEF FieldsAt
  <1>14. \E f \in [1..(Len(t.fields) + 1) -> (count + 1)..r] :
             f[1] = count + 1 /\ f[Len(t.fields) + 1] = r /\ FieldsAt(w, t.fields, f)
    BY <1>2, <1>11, <1>13
  <1>15. StructAt(w, p, t, r)
    BY <1>2, <1>3, <1>10, <1>14 DEF StructAt, count, h, name
  <1> QED
    BY <1>15 DEF t

-----------------------------------------------------------------------------

(***************************************************************************)
(* The places of the structs, and every step that leaves them there.       *)
(***************************************************************************)

(* Where the last struct defined in order is, or the first would be.       *)
Base(d, at) == at[IF d = << >> THEN 1 ELSE Len(d)]

(* The structs d lie one after the other at the places at, above the count *)
(* of structs and below top; the last one, in which fields are counted,    *)
(* is only looked at as long as the definitions are whole.                 *)
Kept(m, top, d, whole, fields, at) ==
    /\ at \in [1..(Len(d) + 1) -> (structs_array + 1)..SIZE_MEM_BUFFER]
    /\ at[1] = structs_array + 1
    /\ \A i, j \in 1..(Len(d) + 1) : i <= j => at[i] <= at[j]
    /\ \A n \in 1..Len(d) : n < Len(d) \/ whole => StructAt(m, at[n], d[n], at[n + 1])
    /\ Base(d, at) <= top
    /\ fields # NULL => Base(d, at) <= fields
    /\ whole => /\ m[structs_array] = Len(d)
                /\ at[Len(d) + 1] = top
                /\ fields = IF d = << >> THEN NULL
                            ELSE at[Len(d)] + 1 + Len(d[Len(d)].name)

Top == mem_idx - contexts * CTX_SIZE

DefInv ==
    /\ TypeInv
    /\ Holds(mem, 0, TypenamesTable)
    /\ defined \in Seq(Definition)
    /\ \E at : Kept(mem, Top, defined, intact, current_struct_fields_array, at)

LEMMA KeptFacts ==
    ASSUME NEW m, NEW top, NEW d \in Seq(Definition), NEW whole, NEW fields, NEW at,
           Kept(m, top, d, whole, fields, at)
    PROVE  /\ Len(d) \in Nat /\ structs_array \in Nat
           /\ \A n \in 1..(Len(d) + 1) : at[n] \in Nat /\ structs_array + 1 <= at[n] /\ at[n] <= SIZE_MEM_BUFFER
           /\ Base(d, at) \in Nat /\ structs_array + 1 <= Base(d, at)
           /\ Base(d, at) <= SIZE_MEM_BUFFER /\ Base(d, at) <= at[Len(d) + 1]
           /\ \A n \in 1..Len(d) : /\ n \in 1..(Len(d) + 1) /\ n + 1 \in 1..(Len(d) + 1)
                                   /\ d[n] \in Definition
                                   /\ at[n + 1] <= at[Len(d) + 1]
                                   /\ n < Len(d) => at[n + 1] <= Base(d, at)
  <1> DEFINE k == Len(d)
  <1>1. k \in Nat /\ (d = << >> <=> k = 0) /\ structs_array \in Nat /\ SIZE_MEM_BUFFER \in Nat
    BY LenProperties, StructsArray, Constants, EmptySeq
  <1>2. \A n \in 1..k : d[n] \in Definition
    BY ElementOfSeq
  <1>3. /\ at \in [1..(k + 1) -> (structs_array + 1)..SIZE_MEM_BUFFER]
        /\ \A i, j \in 1..(k + 1) : i <= j => at[i] <= at[j]
    BY DEF Kept
  <1> DEFINE b == IF d = << >> THEN 1 ELSE k
  <1>4. Base(d, at) = at[b]
    BY DEF Base
  <1>5. b \in 1..(k + 1) /\ k + 1 \in 1..(k + 1) /\ b <= k + 1
    BY <1>1
  <1>6. ASSUME NEW n \in 1..(k + 1)
        PROVE  at[n] \in Nat /\ structs_array + 1 <= at[n] /\ at[n] <= SIZE_MEM_BUFFER
    <2>1. at[n] \in (structs_array + 1)..SIZE_MEM_BUFFER
      BY <1>3
    <2> QED
      BY <1>1, <2>1
  <1>7. at[b] <= at[k + 1]
    <2> HIDE DEF b, k
    <2> QED
      BY <1>3, <1>5
  <1>8. ASSUME NEW n \in 1..k
        PROVE  /\ n \in 1..(k + 1) /\ n + 1 \in 1..(k + 1)
               /\ at[n + 1] <= at[k + 1]
               /\ n < k => at[n + 1] <= at[b]
    <2>1. n \in 1..(k + 1) /\ n + 1 \in 1..(k + 1) /\ n + 1 <= k + 1 /\ b = k /\ (n < k => n + 1 <= b)
      BY <1>1
    <2> HIDE DEF b, k
    <2> QED
      BY <1>3, <1>5, <2>1
  <1> HIDE DEF b
  <1>9. at[b] \in Nat /\ structs_array + 1 <= at[b] /\ at[b] <= SIZE_MEM_BUFFER
    BY <1>5, <1>6
  <1>10. \A n \in 1..k : /\ n \in 1..(k + 1) /\ n + 1 \in 1..(k + 1)
                         /\ d[n] \in Definition
                         /\ at[n + 1] <= at[k + 1]
                         /\ n < k => at[n + 1] <= Base(d, at)
    BY <1>2, <1>4, <1>8
  <1> QED
    BY <1>1, <1>4, <1>6, <1>7, <1>9, <1>10

(* A step that leaves the structs alone, the last one too if they are to   *)
(* remain whole.                                                           *)
LEMMA Undisturbed ==
    ASSUME NEW m, NEW top, NEW d \in Seq(Definition), NEW whole, NEW fields, NEW at,
           Kept(m, top, d, whole, fields, at),
           NEW w, NEW newTop, NEW still, NEW newFields,
           Agree(w, m, structs_array + 1, Base(d, at)),
           still => /\ whole /\ newFields = fields /\ newTop = top
                    /\ w[structs_array] = m[structs_array]
                    /\ Agree(w, m, structs_array + 1, at[Len(d) + 1]),
           Base(d, at) <= newTop, newFields # NULL => Base(d, at) <= newFields
    PROVE  Kept(w, newTop, d, still, newFields, at)
  <1> DEFINE k == Len(d)
  <1>1. /\ k \in Nat /\ structs_array \in Nat
        /\ \A n \in 1..(k + 1) : at[n] \in Nat /\ structs_array + 1 <= at[n]
        /\ Base(d, at) \in Nat
        /\ \A n \in 1..k : /\ n \in 1..(k + 1) /\ n + 1 \in 1..(k + 1)
                           /\ d[n] \in Definition
                           /\ at[n + 1] <= at[k + 1]
                           /\ n < k => at[n + 1] <= Base(d, at)
    BY KeptFacts
  <1>2. \A n \in 1..k : n < k \/ whole => StructAt(m, at[n], d[n], at[n + 1])
    BY DEF Kept
  <1>3. still => Agree(w, m, structs_array + 1, at[k + 1])
    OBVIOUS
  <1> DEFINE lo == structs_array + 1
             base == Base(d, at)
  <1>4. Agree(w, m, lo, base) /\ lo \in Int /\ base \in Int
    BY <1>1
  <1>5. ASSUME NEW n \in 1..k, n < k \/ still PROVE StructAt(w, at[n], d[n], at[n + 1])
    <2> DEFINE x == at[n]
               y == at[n + 1]
    <2>1. x \in Int /\ y \in Int /\ lo <= x /\ d[n] \in Definition
      BY <1>1
    <2>2. StructAt(m, x, d[n], y)
      BY <1>2, <1>5
    <2>3. CASE n < k
      <3>1. y <= base
        BY <1>1, <2>3
      <3> HIDE DEF x, y, lo, base
      <3>2. StructAt(w, x, d[n], y)
        BY <1>4, <2>1, <2>2, <3>1, StructFrame
      <3> QED
        BY <3>2 DEF x, y
    <2>4. CASE still
      <3> DEFINE z == at[k + 1]
      <3>1. z \in Int /\ y <= z /\ Agree(w, m, lo, z)
        <4>1. k + 1 \in 1..(k + 1)
          BY <1>1
        <4> QED
          BY <1>1, <1>3, <2>4, <4>1
      <3> HIDE DEF x, y, z, lo
      <3>2. StructAt(w, x, d[n], y)
        BY <1>4, <2>1, <2>2, <3>1, StructFrame
      <3> QED
        BY <3>2 DEF x, y
    <2> QED
      BY <1>5, <2>3, <2>4
  <1>6. /\ at \in [1..(Len(d) + 1) -> (structs_array + 1)..SIZE_MEM_BUFFER]
        /\ at[1] = structs_array + 1
        /\ \A i, j \in 1..(Len(d) + 1) : i <= j => at[i] <= at[j]
        /\ whole => /\ m[structs_array] = Len(d)
                    /\ at[Len(d) + 1] = top
                    /\ fields = IF d = << >> THEN NULL
                                ELSE at[Len(d)] + 1 + Len(d[Len(d)].name)
    BY DEF Kept
  <1>7. still => /\ w[structs_array] = Len(d)
                 /\ at[Len(d) + 1] = newTop
                 /\ newFields = IF d = << >> THEN NULL
                                ELSE at[Len(d)] + 1 + Len(d[Len(d)].name)
    BY <1>6
  <1> QED
    BY <1>5, <1>6, <1>7 DEF Kept

LEMMA TopFacts ==
    ASSUME TypeInv
    PROVE  /\ Top \in Int /\ structs_array + 1 <= Top /\ Top <= mem_idx
           /\ contexts = 0 => Top = mem_idx
           /\ contexts > 0 => Top <= mem_idx - CTX_SIZE
  <1> DEFINE c == contexts * CTX_SIZE
             b == (contexts - 1) * CTX_SIZE
  <1>1. mem_idx \in Nat /\ contexts \in Nat /\ CTX_SIZE \in Nat \ {0} /\ structs_array \in Nat
    BY TypeFacts, Constants, StructsArray DEF TypeInv
  <1>2. c \in Nat
    BY <1>1, ContextBytes
  <1>3. structs_array + 1 + c <= mem_idx
    BY DEF TypeInv
  <1>4. contexts = 0 => c = 0
    BY <1>1
  <1>5. contexts > 0 => b \in Nat /\ c = b + CTX_SIZE
    BY <1>1, ContextSteps
  <1>6. Top = mem_idx - c
    BY DEF Top
  <1> HIDE DEF c, b
  <1> QED
    BY <1>1, <1>2, <1>3, <1>4, <1>5, <1>6

LEMMA TableStays ==
    ASSUME Holds(mem, 0, TypenamesTable), NEW w, Agree(w, mem, 0, structs_array)
    PROVE  Holds(w, 0, TypenamesTable)
  <1> DEFINE k == Len(TypenamesTable)
             table == TypenamesTable
  <1>1. k \in Nat /\ structs_array \in Nat /\ k <= structs_array
    BY StructsArray
  <1>2. Len(table) \in Nat /\ 0 + Len(table) <= structs_array /\ 0 \in Int /\ structs_array \in Int /\ 0 <= 0
    BY <1>1
  <1> HIDE DEF table, k
  <1>3. Holds(mem, 0, table)
    BY DEF table
  <1>4. Holds(w, 0, table)
    BY <1>2, <1>3, HoldsFrame
  <1> QED
    BY <1>4 DEF table

LEMMA Unchanging ==
    ASSUME NEW w, NEW m, NEW hi \in Int, hi <= SIZE_MEM_BUFFER,
           \A a \in 0..(SIZE_MEM_BUFFER - 1) : a < hi => w[a] = m[a]
    PROVE  \A lo \in Nat, to \in Int : to <= hi => Agree(w, m, lo, to)
  <1> SUFFICES ASSUME NEW lo \in Nat, NEW to \in Int, to <= hi, NEW a \in lo..(to - 1)
               PROVE  w[a] = m[a]
    BY DEF Agree
  <1>1. a \in 0..(SIZE_MEM_BUFFER - 1) /\ a < hi
    BY Constants
  <1> QED
    BY <1>1

(* A field that is not counted among those kept: it is counted, if at all, *)
(* where the last struct has its count or above, and stored behind it.     *)
LEMMA SetFieldKept ==
    ASSUME DefInv, NEW data \in Buffer, set_struct_field(data), contexts' = contexts,
           defined' = defined, ~intact', TypeInv'
    PROVE  DefInv'
  <1> DEFINE d == defined
             pieces == FieldPieces(data)
             current == current_struct_fields_array
             m == Incremented(mem, current)
  <1>1. TypeInv /\ TypeOK /\ mem \in Memory /\ mem_idx \in Nat /\ mem_idx <= SIZE_MEM_BUFFER
        /\ structs_array + 1 <= mem_idx /\ mem_idx \in 0..SIZE_MEM_BUFFER
    BY TypeFacts DEF DefInv, TypeInv
  <1>2. d \in Seq(Definition) /\ Holds(mem, 0, TypenamesTable)
    BY DEF DefInv
  <1>3. PICK at : Kept(mem, Top, d, intact, current, at)
    BY DEF DefInv
  <1>4. /\ Base(d, at) \in Nat /\ structs_array + 1 <= Base(d, at) /\ structs_array \in Nat
        /\ Base(d, at) <= SIZE_MEM_BUFFER
    BY <1>2, <1>3, KeptFacts
  <1>5. Base(d, at) <= Top /\ (current # NULL => Base(d, at) <= current)
    BY <1>3 DEF Kept
  <1>6. Top \in Int /\ Top <= mem_idx
    BY <1>1, TopFacts
  <1>7. CASE UNCHANGED <<mem, mem_idx, current_struct_fields_array>>
    <2>1. Top' = Top /\ mem' = mem /\ current' = current
      BY <1>7 DEF Top
    <2>2. Agree(mem', mem, structs_array + 1, Base(d, at))
      BY <2>1 DEF Agree
    <2>3. Kept(mem', Top', d, intact', current', at)
      <3> HIDE DEF d, current
      <3> QED
        BY <1>2, <1>3, <1>5, <2>1, <2>2, Undisturbed
    <2>4. Holds(mem', 0, TypenamesTable)
      BY <1>2, <2>1
    <2> QED
      BY <1>2, <2>3, <2>4 DEF DefInv
  <1>8. CASE current # NULL /\ Keep(m, pieces) /\ current' = current
    <2>1. current \in 0..(SIZE_MEM_BUFFER - 1) /\ structs_array + 1 <= current
      <3>1. current \in (structs_array + 1)..(SIZE_MEM_BUFFER - 1)
        BY <1>1, <1>8 DEF TypeOK
      <3> HIDE DEF current
      <3> QED
        BY <1>4, <3>1
    <2>2. /\ m \in Memory
          /\ \A a \in 0..(SIZE_MEM_BUFFER - 1) : a # current => m[a] = mem[a]
      BY <1>1, <2>1, IncrementedType
    <2>3. pieces \in Seq(AnyPiece)
      BY <1>1, FieldPiecesType
    <2> HIDE DEF m, pieces
    <2>4. /\ mem_idx' \in mem_idx..SIZE_MEM_BUFFER
          /\ \A a \in 0..(SIZE_MEM_BUFFER - 1) : a < mem_idx => mem'[a] = m[a]
      BY <1>1, <1>8, <2>2, <2>3, KeepType
    <2> DEFINE base == Base(d, at)
    <2>5. base \in Int /\ base <= SIZE_MEM_BUFFER /\ base <= mem_idx /\ base <= current /\ structs_array <= base
      <3>1. base \in Nat /\ structs_array + 1 <= base /\ base <= SIZE_MEM_BUFFER /\ base <= Top
            /\ base <= current
        BY <1>4, <1>5, <1>8
      <3> HIDE DEF base
      <3> QED
        BY <1>1, <1>4, <1>6, <3>1
    <2> HIDE DEF base
    <2>6. \A a \in 0..(SIZE_MEM_BUFFER - 1) : a < base => mem'[a] = mem[a]
      <3> SUFFICES ASSUME NEW a \in 0..(SIZE_MEM_BUFFER - 1), a < base PROVE mem'[a] = mem[a]
        OBVIOUS
      <3>1. a < mem_idx /\ a # current
        <4> HIDE DEF current
        <4> QED
          BY <1>1, <2>1, <2>5
      <3> QED
        BY <2>2, <2>4, <3>1
    <2>7. \A lo \in Nat, to \in Int : to <= base => Agree(mem', mem, lo, to)
      BY <2>5, <2>6, Unchanging
    <2>8. Agree(mem', mem, 0, structs_array) /\ Agree(mem', mem, structs_array + 1, base)
      BY <1>4, <2>5, <2>7
    <2>9. base <= Top' /\ (current' # NULL => base <= current')
      <3>1. Top' = Top + (mem_idx' - mem_idx)
        <4> DEFINE c == contexts * CTX_SIZE
        <4>1. c \in Nat
          BY <1>1, TypeFacts, ContextBytes
        <4>2. Top = mem_idx - c /\ Top' = mem_idx' - c
          BY DEF Top
        <4> HIDE DEF c
        <4> QED
          BY <1>1, <2>4, <4>1, <4>2
      <3>2. base <= Top
        BY <1>5 DEF base
      <3>3. mem_idx' \in Int /\ mem_idx <= mem_idx'
        BY <1>1, <2>4, Constants
      <3>4. base <= Top'
        <4>1. \A b, x, i, j \in Int : b <= x /\ i <= j => b <= x + (j - i)
          OBVIOUS
        <4>2. mem_idx \in Int
          BY <1>1
        <4>3. base <= Top + (mem_idx' - mem_idx)
          BY <1>6, <2>5, <3>2, <3>3, <4>1, <4>2
        <4> QED
          BY <3>1, <4>3
      <3> HIDE DEF current
      <3> QED
        BY <1>8, <2>5, <3>4
    <2>10. Kept(mem', Top', d, intact', current', at)
      <3> HIDE DEF d, current
      <3>1. Agree(mem', mem, structs_array + 1, Base(d, at)) /\ Base(d, at) <= Top'
            /\ (current' # NULL => Base(d, at) <= current')
        BY <2>8, <2>9 DEF base
      <3> QED
        BY <1>2, <1>3, <3>1, Undisturbed
    <2>11. Holds(mem', 0, TypenamesTable)
      BY <1>2, <2>8, TableStays
    <2> QED
      BY <1>2, <2>10, <2>11 DEF DefInv
  <1> QED
    BY <1>7, <1>8 DEF set_struct_field

(* A step above the structs, that defines nothing.                         *)
LEMMA AboveKept ==
    ASSUME DefInv, TypeInv', UNCHANGED <<defined, intact, current_struct_fields_array>>,
           Top' = Top, \A a \in 0..(SIZE_MEM_BUFFER - 1) : a < Top => mem'[a] = mem[a]
    PROVE  DefInv'
  <1> DEFINE d == defined
             current == current_struct_fields_array
  <1>1. TypeInv /\ mem_idx \in Nat /\ mem_idx <= SIZE_MEM_BUFFER /\ SIZE_MEM_BUFFER \in Nat
    BY TypeFacts, Constants DEF DefInv, TypeInv
  <1>2. d \in Seq(Definition) /\ Holds(mem, 0, TypenamesTable)
    BY DEF DefInv
  <1>3. PICK at : Kept(mem, Top, d, intact, current, at)
    BY DEF DefInv
  <1>4. /\ Base(d, at) \in Nat /\ structs_array \in Nat
    BY <1>2, <1>3, KeptFacts
  <1>5. /\ Base(d, at) <= Top /\ (current # NULL => Base(d, at) <= current)
        /\ intact => at[Len(d) + 1] = Top
    BY <1>3 DEF Kept
  <1>6. Top \in Int /\ structs_array + 1 <= Top /\ Top <= SIZE_MEM_BUFFER
    <2>1. Top \in Int /\ structs_array + 1 <= Top /\ Top <= mem_idx
      BY <1>1, TopFacts
    <2> QED
      BY <1>1, <2>1
  <1>7. \A lo \in Nat, to \in Int : to <= Top => Agree(mem', mem, lo, to)
    BY <1>6, Unchanging
  <1>8. /\ Agree(mem', mem, 0, structs_array)
        /\ Agree(mem', mem, structs_array + 1, Base(d, at))
        /\ Agree(mem', mem, structs_array + 1, Top)
    <2>1. structs_array + 1 \in Nat /\ 0 \in Nat /\ structs_array \in Int /\ structs_array <= Top /\ Top <= Top
      BY <1>4, <1>6
    <2> QED
      BY <1>4, <1>5, <1>6, <1>7, <2>1
  <1>9. mem'[structs_array] = mem[structs_array]
    <2>1. structs_array \in 0..(SIZE_MEM_BUFFER - 1) /\ structs_array < Top
      BY <1>1, <1>4, <1>6
    <2> QED
      BY <2>1
  <1>10. intact' => /\ intact /\ current' = current /\ Top' = Top
                    /\ mem'[structs_array] = mem[structs_array]
                    /\ Agree(mem', mem, structs_array + 1, at[Len(d) + 1])
    BY <1>5, <1>8, <1>9
  <1>11. Base(d, at) <= Top' /\ (current' # NULL => Base(d, at) <= current')
    BY <1>5
  <1>12. Kept(mem', Top', d, intact', current', at)
    <2> HIDE DEF d, current
    <2> QED
      BY <1>2, <1>3, <1>8, <1>10, <1>11, Undisturbed
  <1>13. Holds(mem', 0, TypenamesTable)
    BY <1>2, <1>8, TableStays
  <1> QED
    BY <1>2, <1>12, <1>13 DEF DefInv

LEMMA PushKept == ASSUME DefInv, PushContext PROVE DefInv'
  <1> DEFINE bytes == [i \in 1..CTX_SIZE |-> 255]
             c == contexts * CTX_SIZE
  <1>1. TypeInv /\ mem \in Memory /\ mem_idx \in Nat /\ contexts \in Nat /\ TypeInv'
    BY TypeFacts, PushTyped DEF DefInv, TypeInv
  <1>2. mem' = Written(mem, mem_idx, bytes) /\ bytes \in Seq(Byte)
    <2>1. 255 \in Byte
      BY ByteRange
    <2> QED
      BY <2>1, ContextImage DEF PushContext
  <1> HIDE DEF bytes
  <1>3. Overwrites(mem', mem, mem_idx, bytes)
    BY <1>1, <1>2, WrittenType
  <1>4. Top \in Int /\ Top <= mem_idx
    BY <1>1, TopFacts
  <1>5. \A a \in 0..(SIZE_MEM_BUFFER - 1) : a < Top => mem'[a] = mem[a]
    <2> SUFFICES ASSUME NEW a \in 0..(SIZE_MEM_BUFFER - 1), a < Top PROVE mem'[a] = mem[a]
      OBVIOUS
    <2>1. a \notin mem_idx..(mem_idx + Len(bytes) - 1)
      BY <1>1, <1>4
    <2> QED
      BY <1>3, <2>1 DEF Overwrites
  <1>6. Top' = Top
    <2>1. mem_idx' = mem_idx + CTX_SIZE /\ contexts' = contexts + 1
      BY DEF PushContext
    <2>2. (contexts + 1) * CTX_SIZE = c + CTX_SIZE /\ c \in Nat
      BY <1>1, ContextSteps, ContextBytes
    <2>3. Top = mem_idx - c /\ Top' = mem_idx' - (contexts' * CTX_SIZE)
      BY DEF Top
    <2>4. Top' = (mem_idx + CTX_SIZE) - (c + CTX_SIZE)
      BY <2>1, <2>2, <2>3
    <2> HIDE DEF c
    <2> QED
      BY <1>1, <2>2, <2>3, <2>4, Constants
  <1>7. UNCHANGED <<defined, intact, current_struct_fields_array>>
    BY DEF PushContext
  <1> QED
    BY <1>1, <1>5, <1>6, <1>7, AboveKept

LEMMA HashKept == ASSUME DefInv, HashIntoTop PROVE DefInv'
  <1> DEFINE bytes == [i \in 1..CTX_SIZE |-> 254]
             x == mem_idx - CTX_SIZE
  <1>1. TypeInv /\ mem \in Memory /\ mem_idx \in Nat /\ contexts \in Nat /\ TypeInv'
    BY TypeFacts, HashTyped DEF DefInv, TypeInv
  <1>2. mem' = Written(mem, x, bytes) /\ bytes \in Seq(Byte)
    <2>1. 254 \in Byte
      BY ByteRange
    <2> QED
      BY <2>1, ContextImage DEF HashIntoTop
  <1> HIDE DEF bytes
  <1>3. Top \in Int /\ Top <= x /\ structs_array + 1 <= Top /\ structs_array \in Nat
    <2>1. contexts > 0
      BY DEF HashIntoTop
    <2> QED
      BY <1>1, <2>1, TopFacts, StructsArray
  <1>4. x \in Nat
    BY <1>1, <1>3, Constants
  <1> HIDE DEF x
  <1>5. Overwrites(mem', mem, x, bytes)
    BY <1>1, <1>2, <1>4, WrittenType
  <1>6. \A a \in 0..(SIZE_MEM_BUFFER - 1) : a < Top => mem'[a] = mem[a]
    <2> SUFFICES ASSUME NEW a \in 0..(SIZE_MEM_BUFFER - 1), a < Top PROVE mem'[a] = mem[a]
      OBVIOUS
    <2>1. a \notin x..(x + Len(bytes) - 1)
      BY <1>3, <1>4
    <2> QED
      BY <1>5, <2>1 DEF Overwrites
  <1>7. Top' = Top /\ UNCHANGED <<defined, intact, current_struct_fields_array>>
    BY DEF HashIntoTop, Top
  <1> QED
    BY <1>1, <1>6, <1>7, AboveKept

LEMMA PopKept == ASSUME DefInv, PopContext PROVE DefInv'
  <1> DEFINE c == contexts * CTX_SIZE
             b == (contexts - 1) * CTX_SIZE
  <1>1. TypeInv /\ mem_idx \in Nat /\ contexts \in Nat /\ TypeInv'
    BY TypeFacts, PopTyped DEF DefInv, TypeInv
  <1>2. Top' = Top
    <2>1. mem_idx' = mem_idx - CTX_SIZE /\ contexts' = contexts - 1 /\ contexts > 0
      BY DEF PopContext
    <2>2. c = b + CTX_SIZE /\ b \in Nat
      BY <1>1, <2>1, ContextSteps
    <2>3. Top = mem_idx - c /\ Top' = mem_idx' - (contexts' * CTX_SIZE)
      BY DEF Top
    <2>4. Top' = (mem_idx - CTX_SIZE) - b
      BY <2>1, <2>3
    <2> HIDE DEF c, b
    <2> QED
      BY <1>1, <2>2, <2>3, <2>4, Constants
  <1>3. mem' = mem /\ UNCHANGED <<defined, intact, current_struct_fields_array>>
    BY DEF PopContext
  <1>4. \A a \in 0..(SIZE_MEM_BUFFER - 1) : a < Top => mem'[a] = mem[a]
    BY <1>3
  <1> QED
    BY <1>1, <1>2, <1>3, <1>4, AboveKept

LEMMA Triple ==
    ASSUME NEW K, NEW x \in K, NEW y \in K, NEW z \in K
    PROVE  (<<x>> \o <<y>>) \o <<z>> = <<x, y, z>>
  <1> DEFINE two == <<x>> \o <<y>>
             t == two \o <<z>>
  <1>1. <<x>> \in Seq(K) /\ <<y>> \in Seq(K) /\ <<z>> \in Seq(K) /\ <<x, y, z>> \in Seq(K)
    OBVIOUS
  <1>2. Len(<<x>>) = 1 /\ Len(<<y>>) = 1 /\ Len(<<z>>) = 1 /\ Len(<<x, y, z>>) = 3
    OBVIOUS
  <1>3. two \in Seq(K) /\ Len(two) = 2 /\ \A i \in 1..2 : two[i] = IF i <= 1 THEN <<x>>[i] ELSE <<y>>[i - 1]
    BY <1>1, <1>2, ConcatProperties
  <1> HIDE DEF two
  <1>4. two[1] = x /\ two[2] = y
    BY <1>3
  <1>5. t \in Seq(K) /\ Len(t) = 3 /\ \A i \in 1..3 : t[i] = IF i <= 2 THEN two[i] ELSE <<z>>[i - 2]
    BY <1>1, <1>2, <1>3, ConcatProperties, SMTT(30)
  <1> HIDE DEF t
  <1>6. t[1] = x /\ t[2] = y /\ t[3] = z
    BY <1>4, <1>5
  <1>7. \A i \in 1..3 : t[i] = <<x, y, z>>[i]
    BY <1>6
  <1>8. t = <<x, y, z>>
    BY <1>1, <1>2, <1>5, <1>7, SeqEqual
  <1> QED
    BY <1>8 DEF t, two

(* What is stored for a name.                                              *)
NameImage(name) == (<<Len(name)>> \o name) \o <<0>>

LEMMA NameCovers ==
    ASSUME NEW data \in Buffer, NEW name \in Seq(Byte), 5 + Len(name) <= BUF_SIZE,
           data[5] = Len(name), Holds(data, 6, name)
    PROVE  /\ Fits(NamePieces(data)) /\ Covers(NamePieces(data), NameImage(name))
           /\ Len(NamePieces(data)) = 3
           /\ SizeOf(NamePieces(data), 2) = 1 + Len(name)
           /\ SizeOf(NamePieces(data), 3) = 2 + Len(name)
  <1> DEFINE h == Len(name)
             copied == SubSeq(data, 6, 5 + h)
             pieces == NamePieces(data)
             a == Piece(<<h>>)
             b == Piece(name)
             c == Piece(<<0>>)
  <1>1. h \in Nat /\ h \in Byte /\ 0 \in Byte
    <2>1. h \in Nat
      BY LenProperties
    <2>2. 5 \in 1..BUF_SIZE
      BY Constants
    <2>3. data[5] \in Byte
      BY <2>2 DEF Buffer
    <2> QED
      BY <2>1, <2>3, ByteRange
  <1>2. copied = name
    <2>1. 6 \in Int /\ 5 + h \in Int /\ \A i \in 6..(5 + h) : data[i] \in Byte
      BY <1>1, Constants DEF Buffer
    <2>2. /\ copied \in Seq(Byte) /\ Len(copied) = IF 6 <= 5 + h THEN (5 + h) - 6 + 1 ELSE 0
          /\ \A i \in 1..((5 + h) - 6 + 1) : copied[i] = data[6 + i - 1]
      BY <2>1, SubSeqProperties
    <2>3. \A i \in 1..h : data[6 + i - 1] = name[i]
      BY DEF Holds
    <2> HIDE DEF copied
    <2>4. (IF 6 <= 5 + h THEN (5 + h) - 6 + 1 ELSE 0) = h /\ (5 + h) - 6 + 1 = h
      <3> HIDE DEF h
      <3> QED
        BY <1>1
    <2>5. Len(copied) = Len(name) /\ \A i \in 1..Len(name) : copied[i] = name[i]
      BY <2>2, <2>3, <2>4
    <2> QED
      BY <2>2, <2>5, SeqEqual
  <1>3. pieces = <<a, b, c>>
    <2>1. OFFSET_LC + 1 = 5 /\ OFFSET_DATA + 1 = 6 /\ OFFSET_DATA = 5
      BY DEF OFFSET_LC, OFFSET_DATA
    <2>2. data[OFFSET_LC + 1] = h
      BY <2>1
    <2>3. pieces = <<Piece(<<h>>), Piece(SubSeq(data, 6, 5 + h)), Piece(<<0>>)>>
      BY <2>1, <2>2 DEF NamePieces
    <2> QED
      BY <1>2, <2>3
  <1>4. <<h>> \in Seq(Byte) /\ <<0>> \in Seq(Byte) /\ Len(<<h>>) = 1 /\ Len(<<0>>) = 1
    <2> HIDE DEF h
    <2> QED
      BY <1>1
  <1>5. /\ a \in AnyPiece /\ b \in AnyPiece /\ c \in AnyPiece
        /\ a.size = 1 /\ b.size = h /\ c.size = 1
    <2>1. a \in AnyPiece /\ b \in AnyPiece /\ c \in AnyPiece
      BY <1>4, PieceType
    <2>2. a.size = Len(<<h>>) /\ b.size = h /\ c.size = Len(<<0>>)
      BY DEF Piece
    <2> QED
      BY <1>4, <2>1, <2>2
  <1>6. /\ Fits(<<a>>) /\ Covers(<<a>>, <<h>>)
        /\ Fits(<<b>>) /\ Covers(<<b>>, name)
        /\ Fits(<<c>>) /\ Covers(<<c>>, <<0>>)
    BY <1>4, PieceCovers
  <1> HIDE DEF a, b, c, pieces
  <1>7. Fits(<<a>> \o <<b>>) /\ Covers(<<a>> \o <<b>>, <<h>> \o name)
    BY <1>6, CoversConcat
  <1>8. /\ Fits((<<a>> \o <<b>>) \o <<c>>)
        /\ Covers((<<a>> \o <<b>>) \o <<c>>, (<<h>> \o name) \o <<0>>)
    BY <1>6, <1>7, CoversConcat
  <1>9. (<<a>> \o <<b>>) \o <<c>> = pieces
    BY <1>3, <1>5, Triple
  <1>10. Len(pieces) = 3 /\ pieces[1] = a /\ pieces[2] = b /\ pieces[3] = c
    BY <1>3
  <1>11. SizeOf(pieces, 2) = 1 + h /\ SizeOf(pieces, 3) = 2 + h
    <2>1. /\ SizeOf(pieces, 0) = 0
          /\ SizeOf(pieces, 0 + 1) = SizeOf(pieces, 0) + pieces[0 + 1].size
          /\ SizeOf(pieces, 1 + 1) = SizeOf(pieces, 1) + pieces[1 + 1].size
          /\ SizeOf(pieces, 2 + 1) = SizeOf(pieces, 2) + pieces[2 + 1].size
      BY SizeSteps
    <2> HIDE DEF h
    <2>2. SizeOf(pieces, 1) = 1
      BY <1>5, <1>10, <2>1
    <2>3. SizeOf(pieces, 2) = 1 + h
      BY <1>1, <1>5, <1>10, <2>1, <2>2
    <2> QED
      BY <1>1, <1>5, <1>10, <2>1, <2>3
  <1> QED
    BY <1>8, <1>9, <1>10, <1>11 DEF NameImage, pieces

(* What the step does with the memory: the count, and the pieces that fit. *)
NameStored(name, fit) ==
    LET data == Received(send_struct_def_name(name))
        pieces == NamePieces(data)
    IN  /\ fit = Allocated(pieces, mem_idx) /\ fit \in 0..3
        /\ Fits(pieces) /\ Covers(pieces, NameImage(name)) /\ Len(pieces) = 3
        /\ SizeOf(pieces, 2) = 1 + Len(name) /\ SizeOf(pieces, 3) = 2 + Len(name)
        /\ mem_idx + SizeOf(pieces, fit) <= SIZE_MEM_BUFFER
        /\ mem_idx' = mem_idx + SizeOf(pieces, fit) /\ SizeOf(pieces, fit) \in Nat
        /\ Incremented(mem, structs_array) \in Memory
        /\ mem' = Stored(Incremented(mem, structs_array), mem_idx, pieces, fit)
        /\ mem'[structs_array] = (mem[structs_array] + 1) % COUNT_VALUES
        /\ \A a \in 0..(SIZE_MEM_BUFFER - 1) : a < mem_idx /\ a # structs_array => mem'[a] = mem[a]
        /\ current_struct_fields_array' = CASE fit = 3 -> mem_idx + 1 + Len(name)
                                            [] fit = 2 -> NULL
                                            [] OTHER   -> current_struct_fields_array

LEMMA DefineStructStores ==
    ASSUME TypeInv, NEW name \in JsonNames, DefineStruct(name)
    PROVE  \E fit : NameStored(name, fit)
  <1> DEFINE data == Received(send_struct_def_name(name))
             pieces == NamePieces(data)
             m == Incremented(mem, structs_array)
             fit == Allocated(pieces, mem_idx)
             h == Len(name)
  <1>1. /\ mem \in Memory /\ mem_idx \in Nat /\ mem_idx <= SIZE_MEM_BUFFER
        /\ structs_array + 1 <= mem_idx /\ mem_idx \in 0..SIZE_MEM_BUFFER
        /\ buf \in Buffer /\ TypeOK
    BY TypeFacts DEF TypeInv
  <1>2. data \in Buffer /\ data[5] = h /\ Holds(data, 6, name)
    BY <1>1, NameReceived
  <1>3. name \in Seq(Byte) /\ 5 + h <= BUF_SIZE /\ h \in Nat
    BY NameApdu, LenProperties
  <1>4. structs_array \in 0..(SIZE_MEM_BUFFER - 1) /\ structs_array < mem_idx /\ structs_array \in Nat
    BY <1>1, StructsArray, Constants
  <1>5. /\ m \in Memory /\ m[structs_array] = (mem[structs_array] + 1) % COUNT_VALUES
        /\ \A a \in 0..(SIZE_MEM_BUFFER - 1) : a # structs_array => m[a] = mem[a]
    BY <1>1, <1>4, IncrementedType
  <1>6. /\ Keep(m, pieces)
        /\ current_struct_fields_array' = CASE fit = 3 -> Address(pieces, 3)
                                            [] fit = 2 -> NULL
                                            [] OTHER   -> current_struct_fields_array
    BY DEF DefineStruct, set_struct_name
  <1>7. mem' = Stored(m, mem_idx, pieces, fit) /\ mem_idx' = mem_idx + SizeOf(pieces, fit)
    BY <1>6 DEF Keep
  <1>8. /\ Fits(pieces) /\ Covers(pieces, NameImage(name)) /\ Len(pieces) = 3
        /\ SizeOf(pieces, 2) = 1 + h /\ SizeOf(pieces, 3) = 2 + h
    <2> HIDE DEF data
    <2> QED
      BY <1>2, <1>3, NameCovers
  <1> HIDE DEF data, pieces, m, fit, h
  <1>9. pieces \in Seq(AnyPiece)
    BY <1>8 DEF Fits
  <1>10. fit \in 0..3 /\ mem_idx + SizeOf(pieces, fit) <= SIZE_MEM_BUFFER
    BY <1>1, <1>8, <1>9, AllocatedType DEF fit
  <1>11. SizeOf(pieces, fit) \in Nat
    <2>1. fit \in Nat /\ fit <= Len(pieces) /\ fit \in 0..fit
      BY <1>8, <1>10
    <2> QED
      BY <1>9, <2>1, SizeType
  <1>12. \A a \in 0..(SIZE_MEM_BUFFER - 1) : a < mem_idx => mem'[a] = m[a]
    BY <1>1, <1>5, <1>6, <1>9, KeepType
  <1>13. Address(pieces, 3) = mem_idx + 1 + h
    <2>1. 3 - 1 = 2
      OBVIOUS
    <2>2. Address(pieces, 3) = mem_idx + SizeOf(pieces, 2)
      BY <2>1 DEF Address
    <2> QED
      BY <1>1, <1>3, <1>8, <2>2
  <1>14. mem'[structs_array] = (mem[structs_array] + 1) % COUNT_VALUES
    BY <1>4, <1>5, <1>12
  <1>15. \A a \in 0..(SIZE_MEM_BUFFER - 1) : a < mem_idx /\ a # structs_array => mem'[a] = mem[a]
    BY <1>5, <1>12
  <1>16. current_struct_fields_array' = CASE fit = 3 -> mem_idx + 1 + h
                                          [] fit = 2 -> NULL
                                          [] OTHER   -> current_struct_fields_array
    BY <1>6, <1>13
  <1>17. NameStored(name, fit)
    BY <1>5, <1>7, <1>8, <1>10, <1>11, <1>14, <1>15, <1>16 DEF NameStored, fit, pieces, data, m, h
  <1> QED
    BY <1>17

(* A name that is not kept changes the count only, below what it stores.   *)
LEMMA NameLost ==
    ASSUME DefInv, NEW name \in JsonNames, DefineStruct(name), ~intact'
    PROVE  DefInv'
  <1> DEFINE d == defined
             current == current_struct_fields_array
  <1>1. TypeInv /\ mem_idx \in Nat /\ mem_idx <= SIZE_MEM_BUFFER /\ TypeInv' /\ contexts \in Nat
    BY TypeFacts, DefineStructTyped DEF DefInv, TypeInv
  <1>2. d \in Seq(Definition) /\ Holds(mem, 0, TypenamesTable)
    BY DEF DefInv
  <1>3. PICK at : Kept(mem, Top, d, intact, current, at)
    BY DEF DefInv
  <1>4. /\ Base(d, at) \in Nat /\ structs_array + 1 <= Base(d, at) /\ structs_array \in Nat
        /\ Base(d, at) <= SIZE_MEM_BUFFER
    BY <1>2, <1>3, KeptFacts
  <1>5. Base(d, at) <= Top /\ (current # NULL => Base(d, at) <= current)
    BY <1>3 DEF Kept
  <1>6. Top \in Int /\ Top <= mem_idx
    BY <1>1, TopFacts
  <1>7. PICK fit : NameStored(name, fit)
    BY <1>1, DefineStructStores
  <1> DEFINE size == SizeOf(NamePieces(Received(send_struct_def_name(name))), fit)
  <1>8. /\ mem_idx' = mem_idx + size /\ size \in Nat
        /\ \A a \in 0..(SIZE_MEM_BUFFER - 1) : a < mem_idx /\ a # structs_array => mem'[a] = mem[a]
        /\ current' = CASE fit = 3 -> mem_idx + 1 + Len(name) [] fit = 2 -> NULL [] OTHER -> current
        /\ fit \in 0..3
    BY <1>7 DEF NameStored
  <1>9. contexts' = contexts /\ defined' = d
    BY DEF DefineStruct
  <1> HIDE DEF size
  <1> DEFINE base == Base(d, at)
  <1>10. base \in Nat /\ base <= mem_idx /\ structs_array + 1 <= base /\ base <= Top /\ base <= SIZE_MEM_BUFFER
    <2>1. base \in Nat /\ base <= Top /\ structs_array + 1 <= base /\ base <= SIZE_MEM_BUFFER
      BY <1>4, <1>5
    <2> HIDE DEF base
    <2> QED
      BY <1>1, <1>6, <2>1
  <1> HIDE DEF base
  <1>11. Agree(mem', mem, 0, structs_array) /\ Agree(mem', mem, structs_array + 1, base)
    <2>1. ASSUME NEW a \in 0..(structs_array - 1) PROVE mem'[a] = mem[a]
      <3>1. a \in 0..(SIZE_MEM_BUFFER - 1) /\ a < mem_idx /\ a # structs_array
        BY <1>1, <1>4, <1>10, Constants
      <3> QED
        BY <1>8, <3>1
    <2>2. ASSUME NEW a \in (structs_array + 1)..(base - 1) PROVE mem'[a] = mem[a]
      <3>1. a \in 0..(SIZE_MEM_BUFFER - 1) /\ a < mem_idx /\ a # structs_array
        BY <1>1, <1>4, <1>10, Constants
      <3> QED
        BY <1>8, <3>1
    <2> QED
      BY <2>1, <2>2 DEF Agree
  <1>12. base <= Top'
    <2> DEFINE c == contexts * CTX_SIZE
    <2>1. c \in Nat
      BY <1>1, ContextBytes
    <2>2. Top = mem_idx - c /\ Top' = mem_idx' - c
      BY <1>9 DEF Top
    <2> HIDE DEF c
    <2>3. mem_idx' - c = (mem_idx - c) + size
      BY <1>1, <1>8, <2>1
    <2>4. \A b, x \in Int, i \in Nat : b <= x => b <= x + i
      OBVIOUS
    <2>5. base <= Top + size
      BY <1>6, <1>8, <1>10, <2>4
    <2> QED
      BY <2>2, <2>3, <2>5
  <1>13. current' # NULL => base <= current'
    <2>1. CASE fit = 3
      <3>1. Len(name) \in Nat
        BY NameApdu, LenProperties
      <3>2. current' = mem_idx + 1 + Len(name)
        BY <1>8, <2>1
      <3> HIDE DEF current
      <3>3. base <= mem_idx + 1 + Len(name)
        BY <1>1, <1>10, <3>1
      <3> QED
        BY <3>2, <3>3
    <2>2. CASE fit = 2
      BY <1>8, <2>2
    <2>3. CASE fit \notin {2, 3}
      <3>1. current' = current
        BY <1>8, <2>3
      <3> QED
        BY <1>5, <3>1 DEF base
    <2> QED
      BY <2>1, <2>2, <2>3
  <1>14. Kept(mem', Top', d, intact', current', at)
    <2>1. Agree(mem', mem, structs_array + 1, Base(d, at)) /\ Base(d, at) <= Top'
          /\ (current' # NULL => Base(d, at) <= current')
      BY <1>11, <1>12, <1>13 DEF base
    <2> HIDE DEF d, current
    <2> QED
      BY <1>2, <1>3, <2>1, Undisturbed
  <1>15. Holds(mem', 0, TypenamesTable)
    BY <1>2, <1>11, TableStays
  <1> QED
    BY <1>1, <1>2, <1>9, <1>14, <1>15 DEF DefInv

LEMMA SmallRemainder == \A x, y \in Nat : x < y => x % y = x
  OBVIOUS

LEMMA Appended ==
    ASSUME NEW K, NEW d \in Seq(K), NEW s \in K
    PROVE  /\ Append(d, s) \in Seq(K) /\ Len(Append(d, s)) = Len(d) + 1
           /\ Append(d, s)[Len(d) + 1] = s /\ Append(d, s) # << >>
           /\ \A n \in 1..Len(d) : Append(d, s)[n] = d[n]
  <1>1. /\ Append(d, s) \in Seq(K) /\ Len(Append(d, s)) = Len(d) + 1
        /\ \A n \in 1..Len(d) : Append(d, s)[n] = d[n]
        /\ Append(d, s)[Len(d) + 1] = s
    BY AppendProperties
  <1>2. Append(d, s) # << >>
    <2>1. Len(d) \in Nat /\ Len(<< >>) = 0
      BY LenProperties
    <2> DEFINE t == Append(d, s)
    <2>2. Len(t) # 0
      BY <1>1, <2>1
    <2> HIDE DEF t
    <2>3. t # << >>
      BY <2>1, <2>2
    <2> QED
      BY <2>3 DEF t
  <1> QED
    BY <1>1, <1>2

(* A name that is kept begins a struct behind the others.                  *)
LEMMA NameKept ==
    ASSUME DefInv, NEW name \in JsonNames, DefineStruct(name), intact'
    PROVE  DefInv'
  <1> DEFINE d == defined
             k == Len(d)
             h == Len(name)
             current == current_struct_fields_array
             s == [name |-> name, fields |-> << >>]
             e == Append(d, s)
             m == Incremented(mem, structs_array)
             data == Received(send_struct_def_name(name))
             pieces == NamePieces(data)
  <1>1. TypeInv /\ mem_idx \in Nat /\ mem_idx <= SIZE_MEM_BUFFER /\ TypeInv' /\ structs_array + 1 <= mem_idx
    BY TypeFacts, DefineStructTyped DEF DefInv, TypeInv
  <1>2. d \in Seq(Definition) /\ Holds(mem, 0, TypenamesTable)
    BY DEF DefInv
  <1>3. PICK at : Kept(mem, Top, d, intact, current, at)
    BY DEF DefInv
  <1>4. /\ k \in Nat /\ structs_array \in Nat /\ SIZE_MEM_BUFFER \in Nat
        /\ \A n \in 1..(k + 1) : at[n] \in Nat /\ structs_array + 1 <= at[n] /\ at[n] <= SIZE_MEM_BUFFER
        /\ \A n \in 1..k : /\ n \in 1..(k + 1) /\ n + 1 \in 1..(k + 1)
                           /\ d[n] \in Definition /\ at[n + 1] <= at[k + 1]
    BY <1>2, <1>3, KeptFacts, Constants
  <1>5. /\ intact /\ contexts = 0 /\ Allocated(pieces, mem_idx) = Len(pieces)
        /\ mem[structs_array] + 1 < COUNT_VALUES
        /\ defined' = e /\ contexts' = contexts
    BY DEF DefineStruct, Whole
  <1>6. /\ at[1] = structs_array + 1
        /\ \A i, j \in 1..(k + 1) : i <= j => at[i] <= at[j]
        /\ \A n \in 1..k : StructAt(mem, at[n], d[n], at[n + 1])
        /\ mem[structs_array] = k /\ at[k + 1] = Top
    BY <1>3, <1>5 DEF Kept
  <1>7. Top = mem_idx /\ Top' = mem_idx'
    <2>1. Top = mem_idx
      BY <1>1, <1>5, TopFacts
    <2>2. Top' = mem_idx' - 0 * CTX_SIZE /\ 0 * CTX_SIZE = 0
      BY <1>5, Constants DEF Top
    <2>3. mem_idx' \in Int
      BY <1>1 DEF TypeInv, TypeOK
    <2> QED
      BY <2>1, <2>2, <2>3
  <1>8. name \in Seq(Byte) /\ h \in Nat
    BY NameApdu, LenProperties
  <1>9. PICK fit : NameStored(name, fit)
    BY <1>1, DefineStructStores
  <1>10. /\ fit = 3 /\ Fits(pieces) /\ Covers(pieces, NameImage(name)) /\ Len(pieces) = 3
         /\ SizeOf(pieces, 3) = 2 + h
         /\ mem_idx + SizeOf(pieces, 3) <= SIZE_MEM_BUFFER /\ mem_idx' = mem_idx + SizeOf(pieces, 3)
         /\ m \in Memory /\ mem' = Stored(m, mem_idx, pieces, 3)
         /\ mem'[structs_array] = (mem[structs_array] + 1) % COUNT_VALUES
         /\ \A a \in 0..(SIZE_MEM_BUFFER - 1) : a < mem_idx /\ a # structs_array => mem'[a] = mem[a]
         /\ current' = mem_idx + 1 + h
    <2>1. fit = 3
      BY <1>5, <1>9 DEF NameStored
    <2> QED
      BY <1>9, <2>1 DEF NameStored
  <1>11. s \in Definition /\ s.name = name
    <2>1. << >> \in Seq(Meanings)
      OBVIOUS
    <2> QED
      BY <1>8, <2>1 DEF Definition
  <1>12. StructAt(mem', mem_idx, s, mem_idx')
    <2>1. Holds(mem', mem_idx, NameImage(name))
      <3> HIDE DEF m, pieces
      <3> QED
        BY <1>1, <1>10, StoredHolds
    <2>2. Holds(mem', mem_idx, (<<h>> \o name) \o <<0>>)
      BY <2>1 DEF NameImage
    <2>3. StructAt(mem', mem_idx, s, mem_idx + 2 + h)
      BY <1>1, <1>8, <2>2, StructBegins
    <2>4. mem_idx + 2 + h = mem_idx'
      <3> HIDE DEF h, pieces
      <3> QED
        BY <1>1, <1>8, <1>10
    <2> QED
      BY <2>3, <2>4
  <1>13. mem_idx' \in Nat /\ mem_idx <= mem_idx' /\ mem_idx' <= SIZE_MEM_BUFFER
    <2> HIDE DEF h, pieces
    <2> QED
      BY <1>1, <1>8, <1>10
  <1>14. /\ e \in Seq(Definition) /\ Len(e) = k + 1 /\ e[k + 1] = s /\ e # << >>
         /\ \A n \in 1..k : e[n] = d[n]
    <2> HIDE DEF s
    <2> QED
      BY <1>2, <1>11, Appended
  <1>15. mem'[structs_array] = k + 1
    <2>1. (k + 1) % COUNT_VALUES = k + 1
      <3> HIDE DEF k
      <3>1. k \in Nat /\ k + 1 \in Nat /\ k + 1 < COUNT_VALUES /\ COUNT_VALUES \in Nat
        BY <1>4, <1>5, <1>6, Constants
      <3> QED
        BY <3>1, SmallRemainder
    <2> QED
      BY <1>6, <1>10, <2>1
  <1> HIDE DEF e, s, k, h, d, current, m, pieces
  <1>16. Agree(mem', mem, 0, structs_array) /\ Agree(mem', mem, structs_array + 1, mem_idx)
    <2>1. ASSUME NEW a \in 0..(structs_array - 1) PROVE mem'[a] = mem[a]
      <3>1. a \in 0..(SIZE_MEM_BUFFER - 1) /\ a < mem_idx /\ a # structs_array
        BY <1>1, <1>4
      <3> QED
        BY <1>10, <3>1
    <2>2. ASSUME NEW a \in (structs_array + 1)..(mem_idx - 1) PROVE mem'[a] = mem[a]
      <3>1. a \in 0..(SIZE_MEM_BUFFER - 1) /\ a < mem_idx /\ a # structs_array
        BY <1>1, <1>4
      <3> QED
        BY <1>10, <3>1
    <2> QED
      BY <2>1, <2>2 DEF Agree
  <1> DEFINE g == [i \in 1..(k + 2) |-> IF i <= k + 1 THEN at[i] ELSE mem_idx']
  <1>17. /\ g \in [1..((k + 1) + 1) -> (structs_array + 1)..SIZE_MEM_BUFFER]
         /\ g[(k + 1) + 1] = mem_idx' /\ \A i \in 1..(k + 1) : g[i] = at[i]
    <2>1. (k + 1) + 1 = k + 2 /\ ~(k + 2 <= k + 1) /\ k + 2 \in 1..(k + 2)
      BY <1>4
    <2>2. ASSUME NEW i \in 1..(k + 1) PROVE i \in 1..(k + 2) /\ i <= k + 1
      BY <1>4
    <2>3. ASSUME NEW i \in 1..(k + 2)
          PROVE  (IF i <= k + 1 THEN at[i] ELSE mem_idx') \in (structs_array + 1)..SIZE_MEM_BUFFER
      <3>1. CASE i <= k + 1
        <4>1. i \in 1..(k + 1)
          BY <1>4, <3>1
        <4>2. at[i] \in Nat /\ structs_array + 1 <= at[i] /\ at[i] <= SIZE_MEM_BUFFER
          BY <1>4, <4>1
        <4> QED
          BY <1>4, <3>1, <4>2
      <3>2. CASE ~(i <= k + 1)
        <4>1. mem_idx' \in (structs_array + 1)..SIZE_MEM_BUFFER
          BY <1>1, <1>4, <1>13
        <4> QED
          BY <3>2, <4>1
      <3> QED
        BY <3>1, <3>2
    <2>4. g \in [1..(k + 2) -> (structs_array + 1)..SIZE_MEM_BUFFER]
      BY <2>3
    <2>5. g[k + 2] = mem_idx'
      BY <2>1
    <2>6. \A i \in 1..(k + 1) : g[i] = at[i]
      BY <2>2
    <2> QED
      BY <2>1, <2>4, <2>5, <2>6
  <1> HIDE DEF g
  <1>18. 1 \in 1..(k + 1) /\ k + 1 \in 1..(k + 1)
    BY <1>4
  <1>19. ASSUME NEW i \in 1..((k + 1) + 1), NEW j \in 1..((k + 1) + 1), i <= j PROVE g[i] <= g[j]
    <2>1. CASE j <= k + 1
      <3>1. i \in 1..(k + 1) /\ j \in 1..(k + 1)
        BY <1>4, <1>19, <2>1
      <3> QED
        BY <1>6, <1>17, <1>19, <3>1
    <2>2. CASE ~(j <= k + 1)
      <3>1. j = (k + 1) + 1
        BY <1>4, <2>2
      <3>2. g[j] = mem_idx'
        BY <1>17, <3>1
      <3>3. CASE i <= k + 1
        <4>1. i \in 1..(k + 1) /\ i <= k + 1
          BY <1>4, <3>3
        <4>2. at[i] <= mem_idx /\ g[i] = at[i] /\ at[i] \in Nat
          BY <1>4, <1>6, <1>7, <1>17, <1>18, <4>1
        <4> QED
          BY <1>1, <1>13, <3>2, <4>2
      <3>4. CASE ~(i <= k + 1)
        <4>1. i = j
          BY <1>4, <3>1, <3>4
        <4> QED
          BY <1>13, <3>2, <4>1
      <3> QED
        BY <3>3, <3>4
    <2> QED
      BY <2>1, <2>2
  <1>20. ASSUME NEW n \in 1..(k + 1) PROVE StructAt(mem', g[n], e[n], g[n + 1])
    <2>1. CASE n <= k
      <3>1. n \in 1..k
        BY <1>4, <2>1
      <3> DEFINE x == at[n]
                 y == at[n + 1]
      <3>2. /\ x \in Int /\ y \in Int /\ structs_array + 1 <= x /\ y <= mem_idx
            /\ d[n] \in Definition /\ StructAt(mem, x, d[n], y) /\ g[n] = x /\ g[n + 1] = y
            /\ e[n] = d[n]
        BY <1>4, <1>6, <1>7, <1>14, <1>17, <3>1, SMTT(30)
      <3> HIDE DEF x, y
      <3>3. structs_array + 1 \in Int /\ mem_idx \in Int
        BY <1>1, <1>4
      <3>4. StructAt(mem', x, d[n], y)
        BY <1>16, <3>2, <3>3, StructFrame
      <3> QED
        BY <3>2, <3>4
    <2>2. CASE n = k + 1
      <3>1. g[n] = mem_idx /\ g[n + 1] = mem_idx' /\ e[n] = s
        BY <1>6, <1>7, <1>14, <1>17, <1>18, <2>2
      <3> QED
        BY <1>12, <3>1
    <2>3. n <= k \/ n = k + 1
      BY <1>4
    <2> QED
      BY <2>1, <2>2, <2>3
  <1>21. Base(e, g) = mem_idx
    BY <1>6, <1>7, <1>14, <1>17, <1>18 DEF Base
  <1>22. mem_idx <= current'
    BY <1>1, <1>8, <1>10
  <1>23. g[1] = structs_array + 1
    BY <1>6, <1>17, <1>18
  <1>24. current' = g[k + 1] + 1 + Len(e[k + 1].name)
    BY <1>6, <1>7, <1>10, <1>11, <1>14, <1>17, <1>18 DEF h
  <1>25. Kept(mem', Top', e, intact', current', g)
    BY <1>7, <1>13, <1>14, <1>15, <1>17, <1>19, <1>20, <1>21, <1>22, <1>23, <1>24 DEF Kept
  <1>26. Holds(mem', 0, TypenamesTable)
    BY <1>2, <1>16, TableStays
  <1> QED
    BY <1>1, <1>5, <1>14, <1>25, <1>26 DEF DefInv, current

LEMMA StructSpan ==
    ASSUME NEW m, NEW p \in Int, NEW s \in Definition, NEW q \in Int, StructAt(m, p, s, q)
    PROVE  p + 2 + Len(s.name) <= q /\ m[p + 1 + Len(s.name)] = Len(s.fields)
  <1> DEFINE k == Len(s.fields)
             h == Len(s.name)
  <1>1. k \in Nat /\ h \in Nat
    BY NameSize
  <1>2. PICK at \in [1..(k + 1) -> (p + 1 + h + 1)..q] : at[1] = p + 1 + h + 1
    BY DEF StructAt
  <1>3. m[p + 1 + h] = k
    BY DEF StructAt
  <1> HIDE DEF k, h
  <1>4. at[1] \in (p + 1 + h + 1)..q
    BY <1>1, <1>2
  <1>5. p + 2 + h <= q
    BY <1>1, <1>4
  <1> QED
    BY <1>3, <1>5 DEF k, h

(* The last struct d defines, with one more field.                         *)
Extended(d, meaning) == [d EXCEPT ![Len(d)].fields = Append(@, meaning)]

LEMMA ExtendedType ==
    ASSUME NEW d \in Seq(Definition), Len(d) > 0, NEW meaning \in Meanings
    PROVE  LET k == Len(d)
               e == Extended(d, meaning)
           IN  /\ e \in Seq(Definition) /\ Len(e) = k /\ e # << >> /\ e[k] \in Definition
               /\ e[k] = [d[k] EXCEPT !.fields = Append(@, meaning)]
               /\ e[k].name = d[k].name
               /\ \A n \in 1..k : n # k => e[n] = d[n]
  <1> DEFINE k == Len(d)
             e == Extended(d, meaning)
             t == [d[k] EXCEPT !.fields = Append(@, meaning)]
  <1>1. k \in Nat /\ k \in 1..k /\ DOMAIN d = 1..k /\ \A n \in 1..k : d[n] \in Definition
    BY LenProperties, ElementOfSeq
  <1>2. d[k].name \in Seq(Byte) /\ d[k].fields \in Seq(Meanings) /\ d[k] \in Definition
    BY <1>1 DEF Definition
  <1>3. t \in Definition /\ t.name = d[k].name
    <2>1. Append(d[k].fields, meaning) \in Seq(Meanings)
      BY <1>2, AppendProperties
    <2> QED
      BY <1>2, <2>1 DEF Definition
  <1>4. e = [d EXCEPT ![k] = t]
    BY DEF Extended
  <1> HIDE DEF t
  <1>5. e = [n \in 1..k |-> IF n = k THEN t ELSE d[n]]
    BY <1>1, <1>4
  <1> HIDE DEF e, k
  <1>6. e[k] = t /\ \A n \in 1..k : n # k => e[n] = d[n]
    BY <1>1, <1>5
  <1>7. \A n \in 1..k : (IF n = k THEN t ELSE d[n]) \in Definition
    BY <1>1, <1>3
  <1>8. e \in [1..k -> Definition] /\ DOMAIN e = 1..k
    BY <1>5, <1>7
  <1>9. e \in Seq(Definition) /\ Len(e) = k
    BY <1>1, <1>8, LenProperties
  <1>10. e # << >>
    <2>1. k # 0 /\ Len(<< >>) = 0
      BY <1>1 DEF k
    <2> QED
      BY <1>9, <2>1
  <1> QED
    BY <1>3, <1>6, <1>9, <1>10 DEF e, k, t

(* What the step does with the memory when the field is kept whole.        *)
FieldStored(field, current) ==
    LET payload == Payload(field.type, field.name)
    IN  /\ Len(payload) \in Nat
        /\ mem_idx' = mem_idx + Len(payload) /\ mem_idx' <= SIZE_MEM_BUFFER
        /\ Holds(mem', mem_idx, payload)
        /\ mem'[current] = (mem[current] + 1) % COUNT_VALUES
        /\ \A a \in 0..(SIZE_MEM_BUFFER - 1) : a < mem_idx /\ a # current => mem'[a] = mem[a]

LEMMA DefineFieldStores ==
    ASSUME TypeInv, NEW field \in JsonFields, DefineField(field), intact',
           current_struct_fields_array < mem_idx
    PROVE  /\ FieldStored(field, current_struct_fields_array)
           /\ current_struct_fields_array # NULL
           /\ current_struct_fields_array' = current_struct_fields_array
  <1> DEFINE apdu == send_struct_def_field(field.type, field.name)
             data == Received(apdu)
             pieces == FieldPieces(data)
             payload == Payload(field.type, field.name)
             current == current_struct_fields_array
             m == Incremented(mem, current)
             total == SizeOf(pieces, Len(pieces))
  <1>1. /\ mem \in Memory /\ mem_idx \in Nat /\ mem_idx <= SIZE_MEM_BUFFER
        /\ structs_array + 1 <= mem_idx /\ mem_idx \in 0..SIZE_MEM_BUFFER
        /\ buf \in Buffer /\ TypeOK
    BY TypeFacts DEF TypeInv
  <1>2. /\ status = "run" /\ status' = "run" /\ Len(apdu) <= BUF_SIZE /\ Len(apdu) <= INDEX_VALUES
        /\ Allocated(pieces, mem_idx) = Len(pieces) /\ set_struct_field(data)
    BY DEF DefineField, Whole
  <1>3. current # NULL /\ Keep(m, pieces) /\ current' = current
    <2>1. "run" # "stray"
      OBVIOUS
    <2>2. ~(current = NULL \/ ~StaysInside(data, pieces))
      BY <1>2, <2>1 DEF set_struct_field
    <2> QED
      BY <1>2, <2>2 DEF set_struct_field
  <1>4. Sendable(field.type, field.name) /\ Len(payload) \in Nat
    BY PayloadSize
  <1>5. Arrived(data, field.type, field.name)
    BY <1>1, <1>2, <1>4, FieldArrives
  <1> HIDE DEF apdu, data
  <1>6. Fits(pieces) /\ Covers(pieces, payload)
    BY <1>1, <1>2, <1>5, FieldCovers
  <1>7. current \in 0..(SIZE_MEM_BUFFER - 1)
    <2>1. current \in (structs_array + 1)..(SIZE_MEM_BUFFER - 1)
      BY <1>1, <1>3 DEF TypeOK
    <2> HIDE DEF current
    <2> QED
      BY <2>1, StructsArray
  <1>8. /\ m \in Memory /\ m[current] = (mem[current] + 1) % COUNT_VALUES
        /\ \A a \in 0..(SIZE_MEM_BUFFER - 1) : a # current => m[a] = mem[a]
    BY <1>1, <1>7, IncrementedType
  <1> HIDE DEF pieces, payload, m
  <1>9. pieces \in Seq(AnyPiece)
    BY <1>6 DEF Fits
  <1>10. Len(payload) = total
    BY <1>6, CoversType
  <1>11. mem' = Stored(m, mem_idx, pieces, Len(pieces)) /\ mem_idx' = mem_idx + total
    BY <1>2, <1>3 DEF Keep
  <1>12. mem_idx + total <= SIZE_MEM_BUFFER
    BY <1>1, <1>2, <1>9, AllocatedType
  <1>13. Holds(mem', mem_idx, payload)
    BY <1>1, <1>6, <1>8, <1>11, <1>12, StoredHolds
  <1>14. \A a \in 0..(SIZE_MEM_BUFFER - 1) : a < mem_idx => mem'[a] = m[a]
    BY <1>1, <1>3, <1>8, <1>9, KeepType
  <1>15. mem'[current] = (mem[current] + 1) % COUNT_VALUES
    BY <1>7, <1>8, <1>14
  <1>16. \A a \in 0..(SIZE_MEM_BUFFER - 1) : a < mem_idx /\ a # current => mem'[a] = mem[a]
    BY <1>8, <1>14
  <1>17. mem_idx' = mem_idx + Len(payload) /\ mem_idx' <= SIZE_MEM_BUFFER
    BY <1>10, <1>11, <1>12
  <1>18. FieldStored(field, current)
    BY <1>4, <1>13, <1>15, <1>16, <1>17 DEF FieldStored, payload
  <1> QED
    BY <1>3, <1>18

LEMMA FieldLost ==
    ASSUME DefInv, NEW field \in JsonFields, DefineField(field), ~intact'
    PROVE  DefInv'
  <1> DEFINE apdu == send_struct_def_field(field.type, field.name)
             data == Received(apdu)
  <1>1. /\ Len(apdu) <= BUF_SIZE /\ set_struct_field(data)
        /\ contexts' = contexts /\ defined' = defined
    BY DEF DefineField
  <1>2. apdu \in Seq(Byte)
    BY <1>1, FieldSendable, FieldApdu
  <1>3. TypeInv /\ buf \in Buffer /\ TypeInv'
    BY TypeFacts, DefineFieldTyped DEF DefInv, TypeInv
  <1> HIDE DEF apdu
  <1>4. data \in Buffer
    BY <1>1, <1>2, <1>3, ReceivedType
  <1> HIDE DEF data
  <1> QED
    BY <1>1, <1>3, <1>4, SetFieldKept

LEMMA PartKept ==
    ASSUME DefInv, NEW part \in Parts, DefinePart(part)
    PROVE  DefInv'
  <1> DEFINE apdu == <<224, 26, 255, 255, Len(part)>> \o part
             data == Received(apdu)
  <1>1. /\ set_struct_field(data) /\ contexts' = contexts /\ defined' = defined /\ ~intact'
    BY DEF DefinePart
  <1>2. apdu \in Seq(Byte) /\ Len(apdu) <= BUF_SIZE
    BY PartApdu
  <1>3. TypeInv /\ buf \in Buffer /\ TypeInv'
    BY TypeFacts, DefinePartTyped DEF DefInv, TypeInv
  <1> HIDE DEF apdu
  <1>4. data \in Buffer
    BY <1>2, <1>3, ReceivedType
  <1> HIDE DEF data
  <1> QED
    BY <1>1, <1>3, <1>4, SetFieldKept

(* A field that is kept lies behind the last struct, which counts it.      *)
LEMMA FieldKept ==
    ASSUME DefInv, NEW field \in JsonFields, DefineField(field), intact'
    PROVE  DefInv'
  <1> DEFINE d == defined
             k == Len(d)
             current == current_struct_fields_array
             meaning == Meaning(field)
             e == Extended(d, meaning)
  <1>1. TypeInv /\ mem_idx \in Nat /\ mem_idx <= SIZE_MEM_BUFFER /\ TypeInv' /\ structs_array + 1 <= mem_idx
    BY TypeFacts, DefineFieldTyped DEF DefInv, TypeInv
  <1>2. d \in Seq(Definition) /\ Holds(mem, 0, TypenamesTable)
    BY DEF DefInv
  <1>3. PICK at : Kept(mem, Top, d, intact, current, at)
    BY DEF DefInv
  <1>4. /\ k \in Nat /\ structs_array \in Nat /\ SIZE_MEM_BUFFER \in Nat
        /\ \A n \in 1..(k + 1) : at[n] \in Nat /\ structs_array + 1 <= at[n] /\ at[n] <= SIZE_MEM_BUFFER
        /\ \A n \in 1..k : /\ n \in 1..(k + 1) /\ n + 1 \in 1..(k + 1) /\ d[n] \in Definition
                           /\ n < k => at[n + 1] <= Base(d, at)
    BY <1>2, <1>3, KeptFacts, Constants
  <1>5. /\ intact /\ contexts = 0 /\ contexts' = contexts /\ defined' = e
        /\ mem[current] + 1 < COUNT_VALUES
    BY DEF DefineField, Whole, Extended
  <1>6. /\ at \in [1..(k + 1) -> (structs_array + 1)..SIZE_MEM_BUFFER]
        /\ at[1] = structs_array + 1
        /\ \A i, j \in 1..(k + 1) : i <= j => at[i] <= at[j]
        /\ \A n \in 1..k : StructAt(mem, at[n], d[n], at[n + 1])
        /\ mem[structs_array] = k /\ at[k + 1] = Top
        /\ current = IF d = << >> THEN NULL ELSE at[k] + 1 + Len(d[k].name)
        /\ Base(d, at) <= Top
    BY <1>3, <1>5 DEF Kept
  <1>7. Top = mem_idx /\ Top' = mem_idx'
    <2>1. Top = mem_idx
      BY <1>1, <1>5, TopFacts
    <2>2. Top' = mem_idx' - 0 * CTX_SIZE /\ 0 * CTX_SIZE = 0
      BY <1>5, Constants DEF Top
    <2>3. mem_idx' \in Int
      BY <1>1 DEF TypeInv, TypeOK
    <2> QED
      BY <2>1, <2>2, <2>3
  <1>8. current # NULL
    <2>1. "run" # "stray" /\ status' = "run"
      BY DEF DefineField
    <2> QED
      BY <2>1 DEF DefineField, set_struct_field
  <1>9. d # << >> /\ k > 0 /\ current = at[k] + 1 + Len(d[k].name) /\ Base(d, at) = at[k]
    <2>1. d # << >>
      BY <1>6, <1>8
    <2>2. k # 0
      BY <1>2, <2>1, EmptySeq
    <2> HIDE DEF k, current
    <2>3. current = at[k] + 1 + Len(d[k].name)
      BY <1>6, <2>1
    <2>4. Base(d, at) = at[k]
      BY <2>1 DEF Base, k
    <2> QED
      BY <1>4, <2>1, <2>2, <2>3, <2>4
  <1> DEFINE s == d[k]
             p == at[k]
             h == Len(s.name)
             t == [s EXCEPT !.fields = Append(@, meaning)]
  <1>10. /\ k \in 1..k /\ k \in 1..(k + 1) /\ k + 1 \in 1..(k + 1) /\ 1 \in 1..(k + 1)
         /\ \A n \in 1..(k + 1) : n # k + 1 => n \in 1..k
    BY <1>4, <1>9
  <1>11. /\ s \in Definition /\ p \in Nat /\ structs_array + 1 <= p
         /\ StructAt(mem, p, s, mem_idx)
    BY <1>4, <1>6, <1>7, <1>10
  <1>12. h \in Nat /\ Len(s.fields) \in Nat
    BY <1>11, NameSize
  <1>13. p + 2 + h <= mem_idx /\ mem[p + 1 + h] = Len(s.fields)
    <2>1. mem_idx \in Int /\ p \in Int
      BY <1>1, <1>11
    <2> HIDE DEF s, p
    <2> QED
      BY <1>11, <2>1, StructSpan
  <1>14. meaning \in Meanings
    BY DEF Meanings
  <1>15. /\ e \in Seq(Definition) /\ Len(e) = k /\ e # << >> /\ e[k] = t /\ e[k].name = s.name
         /\ \A n \in 1..k : n # k => e[n] = d[n]
    <2> HIDE DEF meaning
    <2> QED
      BY <1>2, <1>9, <1>14, ExtendedType
  <1>16. current = p + 1 + h
    BY <1>9
  <1> HIDE DEF s, p, h, t, e, k, d, meaning
  <1>17. current \in Nat /\ current < mem_idx /\ p < current /\ structs_array < current
    BY <1>1, <1>4, <1>11, <1>12, <1>13, <1>16
  <1>18. FieldStored(field, current) /\ current' = current
    BY <1>1, <1>17, DefineFieldStores
  <1> HIDE DEF current
  <1> DEFINE payload == Payload(field.type, field.name)
  <1>19. /\ mem_idx' = mem_idx + Len(payload) /\ mem_idx' <= SIZE_MEM_BUFFER /\ Len(payload) \in Nat
         /\ Holds(mem', mem_idx, payload)
         /\ mem'[current] = (mem[current] + 1) % COUNT_VALUES
         /\ \A a \in 0..(SIZE_MEM_BUFFER - 1) : a < mem_idx /\ a # current => mem'[a] = mem[a]
    BY <1>18 DEF FieldStored
  <1>20. FieldAt(mem', mem_idx, meaning, mem_idx')
    BY <1>19 DEF FieldAt, meaning
  <1> HIDE DEF payload
  <1>21. mem_idx' \in Nat /\ mem_idx <= mem_idx'
    BY <1>1, <1>19
  <1>22. mem'[p + 1 + h] = Len(s.fields) + 1
    <2>1. mem[current] = Len(s.fields)
      BY <1>13, <1>16
    <2> DEFINE c == Len(s.fields)
    <2>2. c \in Nat /\ c + 1 \in Nat /\ c + 1 < COUNT_VALUES /\ COUNT_VALUES \in Nat
      BY <1>5, <1>12, <2>1, Constants
    <2> HIDE DEF c
    <2>3. (c + 1) % COUNT_VALUES = c + 1
      BY <2>2, SmallRemainder
    <2> QED
      BY <1>16, <1>19, <2>1, <2>3 DEF c
  <1>23. \A a \in p..(mem_idx - 1) : a # p + 1 + h => mem'[a] = mem[a]
    <2> SUFFICES ASSUME NEW a \in p..(mem_idx - 1), a # p + 1 + h PROVE mem'[a] = mem[a]
      OBVIOUS
    <2>1. a \in 0..(SIZE_MEM_BUFFER - 1) /\ a < mem_idx /\ a # current
      BY <1>1, <1>4, <1>11, <1>16
    <2> QED
      BY <1>19, <2>1
  <1>24. StructAt(mem', p, t, mem_idx')
    <2>1. p \in Int /\ mem_idx \in Int /\ mem_idx' \in Int
      BY <1>1, <1>11, <1>21
    <2>2. /\ mem'[p + 1 + Len(s.name)] = Len(s.fields) + 1
          /\ \A a \in p..(mem_idx - 1) : a # p + 1 + Len(s.name) => mem'[a] = mem[a]
      BY <1>22, <1>23 DEF h
    <2>3. StructAt(mem', p, [s EXCEPT !.fields = Append(@, meaning)], mem_idx')
      BY <1>11, <1>14, <1>20, <1>21, <2>1, <2>2, StructGrows
    <2> QED
      BY <2>3 DEF t
  <1>25. Agree(mem', mem, 0, structs_array) /\ Agree(mem', mem, structs_array + 1, p)
         /\ mem'[structs_array] = mem[structs_array]
    <2>1. ASSUME NEW a \in 0..(structs_array - 1) PROVE mem'[a] = mem[a]
      <3>1. a \in 0..(SIZE_MEM_BUFFER - 1) /\ a < mem_idx /\ a # current
        BY <1>1, <1>4, <1>17
      <3> QED
        BY <1>19, <3>1
    <2>2. ASSUME NEW a \in (structs_array + 1)..(p - 1) PROVE mem'[a] = mem[a]
      <3>1. a \in 0..(SIZE_MEM_BUFFER - 1) /\ a < mem_idx /\ a # current
        BY <1>1, <1>4, <1>11, <1>17
      <3> QED
        BY <1>19, <3>1
    <2>3. structs_array \in 0..(SIZE_MEM_BUFFER - 1) /\ structs_array < mem_idx /\ structs_array # current
      BY <1>1, <1>4, <1>17
    <2> QED
      BY <1>19, <2>1, <2>2, <2>3 DEF Agree
  <1> DEFINE g == [at EXCEPT ![k + 1] = mem_idx']
  <1>26. /\ g \in [1..(k + 1) -> (structs_array + 1)..SIZE_MEM_BUFFER]
         /\ g[k + 1] = mem_idx' /\ \A n \in 1..(k + 1) : n # k + 1 => g[n] = at[n]
    <2>1. mem_idx' \in (structs_array + 1)..SIZE_MEM_BUFFER
      BY <1>1, <1>4, <1>19, <1>21
    <2> QED
      BY <1>6, <1>10, <2>1
  <1> HIDE DEF g
  <1>27. 1 # k + 1 /\ k # k + 1 /\ \A n \in 1..k : n # k + 1
    BY <1>4, <1>9
  <1>28. ASSUME NEW i \in 1..(k + 1), NEW j \in 1..(k + 1), i <= j PROVE g[i] <= g[j]
    <2>1. CASE j # k + 1
      <3>1. i # k + 1
        BY <1>4, <1>28, <2>1
      <3> QED
        BY <1>6, <1>26, <1>28, <2>1, <3>1
    <2>2. CASE j = k + 1
      <3>1. g[j] = mem_idx'
        BY <1>26, <2>2
      <3>2. CASE i = k + 1
        BY <1>21, <1>26, <3>1, <3>2
      <3>3. CASE i # k + 1
        <4>1. g[i] = at[i] /\ at[i] <= mem_idx /\ at[i] \in Nat
          BY <1>4, <1>6, <1>7, <1>10, <1>26, <1>28, <2>2, <3>3
        <4> QED
          BY <1>1, <1>21, <3>1, <4>1
      <3> QED
        BY <3>2, <3>3
    <2> QED
      BY <2>1, <2>2
  <1>29. ASSUME NEW n \in 1..k PROVE StructAt(mem', g[n], e[n], g[n + 1])
    <2>1. CASE n # k
      <3>1. n < k /\ n + 1 # k + 1 /\ n # k + 1
        BY <1>4, <2>1
      <3> DEFINE x == at[n]
                 y == at[n + 1]
      <3>2. /\ x \in Int /\ y \in Int /\ structs_array + 1 <= x /\ y <= p
            /\ d[n] \in Definition /\ StructAt(mem, x, d[n], y) /\ g[n] = x /\ g[n + 1] = y
            /\ e[n] = d[n]
        BY <1>4, <1>6, <1>9, <1>15, <1>26, <2>1, <3>1, SMTT(30) DEF p
      <3> HIDE DEF x, y
      <3>3. structs_array + 1 \in Int /\ p \in Int
        BY <1>4, <1>11
      <3>4. StructAt(mem', x, d[n], y)
        BY <1>25, <3>2, <3>3, StructFrame
      <3> QED
        BY <3>2, <3>4
    <2>2. CASE n = k
      <3>1. g[n] = p /\ g[n + 1] = mem_idx' /\ e[n] = t
        BY <1>10, <1>15, <1>26, <1>27, <2>2 DEF p
      <3> QED
        BY <1>24, <3>1
    <2> QED
      BY <2>1, <2>2
  <1>30. g[k] = p /\ g[1] = structs_array + 1
    BY <1>6, <1>10, <1>26, <1>27 DEF p
  <1>31. Base(e, g) = p
    BY <1>15, <1>30 DEF Base
  <1>32. p <= mem_idx' /\ p <= current'
    BY <1>1, <1>11, <1>17, <1>18, <1>21
  <1>33. current' = g[k] + 1 + Len(e[k].name)
    BY <1>15, <1>16, <1>18, <1>30 DEF h
  <1>34. mem'[structs_array] = k
    BY <1>6, <1>25
  <1>35. Kept(mem', Top', e, intact', current', g)
    BY <1>7, <1>15, <1>26, <1>28, <1>29, <1>30, <1>31, <1>32, <1>33, <1>34 DEF Kept
  <1>36. Holds(mem', 0, TypenamesTable)
    BY <1>2, <1>25, TableStays
  <1> QED
    BY <1>1, <1>5, <1>15, <1>35, <1>36 DEF DefInv, current

-----------------------------------------------------------------------------

(***************************************************************************)
(* The invariant, where the accessors find the structs, and the theorems.  *)
(***************************************************************************)

LEMMA DefStarts == Init => DefInv
  <1> SUFFICES ASSUME Init PROVE DefInv
    OBVIOUS
  <1>1. /\ mem = [a \in 0..(SIZE_MEM_BUFFER - 1) |->
                    IF a < Len(TypenamesTable) THEN TypenamesTable[a + 1] ELSE 0]
        /\ mem_idx = structs_array + 1 /\ current_struct_fields_array = NULL
        /\ contexts = 0 /\ defined = << >>
    BY DEF Init, DefsInit
  <1>2. TypeInv
    BY TypeStarts
  <1>3. Holds(mem, 0, TypenamesTable)
    <2> DEFINE size == Len(TypenamesTable)
    <2>1. size \in Nat /\ size <= structs_array /\ structs_array + 1 <= SIZE_MEM_BUFFER
          /\ structs_array \in Nat
      BY StructsArray
    <2> HIDE DEF size
    <2>2. ASSUME NEW i \in 1..size PROVE mem[0 + i - 1] = TypenamesTable[i]
      <3>1. i - 1 \in 0..(SIZE_MEM_BUFFER - 1) /\ i - 1 < size /\ (i - 1) + 1 = i /\ 0 + i - 1 = i - 1
        BY <2>1, Constants
      <3> QED
        BY <1>1, <3>1 DEF size
    <2> QED
      BY <2>2 DEF Holds, size
  <1>4. mem[structs_array] = 0
    <2>1. structs_array \in 0..(SIZE_MEM_BUFFER - 1) /\ ~(structs_array < Len(TypenamesTable))
      BY StructsArray, Constants
    <2> QED
      BY <1>1, <2>1
  <1>5. Top = structs_array + 1
    BY <1>1, <1>2, TopFacts
  <1> DEFINE at == [i \in 1..1 |-> structs_array + 1]
  <1>6. at \in [1..(Len(defined) + 1) -> (structs_array + 1)..SIZE_MEM_BUFFER] /\ at[1] = structs_array + 1
        /\ Len(defined) = 0
    <2>1. Len(defined) = 0 /\ 0 + 1 = 1 /\ structs_array + 1 \in (structs_array + 1)..SIZE_MEM_BUFFER
      BY <1>1, StructsArray, Constants
    <2> QED
      BY <2>1
  <1>7. \A i \in 1..(Len(defined) + 1) : i = 1
    BY <1>6
  <1> HIDE DEF at
  <1>8. structs_array + 1 <= structs_array + 1 /\ structs_array + 1 \in Nat
    BY StructsArray
  <1>9. Base(defined, at) = structs_array + 1
    BY <1>1, <1>6 DEF Base
  <1>10. Kept(mem, Top, defined, intact, current_struct_fields_array, at)
    <2>1. at[Len(defined) + 1] = structs_array + 1 /\ 1..Len(defined) = {}
      BY <1>6
    <2>2. \A i, j \in 1..(Len(defined) + 1) : i <= j => at[i] <= at[j]
      BY <1>6, <1>7, <1>8
    <2> QED
      BY <1>1, <1>4, <1>5, <1>6, <1>8, <1>9, <2>1, <2>2 DEF Kept
  <1>11. defined \in Seq(Definition)
    BY <1>1
  <1> QED
    BY <1>2, <1>3, <1>10, <1>11 DEF DefInv

LEMMA DefStep == DefInv /\ [Next]_vars => DefInv'
  <1> SUFFICES ASSUME DefInv, [Next]_vars PROVE DefInv'
    OBVIOUS
  <1>1. ASSUME NEW name \in JsonNames, DefineStruct(name) PROVE DefInv'
    BY <1>1, NameKept, NameLost
  <1>2. ASSUME NEW field \in JsonFields, DefineField(field) PROVE DefInv'
    BY <1>2, FieldKept, FieldLost
  <1>3. ASSUME NEW part \in Parts, DefinePart(part) PROVE DefInv'
    BY <1>3, PartKept
  <1>4. CASE PushContext
    BY <1>4, PushKept
  <1>5. CASE HashIntoTop
    BY <1>5, HashKept
  <1>6. CASE PopContext
    BY <1>6, PopKept
  <1>7. CASE UNCHANGED vars
    <2>1. TypeInv'
      BY TypeStep DEF DefInv
    <2>2. /\ mem' = mem /\ defined' = defined /\ intact' = intact /\ Top' = Top
          /\ current_struct_fields_array' = current_struct_fields_array
      BY <1>7 DEF vars, defVars, Top
    <2> QED
      BY <2>1, <2>2 DEF DefInv
  <1> QED
    BY <1>1, <1>2, <1>3, <1>4, <1>5, <1>6, <1>7 DEF Next

(* The structs that are kept are where the accessors look for them.        *)
LEMMA StructsFound ==
    ASSUME DefInv, NEW at, Kept(mem, Top, defined, intact, current_struct_fields_array, at)
    PROVE  /\ \A n \in 1..Len(defined) : StructPtr[n] = at[n]
           /\ \A n \in 1..Len(defined) :
                 n < Len(defined) \/ intact =>
                     /\ get_struct_name(StructPtr[n]) = defined[n].name
                     /\ FieldsCount(StructPtr[n]) = Len(defined[n].fields)
                     /\ DecodedStruct(StructPtr[n]) = defined[n]
                     /\ \A j \in 1..Len(defined[n].fields) : SizeRead(FieldPtr(StructPtr[n])[j])
  <1> DEFINE k == Len(defined)
  <1>1. mem \in Memory /\ Holds(mem, 0, TypenamesTable) /\ defined \in Seq(Definition)
    BY TypeFacts DEF DefInv, TypeInv
  <1>2. /\ k \in Nat
        /\ \A n \in 1..(k + 1) : at[n] \in Nat
        /\ \A n \in 1..k : n \in 1..(k + 1) /\ n + 1 \in 1..(k + 1) /\ defined[n] \in Definition
    BY <1>1, KeptFacts
  <1>3. /\ at[1] = structs_array + 1
        /\ \A n \in 1..k : n < k \/ intact => StructAt(mem, at[n], defined[n], at[n + 1])
    BY DEF Kept
  <1> HIDE DEF k
  <1>4. ASSUME NEW n \in 1..k, n < k \/ intact
        PROVE  /\ get_struct_name(at[n]) = defined[n].name
               /\ FieldsCount(at[n]) = Len(defined[n].fields)
               /\ DecodedStruct(at[n]) = defined[n] /\ get_next_struct(at[n]) = at[n + 1]
               /\ \A j \in 1..Len(defined[n].fields) : SizeRead(FieldPtr(at[n])[j])
    <2>1. at[n] \in Nat /\ at[n + 1] \in Int /\ defined[n] \in Definition
      BY <1>2
    <2>2. StructAt(mem, at[n], defined[n], at[n + 1])
      BY <1>3, <1>4
    <2> QED
      BY <1>1, <2>1, <2>2, StructHeld
  <1> DEFINE T == {n \in Nat : n + 1 \in 1..k => StructPtr[n + 1] = at[n + 1]}
  <1>5. 0 \in T
    <2>1. StructPtr[1] = at[1] /\ 0 + 1 = 1
      BY <1>3, StructPtrSteps
    <2> QED
      BY <2>1
  <1>6. ASSUME NEW n \in T PROVE n + 1 \in T
    <2>1. n \in Nat /\ n + 1 \in Nat /\ n + 1 \in Nat \ {0}
      BY <1>6
    <2>2. ASSUME (n + 1) + 1 \in 1..k PROVE StructPtr[(n + 1) + 1] = at[(n + 1) + 1]
      <3>1. n + 1 \in 1..k /\ n + 1 < k
        BY <1>2, <2>1, <2>2
      <3>2. StructPtr[n + 1] = at[n + 1]
        BY <1>6, <3>1
      <3>3. get_next_struct(at[n + 1]) = at[(n + 1) + 1]
        BY <1>4, <3>1
      <3>4. StructPtr[(n + 1) + 1] = get_next_struct(StructPtr[n + 1])
        BY <2>1, StructPtrSteps
      <3> QED
        BY <3>2, <3>3, <3>4
    <2> QED
      BY <2>1, <2>2
  <1> HIDE DEF T
  <1>7. T = Nat
    <2>1. T \in SUBSET Nat
      BY DEF T
    <2> QED
      BY <1>5, <1>6, <2>1, Sizes!SetInduction
  <1>8. ASSUME NEW n \in 1..k PROVE StructPtr[n] = at[n]
    <2>1. n - 1 \in Nat /\ (n - 1) + 1 = n
      BY <1>2
    <2>2. n - 1 \in T
      BY <1>7, <2>1
    <2> QED
      BY <2>1, <2>2 DEF T
  <1>9. ASSUME NEW n \in 1..k, n < k \/ intact
        PROVE  /\ get_struct_name(StructPtr[n]) = defined[n].name
               /\ FieldsCount(StructPtr[n]) = Len(defined[n].fields)
               /\ DecodedStruct(StructPtr[n]) = defined[n]
               /\ \A j \in 1..Len(defined[n].fields) : SizeRead(FieldPtr(StructPtr[n])[j])
    <2>1. StructPtr[n] = at[n]
      BY <1>8
    <2> QED
      BY <1>4, <1>9, <2>1
  <1> QED
    BY <1>8, <1>9 DEF k

(* Whatever follows - definitions that do not fit, counts that wrap, parts *)
(* of fields, contexts that come and go - the structs before the last one  *)
(* defined in order still read as they were sent.                          *)
THEOREM CompleteStructsStay == Spec => []CompleteStructsKept
  <1>1. ASSUME DefInv PROVE CompleteStructsKept
    <2>1. PICK at : Kept(mem, Top, defined, intact, current_struct_fields_array, at)
      BY <1>1 DEF DefInv
    <2>2. Len(defined) \in Nat
      BY <1>1 DEF DefInv
    <2>3. \A n \in 1..(Len(defined) - 1) : n \in 1..Len(defined) /\ n < Len(defined)
      BY <2>2
    <2> QED
      BY <1>1, <2>1, <2>3, StructsFound DEF CompleteStructsKept
  <1> QED
    BY DefStarts, DefStep, <1>1, PTL DEF Spec

(* A name defined twice stands for its first definition, and a name that   *)
(* begins another one is not mistaken for it.                              *)
THEOREM LookupIsFirst == Spec => []LookupFindsFirst
  <1>1. ASSUME DefInv PROVE LookupFindsFirst
    <2> SUFFICES ASSUME intact, NEW name \in JsonNames
                 PROVE  LET named == {n \in DOMAIN defined : defined[n].name = name}
                        IN  get_structn(name) = IF named = {} THEN NULL
                                                ELSE StructPtr[Min(named)]
      BY DEF LookupFindsFirst
    <2>1. PICK at : Kept(mem, Top, defined, intact, current_struct_fields_array, at)
      BY <1>1 DEF DefInv
    <2>2. mem[structs_array] = Len(defined)
      BY <2>1 DEF Kept
    <2>3. DOMAIN defined = 1..mem[structs_array]
      BY <1>1, <2>2 DEF DefInv
    <2>4. \A n \in 1..mem[structs_array] : get_struct_name(StructPtr[n]) = defined[n].name
      BY <1>1, <2>1, <2>2, StructsFound
    <2>5. {n \in DOMAIN defined : defined[n].name = name}
              = {n \in 1..mem[structs_array] : get_struct_name(StructPtr[n]) = name}
      BY <2>3, <2>4
    <2> QED
      BY <2>5 DEF get_structn
  <1> QED
    BY DefStarts, DefStep, <1>1, PTL DEF Spec

(* What the accessors read is what was sent, as long as it is whole.       *)
ReadBack == intact => Decoded = defined

LEMMA WholeIsReadBack ==
    ASSUME DefInv
    PROVE  ReadBack
  <1> SUFFICES ASSUME intact PROVE Decoded = defined
    BY DEF ReadBack
  <1>1. PICK at : Kept(mem, Top, defined, intact, current_struct_fields_array, at)
    BY DEF DefInv
  <1>2. mem[structs_array] = Len(defined)
    BY <1>1 DEF Kept
  <1>3. \A n \in 1..Len(defined) : DecodedStruct(StructPtr[n]) = defined[n]
    BY <1>1, StructsFound
  <1>4. Decoded = [n \in 1..Len(defined) |-> defined[n]]
    BY <1>2, <1>3 DEF Decoded
  <1> QED
    BY <1>4 DEF DefInv

LEMMA NotLost == \A d \in Seq(Definition) : d # Lost
  BY DefinitionsAssumption DEF Definition, Meanings

(* A field that is kept has a struct to be kept in.                        *)
LEMMA FieldHasStruct ==
    ASSUME DefInv, NEW field \in JsonFields, DefineField(field), intact'
    PROVE  /\ intact /\ defined # << >>
           /\ defined' = [defined EXCEPT ![Len(defined)].fields = Append(@, Meaning(field))]
  <1>1. PICK at : Kept(mem, Top, defined, intact, current_struct_fields_array, at)
    BY DEF DefInv
  <1>2. /\ intact /\ status' = "run"
        /\ defined' = [defined EXCEPT ![Len(defined)].fields = Append(@, Meaning(field))]
    BY DEF DefineField
  <1>3. current_struct_fields_array # NULL
    <2>1. "run" # "stray"
      OBVIOUS
    <2> QED
      BY <1>2, <2>1 DEF DefineField, set_struct_field
  <1>4. defined # << >>
    BY <1>1, <1>2, <1>3 DEF Kept
  <1> QED
    BY <1>2, <1>4

(* The list of structs that the accessors of entrypoint.c read grows as    *)
(* the STRUCT DEF APDUs say, struct by struct and field by field, until a  *)
(* definition is refused, cut or sent too late; then it is given up.       *)
THEOREM SchemaKept == Spec => KeepsSchema
  <1>1. Init => S!Init
    <2> SUFFICES ASSUME Init PROVE S!Init
      OBVIOUS
    <2>1. intact /\ defined = << >>
      BY DEF Init
    <2>2. Decoded = defined
      BY <2>1, DefStarts, WholeIsReadBack DEF ReadBack
    <2> QED
      BY <2>1, <2>2 DEF S!Init
  <1>2. ASSUME DefInv, ReadBack, ReadBack', [Next]_vars
        PROVE  [S!Next]_(IF intact THEN Decoded ELSE Lost)
    <2>1. CASE ~intact'
      BY <2>1 DEF S!Next, S!Lose
    <2>2. CASE intact' /\ intact /\ defined' = defined
      BY <1>2, <2>2 DEF ReadBack
    <2>3. ASSUME NEW name \in JsonNames, DefineStruct(name), intact'
          PROVE  [S!Next]_(IF intact THEN Decoded ELSE Lost)
      <3>1. intact /\ defined' = Append(defined, [name |-> name, fields |-> << >>])
        BY <2>3 DEF DefineStruct
      <3>2. Decoded = defined /\ Decoded' = defined' /\ defined # Lost
        BY <1>2, <2>3, <3>1, NotLost DEF ReadBack, DefInv
      <3>3. S!DefineStruct(name)
        BY <2>3, <3>1, <3>2 DEF S!DefineStruct
      <3> QED
        BY <3>3 DEF S!Next
    <2>4. ASSUME NEW field \in JsonFields, DefineField(field), intact'
          PROVE  [S!Next]_(IF intact THEN Decoded ELSE Lost)
      <3>1. /\ intact /\ defined # << >>
            /\ defined' = [defined EXCEPT ![Len(defined)].fields = Append(@, Meaning(field))]
        BY <1>2, <2>4, FieldHasStruct
      <3>2. Decoded = defined /\ Decoded' = defined' /\ defined # Lost
        BY <1>2, <2>4, <3>1, NotLost DEF ReadBack, DefInv
      <3>3. S!DefineField(Meaning(field))
        BY <2>4, <3>1, <3>2 DEF S!DefineField
      <3> QED
        BY <3>3 DEF S!Next
    <2>5. ASSUME NEW part \in Parts, DefinePart(part) PROVE ~intact'
      BY <2>5 DEF DefinePart
    <2>6. CASE PushContext \/ HashIntoTop \/ PopContext \/ UNCHANGED vars
      <3>1. intact' = intact /\ defined' = defined
        BY <2>6 DEF PushContext, HashIntoTop, PopContext, vars
      <3> QED
        BY <2>1, <2>2, <3>1
    <2> QED
      BY <1>2, <2>1, <2>3, <2>4, <2>5, <2>6 DEF Next
  <1>3. DefInv => ReadBack
    BY WholeIsReadBack
  <1> QED
    BY DefStarts, DefStep, <1>1, <1>2, <1>3, PTL DEF Spec, KeepsSchema, S!Spec

=============================================================================
