------------------------- MODULE TypeEncodingProofs -------------------------
(***************************************************************************)
(* For all types the host may define, and whatever memory is left: the     *)
(* pointers that type_hash() collects are those of structs that are        *)
(* defined (EncodingTypeOK), and it hashes the types in the strict order   *)
(* of their names (DependenciesInOrder). And where the types are plain and *)
(* memory suffices, what it hashes is what the reference library encodes   *)
(* (TextIsEncodeType).                                                     *)
(*                                                                         *)
(* EncInv is inductive. What makes the order strict is that no struct is   *)
(* listed twice and that each is found by its own name (Listing): a second *)
(* struct of the same name is never found, so that names that do not go    *)
(* down (Ascends) go up. This rests on what Definitions leaves in memory   *)
(* (DefInv), which is given up once the host has sent everything: then the *)
(* names alone are kept (Named).                                           *)
(*                                                                         *)
(* TextInv adds what the text needs: the accessors read of the memory what *)
(* was told (ToldRead), the structs listed are among those the root        *)
(* reaches, and of every struct the fields that are structs are listed or  *)
(* still ahead of a call (Walk), so that the list is all the root reaches  *)
(* once no call is left; and each text hashed is that of its struct        *)
(* (Texts). Beside it stand the facts about data: names have one order     *)
(* (SortedIs), and a number's digits are its decimals (DigitsAreDecimal).  *)
(***************************************************************************)
EXTENDS TypeEncoding, DefinitionsProofs, FiniteSetTheorems

LEMMA LeastIsMin ==
    ASSUME NEW N \in SUBSET Nat, N # {}
    PROVE  Min(N) \in N /\ \A x \in N : Min(N) <= x
  <1>1. \A n \in N : \E x \in N : \A y \in N : x <= y
    <2> DEFINE T == {n \in Nat : \A k \in N : k <= n => \E x \in N : \A y \in N : x <= y}
    <2>1. 0 \in T
      <3> SUFFICES ASSUME NEW k \in N, k <= 0 PROVE \E x \in N : \A y \in N : x <= y
        OBVIOUS
      <3>1. k = 0 /\ \A y \in N : k <= y
        OBVIOUS
      <3> QED
        BY <3>1
    <2>2. ASSUME NEW n \in T PROVE n + 1 \in T
      <3> SUFFICES ASSUME NEW k \in N, k <= n + 1 PROVE \E x \in N : \A y \in N : x <= y
        OBVIOUS
      <3>1. CASE \E j \in N : j <= n
        BY <2>2, <3>1
      <3>2. CASE \A j \in N : ~(j <= n)
        <4>1. \A y \in N : k <= y
          BY <3>2
        <4> QED
          BY <4>1
      <3> QED
        BY <3>1, <3>2
    <2>3. T = Nat
      BY <2>1, <2>2, Sizes!SetInduction
    <2> QED
      BY <2>3
  <1> QED
    BY <1>1 DEF Min

(* Two names that do not go down, and differ, go up.                       *)
LEMMA NotAfter ==
    ASSUME NEW s \in Seq(Byte), NEW t \in Seq(Byte), s # t, ~After(s, t)
    PROVE  Before(s, t)
  <1> DEFINE shorter == Min({Len(s), Len(t)})
             differ == {i \in 1..shorter : s[i] # t[i]}
  <1>1. /\ Len(s) \in Nat /\ Len(t) \in Nat /\ shorter <= Len(s) /\ shorter <= Len(t)
        /\ shorter \in {Len(s), Len(t)}
    <2>1. {Len(s), Len(t)} \in SUBSET Nat
      OBVIOUS
    <2> QED
      BY <2>1, LeastIsMin
  <1> HIDE DEF shorter
  <1>2. CASE differ # {}
    <2>1. Min(differ) \in differ /\ \A x \in differ : Min(differ) <= x
      <3>1. differ \in SUBSET Nat
        BY <1>1
      <3> QED
        BY <1>2, <3>1, LeastIsMin
    <2>2. ~(s[Min(differ)] > t[Min(differ)])
      BY <1>2 DEF After, shorter
    <2> DEFINE d == Min(differ)
    <2> HIDE DEF d
    <2>3. d \in 1..shorter /\ s[d] # t[d] /\ ~(s[d] > t[d])
      BY <2>1, <2>2 DEF d
    <2>4. d \in DOMAIN s \cap DOMAIN t /\ s[d] \in Nat /\ t[d] \in Nat
      <3>1. d \in 1..Len(s) /\ d \in 1..Len(t)
        BY <1>1, <2>3
      <3>2. s[d] \in Byte /\ t[d] \in Byte
        BY <3>1
      <3>3. DOMAIN s = 1..Len(s) /\ DOMAIN t = 1..Len(t)
        OBVIOUS
      <3>4. \A b \in Byte : b \in Nat
        BY DEF Byte
      <3> QED
        BY <3>1, <3>2, <3>3, <3>4
    <2>5. \A j \in 1..(d - 1) : s[j] = t[j]
      BY <1>1, <2>1, <2>3 DEF d
    <2>6. s[d] < t[d]
      BY <2>3, <2>4
    <2> QED
      BY <2>4, <2>5, <2>6 DEF Before
  <1>3. CASE differ = {}
    <2>1. Len(s) <= Len(t)
      <3>1. ~(Len(s) > Len(t))
        BY <1>3 DEF After, shorter
      <3> QED
        BY <1>1, <3>1
    <2>2. \A i \in 1..Len(s) : s[i] = t[i]
      BY <1>1, <1>3, <2>1
    <2>3. Len(s) # Len(t)
      BY <1>1, <2>2, SeqEqual
    <2>4. IsPrefix(s, t)
      BY <1>1, <2>1, <2>2 DEF IsPrefix
    <2> QED
      BY <1>1, <2>1, <2>3, <2>4 DEF Before
  <1> QED
    BY <1>2, <1>3

-----------------------------------------------------------------------------

(***************************************************************************)
(* The pointers.                                                           *)
(***************************************************************************)
Pointers == {StructPtr[n] : n \in 1..mem[structs_array]}

(* A struct that is found by its own name, which is bytes.                 *)
Found(p) ==
    p \in Pointers /\ p # NULL /\ get_struct_name(p) \in Seq(Byte) /\ get_structn(get_struct_name(p)) = p

(* The structs in memory have names.                                       *)
Named ==
    /\ mem[structs_array] \in Nat
    /\ \A n \in 1..mem[structs_array] : get_struct_name(StructPtr[n]) \in Seq(Byte)

LEMMA LookupFound ==
    ASSUME Named, NEW name, get_structn(name) # NULL
    PROVE  Found(get_structn(name)) /\ get_struct_name(get_structn(name)) = name
  <1> DEFINE found == {n \in 1..mem[structs_array] : get_struct_name(StructPtr[n]) = name}
             p == get_structn(name)
  <1>1. found # {} /\ p = StructPtr[Min(found)]
    BY DEF get_structn
  <1>2. Min(found) \in found
    <2>1. found \in SUBSET Nat
      BY DEF Named
    <2> QED
      BY <1>1, <2>1, LeastIsMin
  <1>3. p \in Pointers /\ get_struct_name(p) = name /\ get_struct_name(p) \in Seq(Byte)
    BY <1>1, <1>2 DEF Pointers, Named
  <1> QED
    BY <1>3 DEF Found

(* What is read depends on the memory alone.                               *)
LEMMA ReadSame ==
    ASSUME mem' = mem
    PROVE  /\ StructPtr' = StructPtr /\ Pointers' = Pointers /\ Named' = Named
           /\ \A p : get_struct_name(p)' = get_struct_name(p)
           /\ \A name : get_structn(name)' = get_structn(name)
           /\ \A p : Found(p)' = Found(p)
  <1>1. StructPtr' = StructPtr
    BY DEF StructPtr, get_next_struct, FieldPtr, FieldsCount, get_struct_fields_array,
           get_next_struct_field, AfterString, KeynamePtr, get_struct_field_array_lvls_array,
           struct_field_is_array, LevelPtr, get_next_struct_field_array_lvl,
           struct_field_half_skip, struct_field_type, struct_field_has_typesize
  <1>2. \A p : get_struct_name(p)' = get_struct_name(p)
    BY DEF get_struct_name, StringAt
  <1>3. \A name : get_structn(name)' = get_structn(name)
    BY <1>1, <1>2 DEF get_structn
  <1>4. Pointers' = Pointers /\ Named' = Named
    BY <1>1, <1>2 DEF Pointers, Named
  <1> QED
    BY <1>1, <1>2, <1>3, <1>4 DEF Found

(* The structs that were kept have names.                                  *)
LEMMA WholeIsNamed ==
    ASSUME DefInv, intact
    PROVE  Named
  <1>1. PICK at : Kept(mem, Top, defined, intact, current_struct_fields_array, at)
    BY DEF DefInv
  <1>2. mem[structs_array] = Len(defined) /\ defined \in Seq(Definition)
    BY <1>1 DEF Kept, DefInv
  <1>3. \A n \in 1..Len(defined) : get_struct_name(StructPtr[n]) = defined[n].name
    BY <1>1, StructsFound
  <1>4. ASSUME NEW n \in 1..Len(defined) PROVE defined[n].name \in Seq(Byte)
    <2>1. defined[n] \in Definition
      BY <1>2
    <2> QED
      BY <2>1 DEF Definition
  <1> QED
    BY <1>2, <1>3, <1>4 DEF Named

LEMMA WholeIsNamedNext == DefInv' /\ intact' => Named'
  <1>1. DefInv /\ intact => Named
    BY WholeIsNamed
  <1> QED
    BY <1>1, PTL

-----------------------------------------------------------------------------

(***************************************************************************)
(* The invariant.                                                          *)
(***************************************************************************)
JsonStruct == [name : JsonNames, fields : Seq(JsonFields)]

Busy == call.at \in {"collect", "sort", "encode"}

Call == [at : {"none", "collect", "sort", "encode", "done"}, name : JsonNames \cup {<< >>},
         from : Nat, result : {NULL, "hash"}, idx : Nat \ {0}, changed : BOOLEAN]

(* What was sent, and that what is kept of it has names.                   *)
ToldInv ==
    /\ schema \in Schemas
    /\ told \in Seq(JsonStruct) /\ Len(told) <= Len(schema)
    /\ told # schema => DefInv /\ call = NoCall
    /\ mem \in Memory
    /\ intact => Named
    /\ status \in {"run", "stray"}
    /\ mem_idx \in (structs_array + 1)..SIZE_MEM_BUFFER

(* The list: structs, each once.                                           *)
Listing(list) ==
    /\ list \in Seq(Pointers)
    /\ \A i \in 1..Len(list) : Found(list[i])
    /\ \A i, j \in 1..Len(list) : list[i] = list[j] => i = j

(* The names at i and behind it do not go down.                            *)
Ascends(list, i) == ~After(get_struct_name(list[i]), get_struct_name(list[i + 1]))

CallInv ==
    /\ call \in Call
    /\ call.at = "none" => call = NoCall /\ deps = << >> /\ text = << >>
    /\ frames # << >> <=> call.at = "collect"
    /\ frames \in Seq([struct : Pointers, field : Nat])
    /\ Busy => /\ intact /\ Named
               /\ Listing(deps)
               /\ call.from \in (structs_array + 1)..SIZE_MEM_BUFFER
               /\ mem_idx = call.from + PTR_SIZE * Len(deps)
               /\ call.idx <= Len(deps) + 1
               /\ \E T : text \in Seq(T)
               /\ Len(text) <= Len(deps) + 1

SortInv ==
    /\ call.at = "collect" => call.idx = 1 /\ ~call.changed /\ text = << >>
    /\ call.at = "sort" => /\ text = << >>
                           /\ ~call.changed => \A i \in 1..(call.idx - 1) : Ascends(deps, i)
    /\ call.at = "encode" => \A i \in 1..(Len(deps) - 1) : Ascends(deps, i)

EncInv == ToldInv /\ CallInv /\ SortInv

LEMMA ListingSame ==
    ASSUME mem' = mem
    PROVE  /\ Pointers' = Pointers /\ Named' = Named
           /\ \A list : Listing(list)' = Listing(list)
           /\ \A list, i : Ascends(list, i)' = Ascends(list, i)
  <1>1. \A list : Listing(list)' = Listing(list)
    BY ReadSame DEF Listing
  <1>2. \A list, i : Ascends(list, i)' = Ascends(list, i)
    BY DEF Ascends, After, get_struct_name, StringAt
  <1> QED
    BY <1>1, <1>2, ReadSame

LEMMA EncStarts == EncodingInit => EncInv
  <1> SUFFICES ASSUME EncodingInit PROVE EncInv
    OBVIOUS
  <1>1. DefInv /\ intact
    BY DefStarts DEF EncodingInit, Init
  <1>2. mem \in Memory /\ mem_idx \in (structs_array + 1)..SIZE_MEM_BUFFER /\ status = "run"
    BY <1>1, TypeFacts DEF EncodingInit, Init, DefsInit, DefInv, TypeInv, TypeOK
  <1>3. Named
    BY <1>1, WholeIsNamed
  <1>4. ToldInv
    BY <1>1, <1>2, <1>3, EncodingAssumption DEF EncodingInit, ToldInv
  <1>5. CallInv
    BY DEF EncodingInit, CallInv, NoCall, Call, Busy
  <1>6. SortInv
    BY DEF EncodingInit, NoCall, SortInv
  <1> QED
    BY <1>4, <1>5, <1>6 DEF EncInv

(* A step of the host: there is no call, and the definitions go on.        *)
LEMMA TellingStep ==
    ASSUME EncInv, told # schema, DefInv', status' \in {"run", "stray"},
           told' \in Seq(JsonStruct), Len(told') <= Len(schema),
           UNCHANGED <<schema, call, frames, deps, text>>
    PROVE  EncInv'
  <1>1. call = NoCall /\ deps = << >> /\ text = << >> /\ frames = << >>
    BY DEF EncInv, ToldInv, CallInv, NoCall
  <1>2. mem' \in Memory /\ mem_idx' \in (structs_array + 1)..SIZE_MEM_BUFFER
    BY Constants DEF DefInv, TypeInv, TypeOK, Memory
  <1>3. ToldInv'
    BY <1>1, <1>2, WholeIsNamedNext DEF EncInv, ToldInv
  <1>4. CallInv'
    BY <1>1 DEF CallInv, NoCall, Call, Busy
  <1>5. SortInv'
    BY <1>1 DEF SortInv, NoCall
  <1> QED
    BY <1>3, <1>4, <1>5 DEF EncInv

LEMMA SchemaType ==
    ASSUME EncInv
    PROVE  schema \in Seq(JsonStruct) /\ Len(schema) \in Nat /\ Len(told) \in Nat
  <1>1. schema \in Seq(JsonStruct)
    BY EncodingAssumption DEF EncInv, ToldInv, JsonStruct
  <1>2. told \in Seq(JsonStruct)
    BY DEF EncInv, ToldInv
  <1> HIDE DEF JsonStruct
  <1> QED
    BY <1>1, <1>2

LEMMA StructNameStep ==
    ASSUME EncInv, SendStructName
    PROVE  EncInv'
  <1> DEFINE name == schema[Len(told) + 1].name
  <1>1. told # schema /\ DefInv
    BY DEF EncInv, ToldInv, SendStructName
  <1>2. Len(told) + 1 \in 1..Len(schema) /\ schema[Len(told) + 1] \in JsonStruct
    BY SchemaType DEF SendStructName
  <1>3. name \in JsonNames
    BY <1>2 DEF JsonStruct
  <1> HIDE DEF name
  <1>4. DefineStruct(name) /\ told' = Append(told, [name |-> name, fields |-> << >>])
    BY DEF SendStructName, name
  <1>5. DefInv'
    BY <1>1, <1>3, <1>4, NameKept, NameLost
  <1>6. told' \in Seq(JsonStruct) /\ Len(told') <= Len(schema)
    <2>1. << >> \in Seq(JsonFields)
      OBVIOUS
    <2>2. [name |-> name, fields |-> << >>] \in JsonStruct
      BY <1>3, <2>1 DEF JsonStruct
    <2>3. told \in Seq(JsonStruct)
      BY DEF EncInv, ToldInv
    <2> HIDE DEF JsonStruct
    <2>4. told' \in Seq(JsonStruct) /\ Len(told') = Len(told) + 1
      BY <1>4, <2>2, <2>3
    <2> QED
      BY <1>2, <2>4, SchemaType
  <1>7. status' \in {"run", "stray"}
    BY <1>5 DEF DefInv, TypeInv, TypeOK
  <1> QED
    BY <1>1, <1>5, <1>6, <1>7, TellingStep DEF SendStructName

LEMMA StructFieldStep ==
    ASSUME EncInv, SendStructField
    PROVE  EncInv'
  <1> DEFINE k == Len(told)
             field == schema[k].fields[Len(Last(told).fields) + 1]
  <1>1. told \in Seq(JsonStruct) /\ told # << >> /\ k \in 1..Len(schema) /\ k \in 1..Len(told)
    BY SchemaType DEF EncInv, ToldInv, SendStructField
  <1>2. schema[k] \in JsonStruct /\ told[k] \in JsonStruct /\ Last(told) = told[k]
    BY <1>1, SchemaType DEF Last
  <1>3. /\ schema[k].fields \in Seq(JsonFields) /\ told[k].fields \in Seq(JsonFields)
        /\ told[k].name \in JsonNames
    BY <1>2 DEF JsonStruct
  <1>4. Len(told[k].fields) < Len(schema[k].fields)
    BY <1>2 DEF SendStructField
  <1>5. field \in JsonFields
    BY <1>2, <1>3, <1>4
  <1>6. DefineField(field) /\ told' = [told EXCEPT ![k].fields = Append(@, field)]
    BY DEF SendStructField
  <1> HIDE DEF field, k
  <1>7. told # schema /\ DefInv
    BY <1>4 DEF EncInv, ToldInv
  <1>8. DefInv'
    BY <1>5, <1>6, <1>7, FieldKept, FieldLost
  <1>9. told' \in Seq(JsonStruct) /\ Len(told') = Len(told)
    <2>1. [told[k] EXCEPT !.fields = Append(@, field)] \in JsonStruct
      <3>1. Append(told[k].fields, field) \in Seq(JsonFields)
        BY <1>3, <1>5
      <3> QED
        BY <1>2, <1>3, <3>1 DEF JsonStruct
    <2>2. told' = [told EXCEPT ![k] = [told[k] EXCEPT !.fields = Append(@, field)]]
      BY <1>6
    <2> QED
      BY <1>1, <2>1, <2>2
  <1>10. status' \in {"run", "stray"}
    BY <1>8 DEF DefInv, TypeInv, TypeOK
  <1>11. Len(told') <= Len(schema)
    BY <1>9 DEF EncInv, ToldInv
  <1> QED
    BY <1>7, <1>8, <1>9, <1>10, <1>11, TellingStep DEF SendStructField

LEMMA OccupyStep ==
    ASSUME EncInv, NEW room \in Rooms, Occupy(room)
    PROVE  EncInv'
  <1>1. room \in Nat /\ SIZE_MEM_BUFFER \in Nat /\ structs_array \in Nat
    BY EncodingAssumption, Constants, StructsArray
  <1>2. /\ mem_idx \in (structs_array + 1)..SIZE_MEM_BUFFER /\ mem_idx < SIZE_MEM_BUFFER - room
        /\ mem_idx' = SIZE_MEM_BUFFER - room
    BY DEF EncInv, ToldInv, Occupy
  <1>3. mem_idx' \in (structs_array + 1)..SIZE_MEM_BUFFER
    BY <1>1, <1>2
  <1>4. mem' = mem /\ call = NoCall
    BY DEF Occupy
  <1>5. ToldInv'
    BY <1>3, <1>4, ListingSame DEF EncInv, ToldInv, Occupy
  <1>6. CallInv' /\ SortInv'
    BY <1>4, ListingSame DEF EncInv, CallInv, SortInv, Occupy, NoCall, Busy
  <1> QED
    BY <1>5, <1>6 DEF EncInv

(* A step of type_hash(): the memory below the pointers stays.             *)
LEMMA CallStep ==
    ASSUME EncInv, told = schema,
           UNCHANGED <<mem, schema, told, intact>>,
           status' \in {"run", "stray"},
           mem_idx' \in (structs_array + 1)..SIZE_MEM_BUFFER
    PROVE  ToldInv'
  BY ListingSame DEF EncInv, ToldInv

LEMMA TypeHashStep ==
    ASSUME EncInv, NEW i \in DOMAIN schema, type_hash(schema[i].name)
    PROVE  EncInv'
  <1> DEFINE name == schema[i].name
             p == get_structn(name)
  <1>1. name \in JsonNames
    <2>1. schema[i] \in JsonStruct
      BY SchemaType
    <2> QED
      BY <2>1 DEF JsonStruct
  <1>2. Named /\ intact /\ told = schema /\ deps = << >> /\ text = << >> /\ call = NoCall
    BY DEF EncInv, ToldInv, CallInv, type_hash, NoCall
  <1>3. p \in Pointers
    BY <1>2, LookupFound DEF type_hash, Found
  <1>4. /\ call' = [NoCall EXCEPT !.at = "collect", !.name = name, !.from = mem_idx]
        /\ frames' = <<[struct |-> p, field |-> 1]>>
        /\ UNCHANGED <<vars, schema, told, deps, text>>
    BY DEF type_hash
  <1>5. mem_idx \in (structs_array + 1)..SIZE_MEM_BUFFER /\ mem_idx \in Nat
    <2>1. mem_idx \in (structs_array + 1)..SIZE_MEM_BUFFER
      BY DEF EncInv, ToldInv
    <2> QED
      BY <2>1, StructsArray, Constants
  <1> HIDE DEF name, p
  <1>6. UNCHANGED <<mem, mem_idx, status, intact, schema, told, deps, text>>
    BY <1>4 DEF vars, defVars
  <1>7. ToldInv'
    BY <1>2, <1>6, CallStep DEF EncInv, ToldInv
  <1>8. Listing(deps) /\ Pointers' = Pointers /\ Named'
    BY <1>2, <1>6, ListingSame DEF Listing
  <1>9. Listing(deps')
    BY <1>6, <1>8
  <1>10. Listing(deps)'
    BY <1>6, <1>9, ListingSame
  <1>11. frames' \in Seq([struct : Pointers, field : Nat]) /\ frames' # << >>
    BY <1>3, <1>4
  <1>12. call' \in Call /\ call'.at = "collect" /\ call'.from = mem_idx /\ call'.idx = 1 /\ ~call'.changed
    <2>1. call' = [at |-> "collect", name |-> name, from |-> mem_idx, result |-> NULL,
                   idx |-> 1, changed |-> FALSE]
      BY <1>4 DEF NoCall
    <2> QED
      BY <1>1, <1>5, <2>1 DEF Call
  <1>13. \E T : text' \in Seq(T)
    BY <1>2, <1>6
  <1>14. mem_idx' = call'.from + PTR_SIZE * Len(deps') /\ Len(deps') = 0 /\ Len(text') = 0
    BY <1>2, <1>5, <1>6, <1>12, EncodingAssumption
  <1>15. CallInv'
    BY <1>2, <1>5, <1>6, <1>8, <1>10, <1>11, <1>12, <1>13, <1>14 DEF CallInv, Busy
  <1>16. SortInv'
    BY <1>2, <1>6, <1>12 DEF SortInv
  <1> QED
    BY <1>7, <1>15, <1>16 DEF EncInv

LEMMA ListingAppend ==
    ASSUME NEW list, Listing(list), NEW p, Found(p), ~Listed(p, list)
    PROVE  Listing(Append(list, p)) /\ Len(Append(list, p)) = Len(list) + 1 /\ Len(list) \in Nat
  <1>1. list \in Seq(Pointers) /\ p \in Pointers
    BY DEF Listing, Found
  <1>2. \A i \in 1..Len(list) : list[i] # p
    BY <1>1 DEF Listed
  <1> HIDE DEF Pointers
  <1>3. /\ Append(list, p) \in Seq(Pointers) /\ Len(Append(list, p)) = Len(list) + 1
        /\ Append(list, p)[Len(list) + 1] = p /\ Len(list) \in Nat
        /\ \A i \in 1..Len(list) : Append(list, p)[i] = list[i]
    BY <1>1
  <1>4. \A i \in 1..Len(Append(list, p)) : i \in 1..Len(list) \/ i = Len(list) + 1
    BY <1>3
  <1> QED
    BY <1>2, <1>3, <1>4 DEF Listing

LEMMA ListingSwap ==
    ASSUME NEW list, Listing(list), NEW i \in 1..(Len(list) - 1)
    PROVE  LET swapped == [list EXCEPT ![i] = list[i + 1], ![i + 1] = list[i]]
           IN  Listing(swapped) /\ Len(swapped) = Len(list)
  <1> DEFINE swapped == [list EXCEPT ![i] = list[i + 1], ![i + 1] = list[i]]
  <1>1. list \in Seq(Pointers) /\ Len(list) \in Nat /\ i \in 1..Len(list) /\ i + 1 \in 1..Len(list)
    BY DEF Listing
  <1> HIDE DEF Pointers
  <1>2. list[i] \in Pointers /\ list[i + 1] \in Pointers
    BY <1>1
  <1>3. swapped \in Seq(Pointers) /\ Len(swapped) = Len(list)
    BY <1>1, <1>2
  <1>4. /\ swapped[i] = list[i + 1] /\ swapped[i + 1] = list[i] /\ i # i + 1
        /\ \A j \in 1..Len(list) : j # i /\ j # i + 1 => swapped[j] = list[j]
    BY <1>1
  <1> HIDE DEF swapped
  <1> QED
    BY <1>1, <1>3, <1>4 DEF Listing, swapped

LEMMA FrameFacts ==
    ASSUME EncInv, call.at = "collect"
    PROVE  /\ frames # << >> /\ Len(frames) \in Nat \ {0} /\ Frame.field \in Nat
           /\ PastField # << >> /\ PastField \in Seq([struct : Pointers, field : Nat])
           /\ Front(frames) \in Seq([struct : Pointers, field : Nat])
           /\ Front(frames) = << >> <=> Len(frames) = 1
  <1> DEFINE F == [struct : Pointers, field : Nat]
             k == Len(frames)
  <1>1. frames \in Seq(F) /\ frames # << >>
    BY DEF EncInv, CallInv
  <1> HIDE DEF F
  <1>2. k \in Nat \ {0} /\ k \in 1..k /\ frames[k] \in F
    BY <1>1
  <1>3. [frames[k] EXCEPT !.field = @ + 1] \in F /\ Frame = frames[k] /\ Frame.field \in Nat
    BY <1>2 DEF F, Frame, Last
  <1>4. PastField = [frames EXCEPT ![k] = [frames[k] EXCEPT !.field = @ + 1]]
    BY DEF PastField
  <1>5. PastField \in Seq(F) /\ Len(PastField) = k
    BY <1>1, <1>2, <1>3, <1>4
  <1>6. Front(frames) \in Seq(F) /\ Len(Front(frames)) = k - 1
    BY <1>1, <1>2, SMTT(30) DEF Front
  <1>7. PastField # << >> /\ (Front(frames) = << >> <=> k = 1)
    BY <1>2, <1>5, <1>6
  <1> QED
    BY <1>1, <1>2, <1>3, <1>5, <1>6, <1>7 DEF F

LEMMA BusyFacts ==
    ASSUME EncInv, Busy
    PROVE  /\ told = schema /\ intact /\ Named /\ Listing(deps) /\ call \in Call
           /\ Len(deps) \in Nat /\ call.from \in Nat /\ structs_array + 1 <= call.from
           /\ mem_idx = call.from + PTR_SIZE * Len(deps) /\ mem_idx \in Nat
           /\ mem_idx <= SIZE_MEM_BUFFER /\ structs_array \in Nat /\ SIZE_MEM_BUFFER \in Nat
           /\ call.from \in (structs_array + 1)..SIZE_MEM_BUFFER
           /\ call.idx <= Len(deps) + 1 /\ Len(text) <= Len(deps) + 1
           /\ \E T : text \in Seq(T)
  <1>1. told = schema
    BY DEF EncInv, ToldInv, Busy, NoCall
  <1>2. /\ call.from \in (structs_array + 1)..SIZE_MEM_BUFFER
        /\ mem_idx \in (structs_array + 1)..SIZE_MEM_BUFFER
    BY DEF EncInv, ToldInv, CallInv
  <1>3. deps \in Seq(Pointers)
    BY DEF EncInv, CallInv, Listing
  <1> HIDE DEF Pointers
  <1>4. Len(deps) \in Nat
    BY <1>3
  <1> QED
    BY <1>1, <1>2, <1>4, StructsArray, Constants DEF EncInv, CallInv

(* A step that takes no memory and leaves the list alone.                  *)
LEMMA QuietStep ==
    ASSUME EncInv, Busy, UNCHANGED <<vars, schema, told, deps>>, call' \in Call,
           call'.from = call.from, call'.idx <= Len(deps) + 1,
           frames' # << >> <=> call'.at = "collect", call'.at # "none",
           frames' \in Seq([struct : Pointers, field : Nat]),
           \E T : text' \in Seq(T), Len(text') <= Len(deps) + 1
    PROVE  ToldInv' /\ CallInv'
  <1>1. UNCHANGED <<mem, mem_idx, status, intact>>
    BY DEF vars, defVars
  <1>2. status \in {"run", "stray"} /\ mem_idx \in (structs_array + 1)..SIZE_MEM_BUFFER
    BY DEF EncInv, ToldInv
  <1>3. ToldInv'
    BY <1>1, <1>2, BusyFacts, CallStep
  <1>4. Pointers' = Pointers /\ Named' /\ Listing(deps)'
    BY <1>1, BusyFacts, ListingSame
  <1>5. CallInv'
    BY <1>1, <1>4, BusyFacts DEF CallInv, Busy
  <1> QED
    BY <1>3, <1>5

LEMMA SkipStep ==
    ASSUME EncInv, SkipField
    PROVE  EncInv'
  <1>1. Busy /\ call.at = "collect" /\ PastField # << >>
    BY FrameFacts DEF SkipField, Busy
  <1>2. /\ UNCHANGED <<vars, schema, told, call, deps, text>> /\ frames' = PastField
    BY DEF SkipField
  <1>3. ToldInv' /\ CallInv'
    BY <1>1, <1>2, FrameFacts, BusyFacts, QuietStep
  <1>4. SortInv'
    BY <1>1, <1>2 DEF SortInv, EncInv
  <1> QED
    BY <1>3, <1>4 DEF EncInv

LEMMA FullStep ==
    ASSUME EncInv, DependenciesFull \/ DependenciesFound
    PROVE  EncInv'
  <1>1. Busy /\ call.at = "collect"
    BY DEF DependenciesFull, DependenciesFound, NewDependency, Busy
  <1>2. PICK outcome \in {"sort", "done"} : Return(outcome)
    BY DEF DependenciesFull, DependenciesFound
  <1>3. /\ UNCHANGED <<vars, schema, told, deps, text>> /\ frames' = Front(frames)
        /\ call' = IF Len(frames) = 1 THEN [call EXCEPT !.at = outcome] ELSE call
    BY <1>2 DEF Return
  <1>4. /\ call' \in Call /\ call'.from = call.from /\ call'.idx = call.idx
        /\ call'.changed = call.changed
        /\ call'.at = IF Len(frames) = 1 THEN outcome ELSE "collect"
    BY <1>1, <1>3, BusyFacts DEF Call
  <1>5. ToldInv' /\ CallInv'
    BY <1>1, <1>3, <1>4, FrameFacts, BusyFacts, QuietStep
  <1>6. call.idx = 1 /\ ~call.changed /\ text = << >> /\ text' = text
    BY <1>1, <1>3 DEF EncInv, SortInv
  <1>7. 1..(call'.idx - 1) = {}
    BY <1>4, <1>6
  <1>8. SortInv'
    BY <1>4, <1>6, <1>7 DEF SortInv
  <1> QED
    BY <1>5, <1>8 DEF EncInv

LEMMA AddStep ==
    ASSUME EncInv, AddDependency
    PROVE  EncInv'
  <1> DEFINE p == Dependency
  <1>1. Busy /\ call.at = "collect"
    BY DEF AddDependency, NewDependency, Busy
  <1>2. /\ UNCHANGED <<mem, intact, schema, told, text>>
        /\ CanAlloc(mem_idx, PTR_SIZE) /\ mem_idx' = mem_idx + PTR_SIZE
        /\ deps' = Append(deps, p) /\ ~Listed(p, deps)
    BY DEF AddDependency, NewDependency
  <1>3. PTR_SIZE \in Nat
    BY EncodingAssumption
  <1>4. mem_idx' \in (structs_array + 1)..SIZE_MEM_BUFFER
    BY <1>1, <1>2, <1>3, BusyFacts DEF CanAlloc
  <1>5. status' \in {"run", "stray"}
    BY DEF AddDependency, EncInv, ToldInv
  <1>6. ToldInv'
    BY <1>1, <1>2, <1>4, <1>5, BusyFacts, CallStep
  <1>7. CASE p = NULL
    <2>1. call' = [call EXCEPT !.at = "done"] /\ frames' = << >>
      BY <1>7 DEF AddDependency
    <2>2. call' \in Call /\ call'.at = "done"
      BY <1>1, <2>1, BusyFacts DEF Call
    <2>3. frames' \in Seq([struct : Pointers', field : Nat])
      BY <2>1
    <2>4. CallInv' /\ SortInv'
      BY <2>1, <2>2, <2>3 DEF CallInv, SortInv, Busy
    <2> QED
      BY <1>6, <2>4 DEF EncInv
  <1>8. CASE p # NULL
    <2>1. call' = call /\ frames' = Append(PastField, [struct |-> p, field |-> 1])
      BY <1>8 DEF AddDependency
    <2>2. Found(p)
      BY <1>1, <1>8, BusyFacts, LookupFound DEF Dependency
    <2> HIDE DEF p
    <2>3. Listing(deps') /\ Len(deps') = Len(deps) + 1
      BY <1>1, <1>2, <2>2, BusyFacts, ListingAppend
    <2>4. Pointers' = Pointers /\ Named' /\ Listing(deps)'
      BY <1>1, <1>2, <2>3, BusyFacts, ListingSame
    <2>5. frames' \in Seq([struct : Pointers, field : Nat]) /\ frames' # << >>
      <3> DEFINE F == [struct : Pointers, field : Nat]
      <3>1. [struct |-> p, field |-> 1] \in F
        BY <2>2 DEF Found
      <3>2. PastField \in Seq(F)
        BY <1>1, FrameFacts
      <3> HIDE DEF F
      <3>3. frames' \in Seq(F) /\ frames' # << >>
        BY <2>1, <3>1, <3>2
      <3> QED
        BY <3>3 DEF F
    <2>6. mem_idx' = call.from + PTR_SIZE * Len(deps')
      BY <1>1, <1>2, <1>3, <2>3, BusyFacts
    <2>7. CallInv'
      <3>1. call.idx <= Len(deps') + 1 /\ Len(text) <= Len(deps') + 1
        <4>1. call.idx = 1 /\ text = << >> /\ Len(deps') \in Nat
          BY <1>1, <2>3, BusyFacts DEF EncInv, SortInv
        <4> QED
          BY <4>1
      <3> QED
        BY <1>1, <1>2, <2>1, <2>4, <2>5, <2>6, <3>1, BusyFacts DEF CallInv, Busy
    <2>8. SortInv'
      BY <1>1, <1>2, <2>1 DEF EncInv, SortInv
    <2> QED
      BY <1>6, <2>7, <2>8 DEF EncInv
  <1> QED
    BY <1>7, <1>8

LEMMA CompareStep ==
    ASSUME EncInv, Compare
    PROVE  EncInv'
  <1> DEFINE i == call.idx
             swapped == [deps EXCEPT ![i] = deps[i + 1], ![i + 1] = deps[i]]
             swap == After(get_struct_name(deps[i]), get_struct_name(deps[i + 1]))
  <1>1. Busy /\ call.at = "sort" /\ text = << >>
    BY DEF Compare, Busy, EncInv, SortInv
  <1>2. i \in Nat \ {0} /\ i < Len(deps) /\ Len(deps) \in Nat
    BY <1>1, BusyFacts DEF Compare, Call
  <1>3. /\ UNCHANGED <<vars, schema, told, frames, text>>
        /\ deps' = IF swap THEN swapped ELSE deps
        /\ call' = [call EXCEPT !.idx = i + 1, !.changed = @ \/ swap]
    BY DEF Compare
  <1>4. /\ call' \in Call /\ call'.at = "sort" /\ call'.idx = i + 1 /\ call'.from = call.from
        /\ call'.changed = (call.changed \/ swap)
    <2> DEFINE c == call.changed \/ swap
    <2>1. c \in BOOLEAN /\ i + 1 \in Nat \ {0}
      BY <1>2
    <2>2. call' = [call EXCEPT !.idx = i + 1, !.changed = c]
      BY <1>3
    <2> HIDE DEF c, i
    <2>3. call \in Call /\ call.at = "sort"
      BY <1>1, BusyFacts
    <2>4. call' = [at |-> call.at, name |-> call.name, from |-> call.from,
                   result |-> call.result, idx |-> i + 1, changed |-> c]
      BY <2>2, <2>3 DEF Call
    <2>5. call'.changed = c
      BY <2>4
    <2> QED
      BY <2>1, <2>3, <2>4, <2>5 DEF Call, c
  <1>5. Listing(deps') /\ Len(deps') = Len(deps)
    BY <1>1, <1>2, <1>3, BusyFacts, ListingSwap, SMTT(30)
  <1>6. UNCHANGED <<mem, mem_idx, status, intact>>
    BY <1>3 DEF vars, defVars
  <1>7. ToldInv'
    BY <1>1, <1>3, <1>6, BusyFacts, CallStep DEF EncInv, ToldInv
  <1>8. Pointers' = Pointers /\ Named' /\ Listing(deps)'
    BY <1>1, <1>5, <1>6, BusyFacts, ListingSame
  <1>9. frames' = frames /\ frames = << >> /\ frames \in Seq([struct : Pointers, field : Nat])
    BY <1>1, <1>3 DEF EncInv, CallInv
  <1>10. CallInv'
    <2>1. call'.idx <= Len(deps') + 1 /\ Len(text') <= Len(deps') + 1
      BY <1>1, <1>2, <1>3, <1>4, <1>5
    <2>2. mem_idx' = call'.from + PTR_SIZE * Len(deps')
      BY <1>1, <1>4, <1>5, <1>6, BusyFacts
    <2> QED
      BY <1>1, <1>3, <1>4, <1>6, <1>8, <1>9, <2>1, <2>2, BusyFacts DEF CallInv, Busy
  <1>11. SortInv'
    <2>1. ASSUME ~call'.changed, NEW j \in 1..(call'.idx - 1) PROVE Ascends(deps, j)' /\ deps' = deps
      <3>1. ~call.changed /\ ~swap /\ deps' = deps
        BY <1>3, <1>4, <2>1
      <3>2. j \in 1..(i - 1) \/ j = i
        BY <1>2, <1>4, <2>1
      <3>3. Ascends(deps, j)
        BY <1>1, <3>1, <3>2 DEF EncInv, SortInv, Ascends
      <3> QED
        BY <1>6, <3>1, <3>3, ListingSame
    <2> QED
      BY <1>1, <1>3, <1>4, <2>1 DEF SortInv
  <1> QED
    BY <1>7, <1>10, <1>11 DEF EncInv

LEMMA EndPassStep ==
    ASSUME EncInv, EndPass
    PROVE  EncInv'
  <1>1. Busy /\ call.at = "sort" /\ text = << >> /\ frames = << >> /\ call \in Call
    BY DEF EndPass, Busy, EncInv, SortInv, CallInv
  <1>2. /\ UNCHANGED <<vars, schema, told, frames, deps, text>>
        /\ call' = IF call.changed THEN [call EXCEPT !.idx = 1, !.changed = FALSE]
                   ELSE [call EXCEPT !.at = "encode"]
        /\ call.idx >= Len(deps)
    BY DEF EndPass
  <1>3. frames' = << >> /\ frames' \in Seq([struct : Pointers, field : Nat])
    BY <1>1, <1>2
  <1>4. mem' = mem /\ deps' = deps
    BY <1>2 DEF vars, defVars
  <1>5. CASE call.changed
    <2>1. /\ call' \in Call /\ call'.at = "sort" /\ call'.idx = 1 /\ call'.from = call.from
      <3>1. call' = [at |-> call.at, name |-> call.name, from |-> call.from,
                     result |-> call.result, idx |-> 1, changed |-> FALSE]
        BY <1>1, <1>2, <1>5 DEF Call
      <3> QED
        BY <1>1, <3>1 DEF Call
    <2>2. ToldInv' /\ CallInv'
      BY <1>1, <1>2, <1>3, <2>1, BusyFacts, QuietStep
    <2>3. 1..(call'.idx - 1) = {}
      BY <2>1
    <2>4. SortInv'
      BY <1>1, <1>2, <2>1, <2>3 DEF SortInv
    <2> QED
      BY <2>2, <2>4 DEF EncInv
  <1>6. CASE ~call.changed
    <2>1. /\ call' \in Call /\ call'.at = "encode" /\ call'.idx = call.idx /\ call'.from = call.from
      BY <1>1, <1>2, <1>6 DEF Call
    <2>2. ToldInv' /\ CallInv'
      BY <1>1, <1>2, <1>3, <2>1, BusyFacts, QuietStep
    <2>3. \A i \in 1..(call.idx - 1) : Ascends(deps, i)
      BY <1>1, <1>6 DEF EncInv, SortInv
    <2>4. \A i \in 1..(Len(deps) - 1) : Ascends(deps, i)
      <3>1. call.idx \in Nat /\ Len(deps) \in Nat
        BY <1>1, BusyFacts DEF Call
      <3> QED
        BY <1>2, <2>3, <3>1
    <2>5. \A i \in 1..(Len(deps') - 1) : Ascends(deps, i)'
      BY <1>4, <2>4, ListingSame
    <2>6. SortInv'
      BY <1>1, <2>1, <2>5 DEF SortInv
    <2> QED
      BY <2>2, <2>6 DEF EncInv
  <1> QED
    BY <1>5, <1>6

LEMMA TextStep ==
    ASSUME EncInv, EncodeStruct
    PROVE  EncInv'
  <1>1. /\ Busy /\ call.at = "encode" /\ frames = << >> /\ call \in Call /\ Len(text) <= Len(deps)
        /\ UNCHANGED <<mem, mem_idx, intact, schema, told, frames, deps>>
    BY DEF EncodeStruct, Busy, EncInv, CallInv
  <1>2. status' \in {"run", "stray"} /\ mem_idx' \in (structs_array + 1)..SIZE_MEM_BUFFER
    BY <1>1 DEF EncodeStruct, EncInv, ToldInv
  <1>3. ToldInv'
    BY <1>1, <1>2, BusyFacts, CallStep
  <1>4. Pointers' = Pointers /\ Named' /\ Listing(deps)'
    BY <1>1, BusyFacts, ListingSame
  <1>5. frames' = << >> /\ frames' \in Seq([struct : Pointers', field : Nat])
    BY <1>1
  <1>6. CASE call' = [call EXCEPT !.at = "done"]
    <2>1. call' \in Call /\ call'.at = "done"
      BY <1>1, <1>6 DEF Call
    <2>2. CallInv' /\ SortInv'
      BY <1>5, <2>1 DEF CallInv, SortInv, Busy
    <2> QED
      BY <1>3, <2>2 DEF EncInv
  <1>7. ASSUME NEW s, text' = Append(text, s), call' = call
        PROVE  EncInv'
    <2>1. PICK T : text \in Seq(T)
      BY <1>1, BusyFacts
    <2>2. text' \in Seq(T \cup {s}) /\ Len(text') = Len(text) + 1 /\ Len(text) \in Nat
      <3>1. text \in Seq(T \cup {s})
        BY <2>1
      <3> QED
        BY <1>7, <3>1
    <2>3. Len(text') <= Len(deps') + 1 /\ \E U : text' \in Seq(U)
      BY <1>1, <2>2, BusyFacts
    <2>4. CallInv'
      BY <1>1, <1>4, <1>5, <1>7, <2>3, BusyFacts DEF CallInv, Busy
    <2>5. \A i \in 1..(Len(deps') - 1) : Ascends(deps, i)'
      BY <1>1, ListingSame DEF EncInv, SortInv
    <2>6. SortInv'
      BY <1>1, <1>7, <2>5 DEF SortInv
    <2> QED
      BY <1>3, <2>4, <2>6 DEF EncInv
  <1>8. call' = [call EXCEPT !.at = "done"] \/ (\E s : text' = Append(text, s) /\ call' = call)
    BY DEF EncodeStruct
  <1> QED
    BY <1>6, <1>7, <1>8

LEMMA FinishStep ==
    ASSUME EncInv, FinishHash
    PROVE  EncInv'
  <1> DEFINE idx == mem_dealloc_pointers(mem_idx, Len(deps))
             fits == CanAlloc(idx, HASH_SIZE)
  <1>1. /\ Busy /\ frames = << >> /\ call \in Call
        /\ UNCHANGED <<mem, status, intact, schema, told, frames>>
    BY DEF FinishHash, Busy, EncInv, CallInv
  <1>2. /\ mem_idx' = (IF fits THEN idx + HASH_SIZE ELSE idx)
        /\ call' = [call EXCEPT !.at = "done", !.result = IF fits THEN "hash" ELSE NULL]
    BY DEF FinishHash
  <1>3. idx = call.from /\ HASH_SIZE \in Nat
    BY <1>1, BusyFacts, EncodingAssumption DEF mem_dealloc_pointers
  <1>4. mem_idx' \in (structs_array + 1)..SIZE_MEM_BUFFER
    BY <1>1, <1>2, <1>3, BusyFacts DEF CanAlloc
  <1>5. ToldInv'
    BY <1>1, <1>4, BusyFacts, CallStep DEF EncInv, ToldInv
  <1>6. call' \in Call /\ call'.at = "done"
    BY <1>1, <1>2 DEF Call
  <1>7. frames' = << >> /\ frames' \in Seq([struct : Pointers', field : Nat])
    BY <1>1
  <1>8. CallInv' /\ SortInv'
    BY <1>6, <1>7 DEF CallInv, SortInv, Busy
  <1> QED
    BY <1>5, <1>8 DEF EncInv

LEMMA EncStep == EncInv /\ [EncodingNext]_encodingVars => EncInv'
  <1> SUFFICES ASSUME EncInv, [EncodingNext]_encodingVars PROVE EncInv'
    OBVIOUS
  <1>1. CASE UNCHANGED encodingVars
    <2>1. /\ UNCHANGED <<mem, mem_idx, status, intact, schema, told, call, frames, deps, text>>
      BY <1>1 DEF encodingVars, vars, defVars
    <2>2. ToldInv'
      <3>1. DefInv => DefInv'
        <4>1. UNCHANGED vars
          BY <1>1 DEF encodingVars
        <4> QED
          BY <4>1, DefStep
      <3> QED
        BY <2>1, <3>1, ListingSame DEF EncInv, ToldInv
    <2>3. CallInv' /\ SortInv'
      BY <2>1, ListingSame DEF EncInv, CallInv, SortInv, Busy
    <2> QED
      BY <2>2, <2>3 DEF EncInv
  <1>2. ASSUME NEW room \in Rooms, Occupy(room) PROVE EncInv'
    BY <1>2, OccupyStep
  <1>3. ASSUME NEW i \in DOMAIN schema, type_hash(schema[i].name) PROVE EncInv'
    BY <1>3, TypeHashStep
  <1> QED
    BY <1>1, <1>2, <1>3, StructNameStep, StructFieldStep, SkipStep, AddStep, FullStep,
       CompareStep, EndPassStep, TextStep, FinishStep DEF EncodingNext, SortStep

-----------------------------------------------------------------------------

(* The pointers that type_hash() collects are those of structs that are    *)
(* defined, the memory in use is what it found and the pointers, and what  *)
(* is released at the end is what was taken.                               *)
THEOREM EncodingTypes == EncodingSpec => []EncodingTypeOK
  <1>1. EncInv => EncodingTypeOK
    <2> SUFFICES ASSUME EncInv PROVE EncodingTypeOK
      OBVIOUS
    <2>1. ASSUME Busy PROVE ToSet(deps) \subseteq Pointers /\ call.idx \in 1..(Len(deps) + 1)
      <3>1. deps \in Seq(Pointers) /\ call.idx \in Nat \ {0} /\ Len(deps) \in Nat
        BY <2>1, BusyFacts DEF Listing, Call
      <3>2. call.idx \in 1..(Len(deps) + 1)
        BY <2>1, <3>1, BusyFacts
      <3>3. ToSet(deps) \subseteq Pointers
        BY <3>1 DEF ToSet
      <3> QED
        BY <3>2, <3>3
    <2>2. call.at \in {"none", "collect", "sort", "encode", "done"}
      BY DEF EncInv, CallInv, Call
    <2> QED
      BY <2>1, <2>2 DEF EncInv, ToldInv, CallInv, EncodingTypeOK, Busy, Pointers
  <1> QED
    BY EncStarts, EncStep, <1>1, PTL DEF EncodingSpec

(* Whatever structs refer to each other and however little memory is left, *)
(* the types that sort_dependencies() leaves are hashed in the strict      *)
(* order of their names, each once.                                        *)
THEOREM DependenciesSorted == EncodingSpec => []DependenciesInOrder
  <1>1. EncInv => DependenciesInOrder
    <2> SUFFICES ASSUME EncInv, call.at = "encode", NEW i \in 1..(Len(deps) - 1)
                 PROVE  Before(get_struct_name(deps[i]), get_struct_name(deps[i + 1]))
      BY DEF DependenciesInOrder
    <2>1. Listing(deps) /\ Len(deps) \in Nat
      BY BusyFacts DEF Busy
    <2>2. i \in 1..Len(deps) /\ i + 1 \in 1..Len(deps) /\ i # i + 1
      BY <2>1
    <2>3. Found(deps[i]) /\ Found(deps[i + 1]) /\ deps[i] # deps[i + 1]
      BY <2>1, <2>2 DEF Listing
    <2>4. get_struct_name(deps[i]) # get_struct_name(deps[i + 1])
      BY <2>3 DEF Found
    <2>5. ~After(get_struct_name(deps[i]), get_struct_name(deps[i + 1]))
      BY DEF EncInv, SortInv, Ascends
    <2> QED
      BY <2>3, <2>4, <2>5, NotAfter DEF Found
  <1> QED
    BY EncStarts, EncStep, <1>1, PTL DEF EncodingSpec

-----------------------------------------------------------------------------

(***************************************************************************)
(* The order of names. One is before another when they differ first at i,  *)
(* where it ends or has the lesser byte.                                   *)
(***************************************************************************)
DifferAt(s, t, i) ==
    /\ i \in 1..Len(t) /\ i <= Len(s) + 1
    /\ \A j \in 1..(i - 1) : s[j] = t[j]
    /\ i <= Len(s) => s[i] < t[i]

LEMMA BeforeDiffers ==
    ASSUME NEW s \in Seq(Byte), NEW t \in Seq(Byte)
    PROVE  Before(s, t) <=> \E i \in Nat : DifferAt(s, t, i)
  <1>1. Len(s) \in Nat /\ Len(t) \in Nat /\ DOMAIN s = 1..Len(s) /\ DOMAIN t = 1..Len(t)
    OBVIOUS
  <1>2. ASSUME Len(s) < Len(t), IsPrefix(s, t) PROVE DifferAt(s, t, Len(s) + 1)
    <2>1. SubSeq(s, 1, Len(s)) = SubSeq(t, 1, Len(s))
      BY <1>2 DEF IsPrefix
    <2>2. \A j \in 1..Len(s) : SubSeq(s, 1, Len(s))[j] = s[j] /\ SubSeq(t, 1, Len(s))[j] = t[j]
      BY <1>1, <1>2
    <2>3. \A j \in 1..Len(s) : s[j] = t[j]
      BY <2>1, <2>2
    <2> QED
      BY <1>1, <1>2, <2>3 DEF DifferAt
  <1>3. ASSUME NEW i \in DOMAIN s \cap DOMAIN t, s[i] < t[i], \A j \in 1..(i - 1) : s[j] = t[j]
        PROVE  DifferAt(s, t, i)
    BY <1>1, <1>3 DEF DifferAt
  <1>4. ASSUME NEW i \in Nat, DifferAt(s, t, i) PROVE Before(s, t)
    <2>1. CASE i <= Len(s)
      <3>1. i \in DOMAIN s \cap DOMAIN t /\ s[i] < t[i] /\ \A j \in 1..(i - 1) : s[j] = t[j]
        BY <1>1, <1>4, <2>1 DEF DifferAt
      <3> QED
        BY <3>1 DEF Before
    <2>2. CASE i = Len(s) + 1
      <3>1. Len(s) < Len(t) /\ \A j \in 1..Len(s) : s[j] = t[j]
        BY <1>1, <1>4, <2>2 DEF DifferAt
      <3>2. SubSeq(s, 1, Len(s)) = SubSeq(t, 1, Len(s))
        BY <1>1, <3>1
      <3> QED
        BY <1>1, <3>1, <3>2 DEF Before, IsPrefix
    <2> QED
      BY <1>1, <1>4, <2>1, <2>2 DEF DifferAt
  <1>5. ASSUME Before(s, t) PROVE \E i \in Nat : DifferAt(s, t, i)
    <2>1. \/ Len(s) < Len(t) /\ IsPrefix(s, t)
          \/ \E i \in DOMAIN s \cap DOMAIN t : s[i] < t[i] /\ \A j \in 1..(i - 1) : s[j] = t[j]
      BY <1>5 DEF Before
    <2>2. CASE Len(s) < Len(t) /\ IsPrefix(s, t)
      <3>1. Len(s) + 1 \in Nat /\ DifferAt(s, t, Len(s) + 1)
        BY <1>1, <1>2, <2>2
      <3> QED
        BY <3>1
    <2>3. CASE \E i \in DOMAIN s \cap DOMAIN t : s[i] < t[i] /\ \A j \in 1..(i - 1) : s[j] = t[j]
      <3>1. PICK i \in DOMAIN s \cap DOMAIN t : s[i] < t[i] /\ \A j \in 1..(i - 1) : s[j] = t[j]
        BY <2>3
      <3>2. i \in Nat /\ DifferAt(s, t, i)
        BY <1>1, <1>3, <3>1
      <3> QED
        BY <3>2
    <2> QED
      BY <2>1, <2>2, <2>3
  <1> QED
    BY <1>4, <1>5

LEMMA BytesOf ==
    ASSUME NEW s \in Seq(Byte)
    PROVE  Len(s) \in Nat /\ \A j \in 1..Len(s) : s[j] \in Int
  <1>1. Len(s) \in Nat /\ \A j \in 1..Len(s) : s[j] \in Byte
    OBVIOUS
  <1>2. \A x \in Byte : x \in Int
    BY DEF Byte
  <1> QED
    BY <1>1, <1>2

LEMMA BeforeOnce ==
    ASSUME NEW s \in Seq(Byte), NEW t \in Seq(Byte), Before(s, t)
    PROVE  ~Before(t, s) /\ s # t
  <1>1. ASSUME NEW i \in Nat, NEW k \in Nat, DifferAt(s, t, i), DifferAt(t, s, k) PROVE FALSE
    <2>1. Len(s) \in Nat /\ Len(t) \in Nat
          /\ (\A j \in 1..Len(s) : s[j] \in Int) /\ \A j \in 1..Len(t) : t[j] \in Int
      BY BytesOf
    <2>2. i \in 1..Len(t) /\ k \in 1..Len(s)
      BY <1>1 DEF DifferAt
    <2>3. CASE i < k
      <3>1. t[i] = s[i] /\ s[i] < t[i]
        BY <1>1, <2>1, <2>2, <2>3 DEF DifferAt
      <3> QED
        BY <2>1, <2>2, <3>1
    <2>4. CASE k < i
      <3>1. t[k] = s[k] /\ t[k] < s[k]
        BY <1>1, <2>1, <2>2, <2>4 DEF DifferAt
      <3> QED
        BY <2>1, <2>2, <3>1
    <2>5. CASE k = i
      <3>1. s[i] < t[i] /\ t[i] < s[i]
        BY <1>1, <2>1, <2>2, <2>5 DEF DifferAt
      <3>2. s[i] \in Int /\ t[i] \in Int
        BY <2>1, <2>2, <2>5
      <3> QED
        BY <3>1, <3>2
    <2> QED
      BY <2>3, <2>4, <2>5
  <1>2. PICK i \in Nat : DifferAt(s, t, i)
    BY BeforeDiffers
  <1>3. ASSUME Before(t, s) PROVE FALSE
    <2>1. PICK k \in Nat : DifferAt(t, s, k)
      BY <1>3, BeforeDiffers
    <2> QED
      BY <1>1, <1>2, <2>1
  <1> QED
    BY <1>3

LEMMA BeforeOn ==
    ASSUME NEW s \in Seq(Byte), NEW t \in Seq(Byte), NEW u \in Seq(Byte), Before(s, t), Before(t, u)
    PROVE  Before(s, u)
  <1>1. PICK i \in Nat : DifferAt(s, t, i)
    BY BeforeDiffers
  <1>2. PICK k \in Nat : DifferAt(t, u, k)
    BY BeforeDiffers
  <1>3. /\ Len(s) \in Nat /\ Len(t) \in Nat /\ Len(u) \in Nat
        /\ \A j \in 1..Len(s) : s[j] \in Int
        /\ \A j \in 1..Len(t) : t[j] \in Int
        /\ \A j \in 1..Len(u) : u[j] \in Int
    BY BytesOf
  <1>4. i \in 1..Len(t) /\ k \in 1..Len(u) /\ i <= Len(s) + 1
    BY <1>1, <1>2 DEF DifferAt
  <1>5. CASE i < k
    <2>1. \A j \in 1..(i - 1) : s[j] = u[j]
      BY <1>1, <1>2, <1>3, <1>4, <1>5 DEF DifferAt
    <2>2. t[i] = u[i] /\ i \in 1..Len(u)
      BY <1>2, <1>3, <1>4, <1>5 DEF DifferAt
    <2>3. i <= Len(s) => s[i] < u[i]
      BY <1>1, <2>2 DEF DifferAt
    <2>4. DifferAt(s, u, i)
      BY <1>4, <2>1, <2>2, <2>3 DEF DifferAt
    <2> QED
      BY <2>4, BeforeDiffers
  <1>6. CASE k <= i
    <2>1. \A j \in 1..(k - 1) : s[j] = u[j]
      BY <1>1, <1>2, <1>3, <1>4, <1>6 DEF DifferAt
    <2>2. k <= Len(t) /\ t[k] < u[k]
      BY <1>2, <1>3, <1>4, <1>6 DEF DifferAt
    <2>3. ASSUME k <= Len(s) PROVE s[k] < u[k]
      <3>1. s[k] = t[k] \/ s[k] < t[k]
        BY <1>1, <1>3, <1>4, <1>6, <2>3 DEF DifferAt
      <3>2. s[k] \in Int /\ t[k] \in Int /\ u[k] \in Int
        BY <1>3, <1>4, <2>2, <2>3
      <3> QED
        BY <2>2, <3>1, <3>2
    <2>4. DifferAt(s, u, k)
      BY <1>3, <1>4, <1>6, <2>1, <2>3 DEF DifferAt
    <2> QED
      BY <2>4, BeforeDiffers
  <1> QED
    BY <1>4, <1>5, <1>6

LEMMA Increasing ==
    ASSUME NEW n \in Nat, NEW f \in [1..n -> 1..n], \A i, j \in 1..n : i < j => f[i] < f[j]
    PROVE  \A i \in 1..n : f[i] = i
  <1> DEFINE up == {k \in Nat : \A i \in 1..n : i <= k => i <= f[i]}
             down == {k \in Nat : \A i \in 1..n : n - i <= k => f[i] <= i}
  <1>1. \A i \in 1..n : f[i] \in 1..n
    OBVIOUS
  <1>2. up = Nat
    <2>1. 0 \in up
      OBVIOUS
    <2>2. ASSUME NEW k \in up PROVE k + 1 \in up
      <3>1. ASSUME NEW i \in 1..n, i <= k + 1 PROVE i <= f[i]
        <4>1. CASE i <= k
          BY <2>2, <4>1
        <4>2. CASE i = 1
          BY <1>1, <4>2
        <4>3. CASE i = k + 1 /\ i # 1
          <5>1. i - 1 \in 1..n /\ i - 1 <= k /\ i - 1 < i
            BY <4>3
          <5>2. i - 1 <= f[i - 1] /\ f[i - 1] < f[i]
            BY <2>2, <5>1
          <5> QED
            BY <1>1, <5>1, <5>2
        <4> QED
          BY <2>2, <3>1, <4>1, <4>2, <4>3
      <3> QED
        BY <2>2, <3>1
    <2>3. up \in SUBSET Nat
      OBVIOUS
    <2> HIDE DEF up
    <2> QED
      BY <2>1, <2>2, <2>3, Sizes!SetInduction
  <1>3. down = Nat
    <2>1. 0 \in down
      BY <1>1
    <2>2. ASSUME NEW k \in down PROVE k + 1 \in down
      <3>1. ASSUME NEW i \in 1..n, n - i <= k + 1 PROVE f[i] <= i
        <4>1. CASE n - i <= k
          BY <2>2, <4>1
        <4>2. CASE i = n
          BY <1>1, <4>2
        <4>3. CASE n - i = k + 1 /\ i # n
          <5>1. i + 1 \in 1..n /\ n - (i + 1) <= k /\ i < i + 1
            BY <4>3
          <5>2. f[i + 1] <= i + 1 /\ f[i] < f[i + 1]
            BY <2>2, <5>1
          <5> QED
            BY <1>1, <5>1, <5>2
        <4> QED
          BY <2>2, <3>1, <4>1, <4>2, <4>3
      <3> QED
        BY <2>2, <3>1
    <2>3. down \in SUBSET Nat
      OBVIOUS
    <2> HIDE DEF down
    <2> QED
      BY <2>1, <2>2, <2>3, Sizes!SetInduction
  <1> HIDE DEF up, down
  <1>4. ASSUME NEW i \in 1..n PROVE f[i] = i
    <2>1. i \in up /\ n - i \in down
      BY <1>2, <1>3
    <2>2. i <= f[i] /\ f[i] <= i
      BY <2>1 DEF up, down
    <2> QED
      BY <1>1, <2>2
  <1> QED
    BY <1>4

InOrder(list) == \A i, j \in DOMAIN list : i < j => Before(list[i], list[j])

(* A set of names has one list of them in order.                           *)
LEMMA OneOrder ==
    ASSUME NEW D \in SUBSET Seq(Byte), NEW n \in Nat, NEW g \in [1..n -> D], NEW h \in [1..n -> D],
           InOrder(g), InOrder(h), \A d \in D : \E i \in 1..n : h[i] = d
    PROVE  g = h
  <1> DEFINE place == [i \in 1..n |-> CHOOSE k \in 1..n : h[k] = g[i]]
  <1>1. \A i \in 1..n : place[i] \in 1..n /\ h[place[i]] = g[i]
    <2> TAKE i \in 1..n
    <2>1. \E k \in 1..n : h[k] = g[i]
      OBVIOUS
    <2> QED
      BY <2>1
  <1>2. place \in [1..n -> 1..n]
    BY <1>1
  <1> HIDE DEF place
  <1>3. ASSUME NEW i \in 1..n, NEW j \in 1..n, i < j PROVE place[i] < place[j]
    <2>1. Before(g[i], g[j])
      BY <1>3 DEF InOrder
    <2>2. g[i] \in Seq(Byte) /\ g[j] \in Seq(Byte)
      OBVIOUS
    <2>3. ~Before(g[j], g[i]) /\ g[i] # g[j]
      BY <2>1, <2>2, BeforeOnce
    <2>4. ~(place[j] < place[i])
      <3>1. place[j] \in DOMAIN h /\ place[i] \in DOMAIN h
        BY <1>1
      <3>2. ~Before(h[place[j]], h[place[i]])
        BY <1>1, <2>3
      <3> QED
        BY <3>1, <3>2 DEF InOrder
    <2>5. place[i] # place[j]
      BY <1>1, <2>3
    <2> DEFINE x == place[i]
               y == place[j]
    <2>6. ~(y < x) /\ x # y
      BY <2>4, <2>5
    <2>7. x \in 1..n /\ y \in 1..n
      BY <1>1
    <2> HIDE DEF x, y
    <2>8. x < y
      BY <2>6, <2>7
    <2> QED
      BY <2>8 DEF x, y
  <1>4. \A i \in 1..n : place[i] = i
    BY <1>2, <1>3, Increasing
  <1>5. \A i \in 1..n : g[i] = h[i]
    BY <1>1, <1>4
  <1> QED
    BY <1>5

LEMMA SortedIs ==
    ASSUME NEW D \in SUBSET Seq(Byte), NEW n \in Nat, NEW h \in [1..n -> D], InOrder(h),
           \A d \in D : \E i \in 1..n : h[i] = d
    PROVE  Sorted(D) = h
  <1>1. ASSUME NEW i \in 1..n, NEW j \in 1..n, i # j PROVE h[i] # h[j]
    <2>1. \A s, t \in Seq(Byte) : Before(s, t) => s # t
      BY BeforeOnce
    <2>2. h[i] \in Seq(Byte) /\ h[j] \in Seq(Byte)
      OBVIOUS
    <2>3. Before(h[i], h[j]) \/ Before(h[j], h[i])
      BY <1>1 DEF InOrder
    <2> QED
      BY <2>1, <2>2, <2>3
  <1>2. Cardinality(D) = n
    <2>1. h \in Injection(1..n, D)
      BY <1>1 DEF Injection, IsInjective
    <2>2. h \in Surjection(1..n, D)
      BY DEF Surjection
    <2>3. ExistsBijection(1..n, D)
      BY <2>1, <2>2 DEF ExistsBijection, Bijection
    <2> QED
      BY <2>3, FS_CountingElements
  <1>3. h \in SetToSeqs(D)
    BY <1>1, <1>2 DEF SetToSeqs
  <1> DEFINE g == Sorted(D)
  <1>4. g \in SetToSeqs(D) /\ InOrder(g)
    BY <1>3 DEF Sorted, InOrder
  <1>5. g \in [1..n -> D]
    BY <1>2, <1>4 DEF SetToSeqs
  <1> HIDE DEF g
  <1>6. g = h
    BY <1>4, <1>5, OneOrder
  <1> QED
    BY <1>6 DEF g

(***************************************************************************)
(* The digits of a number. DigitsOf is a recursion on the tenth of its     *)
(* argument: it is the diagonal of the tables of its values up to n.       *)
(***************************************************************************)
DigitsFrom(table, n) ==
    IF n < 10 THEN <<48 + n>> ELSE Append(table[n \div 10], 48 + (n % 10))

TableStep(table, none, n) ==
    [k \in 0..n |-> IF k < n THEN table[k] ELSE DigitsFrom(table, n)]

Tables == INSTANCE Recursion WITH Step <- TableStep

LEMMA Tenth == \A n \in Nat : n >= 10 => n \div 10 \in Nat /\ n \div 10 < n
  OBVIOUS

LEMMA DigitsExist == \E F : F = [n \in Nat |-> DigitsFrom(F, n)]
  <1> DEFINE first == [k \in 0..0 |-> <<48>>]
  <1>1. PICK W : Tables!IsRun(W, first, << >>)
    BY Tables!RunExists
  <1>2. W[0] = first /\ \A n \in Nat \ {0} : W[n] = TableStep(W[n - 1], << >>[n], n)
    BY <1>1 DEF Tables!IsRun
  <1> DEFINE F == [n \in Nat |-> W[n][n]]
             good == {n \in Nat : \A k \in 0..n : W[n][k] = F[k]}
  <1>3. \A n \in Nat \ {0} : \A k \in 0..n :
            W[n][k] = IF k < n THEN W[n - 1][k] ELSE DigitsFrom(W[n - 1], n)
    BY <1>2 DEF TableStep
  <1>4. good = Nat
    <2>1. 0 \in good
      <3>1. \A k \in 0..0 : k = 0
        OBVIOUS
      <3> QED
        BY <3>1
    <2>2. ASSUME NEW n \in good PROVE n + 1 \in good
      <3>1. n \in Nat /\ n + 1 \in Nat \ {0} /\ (n + 1) - 1 = n
        BY <2>2
      <3>2. ASSUME NEW k \in 0..(n + 1) PROVE W[n + 1][k] = F[k]
        <4>1. CASE k < n + 1
          <5>1. k \in 0..n
            BY <3>1, <4>1
          <5>2. W[n + 1][k] = W[n][k]
            BY <1>3, <3>1, <3>2, <4>1
          <5> QED
            BY <2>2, <5>1, <5>2
        <4>2. CASE k = n + 1
          BY <3>1, <4>2
        <4> QED
          BY <3>1, <3>2, <4>1, <4>2
      <3> QED
        BY <3>1, <3>2
    <2>3. good \in SUBSET Nat
      OBVIOUS
    <2> HIDE DEF good
    <2> QED
      BY <2>1, <2>2, <2>3, Tables!SetInduction
  <1>5. ASSUME NEW n \in Nat PROVE F[n] = DigitsFrom(F, n)
    <2>1. CASE n = 0
      <3>1. F[0] = <<48>>
        BY <1>2
      <3> QED
        BY <2>1, <3>1 DEF DigitsFrom
    <2>2. CASE n # 0
      <3>1. n - 1 \in Nat /\ n \in Nat \ {0} /\ n \in 0..n /\ ~(n < n)
        BY <2>2
      <3>2. F[n] = DigitsFrom(W[n - 1], n)
        BY <1>3, <3>1
      <3>3. ASSUME n >= 10 PROVE W[n - 1][n \div 10] = F[n \div 10]
        <4>1. n \div 10 \in 0..(n - 1)
          BY <3>1, <3>3, Tenth
        <4>2. n - 1 \in good
          BY <1>4, <3>1
        <4> QED
          BY <4>1, <4>2
      <3> HIDE DEF F
      <3>4. CASE n < 10
        BY <3>2, <3>4 DEF DigitsFrom
      <3>5. CASE n >= 10
        BY <3>2, <3>3, <3>5 DEF DigitsFrom
      <3> QED
        BY <3>4, <3>5
    <2> QED
      BY <2>1, <2>2
  <1>6. F = [n \in Nat |-> DigitsFrom(F, n)]
    <2>1. F = [n \in Nat |-> F[n]]
      OBVIOUS
    <2> HIDE DEF F
    <2> QED
      BY <1>5, <2>1
  <1> QED
    BY <1>6

LEMMA DigitsSolve == \A n \in Nat : DigitsOf[n] = DigitsFrom(DigitsOf, n)
  <1> DEFINE Solves(F) == F = [n \in Nat |-> DigitsFrom(F, n)]
  <1>1. \E F : Solves(F)
    BY DigitsExist
  <1>2. DigitsOf = CHOOSE F : Solves(F)
    BY DEF DigitsOf, DigitsFrom
  <1>3. Solves(DigitsOf)
    <2> HIDE DEF Solves
    <2> QED
      BY <1>1, <1>2
  <1> QED
    BY <1>3

LEMMA DigitsSmall ==
    ASSUME NEW n \in Nat, n < 10
    PROVE  DigitsOf[n] = <<48 + n>>
  BY DigitsSolve DEF DigitsFrom

LEMMA DigitsTens ==
    ASSUME NEW n \in Nat, n >= 10
    PROVE  DigitsOf[n] = Append(DigitsOf[n \div 10], 48 + (n % 10))
  <1>1. ~(n < 10)
    OBVIOUS
  <1> QED
    BY <1>1, DigitsSolve DEF DigitsFrom

LEMMA Tenths ==
    ASSUME NEW n \in Nat
    PROVE  /\ n \div 1 = n /\ n \div 100 = (n \div 10) \div 10
           /\ n \div 1000 = ((n \div 10) \div 10) \div 10
           /\ n \div 10 \in Nat /\ (n \div 10) \div 10 \in Nat
           /\ ((n \div 10) \div 10) \div 10 \in Nat
           /\ (n < 10 => n % 10 = n)
  <1>1. n \div 10 \in Nat /\ n \div 100 \in Nat /\ n \div 1 = n /\ (n < 10 => n % 10 = n)
    OBVIOUS
  <1>2. n \div 100 = (n \div 10) \div 10 /\ n \div 1000 = (n \div 100) \div 10
    OBVIOUS
  <1>3. \A x \in Nat : x \div 10 \in Nat
    OBVIOUS
  <1> QED
    BY <1>1, <1>2, <1>3

Digit(x) == 48 + (x % 10)

LEMMA TenMore ==
    ASSUME NEW n \in Nat, NEW t \in Nat, t = n \div 10
    PROVE  /\ n >= 10 => DigitsOf[n] = Append(DigitsOf[t], Digit(n))
           /\ n < 10 => DigitsOf[n] = <<Digit(n)>>
  <1>1. ASSUME n >= 10 PROVE DigitsOf[n] = Append(DigitsOf[t], Digit(n))
    BY <1>1, DigitsTens DEF Digit
  <1>2. ASSUME n < 10 PROVE DigitsOf[n] = <<Digit(n)>>
    <2>1. n % 10 = n
      BY <1>2
    <2> QED
      BY <1>2, <2>1, DigitsSmall DEF Digit
  <1> QED
    BY <1>1, <1>2

LEMMA AppendIs ==
    ASSUME NEW K, NEW s \in Seq(K), NEW x \in K, NEW u \in Seq(K), Len(u) = Len(s) + 1,
           u[Len(u)] = x, \A i \in 1..Len(s) : u[i] = s[i]
    PROVE  Append(s, x) = u
  <1>1. Append(s, x) \in Seq(K) /\ Len(Append(s, x)) = Len(u) /\ Len(u) \in Nat
    OBVIOUS
  <1>2. \A i \in 1..Len(u) : Append(s, x)[i] = u[i]
    OBVIOUS
  <1> QED
    BY <1>1, <1>2, SeqEqual

LEMMA AppendOne ==
    ASSUME NEW a \in Nat, NEW b \in Nat
    PROVE  Append(<<a>>, b) = <<a, b>>
  <1>1. <<a>> \in Seq(Nat) /\ <<a, b>> \in Seq(Nat)
    OBVIOUS
  <1>2. Len(<<a, b>>) = Len(<<a>>) + 1 /\ <<a, b>>[Len(<<a, b>>)] = b
    OBVIOUS
  <1>3. \A i \in 1..Len(<<a>>) : <<a, b>>[i] = <<a>>[i]
    OBVIOUS
  <1> QED
    BY <1>1, <1>2, <1>3, AppendIs

LEMMA AppendTwo ==
    ASSUME NEW a \in Nat, NEW b \in Nat, NEW c \in Nat
    PROVE  Append(<<a, b>>, c) = <<a, b, c>>
  <1>1. <<a, b>> \in Seq(Nat) /\ <<a, b, c>> \in Seq(Nat)
    OBVIOUS
  <1>2. Len(<<a, b, c>>) = Len(<<a, b>>) + 1 /\ <<a, b, c>>[Len(<<a, b, c>>)] = c
    OBVIOUS
  <1>3. \A i \in 1..Len(<<a, b>>) : <<a, b, c>>[i] = <<a, b>>[i]
    OBVIOUS
  <1> QED
    BY <1>1, <1>2, <1>3, AppendIs

LEMMA AppendThree ==
    ASSUME NEW a \in Nat, NEW b \in Nat, NEW c \in Nat, NEW d \in Nat
    PROVE  Append(<<a, b, c>>, d) = <<a, b, c, d>>
  <1>1. <<a, b, c>> \in Seq(Nat) /\ <<a, b, c, d>> \in Seq(Nat)
    OBVIOUS
  <1>2. Len(<<a, b, c, d>>) = Len(<<a, b, c>>) + 1 /\ <<a, b, c, d>>[Len(<<a, b, c, d>>)] = d
    OBVIOUS
  <1>3. \A i \in 1..Len(<<a, b, c>>) : <<a, b, c, d>>[i] = <<a, b, c>>[i]
    OBVIOUS
  <1> QED
    BY <1>1, <1>2, <1>3, AppendIs

(* mem_alloc_and_format_uint() writes the decimal number.                  *)
LEMMA DigitsAreDecimal ==
    ASSUME NEW n \in Nat, n <= 9999
    PROVE  DigitsOf[n] = Decimal(n) /\ Len(DigitsOf[n]) \in 1..4
  <1>1. PICK t \in Nat : t = n \div 10
    BY Tenths
  <1>2. PICK h \in Nat : h = t \div 10
    BY Tenths
  <1>3. PICK k \in Nat : k = h \div 10
    BY Tenths
  <1>5. /\ n >= 10 => DigitsOf[n] = Append(DigitsOf[t], Digit(n))
        /\ n < 10 => DigitsOf[n] = <<Digit(n)>>
        /\ t >= 10 => DigitsOf[t] = Append(DigitsOf[h], Digit(t))
        /\ t < 10 => DigitsOf[t] = <<Digit(t)>>
        /\ h >= 10 => DigitsOf[h] = Append(DigitsOf[k], Digit(h))
        /\ h < 10 => DigitsOf[h] = <<Digit(h)>>
        /\ k < 10 => DigitsOf[k] = <<Digit(k)>>
    <2>1. (n >= 10 => DigitsOf[n] = Append(DigitsOf[t], Digit(n))) /\ (n < 10 => DigitsOf[n] = <<Digit(n)>>)
      BY <1>1, TenMore
    <2>2. (t >= 10 => DigitsOf[t] = Append(DigitsOf[h], Digit(t))) /\ (t < 10 => DigitsOf[t] = <<Digit(t)>>)
      BY <1>2, TenMore
    <2>3. (h >= 10 => DigitsOf[h] = Append(DigitsOf[k], Digit(h))) /\ (h < 10 => DigitsOf[h] = <<Digit(h)>>)
      BY <1>3, TenMore
    <2>4. \E x \in Nat : x = k \div 10
      BY Tenths
    <2>5. k < 10 => DigitsOf[k] = <<Digit(k)>>
      BY <2>4, TenMore
    <2> QED
      BY <2>1, <2>2, <2>3, <2>5
  <1>7. /\ n < 100 => t < 10
        /\ n >= 100 => t >= 10
        /\ n < 1000 => h < 10
        /\ n >= 1000 => t >= 10 /\ h >= 10
        /\ k < 10
    <2>1. /\ n < 100 => t < 10
          /\ n >= 100 => t >= 10
          /\ n < 1000 => t < 100
          /\ n >= 1000 => t >= 100
          /\ t < 1000
      BY <1>1
    <2>2. /\ t < 100 => h < 10
          /\ t >= 100 => h >= 10
          /\ t < 1000 => h < 100
      BY <1>2
    <2>3. h < 100 => k < 10
      BY <1>3
    <2> QED
      BY <2>1, <2>2, <2>3
  <1>8. n \div 1 = n /\ n \div 10 = t /\ n \div 100 = h /\ n \div 1000 = k
    BY <1>1, <1>2, <1>3, Tenths
  <1>4. PICK a \in Nat, b \in Nat, c \in Nat, d \in Nat :
              a = Digit(n) /\ b = Digit(t) /\ c = Digit(h) /\ d = Digit(k)
    BY DEF Digit
  <1>6. /\ a = 48 + ((n \div 1) % 10) /\ b = 48 + ((n \div 10) % 10)
        /\ c = 48 + ((n \div 100) % 10) /\ d = 48 + ((n \div 1000) % 10)
    BY <1>4, <1>8 DEF Digit
  <1> DEFINE one == <<48 + ((n \div 1) % 10)>>
             two == <<48 + ((n \div 10) % 10), 48 + ((n \div 1) % 10)>>
             three == <<48 + ((n \div 100) % 10), 48 + ((n \div 10) % 10), 48 + ((n \div 1) % 10)>>
             four == <<48 + ((n \div 1000) % 10), 48 + ((n \div 100) % 10),
                       48 + ((n \div 10) % 10), 48 + ((n \div 1) % 10)>>
             tens == n \in 10..99
             hundreds == n \in 100..999
             ones == n \in 0..9
  <1>13. Decimal(n) = (CASE ones -> one [] tens -> two [] hundreds -> three [] OTHER -> four)
    BY DEF Decimal
  <1>14. one = <<a>> /\ two = <<b, a>> /\ three = <<c, b, a>> /\ four = <<d, c, b, a>>
    BY <1>6
  <1> HIDE DEF one, two, three, four, ones, tens, hundreds
  <1>15. /\ n >= 10 => DigitsOf[n] = Append(DigitsOf[t], a)
         /\ n < 10 => DigitsOf[n] = <<a>>
         /\ t >= 10 => DigitsOf[t] = Append(DigitsOf[h], b)
         /\ t < 10 => DigitsOf[t] = <<b>>
         /\ h >= 10 => DigitsOf[h] = Append(DigitsOf[k], c)
         /\ h < 10 => DigitsOf[h] = <<c>>
         /\ k < 10 => DigitsOf[k] = <<d>>
    BY <1>4, <1>5, SMTT(30)
  <1>9. CASE n < 10
    <2>1. DigitsOf[n] = <<a>>
      BY <1>15, <1>9
    <2>2. ones /\ ~tens /\ ~hundreds /\ Len(<<a>>) = 1
      BY <1>9 DEF ones, tens, hundreds
    <2>3. Decimal(n) = <<a>>
      BY <1>13, <1>14, <2>2, SMTT(30)
    <2> QED
      BY <2>1, <2>2, <2>3
  <1>10. CASE n >= 10 /\ n < 100
    <2>0. DigitsOf[t] = <<b>>
      BY <1>7, <1>15, <1>10
    <2>9. DigitsOf[n] = Append(DigitsOf[t], a)
      BY <1>15, <1>10
    <2>1. DigitsOf[n] = Append(<<b>>, a)
      BY <2>0, <2>9
    <2>2. DigitsOf[n] = <<b, a>>
      BY <2>1, AppendOne
    <2>3. tens /\ ~ones /\ ~hundreds /\ Len(<<b, a>>) = 2
      BY <1>10 DEF ones, tens, hundreds
    <2>4. Decimal(n) = <<b, a>>
      BY <1>13, <1>14, <2>3, SMTT(30)
    <2> QED
      BY <2>2, <2>3, <2>4
  <1>11. CASE n >= 100 /\ n < 1000
    <2>0. n >= 10
      BY <1>11
    <2>1. DigitsOf[h] = <<c>>
      BY <1>7, <1>15, <1>11
    <2>9. DigitsOf[t] = Append(DigitsOf[h], b)
      BY <1>7, <1>15, <1>11
    <2>8. DigitsOf[n] = Append(DigitsOf[t], a)
      BY <1>15, <2>0
    <2>7. DigitsOf[t] = <<c, b>>
      BY <2>1, <2>9, AppendOne
    <2>2. DigitsOf[n] = Append(<<c, b>>, a)
      BY <2>7, <2>8
    <2>3. DigitsOf[n] = <<c, b, a>>
      BY <2>2, AppendTwo
    <2>4. hundreds /\ ~ones /\ ~tens /\ Len(<<c, b, a>>) = 3
      BY <1>11 DEF ones, tens, hundreds
    <2>6. Decimal(n) = <<c, b, a>>
      BY <1>13, <1>14, <2>4, SMTT(30)
    <2> QED
      BY <2>3, <2>4, <2>6
  <1>12. CASE n >= 1000
    <2>0. n >= 10
      BY <1>12
    <2>1. DigitsOf[k] = <<d>>
      BY <1>7, <1>15, <1>12
    <2>9. DigitsOf[h] = Append(DigitsOf[k], c)
      BY <1>7, <1>15, <1>12
    <2>8. DigitsOf[t] = Append(DigitsOf[h], b)
      BY <1>7, <1>15, <1>12
    <2>7. DigitsOf[n] = Append(DigitsOf[t], a)
      BY <1>15, <2>0
    <2>10. DigitsOf[h] = <<d, c>>
      BY <2>1, <2>9, AppendOne
    <2>2. DigitsOf[t] = <<d, c, b>>
      BY <2>8, <2>10, AppendTwo
    <2>3. DigitsOf[n] = Append(<<d, c, b>>, a)
      BY <2>2, <2>7
    <2>4. DigitsOf[n] = <<d, c, b, a>>
      BY <2>3, AppendThree
    <2>5. ~hundreds /\ ~ones /\ ~tens /\ Len(<<d, c, b, a>>) = 4
      BY <1>12 DEF ones, tens, hundreds
    <2>11. Decimal(n) = <<d, c, b, a>>
      BY <1>13, <1>14, <2>5, SMTT(30)
    <2> QED
      BY <2>4, <2>5, <2>11
  <1> QED
    BY <1>9, <1>10, <1>11, <1>12

(***************************************************************************)
(* What a struct reaches.                                                  *)
(***************************************************************************)
Closed(s, names) == \A a \in names : UsedBy(s, a) \subseteq names

LEMMA ReachedLeast ==
    ASSUME NEW s, NEW U, U \subseteq StructsOf(s)
    PROVE  /\ U \subseteq Reached(s, U) /\ Reached(s, U) \subseteq StructsOf(s)
           /\ Closed(s, Reached(s, U))
           /\ \A C \in SUBSET StructsOf(s) : U \subseteq C /\ Closed(s, C) => Reached(s, U) \subseteq C
  <1>1. StructsOf(s) \cup U = StructsOf(s)
    OBVIOUS
  <1> DEFINE all == StructsOf(s)
             R == Reached(s, U)
  <1>2. R = {a \in all : \A C \in SUBSET all : U \subseteq C /\ Closed(s, C) => a \in C}
    BY <1>1 DEF Reached, Closed
  <1>3. \A a : UsedBy(s, a) \subseteq all
    BY DEF UsedBy
  <1> HIDE DEF all, R
  <1>4. U \subseteq R /\ R \subseteq all
    BY <1>2 DEF all
  <1>5. \A C \in SUBSET all : U \subseteq C /\ Closed(s, C) => R \subseteq C
    BY <1>2
  <1>6. ASSUME NEW a \in R, NEW b \in UsedBy(s, a) PROVE b \in R
    <2>1. ASSUME NEW C \in SUBSET all, U \subseteq C, Closed(s, C) PROVE b \in C
      <3>1. a \in C
        BY <1>5, <2>1
      <3> QED
        BY <2>1, <3>1 DEF Closed
    <2>2. b \in all
      BY <1>3
    <2> QED
      BY <1>2, <2>1, <2>2
  <1>7. Closed(s, R)
    BY <1>6 DEF Closed
  <1> QED
    BY <1>4, <1>5, <1>7 DEF R, all

(* What a struct that does not reach itself is encoded with.               *)
LEMMA ReachedBehind ==
    ASSUME NEW s, NEW r \in StructsOf(s), ~Recursive(s, r)
    PROVE  Reached(s, {r}) \ {r} = Reached(s, UsedBy(s, r))
  <1> DEFINE U == UsedBy(s, r)
             A == Reached(s, {r})
             B == Reached(s, U)
  <1>1. U \subseteq StructsOf(s) /\ {r} \subseteq StructsOf(s)
    BY DEF UsedBy
  <1>2. /\ {r} \subseteq A /\ A \subseteq StructsOf(s) /\ Closed(s, A)
        /\ \A C \in SUBSET StructsOf(s) : {r} \subseteq C /\ Closed(s, C) => A \subseteq C
    BY <1>1, ReachedLeast
  <1>3. /\ U \subseteq B /\ B \subseteq StructsOf(s) /\ Closed(s, B)
        /\ \A C \in SUBSET StructsOf(s) : U \subseteq C /\ Closed(s, C) => B \subseteq C
    BY <1>1, ReachedLeast
  <1>4. r \notin B
    BY DEF Recursive
  <1> HIDE DEF A, B
  <1>5. Closed(s, {r} \cup B)
    BY <1>3 DEF Closed
  <1>6. A \subseteq {r} \cup B
    BY <1>1, <1>2, <1>3, <1>5
  <1>7. B \subseteq A
    <2>1. U \subseteq A
      BY <1>2 DEF Closed
    <2> QED
      BY <1>2, <1>3, <2>1
  <1> QED
    BY <1>4, <1>6, <1>7 DEF A, B

-----------------------------------------------------------------------------

(***************************************************************************)
(* What the accessors read of the message's types.                         *)
(***************************************************************************)
(* The definitions d are the structs s.                                    *)
Means(d, s) ==
    /\ Len(d) = Len(s)
    /\ \A n \in 1..Len(s) :
        /\ d[n].name = s[n].name /\ Len(d[n].fields) = Len(s[n].fields)
        /\ \A j \in 1..Len(s[n].fields) : d[n].fields[j] = Meaning(s[n].fields[j])

(* In memory are the structs s.                                            *)
Reads(s) ==
    /\ mem[structs_array] = Len(s)
    /\ \A n \in 1..Len(s) :
        /\ StructPtr[n] \in Nat
        /\ get_struct_name(StructPtr[n]) = s[n].name
        /\ FieldsCount(StructPtr[n]) = Len(s[n].fields)
        /\ \A j \in 1..Len(s[n].fields) :
            /\ DecodedField(FieldPtr(StructPtr[n])[j]) = Meaning(s[n].fields[j])
            /\ SizeRead(FieldPtr(StructPtr[n])[j])

LEMMA MeansReads ==
    ASSUME DefInv, intact, NEW s, Means(defined, s)
    PROVE  Reads(s)
  <1>1. PICK at : Kept(mem, Top, defined, intact, current_struct_fields_array, at)
    BY DEF DefInv
  <1>2. mem[structs_array] = Len(defined) /\ Len(defined) = Len(s) /\ defined \in Seq(Definition)
    BY <1>1 DEF Kept, Means, DefInv
  <1>3. ASSUME NEW n \in 1..Len(s)
        PROVE  /\ StructPtr[n] \in Nat
               /\ get_struct_name(StructPtr[n]) = s[n].name
               /\ FieldsCount(StructPtr[n]) = Len(s[n].fields)
               /\ \A j \in 1..Len(s[n].fields) :
                      /\ DecodedField(FieldPtr(StructPtr[n])[j]) = Meaning(s[n].fields[j])
                      /\ SizeRead(FieldPtr(StructPtr[n])[j])
    <2> DEFINE p == StructPtr[n]
    <2>1. /\ p = at[n] /\ get_struct_name(p) = defined[n].name
          /\ FieldsCount(p) = Len(defined[n].fields) /\ DecodedStruct(p) = defined[n]
          /\ \A j \in 1..Len(defined[n].fields) : SizeRead(FieldPtr(p)[j])
      BY <1>1, <1>2, StructsFound
    <2>2. p \in Nat
      <3>1. at[n] \in Nat
        BY <1>1, <1>2, KeptFacts
      <3> QED
        BY <2>1, <3>1
    <2>3. /\ defined[n].name = s[n].name /\ Len(defined[n].fields) = Len(s[n].fields)
          /\ \A j \in 1..Len(s[n].fields) : defined[n].fields[j] = Meaning(s[n].fields[j])
      BY DEF Means
    <2> HIDE DEF p
    <2>4. defined[n].fields = [j \in 1..FieldsCount(p) |-> DecodedField(FieldPtr(p)[j])]
      <3>1. DecodedStruct(p).fields = [j \in 1..FieldsCount(p) |-> DecodedField(FieldPtr(p)[j])]
        BY DEF DecodedStruct
      <3> QED
        BY <2>1, <3>1
    <2>5. \A j \in 1..FieldsCount(p) : defined[n].fields[j] = DecodedField(FieldPtr(p)[j])
      BY <2>4
    <2> QED
      BY <2>1, <2>2, <2>3, <2>5 DEF p
  <1> QED
    BY <1>2, <1>3 DEF Reads

LEMMA MeansReadsNext == DefInv' /\ intact' /\ Means(defined, told)' => Reads(told)'
  <1>1. DefInv /\ intact /\ Means(defined, told) => Reads(told)
    BY MeansReads
  <1> QED
    BY <1>1, PTL

LEMMA FieldReadSame ==
    ASSUME mem' = mem
    PROVE  /\ \A p : FieldsCount(p)' = FieldsCount(p) /\ FieldPtr(p)' = FieldPtr(p)
           /\ \A p : struct_field_type(p)' = struct_field_type(p)
           /\ \A p : get_struct_field_typename(p)' = get_struct_field_typename(p)
           /\ \A p : DecodedField(p)' = DecodedField(p)
           /\ \A p : SizeRead(p)' = SizeRead(p)
  <1>1. \A p : FieldsCount(p)' = FieldsCount(p) /\ FieldPtr(p)' = FieldPtr(p)
    BY DEF FieldPtr, FieldsCount, get_struct_fields_array,
           get_next_struct_field, AfterString, KeynamePtr, get_struct_field_array_lvls_array,
           struct_field_is_array, LevelPtr, get_next_struct_field_array_lvl,
           struct_field_half_skip, struct_field_type, struct_field_has_typesize
  <1>2. /\ \A p : struct_field_type(p)' = struct_field_type(p)
        /\ \A p : struct_field_has_typesize(p)' = struct_field_has_typesize(p)
        /\ \A p : get_struct_field_typesize(p)' = get_struct_field_typesize(p)
        /\ \A p : struct_field_is_array(p)' = struct_field_is_array(p)
        /\ \A p : struct_field_array_depth(p)' = struct_field_array_depth(p)
    BY DEF struct_field_type, struct_field_has_typesize, get_struct_field_typesize,
           struct_field_is_array, struct_field_array_depth
  <1>3. /\ \A p : StringAt(p)' = StringAt(p) /\ AfterString(p)' = AfterString(p)
        /\ \A p : LevelPtr(p)' = LevelPtr(p)
    BY DEF StringAt, AfterString, LevelPtr, get_next_struct_field_array_lvl
  <1>4. \A e : get_struct_field_sol_typename(e)' = get_struct_field_sol_typename(e)
    BY <1>3 DEF get_struct_field_sol_typename, EntryPtr, NameOfEntry, EntryTypes, AfterString, StringAt
  <1>5. \A p : get_struct_field_typename(p)' = get_struct_field_typename(p)
    BY <1>2, <1>3, <1>4 DEF get_struct_field_typename
  <1>6. /\ \A p : struct_field_half_skip(p)' = struct_field_half_skip(p)
        /\ \A p : KeynamePtr(p)' = KeynamePtr(p)
    BY <1>2, <1>3 DEF struct_field_half_skip, KeynamePtr, get_struct_field_array_lvls_array
  <1>7. \A p : DecodedField(p)' = DecodedField(p)
    BY <1>2, <1>3, <1>5, <1>6 DEF DecodedField, get_struct_field_array_lvls_array,
       get_struct_field_keyname
  <1>8. \A p : SizeRead(p)' = SizeRead(p)
    BY <1>2, <1>7 DEF SizeRead
  <1> QED
    BY <1>1, <1>2, <1>5, <1>7, <1>8

LEMMA ReadsSame ==
    ASSUME mem' = mem
    PROVE  \A s : Reads(s)' = Reads(s)
  <1>1. structs_array' = structs_array /\ StructPtr' = StructPtr
    BY ReadSame DEF structs_array
  <1> QED
    BY <1>1, ReadSame, FieldReadSame DEF Reads

LEMMA MeansStruct ==
    ASSUME NEW d \in Seq(Definition), NEW s \in Seq(JsonStruct), Means(d, s), NEW x \in Definition,
           NEW y \in JsonStruct, x.name = y.name, x.fields = << >>, y.fields = << >>
    PROVE  Means(Append(d, x), Append(s, y))
  <1> DEFINE dx == Append(d, x)
             sy == Append(s, y)
             k == Len(s)
  <1>1. /\ Len(dx) = Len(d) + 1 /\ dx[Len(d) + 1] = x /\ \A n \in 1..Len(d) : dx[n] = d[n]
        /\ Len(sy) = Len(s) + 1 /\ sy[Len(s) + 1] = y /\ \A n \in 1..Len(s) : sy[n] = s[n]
    BY Appended
  <1>2. k \in Nat /\ Len(d) = k
    BY DEF Means
  <1> HIDE DEF k, dx, sy
  <1>3. ASSUME NEW n \in 1..Len(sy)
        PROVE  /\ dx[n].name = sy[n].name /\ Len(dx[n].fields) = Len(sy[n].fields)
               /\ \A j \in 1..Len(sy[n].fields) : dx[n].fields[j] = Meaning(sy[n].fields[j])
    <2>1. CASE n = k + 1
      <3>1. dx[n] = x /\ sy[n] = y
        BY <1>1, <1>2, <2>1 DEF k
      <3>2. Len(<< >>) = 0 /\ 1..0 = {}
        OBVIOUS
      <3> QED
        BY <3>1, <3>2
    <2>2. CASE n # k + 1
      <3>1. n \in 1..k
        BY <1>1, <1>2, <2>2 DEF k
      <3>2. dx[n] = d[n] /\ sy[n] = s[n]
        BY <1>1, <1>2, <3>1 DEF k
      <3> QED
        BY <3>1, <3>2 DEF Means, k
    <2> QED
      BY <2>1, <2>2
  <1> QED
    BY <1>1, <1>2, <1>3 DEF Means, dx, sy, k

LEMMA MeansField ==
    ASSUME NEW d \in Seq(Definition), NEW s \in Seq(JsonStruct), Means(d, s), s # << >>,
           NEW f \in JsonFields
    PROVE  Means([d EXCEPT ![Len(d)].fields = Append(@, Meaning(f))],
                 [s EXCEPT ![Len(s)].fields = Append(@, f)])
  <1> DEFINE k == Len(s)
             df == Append(d[k].fields, Meaning(f))
             sf == Append(s[k].fields, f)
             dx == [d EXCEPT ![k].fields = Append(@, Meaning(f))]
             sy == [s EXCEPT ![k].fields = Append(@, f)]
  <1>1. k \in Nat /\ k \in 1..k /\ Len(d) = k
    BY DEF Means
  <1>2. d[k] \in Definition /\ s[k] \in JsonStruct
    BY <1>1
  <1>3. d[k].fields \in Seq(Meanings) /\ s[k].fields \in Seq(JsonFields) /\ Meaning(f) \in Meanings
    BY <1>2 DEF Definition, JsonStruct, Meanings
  <1>4. /\ Len(df) = Len(d[k].fields) + 1 /\ df[Len(d[k].fields) + 1] = Meaning(f)
        /\ \A n \in 1..Len(d[k].fields) : df[n] = d[k].fields[n]
        /\ Len(sf) = Len(s[k].fields) + 1 /\ sf[Len(s[k].fields) + 1] = f
        /\ \A n \in 1..Len(s[k].fields) : sf[n] = s[k].fields[n]
    BY <1>3, Appended, SMTT(30)
  <1> HIDE DEF df, sf
  <1>5. /\ Len(dx) = k /\ dx[k] = [d[k] EXCEPT !.fields = df] /\ \A n \in 1..k : n # k => dx[n] = d[n]
    <2> DEFINE e == [d[k] EXCEPT !.fields = df]
    <2>1. dx = [d EXCEPT ![k] = e]
      BY <1>1 DEF df
    <2>2. DOMAIN d = 1..k /\ e \in Definition
      <3>1. df \in Seq(Meanings)
        BY <1>3, Appended DEF df
      <3>2. DOMAIN d = 1..Len(d)
        OBVIOUS
      <3>3. e \in Definition
        BY <1>2, <3>1 DEF Definition
      <3> QED
        BY <1>1, <3>2, <3>3
    <2> HIDE DEF e, k, dx
    <2>3. dx \in Seq(Definition) /\ Len(dx) = k /\ dx[k] = e /\ \A n \in 1..k : n # k => dx[n] = d[n]
      BY <1>1, <2>1, <2>2
    <2> QED
      BY <2>3 DEF e
  <1>6. /\ Len(sy) = k /\ sy[k] = [s[k] EXCEPT !.fields = sf] /\ \A n \in 1..k : n # k => sy[n] = s[n]
    <2> DEFINE e == [s[k] EXCEPT !.fields = sf]
    <2>1. sy = [s EXCEPT ![k] = e]
      BY <1>1 DEF sf
    <2>2. DOMAIN s = 1..k /\ e \in JsonStruct
      <3>1. sf \in Seq(JsonFields)
        BY <1>3, Appended DEF sf
      <3> QED
        BY <1>1, <1>2, <3>1 DEF JsonStruct
    <2> HIDE DEF e, k, sy
    <2>3. sy \in Seq(JsonStruct) /\ Len(sy) = k /\ sy[k] = e /\ \A n \in 1..k : n # k => sy[n] = s[n]
      BY <1>1, <2>1, <2>2
    <2> QED
      BY <2>3 DEF e
  <1>7. dx[k].name = d[k].name /\ dx[k].fields = df /\ sy[k].name = s[k].name /\ sy[k].fields = sf
    BY <1>2, <1>5, <1>6, SMTT(30) DEF Definition, JsonStruct
  <1> HIDE DEF dx, sy, k
  <1>8. /\ d[k].name = s[k].name /\ Len(d[k].fields) = Len(s[k].fields)
        /\ \A j \in 1..Len(s[k].fields) : d[k].fields[j] = Meaning(s[k].fields[j])
    BY <1>1 DEF Means, k
  <1>9. ASSUME NEW j \in 1..Len(sf) PROVE df[j] = Meaning(sf[j])
    <2>1. Len(s[k].fields) \in Nat
      BY <1>3
    <2>2. j \in 1..Len(s[k].fields) \/ j = Len(s[k].fields) + 1
      BY <1>4, <2>1
    <2> QED
      BY <1>4, <1>8, <2>2
  <1>10. ASSUME NEW n \in 1..k
         PROVE  /\ dx[n].name = sy[n].name /\ Len(dx[n].fields) = Len(sy[n].fields)
                /\ \A j \in 1..Len(sy[n].fields) : dx[n].fields[j] = Meaning(sy[n].fields[j])
    <2>1. CASE n = k
      BY <1>4, <1>7, <1>8, <1>9, <2>1
    <2>2. CASE n # k
      <3>1. dx[n] = d[n] /\ sy[n] = s[n]
        BY <1>5, <1>6, <2>2
      <3> QED
        BY <3>1 DEF Means, k
    <2> QED
      BY <2>1, <2>2
  <1>11. Means(dx, sy)
    BY <1>5, <1>6, <1>10 DEF Means
  <1>12. Len(d) = k
    BY <1>1
  <1> QED
    BY <1>11, <1>12 DEF dx, sy, k

ToldRead == intact => Reads(told) /\ Means(defined, told)

LEMMA ToldReadStarts == EncodingInit => ToldRead
  <1> SUFFICES ASSUME EncodingInit PROVE ToldRead
    OBVIOUS
  <1>1. DefInv /\ intact /\ told = << >> /\ defined = << >>
    BY DefStarts DEF EncodingInit, Init
  <1>2. Len(<< >>) = 0 /\ 1..0 = {}
    OBVIOUS
  <1>3. Means(defined, told)
    BY <1>1, <1>2 DEF Means
  <1> QED
    BY <1>1, <1>3, MeansReads DEF ToldRead

LEMMA ToldReadName ==
    ASSUME EncInv, ToldRead, SendStructName
    PROVE  ToldRead'
  <1> DEFINE name == schema[Len(told) + 1].name
             x == [name |-> name, fields |-> << >>]
  <1>1. told # schema /\ DefInv
    BY DEF EncInv, ToldInv, SendStructName
  <1>2. name \in JsonNames
    <2>1. Len(told) + 1 \in 1..Len(schema) /\ schema[Len(told) + 1] \in JsonStruct
      BY SchemaType DEF SendStructName
    <2> QED
      BY <2>1 DEF JsonStruct
  <1> HIDE DEF name
  <1>3. DefineStruct(name) /\ told' = Append(told, x)
    BY DEF SendStructName, name
  <1>4. DefInv'
    BY <1>1, <1>2, <1>3, NameKept, NameLost
  <1>5. ASSUME intact' PROVE Means(defined, told)'
    <2>1. intact /\ defined' = Append(defined, x)
      BY <1>3, <1>5 DEF DefineStruct
    <2>2. x \in Definition /\ x \in JsonStruct
      <3>1. name \in Seq(Byte) /\ << >> \in Seq(Meanings) /\ << >> \in Seq(JsonFields)
        BY <1>2, NameApdu
      <3> QED
        BY <1>2, <3>1 DEF Definition, JsonStruct
    <2>3. defined \in Seq(Definition) /\ told \in Seq(JsonStruct) /\ Means(defined, told)
      BY <1>1, <2>1 DEF DefInv, EncInv, ToldInv, ToldRead
    <2>4. x.name = x.name /\ x.fields = << >>
      OBVIOUS
    <2> HIDE DEF x
    <2>5. Means(Append(defined, x), Append(told, x))
      BY <2>2, <2>3, <2>4, MeansStruct
    <2>6. Means(defined', told')
      BY <1>3, <2>1, <2>5
    <2> QED
      BY <2>6 DEF Means
  <1> QED
    BY <1>4, <1>5, MeansReadsNext DEF ToldRead

LEMMA ToldReadField ==
    ASSUME EncInv, ToldRead, SendStructField
    PROVE  ToldRead'
  <1> DEFINE k == Len(told)
             field == schema[k].fields[Len(Last(told).fields) + 1]
  <1>1. told \in Seq(JsonStruct) /\ told # << >> /\ k \in 1..Len(schema) /\ k \in 1..Len(told)
    BY SchemaType DEF EncInv, ToldInv, SendStructField
  <1>2. schema[k] \in JsonStruct /\ told[k] \in JsonStruct /\ Last(told) = told[k]
    BY <1>1, SchemaType DEF Last
  <1>3. schema[k].fields \in Seq(JsonFields) /\ told[k].fields \in Seq(JsonFields)
    BY <1>2 DEF JsonStruct
  <1>4. Len(told[k].fields) < Len(schema[k].fields)
    BY <1>2 DEF SendStructField
  <1>5. field \in JsonFields
    BY <1>2, <1>3, <1>4
  <1>6. DefineField(field) /\ told' = [told EXCEPT ![k].fields = Append(@, field)]
    BY DEF SendStructField
  <1> HIDE DEF field
  <1>7. DefInv
    BY <1>4 DEF EncInv, ToldInv
  <1>8. DefInv'
    BY <1>5, <1>6, <1>7, FieldKept, FieldLost
  <1>9. ASSUME intact' PROVE Means(defined, told)'
    <2>1. intact /\ defined' = [defined EXCEPT ![Len(defined)].fields = Append(@, Meaning(field))]
      BY <1>5, <1>6, <1>7, <1>9, FieldHasStruct
    <2>2. defined \in Seq(Definition) /\ Means(defined, told)
      BY <1>7, <2>1 DEF DefInv, ToldRead
    <2>3. Means([defined EXCEPT ![Len(defined)].fields = Append(@, Meaning(field))],
                [told EXCEPT ![Len(told)].fields = Append(@, field)])
      BY <1>1, <1>5, <2>2, MeansField
    <2>4. Means(defined', told')
      BY <1>6, <2>1, <2>3
    <2> QED
      BY <2>4 DEF Means
  <1> QED
    BY <1>8, <1>9, MeansReadsNext DEF ToldRead

(* Nothing else writes to memory.                                          *)
LEMMA ToldReadSame ==
    ASSUME ToldRead, UNCHANGED <<mem, intact, defined, told>>
    PROVE  ToldRead'
  BY ReadsSame DEF ToldRead, Means

-----------------------------------------------------------------------------

(***************************************************************************)
(* The types of a message that both sides read alike.                      *)
(***************************************************************************)
Understood(s) == s \in Seq(JsonStruct) /\ Plain(s) /\ Reads(s)

LEMMA StructPlace ==
    ASSUME NEW s, Understood(s), NEW n \in 1..Len(s)
    PROVE  /\ s[n].name \in JsonNames /\ s[n].name \in Seq(Byte) /\ s[n].fields \in Seq(JsonFields)
           /\ s[n].name \in StructsOf(s) /\ FieldsOf(s, s[n].name) = s[n].fields
           /\ get_structn(s[n].name) = StructPtr[n] /\ StructPtr[n] # NULL
           /\ get_struct_name(StructPtr[n]) = s[n].name
           /\ FieldsCount(StructPtr[n]) = Len(s[n].fields)
  <1> DEFINE name == s[n].name
  <1>1. s \in Seq(JsonStruct) /\ DOMAIN s = 1..Len(s) /\ s[n] \in JsonStruct
    BY DEF Understood
  <1>2. name \in JsonNames /\ s[n].fields \in Seq(JsonFields) /\ name \in Seq(Byte)
    BY <1>1, NameApdu DEF JsonStruct
  <1>3. \A i \in DOMAIN s : s[i].name = name => i = n
    BY <1>1 DEF Understood, Plain
  <1>4. Min({n}) = n
    <2>1. {n} \in SUBSET Nat
      OBVIOUS
    <2> QED
      BY <2>1, LeastIsMin
  <1>5. {i \in DOMAIN s : s[i].name = name} = {n}
    BY <1>1, <1>3
  <1>6. FieldsOf(s, name) = s[n].fields
    BY <1>4, <1>5 DEF FieldsOf
  <1>7. /\ mem[structs_array] = Len(s)
        /\ \A i \in 1..Len(s) : StructPtr[i] \in Nat /\ get_struct_name(StructPtr[i]) = s[i].name
        /\ FieldsCount(StructPtr[n]) = Len(s[n].fields)
    BY DEF Understood, Reads
  <1>8. {i \in 1..mem[structs_array] : get_struct_name(StructPtr[i]) = name} = {n}
    BY <1>1, <1>3, <1>7
  <1>9. get_structn(name) = StructPtr[n]
    BY <1>4, <1>8 DEF get_structn
  <1>10. StructPtr[n] # NULL
    BY <1>7, StructDefsAssumption
  <1>11. name \in StructsOf(s)
    BY <1>1 DEF StructsOf
  <1> QED
    BY <1>2, <1>6, <1>7, <1>9, <1>10, <1>11

(* What the accessors give for a field.                                    *)
LEMMA FieldPlace ==
    ASSUME NEW s, Understood(s), NEW n \in 1..Len(s), NEW j \in 1..Len(s[n].fields)
    PROVE  LET p == FieldPtr(StructPtr[n])[j]
               field == s[n].fields[j]
               type == field.type
           IN  /\ field \in JsonFields
               /\ struct_field_type(p) = TypeEnum(type)
               /\ get_struct_field_typename(p) = type.base
               /\ get_struct_field_keyname(p) = field.name
               /\ struct_field_has_typesize(p) <=> TypeSize(type) # NULL
               /\ TypeSize(type) # NULL => get_struct_field_typesize(p) = TypeSize(type)
               /\ Levels(p) = type.levels
  <1> DEFINE p == FieldPtr(StructPtr[n])[j]
             field == s[n].fields[j]
             type == field.type
  <1>1. field \in JsonFields
    BY StructPlace
  <1>2. DecodedField(p) = Meaning(field) /\ SizeRead(p)
    BY DEF Understood, Reads
  <1> HIDE DEF p
  <1>3. /\ DecodedField(p).type = struct_field_type(p)
        /\ DecodedField(p).typename = get_struct_field_typename(p)
        /\ DecodedField(p).keyname = get_struct_field_keyname(p)
        /\ DecodedField(p).typesize =
               (IF struct_field_has_typesize(p) THEN get_struct_field_typesize(p) ELSE NULL)
    BY DEF DecodedField
  <1>4. DecodedField(p).lvls = Levels(p)
    BY DEF DecodedField, Levels
  <1>5. /\ Meaning(field).type = TypeEnum(type) /\ Meaning(field).typename = type.base
        /\ Meaning(field).keyname = field.name /\ Meaning(field).typesize = TypeSize(type)
        /\ Meaning(field).lvls = type.levels
    BY DEF Meaning
  <1> QED
    BY <1>1, <1>2, <1>3, <1>4, <1>5 DEF SizeRead, p

(* A field of a struct, or of a native type with the number it has.        *)
LEMMA PlainField ==
    ASSUME NEW s, Understood(s), NEW n \in 1..Len(s), NEW j \in 1..Len(s[n].fields)
    PROVE  LET type == s[n].fields[j].type
               p == FieldPtr(StructPtr[n])[j]
           IN  /\ TypeEnum(type) = TYPE_CUSTOM <=> BaseName(type) \in StructsOf(s)
               /\ TypeEnum(type) = TYPE_CUSTOM => BaseName(type) = type.base
               /\ struct_field_has_typesize(p) <=> type.number # NULL
               /\ type.number # NULL => /\ type.number \in Nat /\ type.number <= 2040
                                        /\ FieldSize(p) = type.number
  <1> DEFINE type == s[n].fields[j].type
             p == FieldPtr(StructPtr[n])[j]
             e == TypeEnum(type)
  <1>1. /\ s[n].fields[j] \in JsonFields /\ struct_field_type(p) = e
        /\ struct_field_has_typesize(p) <=> TypeSize(type) # NULL
        /\ TypeSize(type) # NULL => get_struct_field_typesize(p) = TypeSize(type)
    BY FieldPlace
  <1>2. type.base \in Seq(Byte) /\ TypeSize(type) \in Byte \cup {NULL}
    BY <1>1, FieldSendable DEF Sendable
  <1>3. n \in DOMAIN s /\ j \in DOMAIN s[n].fields
    <2>1. s \in Seq(JsonStruct) /\ s[n].fields \in Seq(JsonFields)
      BY StructPlace DEF Understood
    <2> QED
      BY <2>1
  <1>4. /\ e = TYPE_CUSTOM => type.base \in StructsOf(s) /\ type.number = NULL
        /\ e # TYPE_CUSTOM => BaseName(type) \notin StructsOf(s)
        /\ e \in {TYPE_SOL_INT, TYPE_SOL_UINT} => type.number \in Nat /\ type.number % 8 = 0
        /\ e \notin {TYPE_CUSTOM, TYPE_SOL_INT, TYPE_SOL_UINT, TYPE_SOL_BYTES_FIX} => type.number = NULL
    <2>1. (CASE e = TYPE_CUSTOM ->
                     type.base \in StructsOf(s) /\ type.number = NULL
             [] e \in {TYPE_SOL_INT, TYPE_SOL_UINT} ->
                     BaseName(type) \notin StructsOf(s) /\ type.number \in Nat /\ type.number % 8 = 0
             [] e = TYPE_SOL_BYTES_FIX ->
                     BaseName(type) \notin StructsOf(s)
             [] OTHER ->
                     BaseName(type) \notin StructsOf(s) /\ type.number = NULL)
      BY <1>3 DEF Understood, Plain
    <2> HIDE DEF e, type
    <2>2. /\ TYPE_CUSTOM \notin {TYPE_SOL_INT, TYPE_SOL_UINT} /\ TYPE_CUSTOM # TYPE_SOL_BYTES_FIX
          /\ TYPE_SOL_BYTES_FIX \notin {TYPE_SOL_INT, TYPE_SOL_UINT}
      BY DEF TYPE_CUSTOM, TYPE_SOL_INT, TYPE_SOL_UINT, TYPE_SOL_BYTES_FIX
    <2> QED
      BY <2>1, <2>2
  <1> HIDE DEF p, type
  <1>5. CASE e = TYPE_CUSTOM
    <2>1. type.base \in StructsOf(s) /\ type.number = NULL
      BY <1>4, <1>5 DEF TYPE_CUSTOM, TYPE_SOL_INT, TYPE_SOL_UINT, TYPE_SOL_BYTES_FIX
    <2>2. BaseName(type) = type.base
      <3>1. type.base \o << >> = type.base
        BY <1>2
      <3> QED
        BY <2>1, <3>1 DEF BaseName
    <2>3. TypeSize(type) = NULL
      BY <1>5, SizeOnlyNative
    <2> QED
      BY <1>1, <1>5, <2>1, <2>2, <2>3 DEF p, type
  <1>6. CASE e \in {TYPE_SOL_INT, TYPE_SOL_UINT}
    <2>1. e # TYPE_CUSTOM
      BY <1>6 DEF TYPE_CUSTOM, TYPE_SOL_INT, TYPE_SOL_UINT
    <2>2. BaseName(type) \notin StructsOf(s) /\ type.number \in Nat /\ type.number % 8 = 0
      BY <1>4, <1>6, <2>1 DEF TYPE_CUSTOM, TYPE_SOL_INT, TYPE_SOL_UINT, TYPE_SOL_BYTES_FIX
    <2>3. TypeSize(type) = type.number \div 8
      <3>1. TypeEnum(type) # TYPE_SOL_BYTES_FIX
        BY <1>6 DEF TYPE_SOL_BYTES_FIX, TYPE_SOL_INT, TYPE_SOL_UINT
      <3> QED
        BY <1>6, <3>1 DEF TypeSize
    <2> DEFINE number == type.number
    <2>4. number \in Nat /\ number % 8 = 0
      BY <2>2
    <2>5. TypeSize(type) = number \div 8
      BY <2>3
    <2> HIDE DEF number
    <2>6. number \div 8 \in Nat /\ 8 * (number \div 8) = number
      BY <2>4
    <2>7. TypeSize(type) # NULL
      BY <2>5, <2>6, StructDefsAssumption
    <2>8. number \div 8 \in Byte
      BY <1>2, <2>5, <2>7
    <2>9. number <= 2040
      BY <2>4, <2>6, <2>8 DEF Byte
    <2>10. FieldSize(p) = 8 * (number \div 8)
      BY <1>1, <1>6, <2>5, <2>7 DEF FieldSize
    <2>11. FieldSize(p) = number /\ number # NULL
      BY <2>4, <2>6, <2>10, StructDefsAssumption
    <2> QED
      BY <1>1, <2>1, <2>2, <2>7, <2>9, <2>11 DEF p, type, number
  <1>7. CASE e = TYPE_SOL_BYTES_FIX
    <2>1. e # TYPE_CUSTOM /\ e \notin {TYPE_SOL_INT, TYPE_SOL_UINT} /\ e = 6
      BY <1>7 DEF TYPE_CUSTOM, TYPE_SOL_INT, TYPE_SOL_UINT, TYPE_SOL_BYTES_FIX
    <2>2. BaseName(type) \notin StructsOf(s)
      BY <1>4, <1>7, <2>1
    <2>3. type.base \in NATIVE /\ typenames[6] = type.base
      BY <2>1, TypeEnumType
    <2>4. type.number # NULL
      <3>1. TypeEnum(type) # 7
        BY <2>1
      <3> QED
        BY <2>3, <3>1 DEF TypeEnum, TYPE_SOL_BYTES_DYN
    <2>5. TypeSize(type) = type.number
      BY <1>7, <2>1 DEF TypeSize
    <2>6. type.number \in Byte
      BY <1>2, <2>4, <2>5
    <2>7. type.number \in Nat /\ type.number <= 2040
      <3>1. \A b \in Byte : b \in Nat /\ b <= 2040
        BY DEF Byte
      <3> QED
        BY <2>6, <3>1
    <2>8. FieldSize(p) = type.number
      BY <1>1, <2>1, <2>4, <2>5 DEF FieldSize
    <2> QED
      BY <1>1, <2>1, <2>2, <2>4, <2>5, <2>7, <2>8 DEF p, type
  <1>8. CASE e # TYPE_CUSTOM /\ e \notin {TYPE_SOL_INT, TYPE_SOL_UINT} /\ e # TYPE_SOL_BYTES_FIX
    <2>1. BaseName(type) \notin StructsOf(s) /\ type.number = NULL
      BY <1>4, <1>8
    <2>2. TypeSize(type) = NULL
      BY <1>8 DEF TypeSize
    <2> QED
      BY <1>1, <1>8, <2>1, <2>2 DEF p, type
  <1> QED
    BY <1>5, <1>6, <1>7, <1>8

LEMMA LevelSmall ==
    ASSUME NEW levels \in Seq(Byte \cup {NULL})
    PROVE  \A i \in DOMAIN levels : levels[i] # NULL =>
               levels[i] \in Nat /\ levels[i] <= 2040 /\ DigitsOf[levels[i]] = Decimal(levels[i])
  <1> SUFFICES ASSUME NEW i \in DOMAIN levels, levels[i] # NULL
               PROVE  /\ levels[i] \in Nat /\ levels[i] <= 2040
                      /\ DigitsOf[levels[i]] = Decimal(levels[i])
    OBVIOUS
  <1>1. levels[i] \in Byte
    OBVIOUS
  <1>2. \A b \in Byte : b \in Nat /\ b <= 2040 /\ b <= 9999
    BY DEF Byte
  <1> QED
    BY <1>1, <1>2, DigitsAreDecimal

LEMMA LevelsShort ==
    ASSUME NEW levels \in Seq(Byte \cup {NULL}), NEW x \in ToSet(levels), x # NULL
    PROVE  x \in Nat /\ x <= 2040
  BY LevelSmall DEF ToSet

LevelString(levels) ==
    FlattenSeq([i \in DOMAIN levels |->
        <<91>> \o (IF levels[i] = NULL THEN << >> ELSE Decimal(levels[i])) \o <<93>>])

LEMMA LevelsAlike ==
    ASSUME NEW levels \in Seq(Byte \cup {NULL})
    PROVE  LevelsText(levels) = LevelString(levels)
  <1>1. \A i \in DOMAIN levels :
            (IF levels[i] = NULL THEN << >> ELSE DigitsOf[levels[i]])
            = (IF levels[i] = NULL THEN << >> ELSE Decimal(levels[i]))
    BY LevelSmall
  <1>2. [n \in DOMAIN levels |->
            <<91>> \o (IF levels[n] = NULL THEN << >> ELSE DigitsOf[levels[n]]) \o <<93>>]
      = [i \in DOMAIN levels |->
            <<91>> \o (IF levels[i] = NULL THEN << >> ELSE Decimal(levels[i])) \o <<93>>]
    BY <1>1, Zenon
  <1> QED
    BY <1>2, Zenon DEF LevelsText, LevelString

(* encode_and_hash_field() writes the field as encodeType() does.          *)
LEMMA FieldAlike ==
    ASSUME NEW s, Understood(s), NEW n \in 1..Len(s), NEW j \in 1..Len(s[n].fields)
    PROVE  LET p == FieldPtr(StructPtr[n])[j]
               field == s[n].fields[j]
           IN  FieldText(p) = TypeString(field.type) \o <<32>> \o field.name
  <1> DEFINE p == FieldPtr(StructPtr[n])[j]
             field == s[n].fields[j]
             type == field.type
  <1>1. /\ field \in JsonFields /\ get_struct_field_typename(p) = type.base
        /\ get_struct_field_keyname(p) = field.name /\ Levels(p) = type.levels
    BY FieldPlace
  <1>2. /\ struct_field_has_typesize(p) <=> type.number # NULL
        /\ type.number # NULL => /\ type.number \in Nat /\ type.number <= 2040
                                 /\ FieldSize(p) = type.number
    BY PlainField
  <1>3. type.levels \in Seq(Byte \cup {NULL})
    BY <1>1, FieldSendable DEF Sendable
  <1> HIDE DEF p, field
  <1>4. (IF struct_field_has_typesize(p) THEN DigitsOf[FieldSize(p)] ELSE << >>)
        = (IF type.number = NULL THEN << >> ELSE Decimal(type.number))
    <2>1. ASSUME type.number # NULL PROVE DigitsOf[FieldSize(p)] = Decimal(type.number)
      <3>1. \A x \in Nat : x <= 2040 => x <= 9999
        OBVIOUS
      <3> QED
        BY <1>2, <2>1, <3>1, DigitsAreDecimal
    <2>2. CASE type.number = NULL
      BY <1>2, <2>2
    <2>3. CASE type.number # NULL
      BY <1>2, <2>1, <2>3
    <2> QED
      BY <2>2, <2>3
  <1>5. get_struct_field_typename(p)
            \o (IF struct_field_has_typesize(p) THEN DigitsOf[FieldSize(p)] ELSE << >>)
        = BaseName(type)
    BY <1>1, <1>4, Zenon DEF BaseName
  <1>6. BaseName(type) \o LevelsText(type.levels) = TypeString(type)
    BY <1>3, LevelsAlike DEF TypeString, LevelString
  <1>7. FieldText(p) = TypeString(type) \o <<32>> \o field.name
    BY <1>1, <1>5, <1>6, Zenon DEF FieldText
  <1> QED
    BY <1>7 DEF p, field

(* encode_and_hash_type() writes the struct as encodeType() does.          *)
LEMMA StructAlike ==
    ASSUME NEW s, Understood(s), NEW n \in 1..Len(s)
    PROVE  StructText(StructPtr[n]) = StructString(s, s[n].name)
  <1> DEFINE p == StructPtr[n]
             name == s[n].name
             fields == s[n].fields
  <1>1. /\ get_struct_name(p) = name /\ FieldsCount(p) = Len(fields)
        /\ FieldsOf(s, name) = fields /\ fields \in Seq(JsonFields)
    BY StructPlace
  <1>2. DOMAIN fields = 1..Len(fields)
    BY <1>1
  <1>3. \A j \in 1..Len(fields) :
            FieldText(FieldPtr(p)[j]) = TypeString(fields[j].type) \o <<32>> \o fields[j].name
    BY FieldAlike
  <1> HIDE DEF p, name, fields
  <1> DEFINE read(j) == (IF j = 1 THEN << >> ELSE <<44>>) \o FieldText(FieldPtr(p)[j])
             sent(i) == (IF i = 1 THEN << >> ELSE <<44>>)
                        \o (TypeString(fields[i].type) \o <<32>> \o fields[i].name)
  <1>6. \A j \in DOMAIN fields : read(j) = sent(j)
    BY <1>2, <1>3, Zenon
  <1>7. 1..FieldsCount(p) = DOMAIN fields
    BY <1>1, <1>2
  <1> HIDE DEF read, sent
  <1>8. [j \in 1..FieldsCount(p) |-> read(j)] = [i \in DOMAIN fields |-> sent(i)]
    BY <1>6, <1>7
  <1>4. [j \in 1..FieldsCount(p) |->
             (IF j = 1 THEN << >> ELSE <<44>>) \o FieldText(FieldPtr(p)[j])]
        = [i \in DOMAIN fields |->
             (IF i = 1 THEN << >> ELSE <<44>>)
             \o (TypeString(fields[i].type) \o <<32>> \o fields[i].name)]
    BY <1>8, ZenonT(30) DEF read, sent
  <1>5. StructText(p) = StructString(s, name)
    BY <1>1, <1>4, Zenon DEF StructText, StructString
  <1> QED
    BY <1>5 DEF p, name

(* The numbers written have at most four digits.                           *)
LEMMA FormattedShort ==
    ASSUME NEW s, Understood(s), NEW n \in 1..Len(s), NEW x \in Formatted(StructPtr[n])
    PROVE  x \in Nat /\ x <= 2040 /\ Len(DigitsOf[x]) \in 1..4
  <1> DEFINE p == StructPtr[n]
             fields == {FieldPtr(p)[j] : j \in 1..FieldsCount(p)}
  <1>1. FieldsCount(p) = Len(s[n].fields)
    BY StructPlace
  <1>2. ASSUME NEW j \in 1..Len(s[n].fields), struct_field_has_typesize(FieldPtr(p)[j]),
               x = FieldSize(FieldPtr(p)[j])
        PROVE  x \in Nat /\ x <= 2040
    BY <1>2, PlainField
  <1>3. ASSUME NEW j \in 1..Len(s[n].fields), x \in ToSet(Levels(FieldPtr(p)[j])), x # NULL
        PROVE  x \in Nat /\ x <= 2040
    <2>1. s[n].fields[j] \in JsonFields /\ Levels(FieldPtr(p)[j]) = s[n].fields[j].type.levels
      BY FieldPlace
    <2>2. s[n].fields[j].type.levels \in Seq(Byte \cup {NULL})
      BY <2>1, FieldSendable DEF Sendable
    <2>3. x \in ToSet(s[n].fields[j].type.levels) /\ x # NULL
      BY <1>3, <2>1, Zenon
    <2> QED
      BY <2>2, <2>3, LevelsShort
  <1>4. \/ \E f \in fields : struct_field_has_typesize(f) /\ x = FieldSize(f)
        \/ \E f \in fields : x \in ToSet(Levels(f)) /\ x # NULL
    <2>1. Formatted(p) = {FieldSize(f) : f \in {g \in fields : struct_field_has_typesize(g)}}
                         \cup ((UNION {ToSet(Levels(f)) : f \in fields}) \ {NULL})
      BY Zenon DEF Formatted
    <2> HIDE DEF p, fields
    <2>2. x \in Formatted(p)
      BY DEF p
    <2>3. \/ x \in {FieldSize(f) : f \in {g \in fields : struct_field_has_typesize(g)}}
          \/ x \in (UNION {ToSet(Levels(f)) : f \in fields}) \ {NULL}
      BY <2>1, <2>2, Zenon
    <2>4. ASSUME x \in {FieldSize(f) : f \in {g \in fields : struct_field_has_typesize(g)}}
          PROVE  \E f \in fields : struct_field_has_typesize(f) /\ x = FieldSize(f)
      BY <2>4, Zenon
    <2>5. ASSUME x \in (UNION {ToSet(Levels(f)) : f \in fields}) \ {NULL}
          PROVE  \E f \in fields : x \in ToSet(Levels(f)) /\ x # NULL
      <3>1. x \in UNION {ToSet(Levels(f)) : f \in fields} /\ x # NULL
        BY <2>5, Zenon
      <3>2. PICK some \in {ToSet(Levels(f)) : f \in fields} : x \in some
        BY <3>1, Zenon
      <3> QED
        BY <3>1, <3>2, Zenon
    <2> QED
      BY <2>3, <2>4, <2>5
  <1>5. x \in Nat /\ x <= 2040
    BY <1>1, <1>2, <1>3, <1>4
  <1>6. x <= 9999
    BY <1>5
  <1> QED
    BY <1>5, <1>6, DigitsAreDecimal

(* A field that is of a struct, and where the struct is.                   *)
IsStruct(p, j) == struct_field_type(FieldPtr(p)[j]) = TYPE_CUSTOM

Target(p, j) == get_structn(get_struct_field_typename(FieldPtr(p)[j]))

LEMMA TargetPlace ==
    ASSUME NEW s, Understood(s), NEW n \in 1..Len(s), NEW j \in 1..FieldsCount(StructPtr[n]),
           IsStruct(StructPtr[n], j)
    PROVE  \E m \in 1..Len(s) : /\ Target(StructPtr[n], j) = StructPtr[m]
                                /\ s[m].name \in UsedBy(s, s[n].name)
  <1> DEFINE type == s[n].fields[j].type
  <1>1. /\ j \in 1..Len(s[n].fields) /\ FieldsOf(s, s[n].name) = s[n].fields
        /\ s[n].fields \in Seq(JsonFields)
    BY StructPlace
  <1>2. TypeEnum(type) = TYPE_CUSTOM /\ get_struct_field_typename(FieldPtr(StructPtr[n])[j]) = type.base
    BY <1>1, FieldPlace DEF IsStruct
  <1>3. BaseName(type) \in StructsOf(s) /\ BaseName(type) = type.base
    BY <1>1, <1>2, PlainField
  <1>4. PICK m \in DOMAIN s : type.base = s[m].name
    BY <1>3 DEF StructsOf
  <1>5. m \in 1..Len(s) /\ j \in DOMAIN s[n].fields
    BY <1>1 DEF Understood
  <1>6. Target(StructPtr[n], j) = StructPtr[m]
    BY <1>2, <1>4, <1>5, StructPlace DEF Target
  <1>7. s[m].name \in UsedBy(s, s[n].name)
    BY <1>1, <1>3, <1>4, <1>5 DEF UsedBy
  <1> QED
    BY <1>5, <1>6, <1>7

LEMMA UsedIsTarget ==
    ASSUME NEW s, Understood(s), NEW n \in 1..Len(s), NEW used \in UsedBy(s, s[n].name)
    PROVE  \E j \in 1..FieldsCount(StructPtr[n]) :
               IsStruct(StructPtr[n], j) /\ Target(StructPtr[n], j) = get_structn(used)
  <1>1. /\ FieldsCount(StructPtr[n]) = Len(s[n].fields) /\ FieldsOf(s, s[n].name) = s[n].fields
        /\ s[n].fields \in Seq(JsonFields)
    BY StructPlace
  <1>2. PICK j \in DOMAIN s[n].fields : used = BaseName(s[n].fields[j].type)
    BY <1>1 DEF UsedBy
  <1>3. used \in StructsOf(s) /\ j \in 1..Len(s[n].fields)
    BY <1>1 DEF UsedBy
  <1>4. TypeEnum(s[n].fields[j].type) = TYPE_CUSTOM /\ used = s[n].fields[j].type.base
    BY <1>2, <1>3, PlainField, SMTT(30)
  <1>5. IsStruct(StructPtr[n], j) /\ Target(StructPtr[n], j) = get_structn(used)
    BY <1>3, <1>4, FieldPlace DEF IsStruct, Target
  <1> QED
    BY <1>1, <1>3, <1>5

-----------------------------------------------------------------------------

(***************************************************************************)
(* The walk.                                                               *)
(***************************************************************************)
LEMMA PointerPlace ==
    ASSUME NEW s, Understood(s), NEW p \in Pointers
    PROVE  \E n \in 1..Len(s) : p = StructPtr[n]
  BY DEF Understood, Reads, Pointers

(* There is a place in memory for every struct that is listed.             *)
LEMMA ListShort ==
    ASSUME NEW s, Understood(s), NEW list, Listing(list)
    PROVE  Len(list) \in Nat /\ Len(list) <= Len(s)
  <1> DEFINE k == Len(list)
             place == [i \in 1..k |-> CHOOSE n \in 1..Len(s) : list[i] = StructPtr[n]]
  <1>1. list \in Seq(Pointers) /\ Len(s) \in Nat
    BY DEF Listing, Understood
  <1> HIDE DEF Pointers
  <1>2. k \in Nat /\ \A i \in 1..k : list[i] \in Pointers
    BY <1>1
  <1>3. \A i \in 1..k : place[i] \in 1..Len(s) /\ list[i] = StructPtr[place[i]]
    <2> TAKE i \in 1..k
    <2>1. \E n \in 1..Len(s) : list[i] = StructPtr[n]
      BY <1>2, PointerPlace
    <2> QED
      BY <2>1
  <1>4. place \in [1..k -> 1..Len(s)]
    BY <1>3
  <1> HIDE DEF place
  <1>5. \A i, j \in 1..k : place[i] = place[j] => i = j
    BY <1>3 DEF Listing
  <1> HIDE DEF k
  <1>6. place \in Injection(1..k, 1..Len(s))
    BY <1>4, <1>5 DEF Injection, IsInjective
  <1>7. /\ IsFiniteSet(1..Len(s)) /\ Cardinality(1..Len(s)) = Len(s) /\ Cardinality(1..k) = k
    <2> SUFFICES ASSUME NEW n \in Nat PROVE IsFiniteSet(1..n) /\ Cardinality(1..n) = n
      BY <1>1, <1>2
    <2>1. 1 \in Int /\ n \in Int
      OBVIOUS
    <2>2. IsFiniteSet(1..n) /\ Cardinality(1..n) = IF 1 > n THEN 0 ELSE n - 1 + 1
      BY <2>1, FS_Interval
    <2>3. (IF 1 > n THEN 0 ELSE n - 1 + 1) = n
      OBVIOUS
    <2> QED
      BY <2>2, <2>3
  <1>8. Cardinality(1..k) <= Cardinality(1..Len(s))
    BY <1>6, <1>7, FS_Injection
  <1> QED
    BY <1>2, <1>7, <1>8 DEF k

(* The struct itself, and those in the list: their fields are looked at.   *)
Owner(root, list, p) == p = get_structn(root) \/ Listed(p, list)

(* The structs listed are among those that the root reaches, and of every  *)
(* struct the fields that are structs are listed, or still ahead of a call.*)
Walk(s, root, list, calls) ==
    /\ \A i \in 1..Len(list) : get_struct_name(list[i]) \in Reached(s, UsedBy(s, root))
    /\ \A i \in 1..Len(calls) : calls[i].field # 0 /\ Owner(root, list, calls[i].struct)
    /\ \A p \in Pointers : Owner(root, list, p) =>
        \A j \in 1..FieldsCount(p) : IsStruct(p, j) =>
            \/ Listed(Target(p, j), list)
            \/ \E i \in 1..Len(calls) : calls[i].struct = p /\ calls[i].field <= j

LEMMA WalkStep ==
    ASSUME NEW s, NEW root, NEW list, NEW calls, Walk(s, root, list, calls), NEW more, NEW next,
           \A i \in 1..Len(more) : get_struct_name(more[i]) \in Reached(s, UsedBy(s, root)),
           \A p : Listed(p, list) => Listed(p, more),
           \A i \in 1..Len(next) : next[i].field # 0 /\ Owner(root, more, next[i].struct),
           \A p \in Pointers : Listed(p, more) =>
               \/ Listed(p, list)
               \/ \E i \in 1..Len(next) : next[i].struct = p /\ next[i].field = 1,
           \A i \in 1..Len(calls) : \A j \in 1..FieldsCount(calls[i].struct) :
               calls[i].field <= j /\ IsStruct(calls[i].struct, j) =>
                   \/ Listed(Target(calls[i].struct, j), more)
                   \/ \E k \in 1..Len(next) : next[k].struct = calls[i].struct /\ next[k].field <= j
    PROVE  Walk(s, root, more, next)
  <1>1. ASSUME NEW p \in Pointers, Owner(root, more, p), NEW j \in 1..FieldsCount(p), IsStruct(p, j)
        PROVE  \/ Listed(Target(p, j), more)
               \/ \E i \in 1..Len(next) : next[i].struct = p /\ next[i].field <= j
    <2>1. CASE Owner(root, list, p)
      <3>1. \/ Listed(Target(p, j), list)
            \/ \E i \in 1..Len(calls) : calls[i].struct = p /\ calls[i].field <= j
        BY <1>1, <2>1 DEF Walk
      <3> QED
        BY <1>1, <3>1
    <2>2. CASE ~Owner(root, list, p)
      <3>1. Listed(p, more) /\ ~Listed(p, list)
        BY <1>1, <2>2 DEF Owner
      <3>2. PICK i \in 1..Len(next) : next[i].struct = p /\ next[i].field = 1
        BY <3>1
      <3>3. next[i].field <= j
        BY <3>2
      <3> QED
        BY <3>2, <3>3
    <2> QED
      BY <2>1, <2>2
  <1> QED
    BY <1>1 DEF Walk

(* What an owner's field is of is reached.                                 *)
LEMMA OwnerReaches ==
    ASSUME NEW s, Understood(s), NEW root \in StructsOf(s), NEW list,
           \A i \in 1..Len(list) : get_struct_name(list[i]) \in Reached(s, UsedBy(s, root)),
           list \in Seq(Pointers),
           NEW p \in Pointers, Owner(root, list, p), NEW j \in 1..FieldsCount(p), IsStruct(p, j)
    PROVE  /\ Target(p, j) \in Pointers /\ Target(p, j) # NULL
           /\ get_struct_name(Target(p, j)) \in Reached(s, UsedBy(s, root))
  <1> DEFINE R == Reached(s, UsedBy(s, root))
  <1>1. UsedBy(s, root) \subseteq R /\ Closed(s, R)
    <2>1. UsedBy(s, root) \subseteq StructsOf(s)
      BY DEF UsedBy
    <2> QED
      BY <2>1, ReachedLeast
  <1> HIDE DEF R
  <1>2. PICK n \in 1..Len(s) : p = StructPtr[n]
    BY PointerPlace
  <1>3. PICK m \in 1..Len(s) : Target(p, j) = StructPtr[m] /\ s[m].name \in UsedBy(s, s[n].name)
    BY <1>2, TargetPlace
  <1>4. s[n].name = root \/ s[n].name \in R
    <2>1. CASE p = get_structn(root)
      <3>1. PICK r \in 1..Len(s) : root = s[r].name
        BY DEF StructsOf, Understood
      <3>2. get_structn(root) = StructPtr[r] /\ get_struct_name(StructPtr[r]) = root
        BY <3>1, StructPlace
      <3> QED
        BY <1>2, <2>1, <3>2, StructPlace
    <2>2. CASE Listed(p, list)
      <3>1. PICK i \in DOMAIN list : list[i] = p
        BY <2>2 DEF Listed
      <3>2. i \in 1..Len(list)
        BY <3>1
      <3>3. get_struct_name(p) \in R
        BY <3>1, <3>2 DEF R
      <3> QED
        BY <1>2, <3>3, StructPlace
    <2> QED
      BY <2>1, <2>2 DEF Owner
  <1>5. s[m].name \in R
    BY <1>1, <1>3, <1>4 DEF Closed
  <1>6. StructPtr[m] # NULL /\ get_struct_name(StructPtr[m]) = s[m].name
    BY StructPlace
  <1>7. StructPtr[m] \in Pointers
    BY DEF Pointers, Understood, Reads
  <1> QED
    BY <1>3, <1>5, <1>6, <1>7 DEF R

(* Once no call is left, the list is what the root reaches.                *)
LEMMA WalkEnds ==
    ASSUME NEW s, Understood(s), NEW root \in StructsOf(s), NEW list, Listing(list),
           Walk(s, root, list, << >>)
    PROVE  {get_struct_name(list[i]) : i \in 1..Len(list)} = Reached(s, UsedBy(s, root))
  <1> DEFINE N == {get_struct_name(list[i]) : i \in 1..Len(list)}
             U == UsedBy(s, root)
             R == Reached(s, U)
  <1>1. U \subseteq StructsOf(s)
    BY DEF UsedBy
  <1>2. R \subseteq StructsOf(s) /\ \A C \in SUBSET StructsOf(s) : U \subseteq C /\ Closed(s, C) => R \subseteq C
    BY <1>1, ReachedLeast
  <1>3. N \subseteq R
    BY DEF Walk
  <1>4. ASSUME NEW n \in 1..Len(s), Owner(root, list, StructPtr[n]), NEW used \in UsedBy(s, s[n].name)
        PROVE  used \in N
    <2> DEFINE p == StructPtr[n]
    <2>1. PICK j \in 1..FieldsCount(p) : IsStruct(p, j) /\ Target(p, j) = get_structn(used)
      BY <1>4, UsedIsTarget
    <2>2. p \in Pointers
      BY DEF Pointers, Understood, Reads
    <2>3. 1..Len(<< >>) = {}
      OBVIOUS
    <2>4. Listed(Target(p, j), list)
      BY <1>4, <2>1, <2>2, <2>3 DEF Walk
    <2>5. PICK m \in 1..Len(s) : used = s[m].name
      BY <1>4 DEF UsedBy, StructsOf, Understood
    <2>6. get_struct_name(get_structn(used)) = used
      BY <2>5, StructPlace
    <2>7. PICK i \in DOMAIN list : list[i] = get_structn(used)
      BY <2>1, <2>4 DEF Listed
    <2>8. i \in 1..Len(list)
      BY <2>7 DEF Listing
    <2> QED
      BY <2>6, <2>7, <2>8
  <1>5. U \subseteq N
    <2>1. PICK r \in 1..Len(s) : root = s[r].name
      BY DEF StructsOf, Understood
    <2>2. get_structn(root) = StructPtr[r]
      BY <2>1, StructPlace
    <2> QED
      BY <1>4, <2>1, <2>2 DEF Owner
  <1>6. Closed(s, N)
    <2> SUFFICES ASSUME NEW a \in N, NEW used \in UsedBy(s, a) PROVE used \in N
      BY DEF Closed
    <2>1. PICK i \in 1..Len(list) : a = get_struct_name(list[i])
      OBVIOUS
    <2>2. list[i] \in Pointers /\ Listed(list[i], list)
      BY DEF Listing, Listed, Found
    <2>3. PICK n \in 1..Len(s) : list[i] = StructPtr[n]
      BY <2>2, PointerPlace
    <2>4. a = s[n].name
      BY <2>1, <2>3, StructPlace
    <2> QED
      BY <1>4, <2>2, <2>3, <2>4 DEF Owner
  <1> QED
    BY <1>2, <1>3, <1>5, <1>6

-----------------------------------------------------------------------------

(***************************************************************************)
(* The steps of type_hash().                                               *)
(***************************************************************************)
Texts(s, root, list, txt) ==
    \A k \in 1..Len(txt) :
        txt[k] = StructString(s, IF k = 1 THEN root ELSE get_struct_name(list[k - 1]))

TextInv ==
    /\ ToldRead
    /\ Busy => call.name \in StructsOf(schema)
    /\ Busy /\ Roomy => /\ Walk(schema, call.name, deps, frames)
                        /\ Texts(schema, call.name, deps, text)
    /\ TextIsEncodeType

LEMMA WalkSame ==
    ASSUME mem' = mem
    PROVE  /\ \A s, root, list, calls : Walk(s, root, list, calls)' = Walk(s, root, list, calls)
           /\ \A s, root, list, txt : Texts(s, root, list, txt)' = Texts(s, root, list, txt)
  <1>1. /\ Pointers' = Pointers
        /\ \A p : get_struct_name(p)' = get_struct_name(p)
        /\ \A name : get_structn(name)' = get_structn(name)
    BY ReadSame
  <1>2. /\ \A p : FieldsCount(p)' = FieldsCount(p)
        /\ \A p, j : IsStruct(p, j)' = IsStruct(p, j) /\ Target(p, j)' = Target(p, j)
    BY <1>1, FieldReadSame DEF IsStruct, Target
  <1>3. \A p, root, list : Owner(root, list, p)' = Owner(root, list, p)
    BY <1>1 DEF Owner
  <1>4. \A s, root, list, calls : Walk(s, root, list, calls)' = Walk(s, root, list, calls)
    BY <1>1, <1>2, <1>3 DEF Walk
  <1>5. \A s, root, list, txt : Texts(s, root, list, txt)' = Texts(s, root, list, txt)
    BY <1>1 DEF Texts
  <1> QED
    BY <1>4, <1>5

LEMMA SchemaUnderstood ==
    ASSUME \A s \in Schemas : Plain(s), EncInv, TextInv, Busy
    PROVE  /\ Understood(schema) /\ Len(schema) \in Nat
           /\ call.name \in StructsOf(schema) /\ Listing(deps)
  <1>1. schema \in Schemas /\ schema \in Seq(JsonStruct) /\ Len(schema) \in Nat
    BY SchemaType DEF EncInv, ToldInv
  <1>2. Reads(schema)
    BY BusyFacts DEF TextInv, ToldRead
  <1> QED
    BY <1>1, <1>2, BusyFacts DEF Understood, TextInv

(* A step of type_hash() that goes on for the same struct.                 *)
LEMMA CallGoesOn ==
    ASSUME EncInv, TextInv, Busy, UNCHANGED <<mem, intact, defined, schema, told>>,
           call'.name = call.name, call'.from = call.from,
           Busy' /\ Roomy => /\ Walk(schema, call.name, deps', frames')
                             /\ Texts(schema, call.name, deps', text'),
           call'.at = "done" /\ Roomy /\ ~Recursive(schema, call.name) =>
               call'.result = "hash" /\ FlattenSeq(text') = EncodeType(schema, call.name)
    PROVE  TextInv'
  <1>1. ToldRead'
    BY ToldReadSame DEF TextInv
  <1>2. Roomy' <=> Roomy
    BY DEF Roomy, CanAlloc
  <1>3. Busy' => call'.name \in StructsOf(schema')
    BY DEF TextInv
  <1>4. ASSUME Busy', Roomy'
        PROVE  /\ Walk(schema, call.name, deps, frames)'
               /\ Texts(schema, call.name, deps, text)'
    <2>1. /\ Walk(schema', call'.name, deps', frames')
          /\ Texts(schema', call'.name, deps', text')
      BY <1>2, <1>4
    <2> QED
      BY <2>1, WalkSame
  <1>5. TextIsEncodeType'
    BY <1>2 DEF TextIsEncodeType
  <1> QED
    BY <1>1, <1>3, <1>4, <1>5 DEF TextInv

(* Before the call there is nothing to say.                                *)
LEMMA NoCallStep ==
    ASSUME ToldRead', call' = NoCall
    PROVE  TextInv'
  <1>1. call'.at = "none"
    BY DEF NoCall
  <1> QED
    BY <1>1 DEF TextInv, Busy, TextIsEncodeType

LEMMA TextCallStep ==
    ASSUME EncInv, TextInv, NEW i \in DOMAIN schema, type_hash(schema[i].name)
    PROVE  TextInv'
  <1> DEFINE name == schema[i].name
             p == get_structn(name)
             calls == <<[struct |-> p, field |-> 1]>>
  <1>1. deps = << >> /\ text = << >>
    BY DEF EncInv, CallInv, type_hash, NoCall
  <1>2. /\ call' = [NoCall EXCEPT !.at = "collect", !.name = name, !.from = mem_idx]
        /\ frames' = calls
        /\ UNCHANGED <<mem, intact, defined, schema, told, deps, text>>
    BY DEF type_hash, vars, defVars
  <1>3. call'.at = "collect" /\ call'.name = name
    BY <1>2 DEF NoCall
  <1>4. name \in StructsOf(schema)
    BY DEF StructsOf
  <1>5. ToldRead'
    BY <1>2, ToldReadSame DEF TextInv
  <1>6. Walk(schema, name, << >>, calls) /\ Texts(schema, name, << >>, << >>)
    <2>1. Len(calls) = 1 /\ calls[1].struct = p /\ calls[1].field = 1
      OBVIOUS
    <2>2. Len(<< >>) = 0 /\ 1..0 = {}
      OBVIOUS
    <2>3. \A q : Owner(name, << >>, q) <=> q = p
      BY DEF Owner, Listed
    <2> HIDE DEF calls, p
    <2>4. \A k \in 1..Len(calls) : k = 1
      BY <2>1
    <2>5. \A q \in Pointers : Owner(name, << >>, q) =>
              \A j \in 1..FieldsCount(q) : \E k \in 1..Len(calls) : calls[k].struct = q /\ calls[k].field <= j
      BY <2>1, <2>3
    <2> QED
      BY <2>1, <2>2, <2>3, <2>4, <2>5 DEF Walk, Texts
  <1> HIDE DEF name, calls
  <1>7. Walk(schema', call'.name, deps', frames') /\ Texts(schema', call'.name, deps', text')
    BY <1>1, <1>2, <1>3, <1>6
  <1>8. Walk(schema, call.name, deps, frames)' /\ Texts(schema, call.name, deps, text)'
    BY <1>2, <1>7, WalkSame
  <1>9. call'.name \in StructsOf(schema')
    BY <1>2, <1>3, <1>4
  <1> QED
    BY <1>3, <1>5, <1>8, <1>9 DEF TextInv, TextIsEncodeType

(* A call goes past a field whose struct is listed, or that is of none.    *)
LEMMA FramePast ==
    ASSUME EncInv, call.at = "collect", NEW more, NEW next, Len(next) \in Nat, Len(frames) <= Len(next),
           \A i \in 1..Len(frames) : next[i] = PastField[i],
           IsStruct(Frame.struct, Frame.field) => Listed(Target(Frame.struct, Frame.field), more),
           \A i \in 1..Len(frames) : frames[i].field # 0
    PROVE  \A i \in 1..Len(frames) :
               /\ frames[i].field \in Nat /\ frames[i].struct \in Pointers
               /\ i \in 1..Len(next) /\ next[i].struct = frames[i].struct /\ next[i].field # 0
               /\ \A j \in 1..FieldsCount(frames[i].struct) :
                      frames[i].field <= j /\ IsStruct(frames[i].struct, j) =>
                          \/ Listed(Target(frames[i].struct, j), more)
                          \/ next[i].field <= j
  <1> DEFINE F == [struct : Pointers, field : Nat]
             k == Len(frames)
             e == [frames[k] EXCEPT !.field = @ + 1]
  <1>1. frames \in Seq(F) /\ frames # << >>
    BY DEF EncInv, CallInv
  <1> HIDE DEF F
  <1>2. k \in Nat \ {0} /\ k \in 1..k /\ \A i \in 1..k : frames[i] \in F
    BY <1>1
  <1>3. e \in F /\ e.struct = frames[k].struct /\ e.field = frames[k].field + 1 /\ Frame = frames[k]
    BY <1>2 DEF F, Frame, Last
  <1>4. PastField = [frames EXCEPT ![k] = e]
    BY DEF PastField
  <1> HIDE DEF e
  <1>5. PastField[k] = e /\ \A i \in 1..k : i # k => PastField[i] = frames[i]
    BY <1>1, <1>2, <1>3, <1>4
  <1> HIDE DEF k
  <1>6. \A i \in 1..k : frames[i].field \in Nat /\ frames[i].struct \in Pointers
    BY <1>2 DEF F
  <1>7. ASSUME NEW i \in 1..k
        PROVE  /\ next[i].struct = frames[i].struct
               /\ next[i].field = IF i = k THEN frames[i].field + 1 ELSE frames[i].field
    BY <1>3, <1>5, <1>7 DEF k
  <1>8. ASSUME NEW i \in 1..k
        PROVE  /\ i \in 1..Len(next) /\ next[i].struct = frames[i].struct /\ next[i].field # 0
               /\ \A j \in 1..FieldsCount(frames[i].struct) :
                      frames[i].field <= j /\ IsStruct(frames[i].struct, j) =>
                          \/ Listed(Target(frames[i].struct, j), more)
                          \/ next[i].field <= j
    <2>1. i \in 1..Len(next)
      BY <1>2 DEF k
    <2>2. frames[i].field # 0
      BY DEF k
    <2>3. next[i].field # 0
      BY <1>6, <1>7, <2>2
    <2>4. ASSUME NEW j \in 1..FieldsCount(frames[i].struct), frames[i].field <= j,
                 IsStruct(frames[i].struct, j), ~Listed(Target(frames[i].struct, j), more)
          PROVE  next[i].field <= j
      <3>1. i = k => j # frames[i].field
        BY <1>3, <2>4
      <3> DEFINE field == frames[i].field
      <3>2. field \in Nat /\ field <= j /\ next[i].field = IF i = k THEN field + 1 ELSE field
        BY <1>6, <1>7, <2>4
      <3> HIDE DEF field
      <3>3. j \in Int
        OBVIOUS
      <3> QED
        BY <3>1, <3>2, <3>3 DEF field
    <2> QED
      BY <1>7, <2>1, <2>3, <2>4
  <1> QED
    BY <1>6, <1>8 DEF k

LEMMA TextSkipStep ==
    ASSUME \A s \in Schemas : Plain(s), EncInv, TextInv, SkipField
    PROVE  TextInv'
  <1>1. Busy /\ call.at = "collect" /\ text = << >>
    BY DEF SkipField, Busy, EncInv, SortInv
  <1>2. /\ UNCHANGED <<mem, intact, defined, schema, told, call, deps, text>> /\ frames' = PastField
    BY DEF SkipField, vars, defVars
  <1>3. IsStruct(Frame.struct, Frame.field) => Listed(Target(Frame.struct, Frame.field), deps)
    BY DEF SkipField, FieldHere, Dependency, IsStruct, Target
  <1>4. Len(frames) \in Nat /\ Len(PastField) = Len(frames)
    <2>1. frames \in Seq([struct : Pointers, field : Nat])
      BY DEF EncInv, CallInv
    <2> DEFINE F == [struct : Pointers, field : Nat]
    <2>2. frames \in Seq(F) /\ PastField \in Seq(F) /\ DOMAIN PastField = DOMAIN frames
      BY <1>1, <2>1, FrameFacts DEF PastField
    <2> HIDE DEF F
    <2> QED
      BY <2>2
  <1>5. ASSUME Roomy PROVE Walk(schema, call.name, deps, PastField)
    <2>1. Walk(schema, call.name, deps, frames)
      BY <1>1, <1>5 DEF TextInv
    <2>2. \A i \in 1..Len(frames) :
               /\ i \in 1..Len(PastField) /\ PastField[i].struct = frames[i].struct
               /\ PastField[i].field # 0
               /\ \A j \in 1..FieldsCount(frames[i].struct) :
                      frames[i].field <= j /\ IsStruct(frames[i].struct, j) =>
                          \/ Listed(Target(frames[i].struct, j), deps)
                          \/ PastField[i].field <= j
      <3>1. \A i \in 1..Len(frames) : frames[i].field # 0
        BY <2>1 DEF Walk
      <3>2. /\ Len(PastField) \in Nat /\ Len(frames) <= Len(PastField)
            /\ \A i \in 1..Len(frames) : PastField[i] = PastField[i]
        BY <1>4
      <3> DEFINE next == PastField
      <3> HIDE DEF next
      <3>3. \A i \in 1..Len(frames) :
               /\ i \in 1..Len(next) /\ next[i].struct = frames[i].struct
               /\ next[i].field # 0
               /\ \A j \in 1..FieldsCount(frames[i].struct) :
                      frames[i].field <= j /\ IsStruct(frames[i].struct, j) =>
                          \/ Listed(Target(frames[i].struct, j), deps)
                          \/ next[i].field <= j
        BY <1>1, <1>3, <3>1, <3>2, FramePast DEF next
      <3> QED
        BY <3>3 DEF next
    <2>3. /\ \A i \in 1..Len(deps) : get_struct_name(deps[i]) \in Reached(schema, UsedBy(schema, call.name))
          /\ \A i \in 1..Len(frames) : Owner(call.name, deps, frames[i].struct)
      BY <2>1 DEF Walk
    <2> HIDE DEF Walk
    <2>4. \A i \in 1..Len(PastField) : PastField[i].field # 0 /\ Owner(call.name, deps, PastField[i].struct)
      BY <1>4, <2>2, <2>3
    <2> QED
      BY <2>1, <2>2, <2>3, <2>4, WalkStep
  <1>6. Roomy => Texts(schema, call.name, deps, text)
    BY <1>1 DEF TextInv
  <1>7. call'.at # "done"
    BY <1>1, <1>2
  <1> QED
    BY <1>1, <1>2, <1>5, <1>6, <1>7, CallGoesOn

(* The struct of a field that is of one, in a call.                        *)
LEMMA FrameReaches ==
    ASSUME \A s \in Schemas : Plain(s), EncInv, TextInv, Roomy, NewDependency
    PROVE  /\ IsStruct(Frame.struct, Frame.field) /\ Dependency = Target(Frame.struct, Frame.field)
           /\ Found(Dependency)
           /\ get_struct_name(Dependency) \in Reached(schema, UsedBy(schema, call.name))
  <1>1. Busy /\ call.at = "collect" /\ FieldLeft
    BY DEF NewDependency, Busy
  <1>2. Walk(schema, call.name, deps, frames)
    BY <1>1 DEF TextInv
  <1>3. IsStruct(Frame.struct, Frame.field) /\ Dependency = Target(Frame.struct, Frame.field)
    BY DEF NewDependency, FieldHere, Dependency, IsStruct, Target
  <1>4. /\ Frame.field \in Nat /\ Frame.field # 0 /\ Frame.struct \in Pointers
        /\ Owner(call.name, deps, Frame.struct)
    <2> DEFINE F == [struct : Pointers, field : Nat]
    <2>1. frames \in Seq(F) /\ frames # << >>
      BY <1>1 DEF EncInv, CallInv
    <2> HIDE DEF F
    <2>2. Len(frames) \in 1..Len(frames) /\ Frame = frames[Len(frames)] /\ Frame \in F
      BY <2>1 DEF Frame, Last
    <2>3. Frame.field \in Nat /\ Frame.struct \in Pointers
      BY <2>2 DEF F
    <2> QED
      BY <1>2, <2>2, <2>3 DEF Walk
  <1>5. PICK n \in 1..Len(schema) : Frame.struct = StructPtr[n]
    BY <1>1, <1>4, SchemaUnderstood, PointerPlace
  <1>6. FieldsCount(Frame.struct) \in Nat
    <2>1. /\ FieldsCount(StructPtr[n]) = Len(schema[n].fields)
          /\ schema[n].fields \in Seq(JsonFields)
      BY <1>1, SchemaUnderstood, StructPlace
    <2> QED
      BY <1>5, <2>1
  <1>7. Frame.field \in 1..FieldsCount(Frame.struct)
    BY <1>1, <1>4, <1>6 DEF FieldLeft
  <1>8. /\ \A i \in 1..Len(deps) : get_struct_name(deps[i]) \in Reached(schema, UsedBy(schema, call.name))
        /\ deps \in Seq(Pointers)
    BY <1>1, <1>2, BusyFacts DEF Walk, Listing
  <1>9. /\ Target(Frame.struct, Frame.field) \in Pointers /\ Target(Frame.struct, Frame.field) # NULL
        /\ get_struct_name(Target(Frame.struct, Frame.field)) \in Reached(schema, UsedBy(schema, call.name))
    BY <1>1, <1>3, <1>4, <1>7, <1>8, SchemaUnderstood, OwnerReaches
  <1>10. Found(Dependency)
    BY <1>1, <1>3, <1>9, BusyFacts, LookupFound DEF Dependency
  <1> QED
    BY <1>3, <1>9, <1>10

LEMMA TimesMore ==
    ASSUME NEW p \in Nat, NEW a \in Nat, NEW b \in Nat, a <= b
    PROVE  p * a <= p * b
  <1>1. b - a \in Nat /\ p * (b - a) >= 0
    OBVIOUS
  <1>2. p * b = p * a + p * (b - a)
    OBVIOUS
  <1> QED
    BY <1>1, <1>2

(* Memory has room for one more.                                           *)
LEMMA MoreFits ==
    ASSUME \A s \in Schemas : Plain(s), EncInv, TextInv, Roomy, NewDependency
    PROVE  CanAlloc(mem_idx, PTR_SIZE)
  <1>1. Busy /\ Found(Dependency) /\ ~Listed(Dependency, deps)
    BY FrameReaches DEF NewDependency, Busy
  <1>2. Understood(schema) /\ Len(schema) \in Nat /\ Listing(deps)
    BY <1>1, SchemaUnderstood
  <1>3. Len(deps) \in Nat /\ Len(deps) + 1 <= Len(schema)
    BY <1>1, <1>2, ListingAppend, ListShort
  <1> DEFINE a == Len(deps) + 1
             b == Len(schema)
  <1>4. PTR_SIZE \in Nat /\ a \in Nat /\ b \in Nat /\ a <= b
    BY <1>2, <1>3, EncodingAssumption
  <1>5. mem_idx + PTR_SIZE = call.from + PTR_SIZE * a
    BY <1>1, <1>4, BusyFacts
  <1>6. call.from + PTR_SIZE * b + 5 <= SIZE_MEM_BUFFER
    <2>1. call.from + (PTR_SIZE * b + 5) <= SIZE_MEM_BUFFER
      BY DEF Roomy, CanAlloc
    <2>2. PTR_SIZE * b \in Nat /\ call.from \in Nat
      BY <1>1, <1>4, BusyFacts
    <2> QED
      BY <1>1, <2>1, <2>2, BusyFacts
  <1> HIDE DEF a, b
  <1>7. PTR_SIZE * a <= PTR_SIZE * b /\ PTR_SIZE * a \in Nat /\ PTR_SIZE * b \in Nat
    BY <1>4, TimesMore
  <1>8. call.from \in Nat /\ SIZE_MEM_BUFFER \in Nat
    BY <1>1, BusyFacts
  <1>10. PICK u \in Nat, v \in Nat : u = PTR_SIZE * a /\ v = PTR_SIZE * b
    BY <1>7
  <1>11. mem_idx + PTR_SIZE = call.from + u /\ call.from + v + 5 <= SIZE_MEM_BUFFER /\ u <= v
    BY <1>5, <1>6, <1>7, <1>10, Zenon
  <1>9. mem_idx + PTR_SIZE <= SIZE_MEM_BUFFER
    BY <1>8, <1>10, <1>11
  <1> QED
    BY <1>9 DEF CanAlloc

LEMMA ListedAppend ==
    ASSUME NEW list, Listing(list), NEW p
    PROVE  \A q : Listed(q, Append(list, p)) <=> Listed(q, list) \/ q = p
  <1>1. list \in Seq(Pointers)
    BY DEF Listing
  <1> DEFINE U == Pointers \cup {p}
             k == Len(list)
             more == Append(list, p)
  <1>2. list \in Seq(U) /\ p \in U
    BY <1>1
  <1> HIDE DEF U
  <1>3. /\ k \in Nat /\ DOMAIN list = 1..k /\ DOMAIN more = 1..(k + 1)
        /\ more[k + 1] = p /\ \A i \in 1..k : more[i] = list[i]
    BY <1>2
  <1> HIDE DEF k, more
  <1>4. \A i \in 1..(k + 1) : i \in 1..k \/ i = k + 1
    BY <1>3
  <1>5. k + 1 \in 1..(k + 1) /\ \A i \in 1..k : i \in 1..(k + 1)
    BY <1>3
  <1>6. \A q : Listed(q, more) <=> Listed(q, list) \/ q = p
    BY <1>3, <1>4, <1>5 DEF Listed
  <1> QED
    BY <1>6 DEF more

LEMMA TextAddStep ==
    ASSUME \A s \in Schemas : Plain(s), EncInv, TextInv, AddDependency
    PROVE  TextInv'
  <1> DEFINE p == Dependency
             new == [struct |-> p, field |-> 1]
             more == Append(deps, p)
             next == Append(PastField, new)
             R == Reached(schema, UsedBy(schema, call.name))
  <1>1. Busy /\ call.at = "collect" /\ text = << >> /\ NewDependency
    BY DEF AddDependency, NewDependency, Busy, EncInv, SortInv
  <1>2. UNCHANGED <<mem, intact, defined, schema, told, text>> /\ deps' = more
    BY DEF AddDependency
  <1>3. call'.name = call.name /\ call'.from = call.from /\ call'.at # "none"
    BY <1>1, BusyFacts DEF AddDependency, Call
  <1>4. ASSUME Roomy
        PROVE  /\ call' = call /\ frames' = next /\ Walk(schema, call.name, deps', frames')
    <2>1. /\ IsStruct(Frame.struct, Frame.field) /\ p = Target(Frame.struct, Frame.field)
          /\ Found(p) /\ get_struct_name(p) \in R
      BY <1>1, <1>4, FrameReaches
    <2>2. call' = call /\ frames' = next
      BY <2>1 DEF AddDependency, Found
    <2>3. Walk(schema, call.name, deps, frames)
      BY <1>1, <1>4 DEF TextInv
    <2>4. /\ \A i \in 1..Len(deps) : get_struct_name(deps[i]) \in R
          /\ \A i \in 1..Len(frames) : frames[i].field # 0 /\ Owner(call.name, deps, frames[i].struct)
      BY <2>3 DEF Walk
    <2>5. Listing(deps) /\ \A q : Listed(q, more) <=> Listed(q, deps) \/ q = p
      BY <1>1, BusyFacts, ListedAppend
    <2>6. /\ Len(more) = Len(deps) + 1 /\ Len(deps) \in Nat /\ more[Len(deps) + 1] = p
          /\ \A i \in 1..Len(deps) : more[i] = deps[i]
      <3>1. deps \in Seq(Pointers) /\ p \in Pointers
        BY <2>1, <2>5 DEF Listing, Found
      <3> HIDE DEF Pointers, p
      <3> QED
        BY <3>1
    <2>7. /\ Len(frames) \in Nat /\ Len(next) = Len(frames) + 1 /\ next[Len(frames) + 1] = new
          /\ \A i \in 1..Len(frames) : next[i] = PastField[i]
      <3> DEFINE F == [struct : Pointers, field : Nat]
      <3>1. frames \in Seq(F) /\ PastField \in Seq(F) /\ DOMAIN PastField = DOMAIN frames
        BY <1>1, FrameFacts DEF PastField, EncInv, CallInv
      <3>2. new \in F
        BY <2>1 DEF Found
      <3> HIDE DEF F, new
      <3> QED
        BY <3>1, <3>2
    <2> HIDE DEF more, next, p, Walk
    <2>8. \A i \in 1..Len(frames) :
               /\ i \in 1..Len(next) /\ next[i].struct = frames[i].struct
               /\ next[i].field # 0
               /\ \A j \in 1..FieldsCount(frames[i].struct) :
                      frames[i].field <= j /\ IsStruct(frames[i].struct, j) =>
                          \/ Listed(Target(frames[i].struct, j), more)
                          \/ next[i].field <= j
      <3>1. Len(next) \in Nat /\ Len(frames) <= Len(next)
        BY <2>7
      <3>2. IsStruct(Frame.struct, Frame.field) => Listed(Target(Frame.struct, Frame.field), more)
        BY <2>1, <2>5
      <3> QED
        BY <1>1, <2>4, <2>7, <3>1, <3>2, FramePast
    <2>9. \A i \in 1..Len(more) : get_struct_name(more[i]) \in R
      <3>1. \A i \in 1..Len(more) : i \in 1..Len(deps) \/ i = Len(deps) + 1
        BY <2>6
      <3> HIDE DEF R
      <3> QED
        BY <2>1, <2>4, <2>6, <3>1
    <2>10. new.struct = p /\ new.field = 1 /\ Len(frames) + 1 \in 1..Len(next)
      BY <2>7
    <2> HIDE DEF new
    <2>11. \A i \in 1..Len(next) : next[i].field # 0 /\ Owner(call.name, more, next[i].struct)
      <3>1. \A i \in 1..Len(next) : i \in 1..Len(frames) \/ i = Len(frames) + 1
        BY <2>7
      <3>2. \A q : Owner(call.name, deps, q) \/ q = p => Owner(call.name, more, q)
        BY <2>5 DEF Owner
      <3>3. ASSUME NEW i \in 1..Len(next)
            PROVE  next[i].field # 0 /\ Owner(call.name, more, next[i].struct)
        <4>1. CASE i \in 1..Len(frames)
          BY <2>4, <2>8, <3>2, <4>1
        <4>2. CASE i = Len(frames) + 1
          BY <2>7, <2>10, <3>2, <4>2
        <4> QED
          BY <3>1, <4>1, <4>2
      <3> QED
        BY <3>3
    <2>12. \A q \in Pointers : Listed(q, more) =>
               Listed(q, deps) \/ \E i \in 1..Len(next) : next[i].struct = q /\ next[i].field = 1
      BY <2>5, <2>7, <2>10
    <2>13. Walk(schema, call.name, more, next)
      BY <2>3, <2>5, <2>8, <2>9, <2>11, <2>12, WalkStep DEF R
    <2> QED
      BY <1>2, <2>2, <2>13
  <1>5. Roomy => Texts(schema, call.name, deps', text')
    <2>1. Len(<< >>) = 0 /\ 1..0 = {}
      OBVIOUS
    <2> QED
      BY <1>1, <1>2, <2>1 DEF Texts
  <1>6. Roomy => call'.at # "done"
    BY <1>1, <1>4
  <1> QED
    BY <1>1, <1>2, <1>3, <1>4, <1>5, <1>6, CallGoesOn

LEMMA TextReturnStep ==
    ASSUME \A s \in Schemas : Plain(s), EncInv, TextInv, DependenciesFull \/ DependenciesFound
    PROVE  TextInv'
  <1>1. Busy /\ call.at = "collect" /\ text = << >>
    BY DEF DependenciesFull, DependenciesFound, NewDependency, Busy, EncInv, SortInv
  <1>2. PICK outcome \in {"sort", "done"} : Return(outcome)
    BY DEF DependenciesFull, DependenciesFound
  <1>3. /\ UNCHANGED <<mem, intact, defined, schema, told, deps, text>>
        /\ frames' = Front(frames) /\ call'.name = call.name /\ call'.from = call.from
    BY <1>1, <1>2, BusyFacts DEF Return, vars, defVars, Call
  <1>4. ASSUME Roomy PROVE DependenciesFound
    BY <1>4, MoreFits DEF DependenciesFull
  <1>5. ASSUME Roomy PROVE call'.at # "done" /\ Walk(schema, call.name, deps, Front(frames))
    <2> DEFINE next == Front(frames)
               k == Len(frames)
               F == [struct : Pointers, field : Nat]
    <2>1. ~FieldLeft /\ Return("sort")
      BY <1>4, <1>5 DEF DependenciesFound
    <2>2. call'.at # "done"
      BY <1>1, <2>1, BusyFacts DEF Return, Call
    <2>3. Walk(schema, call.name, deps, frames)
      BY <1>1, <1>5 DEF TextInv
    <2>4. /\ \A i \in 1..Len(deps) : get_struct_name(deps[i]) \in Reached(schema, UsedBy(schema, call.name))
          /\ \A i \in 1..k : frames[i].field # 0 /\ Owner(call.name, deps, frames[i].struct)
      BY <2>3 DEF Walk
    <2>5. frames \in Seq(F) /\ frames # << >>
      BY <1>1 DEF EncInv, CallInv
    <2> HIDE DEF F
    <2>6. k \in Nat \ {0} /\ Frame = frames[k] /\ Frame \in F
      BY <2>5 DEF Frame, Last
    <2>7. Len(next) = k - 1 /\ \A i \in 1..(k - 1) : next[i] = frames[i]
      BY <2>5, <2>6, SMTT(30) DEF Front
    <2> HIDE DEF next, k, Walk
    <2>8. Frame.field \in Nat /\ Frame.struct \in Pointers
      BY <2>6 DEF F
    <2>9. FieldsCount(Frame.struct) \in Nat
      <3>1. PICK n \in 1..Len(schema) : Frame.struct = StructPtr[n]
        BY <1>1, <2>8, SchemaUnderstood, PointerPlace
      <3>2. /\ FieldsCount(StructPtr[n]) = Len(schema[n].fields)
            /\ schema[n].fields \in Seq(JsonFields)
        BY <1>1, SchemaUnderstood, StructPlace
      <3> QED
        BY <3>1, <3>2
    <2>10. \A j \in 1..FieldsCount(Frame.struct) : ~(Frame.field <= j)
      <3> DEFINE c == FieldsCount(Frame.struct)
                 d == Frame.field
      <3>1. c \in Nat /\ d \in Nat /\ ~(d <= c)
        BY <2>1, <2>8, <2>9 DEF FieldLeft
      <3> HIDE DEF c, d
      <3>2. \A j \in 1..c : ~(d <= j)
        BY <3>1
      <3> QED
        BY <3>2 DEF c, d
    <2>11. \A i \in 1..k : i \in 1..(k - 1) \/ i = k
      BY <2>6
    <2>12. \A i \in 1..(k - 1) : i \in 1..k
      BY <2>6
    <2>13. \A i \in 1..Len(next) : next[i].field # 0 /\ Owner(call.name, deps, next[i].struct)
      BY <2>4, <2>7, <2>12
    <2>14. \A i \in 1..k : \A j \in 1..FieldsCount(frames[i].struct) :
               frames[i].field <= j =>
                   \E m \in 1..Len(next) : next[m].struct = frames[i].struct /\ next[m].field <= j
      <3> SUFFICES ASSUME NEW i \in 1..k, NEW j \in 1..FieldsCount(frames[i].struct), frames[i].field <= j
                   PROVE  \E m \in 1..Len(next) : next[m].struct = frames[i].struct /\ next[m].field <= j
        OBVIOUS
      <3>1. i # k
        BY <2>6, <2>10
      <3>2. i \in 1..(k - 1)
        BY <2>11, <3>1
      <3>3. i \in 1..Len(next) /\ next[i] = frames[i]
        BY <2>7, <3>2
      <3> QED
        BY <3>3
    <2>15. Walk(schema, call.name, deps, next)
      BY <2>3, <2>4, <2>13, <2>14, WalkStep DEF k
    <2> QED
      BY <2>2, <2>15 DEF next
  <1>6. Roomy => Texts(schema, call.name, deps, text)
    BY <1>1 DEF TextInv
  <1>7. Roomy => /\ Walk(schema, call.name, deps', frames')
                 /\ Texts(schema, call.name, deps', text')
    BY <1>3, <1>5, <1>6
  <1> QED
    BY <1>1, <1>3, <1>5, <1>7, CallGoesOn

LEMMA TextCompareStep ==
    ASSUME \A s \in Schemas : Plain(s), EncInv, TextInv, Compare
    PROVE  TextInv'
  <1> DEFINE i == call.idx
             swapped == [deps EXCEPT ![i] = deps[i + 1], ![i + 1] = deps[i]]
             R == Reached(schema, UsedBy(schema, call.name))
  <1>1. Busy /\ call.at = "sort" /\ text = << >> /\ frames = << >>
    BY DEF Compare, Busy, EncInv, SortInv, CallInv
  <1>2. i \in Nat \ {0} /\ i < Len(deps) /\ Len(deps) \in Nat
    BY <1>1, BusyFacts DEF Compare, Call
  <1>3. /\ UNCHANGED <<mem, intact, defined, schema, told, frames, text>>
        /\ deps' = deps \/ deps' = swapped
        /\ call'.name = call.name /\ call'.from = call.from /\ call'.at = "sort"
    BY <1>1, BusyFacts DEF Compare, vars, defVars, Call
  <1>4. ASSUME Roomy PROVE Walk(schema, call.name, deps', frames')
    <2>1. Walk(schema, call.name, deps, frames)
      BY <1>1, <1>4 DEF TextInv
    <2>2. CASE deps' = deps
      BY <1>3, <2>1, <2>2
    <2>3. CASE deps' = swapped
      <3>1. deps \in Seq(Pointers)
        BY <1>1, BusyFacts DEF Listing
      <3>2. \A m \in 1..Len(deps) : get_struct_name(deps[m]) \in R
        BY <2>1 DEF Walk
      <3> HIDE DEF Pointers, R, i
      <3>3. i \in 1..Len(deps) /\ i + 1 \in 1..Len(deps) /\ i # i + 1 /\ DOMAIN deps = 1..Len(deps)
        BY <1>2, <3>1
      <3>4. deps[i] \in Pointers /\ deps[i + 1] \in Pointers
        BY <3>1, <3>3
      <3>5. /\ Len(swapped) = Len(deps) /\ DOMAIN swapped = 1..Len(deps)
            /\ swapped[i] = deps[i + 1] /\ swapped[i + 1] = deps[i]
            /\ \A m \in 1..Len(deps) : m # i /\ m # i + 1 => swapped[m] = deps[m]
        BY <3>1, <3>3, <3>4
      <3> HIDE DEF swapped
      <3>6. \A q : Listed(q, swapped) <=> Listed(q, deps)
        BY <3>3, <3>5 DEF Listed
      <3>7. \A m \in 1..Len(swapped) : get_struct_name(swapped[m]) \in R
        BY <3>2, <3>3, <3>5
      <3>8. Len(<< >>) = 0 /\ 1..0 = {}
        OBVIOUS
      <3>9. 1..Len(frames) = {}
        BY <1>1, <3>8
      <3>10. Walk(schema, call.name, swapped, frames)
        BY <2>1, <3>6, <3>7, <3>9, WalkStep DEF R
      <3> QED
        BY <1>3, <2>3, <3>10
    <2> QED
      BY <1>3, <2>2, <2>3
  <1>5. Roomy => Texts(schema, call.name, deps', text')
    <2>1. Len(<< >>) = 0 /\ 1..0 = {}
      OBVIOUS
    <2> QED
      BY <1>1, <1>3, <2>1 DEF Texts
  <1> QED
    BY <1>1, <1>3, <1>4, <1>5, CallGoesOn

LEMMA TextPassStep ==
    ASSUME EncInv, TextInv, EndPass
    PROVE  TextInv'
  <1>1. Busy /\ call \in Call
    BY DEF EndPass, Busy, EncInv, CallInv
  <1>2. /\ UNCHANGED <<mem, intact, defined, schema, told, frames, deps, text>>
        /\ call'.name = call.name /\ call'.from = call.from /\ call'.at # "done"
    BY <1>1 DEF EndPass, vars, defVars, Call
  <1>3. Roomy => /\ Walk(schema, call.name, deps', frames')
                 /\ Texts(schema, call.name, deps', text')
    BY <1>1, <1>2 DEF TextInv
  <1> QED
    BY <1>1, <1>2, <1>3, CallGoesOn

(* The struct to write, and what is written for it.                        *)
LEMMA NextText ==
    ASSUME \A s \in Schemas : Plain(s), EncInv, TextInv, EncodeStruct, Roomy
    PROVE  LET p == IF text = << >> THEN get_structn(call.name) ELSE deps[Len(text)]
           IN  /\ \A x \in Formatted(p) : CanAlloc(mem_idx, Len(DigitsOf[x]) + 1)
               /\ StructText(p) = StructString(schema, IF Len(text) = 0 THEN call.name
                                                       ELSE get_struct_name(deps[Len(text)]))
  <1> DEFINE p == IF text = << >> THEN get_structn(call.name) ELSE deps[Len(text)]
             name == IF Len(text) = 0 THEN call.name ELSE get_struct_name(deps[Len(text)])
  <1>1. Busy /\ Len(text) <= Len(deps)
    BY DEF EncodeStruct, Busy
  <1>2. Understood(schema) /\ Len(schema) \in Nat /\ call.name \in StructsOf(schema) /\ Listing(deps)
    BY <1>1, SchemaUnderstood
  <1>3. Len(text) \in Nat /\ (text = << >> <=> Len(text) = 0)
    <2>1. PICK T : text \in Seq(T)
      BY <1>1, BusyFacts
    <2> QED
      BY <2>1
  <1>4. Len(deps) \in Nat /\ Len(deps) <= Len(schema)
    BY <1>2, ListShort
  <1>5. \E n \in 1..Len(schema) : p = StructPtr[n] /\ name = schema[n].name
    <2>1. CASE text = << >>
      <3>1. PICK n \in 1..Len(schema) : call.name = schema[n].name
        BY <1>2 DEF StructsOf, Understood
      <3>2. get_structn(call.name) = StructPtr[n]
        BY <1>2, <3>1, StructPlace
      <3> QED
        BY <1>3, <2>1, <3>1, <3>2
    <2>2. CASE text # << >>
      <3>1. Len(text) \in 1..Len(deps)
        BY <1>1, <1>3, <1>4, <2>2
      <3>2. deps[Len(text)] \in Pointers
        BY <1>2, <3>1 DEF Listing, Found
      <3>3. PICK n \in 1..Len(schema) : deps[Len(text)] = StructPtr[n]
        BY <1>2, <3>2, PointerPlace
      <3>4. get_struct_name(deps[Len(text)]) = schema[n].name
        BY <1>2, <3>3, StructPlace
      <3> QED
        BY <1>3, <2>2, <3>3, <3>4
    <2> QED
      BY <2>1, <2>2
  <1> HIDE DEF p, name
  <1>6. PICK n \in 1..Len(schema) : p = StructPtr[n] /\ name = schema[n].name
    BY <1>5
  <1>7. ASSUME NEW x \in Formatted(p) PROVE CanAlloc(mem_idx, Len(DigitsOf[x]) + 1)
    <2>1. Len(DigitsOf[x]) \in 1..4
      BY <1>2, <1>6, <1>7, FormattedShort
    <2> DEFINE a == Len(deps)
               b == Len(schema)
               c == Len(DigitsOf[x])
    <2>2. PTR_SIZE \in Nat /\ a \in Nat /\ b \in Nat /\ a <= b /\ c \in 1..4
      BY <1>2, <1>4, <2>1, EncodingAssumption
    <2>3. mem_idx = call.from + PTR_SIZE * a /\ call.from \in Nat /\ SIZE_MEM_BUFFER \in Nat
      BY <1>1, BusyFacts
    <2>4. call.from + (PTR_SIZE * b + 5) <= SIZE_MEM_BUFFER
      BY DEF Roomy, CanAlloc
    <2> HIDE DEF a, b, c
    <2>5. PTR_SIZE * a <= PTR_SIZE * b /\ PTR_SIZE * a \in Nat /\ PTR_SIZE * b \in Nat
      BY <2>2, TimesMore
    <2>7. PICK u \in Nat, v \in Nat : u = PTR_SIZE * a /\ v = PTR_SIZE * b
      BY <2>5
    <2>8. mem_idx = call.from + u /\ call.from + (v + 5) <= SIZE_MEM_BUFFER /\ u <= v
      BY <2>3, <2>4, <2>5, <2>7, Zenon
    <2>9. c \in 1..4 /\ call.from \in Nat /\ SIZE_MEM_BUFFER \in Nat
      BY <2>2, <2>3
    <2>6. mem_idx + (c + 1) <= SIZE_MEM_BUFFER
      BY <2>7, <2>8, <2>9
    <2> QED
      BY <2>6 DEF CanAlloc, c
  <1>8. StructText(p) = StructString(schema, name)
    BY <1>2, <1>6, StructAlike
  <1> QED
    BY <1>7, <1>8 DEF p, name

LEMMA TextEncodeStep ==
    ASSUME \A s \in Schemas : Plain(s), EncInv, TextInv, EncodeStruct
    PROVE  TextInv'
  <1> DEFINE p == IF text = << >> THEN get_structn(call.name) ELSE deps[Len(text)]
             k == Len(text)
  <1>1. /\ Busy /\ call.at = "encode" /\ frames = << >> /\ call \in Call
        /\ UNCHANGED <<mem, intact, defined, schema, told, frames, deps>>
    BY DEF EncodeStruct, Busy, EncInv, CallInv
  <1>2. call'.name = call.name /\ call'.from = call.from
    BY <1>1 DEF EncodeStruct, Call
  <1>3. ASSUME Roomy
        PROVE  /\ call' = call
               /\ Walk(schema, call.name, deps', frames')
               /\ Texts(schema, call.name, deps', text')
    <2>1. /\ \A x \in Formatted(p) : CanAlloc(mem_idx, Len(DigitsOf[x]) + 1)
          /\ StructText(p) = StructString(schema, IF k = 0 THEN call.name ELSE get_struct_name(deps[k]))
      BY <1>3, NextText
    <2>2. call' = call /\ text' = Append(text, StructText(p))
      BY <2>1 DEF EncodeStruct
    <2>3. Walk(schema, call.name, deps, frames) /\ Texts(schema, call.name, deps, text)
      BY <1>1, <1>3 DEF TextInv
    <2>4. PICK T : text \in Seq(T)
      BY <1>1, BusyFacts
    <2> DEFINE x == StructText(p)
    <2> HIDE DEF x, p
    <2>5. text \in Seq(T \cup {x}) /\ text' = Append(text, x)
      BY <2>2, <2>4 DEF x
    <2>6. /\ Len(text') = k + 1 /\ k \in Nat /\ text'[k + 1] = x
          /\ \A n \in 1..k : text'[n] = text[n]
      BY <2>5
    <2> HIDE DEF k
    <2>7. ASSUME NEW n \in 1..Len(text')
          PROVE  text'[n] = StructString(schema, IF n = 1 THEN call.name ELSE get_struct_name(deps[n - 1]))
      <3>1. CASE n = k + 1
        <4>1. n - 1 = k /\ (n = 1 <=> k = 0)
          BY <2>6, <3>1
        <4> QED
          BY <2>1, <2>6, <3>1, <4>1 DEF x
      <3>2. CASE n # k + 1
        <4>1. n \in 1..k
          BY <2>6, <3>2
        <4> QED
          BY <2>3, <2>6, <4>1 DEF Texts, k
      <3> QED
        BY <3>1, <3>2
    <2>8. Texts(schema, call.name, deps', text')
      BY <1>1, <2>7 DEF Texts
    <2> QED
      BY <1>1, <2>2, <2>3, <2>8
  <1>4. Roomy => call'.at # "done"
    BY <1>1, <1>3
  <1> QED
    BY <1>1, <1>2, <1>3, <1>4, CallGoesOn

(* The list of all that the root reaches, in order, is the reference's.    *)
LEMMA TextWhole ==
    ASSUME NEW s, Understood(s), NEW root \in StructsOf(s), ~Recursive(s, root),
           NEW list, Listing(list), Walk(s, root, list, << >>),
           \A i \in 1..(Len(list) - 1) : Ascends(list, i),
           NEW T, NEW txt \in Seq(T), Len(txt) = Len(list) + 1, Texts(s, root, list, txt)
    PROVE  FlattenSeq(txt) = EncodeType(s, root)
  <1> DEFINE n == Len(list)
             h == [i \in 1..n |-> get_struct_name(list[i])]
             D == Reached(s, {root}) \ {root}
  <1>1. n \in Nat /\ \A i \in 1..n : list[i] \in Pointers /\ get_struct_name(list[i]) \in Seq(Byte)
    <2>1. list \in Seq(Pointers)
      BY DEF Listing
    <2> HIDE DEF Pointers
    <2>2. n \in Nat
      BY <2>1
    <2> QED
      BY <2>2 DEF Listing, Found
  <1>2. {get_struct_name(list[i]) : i \in 1..n} = D
    <2>1. {get_struct_name(list[i]) : i \in 1..n} = Reached(s, UsedBy(s, root))
      BY WalkEnds
    <2>2. D = Reached(s, UsedBy(s, root))
      BY ReachedBehind
    <2> QED
      BY <2>1, <2>2
  <1> HIDE DEF D
  <1>3. D \in SUBSET Seq(Byte) /\ h \in [1..n -> D] /\ \A d \in D : \E i \in 1..n : h[i] = d
    <2>1. \A i \in 1..n : h[i] \in D
      BY <1>2
    <2>2. \A d \in D : \E i \in 1..n : h[i] = d
      BY <1>2
    <2>3. D \in SUBSET Seq(Byte)
      BY <1>1, <1>2
    <2> QED
      BY <2>1, <2>2, <2>3
  <1>4. \A i \in 1..(n - 1) : Before(h[i], h[i + 1])
    <2> TAKE i \in 1..(n - 1)
    <2>1. i \in 1..n /\ i + 1 \in 1..n /\ i # i + 1
      BY <1>1
    <2>2. Found(list[i]) /\ Found(list[i + 1]) /\ list[i] # list[i + 1]
      BY <2>1 DEF Listing
    <2>3. get_struct_name(list[i]) # get_struct_name(list[i + 1])
      BY <2>2 DEF Found
    <2>4. ~After(get_struct_name(list[i]), get_struct_name(list[i + 1]))
      BY DEF Ascends
    <2>5. Before(get_struct_name(list[i]), get_struct_name(list[i + 1]))
      BY <2>2, <2>3, <2>4, NotAfter DEF Found
    <2> QED
      BY <2>1, <2>5
  <1> HIDE DEF h, n
  <1>5. \A i, j \in 1..n : i < j => Before(h[i], h[j])
    <2> DEFINE near == {d \in Nat : \A i, j \in 1..n : i < j /\ j - i <= d + 1 => Before(h[i], h[j])}
    <2>1. 0 \in near
      <3>1. ASSUME NEW i \in 1..n, NEW j \in 1..n, i < j, j - i <= 0 + 1 PROVE Before(h[i], h[j])
        <4>1. i \in 1..(n - 1) /\ j = i + 1
          BY <1>1, <3>1
        <4> QED
          BY <1>4, <4>1
      <3> QED
        BY <3>1
    <2>2. ASSUME NEW d \in near PROVE d + 1 \in near
      <3>1. ASSUME NEW i \in 1..n, NEW j \in 1..n, i < j, j - i <= (d + 1) + 1 PROVE Before(h[i], h[j])
        <4>1. CASE j - i <= d + 1
          BY <2>2, <3>1, <4>1
        <4>2. CASE j - i = (d + 1) + 1
          <5>1. /\ j - 1 \in 1..n /\ j - 1 \in 1..(n - 1) /\ i < j - 1 /\ (j - 1) - i <= d + 1
                /\ (j - 1) + 1 = j
            BY <1>1, <2>2, <4>2
          <5>2. Before(h[i], h[j - 1])
            BY <2>2, <5>1
          <5>3. Before(h[j - 1], h[j])
            BY <1>4, <5>1
          <5>4. h[i] \in Seq(Byte) /\ h[j - 1] \in Seq(Byte) /\ h[j] \in Seq(Byte)
            BY <1>3, <5>1
          <5> QED
            BY <5>2, <5>3, <5>4, BeforeOn
        <4> QED
          BY <1>1, <2>2, <3>1, <4>1, <4>2
      <3> QED
        BY <2>2, <3>1
    <2>3. near \in SUBSET Nat
      OBVIOUS
    <2>4. near = Nat
      <3> HIDE DEF near
      <3> QED
        BY <2>1, <2>2, <2>3, Sizes!SetInduction
    <2>5. ASSUME NEW i \in 1..n, NEW j \in 1..n, i < j PROVE Before(h[i], h[j])
      <3>1. j - i \in Nat /\ j - i <= (j - i) + 1
        BY <1>1, <2>5
      <3>2. j - i \in near
        <4> HIDE DEF near
        <4> QED
          BY <2>4, <3>1
      <3> QED
        BY <2>5, <3>1, <3>2
    <2> QED
      BY <2>5
  <1>6. DOMAIN h = 1..n /\ InOrder(h)
    BY <1>3, <1>5 DEF InOrder
  <1>7. Sorted(D) = h
    BY <1>1, <1>3, <1>6, SortedIs
  <1>8. Len(h) = n
    BY <1>1, <1>6
  <1>9. txt = [i \in 1..(Len(h) + 1) |-> StructString(s, IF i = 1 THEN root ELSE h[i - 1])]
    <2>1. DOMAIN txt = 1..(n + 1) /\ Len(txt) = n + 1
      BY <1>1 DEF n
    <2>2. ASSUME NEW i \in 1..(n + 1)
          PROVE  txt[i] = StructString(s, IF i = 1 THEN root ELSE h[i - 1])
      <3>1. i # 1 => h[i - 1] = get_struct_name(list[i - 1])
        <4>1. i # 1 => i - 1 \in 1..n
          BY <1>1
        <4> QED
          BY <4>1 DEF h
      <3>2. txt[i] = StructString(s, IF i = 1 THEN root ELSE get_struct_name(list[i - 1]))
        BY <2>1 DEF Texts
      <3> QED
        BY <3>1, <3>2
    <2>3. txt = [i \in 1..(n + 1) |-> txt[i]]
      BY <2>1
    <2> QED
      BY <1>8, <2>2, <2>3
  <1>10. EncodeType(s, root)
         = FlattenSeq([i \in 1..(Len(Sorted(D)) + 1) |->
               StructString(s, IF i = 1 THEN root ELSE Sorted(D)[i - 1])])
    BY Zenon DEF EncodeType, D
  <1> QED
    BY <1>7, <1>9, <1>10

LEMMA TextFinishStep ==
    ASSUME \A s \in Schemas : Plain(s), EncInv, TextInv, FinishHash
    PROVE  TextInv'
  <1> DEFINE idx == mem_dealloc_pointers(mem_idx, Len(deps))
             fits == CanAlloc(idx, HASH_SIZE)
  <1>1. /\ Busy /\ call.at = "encode" /\ frames = << >> /\ call \in Call /\ Len(text) = Len(deps) + 1
        /\ UNCHANGED <<mem, intact, defined, schema, told, frames, deps, text>>
    BY DEF FinishHash, Busy, EncInv, CallInv
  <1>2. call' = [call EXCEPT !.at = "done", !.result = IF fits THEN "hash" ELSE NULL]
    BY DEF FinishHash
  <1>3. idx = call.from
    BY <1>1, BusyFacts, EncodingAssumption DEF mem_dealloc_pointers
  <1> HIDE DEF idx
  <1>4. /\ call'.at = "done" /\ call'.name = call.name /\ call'.from = call.from
        /\ fits => call'.result = "hash"
    BY <1>1, <1>2 DEF Call
  <1>5. ASSUME Roomy, ~Recursive(schema, call.name)
        PROVE  call'.result = "hash" /\ FlattenSeq(text') = EncodeType(schema, call.name)
    <2>1. fits
      BY <1>3, <1>5 DEF Roomy
    <2>2. Walk(schema, call.name, deps, << >>) /\ Texts(schema, call.name, deps, text)
      BY <1>1, <1>5 DEF TextInv
    <2>3. \A i \in 1..(Len(deps) - 1) : Ascends(deps, i)
      BY <1>1 DEF EncInv, SortInv
    <2>4. PICK T : text \in Seq(T)
      BY <1>1, BusyFacts
    <2>5. Understood(schema) /\ call.name \in StructsOf(schema) /\ Listing(deps)
      BY <1>1, SchemaUnderstood
    <2>6. FlattenSeq(text) = EncodeType(schema, call.name)
      BY <1>1, <1>5, <2>2, <2>3, <2>4, <2>5, TextWhole
    <2> QED
      BY <1>1, <1>4, <2>1, <2>6
  <1>6. ~Busy'
    BY <1>4 DEF Busy
  <1> QED
    BY <1>1, <1>4, <1>5, <1>6, CallGoesOn

LEMMA TextStepKept ==
    ASSUME \A s \in Schemas : Plain(s)
    PROVE  EncInv /\ TextInv /\ [EncodingNext]_encodingVars => TextInv'
  <1> SUFFICES ASSUME EncInv, TextInv, [EncodingNext]_encodingVars PROVE TextInv'
    OBVIOUS
  <1>1. CASE UNCHANGED encodingVars
    <2>1. UNCHANGED <<mem, intact, defined, schema, told, call, frames, deps, text>>
      BY <1>1 DEF encodingVars, vars, defVars
    <2>2. ToldRead'
      BY <2>1, ToldReadSame DEF TextInv
    <2>3. Roomy' <=> Roomy
      BY <2>1 DEF Roomy, CanAlloc
    <2>4. TextIsEncodeType'
      BY <2>1, <2>3 DEF TextInv, TextIsEncodeType
    <2>5. ASSUME Busy', Roomy'
          PROVE  /\ Walk(schema, call.name, deps, frames)'
                 /\ Texts(schema, call.name, deps, text)'
      <3>1. /\ Walk(schema', call'.name, deps', frames')
            /\ Texts(schema', call'.name, deps', text')
        BY <2>1, <2>3, <2>5 DEF TextInv, Busy
      <3> QED
        BY <2>1, <3>1, WalkSame
    <2>6. Busy' => call'.name \in StructsOf(schema')
      BY <2>1 DEF TextInv, Busy
    <2> QED
      BY <2>2, <2>4, <2>5, <2>6 DEF TextInv
  <1>2. CASE SendStructName
    <2>1. call' = NoCall
      BY <1>2 DEF SendStructName, EncInv, ToldInv
    <2> QED
      BY <1>2, <2>1, ToldReadName, NoCallStep DEF TextInv
  <1>3. CASE SendStructField
    <2>1. told # schema
      <3>1. told = schema => Last(told) = schema[Len(told)]
        BY DEF Last
      <3> DEFINE m == Len(Last(told).fields)
      <3>2. told = schema => m < m
        BY <1>3, <3>1 DEF SendStructField
      <3>3. told = schema => m \in Nat
        <4>1. told \in Seq(JsonStruct) /\ told # << >>
          BY <1>3 DEF SendStructField, EncInv, ToldInv
        <4>2. Last(told) \in JsonStruct
          BY <4>1 DEF Last
        <4> QED
          BY <4>2 DEF JsonStruct
      <3> HIDE DEF m
      <3> QED
        BY <3>2, <3>3
    <2>2. call' = NoCall
      BY <1>3, <2>1 DEF SendStructField, EncInv, ToldInv
    <2> QED
      BY <1>3, <2>2, ToldReadField, NoCallStep DEF TextInv
  <1>4. ASSUME NEW room \in Rooms, Occupy(room) PROVE TextInv'
    <2>1. call' = NoCall /\ UNCHANGED <<mem, intact, defined, told>>
      BY <1>4 DEF Occupy
    <2> QED
      BY <2>1, ToldReadSame, NoCallStep DEF TextInv
  <1>5. ASSUME NEW i \in DOMAIN schema, type_hash(schema[i].name) PROVE TextInv'
    BY <1>5, TextCallStep
  <1> QED
    BY <1>1, <1>2, <1>3, <1>4, <1>5, TextSkipStep, TextAddStep, TextReturnStep,
       TextCompareStep, TextPassStep, TextEncodeStep, TextFinishStep DEF EncodingNext, SortStep

(* Whatever plain types the host defines, whichever of them is hashed and  *)
(* wherever memory ends: where it suffices, the text that type_hash() puts *)
(* into the hash is the one that the reference library's encodeType()      *)
(* writes from the JSON message.                                           *)
THEOREM TextEncoded ==
    ASSUME \A s \in Schemas : Plain(s)
    PROVE  EncodingSpec => []TextIsEncodeType
  <1>1. EncodingInit => TextInv
    <2> SUFFICES ASSUME EncodingInit PROVE TextInv
      OBVIOUS
    <2>1. call.at = "none"
      BY DEF EncodingInit, NoCall
    <2> QED
      BY <2>1, ToldReadStarts DEF TextInv, Busy, TextIsEncodeType
  <1>2. EncInv /\ TextInv /\ [EncodingNext]_encodingVars => TextInv'
    BY TextStepKept
  <1>3. TextInv => TextIsEncodeType
    BY DEF TextInv
  <1> QED
    BY EncStarts, EncStep, <1>1, <1>2, <1>3, PTL DEF EncodingSpec

=============================================================================
