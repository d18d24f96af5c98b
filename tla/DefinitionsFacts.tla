-------------------------- MODULE DefinitionsFacts --------------------------
(***************************************************************************)
(* What is stored for a definition, and what is read there again, for      *)
(* every memory, buffer and definition; no step of Definitions yet.        *)
(*                                                                         *)
(* A sequence held in memory from an address on (Holds) is the notion that *)
(* joins the two sides. Storing: pieces that are allocated one after the   *)
(* other leave in memory what they join to (Covers), although a level of   *)
(* an array is stored over what lies behind the one byte allocated for it, *)
(* because the piece behind it is stored later. What arrives of a field    *)
(* that fits its APDU are the pieces of its payload (FieldArrives), as far *)
(* as the memory has room for them. Reading: the accessors at the address  *)
(* where a payload is held give back the field it is of, and where the     *)
(* next one begins.                                                        *)
(*                                                                         *)
(* The accessors walk memory by recursive functions; each is first shown   *)
(* to take its steps (Recursion), over any memory m.                       *)
(***************************************************************************)
EXTENDS Definitions, SequenceTheorems, TLAPS

-----------------------------------------------------------------------------

(***************************************************************************)
(* The recursive functions that add up and store pieces.                   *)
(***************************************************************************)

AddSize(total, piece, n) == total + piece.size

Sizes == INSTANCE Recursion WITH Step <- AddSize

LEMMA SizeSteps ==
    ASSUME NEW pieces
    PROVE  /\ SizeOf(pieces, 0) = 0
           /\ \A n \in Nat : SizeOf(pieces, n + 1) = SizeOf(pieces, n) + pieces[n + 1].size
  <1> DEFINE f(n) == CHOOSE g : Sizes!IsRunUpTo(g, 0, pieces, n)
  <1>1. \A n \in Nat : SizeOf(pieces, n) = f(n)[n]
    BY DEF SizeOf, Sizes!IsRunUpTo, AddSize
  <1>2. ASSUME NEW n \in Nat PROVE Sizes!RunsTo(f(n), 0, pieces, n)
    <2>1. \E g : Sizes!IsRunUpTo(g, 0, pieces, n)
      BY Sizes!RunUpToExists
    <2>2. Sizes!IsRunUpTo(f(n), 0, pieces, n)
      BY <2>1
    <2> QED
      BY <2>2, Sizes!RunUpToRuns
  <1> HIDE DEF f
  <1>3. f(0)[0] = 0
    BY <1>2 DEF Sizes!RunsTo
  <1>4. ASSUME NEW n \in Nat PROVE f(n + 1)[n + 1] = f(n)[n] + pieces[n + 1].size
    <2>1. n + 1 \in Nat /\ n + 1 \in 1..(n + 1) /\ (n + 1) - 1 = n /\ n \in 0..n
      OBVIOUS
    <2>2. Sizes!RunsTo(f(n + 1), 0, pieces, n + 1)
      BY <1>2, <2>1
    <2>3. Sizes!RunsTo(f(n + 1), 0, pieces, n)
      BY <2>2 DEF Sizes!RunsTo
    <2>4. f(n + 1)[n] = f(n)[n]
      BY <1>2, <2>1, <2>3, Sizes!SameRun
    <2> QED
      BY <2>1, <2>2, <2>4 DEF Sizes!RunsTo, AddSize
  <1> QED
    BY <1>1, <1>3, <1>4

StorePiece(m, place, n) == Written(m, place.address, place.bytes)

Stores == INSTANCE Recursion WITH Step <- StorePiece

Places(p, pieces) ==
    [i \in Nat |-> [address |-> p + SizeOf(pieces, i - 1), bytes |-> pieces[i].bytes]]

(* g is the memory after each of the first n pieces.                       *)
Storing(g, m, p, pieces, n) ==
    g = [i \in 0..n |-> IF i = 0 THEN m
                        ELSE Written(g[i - 1], p + SizeOf(pieces, i - 1), pieces[i].bytes)]

LEMMA StoredRuns ==
    ASSUME NEW m, NEW p, NEW pieces, NEW n \in Nat
    PROVE  \E g : /\ Stores!RunsTo(g, m, Places(p, pieces), n)
                  /\ Stored(m, p, pieces, n) = g[n]
  <1> DEFINE g == CHOOSE h : Storing(h, m, p, pieces, n)
  <1>1. PICK h : Stores!IsRunUpTo(h, m, Places(p, pieces), n)
    BY Stores!RunUpToExists
  <1>2. ASSUME NEW i \in 0..n
        PROVE  h[i] = IF i = 0 THEN m
                      ELSE Written(h[i - 1], p + SizeOf(pieces, i - 1), pieces[i].bytes)
    BY <1>1 DEF Stores!IsRunUpTo, StorePiece, Places
  <1>3. h = [i \in 0..n |-> h[i]]
    BY <1>1 DEF Stores!IsRunUpTo
  <1>4. Storing(h, m, p, pieces, n)
    BY <1>2, <1>3 DEF Storing
  <1>5. Storing(g, m, p, pieces, n)
    BY <1>4
  <1>6. Stored(m, p, pieces, n) = g[n]
    BY DEF Stored, Storing
  <1> HIDE DEF g
  <1>7. g[0] = m
    BY <1>5 DEF Storing
  <1>8. ASSUME NEW i \in 1..n PROVE g[i] = StorePiece(g[i - 1], Places(p, pieces)[i], i)
    <2>1. i \in 0..n /\ i # 0 /\ i \in Nat
      OBVIOUS
    <2>2. g[i] = Written(g[i - 1], p + SizeOf(pieces, i - 1), pieces[i].bytes)
      BY <1>5, <2>1 DEF Storing
    <2> QED
      BY <2>1, <2>2 DEF StorePiece, Places
  <1>9. Stores!RunsTo(g, m, Places(p, pieces), n)
    BY <1>7, <1>8 DEF Stores!RunsTo
  <1> QED
    BY <1>6, <1>9

LEMMA StoredNone == ASSUME NEW m, NEW p, NEW pieces PROVE Stored(m, p, pieces, 0) = m
  <1>1. PICK g : /\ Stores!RunsTo(g, m, Places(p, pieces), 0)
                 /\ Stored(m, p, pieces, 0) = g[0]
    BY StoredRuns
  <1> QED
    BY <1>1 DEF Stores!RunsTo

LEMMA StoredNext ==
    ASSUME NEW m, NEW p, NEW pieces, NEW n \in Nat
    PROVE  Stored(m, p, pieces, n + 1) =
               Written(Stored(m, p, pieces, n), p + SizeOf(pieces, n), pieces[n + 1].bytes)
  <1>1. n + 1 \in Nat /\ n + 1 \in 1..(n + 1) /\ (n + 1) - 1 = n /\ n \in 0..n
    OBVIOUS
  <1>2. PICK g : /\ Stores!RunsTo(g, m, Places(p, pieces), n)
                 /\ Stored(m, p, pieces, n) = g[n]
    BY StoredRuns
  <1>3. PICK h : /\ Stores!RunsTo(h, m, Places(p, pieces), n + 1)
                 /\ Stored(m, p, pieces, n + 1) = h[n + 1]
    BY <1>1, StoredRuns
  <1>4. Stores!RunsTo(h, m, Places(p, pieces), n)
    BY <1>3 DEF Stores!RunsTo
  <1>5. h[n] = g[n]
    BY <1>1, <1>2, <1>4, Stores!SameRun
  <1>6. h[n + 1] = StorePiece(h[n], Places(p, pieces)[n + 1], n + 1)
    BY <1>1, <1>3 DEF Stores!RunsTo
  <1>7. Places(p, pieces)[n + 1] = [address |-> p + SizeOf(pieces, n), bytes |-> pieces[n + 1].bytes]
    BY <1>1 DEF Places
  <1> QED
    BY <1>2, <1>3, <1>5, <1>6, <1>7 DEF StorePiece

-----------------------------------------------------------------------------

(***************************************************************************)
(* Sequences joined (FlattenSeq).                                          *)
(***************************************************************************)

Join(s, t, n) == s \o t

Joins == INSTANCE Recursion WITH Step <- Join

(* f is what the first sequences make when joined, for each number of them.*)
Joined(f, seqs) ==
    /\ f[0] = << >>
    /\ \A n \in 1..Len(seqs) : f[n] = f[n - 1] \o seqs[n]

Flattening(f, seqs) ==
    f = [i \in 1..Len(seqs) |-> IF i = 1 THEN seqs[i] ELSE f[i - 1] \o seqs[i]]

LEMMA JoinedTyped ==
    ASSUME NEW K, NEW seqs \in Seq(Seq(K)), NEW f, Joined(f, seqs)
    PROVE  \A n \in 0..Len(seqs) : f[n] \in Seq(K)
  <1> DEFINE T == {n \in Nat : n <= Len(seqs) => f[n] \in Seq(K)}
  <1>1. 0 \in T
    BY EmptySeq DEF Joined
  <1>2. ASSUME NEW n \in T PROVE n + 1 \in T
    <2>1. n \in Nat /\ n + 1 \in Nat /\ (n + 1) - 1 = n /\ Len(seqs) \in Nat
      BY <1>2
    <2>2. ASSUME n + 1 <= Len(seqs) PROVE f[n + 1] \in Seq(K)
      <3>1. n + 1 \in 1..Len(seqs) /\ n <= Len(seqs)
        BY <2>1, <2>2
      <3>2. f[n] \in Seq(K) /\ seqs[n + 1] \in Seq(K)
        BY <1>2, <3>1
      <3>3. f[n + 1] = f[n] \o seqs[n + 1]
        BY <2>1, <3>1 DEF Joined
      <3> QED
        BY <3>2, <3>3, ConcatProperties
    <2> QED
      BY <2>1, <2>2
  <1> HIDE DEF T
  <1>3. T = Nat
    <2>1. T \in SUBSET Nat
      BY DEF T
    <2> QED
      BY <1>1, <1>2, <2>1, Sizes!SetInduction
  <1> QED
    BY <1>3 DEF T

LEMMA FlattenJoins ==
    ASSUME NEW K, NEW seqs \in Seq(Seq(K))
    PROVE  \E f : Joined(f, seqs) /\ FlattenSeq(seqs) = f[Len(seqs)]
  <1> DEFINE m == Len(seqs)
  <1>1. m \in Nat /\ \A i \in 1..m : seqs[i] \in Seq(K)
    OBVIOUS
  <1>2. CASE m = 0
    <2> DEFINE f == [n \in {0} |-> << >>]
    <2>1. seqs = << >>
      BY <1>2
    <2>2. f[0] = << >>
      OBVIOUS
    <2> HIDE DEF f
    <2>3. Joined(f, seqs)
      BY <1>2, <2>2 DEF Joined
    <2>4. FlattenSeq(seqs) = seqs
      BY <1>2 DEF FlattenSeq
    <2> QED
      BY <1>2, <2>1, <2>2, <2>3, <2>4
  <1>3. CASE m # 0
    <2>1. PICK g : Joins!IsRunUpTo(g, << >>, seqs, m)
      BY <1>1, Joins!RunUpToExists
    <2> DEFINE h == [i \in 1..m |-> g[i]]
    <2>2. ASSUME NEW i \in 1..m
          PROVE  h[i] = IF i = 1 THEN seqs[i] ELSE h[i - 1] \o seqs[i]
      <3>1. i \in 0..m /\ i # 0 /\ seqs[i] \in Seq(K)
        BY <1>1
      <3>2. h[i] = g[i - 1] \o seqs[i]
        BY <2>1, <3>1 DEF Joins!IsRunUpTo, Join
      <3>3. CASE i = 1
        <4>1. g[0] = << >>
          BY <1>1, <2>1 DEF Joins!IsRunUpTo
        <4>2. << >> \o seqs[i] = seqs[i]
          BY <3>1
        <4>3. i - 1 = 0
          BY <3>3
        <4>4. h[i] = << >> \o seqs[i]
          BY <3>2, <4>1, <4>3
        <4> QED
          BY <3>3, <4>2, <4>4
      <3>4. CASE i # 1
        <4>1. i - 1 \in 1..m
          BY <3>4
        <4> QED
          BY <3>2, <3>4, <4>1
      <3> QED
        BY <3>3, <3>4
    <2>3. h = [i \in 1..m |-> h[i]]
      OBVIOUS
    <2> HIDE DEF h
    <2>4. Flattening(h, seqs)
      BY <2>2, <2>3 DEF Flattening
    <2> DEFINE c == CHOOSE k : Flattening(k, seqs)
    <2>5. Flattening(c, seqs)
      BY <2>4
    <2>6. FlattenSeq(seqs) = c[m]
      BY <1>3 DEF FlattenSeq, Flattening
    <2> HIDE DEF c
    <2> DEFINE f == [n \in 0..m |-> IF n = 0 THEN << >> ELSE c[n]]
    <2>7. f[0] = << >> /\ f[m] = c[m]
      BY <1>1, <1>3
    <2>8. ASSUME NEW n \in 1..m PROVE f[n] = f[n - 1] \o seqs[n]
      <3>1. n \in 0..m /\ n # 0 /\ n - 1 \in 0..m /\ seqs[n] \in Seq(K)
        BY <1>1
      <3>2. c[n] = IF n = 1 THEN seqs[n] ELSE c[n - 1] \o seqs[n]
        BY <2>5 DEF Flattening
      <3>3. CASE n = 1
        <4>1. << >> \o seqs[n] = seqs[n]
          BY <3>1
        <4>2. n - 1 = 0
          BY <3>3
        <4>3. f[n] = seqs[n] /\ f[n - 1] = << >>
          BY <3>1, <3>2, <3>3, <4>2
        <4> QED
          BY <4>1, <4>3
      <3>4. CASE n # 1
        <4>1. n - 1 # 0
          BY <3>4
        <4>2. f[n] = c[n] /\ f[n - 1] = c[n - 1]
          BY <3>1, <4>1
        <4> QED
          BY <3>2, <3>4, <4>2
      <3> QED
        BY <3>3, <3>4
    <2> HIDE DEF f
    <2>9. Joined(f, seqs)
      BY <2>7, <2>8 DEF Joined
    <2> QED
      BY <2>6, <2>7, <2>9
  <1> QED
    BY <1>2, <1>3

LEMMA FlattenTyped ==
    ASSUME NEW K, NEW seqs \in Seq(Seq(K))
    PROVE  FlattenSeq(seqs) \in Seq(K)
  <1>1. PICK f : Joined(f, seqs) /\ FlattenSeq(seqs) = f[Len(seqs)]
    BY FlattenJoins
  <1>2. Len(seqs) \in 0..Len(seqs)
    BY LenProperties
  <1> QED
    BY <1>1, <1>2, JoinedTyped

-----------------------------------------------------------------------------

(***************************************************************************)
(* Pieces that are stored cover what they join to.                         *)
(***************************************************************************)

Memory == [0..(SIZE_MEM_BUFFER - 1) -> Byte]

AnyPiece == [size : Nat, bytes : Seq(Byte)]

(* No piece is smaller than what is asked for it.                          *)
Fits(pieces) ==
    /\ pieces \in Seq(AnyPiece)
    /\ \A n \in 1..Len(pieces) : pieces[n].size <= Len(pieces[n].bytes)

Trim(piece) == SubSeq(piece.bytes, 1, piece.size)

Covering(f, pieces) ==
    /\ f[0] = << >>
    /\ \A n \in 1..Len(pieces) : f[n] = f[n - 1] \o Trim(pieces[n])

(* What remains of the pieces once each has overwritten the surplus of the *)
(* one before.                                                             *)
Covers(pieces, img) == \E f : Covering(f, pieces) /\ img = f[Len(pieces)]

(* m has the bytes s from p on.                                            *)
Holds(m, p, s) == \A i \in 1..Len(s) : m[p + i - 1] = s[i]

LEMMA SizeType ==
    ASSUME NEW pieces \in Seq(AnyPiece)
    PROVE  \A n \in Nat : n <= Len(pieces) =>
               \A k \in 0..n : SizeOf(pieces, k) \in Nat /\ SizeOf(pieces, k) <= SizeOf(pieces, n)
  <1> DEFINE Z(n) == SizeOf(pieces, n)
             K == {n \in Nat : n <= Len(pieces) => \A k \in 0..n : Z(k) \in Nat /\ Z(k) <= Z(n)}
  <1>1. Z(0) = 0 /\ \A n \in Nat : Z(n + 1) = Z(n) + pieces[n + 1].size
    BY SizeSteps
  <1>2. Len(pieces) \in Nat /\ \A n \in 1..Len(pieces) : pieces[n].size \in Nat
    <2>1. Len(pieces) \in Nat /\ \A n \in 1..Len(pieces) : pieces[n] \in AnyPiece
      BY LenProperties, ElementOfSeq
    <2> QED
      BY <2>1 DEF AnyPiece
  <1> HIDE DEF Z
  <1>3. 0 \in K
    BY <1>1, SMTT(30)
  <1>4. ASSUME NEW n \in K PROVE n + 1 \in K
    <2>1. n \in Nat /\ n + 1 \in Nat
      BY <1>4
    <2>2. ASSUME n + 1 <= Len(pieces)
          PROVE  \A k \in 0..(n + 1) : Z(k) \in Nat /\ Z(k) <= Z(n + 1)
      <3>1. n + 1 \in 1..Len(pieces) /\ n <= Len(pieces)
        BY <1>2, <2>1, <2>2
      <3>2. n \in 0..n /\ \A k \in 0..n : Z(k) \in Nat /\ Z(k) <= Z(n)
        BY <1>4, <2>1, <3>1
      <3>3. Z(n + 1) = Z(n) + pieces[n + 1].size /\ pieces[n + 1].size \in Nat
        BY <1>1, <1>2, <2>1, <3>1
      <3>4. ASSUME NEW k \in 0..(n + 1) PROVE Z(k) \in Nat /\ Z(k) <= Z(n + 1)
        <4>1. k = n + 1 \/ k \in 0..n
          BY <2>1
        <4> QED
          BY <3>2, <3>3, <4>1, SMTT(30)
      <3> QED
        BY <3>4
    <2> QED
      BY <2>1, <2>2
  <1> HIDE DEF K
  <1>5. K = Nat
    <2>1. K \in SUBSET Nat
      BY DEF K
    <2> QED
      BY <1>3, <1>4, <2>1, Sizes!SetInduction
  <1> QED
    BY <1>5 DEF K, Z

(* w is m but for bytes at p.                                              *)
Overwrites(w, m, p, bytes) ==
    \A a \in 0..(SIZE_MEM_BUFFER - 1) :
        w[a] = IF a \in p..(p + Len(bytes) - 1) THEN bytes[a - p + 1] ELSE m[a]

LEMMA WrittenType ==
    ASSUME NEW m \in Memory, NEW p \in Nat, NEW bytes \in Seq(Byte)
    PROVE  Written(m, p, bytes) \in Memory /\ Overwrites(Written(m, p, bytes), m, p, bytes)
  <1>1. DOMAIN m = 0..(SIZE_MEM_BUFFER - 1) /\ SIZE_MEM_BUFFER \in Nat /\ Len(bytes) \in Nat
    BY StructDefsAssumption DEF Memory
  <1>2. \A a \in 0..(SIZE_MEM_BUFFER - 1) :
            Written(m, p, bytes)[a] =
                IF a \in p..(p + Len(bytes) - 1) THEN bytes[a - p + 1] ELSE m[a]
    BY <1>1 DEF Written
  <1>3. ASSUME NEW a \in 0..(SIZE_MEM_BUFFER - 1) PROVE Written(m, p, bytes)[a] \in Byte
    <2>1. CASE a \in p..(p + Len(bytes) - 1)
      <3>1. a - p + 1 \in 1..Len(bytes)
        BY <1>1, <2>1
      <3> QED
        BY <1>2, <2>1, <3>1
    <2>2. CASE a \notin p..(p + Len(bytes) - 1)
      BY <1>2, <2>2 DEF Memory
    <2> QED
      BY <2>1, <2>2
  <1>4. Written(m, p, bytes) = [a \in 0..(SIZE_MEM_BUFFER - 1) |-> Written(m, p, bytes)[a]]
    BY <1>1 DEF Written
  <1> QED
    BY <1>2, <1>3, <1>4 DEF Memory, Overwrites

LEMMA StoredType ==
    ASSUME NEW m \in Memory, NEW p \in Nat, NEW pieces \in Seq(AnyPiece)
    PROVE  \A n \in 0..Len(pieces) :
               /\ Stored(m, p, pieces, n) \in Memory
               /\ \A a \in 0..(SIZE_MEM_BUFFER - 1) : a < p => Stored(m, p, pieces, n)[a] = m[a]
  <1> DEFINE M(n) == Stored(m, p, pieces, n)
             Good(n) == /\ M(n) \in Memory
                        /\ \A a \in 0..(SIZE_MEM_BUFFER - 1) : a < p => M(n)[a] = m[a]
             K == {n \in Nat : n <= Len(pieces) => Good(n)}
  <1>1. M(0) = m
    BY StoredNone
  <1>7. ASSUME NEW n \in Nat
        PROVE  M(n + 1) = Written(M(n), p + SizeOf(pieces, n), pieces[n + 1].bytes)
    BY StoredNext
  <1>2. /\ Len(pieces) \in Nat
        /\ \A n \in 1..Len(pieces) : pieces[n].bytes \in Seq(Byte)
        /\ \A n \in 0..Len(pieces) : SizeOf(pieces, n) \in Nat
    <2>1. Len(pieces) \in Nat /\ \A n \in 1..Len(pieces) : pieces[n] \in AnyPiece
      BY LenProperties, ElementOfSeq
    <2>2. \A n \in 0..Len(pieces) : SizeOf(pieces, n) \in Nat
      BY <2>1, SizeType
    <2> QED
      BY <2>1, <2>2 DEF AnyPiece
  <1> HIDE DEF M
  <1>3. 0 \in K
    BY <1>1
  <1>4. ASSUME NEW n \in K PROVE n + 1 \in K
    <2>1. n \in Nat /\ n + 1 \in Nat
      BY <1>4
    <2>2. ASSUME n + 1 <= Len(pieces) PROVE Good(n + 1)
      <3>1. n + 1 \in 1..Len(pieces) /\ n <= Len(pieces) /\ n \in 0..Len(pieces)
        BY <1>2, <2>1, <2>2
      <3>2. Good(n)
        BY <1>4, <3>1
      <3> DEFINE q == p + SizeOf(pieces, n)
                 bytes == pieces[n + 1].bytes
      <3>3. M(n + 1) = Written(M(n), q, bytes)
        BY <1>7, <2>1
      <3>6. q \in Nat /\ q >= p
        BY <1>2, <3>1
      <3>7. bytes \in Seq(Byte)
        BY <1>2, <3>1
      <3>8. M(n) \in Memory
        BY <3>2
      <3> HIDE DEF q, bytes, Good
      <3>4. M(n + 1) \in Memory /\ Overwrites(M(n + 1), M(n), q, bytes)
        BY <3>3, <3>6, <3>7, <3>8, WrittenType
      <3>5. ASSUME NEW a \in 0..(SIZE_MEM_BUFFER - 1), a < p PROVE M(n + 1)[a] = m[a]
        <4>1. a \notin q..(q + Len(bytes) - 1)
          BY <3>6, <3>5
        <4> QED
          BY <3>2, <3>4, <3>5, <4>1 DEF Good, Overwrites
      <3> QED
        BY <3>4, <3>5 DEF Good
    <2> HIDE DEF Good
    <2> QED
      BY <2>1, <2>2
  <1> HIDE DEF K
  <1>5. K = Nat
    <2>1. K \in SUBSET Nat
      BY DEF K
    <2> QED
      BY <1>3, <1>4, <2>1, Sizes!SetInduction
  <1> HIDE DEF Good
  <1>6. \A n \in 0..Len(pieces) : Good(n)
    BY <1>5 DEF K
  <1> QED
    BY <1>6 DEF Good, M

LEMMA FitsPiece ==
    ASSUME NEW pieces, Fits(pieces), NEW n \in 1..Len(pieces)
    PROVE  /\ Len(pieces) \in Nat
           /\ pieces[n].bytes \in Seq(Byte)
           /\ pieces[n].size \in Nat
           /\ pieces[n].size <= Len(pieces[n].bytes)
  <1>1. pieces[n] \in AnyPiece /\ Len(pieces) \in Nat
    BY LenProperties, ElementOfSeq DEF Fits
  <1> QED
    BY <1>1 DEF AnyPiece, Fits

LEMMA TrimType ==
    ASSUME NEW pieces, Fits(pieces), NEW n \in 1..Len(pieces)
    PROVE  /\ Trim(pieces[n]) \in Seq(Byte)
           /\ Len(Trim(pieces[n])) = pieces[n].size
           /\ \A i \in 1..pieces[n].size : Trim(pieces[n])[i] = pieces[n].bytes[i]
  <1> DEFINE t == Trim(pieces[n])
             bytes == pieces[n].bytes
             size == pieces[n].size
  <1>1. bytes \in Seq(Byte) /\ size \in Nat /\ size <= Len(bytes) /\ Len(bytes) \in Nat
    BY FitsPiece, LenProperties
  <1>2. t = SubSeq(bytes, 1, size)
    BY DEF Trim
  <1> HIDE DEF bytes, size, t
  <1>3. \A i \in 1..size : bytes[i] \in Byte
    BY <1>1, ElementOfSeq
  <1>4. /\ SubSeq(bytes, 1, size) \in Seq(Byte)
        /\ Len(SubSeq(bytes, 1, size)) = IF 1 <= size THEN size - 1 + 1 ELSE 0
        /\ \A i \in 1..(size - 1 + 1) : SubSeq(bytes, 1, size)[i] = bytes[1 + i - 1]
    BY <1>1, <1>3, SubSeqProperties
  <1>5. Len(t) = size
    BY <1>1, <1>2, <1>4
  <1>6. ASSUME NEW i \in 1..size PROVE t[i] = bytes[i]
    <2>1. i \in 1..(size - 1 + 1) /\ 1 + i - 1 = i
      BY <1>1
    <2> QED
      BY <1>2, <1>4, <2>1
  <1> QED
    BY <1>2, <1>4, <1>5, <1>6 DEF t, size, bytes

LEMMA CoveringType ==
    ASSUME NEW pieces, Fits(pieces), NEW f, Covering(f, pieces)
    PROVE  \A n \in 0..Len(pieces) : f[n] \in Seq(Byte) /\ Len(f[n]) = SizeOf(pieces, n)
  <1> DEFINE K == {n \in Nat : n <= Len(pieces) =>
                                   f[n] \in Seq(Byte) /\ Len(f[n]) = SizeOf(pieces, n)}
  <1>1. /\ Len(pieces) \in Nat
        /\ \A n \in 1..Len(pieces) : /\ pieces[n].bytes \in Seq(Byte)
                                     /\ pieces[n].size \in Nat
                                     /\ pieces[n].size <= Len(pieces[n].bytes)
    <2>1. Len(pieces) \in Nat /\ \A n \in 1..Len(pieces) : pieces[n] \in AnyPiece
      BY LenProperties, ElementOfSeq DEF Fits
    <2> QED
      BY <2>1 DEF AnyPiece, Fits
  <1>2. SizeOf(pieces, 0) = 0
        /\ \A n \in Nat : SizeOf(pieces, n + 1) = SizeOf(pieces, n) + pieces[n + 1].size
    BY SizeSteps
  <1>3. 0 \in K
    BY <1>2, EmptySeq DEF Covering
  <1>4. ASSUME NEW n \in K PROVE n + 1 \in K
    <2>1. n \in Nat /\ n + 1 \in Nat /\ (n + 1) - 1 = n
      BY <1>4
    <2>2. ASSUME n + 1 <= Len(pieces)
          PROVE  f[n + 1] \in Seq(Byte) /\ Len(f[n + 1]) = SizeOf(pieces, n + 1)
      <3>1. n + 1 \in 1..Len(pieces) /\ n <= Len(pieces)
        BY <1>1, <2>1, <2>2
      <3>2. f[n] \in Seq(Byte) /\ Len(f[n]) = SizeOf(pieces, n)
        BY <1>4, <3>1
      <3> DEFINE t == Trim(pieces[n + 1])
      <3>3. t \in Seq(Byte) /\ Len(t) = pieces[n + 1].size
        BY <3>1, TrimType
      <3>4. f[n + 1] = f[n] \o t
        BY <2>1, <3>1 DEF Covering
      <3> HIDE DEF t
      <3>5. f[n + 1] \in Seq(Byte) /\ Len(f[n + 1]) = Len(f[n]) + Len(t)
        BY <3>2, <3>3, <3>4, ConcatProperties, ZenonT(60)
      <3> QED
        BY <1>2, <2>1, <3>2, <3>3, <3>5
    <2> QED
      BY <2>1, <2>2
  <1> HIDE DEF K
  <1>5. K = Nat
    <2>1. K \in SUBSET Nat
      BY DEF K
    <2> QED
      BY <1>3, <1>4, <2>1, Sizes!SetInduction
  <1> QED
    BY <1>5 DEF K

LEMMA CoversType ==
    ASSUME NEW pieces, Fits(pieces), NEW img, Covers(pieces, img)
    PROVE  img \in Seq(Byte) /\ Len(img) = SizeOf(pieces, Len(pieces))
  <1>1. PICK f : Covering(f, pieces) /\ img = f[Len(pieces)]
    BY DEF Covers
  <1>2. Len(pieces) \in 0..Len(pieces)
    BY LenProperties DEF Fits
  <1> QED
    BY <1>1, <1>2, CoveringType

LEMMA CoversNone == Fits(<< >>) /\ Covers(<< >>, << >>)
  <1> DEFINE f == [n \in {0} |-> << >>]
  <1>1. Len(<< >>) = 0 /\ << >> \in Seq(AnyPiece)
    BY EmptySeq
  <1>2. f[0] = << >>
    OBVIOUS
  <1> HIDE DEF f
  <1>3. Covering(f, << >>)
    BY <1>1, <1>2 DEF Covering
  <1> QED
    BY <1>1, <1>2, <1>3 DEF Fits, Covers

LEMMA CoversOne ==
    ASSUME NEW piece \in AnyPiece, piece.size <= Len(piece.bytes)
    PROVE  Fits(<<piece>>) /\ Covers(<<piece>>, Trim(piece))
  <1> DEFINE pieces == <<piece>>
             f == [n \in 0..1 |-> IF n = 0 THEN << >> ELSE Trim(piece)]
  <1>1. pieces \in Seq(AnyPiece) /\ Len(pieces) = 1 /\ pieces[1] = piece
    OBVIOUS
  <1>2. f[0] = << >> /\ f[1] = Trim(piece)
    OBVIOUS
  <1> HIDE DEF pieces, f
  <1>3. Fits(pieces)
    BY <1>1 DEF Fits
  <1>4. Trim(piece) \in Seq(Byte)
    <2>1. 1 \in 1..Len(pieces)
      BY <1>1
    <2> QED
      BY <1>1, <1>3, <2>1, TrimType
  <1>5. << >> \o Trim(piece) = Trim(piece)
    BY <1>4, ConcatEmptySeq
  <1>6. ASSUME NEW n \in 1..1 PROVE f[n] = f[n - 1] \o Trim(pieces[n])
    <2>1. n = 1 /\ n - 1 = 0
      OBVIOUS
    <2> QED
      BY <1>1, <1>2, <1>5, <2>1
  <1>7. Covering(f, pieces)
    BY <1>1, <1>2, <1>6 DEF Covering
  <1>8. Covers(pieces, Trim(piece))
    BY <1>1, <1>2, <1>7 DEF Covers
  <1> QED
    BY <1>3, <1>8 DEF pieces

LEMMA CoversConcat ==
    ASSUME NEW a, NEW b, NEW s, NEW t, Fits(a), Fits(b), Covers(a, s), Covers(b, t)
    PROVE  Fits(a \o b) /\ Covers(a \o b, s \o t)
  <1> DEFINE k == Len(a)
             l == Len(b)
             c == a \o b
  <1>1. PICK f : Covering(f, a) /\ s = f[k]
    BY DEF Covers
  <1>2. PICK g : Covering(g, b) /\ t = g[l]
    BY DEF Covers
  <1>3. /\ a \in Seq(AnyPiece) /\ k \in Nat
        /\ b \in Seq(AnyPiece) /\ l \in Nat
    BY LenProperties DEF Fits
  <1>4. /\ c \in Seq(AnyPiece)
        /\ Len(c) = k + l
        /\ \A n \in 1..(k + l) : c[n] = IF n <= k THEN a[n] ELSE b[n - k]
    BY <1>3, ConcatProperties
  <1> DEFINE h == [n \in 0..(k + l) |-> IF n <= k THEN f[n] ELSE s \o g[n - k]]
  <1>5. s \in Seq(Byte) /\ \A n \in 0..l : g[n] \in Seq(Byte)
    BY <1>2, CoversType, CoveringType
  <1>6. Fits(c)
    <2>1. ASSUME NEW n \in 1..(k + l) PROVE c[n].size <= Len(c[n].bytes)
      <3>1. CASE n <= k
        <4>1. n \in 1..k /\ c[n] = a[n]
          BY <1>3, <1>4, <3>1
        <4> QED
          BY <4>1 DEF Fits
      <3>2. CASE ~(n <= k)
        <4>1. n - k \in 1..l /\ c[n] = b[n - k]
          BY <1>3, <1>4, <3>2
        <4> QED
          BY <4>1 DEF Fits
      <3> QED
        BY <3>1, <3>2
    <2> QED
      BY <1>4, <2>1 DEF Fits
  <1>7. \A n \in 0..(k + l) : h[n] = IF n <= k THEN f[n] ELSE s \o g[n - k]
    OBVIOUS
  <1> HIDE DEF h, c
  <1>8. h[0] = << >>
    BY <1>1, <1>3, <1>7 DEF Covering
  <1>9. ASSUME NEW n \in 1..(k + l) PROVE h[n] = h[n - 1] \o Trim(c[n])
    <2>1. n \in 0..(k + l) /\ n - 1 \in 0..(k + l)
      BY <1>3
    <2>2. CASE n <= k
      <3>1. n \in 1..k /\ n - 1 <= k
        BY <1>3, <2>2
      <3>2. c[n] = a[n] /\ h[n] = f[n] /\ h[n - 1] = f[n - 1]
        BY <1>4, <1>7, <2>1, <2>2, <3>1
      <3> QED
        BY <1>1, <3>1, <3>2 DEF Covering
    <2>3. CASE ~(n <= k)
      <3> DEFINE j == n - k
      <3>1. j \in 1..l /\ j - 1 \in 0..l /\ j \in 0..l /\ (n - 1) - k = j - 1
        BY <1>3, <2>3
      <3>2. c[n] = b[j] /\ h[n] = s \o g[j]
        BY <1>4, <1>7, <2>1, <2>3
      <3>3. h[n - 1] = s \o g[j - 1]
        <4>1. CASE n - 1 <= k
          <5>1. n - 1 = k /\ j - 1 = 0
            BY <1>3, <2>3, <4>1
          <5>2. h[n - 1] = s
            BY <1>1, <1>7, <2>1, <4>1, <5>1
          <5>3. g[0] = << >>
            BY <1>2 DEF Covering
          <5>4. s \o << >> = s
            BY <1>5, ConcatEmptySeq
          <5> QED
            BY <5>1, <5>2, <5>3, <5>4
        <4>2. CASE ~(n - 1 <= k)
          BY <1>7, <2>1, <3>1, <4>2
        <4> QED
          BY <4>1, <4>2
      <3> HIDE DEF j
      <3>4. g[j] = g[j - 1] \o Trim(b[j])
        BY <1>2, <3>1 DEF Covering
      <3>5. g[j - 1] \in Seq(Byte) /\ Trim(b[j]) \in Seq(Byte)
        BY <1>5, <3>1, TrimType
      <3>6. s \o (g[j - 1] \o Trim(b[j])) = (s \o g[j - 1]) \o Trim(b[j])
        <4> DEFINE u == g[j - 1]
                   v == Trim(b[j])
        <4>1. s \in Seq(Byte) /\ u \in Seq(Byte) /\ v \in Seq(Byte)
          BY <1>5, <3>5
        <4> HIDE DEF u, v
        <4>2. (s \o u) \o v = s \o (u \o v)
          BY <4>1, ConcatAssociative, SMTT(30)
        <4> QED
          BY <4>2 DEF u, v
      <3> QED
        BY <3>2, <3>3, <3>4, <3>6
    <2> QED
      BY <2>2, <2>3
  <1>10. Covering(h, c)
    BY <1>4, <1>8, <1>9 DEF Covering
  <1>11. h[Len(c)] = s \o t
    <2>1. k + l \in 0..(k + l)
      BY <1>3
    <2>2. CASE l = 0
      <3>1. t = << >> /\ k + l = k
        BY <1>2, <1>3, <2>2 DEF Covering
      <3>2. s \o << >> = s
        BY <1>5, ConcatEmptySeq
      <3> QED
        BY <1>1, <1>3, <1>4, <1>7, <2>1, <3>1, <3>2
    <2>3. CASE l # 0
      <3>1. ~(k + l <= k) /\ (k + l) - k = l
        BY <1>3, <2>3
      <3> QED
        BY <1>2, <1>4, <1>7, <2>1, <3>1
    <2> QED
      BY <2>2, <2>3
  <1>12. Covers(c, s \o t)
    BY <1>10, <1>11 DEF Covers
  <1> QED
    BY <1>6, <1>12 DEF c

LEMMA HoldsConcat ==
    ASSUME NEW m, NEW p \in Int, NEW K, NEW s \in Seq(K), NEW t \in Seq(K)
    PROVE  Holds(m, p, s \o t) <=> Holds(m, p, s) /\ Holds(m, p + Len(s), t)
  <1> DEFINE c == s \o t
             k == Len(s)
             l == Len(t)
  <1>1. /\ k \in Nat /\ l \in Nat /\ Len(c) = k + l
        /\ \A i \in 1..(k + l) : c[i] = IF i <= k THEN s[i] ELSE t[i - k]
    BY LenProperties, ConcatProperties
  <1> HIDE DEF c, k, l
  <1>2. ASSUME Holds(m, p, c) PROVE Holds(m, p, s) /\ Holds(m, p + k, t)
    <2>1. ASSUME NEW i \in 1..k PROVE m[p + i - 1] = s[i]
      <3>1. i \in 1..(k + l) /\ i <= k
        BY <1>1
      <3> QED
        BY <1>1, <1>2, <3>1 DEF Holds
    <2>2. ASSUME NEW i \in 1..l PROVE m[(p + k) + i - 1] = t[i]
      <3>1. k + i \in 1..(k + l) /\ ~(k + i <= k) /\ (k + i) - k = i
        BY <1>1
      <3>2. p + (k + i) - 1 = (p + k) + i - 1
        BY <1>1
      <3>3. m[p + (k + i) - 1] = c[k + i]
        BY <1>1, <1>2, <3>1 DEF Holds
      <3>4. c[k + i] = t[i]
        BY <1>1, <3>1
      <3> QED
        BY <3>2, <3>3, <3>4
    <2> QED
      BY <2>1, <2>2 DEF Holds, k, l
  <1>3. ASSUME Holds(m, p, s), Holds(m, p + k, t) PROVE Holds(m, p, c)
    <2>1. ASSUME NEW i \in 1..(k + l) PROVE m[p + i - 1] = c[i]
      <3>1. CASE i <= k
        <4>1. i \in 1..k
          BY <1>1, <3>1
        <4> QED
          BY <1>1, <1>3, <3>1, <4>1 DEF Holds, k
      <3>2. CASE ~(i <= k)
        <4>1. i - k \in 1..l /\ (p + k) + (i - k) - 1 = p + i - 1
          BY <1>1, <3>2
        <4>2. m[(p + k) + (i - k) - 1] = t[i - k]
          BY <1>3, <4>1 DEF Holds, l
        <4> QED
          BY <1>1, <3>2, <4>1, <4>2
      <3> QED
        BY <3>1, <3>2
    <2> QED
      BY <1>1, <2>1 DEF Holds
  <1> QED
    BY <1>2, <1>3 DEF c, k

LEMMA WrittenHolds ==
    ASSUME NEW m \in Memory, NEW p \in Nat, NEW k \in Nat, NEW pieces, Fits(pieces),
           NEW n \in 1..Len(pieces), NEW s \in Seq(Byte), Len(s) = k, Holds(m, p, s),
           p + k + pieces[n].size <= SIZE_MEM_BUFFER
    PROVE  Holds(Written(m, p + k, pieces[n].bytes), p, s \o Trim(pieces[n]))
  <1> DEFINE bytes == pieces[n].bytes
             size == pieces[n].size
             t == Trim(pieces[n])
             w == Written(m, p + k, bytes)
  <1>1. bytes \in Seq(Byte) /\ size \in Nat /\ size <= Len(bytes) /\ Len(bytes) \in Nat
    BY FitsPiece, LenProperties
  <1>2. t \in Seq(Byte) /\ Len(t) = size /\ \A i \in 1..size : t[i] = bytes[i]
    BY TrimType
  <1>3. p + k + size <= SIZE_MEM_BUFFER /\ SIZE_MEM_BUFFER \in Nat
    BY StructDefsAssumption
  <1> HIDE DEF bytes, size, t
  <1>4. Overwrites(w, m, p + k, bytes)
    BY <1>1, WrittenType
  <1> HIDE DEF w
  <1>5. ASSUME NEW i \in 1..Len(s) PROVE w[p + i - 1] = s[i]
    <2>1. /\ p + i - 1 \in 0..(SIZE_MEM_BUFFER - 1)
          /\ p + i - 1 \notin (p + k)..((p + k) + Len(bytes) - 1)
      BY <1>1, <1>3
    <2>2. m[p + i - 1] = s[i]
      BY DEF Holds
    <2> QED
      BY <1>4, <2>1, <2>2 DEF Overwrites
  <1>6. ASSUME NEW i \in 1..Len(t) PROVE w[(p + Len(s)) + i - 1] = t[i]
    <2> DEFINE a == (p + Len(s)) + i - 1
    <2>1. /\ a \in 0..(SIZE_MEM_BUFFER - 1)
          /\ a \in (p + k)..((p + k) + Len(bytes) - 1)
          /\ a - (p + k) + 1 = i
          /\ i \in 1..size
      BY <1>1, <1>2, <1>3
    <2> HIDE DEF a
    <2>2. w[a] = bytes[i]
      BY <1>4, <2>1 DEF Overwrites
    <2> QED
      BY <1>2, <2>1, <2>2 DEF a
  <1>7. Holds(w, p, s) /\ Holds(w, p + Len(s), t)
    BY <1>5, <1>6 DEF Holds
  <1>8. Holds(w, p, s \o t)
    <2>1. p \in Int
      OBVIOUS
    <2>2. Holds(w, p, s \o t) <=> Holds(w, p, s) /\ Holds(w, p + Len(s), t)
      BY <1>2, <2>1, HoldsConcat
    <2> QED
      BY <1>7, <2>2
  <1> QED
    BY <1>8 DEF w, bytes, t

LEMMA StoredHolds ==
    ASSUME NEW m \in Memory, NEW p \in Nat, NEW pieces, Fits(pieces),
           NEW img, Covers(pieces, img),
           p + SizeOf(pieces, Len(pieces)) <= SIZE_MEM_BUFFER
    PROVE  Holds(Stored(m, p, pieces, Len(pieces)), p, img)
  <1>1. PICK f : Covering(f, pieces) /\ img = f[Len(pieces)]
    BY DEF Covers
  <1> DEFINE M(n) == Stored(m, p, pieces, n)
             Z(n) == SizeOf(pieces, n)
             K == {n \in Nat : n <= Len(pieces) => Holds(M(n), p, f[n])}
  <1>2. Len(pieces) \in Nat /\ pieces \in Seq(AnyPiece)
    BY LenProperties DEF Fits
  <1>3. \A n \in 0..Len(pieces) : f[n] \in Seq(Byte) /\ Len(f[n]) = Z(n) /\ M(n) \in Memory
    BY <1>1, <1>2, CoveringType, StoredType
  <1>4. \A n \in 0..Len(pieces) : Z(n) \in Nat /\ Z(n) <= Z(Len(pieces))
    BY <1>2, SizeType
  <1>5. \A n \in Nat : Z(n + 1) = Z(n) + pieces[n + 1].size
    BY SizeSteps
  <1>6. ASSUME NEW n \in Nat
        PROVE  M(n + 1) = Written(M(n), p + Z(n), pieces[n + 1].bytes)
    BY StoredNext
  <1>7. p + Z(Len(pieces)) <= SIZE_MEM_BUFFER /\ SIZE_MEM_BUFFER \in Nat
    BY StructDefsAssumption
  <1>8. 0 \in K
    <2>1. f[0] = << >> /\ Len(<< >>) = 0
      BY <1>1 DEF Covering
    <2> QED
      BY <2>1 DEF Holds
  <1> HIDE DEF M, Z
  <1>9. ASSUME NEW n \in K PROVE n + 1 \in K
    <2>1. n \in Nat /\ n + 1 \in Nat /\ (n + 1) - 1 = n
      BY <1>9
    <2>2. ASSUME n + 1 <= Len(pieces) PROVE Holds(M(n + 1), p, f[n + 1])
      <3>1. /\ n + 1 \in 1..Len(pieces) /\ n <= Len(pieces)
            /\ n \in 0..Len(pieces) /\ n + 1 \in 0..Len(pieces)
        BY <1>2, <2>1, <2>2
      <3>2. Holds(M(n), p, f[n]) /\ M(n) \in Memory /\ f[n] \in Seq(Byte) /\ Len(f[n]) = Z(n)
        BY <1>3, <1>9, <3>1
      <3>3. Z(n) \in Nat /\ p + Z(n) + pieces[n + 1].size <= SIZE_MEM_BUFFER
        <4>1. Z(n + 1) = Z(n) + pieces[n + 1].size
          BY <1>5, <2>1
        <4>2. Z(n) \in Nat /\ Z(n + 1) \in Nat /\ Z(n + 1) <= Z(Len(pieces)) /\ Z(Len(pieces)) \in Nat
          BY <1>2, <1>4, <3>1
        <4>3. pieces[n + 1].size \in Nat
          BY <3>1, FitsPiece
        <4> QED
          BY <1>7, <4>1, <4>2, <4>3, SMTT(30)
      <3>4. Holds(Written(M(n), p + Z(n), pieces[n + 1].bytes), p, f[n] \o Trim(pieces[n + 1]))
        BY <3>1, <3>2, <3>3, WrittenHolds
      <3>5. f[n + 1] = f[n] \o Trim(pieces[n + 1])
        BY <1>1, <2>1, <3>1 DEF Covering
      <3> QED
        BY <1>6, <2>1, <3>4, <3>5
    <2> QED
      BY <2>1, <2>2
  <1> HIDE DEF K
  <1>10. K = Nat
    <2>1. K \in SUBSET Nat
      BY DEF K
    <2> QED
      BY <1>8, <1>9, <2>1, Sizes!SetInduction
  <1>11. Holds(M(Len(pieces)), p, f[Len(pieces)])
    BY <1>2, <1>10 DEF K
  <1> QED
    BY <1>1, <1>11 DEF M

LEMMA AllocatedType ==
    ASSUME NEW pieces \in Seq(AnyPiece), NEW idx \in 0..SIZE_MEM_BUFFER
    PROVE  /\ Allocated(pieces, idx) \in 0..Len(pieces)
           /\ idx + SizeOf(pieces, Allocated(pieces, idx)) <= SIZE_MEM_BUFFER
  <1> DEFINE T == {n \in 0..Len(pieces) : idx + SizeOf(pieces, n) <= SIZE_MEM_BUFFER}
  <1>1. Len(pieces) \in Nat /\ SIZE_MEM_BUFFER \in Nat
    BY LenProperties, StructDefsAssumption
  <1>2. 0 \in T
    BY <1>1, SizeSteps
  <1>3. \E n \in T : \A k \in T : n >= k
    <2>1. SUFFICES ASSUME \A n \in T : \E k \in T : ~(n >= k) PROVE FALSE
      OBVIOUS
    <2> DEFINE U == {j \in Nat : \E n \in T : n >= j}
    <2>2. 0 \in U
      BY <1>2
    <2>3. ASSUME NEW j \in U PROVE j + 1 \in U
      <3>1. PICK n \in T : n >= j
        BY <2>3
      <3>2. PICK k \in T : ~(n >= k)
        BY <2>1
      <3>3. j \in Nat /\ n \in Nat /\ k \in Nat
        BY <1>1, <2>3
      <3> QED
        BY <3>1, <3>2, <3>3
    <2>4. U \in SUBSET Nat
      OBVIOUS
    <2>5. \A n \in T : n \in Nat /\ n <= Len(pieces)
      BY <1>1
    <2> HIDE DEF U, T
    <2>6. U = Nat
      BY <2>2, <2>3, <2>4, Sizes!SetInduction
    <2>7. Len(pieces) + 1 \in U
      BY <1>1, <2>6
    <2> QED
      BY <1>1, <2>5, <2>7 DEF U
  <1>4. Allocated(pieces, idx) \in T
    BY <1>3 DEF Allocated, Max
  <1> QED
    BY <1>4

LEMMA FlattenCovers ==
    ASSUME NEW lists \in Seq(Seq(AnyPiece)), NEW images \in Seq(Seq(Byte)),
           Len(lists) = Len(images),
           \A n \in 1..Len(lists) : Fits(lists[n]) /\ Covers(lists[n], images[n])
    PROVE  Fits(FlattenSeq(lists)) /\ Covers(FlattenSeq(lists), FlattenSeq(images))
  <1>1. PICK f : Joined(f, lists) /\ FlattenSeq(lists) = f[Len(lists)]
    BY FlattenJoins
  <1>2. PICK g : Joined(g, images) /\ FlattenSeq(images) = g[Len(images)]
    BY FlattenJoins
  <1> DEFINE K == {n \in Nat : n <= Len(lists) => Fits(f[n]) /\ Covers(f[n], g[n])}
  <1>3. Len(lists) \in Nat
    BY LenProperties
  <1>4. 0 \in K
    <2>1. f[0] = << >> /\ g[0] = << >>
      BY <1>1, <1>2 DEF Joined
    <2> QED
      BY <2>1, CoversNone
  <1>5. ASSUME NEW n \in K PROVE n + 1 \in K
    <2>1. n \in Nat /\ n + 1 \in Nat /\ (n + 1) - 1 = n
      BY <1>5
    <2>2. ASSUME n + 1 <= Len(lists) PROVE Fits(f[n + 1]) /\ Covers(f[n + 1], g[n + 1])
      <3>1. n + 1 \in 1..Len(lists) /\ n <= Len(lists)
        BY <1>3, <2>1, <2>2
      <3>2. Fits(f[n]) /\ Covers(f[n], g[n])
        BY <1>5, <3>1
      <3>3. Fits(lists[n + 1]) /\ Covers(lists[n + 1], images[n + 1])
        BY <3>1
      <3>4. Fits(f[n] \o lists[n + 1]) /\ Covers(f[n] \o lists[n + 1], g[n] \o images[n + 1])
        BY <3>2, <3>3, CoversConcat
      <3>5. f[n + 1] = f[n] \o lists[n + 1]
        BY <1>1, <2>1, <3>1 DEF Joined
      <3>6. g[n + 1] = g[n] \o images[n + 1]
        BY <1>2, <2>1, <3>1 DEF Joined
      <3> QED
        BY <3>4, <3>5, <3>6
    <2> QED
      BY <2>1, <2>2
  <1> HIDE DEF K
  <1>6. K = Nat
    <2>1. K \in SUBSET Nat
      BY DEF K
    <2> QED
      BY <1>4, <1>5, <2>1, Sizes!SetInduction
  <1>7. Fits(f[Len(lists)]) /\ Covers(f[Len(lists)], g[Len(lists)])
    BY <1>3, <1>6 DEF K
  <1> QED
    BY <1>1, <1>2, <1>7

(* What a list of sequences joined says of each of them.                   *)
LEMMA HoldsJoined ==
    ASSUME NEW m, NEW p \in Int, NEW K, NEW seqs \in Seq(Seq(K)), NEW f, Joined(f, seqs),
           Holds(m, p, f[Len(seqs)])
    PROVE  \A n \in 1..Len(seqs) : Holds(m, p + Len(f[n - 1]), seqs[n])
  <1> DEFINE k == Len(seqs)
             T == {n \in Nat : n <= k => Holds(m, p, f[k - n])}
  <1>1. k \in Nat
    BY LenProperties
  <1>2. \A n \in 0..k : f[n] \in Seq(K)
    BY JoinedTyped
  <1>3. ASSUME NEW n \in 1..k
        PROVE  Holds(m, p, f[n]) <=> Holds(m, p, f[n - 1]) /\ Holds(m, p + Len(f[n - 1]), seqs[n])
    <2>1. n - 1 \in 0..k
      BY <1>1
    <2>2. f[n] = f[n - 1] \o seqs[n]
      BY DEF Joined
    <2>3. f[n - 1] \in Seq(K) /\ seqs[n] \in Seq(K)
      BY <1>2, <2>1, ElementOfSeq
    <2> DEFINE s == f[n - 1]
               t == seqs[n]
    <2>4. s \in Seq(K) /\ t \in Seq(K)
      BY <2>3
    <2> HIDE DEF s, t
    <2>5. Holds(m, p, s \o t) <=> Holds(m, p, s) /\ Holds(m, p + Len(s), t)
      BY <2>4, HoldsConcat
    <2> QED
      BY <2>2, <2>5 DEF s, t
  <1> HIDE DEF k
  <1>4. 0 \in T
    <2>1. k - 0 = k
      BY <1>1
    <2> QED
      BY <2>1 DEF k
  <1>5. ASSUME NEW n \in T PROVE n + 1 \in T
    <2>1. n \in Nat /\ n + 1 \in Nat
      BY <1>5
    <2>2. ASSUME n + 1 <= k PROVE Holds(m, p, f[k - (n + 1)])
      <3>1. k - n \in 1..k /\ n <= k /\ (k - n) - 1 = k - (n + 1)
        BY <1>1, <2>1, <2>2
      <3>2. Holds(m, p, f[k - n])
        BY <1>5, <3>1
      <3> QED
        BY <1>3, <3>1, <3>2
    <2> QED
      BY <2>1, <2>2
  <1>6. T = Nat
    <2>1. T \in SUBSET Nat
      OBVIOUS
    <2> HIDE DEF T
    <2> QED
      BY <1>4, <1>5, <2>1, Sizes!SetInduction
  <1>7. ASSUME NEW n \in 1..k PROVE Holds(m, p + Len(f[n - 1]), seqs[n])
    <2>1. k - n \in Nat /\ k - n <= k /\ k - (k - n) = n
      BY <1>1
    <2>2. Holds(m, p, f[n])
      BY <1>6, <2>1
    <2> QED
      BY <1>3, <2>2
  <1> QED
    BY <1>7 DEF k

-----------------------------------------------------------------------------

(***************************************************************************)
(* The accessors take the steps of their loops.                            *)
(***************************************************************************)

(* The accessors of StructDefs, over any memory m.                         *)
HalfSkip(m, p) ==
    IF m[p] % 16 = TYPE_CUSTOM     THEN p + 1 + 1 + m[p + 1]
    ELSE IF (m[p] \div 64) % 2 = 1 THEN p + 2
    ELSE                                p + 1

NextLevel(m, p) == IF m[p] = ARRAY_FIXED_SIZE THEN p + 2 ELSE p + 1

LevelsIn(m, p) ==
    LET ptr[n \in Nat \ {0}] == IF n = 1 THEN p + 1 ELSE NextLevel(m, ptr[n - 1]) IN ptr

KeyIn(m, p) ==
    IF m[p] >= 128 THEN LevelsIn(m, HalfSkip(m, p))[m[HalfSkip(m, p)] + 1] ELSE HalfSkip(m, p)

NextField(m, p) == KeyIn(m, p) + 1 + m[KeyIn(m, p)]

FieldsIn(m, p) ==
    LET ptr[n \in Nat \ {0}] ==
            IF n = 1 THEN (p + 1 + m[p]) + 1 ELSE NextField(m, ptr[n - 1])
    IN  ptr

NextStruct(m, p) == FieldsIn(m, p)[m[p + 1 + m[p]] + 1]

StructsIn(m) ==
    LET ptr[n \in Nat \ {0}] ==
            IF n = 1 THEN structs_array + 1 ELSE NextStruct(m, ptr[n - 1])
    IN  ptr

EntryName(m, p) ==
    1 + CHOOSE a \in p..(SIZE_MEM_BUFFER - 1) :
            m[a] < 128 /\ \A b \in p..(a - 1) : m[b] >= 128

LevelStep(p, m, n) == NextLevel(m, p)
FieldStep(p, m, n) == NextField(m, p)
StructStep(p, m, n) == NextStruct(m, p)
IndexStep(i, data, n) == AfterLevel(data, i)

LevelChain == INSTANCE Recursion WITH Step <- LevelStep
FieldChain == INSTANCE Recursion WITH Step <- FieldStep
StructChain == INSTANCE Recursion WITH Step <- StructStep
IndexChain == INSTANCE Recursion WITH Step <- IndexStep

LEMMA LevelsStep ==
    ASSUME NEW m, NEW p
    PROVE  /\ LevelsIn(m, p)[1] = p + 1
           /\ \A n \in Nat \ {0} : LevelsIn(m, p)[n + 1] = NextLevel(m, LevelsIn(m, p)[n])
  <1> DEFINE F == CHOOSE G : LevelChain!IsChain(G, p + 1, m)
  <1>1. \E G : LevelChain!IsChain(G, p + 1, m)
    BY LevelChain!ChainExists
  <1>2. LevelsIn(m, p) = F
    BY DEF LevelsIn, LevelChain!IsChain, LevelStep
  <1>3. LevelChain!IsChain(F, p + 1, m)
    BY <1>1
  <1> HIDE DEF F
  <1>4. F[1] = p + 1 /\ \A n \in Nat \ {0} : F[n + 1] = LevelStep(F[n], m, n)
    BY <1>3, LevelChain!ChainSteps
  <1> QED
    BY <1>2, <1>4 DEF LevelStep

LEMMA FieldsStep ==
    ASSUME NEW m, NEW p
    PROVE  /\ FieldsIn(m, p)[1] = (p + 1 + m[p]) + 1
           /\ \A n \in Nat \ {0} : FieldsIn(m, p)[n + 1] = NextField(m, FieldsIn(m, p)[n])
  <1> DEFINE start == (p + 1 + m[p]) + 1
             F == CHOOSE G : FieldChain!IsChain(G, start, m)
  <1>1. \E G : FieldChain!IsChain(G, start, m)
    BY FieldChain!ChainExists
  <1>2. FieldsIn(m, p) = F
    BY DEF FieldsIn, FieldChain!IsChain, FieldStep
  <1>3. FieldChain!IsChain(F, start, m)
    BY <1>1
  <1> HIDE DEF F
  <1>4. F[1] = start /\ \A n \in Nat \ {0} : F[n + 1] = FieldStep(F[n], m, n)
    BY <1>3, FieldChain!ChainSteps
  <1> QED
    BY <1>2, <1>4 DEF FieldStep

LEMMA StructsStep ==
    ASSUME NEW m
    PROVE  /\ StructsIn(m)[1] = structs_array + 1
           /\ \A n \in Nat \ {0} : StructsIn(m)[n + 1] = NextStruct(m, StructsIn(m)[n])
  <1> DEFINE start == structs_array + 1
             F == CHOOSE G : StructChain!IsChain(G, start, m)
  <1>1. \E G : StructChain!IsChain(G, start, m)
    BY StructChain!ChainExists
  <1>2. StructsIn(m) = F
    BY DEF StructsIn, StructChain!IsChain, StructStep
  <1>3. StructChain!IsChain(F, start, m)
    BY <1>1
  <1> HIDE DEF F
  <1>4. F[1] = start /\ \A n \in Nat \ {0} : F[n + 1] = StructStep(F[n], m, n)
    BY <1>3, StructChain!ChainSteps
  <1> QED
    BY <1>2, <1>4 DEF StructStep

LEMMA IndexSteps ==
    ASSUME NEW data
    PROVE  /\ LevelIndex(data)[1] = LevelsIndex(data) + 1
           /\ \A n \in Nat \ {0} : LevelIndex(data)[n + 1] = AfterLevel(data, LevelIndex(data)[n])
  <1> DEFINE start == LevelsIndex(data) + 1
             F == CHOOSE G : IndexChain!IsChain(G, start, data)
  <1>1. \E G : IndexChain!IsChain(G, start, data)
    BY IndexChain!ChainExists
  <1>2. LevelIndex(data) = F
    BY DEF LevelIndex, IndexChain!IsChain, IndexStep
  <1>3. IndexChain!IsChain(F, start, data)
    BY <1>1
  <1> HIDE DEF F
  <1>4. F[1] = start /\ \A n \in Nat \ {0} : F[n + 1] = IndexStep(F[n], data, n)
    BY <1>3, IndexChain!ChainSteps
  <1> QED
    BY <1>2, <1>4 DEF IndexStep

-----------------------------------------------------------------------------

(***************************************************************************)
(* The types of pieces, for any APDU.                                      *)
(***************************************************************************)

Buffer == [1..BUF_SIZE -> Byte]

LEMMA Constants ==
    /\ INDEX_VALUES \in Nat \ {0} /\ BUF_SIZE \in Nat /\ INDEX_VALUES <= BUF_SIZE
    /\ 5 <= BUF_SIZE /\ BUF_SIZE <= OFFSET_DATA + 255 /\ 5 <= INDEX_VALUES
    /\ COUNT_VALUES \in Nat \ {0} /\ COUNT_VALUES <= 256
    /\ ENUM_SIZE \in Nat \ {0} /\ SIZE_MEM_BUFFER \in Nat
    /\ CTX_SIZE \in Nat \ {0}
  BY StructDefsAssumption, DefinitionsAssumption DEF OFFSET_DATA

LEMMA MinOfTwo ==
    ASSUME NEW a \in Int, NEW b \in Int
    PROVE  Min({a, b}) = IF a <= b THEN a ELSE b
  BY DEF Min

LEMMA ByteRange ==
    /\ \A n \in Byte : n \in Nat /\ n <= 255
    /\ \A n \in Nat : n <= 255 => n \in Byte
  BY DEF Byte

LEMMA PieceType == ASSUME NEW s \in Seq(Byte) PROVE Piece(s) \in AnyPiece
  BY LenProperties DEF Piece, AnyPiece

LEMMA BytePiece ==
    ASSUME NEW b \in Byte
    PROVE  <<b>> \in Seq(Byte) /\ Piece(<<b>>) \in AnyPiece
  <1>1. <<b>> \in Seq(Byte)
    OBVIOUS
  <1> QED
    BY <1>1, PieceType

LEMMA ByteAtType == ASSUME NEW data \in Buffer, NEW i \in Nat PROVE ByteAt(data, i) \in Byte
  <1>1. i % INDEX_VALUES \in 0..(INDEX_VALUES - 1)
    BY Constants
  <1>2. (i % INDEX_VALUES) + 1 \in 1..BUF_SIZE
    BY <1>1, Constants
  <1> QED
    BY <1>2 DEF ByteAt, Buffer

LEMMA PartType ==
    ASSUME NEW data \in Buffer, NEW i \in Nat, NEW j \in Int, i >= 1, j <= BUF_SIZE
    PROVE  SubSeq(data, i, j) \in Seq(Byte)
  <1>1. \A k \in i..j : data[k] \in Byte
    BY Constants DEF Buffer
  <1> QED
    BY <1>1, SubSeqProperties

LEMMA StringPiecesType ==
    ASSUME NEW data \in Buffer, NEW i \in Nat
    PROVE  StringPieces(data, i) \in Seq(AnyPiece) /\ AfterCopy(data, i) \in Nat
  <1> DEFINE length == ByteAt(data, i)
             from == (i + 1) % INDEX_VALUES
             to == Min({from + length, BUF_SIZE})
             copied == SubSeq(data, from + 1, to)
  <1>1. length \in Byte
    BY ByteAtType
  <1>2. from \in Nat
    BY Constants
  <1>3. to \in Int /\ to <= BUF_SIZE
    <2>1. from + length \in Int /\ BUF_SIZE \in Int
      BY <1>1, <1>2, Constants DEF Byte
    <2> HIDE DEF length, from
    <2> QED
      BY <2>1, MinOfTwo
  <1> HIDE DEF from, to
  <1>4. copied \in Seq(Byte)
    BY <1>2, <1>3, PartType
  <1>5. Piece(<<length>>) \in AnyPiece
    BY <1>1, BytePiece
  <1>6. [size |-> length, bytes |-> copied] \in AnyPiece
    BY <1>1, <1>4 DEF AnyPiece, Byte
  <1>7. AfterCopy(data, i) \in Nat
    BY <1>1 DEF AfterCopy, Byte
  <1>8. StringPieces(data, i) = <<Piece(<<length>>), [size |-> length, bytes |-> copied]>>
    BY DEF StringPieces, from, to
  <1> HIDE DEF length, copied
  <1> QED
    BY <1>5, <1>6, <1>7, <1>8

LEMMA LevelPiecesType ==
    ASSUME NEW data \in Buffer, NEW i \in Nat
    PROVE  LevelPieces(data, i) \in Seq(AnyPiece) /\ AfterLevel(data, i) \in Nat
  <1> DEFINE zeros == [k \in 1..(ENUM_SIZE - 1) |-> 0]
             first == [size |-> 1, bytes |-> <<ByteAt(data, i)>> \o zeros]
             second == Piece(<<ByteAt(data, i + 1)>>)
  <1>1. ByteAt(data, i) \in Byte /\ ByteAt(data, i + 1) \in Byte
    BY ByteAtType
  <1>2. zeros \in Seq(Byte)
    BY Constants DEF Byte
  <1>3. <<ByteAt(data, i)>> \o zeros \in Seq(Byte)
    BY <1>1, <1>2, ConcatProperties
  <1>4. first \in AnyPiece
    BY <1>3 DEF AnyPiece
  <1>5. second \in AnyPiece
    BY <1>1, BytePiece
  <1>6. AfterLevel(data, i) \in Nat
    BY DEF AfterLevel
  <1> HIDE DEF zeros
  <1>7. LevelPieces(data, i) = <<first>> \o IF ByteAt(data, i) = ARRAY_FIXED_SIZE
                                            THEN <<second>> ELSE << >>
    BY DEF LevelPieces, zeros
  <1> HIDE DEF first, second
  <1>8. <<first>> \in Seq(AnyPiece) /\ <<second>> \in Seq(AnyPiece) /\ << >> \in Seq(AnyPiece)
    BY <1>4, <1>5
  <1>9. LevelPieces(data, i) \in Seq(AnyPiece)
    BY <1>7, <1>8, ConcatProperties
  <1> QED
    BY <1>6, <1>9

LEMMA IndexType ==
    ASSUME NEW data \in Buffer
    PROVE  LevelsIndex(data) \in Nat /\ \A n \in Nat \ {0} : LevelIndex(data)[n] \in Nat
  <1>1. LevelsIndex(data) \in Nat
    <2>1. AfterCopy(data, OFFSET_DATA + 1) \in Nat
      BY StringPiecesType DEF OFFSET_DATA
    <2> QED
      BY <2>1 DEF LevelsIndex, OFFSET_DATA
  <1> DEFINE K == {n \in Nat : LevelIndex(data)[n + 1] \in Nat}
  <1>2. 0 \in K
    BY <1>1, IndexSteps
  <1>3. ASSUME NEW n \in K PROVE n + 1 \in K
    <2>1. n \in Nat /\ n + 1 \in Nat \ {0} /\ LevelIndex(data)[n + 1] \in Nat
      BY <1>3
    <2>2. LevelIndex(data)[(n + 1) + 1] = AfterLevel(data, LevelIndex(data)[n + 1])
      BY <2>1, IndexSteps
    <2> QED
      BY <2>1, <2>2, LevelPiecesType
  <1> HIDE DEF K
  <1>4. K = Nat
    <2>1. K \in SUBSET Nat
      BY DEF K
    <2> QED
      BY <1>2, <1>3, <2>1, Sizes!SetInduction
  <1>5. ASSUME NEW n \in Nat \ {0} PROVE LevelIndex(data)[n] \in Nat
    <2>1. n - 1 \in K /\ (n - 1) + 1 = n
      BY <1>4
    <2> QED
      BY <2>1 DEF K
  <1> QED
    BY <1>1, <1>5

(* The levels that are looked at.                                          *)
LevelsSeen(data) ==
    IF TypeDesc(data) >= 128
    THEN Min({ByteAt(data, LevelsIndex(data)), SIZE_MEM_BUFFER - mem_idx + 1}) ELSE 0

KeyIndex(data) ==
    IF TypeDesc(data) >= 128 THEN LevelIndex(data)[LevelsSeen(data) + 1] ELSE LevelsIndex(data)

HeadPieces(data) ==
    <<Piece(<<TypeDesc(data)>>)>>
    \o (IF HasTypeSize(data) THEN <<Piece(<<ByteAt(data, OFFSET_DATA + 1)>>)>>
        ELSE IF HasTypeName(data) THEN StringPieces(data, OFFSET_DATA + 1)
        ELSE << >>)
    \o (IF TypeDesc(data) >= 128 THEN <<Piece(<<ByteAt(data, LevelsIndex(data))>>)>> ELSE << >>)

LevelLists(data, n) == [i \in 1..n |-> LevelPieces(data, LevelIndex(data)[i])]

LEMMA FieldPiecesSplit ==
    ASSUME NEW data
    PROVE  FieldPieces(data) =
               HeadPieces(data) \o FlattenSeq(LevelLists(data, LevelsSeen(data)))
               \o StringPieces(data, KeyIndex(data))
  BY DEF FieldPieces, HeadPieces, LevelLists, LevelsSeen, KeyIndex

LEMMA SeenType ==
    ASSUME NEW data \in Buffer, mem_idx \in 0..SIZE_MEM_BUFFER
    PROVE  /\ LevelsSeen(data) \in Nat /\ KeyIndex(data) \in Nat
           /\ (TypeDesc(data) >= 128 =>
                 LevelsSeen(data) =
                     IF ByteAt(data, LevelsIndex(data)) <= SIZE_MEM_BUFFER - mem_idx + 1
                     THEN ByteAt(data, LevelsIndex(data))
                     ELSE SIZE_MEM_BUFFER - mem_idx + 1)
  <1> DEFINE b == ByteAt(data, LevelsIndex(data))
             room == SIZE_MEM_BUFFER - mem_idx + 1
  <1>1. b \in Nat
    <2>1. LevelsIndex(data) \in Nat
      BY IndexType
    <2> QED
      BY <2>1, ByteAtType DEF Byte
  <1>2. room \in Nat
    BY Constants
  <1> HIDE DEF b, room
  <1>3. Min({b, room}) = IF b <= room THEN b ELSE room
    BY <1>1, <1>2, MinOfTwo
  <1>4. LevelsSeen(data) = IF TypeDesc(data) >= 128 THEN Min({b, room}) ELSE 0
    BY DEF LevelsSeen, b, room
  <1>5. LevelsSeen(data) \in Nat
    BY <1>1, <1>2, <1>3, <1>4
  <1>6. KeyIndex(data) \in Nat
    <2>1. LevelsSeen(data) + 1 \in Nat \ {0}
      BY <1>5
    <2> QED
      BY <2>1, IndexType DEF KeyIndex
  <1> QED
    BY <1>3, <1>4, <1>5, <1>6 DEF b, room

LEMMA HeadPiecesType == ASSUME NEW data \in Buffer PROVE HeadPieces(data) \in Seq(AnyPiece)
  <1> DEFINE a == <<Piece(<<TypeDesc(data)>>)>>
             b == IF HasTypeSize(data) THEN <<Piece(<<ByteAt(data, OFFSET_DATA + 1)>>)>>
                  ELSE IF HasTypeName(data) THEN StringPieces(data, OFFSET_DATA + 1)
                  ELSE << >>
             c == IF TypeDesc(data) >= 128 THEN <<Piece(<<ByteAt(data, LevelsIndex(data))>>)>>
                  ELSE << >>
  <1>1. OFFSET_DATA \in Nat /\ OFFSET_DATA + 1 \in Nat /\ LevelsIndex(data) \in Nat
    BY IndexType DEF OFFSET_DATA
  <1>2. a \in Seq(AnyPiece)
    <2>1. TypeDesc(data) \in Byte
      BY <1>1, ByteAtType DEF TypeDesc
    <2>2. Piece(<<TypeDesc(data)>>) \in AnyPiece
      BY <2>1, BytePiece
    <2> QED
      BY <2>2
  <1>3. b \in Seq(AnyPiece)
    <2>1. ByteAt(data, OFFSET_DATA + 1) \in Byte
      BY <1>1, ByteAtType
    <2>2. Piece(<<ByteAt(data, OFFSET_DATA + 1)>>) \in AnyPiece
      BY <2>1, BytePiece
    <2>3. <<Piece(<<ByteAt(data, OFFSET_DATA + 1)>>)>> \in Seq(AnyPiece)
      BY <2>2
    <2>4. StringPieces(data, OFFSET_DATA + 1) \in Seq(AnyPiece)
      BY <1>1, StringPiecesType
    <2> QED
      BY <2>3, <2>4, EmptySeq
  <1>4. c \in Seq(AnyPiece)
    <2>1. ByteAt(data, LevelsIndex(data)) \in Byte
      BY <1>1, ByteAtType
    <2>2. Piece(<<ByteAt(data, LevelsIndex(data))>>) \in AnyPiece
      BY <2>1, BytePiece
    <2>3. <<Piece(<<ByteAt(data, LevelsIndex(data))>>)>> \in Seq(AnyPiece)
      BY <2>2
    <2> QED
      BY <2>3, EmptySeq
  <1>5. HeadPieces(data) = a \o b \o c
    BY DEF HeadPieces
  <1> HIDE DEF a, b, c
  <1>6. a \o b \in Seq(AnyPiece)
    BY <1>2, <1>3, ConcatProperties
  <1>7. (a \o b) \o c \in Seq(AnyPiece)
    BY <1>4, <1>6, ConcatProperties
  <1> QED
    BY <1>5, <1>7

LEMMA LevelListsType ==
    ASSUME NEW data \in Buffer, NEW n \in Nat
    PROVE  LevelLists(data, n) \in Seq(Seq(AnyPiece)) /\ Len(LevelLists(data, n)) = n
  <1>1. ASSUME NEW i \in 1..n PROVE LevelPieces(data, LevelIndex(data)[i]) \in Seq(AnyPiece)
    <2>1. i \in Nat \ {0}
      OBVIOUS
    <2>2. LevelIndex(data)[i] \in Nat
      BY <2>1, IndexType
    <2> QED
      BY <2>2, LevelPiecesType
  <1> QED
    BY <1>1 DEF LevelLists

LEMMA FieldPiecesType ==
    ASSUME NEW data \in Buffer, mem_idx \in 0..SIZE_MEM_BUFFER
    PROVE  FieldPieces(data) \in Seq(AnyPiece)
  <1> DEFINE a == HeadPieces(data)
             b == FlattenSeq(LevelLists(data, LevelsSeen(data)))
             c == StringPieces(data, KeyIndex(data))
  <1>1. a \in Seq(AnyPiece)
    BY HeadPiecesType
  <1>2. b \in Seq(AnyPiece)
    <2> DEFINE lists == LevelLists(data, LevelsSeen(data))
    <2>1. lists \in Seq(Seq(AnyPiece))
      BY SeenType, LevelListsType
    <2> HIDE DEF lists
    <2>2. FlattenSeq(lists) \in Seq(AnyPiece)
      BY <2>1, FlattenTyped
    <2> QED
      BY <2>2 DEF lists
  <1>3. c \in Seq(AnyPiece)
    BY SeenType, StringPiecesType
  <1>4. FieldPieces(data) = a \o b \o c
    BY FieldPiecesSplit
  <1> HIDE DEF a, b, c
  <1>5. a \o b \in Seq(AnyPiece)
    BY <1>1, <1>2, ConcatProperties
  <1>6. (a \o b) \o c \in Seq(AnyPiece)
    BY <1>3, <1>5, ConcatProperties
  <1> QED
    BY <1>4, <1>6

LEMMA NamePiecesType ==
    ASSUME NEW data \in Buffer, OFFSET_DATA + data[OFFSET_LC + 1] <= BUF_SIZE
    PROVE  /\ NamePieces(data) \in Seq(AnyPiece) /\ Len(NamePieces(data)) = 3
           /\ NamePieces(data)[3].size = 1
  <1> DEFINE length == data[OFFSET_LC + 1]
             name == SubSeq(data, OFFSET_DATA + 1, OFFSET_DATA + length)
  <1>1. length \in Byte
    <2>1. OFFSET_LC + 1 \in 1..BUF_SIZE
      BY Constants DEF OFFSET_LC
    <2> QED
      BY <2>1 DEF Buffer
  <1>2. name \in Seq(Byte)
    <2>1. OFFSET_DATA + 1 \in Nat /\ OFFSET_DATA + 1 >= 1 /\ OFFSET_DATA + length \in Int
      BY <1>1 DEF OFFSET_DATA, Byte
    <2> QED
      BY <2>1, PartType
  <1>3. Piece(<<length>>) \in AnyPiece /\ Piece(name) \in AnyPiece /\ Piece(<<0>>) \in AnyPiece
    <2>1. 0 \in Byte
      BY DEF Byte
    <2> QED
      BY <1>1, <1>2, <2>1, BytePiece, PieceType
  <1>4. NamePieces(data) = <<Piece(<<length>>), Piece(name), Piece(<<0>>)>>
    BY DEF NamePieces
  <1>5. Piece(<<0>>).size = 1
    BY DEF Piece
  <1> HIDE DEF length, name
  <1> QED
    BY <1>3, <1>4, <1>5

-----------------------------------------------------------------------------

(***************************************************************************)
(* What the host sends for a field.                                        *)
(***************************************************************************)

LEMMA SixNames ==
    /\ Len(typenames) = 6 /\ DOMAIN typenames = 1..6
    /\ \A i \in 1..6 : typenames[i] \in Seq(Byte)
  <1>1. Len(typenames) = 6 /\ DOMAIN typenames = 1..6
    BY DEF typenames
  <1>2. ASSUME NEW i \in 1..6 PROVE typenames[i] \in Seq(Byte)
    <2>1. typenames[1] \in Seq(Byte)
      BY DEF typenames, Byte
    <2>2. typenames[2] \in Seq(Byte)
      BY DEF typenames, Byte
    <2>3. typenames[3] \in Seq(Byte)
      BY DEF typenames, Byte
    <2>4. typenames[4] \in Seq(Byte)
      BY DEF typenames, Byte
    <2>5. typenames[5] \in Seq(Byte)
      BY DEF typenames, Byte
    <2>6. typenames[6] \in Seq(Byte)
      BY DEF typenames, Byte
    <2> QED
      BY <2>1, <2>2, <2>3, <2>4, <2>5, <2>6
  <1> QED
    BY <1>1, <1>2

LEMMA TypeEnumType ==
    ASSUME NEW type
    PROVE  /\ TypeEnum(type) \in 0..7
           /\ (TypeEnum(type) = TYPE_CUSTOM) <=> (type.base \notin NATIVE)
           /\ (type.base \in NATIVE =>
                 typenames[IF TypeEnum(type) = 7 THEN 6 ELSE TypeEnum(type)] = type.base)
  <1>1. CASE type.base \notin NATIVE
    BY <1>1 DEF TypeEnum, TYPE_CUSTOM
  <1>2. CASE type.base \in NATIVE /\ type.base = typenames[6] /\ type.number = NULL
    BY <1>2 DEF TypeEnum, TYPE_CUSTOM, TYPE_SOL_BYTES_DYN
  <1>3. CASE type.base \in NATIVE /\ ~(type.base = typenames[6] /\ type.number = NULL)
    <2> DEFINE n == CHOOSE n \in 1..6 : typenames[n] = type.base
    <2>1. \E i \in 1..6 : typenames[i] = type.base
      BY <1>3, SixNames DEF NATIVE
    <2>2. n \in 1..6 /\ typenames[n] = type.base
      BY <2>1
    <2>3. TypeEnum(type) = n
      BY <1>3 DEF TypeEnum
    <2> HIDE DEF n
    <2> QED
      BY <1>3, <2>2, <2>3 DEF TYPE_CUSTOM
  <1> QED
    BY <1>1, <1>2, <1>3

TypeByte(type) ==
    Flag(type.levels # << >>, 128) + Flag(TypeSize(type) # NULL, 64) + TypeEnum(type)

NameBytes(type) ==
    IF TypeEnum(type) = TYPE_CUSTOM THEN <<Len(type.base)>> \o type.base ELSE << >>

SizeBytes(type) == IF TypeSize(type) # NULL THEN <<TypeSize(type)>> ELSE << >>

CountBytes(type) == IF type.levels # << >> THEN <<Len(type.levels)>> ELSE << >>

LevelImage(level) == IF level = NULL THEN <<ARRAY_DYNAMIC>> ELSE <<ARRAY_FIXED_SIZE, level>>

LevelImages(levels) == [i \in DOMAIN levels |-> LevelImage(levels[i])]

(* What the host sends for a field, behind the header.                     *)
Payload(type, key) ==
    <<TypeByte(type)>> \o NameBytes(type) \o SizeBytes(type) \o CountBytes(type)
    \o LevelBytes(type.levels) \o <<Len(key)>> \o key

Sendable(type, key) ==
    /\ key \in Seq(Byte) /\ type.base \in Seq(Byte)
    /\ type.levels \in Seq(Byte \cup {NULL})
    /\ TypeSize(type) \in Byte \cup {NULL}

LEMMA SendField ==
    ASSUME NEW type, NEW key
    PROVE  send_struct_def_field(type, key) = <<224, 26, 0, 255, Len(Payload(type, key))>>
                                              \o Payload(type, key)
  BY DEF send_struct_def_field, Payload, TypeByte, NameBytes, SizeBytes, CountBytes

LEMMA LevelsFlat == ASSUME NEW levels PROVE LevelBytes(levels) = FlattenSeq(LevelImages(levels))
  BY DEF LevelBytes, LevelImages, LevelImage

LEMMA TypeByteType ==
    ASSUME NEW type
    PROVE  /\ TypeByte(type) \in Byte
           /\ (TypeByte(type) >= 128) <=> (type.levels # << >>)
           /\ ((TypeByte(type) \div 64) % 2 = 1) <=> (TypeSize(type) # NULL)
           /\ TypeByte(type) % 16 = TypeEnum(type)
  <1> DEFINE t == TypeEnum(type)
             a == type.levels # << >>
             b == TypeSize(type) # NULL
             byte == TypeByte(type)
  <1>1. t \in 0..7
    BY TypeEnumType
  <1>2. byte = (IF a THEN 128 ELSE 0) + (IF b THEN 64 ELSE 0) + t
    BY DEF TypeByte, Flag
  <1> HIDE DEF t, a, b, byte
  <1>3. CASE a /\ b
    <2>1. byte = 192 + t
      BY <1>1, <1>2, <1>3
    <2>2. byte \in Byte /\ byte >= 128 /\ byte \div 64 = 3 /\ byte % 16 = t
      BY <1>1, <2>1 DEF Byte
    <2> QED
      BY <1>3, <2>2 DEF a, b, byte, t
  <1>4. CASE a /\ ~b
    <2>1. byte = 128 + t
      BY <1>1, <1>2, <1>4
    <2>2. byte \in Byte /\ byte >= 128 /\ byte \div 64 = 2 /\ byte % 16 = t
      BY <1>1, <2>1 DEF Byte
    <2> QED
      BY <1>4, <2>2 DEF a, b, byte, t
  <1>5. CASE ~a /\ b
    <2>1. byte = 64 + t
      BY <1>1, <1>2, <1>5
    <2>2. byte \in Byte /\ ~(byte >= 128) /\ byte \div 64 = 1 /\ byte % 16 = t
      BY <1>1, <2>1 DEF Byte
    <2> QED
      BY <1>5, <2>2 DEF a, b, byte, t
  <1>6. CASE ~a /\ ~b
    <2>1. byte = t
      BY <1>1, <1>2, <1>6
    <2>2. byte \in Byte /\ ~(byte >= 128) /\ byte \div 64 = 0 /\ byte % 16 = t
      BY <1>1, <2>1 DEF Byte
    <2> QED
      BY <1>6, <2>2 DEF a, b, byte, t
  <1> QED
    BY <1>3, <1>4, <1>5, <1>6

LEMMA SizeOnlyNative ==
    ASSUME NEW type, TypeSize(type) # NULL
    PROVE  TypeEnum(type) # TYPE_CUSTOM
  BY DEF TypeSize, TYPE_CUSTOM, TYPE_SOL_INT, TYPE_SOL_UINT, TYPE_SOL_BYTES_FIX

LEMMA ImagesType ==
    ASSUME NEW levels \in Seq(Byte \cup {NULL})
    PROVE  /\ LevelImages(levels) \in Seq(Seq(Byte)) /\ Len(LevelImages(levels)) = Len(levels)
           /\ LevelBytes(levels) \in Seq(Byte)
           /\ \A i \in 1..Len(levels) : LevelImages(levels)[i] = LevelImage(levels[i])
  <1>1. Len(levels) \in Nat /\ DOMAIN levels = 1..Len(levels)
    BY LenProperties
  <1>2. ASSUME NEW i \in 1..Len(levels) PROVE LevelImage(levels[i]) \in Seq(Byte)
    <2>1. levels[i] \in Byte \cup {NULL}
      BY ElementOfSeq
    <2>2. ARRAY_DYNAMIC \in Byte /\ ARRAY_FIXED_SIZE \in Byte
      BY DEF ARRAY_DYNAMIC, ARRAY_FIXED_SIZE, Byte
    <2> QED
      BY <2>1, <2>2 DEF LevelImage
  <1>3. LevelImages(levels) \in Seq(Seq(Byte)) /\ Len(LevelImages(levels)) = Len(levels)
    BY <1>1, <1>2 DEF LevelImages
  <1>4. FlattenSeq(LevelImages(levels)) \in Seq(Byte)
    <2> DEFINE images == LevelImages(levels)
    <2>1. images \in Seq(Seq(Byte))
      BY <1>3
    <2> HIDE DEF images
    <2>2. FlattenSeq(images) \in Seq(Byte)
      BY <2>1, FlattenTyped
    <2> QED
      BY <2>2 DEF images
  <1> QED
    BY <1>1, <1>3, <1>4, LevelsFlat DEF LevelImages

LEMMA SevenType ==
    ASSUME NEW K, NEW a \in Seq(K), NEW b \in Seq(K), NEW c \in Seq(K), NEW d \in Seq(K),
           NEW e \in Seq(K), NEW f \in Seq(K), NEW g \in Seq(K)
    PROVE  /\ a \o b \o c \o d \o e \o f \o g \in Seq(K)
           /\ Len(a \o b \o c \o d \o e \o f \o g) =
                  Len(a) + Len(b) + Len(c) + Len(d) + Len(e) + Len(f) + Len(g)
  <1>1. a \o b \in Seq(K) /\ Len(a \o b) = Len(a) + Len(b)
    BY ConcatProperties
  <1>2. (a \o b) \o c \in Seq(K) /\ Len((a \o b) \o c) = Len(a \o b) + Len(c)
    BY <1>1, ConcatProperties
  <1> DEFINE abc == a \o b \o c
  <1>3. abc \in Seq(K)
    BY <1>2
  <1> HIDE DEF abc
  <1>4. abc \o d \in Seq(K) /\ Len(abc \o d) = Len(abc) + Len(d)
    BY <1>3, ConcatProperties
  <1>5. (abc \o d) \o e \in Seq(K) /\ Len((abc \o d) \o e) = Len(abc \o d) + Len(e)
    BY <1>4, ConcatProperties
  <1> DEFINE abcde == abc \o d \o e
  <1>6. abcde \in Seq(K)
    BY <1>5
  <1> HIDE DEF abcde
  <1>7. abcde \o f \in Seq(K) /\ Len(abcde \o f) = Len(abcde) + Len(f)
    BY <1>6, ConcatProperties
  <1>8. (abcde \o f) \o g \in Seq(K) /\ Len((abcde \o f) \o g) = Len(abcde \o f) + Len(g)
    BY <1>7, ConcatProperties
  <1>9. Len(abc) = Len(a) + Len(b) + Len(c)
    BY <1>1, <1>2, LenProperties DEF abc
  <1>10. Len(abcde) = Len(abc) + Len(d) + Len(e)
    BY <1>4, <1>5 DEF abcde
  <1>11. Len((abcde \o f) \o g) = Len(a) + Len(b) + Len(c) + Len(d) + Len(e) + Len(f) + Len(g)
    BY <1>7, <1>8, <1>9, <1>10
  <1> QED
    BY <1>8, <1>11 DEF abcde, abc

(* Seven sequences, held one after the other.                              *)
HeldInTurn(m, p, a, b, c, d, e, f, g) ==
    /\ Holds(m, p, a)
    /\ Holds(m, p + Len(a), b)
    /\ Holds(m, p + Len(a) + Len(b), c)
    /\ Holds(m, p + Len(a) + Len(b) + Len(c), d)
    /\ Holds(m, p + Len(a) + Len(b) + Len(c) + Len(d), e)
    /\ Holds(m, p + Len(a) + Len(b) + Len(c) + Len(d) + Len(e), f)
    /\ Holds(m, p + Len(a) + Len(b) + Len(c) + Len(d) + Len(e) + Len(f), g)

LEMMA HoldsSeven ==
    ASSUME NEW m, NEW p \in Int,
           NEW K, NEW a \in Seq(K), NEW b \in Seq(K), NEW c \in Seq(K), NEW d \in Seq(K),
           NEW e \in Seq(K), NEW f \in Seq(K), NEW g \in Seq(K),
           Holds(m, p, a \o b \o c \o d \o e \o f \o g)
    PROVE  HeldInTurn(m, p, a, b, c, d, e, f, g)
  <1> DEFINE ab == a \o b
             abc == ab \o c
             abcd == abc \o d
             abcde == abcd \o e
             abcdef == abcde \o f
  <1>1. ab \in Seq(K) /\ Len(ab) = Len(a) + Len(b)
    BY ConcatProperties
  <1>9. Holds(m, p, abcdef \o g)
    OBVIOUS
  <1>11. Holds(m, p, ab) => Holds(m, p, a) /\ Holds(m, p + Len(a), b)
    BY HoldsConcat
  <1> HIDE DEF ab
  <1>2. abc \in Seq(K) /\ Len(abc) = Len(ab) + Len(c)
    BY <1>1, ConcatProperties
  <1>12. Holds(m, p, abc) => Holds(m, p, ab) /\ Holds(m, p + Len(ab), c)
    BY <1>1, HoldsConcat
  <1> HIDE DEF abc
  <1>3. abcd \in Seq(K) /\ Len(abcd) = Len(abc) + Len(d)
    BY <1>2, ConcatProperties
  <1>13. Holds(m, p, abcd) => Holds(m, p, abc) /\ Holds(m, p + Len(abc), d)
    BY <1>2, HoldsConcat
  <1> HIDE DEF abcd
  <1>4. abcde \in Seq(K) /\ Len(abcde) = Len(abcd) + Len(e)
    BY <1>3, ConcatProperties
  <1>14. Holds(m, p, abcde) => Holds(m, p, abcd) /\ Holds(m, p + Len(abcd), e)
    BY <1>3, HoldsConcat
  <1> HIDE DEF abcde
  <1>5. abcdef \in Seq(K) /\ Len(abcdef) = Len(abcde) + Len(f)
    BY <1>4, ConcatProperties
  <1>15. Holds(m, p, abcdef) => Holds(m, p, abcde) /\ Holds(m, p + Len(abcde), f)
    BY <1>4, HoldsConcat
  <1> HIDE DEF abcdef
  <1>16. Holds(m, p, abcdef) /\ Holds(m, p + Len(abcdef), g)
    BY <1>9, <1>5, HoldsConcat
  <1>6. /\ Holds(m, p, a) /\ Holds(m, p + Len(a), b) /\ Holds(m, p + Len(ab), c)
        /\ Holds(m, p + Len(abc), d) /\ Holds(m, p + Len(abcd), e) /\ Holds(m, p + Len(abcde), f)
    BY <1>11, <1>12, <1>13, <1>14, <1>15, <1>16
  <1>7. /\ Len(a) \in Nat /\ Len(b) \in Nat /\ Len(c) \in Nat /\ Len(d) \in Nat
        /\ Len(e) \in Nat /\ Len(f) \in Nat
    BY LenProperties
  <1>8. /\ p + Len(ab) = p + Len(a) + Len(b)
        /\ p + Len(abc) = p + Len(a) + Len(b) + Len(c)
        /\ p + Len(abcd) = p + Len(a) + Len(b) + Len(c) + Len(d)
        /\ p + Len(abcde) = p + Len(a) + Len(b) + Len(c) + Len(d) + Len(e)
        /\ p + Len(abcdef) = p + Len(a) + Len(b) + Len(c) + Len(d) + Len(e) + Len(f)
    BY <1>1, <1>2, <1>3, <1>4, <1>5, <1>7
  <1> QED
    BY <1>6, <1>16, <1>8 DEF HeldInTurn

-----------------------------------------------------------------------------

(***************************************************************************)
(* The table of type names.                                                *)
(***************************************************************************)

(* The types of an entry of the table, as written.                         *)
EntryBytes(s) == IF s = 6 THEN <<134, 7>> ELSE <<s>>

Matching(s) == {e \in DOMAIN enum_to_idx : enum_to_idx[e][2] = s}

MatchLists(s) ==
    [e \in DOMAIN enum_to_idx |->
        IF e \in Matching(s) THEN <<enum_to_idx[e][1] + Flag(e # Max(Matching(s)), 128)>>
        ELSE << >>]

LEMMA EnumTable ==
    /\ DOMAIN enum_to_idx = 1..7 /\ Len(enum_to_idx) = 7
    /\ \A e \in 1..7 : enum_to_idx[e][1] = e /\ enum_to_idx[e][2] = IF e = 7 THEN 6 ELSE e
  BY DEF enum_to_idx, TYPE_SOL_INT, TYPE_SOL_UINT, TYPE_SOL_ADDRESS, TYPE_SOL_BOOL,
         TYPE_SOL_STRING, TYPE_SOL_BYTES_FIX, TYPE_SOL_BYTES_DYN

LEMMA TwoBytes == <<134>> \o <<7>> = <<134, 7>>
  <1> DEFINE t == <<134>> \o <<7>>
  <1>1. <<134>> \in Seq(Nat) /\ <<7>> \in Seq(Nat) /\ <<134, 7>> \in Seq(Nat)
    OBVIOUS
  <1>2. Len(<<134>>) = 1 /\ Len(<<7>>) = 1 /\ Len(<<134, 7>>) = 2
    OBVIOUS
  <1>3. /\ t \in Seq(Nat) /\ Len(t) = 2
        /\ \A i \in 1..2 : t[i] = IF i <= 1 THEN <<134>>[i] ELSE <<7>>[i - 1]
    BY <1>1, <1>2, ConcatProperties
  <1> HIDE DEF t
  <1>4. t[1] = 134 /\ t[2] = 7
    BY <1>3
  <1>5. \A i \in 1..2 : t[i] = <<134, 7>>[i]
    BY <1>4
  <1>6. t = <<134, 7>>
    BY <1>1, <1>2, <1>3, <1>5, SeqEqual
  <1> QED
    BY <1>6 DEF t

LEMMA EnumMatches ==
    ASSUME NEW s \in 1..6
    PROVE  find_enum_matches(s) = EntryBytes(s)
  <1> DEFINE lists == MatchLists(s)
  <1>1. Matching(s) = IF s = 6 THEN {6, 7} ELSE {s}
    BY EnumTable DEF Matching
  <1>2. Max(Matching(s)) = IF s = 6 THEN 7 ELSE s
    <2>1. CASE s = 6
      <3>1. Matching(s) = {6, 7}
        BY <1>1, <2>1
      <3>2. Max({6, 7}) = 7
        BY DEF Max
      <3> QED
        BY <2>1, <3>1, <3>2
    <2>2. CASE s # 6
      <3>1. Matching(s) = {s}
        BY <1>1, <2>2
      <3>2. Max({s}) = s
        BY DEF Max
      <3> QED
        BY <2>2, <3>1, <3>2
    <2> QED
      BY <2>1, <2>2
  <1>3. ASSUME NEW e \in 1..7
        PROVE  lists[e] = IF s = 6 THEN IF e = 6 THEN <<134>> ELSE IF e = 7 THEN <<7>> ELSE << >>
                          ELSE IF e = s THEN <<s>> ELSE << >>
    <2>1. lists[e] = IF e \in Matching(s)
                     THEN <<enum_to_idx[e][1] + Flag(e # Max(Matching(s)), 128)>> ELSE << >>
      BY EnumTable DEF MatchLists
    <2>2. enum_to_idx[e][1] = e
      BY EnumTable
    <2>3. CASE s = 6
      <3>1. Matching(s) = {6, 7} /\ Max(Matching(s)) = 7
        BY <1>1, <1>2, <2>3
      <3>2. lists[e] = IF e = 6 THEN <<6 + 128>> ELSE IF e = 7 THEN <<7 + 0>> ELSE << >>
        BY <2>1, <2>2, <3>1 DEF Flag
      <3> QED
        BY <2>3, <3>2
    <2>4. CASE s # 6
      <3>1. Matching(s) = {s} /\ Max(Matching(s)) = s
        BY <1>1, <1>2, <2>4
      <3>2. lists[e] = IF e = s THEN <<s + 0>> ELSE << >>
        BY <2>1, <2>2, <3>1 DEF Flag
      <3> QED
        BY <2>4, <3>2
    <2> QED
      BY <2>3, <2>4
  <1>4. Len(lists) = 7 /\ lists = [e \in 1..7 |-> lists[e]]
    BY EnumTable DEF MatchLists
  <1>5. find_enum_matches(s) = FlattenSeq(lists)
    BY DEF find_enum_matches, MatchLists, Matching
  <1> HIDE DEF lists
  <1>6. lists \in Seq(Seq(Byte))
    <2>1. ASSUME NEW e \in 1..7 PROVE lists[e] \in Seq(Byte)
      <3>1. <<134>> \in Seq(Byte) /\ <<7>> \in Seq(Byte) /\ <<s>> \in Seq(Byte) /\ << >> \in Seq(Byte)
        BY DEF Byte
      <3> QED
        BY <1>3, <3>1
    <2> QED
      BY <1>4, <2>1
  <1>7. PICK f : Joined(f, lists) /\ FlattenSeq(lists) = f[Len(lists)]
    BY <1>6, FlattenJoins
  <1>8. f[0] = << >> /\ \A e \in 1..7 : f[e] = f[e - 1] \o lists[e]
    BY <1>4, <1>7 DEF Joined
  <1>9. ASSUME NEW k \in 0..6 PROVE f[k + 1] = f[k] \o lists[k + 1]
    <2>1. k + 1 \in 1..7 /\ (k + 1) - 1 = k
      OBVIOUS
    <2> QED
      BY <1>8, <2>1
  <1>10. ASSUME NEW k \in 0..6, lists[k + 1] = << >>, f[k] \in Seq(Nat) PROVE f[k + 1] = f[k]
    <2> DEFINE t == f[k]
    <2>1. t \o << >> = t
      <3>1. t \in Seq(Nat)
        BY <1>10
      <3> HIDE DEF t
      <3> QED
        BY <3>1, ConcatEmptySeq
    <2> QED
      BY <1>9, <1>10, <2>1
  <1>11. CASE s = 6
    <2> DEFINE G(k) == IF k >= 7 THEN <<134, 7>> ELSE IF k = 6 THEN <<134>> ELSE << >>
    <2>1. \A k \in 0..6 : lists[k + 1] = IF k = 5 THEN <<134>> ELSE IF k = 6 THEN <<7>> ELSE << >>
      BY <1>3, <1>11
    <2>2. ASSUME NEW k \in 0..6, f[k] = G(k) PROVE f[k + 1] = G(k + 1)
      <3>1. CASE k = 5
        <4>1. f[k] = << >> /\ lists[k + 1] = <<134>>
          BY <2>1, <2>2, <3>1
        <4>2. << >> \o <<134>> = <<134>>
          <5>1. <<134>> \in Seq(Nat)
            OBVIOUS
          <5> QED
            BY <5>1, ConcatEmptySeq
        <4>3. f[k + 1] = <<134>>
          BY <1>9, <4>1, <4>2
        <4> QED
          BY <3>1, <4>3
      <3>2. CASE k = 6
        <4>1. f[k] = <<134>> /\ lists[k + 1] = <<7>>
          BY <2>1, <2>2, <3>2
        <4>2. <<134>> \o <<7>> = <<134, 7>>
          BY TwoBytes
        <4>3. f[k + 1] = <<134, 7>>
          BY <1>9, <4>1, <4>2
        <4> QED
          BY <3>2, <4>3
      <3>3. CASE k < 5
        <4>1. lists[k + 1] = << >> /\ G(k) = << >> /\ << >> \in Seq(Nat)
          BY <2>1, <3>3
        <4>2. f[k + 1] = f[k]
          BY <1>10, <2>2, <4>1
        <4>3. G(k + 1) = << >>
          BY <3>3
        <4> QED
          BY <2>2, <4>1, <4>2, <4>3
      <3> QED
        BY <3>1, <3>2, <3>3
    <2>3. f[0] = G(0)
      BY <1>8
    <2> HIDE DEF G
    <2>4. f[0 + 1] = G(0 + 1)
      BY <2>2, <2>3
    <2>5. f[1 + 1] = G(1 + 1)
      BY <2>2, <2>4
    <2>6. f[2 + 1] = G(2 + 1)
      BY <2>2, <2>5
    <2>7. f[3 + 1] = G(3 + 1)
      BY <2>2, <2>6
    <2>8. f[4 + 1] = G(4 + 1)
      BY <2>2, <2>7
    <2>9. f[5 + 1] = G(5 + 1)
      BY <2>2, <2>8
    <2>10. f[6 + 1] = G(6 + 1)
      BY <2>2, <2>9
    <2>11. f[7] = <<134, 7>>
      BY <2>10 DEF G
    <2> QED
      BY <1>4, <1>5, <1>7, <1>11, <2>11 DEF EntryBytes
  <1>12. CASE s # 6
    <2> DEFINE G(k) == IF k >= s THEN <<s>> ELSE << >>
    <2>1. \A k \in 0..6 : lists[k + 1] = IF k + 1 = s THEN <<s>> ELSE << >>
      BY <1>3, <1>12
    <2>2. ASSUME NEW k \in 0..6, f[k] = G(k) PROVE f[k + 1] = G(k + 1)
      <3>1. CASE k + 1 = s
        <4>1. f[k] = << >> /\ lists[k + 1] = <<s>>
          BY <2>1, <2>2, <3>1
        <4>2. << >> \o <<s>> = <<s>>
          <5>1. <<s>> \in Seq(Nat)
            OBVIOUS
          <5> QED
            BY <5>1, ConcatEmptySeq
        <4>3. f[k + 1] = <<s>>
          BY <1>9, <4>1, <4>2
        <4> QED
          BY <3>1, <4>3
      <3>2. CASE k + 1 # s
        <4>1. lists[k + 1] = << >> /\ G(k) \in Seq(Nat)
          BY <2>1, <3>2
        <4>2. f[k + 1] = f[k]
          BY <1>10, <2>2, <4>1
        <4>3. G(k + 1) = G(k)
          BY <3>2
        <4> QED
          BY <2>2, <4>2, <4>3
      <3> QED
        BY <3>1, <3>2
    <2>3. f[0] = G(0)
      BY <1>8
    <2> HIDE DEF G
    <2>4. f[0 + 1] = G(0 + 1)
      BY <2>2, <2>3
    <2>5. f[1 + 1] = G(1 + 1)
      BY <2>2, <2>4
    <2>6. f[2 + 1] = G(2 + 1)
      BY <2>2, <2>5
    <2>7. f[3 + 1] = G(3 + 1)
      BY <2>2, <2>6
    <2>8. f[4 + 1] = G(4 + 1)
      BY <2>2, <2>7
    <2>9. f[5 + 1] = G(5 + 1)
      BY <2>2, <2>8
    <2>10. f[6 + 1] = G(6 + 1)
      BY <2>2, <2>9
    <2>11. f[7] = <<s>>
      BY <2>10 DEF G
    <2> QED
      BY <1>4, <1>5, <1>7, <1>12, <2>11 DEF EntryBytes
  <1> QED
    BY <1>11, <1>12

(* The entries of the table: the types, and the name.                      *)
Entry(s) == EntryBytes(s) \o <<Len(typenames[s])>> \o typenames[s]

Entries == [s \in 1..6 |-> Entry(s)]

LEMMA EntryType ==
    ASSUME NEW s \in 1..6
    PROVE  /\ EntryBytes(s) \in Seq(Byte) /\ <<Len(typenames[s])>> \in Seq(Byte)
           /\ typenames[s] \in Seq(Byte) /\ Len(typenames[s]) \in Byte
           /\ Entry(s) \in Seq(Byte)
  <1>1. EntryBytes(s) \in Seq(Byte)
    <2>1. <<134, 7>> \in Seq(Byte) /\ <<s>> \in Seq(Byte)
      BY DEF Byte
    <2> QED
      BY <2>1 DEF EntryBytes
  <1>2. typenames[s] \in Seq(Byte)
    BY SixNames
  <1>3. Len(typenames[s]) \in Byte
    <2>1. /\ Len(typenames[1]) = 3 /\ Len(typenames[2]) = 4 /\ Len(typenames[3]) = 7
          /\ Len(typenames[4]) = 4 /\ Len(typenames[5]) = 6 /\ Len(typenames[6]) = 5
      BY DEF typenames
    <2>2. Len(typenames[s]) \in {3, 4, 5, 6, 7}
      BY <2>1, SMTT(30)
    <2>3. \A k \in {3, 4, 5, 6, 7} : k \in Byte
      BY DEF Byte
    <2> QED
      BY <2>2, <2>3
  <1>4. <<Len(typenames[s])>> \in Seq(Byte)
    BY <1>3
  <1>5. EntryBytes(s) \o <<Len(typenames[s])>> \in Seq(Byte)
    BY <1>1, <1>4, ConcatProperties
  <1>6. (EntryBytes(s) \o <<Len(typenames[s])>>) \o typenames[s] \in Seq(Byte)
    BY <1>2, <1>5, ConcatProperties
  <1> QED
    BY <1>1, <1>2, <1>3, <1>4, <1>6 DEF Entry

LEMMA TableType ==
    /\ TypenamesTable = <<6>> \o FlattenSeq(Entries)
    /\ Entries \in Seq(Seq(Byte)) /\ Len(Entries) = 6
    /\ FlattenSeq(Entries) \in Seq(Byte)
    /\ TypenamesTable \in Seq(Byte)
  <1>1. Entries \in Seq(Seq(Byte)) /\ Len(Entries) = 6
    BY EntryType DEF Entries
  <1>2. FlattenSeq(Entries) \in Seq(Byte)
    <2> DEFINE entries == Entries
    <2>1. entries \in Seq(Seq(Byte))
      BY <1>1
    <2> HIDE DEF entries
    <2>2. FlattenSeq(entries) \in Seq(Byte)
      BY <2>1, FlattenTyped
    <2> QED
      BY <2>2 DEF entries
  <1>3. TypenamesTable = <<6>> \o FlattenSeq(Entries)
    <2> DEFINE raw == [s \in 1..6 |-> find_enum_matches(s) \o <<Len(typenames[s])>> \o typenames[s]]
    <2>1. \A s \in 1..6 : raw[s] = Entries[s]
      BY EnumMatches DEF Entries, Entry
    <2>2. raw = Entries
      BY <2>1 DEF Entries
    <2>3. Len(typenames) = 6
      BY SixNames
    <2>4. TypenamesTable = <<6>> \o FlattenSeq(raw)
      BY <2>3 DEF TypenamesTable
    <2> HIDE DEF raw
    <2> QED
      BY <2>2, <2>4
  <1>4. <<6>> \o FlattenSeq(Entries) \in Seq(Byte)
    <2>1. <<6>> \in Seq(Byte)
      BY DEF Byte
    <2> QED
      BY <1>2, <2>1, ConcatProperties
  <1> QED
    BY <1>1, <1>2, <1>3, <1>4

-----------------------------------------------------------------------------

(***************************************************************************)
(* The payloads of the host, and what the signer receives of them.         *)
(***************************************************************************)

(* A level takes a byte at least.                                          *)
LEMMA JoinedLength ==
    ASSUME NEW K, NEW seqs \in Seq(Seq(K)), NEW f, Joined(f, seqs),
           \A n \in 1..Len(seqs) : Len(seqs[n]) >= 1
    PROVE  \A n \in 0..Len(seqs) : n <= Len(f[n])
  <1> DEFINE T == {n \in Nat : n <= Len(seqs) => n <= Len(f[n])}
  <1>1. Len(seqs) \in Nat /\ \A n \in 0..Len(seqs) : f[n] \in Seq(K)
    BY LenProperties, JoinedTyped
  <1>2. 0 \in T
    <2>1. f[0] \in Seq(K)
      BY <1>1
    <2> QED
      BY <2>1, LenProperties
  <1>3. ASSUME NEW n \in T PROVE n + 1 \in T
    <2>1. n \in Nat /\ n + 1 \in Nat /\ (n + 1) - 1 = n
      BY <1>3
    <2>2. ASSUME n + 1 <= Len(seqs) PROVE n + 1 <= Len(f[n + 1])
      <3>1. n + 1 \in 1..Len(seqs) /\ n <= Len(seqs) /\ n \in 0..Len(seqs)
        BY <1>1, <2>1, <2>2
      <3>2. n <= Len(f[n]) /\ f[n] \in Seq(K) /\ seqs[n + 1] \in Seq(K) /\ Len(seqs[n + 1]) >= 1
        BY <1>1, <1>3, <3>1, ElementOfSeq
      <3>3. f[n + 1] = f[n] \o seqs[n + 1]
        BY <2>1, <3>1 DEF Joined
      <3> DEFINE s == f[n]
                 t == seqs[n + 1]
      <3>4. s \in Seq(K) /\ t \in Seq(K)
        BY <3>2
      <3> HIDE DEF s, t
      <3>5. Len(s \o t) = Len(s) + Len(t) /\ Len(s) \in Nat /\ Len(t) \in Nat
        BY <3>4, ConcatProperties, LenProperties
      <3>6. Len(f[n + 1]) = Len(f[n]) + Len(seqs[n + 1]) /\ Len(f[n]) \in Nat /\ Len(seqs[n + 1]) \in Nat
        BY <3>3, <3>5 DEF s, t
      <3>7. \A x, y \in Nat : n <= x /\ y >= 1 => n + 1 <= x + y
        BY <2>1
      <3> QED
        BY <3>2, <3>6, <3>7
    <2> QED
      BY <2>1, <2>2
  <1>4. T = Nat
    <2>1. T \in SUBSET Nat
      OBVIOUS
    <2> HIDE DEF T
    <2> QED
      BY <1>2, <1>3, <2>1, Sizes!SetInduction
  <1> QED
    BY <1>1, <1>4

LEMMA ImageLength ==
    ASSUME NEW level
    PROVE  /\ Len(LevelImage(level)) >= 1
           /\ Len(LevelImage(level)) = IF level = NULL THEN 1 ELSE 2
  BY DEF LevelImage

LEMMA LevelsCounted ==
    ASSUME NEW levels \in Seq(Byte \cup {NULL})
    PROVE  Len(levels) \in Nat /\ Len(levels) <= Len(LevelBytes(levels))
  <1> DEFINE images == LevelImages(levels)
  <1>1. /\ images \in Seq(Seq(Byte)) /\ Len(images) = Len(levels) /\ Len(levels) \in Nat
        /\ \A i \in 1..Len(images) : images[i] = LevelImage(levels[i])
    BY ImagesType, LenProperties
  <1>2. ASSUME NEW i \in 1..Len(images) PROVE Len(images[i]) >= 1
    <2>1. Len(LevelImage(levels[i])) >= 1
      BY ImageLength
    <2> QED
      BY <1>1, <2>1
  <1>3. LevelBytes(levels) = FlattenSeq(images)
    BY LevelsFlat
  <1> HIDE DEF images
  <1>4. PICK f : Joined(f, images) /\ FlattenSeq(images) = f[Len(images)]
    BY <1>1, FlattenJoins
  <1>5. Len(images) <= Len(f[Len(images)])
    <2>1. Len(images) \in 0..Len(images)
      BY <1>1
    <2> QED
      BY <1>1, <1>2, <1>4, <2>1, JoinedLength
  <1> QED
    BY <1>1, <1>3, <1>4, <1>5

LEMMA BytesAreNumbers == ASSUME NEW s \in Seq(Byte) PROVE s \in Seq(Nat)
  <1>1. Byte \subseteq Nat
    BY DEF Byte
  <1> QED
    BY <1>1, SeqMonotonic

LEMMA PayloadParts ==
    ASSUME NEW type, NEW key, Sendable(type, key)
    PROVE  /\ <<TypeByte(type)>> \in Seq(Nat) /\ NameBytes(type) \in Seq(Nat)
           /\ SizeBytes(type) \in Seq(Nat) /\ CountBytes(type) \in Seq(Nat)
           /\ LevelBytes(type.levels) \in Seq(Nat) /\ <<Len(key)>> \in Seq(Nat)
           /\ key \in Seq(Nat)
  <1>1. <<TypeByte(type)>> \in Seq(Nat)
    <2>1. TypeByte(type) \in Nat
      BY TypeByteType, ByteRange
    <2> QED
      BY <2>1
  <1>2. NameBytes(type) \in Seq(Nat)
    <2>1. type.base \in Seq(Nat) /\ Len(type.base) \in Nat
      BY BytesAreNumbers, LenProperties DEF Sendable
    <2>2. <<Len(type.base)>> \in Seq(Nat)
      BY <2>1
    <2>3. <<Len(type.base)>> \o type.base \in Seq(Nat)
      BY <2>1, <2>2, ConcatProperties
    <2> QED
      BY <2>3, EmptySeq DEF NameBytes
  <1>3. SizeBytes(type) \in Seq(Nat)
    <2>1. ASSUME TypeSize(type) # NULL PROVE <<TypeSize(type)>> \in Seq(Nat)
      <3>1. TypeSize(type) \in Nat
        BY <2>1, ByteRange DEF Sendable
      <3> QED
        BY <3>1
    <2> QED
      BY <2>1, EmptySeq DEF SizeBytes
  <1>4. CountBytes(type) \in Seq(Nat)
    <2>1. Len(type.levels) \in Nat
      BY LenProperties DEF Sendable
    <2>2. <<Len(type.levels)>> \in Seq(Nat)
      BY <2>1
    <2> QED
      BY <2>2, EmptySeq DEF CountBytes
  <1>5. LevelBytes(type.levels) \in Seq(Nat)
    BY ImagesType, BytesAreNumbers DEF Sendable
  <1>6. key \in Seq(Nat) /\ Len(key) \in Nat
    BY BytesAreNumbers, LenProperties DEF Sendable
  <1>7. <<Len(key)>> \in Seq(Nat)
    BY <1>6
  <1> QED
    BY <1>1, <1>2, <1>3, <1>4, <1>5, <1>6, <1>7

LEMMA PayloadLength ==
    ASSUME NEW type, NEW key, Sendable(type, key)
    PROVE  /\ Payload(type, key) \in Seq(Nat)
           /\ Len(Payload(type, key)) =
                  1 + Len(NameBytes(type)) + Len(SizeBytes(type)) + Len(CountBytes(type))
                  + Len(LevelBytes(type.levels)) + 1 + Len(key)
  <1> DEFINE a == <<TypeByte(type)>>
             b == NameBytes(type)
             c == SizeBytes(type)
             d == CountBytes(type)
             e == LevelBytes(type.levels)
             f == <<Len(key)>>
  <1>1. /\ a \in Seq(Nat) /\ b \in Seq(Nat) /\ c \in Seq(Nat) /\ d \in Seq(Nat)
        /\ e \in Seq(Nat) /\ f \in Seq(Nat) /\ key \in Seq(Nat)
    BY PayloadParts
  <1>2. Len(a) = 1 /\ Len(f) = 1
    OBVIOUS
  <1>3. Payload(type, key) = a \o b \o c \o d \o e \o f \o key
    BY DEF Payload
  <1> HIDE DEF a, b, c, d, e, f
  <1>4. /\ a \o b \o c \o d \o e \o f \o key \in Seq(Nat)
        /\ Len(a \o b \o c \o d \o e \o f \o key) =
               Len(a) + Len(b) + Len(c) + Len(d) + Len(e) + Len(f) + Len(key)
    BY <1>1, SevenType
  <1> QED
    BY <1>2, <1>3, <1>4 DEF b, c, d, e

(* The lengths among the bytes of a payload that fits its APDU are bytes.  *)
LEMMA PayloadBytes ==
    ASSUME NEW type, NEW key, Sendable(type, key), Len(Payload(type, key)) <= 255
    PROVE  Payload(type, key) \in Seq(Byte)
  <1> DEFINE a == <<TypeByte(type)>>
             b == NameBytes(type)
             c == SizeBytes(type)
             d == CountBytes(type)
             e == LevelBytes(type.levels)
             f == <<Len(key)>>
  <1>1. /\ a \in Seq(Nat) /\ b \in Seq(Nat) /\ c \in Seq(Nat) /\ d \in Seq(Nat)
        /\ e \in Seq(Nat) /\ f \in Seq(Nat) /\ key \in Seq(Nat)
    BY PayloadParts
  <1>2. /\ Len(b) \in Nat /\ Len(c) \in Nat /\ Len(d) \in Nat /\ Len(e) \in Nat /\ Len(key) \in Nat
        /\ Len(b) <= 255 /\ Len(d) <= 255 /\ Len(e) <= 255 /\ Len(key) <= 255
    <2>1. /\ Len(b) \in Nat /\ Len(c) \in Nat /\ Len(d) \in Nat /\ Len(e) \in Nat
          /\ Len(key) \in Nat
      BY <1>1, LenProperties
    <2>2. 1 + Len(b) + Len(c) + Len(d) + Len(e) + 1 + Len(key) <= 255
      BY PayloadLength
    <2> HIDE DEF b, c, d, e
    <2> QED
      BY <2>1, <2>2
  <1>3. a \in Seq(Byte)
    BY TypeByteType
  <1>4. b \in Seq(Byte)
    <2>1. CASE TypeEnum(type) = TYPE_CUSTOM
      <3>1. type.base \in Seq(Byte) /\ Len(type.base) \in Nat
        BY LenProperties DEF Sendable
      <3>2. <<Len(type.base)>> \in Seq(Nat) /\ type.base \in Seq(Nat) /\ Len(<<Len(type.base)>>) = 1
        BY <3>1, BytesAreNumbers
      <3>3. b = <<Len(type.base)>> \o type.base
        BY <2>1 DEF NameBytes
      <3>4. Len(<<Len(type.base)>> \o type.base) = Len(<<Len(type.base)>>) + Len(type.base)
        BY <3>2, ConcatProperties
      <3>5. Len(type.base) \in Byte
        <4>1. Len(type.base) <= Len(b)
          BY <3>1, <3>2, <3>3, <3>4
        <4> HIDE DEF b
        <4>2. Len(type.base) <= 255
          BY <1>2, <3>1, <4>1
        <4> QED
          BY <3>1, <4>2, ByteRange
      <3>6. <<Len(type.base)>> \in Seq(Byte)
        BY <3>5
      <3> QED
        BY <3>1, <3>3, <3>6, ConcatProperties
    <2>2. CASE TypeEnum(type) # TYPE_CUSTOM
      BY <2>2, EmptySeq DEF NameBytes
    <2> QED
      BY <2>1, <2>2
  <1>5. c \in Seq(Byte)
    <2>1. ASSUME TypeSize(type) # NULL PROVE <<TypeSize(type)>> \in Seq(Byte)
      <3>1. TypeSize(type) \in Byte
        BY <2>1 DEF Sendable
      <3> QED
        BY <3>1
    <2> QED
      BY <2>1, EmptySeq DEF SizeBytes
  <1>6. d \in Seq(Byte)
    <2>1. Len(type.levels) \in Nat /\ Len(type.levels) <= Len(e)
      <3>1. type.levels \in Seq(Byte \cup {NULL})
        BY DEF Sendable
      <3> QED
        BY <3>1, LevelsCounted
    <2>2. Len(type.levels) \in Byte
      BY <1>2, <2>1, ByteRange
    <2>3. <<Len(type.levels)>> \in Seq(Byte)
      BY <2>2
    <2> QED
      BY <2>3, EmptySeq DEF CountBytes
  <1>7. e \in Seq(Byte) /\ key \in Seq(Byte)
    BY ImagesType DEF Sendable
  <1>8. f \in Seq(Byte)
    <2>1. Len(key) \in Byte
      BY <1>2, ByteRange
    <2> QED
      BY <2>1
  <1>9. Payload(type, key) = a \o b \o c \o d \o e \o f \o key
    BY DEF Payload
  <1> HIDE DEF a, b, c, d, e, f
  <1>10. a \o b \o c \o d \o e \o f \o key \in Seq(Byte)
    BY <1>3, <1>4, <1>5, <1>6, <1>7, <1>8, SevenType
  <1> QED
    BY <1>9, <1>10

LEMMA ReceivedType ==
    ASSUME buf \in Buffer, NEW apdu \in Seq(Byte), Len(apdu) <= BUF_SIZE
    PROVE  Received(apdu) \in Buffer /\ Holds(Received(apdu), 1, apdu)
  <1> DEFINE k == Len(apdu)
             rest == SubSeq(buf, k + 1, BUF_SIZE)
             data == Received(apdu)
  <1>1. k \in Nat /\ k <= BUF_SIZE /\ BUF_SIZE \in Nat
    BY LenProperties, Constants
  <1>2. \A i \in (k + 1)..BUF_SIZE : buf[i] \in Byte
    BY <1>1 DEF Buffer
  <1>3. data = apdu \o rest
    BY DEF Received
  <1> HIDE DEF k
  <1>4. rest \in Seq(Byte) /\ Len(rest) = IF k + 1 <= BUF_SIZE THEN BUF_SIZE - (k + 1) + 1 ELSE 0
    BY <1>1, <1>2, SubSeqProperties
  <1> HIDE DEF rest, data
  <1>5. /\ apdu \o rest \in Seq(Byte) /\ Len(apdu \o rest) = Len(apdu) + Len(rest)
        /\ \A i \in 1..Len(apdu) + Len(rest) :
             (apdu \o rest)[i] = IF i <= Len(apdu) THEN apdu[i] ELSE rest[i - Len(apdu)]
    BY <1>4, ConcatProperties
  <1>6. data \in Seq(Byte) /\ Len(data) = BUF_SIZE
    BY <1>1, <1>3, <1>4, <1>5 DEF k
  <1>7. data \in Buffer
    BY <1>6, LenProperties DEF Buffer
  <1>8. ASSUME NEW i \in 1..Len(apdu) PROVE data[1 + i - 1] = apdu[i]
    <2>1. 1 + i - 1 = i /\ i \in 1..(Len(apdu) + Len(rest)) /\ i <= Len(apdu)
      BY <1>1, <1>4 DEF k
    <2> QED
      BY <1>3, <1>5, <2>1
  <1> QED
    BY <1>7, <1>8 DEF Holds, data

LEMMA NameApdu ==
    ASSUME NEW name \in JsonNames
    PROVE  /\ name \in Seq(Byte) /\ Len(name) \in Byte
           /\ send_struct_def_name(name) \in Seq(Byte)
           /\ Len(send_struct_def_name(name)) = 5 + Len(name)
           /\ 5 + Len(name) <= BUF_SIZE
  <1> DEFINE header == <<224, 26, 0, 0, Len(name)>>
  <1>1. name \in Seq(Byte) /\ OFFSET_DATA + Len(name) <= BUF_SIZE
    BY DefinitionsAssumption
  <1>2. Len(name) \in Nat /\ Len(name) <= 255 /\ 5 + Len(name) <= BUF_SIZE
    BY <1>1, LenProperties, Constants DEF OFFSET_DATA
  <1>3. Len(name) \in Byte
    BY <1>2, ByteRange
  <1>4. header \in Seq(Byte) /\ Len(header) = 5
    <2>1. 224 \in Byte /\ 26 \in Byte /\ 0 \in Byte
      BY DEF Byte
    <2> QED
      BY <1>3, <2>1
  <1>5. send_struct_def_name(name) = header \o name
    BY DEF send_struct_def_name
  <1> HIDE DEF header
  <1>6. header \o name \in Seq(Byte) /\ Len(header \o name) = 5 + Len(name)
    <2>1. header \o name \in Seq(Byte) /\ Len(header \o name) = Len(header) + Len(name)
      BY <1>1, <1>4, ConcatProperties
    <2> QED
      BY <1>4, <2>1
  <1> QED
    BY <1>1, <1>2, <1>3, <1>5, <1>6

LEMMA NameReceived ==
    ASSUME buf \in Buffer, NEW name \in JsonNames
    PROVE  LET data == Received(send_struct_def_name(name))
           IN  data \in Buffer /\ data[5] = Len(name) /\ Holds(data, 6, name)
  <1> DEFINE header == <<224, 26, 0, 0, Len(name)>>
             data == Received(send_struct_def_name(name))
  <1>1. /\ send_struct_def_name(name) \in Seq(Byte)
        /\ Len(send_struct_def_name(name)) <= BUF_SIZE
        /\ name \in Seq(Byte) /\ Len(name) \in Byte
    BY NameApdu
  <1>2. data \in Buffer /\ Holds(data, 1, send_struct_def_name(name))
    BY <1>1, ReceivedType
  <1>3. header \in Seq(Byte) /\ Len(header) = 5 /\ header[5] = Len(name)
    <2>1. 224 \in Byte /\ 26 \in Byte /\ 0 \in Byte
      BY DEF Byte
    <2> QED
      BY <1>1, <2>1
  <1>4. send_struct_def_name(name) = header \o name
    BY DEF send_struct_def_name
  <1> HIDE DEF header, data
  <1>5. Holds(data, 1, header \o name) <=> Holds(data, 1, header) /\ Holds(data, 1 + Len(header), name)
    <2>1. 1 \in Int
      OBVIOUS
    <2> QED
      BY <1>1, <1>3, <2>1, HoldsConcat
  <1>6. Holds(data, 1, header) /\ Holds(data, 1 + Len(header), name)
    BY <1>2, <1>4, <1>5
  <1>7. Holds(data, 6, name)
    <2>1. 1 + Len(header) = 6
      BY <1>3
    <2> QED
      BY <1>6, <2>1
  <1>8. data[5] = Len(name)
    <2>1. 5 \in 1..Len(header) /\ 1 + 5 - 1 = 5
      BY <1>3
    <2>2. data[1 + 5 - 1] = header[5]
      BY <1>6, <2>1 DEF Holds
    <2> QED
      BY <1>3, <2>1, <2>2
  <1> QED
    BY <1>2, <1>7, <1>8 DEF data

LEMMA PartApdu ==
    ASSUME NEW part \in Parts
    PROVE  /\ <<224, 26, 255, 255, Len(part)>> \o part \in Seq(Byte)
           /\ Len(<<224, 26, 255, 255, Len(part)>> \o part) <= BUF_SIZE
  <1> DEFINE header == <<224, 26, 255, 255, Len(part)>>
  <1>1. part \in Seq(Byte) /\ OFFSET_DATA + Len(part) <= BUF_SIZE
    BY DefinitionsAssumption
  <1>2. Len(part) \in Nat /\ Len(part) <= 255 /\ 5 + Len(part) <= BUF_SIZE
    BY <1>1, LenProperties, Constants DEF OFFSET_DATA
  <1>3. Len(part) \in Byte
    BY <1>2, ByteRange
  <1>4. header \in Seq(Byte) /\ Len(header) = 5
    <2>1. 224 \in Byte /\ 26 \in Byte /\ 255 \in Byte
      BY DEF Byte
    <2> QED
      BY <1>3, <2>1
  <1> HIDE DEF header
  <1>5. header \o part \in Seq(Byte) /\ Len(header \o part) = 5 + Len(part)
    <2>1. header \o part \in Seq(Byte) /\ Len(header \o part) = Len(header) + Len(part)
      BY <1>1, <1>4, ConcatProperties
    <2> QED
      BY <1>4, <2>1
  <1>6. Len(header \o part) <= BUF_SIZE
    BY <1>2, <1>5
  <1> QED
    BY <1>5, <1>6 DEF header

LEMMA FieldSendable == \A field \in JsonFields : Sendable(field.type, field.name)
  BY DefinitionsAssumption DEF Sendable

LEMMA FieldApdu ==
    ASSUME NEW type, NEW key, Sendable(type, key),
           Len(send_struct_def_field(type, key)) <= BUF_SIZE
    PROVE  /\ send_struct_def_field(type, key) \in Seq(Byte)
           /\ Len(send_struct_def_field(type, key)) = 5 + Len(Payload(type, key))
           /\ Payload(type, key) \in Seq(Byte)
  <1> DEFINE payload == Payload(type, key)
             header == <<224, 26, 0, 255, Len(payload)>>
  <1>1. payload \in Seq(Nat) /\ Len(payload) \in Nat
    BY PayloadLength, LenProperties
  <1>2. send_struct_def_field(type, key) = header \o payload
    BY SendField
  <1>3. header \in Seq(Nat) /\ Len(header) = 5
    BY <1>1
  <1> HIDE DEF header
  <1>4. Len(header \o payload) = 5 + Len(payload)
    <2> HIDE DEF payload
    <2>1. Len(header \o payload) = Len(header) + Len(payload)
      BY <1>1, <1>3, ConcatProperties
    <2> QED
      BY <1>3, <2>1
  <1>5. Len(payload) <= 255
    BY <1>1, <1>2, <1>4, Constants DEF OFFSET_DATA
  <1>6. payload \in Seq(Byte)
    BY <1>5, PayloadBytes
  <1>7. header \in Seq(Byte)
    <2>1. 224 \in Byte /\ 26 \in Byte /\ 255 \in Byte /\ 0 \in Byte
      BY DEF Byte
    <2>2. Len(payload) \in Byte
      BY <1>1, <1>5, ByteRange
    <2> HIDE DEF payload
    <2> QED
      BY <2>1, <2>2 DEF header
  <1>8. header \o payload \in Seq(Byte)
    BY <1>6, <1>7, ConcatProperties
  <1> QED
    BY <1>2, <1>4, <1>6, <1>8

-----------------------------------------------------------------------------

(***************************************************************************)
(* Where the count of structs is.                                          *)
(***************************************************************************)

LEMMA StructsArray ==
    /\ Len(TypenamesTable) \in Nat /\ structs_array \in Nat
    /\ Len(TypenamesTable) <= structs_array /\ structs_array + 1 <= SIZE_MEM_BUFFER
  <1>1. Len(TypenamesTable) \in Nat
    BY TableType, LenProperties
  <1>2. PATH_SIZE \in Nat /\ FH_SIZE \in Nat /\ SIZE_MEM_BUFFER > structs_array
    BY StructDefsAssumption
  <1>3. structs_array = Len(TypenamesTable) + PATH_SIZE + FH_SIZE
    BY DEF structs_array
  <1> QED
    BY <1>1, <1>2, <1>3, Constants

LEMMA HoldsOne ==
    ASSUME NEW m, NEW p \in Int, NEW b, Holds(m, p, <<b>>)
    PROVE  m[p] = b
  <1>1. 1 \in 1..Len(<<b>>) /\ <<b>>[1] = b /\ p + 1 - 1 = p
    OBVIOUS
  <1> QED
    BY <1>1 DEF Holds

(* A length and as many bytes are read back.                               *)
LEMMA StringHeld ==
    ASSUME NEW q \in Nat, NEW s \in Seq(Nat), Holds(mem, q, <<Len(s)>> \o s)
    PROVE  /\ mem[q] = Len(s) /\ StringAt(q) = s /\ AfterString(q) = q + 1 + Len(s)
           /\ Len(s) \in Nat
  <1>1. Len(s) \in Nat /\ s = [i \in 1..Len(s) |-> s[i]]
    BY LenProperties
  <1>2. <<Len(s)>> \in Seq(Nat) /\ Len(<<Len(s)>>) = 1
    BY <1>1
  <1>3. Holds(mem, q, <<Len(s)>>) /\ Holds(mem, q + 1, s)
    <2>1. q \in Int
      OBVIOUS
    <2> QED
      BY <1>2, <2>1, HoldsConcat
  <1>4. mem[q] = Len(s)
    BY <1>3, HoldsOne
  <1>5. \A i \in 1..Len(s) : mem[q + i] = s[i]
    <2>1. \A i \in 1..Len(s) : (q + 1) + i - 1 = q + i
      BY <1>1
    <2> QED
      BY <1>3, <2>1 DEF Holds
  <1>6. StringAt(q) = s
    <2>1. StringAt(q) = [i \in 1..Len(s) |-> mem[q + i]]
      BY <1>4 DEF StringAt
    <2>2. [i \in 1..Len(s) |-> mem[q + i]] = [i \in 1..Len(s) |-> s[i]]
      BY <1>5
    <2> QED
      BY <1>1, <2>1, <2>2
  <1> QED
    BY <1>1, <1>4, <1>6 DEF AfterString

EntryStep(p, reads, n) == reads.name[p] + 1 + reads.byte[reads.name[p]]

EntryChain == INSTANCE Recursion WITH Step <- EntryStep

LEMMA EntriesStep ==
    /\ EntryPtr[1] = 1
    /\ \A n \in Nat \ {0} : EntryPtr[n + 1] = AfterString(NameOfEntry[EntryPtr[n]])
  <1> DEFINE reads == [name |-> NameOfEntry, byte |-> mem]
             F == CHOOSE G : EntryChain!IsChain(G, 0 + 1, reads)
  <1>1. \E G : EntryChain!IsChain(G, 0 + 1, reads)
    BY EntryChain!ChainExists
  <1>2. EntryPtr = F
    <2>1. reads.name = NameOfEntry /\ reads.byte = mem
      OBVIOUS
    <2> HIDE DEF reads
    <2> QED
      BY <2>1 DEF EntryPtr, EntryChain!IsChain, EntryStep, AfterString, typenames_array
  <1>3. EntryChain!IsChain(F, 0 + 1, reads)
    BY <1>1
  <1> HIDE DEF F
  <1>4. F[1] = 0 + 1 /\ \A n \in Nat \ {0} : F[n + 1] = EntryStep(F[n], reads, n)
    BY <1>3, EntryChain!ChainSteps
  <1> QED
    BY <1>2, <1>4 DEF EntryStep, AfterString

(* Behind its types, of which the last only is not marked, is the name.    *)
LEMMA EntryHeld ==
    ASSUME mem \in Memory, NEW s \in 1..6, NEW p \in Nat, p + Len(Entry(s)) <= SIZE_MEM_BUFFER,
           Holds(mem, p, Entry(s))
    PROVE  /\ NameOfEntry[p] = p + Len(EntryBytes(s))
           /\ AfterString(NameOfEntry[p]) = p + Len(Entry(s))
           /\ EntryTypes(p) = IF s = 6 THEN {6, 7} ELSE {s}
           /\ StringAt(NameOfEntry[p]) = typenames[s]
  <1> DEFINE b == EntryBytes(s)
             l == <<Len(typenames[s])>>
             t == typenames[s]
  <1>1. b \in Seq(Byte) /\ l \in Seq(Byte) /\ t \in Seq(Byte) /\ Len(l) = 1
    BY EntryType
  <1>2. b \o l \in Seq(Byte) /\ Len(b \o l) = Len(b) + 1 /\ Len(b) \in Nat /\ Len(t) \in Nat
    BY <1>1, ConcatProperties, LenProperties
  <1>3. (b \o l) \o t \in Seq(Byte) /\ Len((b \o l) \o t) = Len(b \o l) + Len(t)
    BY <1>1, <1>2, ConcatProperties
  <1>4. Entry(s) = (b \o l) \o t
    BY DEF Entry
  <1>5. SIZE_MEM_BUFFER \in Nat /\ p \in Int
    BY Constants
  <1> HIDE DEF b, l, t
  <1>6. Holds(mem, p, b \o l) /\ Holds(mem, p + (Len(b) + 1), t)
    <2> DEFINE x == b \o l
    <2>1. x \in Seq(Byte) /\ Len(x) = Len(b) + 1
      BY <1>2
    <2>2. Entry(s) = x \o t
      BY <1>4
    <2> HIDE DEF x
    <2>3. Holds(mem, p, x) /\ Holds(mem, p + Len(x), t)
      BY <1>1, <1>5, <2>1, <2>2, HoldsConcat
    <2> QED
      BY <2>1, <2>3 DEF x
  <1>7. Holds(mem, p, b) /\ Holds(mem, p + Len(b), l)
    BY <1>1, <1>5, <1>6, HoldsConcat
  <1>8. /\ Len(b) = (IF s = 6 THEN 2 ELSE 1)
        /\ mem[p] = (IF s = 6 THEN 134 ELSE s)
        /\ s = 6 => mem[p + 1] = 7
    <2>1. CASE s = 6
      <3>1. b = <<134, 7>>
        BY <2>1 DEF b, EntryBytes
      <3>2. Len(b) = 2 /\ b[1] = 134 /\ b[2] = 7 /\ 1 \in 1..Len(b) /\ 2 \in 1..Len(b)
        BY <3>1
      <3>3. p + 1 - 1 = p /\ p + 2 - 1 = p + 1
        OBVIOUS
      <3> QED
        BY <1>7, <2>1, <3>2, <3>3 DEF Holds
    <2>2. CASE s # 6
      <3>1. b = <<s>>
        BY <2>2 DEF b, EntryBytes
      <3>2. Len(b) = 1 /\ b[1] = s /\ 1 \in 1..Len(b)
        BY <3>1
      <3>3. p + 1 - 1 = p
        OBVIOUS
      <3> QED
        BY <1>7, <2>2, <3>2, <3>3 DEF Holds
    <2> QED
      BY <2>1, <2>2
  <1>9. p + Len(b) + 1 <= SIZE_MEM_BUFFER
    BY <1>2, <1>3, <1>4, <1>5
  <1> DEFINE Unmarked(a) == mem[a] < 128 /\ \A c \in p..(a - 1) : mem[c] >= 128
             last == p + Len(b) - 1
  <1>10. /\ last \in p..(SIZE_MEM_BUFFER - 1) /\ Unmarked(last)
         /\ \A a \in p..(SIZE_MEM_BUFFER - 1) : Unmarked(a) => a = last
    <2>1. CASE s = 6
      <3>1. last = p + 1 /\ mem[last] = 7 /\ mem[p] = 134
        BY <1>8, <2>1
      <3>2. last \in p..(SIZE_MEM_BUFFER - 1)
        BY <1>5, <1>8, <1>9, <2>1, <3>1
      <3> HIDE DEF last
      <3>3. Unmarked(last)
        <4>1. \A c \in p..(last - 1) : c = p
          BY <3>1
        <4> QED
          BY <3>1, <4>1
      <3>4. ASSUME NEW a \in p..(SIZE_MEM_BUFFER - 1), Unmarked(a) PROVE a = last
        <4>1. a # p
          BY <3>1, <3>4
        <4>2. a > last => last \in p..(a - 1)
          BY <3>1, <3>4
        <4>3. ~(a > last)
          BY <3>1, <3>4, <4>2
        <4> QED
          BY <3>1, <3>4, <4>1, <4>3
      <3> QED
        BY <3>2, <3>3, <3>4
    <2>2. CASE s # 6
      <3>1. last = p /\ mem[last] = s
        BY <1>8, <2>2
      <3>2. last \in p..(SIZE_MEM_BUFFER - 1)
        BY <1>5, <1>8, <1>9, <2>2, <3>1
      <3> HIDE DEF last
      <3>3. Unmarked(last)
        BY <3>1
      <3>4. ASSUME NEW a \in p..(SIZE_MEM_BUFFER - 1), Unmarked(a) PROVE a = last
        <4>1. a > p => p \in p..(a - 1)
          BY <3>4
        <4> QED
          BY <3>1, <3>4, <4>1
      <3> QED
        BY <3>2, <3>3, <3>4
    <2> QED
      BY <2>1, <2>2
  <1>11. NameOfEntry[p] = p + Len(b)
    <2>1. NameOfEntry[p] = 1 + CHOOSE a \in p..(SIZE_MEM_BUFFER - 1) : Unmarked(a)
      BY DEF NameOfEntry
    <2> HIDE DEF Unmarked
    <2>2. (CHOOSE a \in p..(SIZE_MEM_BUFFER - 1) : Unmarked(a)) = last
      BY <1>10
    <2>3. 1 + last = p + Len(b)
      BY <1>2
    <2> HIDE DEF last
    <2> QED
      BY <2>1, <2>2, <2>3, Zenon
  <1>12. EntryTypes(p) = IF s = 6 THEN {6, 7} ELSE {s}
    <2>1. EntryTypes(p) = {mem[a] % 16 : a \in p..last}
      BY <1>2, <1>11 DEF EntryTypes
    <2>2. CASE s = 6
      <3>1. p..last = {p, p + 1}
        BY <1>8, <2>2
      <3>2. mem[p] % 16 = 6 /\ mem[p + 1] % 16 = 7
        BY <1>8, <2>2
      <3> QED
        BY <2>1, <2>2, <3>1, <3>2
    <2>3. CASE s # 6
      <3>1. p..last = {p}
        BY <1>8, <2>3
      <3>2. mem[p] % 16 = s
        BY <1>8, <2>3
      <3> QED
        BY <2>1, <2>3, <3>1, <3>2
    <2> QED
      BY <2>2, <2>3
  <1>13. mem[p + Len(b)] = Len(t) /\ StringAt(p + Len(b)) = t /\ AfterString(p + Len(b)) = p + Len(b) + 1 + Len(t)
    <2>1. l = <<Len(t)>>
      BY DEF l, t
    <2> DEFINE q == p + Len(b)
    <2>2. q \in Nat /\ q + 1 = p + (Len(b) + 1) /\ q \in Int
      BY <1>2
    <2> HIDE DEF q
    <2>3. Holds(mem, q, l) /\ Holds(mem, q + 1, t)
      BY <1>6, <1>7, <2>2 DEF q
    <2>4. Holds(mem, q, l \o t)
      BY <1>1, <2>2, <2>3, HoldsConcat
    <2>5. t \in Seq(Nat)
      BY <1>1, BytesAreNumbers
    <2>6. mem[q] = Len(t) /\ StringAt(q) = t /\ AfterString(q) = q + 1 + Len(t)
      BY <2>1, <2>2, <2>4, <2>5, StringHeld
    <2> QED
      BY <2>6 DEF q
  <1>14. AfterString(NameOfEntry[p]) = p + Len(Entry(s))
    <2>1. Len(Entry(s)) = Len(b) + 1 + Len(t)
      BY <1>2, <1>3, <1>4
    <2>2. p + Len(b) + 1 + Len(t) = p + (Len(b) + 1 + Len(t))
      BY <1>2
    <2> QED
      BY <1>11, <1>13, <2>1, <2>2
  <1> QED
    BY <1>11, <1>12, <1>13, <1>14 DEF b, t

(* The sequences joined grow by each of them.                              *)
LEMMA JoinedGrows ==
    ASSUME NEW K, NEW seqs \in Seq(Seq(K)), NEW f, Joined(f, seqs)
    PROVE  /\ \A n \in 1..Len(seqs) : Len(f[n]) = Len(f[n - 1]) + Len(seqs[n])
           /\ \A n \in 0..Len(seqs) : Len(f[n]) \in Nat /\ Len(f[n]) <= Len(f[Len(seqs)])
  <1> DEFINE k == Len(seqs)
             L(n) == Len(f[n])
             T == {n \in Nat : n <= k => L(k - n) <= L(k)}
  <1>1. k \in Nat
    BY LenProperties
  <1>2. \A n \in 0..k : f[n] \in Seq(K) /\ L(n) \in Nat
    BY JoinedTyped, LenProperties
  <1>3. ASSUME NEW n \in 1..k
        PROVE  L(n) = L(n - 1) + Len(seqs[n]) /\ Len(seqs[n]) \in Nat
    <2>1. n - 1 \in 0..k
      BY <1>1
    <2>2. f[n] = f[n - 1] \o seqs[n]
      BY DEF Joined
    <2> DEFINE s == f[n - 1]
               t == seqs[n]
    <2>3. s \in Seq(K) /\ t \in Seq(K)
      BY <1>2, <2>1, ElementOfSeq
    <2> HIDE DEF s, t
    <2>4. Len(s \o t) = Len(s) + Len(t)
      BY <2>3, ConcatProperties
    <2>5. Len(t) \in Nat
      BY <2>3, LenProperties
    <2> QED
      BY <2>2, <2>4, <2>5 DEF s, t
  <1>4. T = Nat
    <2> HIDE DEF k, L
    <2>1. 0 \in T
      <3>1. k - 0 = k /\ k \in 0..k
        BY <1>1
      <3> QED
        BY <1>2, <3>1
    <2>2. ASSUME NEW n \in T PROVE n + 1 \in T
      <3>1. n \in Nat /\ n + 1 \in Nat
        BY <2>2
      <3>2. ASSUME n + 1 <= k PROVE L(k - (n + 1)) <= L(k)
        <4>1. k - n \in 1..k /\ k - n \in 0..k /\ n <= k /\ (k - n) - 1 = k - (n + 1)
              /\ k - (n + 1) \in 0..k /\ k \in 0..k
          BY <1>1, <3>1, <3>2
        <4>2. L(k - n) <= L(k)
          BY <2>2, <4>1
        <4>3. L(k - n) = L(k - (n + 1)) + Len(seqs[k - n]) /\ Len(seqs[k - n]) \in Nat
          BY <1>3, <4>1
        <4>4. L(k - n) \in Nat /\ L(k - (n + 1)) \in Nat /\ L(k) \in Nat
          BY <1>2, <4>1
        <4> QED
          BY <4>2, <4>3, <4>4
      <3> QED
        BY <3>1, <3>2
    <2>3. T \in SUBSET Nat
      OBVIOUS
    <2> HIDE DEF T
    <2> QED
      BY <2>1, <2>2, <2>3, Sizes!SetInduction
  <1>5. ASSUME NEW n \in 0..k PROVE L(n) <= L(k)
    <2> HIDE DEF k, L
    <2>1. k - n \in Nat /\ k - n <= k /\ k - (k - n) = n
      BY <1>1
    <2> QED
      BY <1>4, <2>1
  <1> QED
    BY <1>2, <1>3, <1>5

(* The table, as long as it is held, gives each native type its name.      *)
LEMMA NativeNames ==
    ASSUME mem \in Memory, Holds(mem, 0, TypenamesTable)
    PROVE  \A e \in 1..7 : get_struct_field_sol_typename(e) = typenames[IF e = 7 THEN 6 ELSE e]
  <1> DEFINE all == FlattenSeq(Entries)
             lists == Entries
  <1>1. /\ TypenamesTable = <<6>> \o all /\ lists \in Seq(Seq(Byte)) /\ Len(lists) = 6
        /\ all \in Seq(Byte) /\ <<6>> \in Seq(Byte) /\ Len(<<6>>) = 1
    <2>1. <<6>> \in Seq(Byte) /\ Len(<<6>>) = 1
      BY DEF Byte
    <2> QED
      BY <2>1, TableType
  <1>2. \A s \in 1..6 : lists[s] = Entry(s)
    BY DEF Entries
  <1>3. all = FlattenSeq(lists)
    OBVIOUS
  <1> HIDE DEF all, lists
  <1>4. PICK f : Joined(f, lists) /\ all = f[6]
    BY <1>1, <1>3, FlattenJoins
  <1>5. Holds(mem, 0, <<6>>) /\ Holds(mem, 0 + 1, all) /\ Len(<<6>> \o all) = 1 + Len(all)
    <2>1. 0 \in Int
      OBVIOUS
    <2> DEFINE one == <<6>>
    <2>2. one \in Seq(Byte) /\ Len(one) = 1 /\ Holds(mem, 0, one \o all)
      BY <1>1
    <2> HIDE DEF one
    <2>3. Len(one \o all) = Len(one) + Len(all)
      BY <1>1, <2>2, ConcatProperties
    <2>4. Holds(mem, 0, one) /\ Holds(mem, 0 + Len(one), all)
      BY <1>1, <2>1, <2>2, HoldsConcat
    <2> QED
      BY <2>2, <2>3, <2>4 DEF one
  <1>6. mem[0] = 6
    <2>1. 0 \in Int
      OBVIOUS
    <2> QED
      BY <1>5, <2>1, HoldsOne
  <1>7. \A n \in 0..6 : f[n] \in Seq(Byte) /\ Len(f[n]) \in Nat
    BY <1>1, <1>4, JoinedTyped, LenProperties
  <1>8. ASSUME NEW n \in 1..6
        PROVE  /\ Len(f[n]) = Len(f[n - 1]) + Len(Entry(n)) /\ Len(Entry(n)) \in Nat
               /\ Holds(mem, 1 + Len(f[n - 1]), Entry(n))
    <2>1. f[n] = f[n - 1] \o Entry(n)
      BY <1>1, <1>2, <1>4 DEF Joined
    <2>2. f[n - 1] \in Seq(Byte) /\ Entry(n) \in Seq(Byte)
      <3>1. n - 1 \in 0..6
        OBVIOUS
      <3> QED
        BY <1>7, <3>1, EntryType
    <2>3. Len(f[n - 1] \o Entry(n)) = Len(f[n - 1]) + Len(Entry(n))
      BY <2>2, ConcatProperties
    <2>4. Holds(mem, 1 + Len(f[n - 1]), lists[n])
      <3>1. 1 \in Int /\ Holds(mem, 1, f[Len(lists)])
        BY <1>1, <1>4, <1>5
      <3> QED
        BY <1>1, <1>4, <3>1, HoldsJoined
    <2> QED
      BY <1>2, <2>1, <2>2, <2>3, <2>4, LenProperties
  <1> DEFINE P(n) == 1 + Len(f[n - 1])
  <1>10. 1 + Len(all) <= SIZE_MEM_BUFFER
    BY <1>1, <1>5, StructsArray, Constants
  <1>11. ASSUME NEW n \in 1..6
         PROVE  P(n) \in Nat /\ P(n) + Len(Entry(n)) <= SIZE_MEM_BUFFER
    <2>1. n - 1 \in 0..6 /\ n \in 0..6
      OBVIOUS
    <2>2. Len(f[n]) <= Len(all)
      BY <1>1, <1>4, <2>1, JoinedGrows
    <2>3. Len(f[n - 1]) \in Nat /\ Len(f[n]) \in Nat /\ Len(all) \in Nat
      BY <1>1, <1>7, <2>1, LenProperties
    <2>4. Len(f[n]) = Len(f[n - 1]) + Len(Entry(n)) /\ Len(Entry(n)) \in Nat
      BY <1>8
    <2> QED
      BY <1>10, <2>2, <2>3, <2>4, Constants
  <1>12. \A n \in 1..6 : Holds(mem, P(n), Entry(n))
    BY <1>8
  <1>13. P(1) = 1 /\ \A n \in 1..5 : P(n + 1) = P(n) + Len(Entry(n))
    <2>1. P(1) = 1
      <3>1. f[0] = << >> /\ Len(<< >>) = 0 /\ 1 - 1 = 0
        BY <1>4 DEF Joined
      <3> QED
        BY <3>1
    <2>2. ASSUME NEW n \in 1..5 PROVE P(n + 1) = P(n) + Len(Entry(n))
      <3>1. n \in 1..6 /\ (n + 1) - 1 = n /\ n - 1 \in 0..6
        OBVIOUS
      <3>2. Len(f[n]) = Len(f[n - 1]) + Len(Entry(n)) /\ Len(Entry(n)) \in Nat
        BY <1>8, <3>1
      <3>3. Len(f[n - 1]) \in Nat
        BY <1>7, <3>1
      <3> QED
        BY <3>1, <3>2, <3>3
    <2> QED
      BY <2>1, <2>2
  <1> HIDE DEF P
  <1>14. ASSUME NEW n \in 1..6
         PROVE  /\ AfterString(NameOfEntry[P(n)]) = P(n) + Len(Entry(n))
                /\ EntryTypes(P(n)) = IF n = 6 THEN {6, 7} ELSE {n}
                /\ StringAt(NameOfEntry[P(n)]) = typenames[n]
    BY <1>11, <1>12, EntryHeld
  <1>15. \A n \in 1..6 : EntryPtr[n] = P(n)
    <2>1. \A n \in 1..5 : EntryPtr[n] = P(n) => EntryPtr[n + 1] = P(n + 1)
      <3>1. SUFFICES ASSUME NEW n \in 1..5, EntryPtr[n] = P(n) PROVE EntryPtr[n + 1] = P(n + 1)
        OBVIOUS
      <3>2. n \in Nat \ {0} /\ n \in 1..6
        OBVIOUS
      <3>3. EntryPtr[n + 1] = AfterString(NameOfEntry[EntryPtr[n]])
        BY <3>2, EntriesStep
      <3>4. AfterString(NameOfEntry[P(n)]) = P(n) + Len(Entry(n))
        BY <1>14, <3>2
      <3>5. P(n + 1) = P(n) + Len(Entry(n))
        BY <1>13
      <3> QED
        BY <3>1, <3>3, <3>4, <3>5, Zenon
    <2>2. /\ 1 \in 1..5 /\ 2 \in 1..5 /\ 3 \in 1..5 /\ 4 \in 1..5 /\ 5 \in 1..5
          /\ 1 + 1 = 2 /\ 2 + 1 = 3 /\ 3 + 1 = 4 /\ 4 + 1 = 5 /\ 5 + 1 = 6
      OBVIOUS
    <2>3. EntryPtr[1] = P(1)
      BY <1>13, EntriesStep
    <2>4. EntryPtr[2] = P(2)
      BY <2>1, <2>2, <2>3
    <2>5. EntryPtr[3] = P(3)
      BY <2>1, <2>2, <2>4
    <2>6. EntryPtr[4] = P(4)
      BY <2>1, <2>2, <2>5
    <2>7. EntryPtr[5] = P(5)
      BY <2>1, <2>2, <2>6
    <2>8. EntryPtr[6] = P(6)
      BY <2>1, <2>2, <2>7
    <2> QED
      BY <2>3, <2>4, <2>5, <2>6, <2>7, <2>8
  <1>16. ASSUME NEW e \in 1..7
         PROVE  get_struct_field_sol_typename(e) = typenames[IF e = 7 THEN 6 ELSE e]
    <2> DEFINE k == IF e = 7 THEN 6 ELSE e
               found == {n \in 1..mem[typenames_array] : e \in EntryTypes(EntryPtr[n])}
    <2>1. k \in 1..6
      OBVIOUS
    <2>2. \A n \in 1..6 : EntryTypes(EntryPtr[n]) = IF n = 6 THEN {6, 7} ELSE {n}
      BY <1>14, <1>15
    <2>3. found = {n \in 1..6 : e \in IF n = 6 THEN {6, 7} ELSE {n}}
      BY <1>6, <2>2 DEF typenames_array
    <2>4. {n \in 1..6 : e \in IF n = 6 THEN {6, 7} ELSE {n}} = {k}
      OBVIOUS
    <2>5. found = {k}
      BY <2>3, <2>4
    <2>6. get_struct_field_sol_typename(e) =
              IF found = {} THEN NULL ELSE StringAt(NameOfEntry[EntryPtr[Min(found)]])
      BY DEF get_struct_field_sol_typename
    <2> HIDE DEF found, k
    <2>7. Min(found) = k
      BY <2>1, <2>5 DEF Min
    <2>8. StringAt(NameOfEntry[EntryPtr[k]]) = typenames[k]
      BY <1>14, <1>15, <2>1
    <2> QED
      BY <2>5, <2>6, <2>7, <2>8 DEF k
  <1> QED
    BY <1>16

-----------------------------------------------------------------------------

(***************************************************************************)
(* The accessors read back a field that is held in memory.                 *)
(***************************************************************************)

LEMMA LevelPtrIs == ASSUME NEW p PROVE LevelPtr(p) = LevelsIn(mem, p)
  BY DEF LevelPtr, LevelsIn, get_next_struct_field_array_lvl, NextLevel

LEMMA LevelHeld ==
    ASSUME NEW q \in Nat, NEW level \in Byte \cup {NULL}, Holds(mem, q, LevelImage(level))
    PROVE  /\ struct_field_array_depth(q) = level
           /\ NextLevel(mem, q) = q + Len(LevelImage(level))
  <1>1. CASE level = NULL
    <2>1. LevelImage(level) = <<0>> /\ Len(<<0>>) = 1
      BY <1>1 DEF LevelImage, ARRAY_DYNAMIC
    <2>2. mem[q] = 0
      <3>1. q \in Int
        OBVIOUS
      <3> QED
        BY <2>1, <3>1, HoldsOne
    <2> QED
      BY <1>1, <2>1, <2>2 DEF struct_field_array_depth, NextLevel, ARRAY_FIXED_SIZE
  <1>2. CASE level # NULL
    <2>1. LevelImage(level) = <<1, level>>
      BY <1>2 DEF LevelImage, ARRAY_FIXED_SIZE
    <2>2. /\ Len(<<1, level>>) = 2 /\ 1 \in 1..2 /\ 2 \in 1..2
          /\ <<1, level>>[1] = 1 /\ <<1, level>>[2] = level
          /\ q + 1 - 1 = q /\ q + 2 - 1 = q + 1
      OBVIOUS
    <2>3. mem[q] = 1 /\ mem[q + 1] = level
      BY <2>1, <2>2 DEF Holds
    <2> QED
      BY <2>1, <2>2, <2>3 DEF struct_field_array_depth, NextLevel, ARRAY_FIXED_SIZE
  <1> QED
    BY <1>1, <1>2

(* The levels held behind q are read back, one after the other.            *)
LEMMA LevelsHeld ==
    ASSUME NEW q \in Nat, NEW levels \in Seq(Byte \cup {NULL}), Holds(mem, q + 1, LevelBytes(levels))
    PROVE  /\ LevelPtr(q)[Len(levels) + 1] = q + 1 + Len(LevelBytes(levels))
           /\ \A n \in 1..Len(levels) : struct_field_array_depth(LevelPtr(q)[n]) = levels[n]
  <1> DEFINE images == LevelImages(levels)
             k == Len(levels)
             P(n) == LevelsIn(mem, q)[n]
  <1>1. /\ images \in Seq(Seq(Byte)) /\ Len(images) = k /\ k \in Nat
        /\ \A i \in 1..k : images[i] = LevelImage(levels[i]) /\ levels[i] \in Byte \cup {NULL}
    BY ImagesType, LenProperties, ElementOfSeq
  <1>2. LevelBytes(levels) = FlattenSeq(images)
    BY LevelsFlat
  <1> HIDE DEF images
  <1>3. PICK f : Joined(f, images) /\ FlattenSeq(images) = f[k]
    BY <1>1, FlattenJoins
  <1>4. \A n \in 1..k : Holds(mem, (q + 1) + Len(f[n - 1]), images[n])
    <2>1. q + 1 \in Int
      OBVIOUS
    <2> QED
      BY <1>1, <1>2, <1>3, <2>1, HoldsJoined
  <1>5. /\ \A n \in 1..k : Len(f[n]) = Len(f[n - 1]) + Len(images[n])
        /\ \A n \in 0..k : Len(f[n]) \in Nat
        /\ \A n \in 1..k : Len(images[n]) \in Nat
    <2>1. \A n \in 1..k : images[n] \in Seq(Byte)
      BY <1>1, ElementOfSeq
    <2>2. \A n \in 1..k : Len(images[n]) \in Nat
      BY <2>1, LenProperties
    <2>3. /\ \A n \in 1..Len(images) : Len(f[n]) = Len(f[n - 1]) + Len(images[n])
          /\ \A n \in 0..Len(images) : Len(f[n]) \in Nat /\ Len(f[n]) <= Len(f[Len(images)])
      BY <1>1, <1>3, JoinedGrows
    <2> QED
      BY <1>1, <2>2, <2>3
  <1>6. P(1) = q + 1 /\ \A n \in Nat \ {0} : P(n + 1) = NextLevel(mem, P(n))
    BY LevelsStep
  <1> HIDE DEF k, P
  <1>7. ASSUME NEW n \in 1..k, P(n) = (q + 1) + Len(f[n - 1])
        PROVE  struct_field_array_depth(P(n)) = levels[n] /\ P(n + 1) = (q + 1) + Len(f[n])
    <2> DEFINE x == (q + 1) + Len(f[n - 1])
               level == levels[n]
    <2>1. n - 1 \in 0..k /\ n \in Nat \ {0} /\ n \in 0..k
      BY <1>1
    <2>8. images[n] = LevelImage(level) /\ level \in Byte \cup {NULL}
      BY <1>1
    <2>9. x \in Nat
      <3>1. Len(f[n - 1]) \in Nat
        BY <1>5, <2>1
      <3>2. \A c \in Nat : (q + 1) + c \in Nat
        OBVIOUS
      <3> QED
        BY <3>1, <3>2, Zenon
    <2>2. Holds(mem, x, LevelImage(level))
      BY <1>4, <2>8
    <2>3. x + Len(LevelImage(level)) = (q + 1) + Len(f[n])
      <3>1. Len(LevelImage(level)) = Len(images[n])
        BY <2>8
      <3>2. Len(f[n]) = Len(f[n - 1]) + Len(images[n]) /\ Len(f[n - 1]) \in Nat /\ Len(images[n]) \in Nat
        BY <1>5, <2>1
      <3>3. \A b, c \in Nat : ((q + 1) + b) + c = (q + 1) + (b + c)
        OBVIOUS
      <3> QED
        BY <3>1, <3>2, <3>3, ZenonT(60)
    <2>4. P(n) = x
      BY <1>7
    <2> HIDE DEF x, level
    <2>5. struct_field_array_depth(x) = level /\ NextLevel(mem, x) = x + Len(LevelImage(level))
      BY <2>2, <2>8, <2>9, LevelHeld
    <2>6. P(n + 1) = NextLevel(mem, P(n))
      BY <1>6, <2>1
    <2>7. struct_field_array_depth(P(n)) = level /\ P(n + 1) = (q + 1) + Len(f[n])
      BY <2>3, <2>4, <2>5, <2>6
    <2> QED
      BY <2>7 DEF level
  <1> DEFINE T == {n \in Nat : n <= k => P(n + 1) = (q + 1) + Len(f[n])}
  <1>8. T = Nat
    <2>1. 0 \in T
      <3>1. f[0] = << >> /\ Len(<< >>) = 0 /\ 0 + 1 = 1 /\ (q + 1) + 0 = q + 1
        BY <1>3 DEF Joined
      <3>2. P(0 + 1) = (q + 1) + Len(f[0])
        BY <1>6, <3>1
      <3> QED
        BY <3>2
    <2>2. ASSUME NEW n \in T PROVE n + 1 \in T
      <3>1. n \in Nat /\ n + 1 \in Nat
        BY <2>2
      <3>2. ASSUME n + 1 <= k PROVE P((n + 1) + 1) = (q + 1) + Len(f[n + 1])
        <4>1. n + 1 \in 1..k /\ n <= k /\ (n + 1) - 1 = n
          BY <1>1, <3>1, <3>2
        <4>2. P(n + 1) = (q + 1) + Len(f[(n + 1) - 1])
          BY <2>2, <4>1
        <4> QED
          BY <1>7, <4>1, <4>2
      <3> QED
        BY <3>1, <3>2
    <2>3. T \in SUBSET Nat
      OBVIOUS
    <2> HIDE DEF T
    <2> QED
      BY <2>1, <2>2, <2>3, Sizes!SetInduction
  <1> HIDE DEF T
  <1>9. P(k + 1) = (q + 1) + Len(f[k])
    <2>1. k \in T /\ k <= k
      BY <1>1, <1>8
    <2> QED
      BY <2>1 DEF T
  <1>10. ASSUME NEW n \in 1..k PROVE struct_field_array_depth(P(n)) = levels[n]
    <2>1. n - 1 \in Nat /\ n - 1 <= k /\ (n - 1) + 1 = n
      BY <1>1
    <2>2. n - 1 \in T
      BY <1>8, <2>1
    <2>3. P((n - 1) + 1) = (q + 1) + Len(f[n - 1])
      BY <2>1, <2>2 DEF T
    <2> QED
      BY <1>7, <2>1, <2>3
  <1> QED
    BY <1>2, <1>3, <1>9, <1>10, LevelPtrIs DEF k, P

(* The parts of a payload held at p, each at its place.                    *)
PartsHeld(m, type, key, p) ==
    LET half == p + 1 + Len(NameBytes(type)) + Len(SizeBytes(type))
        lvls == half + Len(CountBytes(type))
        last == lvls + Len(LevelBytes(type.levels))
    IN  /\ m[p] = TypeByte(type)
        /\ Holds(m, p + 1, NameBytes(type))
        /\ Holds(m, p + 1 + Len(NameBytes(type)), SizeBytes(type))
        /\ Holds(m, half, CountBytes(type))
        /\ Holds(m, lvls, LevelBytes(type.levels))
        /\ Holds(m, last, <<Len(key)>> \o key)

LEMMA PayloadHeld ==
    ASSUME NEW m, NEW type, NEW key, Sendable(type, key), NEW p \in Nat,
           Holds(m, p, Payload(type, key))
    PROVE  PartsHeld(m, type, key, p)
  <1> DEFINE a == <<TypeByte(type)>>
             b == NameBytes(type)
             c == SizeBytes(type)
             d == CountBytes(type)
             e == LevelBytes(type.levels)
             g == <<Len(key)>>
             h == key
  <1>1. /\ a \in Seq(Nat) /\ b \in Seq(Nat) /\ c \in Seq(Nat) /\ d \in Seq(Nat)
        /\ e \in Seq(Nat) /\ g \in Seq(Nat) /\ h \in Seq(Nat)
    BY PayloadParts
  <1>2. Len(a) = 1 /\ Len(g) = 1 /\ p \in Int
    OBVIOUS
  <1>3. Payload(type, key) = a \o b \o c \o d \o e \o g \o h
    BY DEF Payload
  <1>4. Holds(m, p, a) => m[p] = TypeByte(type)
    BY <1>2, HoldsOne
  <1> HIDE DEF a, b, c, d, e, g, h
  <1>5. HeldInTurn(m, p, a, b, c, d, e, g, h)
    <2>1. Holds(m, p, a \o b \o c \o d \o e \o g \o h)
      BY <1>3
    <2> QED
      BY <1>1, <1>2, <2>1, HoldsSeven
  <1> DEFINE last == p + 1 + Len(b) + Len(c) + Len(d) + Len(e)
  <1>6. Holds(m, last, g \o h)
    <2>1. last \in Int
      <3>1. Len(b) \in Nat /\ Len(c) \in Nat /\ Len(d) \in Nat /\ Len(e) \in Nat
        BY <1>1, LenProperties
      <3> QED
        BY <3>1
    <2>2. Holds(m, last, g) /\ Holds(m, last + Len(g), h)
      BY <1>2, <1>5 DEF HeldInTurn
    <2> HIDE DEF last
    <2> QED
      BY <1>1, <2>1, <2>2, HoldsConcat
  <1>7. /\ m[p] = TypeByte(type)
        /\ Holds(m, p + 1, b) /\ Holds(m, p + 1 + Len(b), c)
        /\ Holds(m, p + 1 + Len(b) + Len(c), d)
        /\ Holds(m, p + 1 + Len(b) + Len(c) + Len(d), e)
    BY <1>2, <1>4, <1>5 DEF HeldInTurn
  <1> QED
    BY <1>6, <1>7 DEF b, c, d, e, g, h, PartsHeld

LEMMA TypeHeld ==
    ASSUME mem \in Memory, Holds(mem, 0, TypenamesTable), NEW type, NEW key, Sendable(type, key),
           NEW p \in Nat, PartsHeld(mem, type, key, p)
    PROVE  /\ get_struct_field_typename(p) = type.base
           /\ (IF struct_field_has_typesize(p) THEN get_struct_field_typesize(p) ELSE NULL)
                  = TypeSize(type)
           /\ struct_field_has_typesize(p) <=> (TypeSize(type) # NULL)
           /\ struct_field_is_array(p) <=> (type.levels # << >>)
           /\ struct_field_half_skip(p) = p + 1 + Len(NameBytes(type)) + Len(SizeBytes(type))
           /\ struct_field_type(p) = TypeEnum(type)
  <1>1. mem[p] = TypeByte(type) /\ Holds(mem, p + 1, NameBytes(type))
        /\ Holds(mem, p + 1 + Len(NameBytes(type)), SizeBytes(type))
    BY DEF PartsHeld
  <1>2. /\ struct_field_type(p) = TypeEnum(type)
        /\ struct_field_has_typesize(p) <=> (TypeSize(type) # NULL)
        /\ struct_field_is_array(p) <=> (type.levels # << >>)
    BY <1>1, TypeByteType DEF struct_field_type, struct_field_has_typesize, struct_field_is_array
  <1>3. CASE TypeEnum(type) = TYPE_CUSTOM
    <2>1. TypeSize(type) = NULL
      BY <1>3, SizeOnlyNative
    <2>2. SizeBytes(type) = << >> /\ Len(<< >>) = 0
      BY <2>1 DEF SizeBytes
    <2>3. NameBytes(type) = <<Len(type.base)>> \o type.base
      BY <1>3 DEF NameBytes
    <2>4. type.base \in Seq(Nat) /\ Len(type.base) \in Nat
      BY BytesAreNumbers, LenProperties DEF Sendable
    <2>5. p + 1 \in Nat
      OBVIOUS
    <2>6. StringAt(p + 1) = type.base /\ AfterString(p + 1) = (p + 1) + 1 + Len(type.base)
      BY <1>1, <2>3, <2>4, <2>5, StringHeld
    <2>7. Len(NameBytes(type)) = 1 + Len(type.base)
      <3>1. <<Len(type.base)>> \in Seq(Nat) /\ Len(<<Len(type.base)>>) = 1
        BY <2>4
      <3> QED
        BY <2>3, <2>4, <3>1, ConcatProperties
    <2>8. get_struct_field_typename(p) = type.base
      BY <1>2, <1>3, <2>6 DEF get_struct_field_typename
    <2>9. struct_field_half_skip(p) = (p + 1) + 1 + Len(type.base)
      BY <1>2, <1>3, <2>6 DEF struct_field_half_skip
    <2>10. (p + 1) + 1 + Len(type.base) = p + 1 + (1 + Len(type.base)) + 0
      <3>1. \A c \in Nat : (p + 1) + 1 + c = p + 1 + (1 + c) + 0
        OBVIOUS
      <3> QED
        BY <2>4, <3>1, Zenon
    <2>11. struct_field_half_skip(p) = p + 1 + Len(NameBytes(type)) + Len(SizeBytes(type))
      BY <2>2, <2>7, <2>9, <2>10
    <2> QED
      BY <1>2, <2>1, <2>8, <2>11
  <1>4. CASE TypeEnum(type) # TYPE_CUSTOM
    <2>1. TypeEnum(type) \in 1..7 /\ type.base \in NATIVE
      BY <1>4, TypeEnumType DEF TYPE_CUSTOM
    <2>2. get_struct_field_sol_typename(TypeEnum(type)) = type.base
      BY <2>1, NativeNames, TypeEnumType
    <2>3. get_struct_field_typename(p) = type.base
      BY <1>2, <1>4, <2>2 DEF get_struct_field_typename
    <2>4. NameBytes(type) = << >> /\ Len(<< >>) = 0
      BY <1>4 DEF NameBytes
    <2>5. CASE TypeSize(type) = NULL
      <3>1. SizeBytes(type) = << >>
        BY <2>5 DEF SizeBytes
      <3>2. struct_field_half_skip(p) = p + 1
        BY <1>2, <1>4, <2>5 DEF struct_field_half_skip
      <3>3. struct_field_half_skip(p) = p + 1 + Len(NameBytes(type)) + Len(SizeBytes(type))
        BY <2>4, <3>1, <3>2
      <3> QED
        BY <1>2, <2>3, <2>5, <3>3
    <2>6. CASE TypeSize(type) # NULL
      <3>1. SizeBytes(type) = <<TypeSize(type)>> /\ Len(<<TypeSize(type)>>) = 1
        BY <2>6 DEF SizeBytes
      <3>2. mem[p + 1] = TypeSize(type)
        <4>1. p + 1 + 0 = p + 1 /\ p + 1 \in Int
          OBVIOUS
        <4>2. Holds(mem, p + 1, <<TypeSize(type)>>)
          BY <1>1, <2>4, <3>1, <4>1
        <4> QED
          BY <4>1, <4>2, HoldsOne
      <3>3. struct_field_half_skip(p) = p + 2
        BY <1>2, <1>4, <2>6 DEF struct_field_half_skip
      <3>4. struct_field_half_skip(p) = p + 1 + Len(NameBytes(type)) + Len(SizeBytes(type))
        BY <2>4, <3>1, <3>3
      <3> QED
        BY <1>2, <2>3, <2>6, <3>2, <3>4 DEF get_struct_field_typesize
    <2> QED
      BY <2>5, <2>6
  <1> QED
    BY <1>3, <1>4

LEMMA NoLevels == LevelBytes(<< >>) = << >>
  <1> DEFINE images == LevelImages(<< >>)
  <1>1. << >> \in Seq(Byte \cup {NULL}) /\ Len(<< >>) = 0
    BY EmptySeq
  <1>2. images \in Seq(Seq(Byte)) /\ Len(images) = 0
    BY <1>1, ImagesType
  <1>3. LevelBytes(<< >>) = FlattenSeq(images)
    BY LevelsFlat
  <1> HIDE DEF images
  <1>4. PICK f : Joined(f, images) /\ FlattenSeq(images) = f[Len(images)]
    BY <1>2, FlattenJoins
  <1> QED
    BY <1>2, <1>3, <1>4 DEF Joined

(* The levels, and the place of the name behind them.                      *)
LEMMA ArrayHeld ==
    ASSUME mem \in Memory, Holds(mem, 0, TypenamesTable), NEW type, NEW key, Sendable(type, key),
           NEW p \in Nat, PartsHeld(mem, type, key, p)
    PROVE  /\ DecodedField(p).lvls = type.levels
           /\ KeynamePtr(p) = p + 1 + Len(NameBytes(type)) + Len(SizeBytes(type))
                              + Len(CountBytes(type)) + Len(LevelBytes(type.levels))
           /\ KeynamePtr(p) \in Nat
  <1> DEFINE half == p + 1 + Len(NameBytes(type)) + Len(SizeBytes(type))
             levels == type.levels
             bytes == LevelBytes(levels)
  <1>1. levels \in Seq(Byte \cup {NULL}) /\ Len(levels) \in Nat
    BY LenProperties DEF Sendable
  <1>2. half \in Nat /\ Len(bytes) \in Nat /\ Len(CountBytes(type)) \in Nat
    <2>1. /\ Len(NameBytes(type)) \in Nat /\ Len(SizeBytes(type)) \in Nat
          /\ Len(CountBytes(type)) \in Nat /\ Len(bytes) \in Nat
      BY PayloadParts, LenProperties
    <2>2. \A x, y \in Nat : p + 1 + x + y \in Nat
      OBVIOUS
    <2> QED
      BY <2>1, <2>2, Zenon
  <1>3. /\ struct_field_half_skip(p) = half
        /\ struct_field_is_array(p) <=> (levels # << >>)
    BY TypeHeld
  <1>4. /\ Holds(mem, half, CountBytes(type))
        /\ Holds(mem, half + Len(CountBytes(type)), bytes)
    BY DEF PartsHeld
  <1>5. KeynamePtr(p) = IF levels # << >> THEN LevelPtr(half)[mem[half] + 1] ELSE half
    BY <1>3 DEF KeynamePtr, get_struct_field_array_lvls_array
  <1>6. DecodedField(p).lvls =
            IF levels # << >>
            THEN [n \in 1..mem[half] |-> struct_field_array_depth(LevelPtr(half)[n])] ELSE << >>
    BY <1>3 DEF DecodedField, get_struct_field_array_lvls_array
  <1>7. CountBytes(type) = IF levels # << >> THEN <<Len(levels)>> ELSE << >>
    BY DEF CountBytes
  <1> HIDE DEF half, bytes
  <1>8. CASE levels # << >>
    <2>1. CountBytes(type) = <<Len(levels)>> /\ Len(<<Len(levels)>>) = 1
      BY <1>7, <1>8
    <2>2. mem[half] = Len(levels)
      <3>1. half \in Int /\ Holds(mem, half, <<Len(levels)>>)
        BY <1>2, <1>4, <2>1
      <3> QED
        BY <3>1, HoldsOne
    <2>3. Holds(mem, half + 1, LevelBytes(levels))
      BY <1>4, <2>1 DEF bytes
    <2> HIDE DEF levels
    <2>4. /\ LevelPtr(half)[Len(levels) + 1] = half + 1 + Len(LevelBytes(levels))
          /\ \A n \in 1..Len(levels) : struct_field_array_depth(LevelPtr(half)[n]) = levels[n]
      BY <1>1, <1>2, <2>3, LevelsHeld
    <2>5. DecodedField(p).lvls = levels
      <3>1. DecodedField(p).lvls = [n \in 1..Len(levels) |-> struct_field_array_depth(LevelPtr(half)[n])]
        BY <1>6, <1>8, <2>2
      <3>2. [n \in 1..Len(levels) |-> struct_field_array_depth(LevelPtr(half)[n])]
                = [n \in 1..Len(levels) |-> levels[n]]
        BY <2>4
      <3>3. levels = [n \in 1..Len(levels) |-> levels[n]]
        BY <1>1, LenProperties
      <3> QED
        BY <3>1, <3>2, <3>3
    <2>6. KeynamePtr(p) = half + 1 + Len(bytes)
      BY <1>5, <1>8, <2>2, <2>4 DEF bytes
    <2>7. half + 1 + Len(bytes) = half + Len(CountBytes(type)) + Len(bytes)
      BY <2>1
    <2>8. half + 1 + Len(bytes) \in Nat
      BY <1>2
    <2> QED
      BY <2>5, <2>6, <2>7, <2>8 DEF half, bytes, levels
  <1>9. CASE levels = << >>
    <2>1. bytes = << >> /\ CountBytes(type) = << >> /\ Len(<< >>) = 0
      BY <1>7, <1>9, NoLevels DEF bytes
    <2>2. KeynamePtr(p) = half /\ DecodedField(p).lvls = levels
      BY <1>5, <1>6, <1>9
    <2>3. half = half + Len(CountBytes(type)) + Len(bytes)
      <3>1. half = half + 0 + 0
        BY <1>2
      <3> QED
        BY <2>1, <3>1
    <2> HIDE DEF levels
    <2> QED
      BY <1>2, <2>2, <2>3 DEF half, bytes, levels
  <1> QED
    BY <1>8, <1>9

(* A size is read where there is one.                                      *)
SizeRead(p) == struct_field_has_typesize(p) <=> DecodedField(p).typesize # NULL

(* A field that is held is read back, and so is the place of the next one. *)
LEMMA FieldHeld ==
    ASSUME mem \in Memory, Holds(mem, 0, TypenamesTable), NEW field \in JsonFields, NEW p \in Nat,
           Holds(mem, p, Payload(field.type, field.name))
    PROVE  /\ DecodedField(p) = Meaning(field) /\ SizeRead(p)
           /\ get_next_struct_field(p) = p + Len(Payload(field.type, field.name))
  <1> DEFINE type == field.type
             key == field.name
             k == KeynamePtr(p)
  <1>1. Sendable(type, key)
    BY FieldSendable
  <1>2. PartsHeld(mem, type, key, p)
    BY <1>1, PayloadHeld
  <1>3. DecodedField(p).lvls = type.levels
    BY <1>1, <1>2, ArrayHeld
  <1>4. k = p + 1 + Len(NameBytes(type)) + Len(SizeBytes(type))
            + Len(CountBytes(type)) + Len(LevelBytes(type.levels)) /\ k \in Nat
    BY <1>1, <1>2, ArrayHeld
  <1>5. Holds(mem, k, <<Len(key)>> \o key)
    BY <1>2, <1>4 DEF PartsHeld
  <1>6. key \in Seq(Nat) /\ Len(key) \in Nat
    BY <1>1, BytesAreNumbers, LenProperties DEF Sendable
  <1> HIDE DEF k
  <1>7. StringAt(k) = key /\ AfterString(k) = k + 1 + Len(key)
    BY <1>4, <1>5, <1>6, StringHeld
  <1>8. /\ get_struct_field_typename(p) = type.base
        /\ (IF struct_field_has_typesize(p) THEN get_struct_field_typesize(p) ELSE NULL)
               = TypeSize(type)
        /\ struct_field_has_typesize(p) <=> (TypeSize(type) # NULL)
        /\ struct_field_type(p) = TypeEnum(type)
    BY <1>1, <1>2, TypeHeld
  <1>9. DecodedField(p) = Meaning(field)
    <2>1. get_struct_field_keyname(p) = key
      BY <1>7 DEF get_struct_field_keyname, k
    <2>2. DecodedField(p) =
              [type |-> struct_field_type(p),
               typename |-> get_struct_field_typename(p),
               typesize |-> IF struct_field_has_typesize(p) THEN get_struct_field_typesize(p) ELSE NULL,
               lvls |-> DecodedField(p).lvls,
               keyname |-> get_struct_field_keyname(p)]
      BY DEF DecodedField
    <2> QED
      BY <1>3, <1>8, <2>1, <2>2 DEF Meaning
  <1>10. get_next_struct_field(p) = p + Len(Payload(type, key))
    <2>1. get_next_struct_field(p) = k + 1 + Len(key)
      BY <1>7 DEF get_next_struct_field, k
    <2>2. /\ Len(NameBytes(type)) \in Nat /\ Len(SizeBytes(type)) \in Nat
          /\ Len(CountBytes(type)) \in Nat /\ Len(LevelBytes(type.levels)) \in Nat
      BY <1>1, PayloadParts, LenProperties
    <2>3. Len(Payload(type, key)) =
              1 + Len(NameBytes(type)) + Len(SizeBytes(type)) + Len(CountBytes(type))
              + Len(LevelBytes(type.levels)) + 1 + Len(key)
      BY <1>1, PayloadLength
    <2> DEFINE b == Len(NameBytes(type))
               c == Len(SizeBytes(type))
               d == Len(CountBytes(type))
               e == Len(LevelBytes(type.levels))
               h == Len(key)
               all == Len(Payload(type, key))
    <2>4. /\ b \in Nat /\ c \in Nat /\ d \in Nat /\ e \in Nat /\ h \in Nat
          /\ k = p + 1 + b + c + d + e /\ all = 1 + b + c + d + e + 1 + h
          /\ get_next_struct_field(p) = k + 1 + h
      BY <1>4, <1>6, <2>1, <2>2, <2>3
    <2> HIDE DEF b, c, d, e, h, all
    <2>5. get_next_struct_field(p) = p + all
      BY <2>4
    <2> QED
      BY <2>5 DEF all
  <1>11. SizeRead(p)
    BY <1>8, <1>9 DEF SizeRead, Meaning
  <1> QED
    BY <1>9, <1>10, <1>11

-----------------------------------------------------------------------------

(***************************************************************************)
(* The pieces of a field that arrives are those of its payload.            *)
(***************************************************************************)

LEMMA ByteAtIs ==
    ASSUME NEW data, NEW i \in Nat, i < INDEX_VALUES
    PROVE  ByteAt(data, i) = data[i + 1]
  <1>1. i % INDEX_VALUES = i
    BY Constants
  <1> QED
    BY <1>1 DEF ByteAt

LEMMA PieceCovers ==
    ASSUME NEW s \in Seq(Byte)
    PROVE  Fits(<<Piece(s)>>) /\ Covers(<<Piece(s)>>, s)
  <1>1. Piece(s) \in AnyPiece /\ Piece(s).size = Len(s) /\ Piece(s).bytes = s /\ Len(s) \in Nat
    BY PieceType, LenProperties DEF Piece
  <1>2. Trim(Piece(s)) = s
    <2>1. SubSeq(s, 1, Len(s)) = s
      BY SubSeqFull
    <2> QED
      BY <1>1, <2>1 DEF Trim
  <1> DEFINE piece == Piece(s)
  <1>3. piece \in AnyPiece /\ piece.size <= Len(piece.bytes) /\ Trim(piece) = s
    BY <1>1, <1>2
  <1> HIDE DEF piece
  <1>4. Fits(<<piece>>) /\ Covers(<<piece>>, s)
    BY <1>3, CoversOne
  <1> QED
    BY <1>4 DEF piece

(* A string that is in the APDU as far as its index counts is copied.      *)
LEMMA StringCovers ==
    ASSUME NEW data \in Buffer, NEW i \in Nat, NEW s \in Seq(Byte),
           Holds(data, i + 1, <<Len(s)>> \o s), i + 1 + Len(s) <= INDEX_VALUES
    PROVE  /\ Fits(StringPieces(data, i)) /\ Covers(StringPieces(data, i), <<Len(s)>> \o s)
           /\ AfterCopy(data, i) = i + 1 + Len(s)
  <1> DEFINE length == ByteAt(data, i)
             from == (i + 1) % INDEX_VALUES
             to == Min({from + length, BUF_SIZE})
             copied == SubSeq(data, from + 1, to)
             one == <<Piece(<<length>>)>>
             other == [size |-> length, bytes |-> copied]
  <1>1. Len(s) \in Nat /\ s \in Seq(Nat)
    BY LenProperties, BytesAreNumbers
  <1>2. Holds(data, i + 1, <<Len(s)>>) /\ Holds(data, (i + 1) + 1, s)
    <2>1. <<Len(s)>> \in Seq(Nat) /\ Len(<<Len(s)>>) = 1 /\ i + 1 \in Int
      BY <1>1
    <2> QED
      BY <1>1, <2>1, HoldsConcat
  <1>3. length = Len(s) /\ length \in Byte
    <2>1. data[i + 1] = Len(s)
      <3>1. i + 1 \in Int
        OBVIOUS
      <3> QED
        BY <1>2, <3>1, HoldsOne
    <2>2. i < INDEX_VALUES
      BY <1>1, Constants
    <2>3. length = data[i + 1]
      BY <2>2, ByteAtIs
    <2> QED
      BY <2>1, <2>3, ByteAtType
  <1>4. from \in Nat /\ from + Len(s) <= INDEX_VALUES /\ (Len(s) > 0 => from = i + 1)
    <2>1. CASE i + 1 < INDEX_VALUES
      <3>1. from = i + 1
        BY <2>1, Constants
      <3> HIDE DEF from
      <3> QED
        BY <3>1
    <2>2. CASE i + 1 = INDEX_VALUES
      <3>1. from = 0 /\ Len(s) = 0
        BY <1>1, <2>2, Constants
      <3> HIDE DEF from
      <3> QED
        BY <3>1, Constants
    <2> QED
      BY <1>1, <2>1, <2>2, Constants
  <1>5. to = from + Len(s)
    <2>1. from + length = from + Len(s)
      BY <1>3
    <2>2. from + Len(s) \in Int /\ BUF_SIZE \in Int /\ from + Len(s) <= BUF_SIZE
      <3> HIDE DEF from
      <3> QED
        BY <1>1, <1>4, Constants
    <2> HIDE DEF from, length
    <2>3. Min({from + Len(s), BUF_SIZE}) = from + Len(s)
      BY <2>2, MinOfTwo
    <2> QED
      BY <2>1, <2>3
  <1> HIDE DEF from, to, length
  <1>6. copied \in Seq(Byte) /\ Len(copied) = Len(s)
    <2>1. to \in Int /\ to <= BUF_SIZE /\ from + 1 \in Nat /\ from + 1 >= 1
      BY <1>1, <1>4, <1>5, Constants
    <2>2. copied \in Seq(Byte)
      BY <2>1, PartType
    <2>4. from + 1 \in Int /\ to \in Int /\ \A k \in (from + 1)..to : data[k] \in Byte
      BY <2>1, Constants DEF Buffer
    <2>3. Len(copied) = Len(s)
      <3>1. Len(copied) = IF from + 1 <= to THEN to - (from + 1) + 1 ELSE 0
        BY <2>4, SubSeqProperties
      <3> HIDE DEF copied
      <3>2. CASE Len(s) = 0
        BY <1>4, <1>5, <3>1, <3>2
      <3>3. CASE Len(s) > 0
        BY <1>1, <1>4, <1>5, <3>1, <3>3
      <3> QED
        BY <1>1, <3>2, <3>3
    <2> QED
      BY <2>2, <2>3
  <1>7. \A k \in 1..Len(s) : copied[k] = s[k]
    <2>1. SUFFICES ASSUME NEW k \in 1..Len(s) PROVE copied[k] = s[k]
      OBVIOUS
    <2>2. from = i + 1
      BY <1>1, <1>4
    <2>3. copied[k] = data[(from + 1) + k - 1]
      <3>1. k \in 1..(to - (from + 1) + 1)
        BY <1>1, <1>4, <1>5
      <3>2. to \in Int /\ to <= BUF_SIZE /\ from + 1 \in Int /\ from + 1 >= 1
        BY <1>1, <1>4, <1>5, Constants
      <3>3. \A j \in (from + 1)..to : data[j] \in Byte
        BY <3>2, Constants DEF Buffer
      <3> QED
        BY <3>1, <3>2, <3>3, SubSeqProperties
    <2>4. data[((i + 1) + 1) + k - 1] = s[k]
      BY <1>2 DEF Holds
    <2> QED
      BY <2>2, <2>3, <2>4
  <1>8. other \in AnyPiece /\ other.size <= Len(other.bytes) /\ Trim(other) = s
    <2>1. other.size = Len(s) /\ other.bytes = copied
      BY <1>3
    <2>2. other \in AnyPiece
      BY <1>1, <1>3, <1>6 DEF AnyPiece
    <2> HIDE DEF copied
    <2>3. copied = s
      BY <1>1, <1>6, <1>7, SeqEqual
    <2>4. SubSeq(s, 1, Len(s)) = s
      BY SubSeqFull
    <2>5. Trim(other) = s
      BY <2>1, <2>3, <2>4 DEF Trim
    <2> QED
      BY <1>1, <1>6, <2>1, <2>2, <2>5
  <1>9. StringPieces(data, i) = one \o <<other>>
    <2>1. StringPieces(data, i) = <<Piece(<<length>>), other>>
      BY DEF StringPieces, from, to, length
    <2> DEFINE x == Piece(<<length>>)
    <2>2. <<x, other>> = <<x>> \o <<other>>
      <3> HIDE DEF x, other
      <3> QED
        OBVIOUS
    <2> QED
      BY <2>1, <2>2
  <1>10. Fits(one) /\ Covers(one, <<Len(s)>>)
    <2>1. <<length>> \in Seq(Byte)
      BY <1>3
    <2>2. Fits(one) /\ Covers(one, <<length>>)
      BY <2>1, PieceCovers
    <2> QED
      BY <1>3, <2>2
  <1> HIDE DEF one, other
  <1>11. Fits(<<other>>) /\ Covers(<<other>>, s)
    BY <1>8, CoversOne
  <1>12. Fits(one \o <<other>>) /\ Covers(one \o <<other>>, <<Len(s)>> \o s)
    BY <1>10, <1>11, CoversConcat
  <1> QED
    BY <1>3, <1>9, <1>12 DEF AfterCopy, length

(* The payload is in the APDU, as far as its index counts.                 *)
Arrived(data, type, key) ==
    /\ data \in Buffer /\ Sendable(type, key)
    /\ PartsHeld(data, type, key, 6)
    /\ 5 + Len(Payload(type, key)) <= INDEX_VALUES

LEMMA ArrivedLengths ==
    ASSUME NEW data, NEW type, NEW key, Arrived(data, type, key)
    PROVE  /\ Len(NameBytes(type)) \in Nat /\ Len(SizeBytes(type)) \in Nat
           /\ Len(CountBytes(type)) \in Nat /\ Len(LevelBytes(type.levels)) \in Nat
           /\ Len(key) \in Nat
           /\ 7 + Len(NameBytes(type)) + Len(SizeBytes(type)) + Len(CountBytes(type))
                + Len(LevelBytes(type.levels)) + Len(key) <= INDEX_VALUES
  <1> DEFINE b == Len(NameBytes(type))
             c == Len(SizeBytes(type))
             d == Len(CountBytes(type))
             e == Len(LevelBytes(type.levels))
             h == Len(key)
             all == Len(Payload(type, key))
  <1>1. b \in Nat /\ c \in Nat /\ d \in Nat /\ e \in Nat /\ h \in Nat
    BY PayloadParts, LenProperties DEF Arrived
  <1>2. all = 1 + b + c + d + e + 1 + h
    BY PayloadLength DEF Arrived
  <1>3. 5 + all <= INDEX_VALUES
    BY DEF Arrived
  <1> HIDE DEF b, c, d, e, h, all
  <1>4. 7 + b + c + d + e + h <= INDEX_VALUES
    BY <1>1, <1>2, <1>3, Constants
  <1> QED
    BY <1>1, <1>4 DEF b, c, d, e, h

LEMMA TypeArrives ==
    ASSUME NEW data, NEW type, NEW key, Arrived(data, type, key)
    PROVE  /\ TypeDesc(data) = TypeByte(type)
           /\ (TypeDesc(data) >= 128) <=> (type.levels # << >>)
           /\ HasTypeSize(data) <=> (TypeSize(type) # NULL)
           /\ HasTypeName(data) <=> (TypeEnum(type) = TYPE_CUSTOM)
  <1>1. TypeDesc(data) = TypeByte(type)
    <2>1. 5 \in Nat /\ 5 < INDEX_VALUES /\ OFFSET_DATA = 5 /\ 5 + 1 = 6
      BY ArrivedLengths, Constants DEF OFFSET_DATA
    <2>2. ByteAt(data, 5) = data[5 + 1]
      BY <2>1, ByteAtIs
    <2>3. data[6] = TypeByte(type)
      BY DEF Arrived, PartsHeld
    <2> QED
      BY <2>1, <2>2, <2>3 DEF TypeDesc
  <1>2. /\ (TypeDesc(data) >= 128) <=> (type.levels # << >>)
        /\ HasTypeSize(data) <=> (TypeSize(type) # NULL)
    BY <1>1, TypeByteType DEF HasTypeSize
  <1>3. TypeDesc(data) % 16 = TypeEnum(type)
    BY <1>1, TypeByteType
  <1> QED
    BY <1>1, <1>2, <1>3, SizeOnlyNative DEF HasTypeName

(* The size or the name.                                                   *)
TailPieces(data) ==
    IF HasTypeSize(data) THEN <<Piece(<<ByteAt(data, OFFSET_DATA + 1)>>)>>
    ELSE IF HasTypeName(data) THEN StringPieces(data, OFFSET_DATA + 1)
    ELSE << >>

LEMMA TailCovers ==
    ASSUME NEW data, NEW type, NEW key, Arrived(data, type, key)
    PROVE  /\ Fits(TailPieces(data))
           /\ Covers(TailPieces(data), NameBytes(type) \o SizeBytes(type))
           /\ LevelsIndex(data) = 6 + Len(NameBytes(type)) + Len(SizeBytes(type))
  <1>1. /\ Holds(data, 7, NameBytes(type)) /\ data \in Buffer
        /\ Holds(data, 7 + Len(NameBytes(type)), SizeBytes(type))
    <2>1. 6 + 1 = 7
      OBVIOUS
    <2> QED
      BY <2>1 DEF Arrived, PartsHeld
  <1>2. OFFSET_DATA + 1 = 6 /\ OFFSET_DATA + 2 = 7
    BY DEF OFFSET_DATA
  <1>3. /\ HasTypeSize(data) <=> (TypeSize(type) # NULL)
        /\ HasTypeName(data) <=> (TypeEnum(type) = TYPE_CUSTOM)
    BY TypeArrives
  <1>4. CASE TypeSize(type) # NULL
    <2>1. TypeEnum(type) # TYPE_CUSTOM
      BY <1>4, SizeOnlyNative
    <2>2. NameBytes(type) = << >> /\ SizeBytes(type) = <<TypeSize(type)>> /\ Len(<< >>) = 0
      BY <1>4, <2>1 DEF NameBytes, SizeBytes
    <2> DEFINE size == TypeSize(type)
    <2>3. size \in Byte
      BY <1>4 DEF Arrived, Sendable
    <2>4. <<size>> \in Seq(Byte) /\ Len(<<size>>) = 1
      BY <2>3
    <2>5. ByteAt(data, 6) = size
      <3>1. 6 \in Nat /\ 6 < INDEX_VALUES /\ 6 + 1 = 7 /\ 7 + 0 = 7 /\ 7 \in Int
        <4> DEFINE s == Len(SizeBytes(type))
        <4>1. s = 1
          BY <2>2
        <4>2. 7 + Len(NameBytes(type)) + s <= INDEX_VALUES
          BY ArrivedLengths, Constants
        <4> QED
          BY <2>2, <4>1, <4>2, Constants
      <3>2. ByteAt(data, 6) = data[6 + 1]
        BY <3>1, ByteAtIs
      <3>3. Holds(data, 7, <<size>>)
        BY <1>1, <2>2, <3>1
      <3> QED
        BY <3>1, <3>2, <3>3, HoldsOne
    <2>6. TailPieces(data) = <<Piece(<<size>>)>>
      BY <1>2, <1>3, <1>4, <2>5 DEF TailPieces
    <2>7. << >> \o <<size>> = <<size>>
      BY <2>4, ConcatEmptySeq
    <2>8. LevelsIndex(data) = 7
      BY <1>2, <1>3, <1>4 DEF LevelsIndex
    <2> HIDE DEF size
    <2>9. Fits(<<Piece(<<size>>)>>) /\ Covers(<<Piece(<<size>>)>>, <<size>>)
      BY <2>4, PieceCovers
    <2> QED
      BY <2>2, <2>4, <2>6, <2>7, <2>8, <2>9 DEF size
  <1>5. CASE TypeSize(type) = NULL /\ TypeEnum(type) = TYPE_CUSTOM
    <2> DEFINE base == type.base
    <2>1. SizeBytes(type) = << >> /\ NameBytes(type) = <<Len(base)>> \o base /\ Len(<< >>) = 0
      BY <1>5 DEF NameBytes, SizeBytes
    <2>2. base \in Seq(Byte) /\ Len(base) \in Nat /\ base \in Seq(Nat)
      BY LenProperties, BytesAreNumbers DEF Arrived, Sendable
    <2>3. <<Len(base)>> \in Seq(Nat) /\ Len(<<Len(base)>>) = 1
      BY <2>2
    <2>4. Len(NameBytes(type)) = 1 + Len(base) /\ NameBytes(type) \in Seq(Nat)
      BY <2>1, <2>2, <2>3, ConcatProperties
    <2> HIDE DEF base
    <2>5. 6 + 1 + Len(base) <= INDEX_VALUES
      <3> DEFINE b == Len(NameBytes(type))
                 h == Len(base)
      <3>1. 7 + b <= INDEX_VALUES
        BY ArrivedLengths, Constants
      <3>2. b = 1 + h /\ h \in Nat
        BY <2>2, <2>4
      <3> HIDE DEF b, h
      <3>3. 6 + 1 + h <= INDEX_VALUES
        BY <3>1, <3>2, Constants
      <3> QED
        BY <3>3 DEF h
    <2>6. /\ Fits(StringPieces(data, 6)) /\ Covers(StringPieces(data, 6), <<Len(base)>> \o base)
          /\ AfterCopy(data, 6) = 6 + 1 + Len(base)
      <3>1. 6 \in Nat /\ Holds(data, 6 + 1, <<Len(base)>> \o base)
        BY <1>1, <2>1
      <3> QED
        BY <1>1, <2>2, <2>5, <3>1, StringCovers
    <2>7. TailPieces(data) = StringPieces(data, 6)
      BY <1>2, <1>3, <1>5 DEF TailPieces
    <2>8. NameBytes(type) \o << >> = NameBytes(type)
      BY <2>4, ConcatEmptySeq
    <2>9. LevelsIndex(data) = 6 + Len(NameBytes(type)) + Len(SizeBytes(type))
      <3>1. LevelsIndex(data) = 6 + 1 + Len(base)
        BY <1>2, <1>3, <1>5, <2>6 DEF LevelsIndex
      <3> QED
        BY <2>1, <2>2, <2>4, <3>1
    <2> QED
      BY <2>1, <2>6, <2>7, <2>8, <2>9
  <1>6. CASE TypeSize(type) = NULL /\ TypeEnum(type) # TYPE_CUSTOM
    <2>1. SizeBytes(type) = << >> /\ NameBytes(type) = << >> /\ Len(<< >>) = 0
      BY <1>6 DEF NameBytes, SizeBytes
    <2>2. TailPieces(data) = << >>
      BY <1>3, <1>6 DEF TailPieces
    <2>3. << >> \o << >> = << >>
      BY EmptySeq, ConcatEmptySeq
    <2>4. LevelsIndex(data) = 6
      BY <1>2, <1>3, <1>6 DEF LevelsIndex
    <2> QED
      BY <2>1, <2>2, <2>3, <2>4, CoversNone
  <1> QED
    BY <1>4, <1>5, <1>6

LEMMA CountArrives ==
    ASSUME NEW data, NEW type, NEW key, Arrived(data, type, key), type.levels # << >>
    PROVE  /\ ByteAt(data, LevelsIndex(data)) = Len(type.levels)
           /\ CountBytes(type) = <<Len(type.levels)>> /\ Len(CountBytes(type)) = 1
           /\ Len(type.levels) \in Byte
  <1> DEFINE i == LevelsIndex(data)
             b == Len(NameBytes(type))
             c == Len(SizeBytes(type))
             k == Len(type.levels)
  <1>1. CountBytes(type) = <<k>> /\ Len(<<k>>) = 1
    BY DEF CountBytes
  <1>2. i = 6 + b + c
    BY TailCovers
  <1>3. Holds(data, 6 + 1 + b + c, <<k>>)
    BY <1>1 DEF Arrived, PartsHeld
  <1>4. b \in Nat /\ c \in Nat /\ 7 + b + c + 1 <= INDEX_VALUES
    <2> DEFINE d == Len(CountBytes(type))
               e == Len(LevelBytes(type.levels))
               h == Len(key)
    <2>1. d = 1
      BY <1>1
    <2>2. /\ b \in Nat /\ c \in Nat /\ e \in Nat /\ h \in Nat
          /\ 7 + b + c + d + e + h <= INDEX_VALUES
      BY ArrivedLengths
    <2> HIDE DEF b, c, d, e, h
    <2> QED
      BY <2>1, <2>2, Constants
  <1> HIDE DEF i, b, c
  <1>5. i \in Nat /\ i < INDEX_VALUES /\ i + 1 = 6 + 1 + b + c /\ i + 1 \in Int
    BY <1>2, <1>4, Constants
  <1>6. data[i + 1] = k
    BY <1>3, <1>5, HoldsOne
  <1>7. ByteAt(data, i) = k
    BY <1>5, <1>6, ByteAtIs
  <1>8. k \in Byte
    <2>1. data \in Buffer
      BY DEF Arrived
    <2>2. ByteAt(data, i) \in Byte
      BY <1>5, <2>1, ByteAtType
    <2> QED
      BY <1>7, <2>2
  <1> QED
    BY <1>1, <1>7, <1>8 DEF i

(* What comes before the levels.                                           *)
HeadBytes(type) ==
    <<TypeByte(type)>> \o (NameBytes(type) \o SizeBytes(type)) \o CountBytes(type)

LEMMA HeadCovers ==
    ASSUME NEW data, NEW type, NEW key, Arrived(data, type, key)
    PROVE  Fits(HeadPieces(data)) /\ Covers(HeadPieces(data), HeadBytes(type))
  <1> DEFINE first == <<Piece(<<TypeDesc(data)>>)>>
             middle == TailPieces(data)
             count == IF TypeDesc(data) >= 128
                      THEN <<Piece(<<ByteAt(data, LevelsIndex(data))>>)>> ELSE << >>
             bytes == NameBytes(type) \o SizeBytes(type)
  <1>1. HeadPieces(data) = first \o middle \o count
    BY DEF HeadPieces, TailPieces
  <1>2. Fits(first) /\ Covers(first, <<TypeByte(type)>>)
    <2>1. TypeDesc(data) = TypeByte(type) /\ TypeByte(type) \in Byte
      BY TypeArrives, TypeByteType
    <2>2. <<TypeByte(type)>> \in Seq(Byte)
      BY <2>1
    <2> QED
      BY <2>1, <2>2, PieceCovers
  <1>3. Fits(middle) /\ Covers(middle, bytes)
    BY TailCovers
  <1>4. Fits(count) /\ Covers(count, CountBytes(type))
    <2>1. CASE type.levels # << >>
      <3>1. ByteAt(data, LevelsIndex(data)) = Len(type.levels) /\ Len(type.levels) \in Byte
            /\ CountBytes(type) = <<Len(type.levels)>> /\ TypeDesc(data) >= 128
        BY <2>1, CountArrives, TypeArrives
      <3>2. <<Len(type.levels)>> \in Seq(Byte)
        BY <3>1
      <3>3. count = <<Piece(<<Len(type.levels)>>)>>
        BY <3>1
      <3> HIDE DEF count
      <3> QED
        BY <3>1, <3>2, <3>3, PieceCovers
    <2>2. CASE type.levels = << >>
      <3>1. count = << >> /\ CountBytes(type) = << >>
        BY <2>2, TypeArrives DEF CountBytes
      <3> HIDE DEF count
      <3> QED
        BY <3>1, CoversNone
    <2> QED
      BY <2>1, <2>2
  <1> HIDE DEF first, middle, count, bytes
  <1> DEFINE two == first \o middle
             twoBytes == <<TypeByte(type)>> \o bytes
  <1>5. Fits(two) /\ Covers(two, twoBytes)
    BY <1>2, <1>3, CoversConcat
  <1>6. HeadPieces(data) = two \o count /\ HeadBytes(type) = twoBytes \o CountBytes(type)
    BY <1>1 DEF HeadBytes, bytes
  <1> HIDE DEF two, twoBytes
  <1>7. Fits(two \o count) /\ Covers(two \o count, twoBytes \o CountBytes(type))
    BY <1>4, <1>5, CoversConcat
  <1> QED
    BY <1>6, <1>7

LEMMA Pair == ASSUME NEW K, NEW x \in K, NEW y \in K PROVE <<x>> \o <<y>> = <<x, y>>
  <1> DEFINE t == <<x>> \o <<y>>
  <1>1. <<x>> \in Seq(K) /\ <<y>> \in Seq(K) /\ <<x, y>> \in Seq(K)
    OBVIOUS
  <1>2. Len(<<x>>) = 1 /\ Len(<<y>>) = 1 /\ Len(<<x, y>>) = 2
    OBVIOUS
  <1>3. /\ t \in Seq(K) /\ Len(t) = 2
        /\ \A i \in 1..2 : t[i] = IF i <= 1 THEN <<x>>[i] ELSE <<y>>[i - 1]
    BY <1>1, <1>2, ConcatProperties
  <1> HIDE DEF t
  <1>4. t[1] = x /\ t[2] = y
    BY <1>3
  <1>5. \A i \in 1..2 : t[i] = <<x, y>>[i]
    BY <1>4
  <1>6. t = <<x, y>>
    BY <1>1, <1>2, <1>3, <1>5, SeqEqual
  <1> QED
    BY <1>6 DEF t

(* A level is stored in the byte allocated for it; what the enumeration    *)
(* holds behind it is overwritten.                                         *)
LEMMA LevelCovers ==
    ASSUME NEW data \in Buffer, NEW i \in Nat, NEW level \in Byte \cup {NULL},
           Holds(data, i + 1, LevelImage(level)), i + Len(LevelImage(level)) <= INDEX_VALUES
    PROVE  /\ Fits(LevelPieces(data, i)) /\ Covers(LevelPieces(data, i), LevelImage(level))
           /\ AfterLevel(data, i) = i + Len(LevelImage(level))
  <1> DEFINE b == ByteAt(data, i)
             zeros == [k \in 1..(ENUM_SIZE - 1) |-> 0]
             bytes == <<b>> \o zeros
             first == [size |-> 1, bytes |-> bytes]
             rest == IF b = ARRAY_FIXED_SIZE THEN <<Piece(<<ByteAt(data, i + 1)>>)>> ELSE << >>
  <1>1. b \in Byte
    BY ByteAtType
  <1>2. zeros \in Seq(Byte)
    BY Constants DEF Byte
  <1>3. bytes \in Seq(Byte) /\ Len(bytes) >= 1 /\ bytes[1] = b
    <2>1. <<b>> \in Seq(Byte) /\ Len(<<b>>) = 1 /\ <<b>>[1] = b
      BY <1>1
    <2>2. Len(zeros) \in Nat
      BY <1>2, LenProperties
    <2> HIDE DEF b, zeros
    <2>3. bytes \in Seq(Byte) /\ Len(bytes) = 1 + Len(zeros) /\ bytes[1] = <<b>>[1]
      BY <1>2, <2>1, ConcatProperties
    <2> HIDE DEF bytes
    <2> QED
      BY <2>1, <2>2, <2>3
  <1> HIDE DEF zeros, bytes
  <1>4. first \in AnyPiece /\ first.size = 1 /\ first.bytes = bytes
    BY <1>3 DEF AnyPiece
  <1>5. Trim(first) = <<b>>
    <2>1. Trim(first) = SubSeq(bytes, 1, 1)
      BY <1>4 DEF Trim
    <2>2. /\ SubSeq(bytes, 1, 1) \in Seq(Byte) /\ Len(SubSeq(bytes, 1, 1)) = 1
          /\ SubSeq(bytes, 1, 1)[1] = bytes[1]
      BY <1>3, SubSeqProperties
    <2>3. <<b>> \in Seq(Byte) /\ Len(<<b>>) = 1 /\ <<b>>[1] = b
      BY <1>1
    <2> HIDE DEF b
    <2> DEFINE s == SubSeq(bytes, 1, 1)
    <2>4. \A k \in 1..1 : s[k] = <<b>>[k]
      BY <1>3, <2>2, <2>3
    <2> HIDE DEF s
    <2>5. s \in Seq(Byte) /\ Len(s) = 1
      BY <2>2 DEF s
    <2>6. s = <<b>>
      BY <2>3, <2>4, <2>5, SeqEqual
    <2> QED
      BY <2>1, <2>6 DEF s
  <1>6. LevelPieces(data, i) = <<first>> \o rest
    BY DEF LevelPieces, bytes, zeros
  <1>7. Fits(<<first>>) /\ Covers(<<first>>, <<b>>)
    <2> HIDE DEF first, b
    <2> QED
      BY <1>3, <1>4, <1>5, CoversOne
  <1>8. b = (IF level = NULL THEN ARRAY_DYNAMIC ELSE ARRAY_FIXED_SIZE)
    <2> DEFINE kind == IF level = NULL THEN ARRAY_DYNAMIC ELSE ARRAY_FIXED_SIZE
    <2>1. Len(LevelImage(level)) >= 1 /\ LevelImage(level)[1] = kind
      BY ImageLength DEF LevelImage
    <2>2. data[(i + 1) + 1 - 1] = LevelImage(level)[1]
      <3>1. Len(LevelImage(level)) \in Nat
        BY ImageLength
      <3>2. 1 \in 1..Len(LevelImage(level))
        BY <2>1, <3>1
      <3> QED
        BY <3>2 DEF Holds
    <2>3. i < INDEX_VALUES
      <3> DEFINE n == Len(LevelImage(level))
      <3>1. n >= 1 /\ n \in Nat /\ i + n <= INDEX_VALUES
        BY ImageLength
      <3> HIDE DEF n
      <3> QED
        BY <3>1, Constants
    <2>4. b = data[i + 1] /\ (i + 1) + 1 - 1 = i + 1
      BY <2>3, ByteAtIs
    <2> HIDE DEF b
    <2> QED
      BY <2>1, <2>2, <2>4
  <1>9. CASE level = NULL
    <2>1. rest = << >> /\ LevelImage(level) = <<b>> /\ Len(<<b>>) = 1 /\ AfterLevel(data, i) = i + 1
      BY <1>8, <1>9 DEF LevelImage, AfterLevel, ARRAY_DYNAMIC, ARRAY_FIXED_SIZE
    <2>2. <<b>> \o << >> = <<b>> /\ <<first>> \o << >> = <<first>>
      <3> HIDE DEF b, first
      <3> QED
        OBVIOUS
    <2> HIDE DEF b, first, rest
    <2> QED
      BY <1>6, <1>7, <2>1, <2>2
  <1>10. CASE level # NULL
    <2>1. /\ rest = <<Piece(<<ByteAt(data, i + 1)>>)>> /\ AfterLevel(data, i) = i + 2
          /\ LevelImage(level) = <<b, level>> /\ Len(<<b, level>>) = 2
      BY <1>8, <1>10 DEF LevelImage, AfterLevel, ARRAY_DYNAMIC, ARRAY_FIXED_SIZE
    <2>2. ByteAt(data, i + 1) = level
      <3>1. i + 2 <= INDEX_VALUES
        BY <2>1
      <3>2. i + 1 \in Nat /\ i + 1 < INDEX_VALUES
        BY <3>1, Constants
      <3>3. ByteAt(data, i + 1) = data[(i + 1) + 1]
        BY <3>2, ByteAtIs
      <3>4. Holds(data, i + 1, <<b, level>>)
        BY <2>1
      <3>5. <<b, level>>[2] = level /\ 2 \in 1..Len(<<b, level>>)
        BY <2>1
      <3> HIDE DEF b
      <3>6. data[(i + 1) + 2 - 1] = level
        BY <3>4, <3>5 DEF Holds
      <3> QED
        BY <3>3, <3>6
    <2>3. <<level>> \in Seq(Byte)
      BY <1>10
    <2>4. rest = <<Piece(<<level>>)>>
      BY <2>1, <2>2
    <2> HIDE DEF rest
    <2>5. Fits(rest) /\ Covers(rest, <<level>>)
      BY <2>3, <2>4, PieceCovers
    <2>6. <<b>> \o <<level>> = <<b, level>>
      BY <1>1, <1>10, Pair
    <2> HIDE DEF b, first
    <2>7. Fits(<<first>> \o rest) /\ Covers(<<first>> \o rest, <<b>> \o <<level>>)
      BY <1>7, <2>5, CoversConcat
    <2>8. LevelImage(level) = <<b, level>> /\ Len(LevelImage(level)) = 2
      BY <2>1
    <2> QED
      BY <1>6, <2>1, <2>6, <2>7, <2>8
  <1> QED
    BY <1>9, <1>10

(* The levels are looked at where they are, one after the other.           *)
LEMMA LevelsArrive ==
    ASSUME NEW data \in Buffer, NEW q \in Nat, q = LevelsIndex(data),
           NEW levels \in Seq(Byte \cup {NULL}), Holds(data, q + 2, LevelBytes(levels)),
           (q + 1) + Len(LevelBytes(levels)) <= INDEX_VALUES
    PROVE  /\ LevelIndex(data)[Len(levels) + 1] = (q + 1) + Len(LevelBytes(levels))
           /\ \A n \in 1..Len(levels) : /\ Fits(LevelPieces(data, LevelIndex(data)[n]))
                                        /\ Covers(LevelPieces(data, LevelIndex(data)[n]),
                                                  LevelImage(levels[n]))
  <1> DEFINE images == LevelImages(levels)
             k == Len(levels)
             P(n) == LevelIndex(data)[n]
             Good(n) == Fits(LevelPieces(data, P(n)))
                        /\ Covers(LevelPieces(data, P(n)), LevelImage(levels[n]))
  <1>1. /\ images \in Seq(Seq(Byte)) /\ Len(images) = k /\ k \in Nat
        /\ \A i \in 1..k : images[i] = LevelImage(levels[i]) /\ levels[i] \in Byte \cup {NULL}
    BY ImagesType, LenProperties, ElementOfSeq
  <1>2. LevelBytes(levels) = FlattenSeq(images)
    BY LevelsFlat
  <1> HIDE DEF images
  <1>3. PICK f : Joined(f, images) /\ FlattenSeq(images) = f[k]
    BY <1>1, FlattenJoins
  <1>4. \A n \in 1..k : Holds(data, (q + 2) + Len(f[n - 1]), images[n])
    <2>1. q + 2 \in Int
      OBVIOUS
    <2> QED
      BY <1>1, <1>2, <1>3, <2>1, HoldsJoined
  <1>5. /\ \A n \in 1..k : Len(f[n]) = Len(f[n - 1]) + Len(images[n])
        /\ \A n \in 0..k : Len(f[n]) \in Nat /\ Len(f[n]) <= Len(f[k])
        /\ \A n \in 1..k : Len(images[n]) \in Nat
    <2>1. \A n \in 1..k : images[n] \in Seq(Byte)
      BY <1>1, ElementOfSeq
    <2>2. \A n \in 1..k : Len(images[n]) \in Nat
      BY <2>1, LenProperties
    <2>3. /\ \A n \in 1..Len(images) : Len(f[n]) = Len(f[n - 1]) + Len(images[n])
          /\ \A n \in 0..Len(images) : Len(f[n]) \in Nat /\ Len(f[n]) <= Len(f[Len(images)])
      BY <1>1, <1>3, JoinedGrows
    <2> QED
      BY <1>1, <2>2, <2>3
  <1>6. P(1) = q + 1 /\ \A n \in Nat \ {0} : P(n + 1) = AfterLevel(data, P(n))
    BY IndexSteps
  <1>11. (q + 1) + Len(f[k]) <= INDEX_VALUES
    BY <1>2, <1>3
  <1> HIDE DEF k, P, Good
  <1>7. ASSUME NEW n \in 1..k, P(n) = (q + 1) + Len(f[n - 1])
        PROVE  Good(n) /\ P(n + 1) = (q + 1) + Len(f[n])
    <2> DEFINE x == (q + 1) + Len(f[n - 1])
               level == levels[n]
    <2>1. n - 1 \in 0..k /\ n \in Nat \ {0} /\ n \in 0..k
      BY <1>1
    <2>8. images[n] = LevelImage(level) /\ level \in Byte \cup {NULL}
      BY <1>1
    <2>9. x \in Nat
      <3>1. Len(f[n - 1]) \in Nat
        BY <1>5, <2>1
      <3>2. \A c \in Nat : (q + 1) + c \in Nat
        OBVIOUS
      <3> QED
        BY <3>1, <3>2, Zenon
    <2>2. Holds(data, x + 1, LevelImage(level))
      <3>1. Len(f[n - 1]) \in Nat
        BY <1>5, <2>1
      <3>2. \A c \in Nat : (q + 2) + c = ((q + 1) + c) + 1
        OBVIOUS
      <3>3. (q + 2) + Len(f[n - 1]) = x + 1
        BY <3>1, <3>2, Zenon
      <3> QED
        BY <1>4, <2>8, <3>3
    <2>3. x + Len(LevelImage(level)) = (q + 1) + Len(f[n])
      <3>1. Len(LevelImage(level)) = Len(images[n])
        BY <2>8
      <3>2. Len(f[n]) = Len(f[n - 1]) + Len(images[n]) /\ Len(f[n - 1]) \in Nat /\ Len(images[n]) \in Nat
        BY <1>5, <2>1
      <3> DEFINE b == Len(f[n - 1])
                 c == Len(images[n])
      <3>3. x = (q + 1) + b /\ b \in Nat /\ c \in Nat /\ Len(f[n]) = b + c
        BY <3>2
      <3> HIDE DEF x, b, c, level
      <3>4. x + c = (q + 1) + (b + c)
        BY <3>3
      <3>5. Len(LevelImage(level)) = c
        BY <3>1 DEF c
      <3> QED
        BY <3>3, <3>4, <3>5
    <2>4. P(n) = x
      BY <1>7
    <2>10. x + Len(LevelImage(level)) <= INDEX_VALUES
      <3>1. Len(f[n]) \in Nat /\ Len(f[k]) \in Nat /\ Len(f[n]) <= Len(f[k])
        BY <1>1, <1>5, <2>1
      <3>2. INDEX_VALUES \in Nat
        BY Constants
      <3>3. \A b, c, d \in Nat : b <= c /\ (q + 1) + c <= d => (q + 1) + b <= d
        OBVIOUS
      <3>4. (q + 1) + Len(f[n]) <= INDEX_VALUES
        BY <1>11, <3>1, <3>2, <3>3, Zenon
      <3> HIDE DEF x, level
      <3> QED
        BY <2>3, <3>4
    <2> HIDE DEF x, level
    <2>5. /\ Fits(LevelPieces(data, x)) /\ Covers(LevelPieces(data, x), LevelImage(level))
          /\ AfterLevel(data, x) = x + Len(LevelImage(level))
      BY <2>2, <2>8, <2>9, <2>10, LevelCovers
    <2>6. P(n + 1) = AfterLevel(data, P(n))
      BY <1>6, <2>1
    <2>7. P(n + 1) = (q + 1) + Len(f[n])
      BY <2>3, <2>4, <2>5, <2>6
    <2>11. Good(n)
      BY <2>4, <2>5 DEF Good, level
    <2> QED
      BY <2>7, <2>11
  <1> DEFINE T == {n \in Nat : n <= k => P(n + 1) = (q + 1) + Len(f[n])}
  <1>8. T = Nat
    <2>1. 0 \in T
      <3>1. f[0] = << >> /\ Len(<< >>) = 0 /\ 0 + 1 = 1 /\ (q + 1) + 0 = q + 1
        BY <1>3 DEF Joined
      <3>2. P(0 + 1) = (q + 1) + Len(f[0])
        BY <1>6, <3>1
      <3> QED
        BY <3>2
    <2>2. ASSUME NEW n \in T PROVE n + 1 \in T
      <3>1. n \in Nat /\ n + 1 \in Nat
        BY <2>2
      <3>2. ASSUME n + 1 <= k PROVE P((n + 1) + 1) = (q + 1) + Len(f[n + 1])
        <4>1. n + 1 \in 1..k /\ n <= k /\ (n + 1) - 1 = n
          BY <1>1, <3>1, <3>2
        <4>2. P(n + 1) = (q + 1) + Len(f[(n + 1) - 1])
          BY <2>2, <4>1
        <4> QED
          BY <1>7, <4>1, <4>2
      <3> QED
        BY <3>1, <3>2
    <2>3. T \in SUBSET Nat
      OBVIOUS
    <2> HIDE DEF T
    <2> QED
      BY <2>1, <2>2, <2>3, Sizes!SetInduction
  <1> HIDE DEF T
  <1>9. P(k + 1) = (q + 1) + Len(f[k])
    <2>1. k \in T /\ k <= k
      BY <1>1, <1>8
    <2> QED
      BY <2>1 DEF T
  <1>10. ASSUME NEW n \in 1..k PROVE Good(n)
    <2>1. n - 1 \in Nat /\ n - 1 <= k /\ (n - 1) + 1 = n
      BY <1>1
    <2>2. n - 1 \in T
      BY <1>8, <2>1
    <2>3. P((n - 1) + 1) = (q + 1) + Len(f[n - 1])
      BY <2>1, <2>2 DEF T
    <2> QED
      BY <1>7, <2>1, <2>3
  <1> QED
    BY <1>2, <1>3, <1>9, <1>10 DEF k, P, Good

(* As many levels as are looked at are kept.                               *)
LEMMA LevelListsCover ==
    ASSUME NEW data \in Buffer, NEW levels \in Seq(Byte \cup {NULL}), NEW n \in 0..Len(levels),
           \A i \in 1..n : /\ Fits(LevelPieces(data, LevelIndex(data)[i]))
                           /\ Covers(LevelPieces(data, LevelIndex(data)[i]), LevelImage(levels[i]))
    PROVE  /\ Fits(FlattenSeq(LevelLists(data, n)))
           /\ Covers(FlattenSeq(LevelLists(data, n)), LevelBytes(SubSeq(levels, 1, n)))
           /\ SubSeq(levels, 1, n) \in Seq(Byte \cup {NULL}) /\ Len(SubSeq(levels, 1, n)) = n
  <1> DEFINE some == SubSeq(levels, 1, n)
             images == LevelImages(some)
             lists == LevelLists(data, n)
  <1>1. /\ some \in Seq(Byte \cup {NULL}) /\ Len(some) = n
        /\ \A i \in 1..n : some[i] = levels[i]
    <2>1. Len(levels) \in Nat /\ n \in Nat /\ n <= Len(levels)
      BY LenProperties
    <2>2. 1 \in Int /\ n \in Int /\ \A i \in 1..n : levels[i] \in Byte \cup {NULL}
      BY <2>1, ElementOfSeq
    <2>3. /\ some \in Seq(Byte \cup {NULL}) /\ Len(some) = IF 1 <= n THEN n - 1 + 1 ELSE 0
          /\ \A i \in 1..(n - 1 + 1) : some[i] = levels[1 + i - 1]
      BY <2>2, SubSeqProperties
    <2> HIDE DEF some
    <2>4. n - 1 + 1 = n /\ (IF 1 <= n THEN n - 1 + 1 ELSE 0) = n
      BY <2>1
    <2>5. ASSUME NEW i \in 1..n PROVE some[i] = levels[i]
      <3>1. 1 + i - 1 = i
        BY <2>1
      <3> QED
        BY <2>3, <2>4, <3>1
    <2>6. Len(some) = n
      BY <2>3, <2>4
    <2> QED
      BY <2>3, <2>5, <2>6
  <1> HIDE DEF some
  <1>2. /\ images \in Seq(Seq(Byte)) /\ Len(images) = n /\ LevelBytes(some) = FlattenSeq(images)
        /\ \A i \in 1..n : images[i] = LevelImage(levels[i])
    BY <1>1, ImagesType, LevelsFlat
  <1>3. lists \in Seq(Seq(AnyPiece)) /\ Len(lists) = n
    <2>1. n \in Nat
      BY LenProperties
    <2> QED
      BY <2>1, LevelListsType
  <1>4. \A i \in 1..n : lists[i] = LevelPieces(data, LevelIndex(data)[i])
    BY DEF LevelLists
  <1> HIDE DEF images, lists
  <1>5. \A i \in 1..n : Fits(lists[i]) /\ Covers(lists[i], images[i])
    BY <1>2, <1>4
  <1>6. Fits(FlattenSeq(lists)) /\ Covers(FlattenSeq(lists), FlattenSeq(images))
    BY <1>2, <1>3, <1>5, FlattenCovers
  <1> QED
    BY <1>1, <1>2, <1>6 DEF some, lists

LEMMA SizePrefix ==
    ASSUME NEW a \in Seq(AnyPiece), NEW b \in Seq(AnyPiece)
    PROVE  \A n \in 0..Len(a) : SizeOf(a \o b, n) = SizeOf(a, n)
  <1> DEFINE k == Len(a)
             s == a \o b
             T == {n \in Nat : n <= k => SizeOf(s, n) = SizeOf(a, n)}
  <1>1. k \in Nat /\ Len(b) \in Nat /\ \A i \in 1..k : s[i] = a[i]
    <2>1. k \in Nat /\ Len(b) \in Nat
      BY LenProperties
    <2>2. \A i \in 1..(Len(a) + Len(b)) : s[i] = IF i <= Len(a) THEN a[i] ELSE b[i - Len(a)]
      BY ConcatProperties
    <2> HIDE DEF s
    <2> QED
      BY <2>1, <2>2
  <1> HIDE DEF s, k
  <1>2. 0 \in T
    BY SizeSteps
  <1>3. ASSUME NEW n \in T PROVE n + 1 \in T
    <2>1. n \in Nat /\ n + 1 \in Nat
      BY <1>3
    <2>2. /\ SizeOf(s, n + 1) = SizeOf(s, n) + s[n + 1].size
          /\ SizeOf(a, n + 1) = SizeOf(a, n) + a[n + 1].size
      BY <2>1, SizeSteps
    <2>3. ASSUME n + 1 <= k PROVE SizeOf(s, n + 1) = SizeOf(a, n + 1)
      <3>1. n + 1 \in 1..k /\ n <= k
        BY <1>1, <2>1, <2>3
      <3>2. s[n + 1] = a[n + 1] /\ SizeOf(s, n) = SizeOf(a, n)
        BY <1>1, <1>3, <3>1
      <3> QED
        BY <2>2, <3>2
    <2> QED
      BY <2>1, <2>3
  <1>4. T \in SUBSET Nat
    OBVIOUS
  <1> HIDE DEF T
  <1>5. T = Nat
    BY <1>2, <1>3, <1>4, Sizes!SetInduction
  <1>6. \A n \in 0..k : SizeOf(s, n) = SizeOf(a, n)
    BY <1>1, <1>5 DEF T
  <1> QED
    BY <1>6 DEF s, k

LEMMA SeenLevels ==
    ASSUME mem_idx \in 0..SIZE_MEM_BUFFER, NEW data, NEW type, NEW key, Arrived(data, type, key)
    PROVE  /\ LevelsSeen(data) \in 0..Len(type.levels)
           /\ LevelsSeen(data) # Len(type.levels) =>
                  LevelsSeen(data) = SIZE_MEM_BUFFER - mem_idx + 1
  <1> DEFINE k == Len(type.levels)
             room == SIZE_MEM_BUFFER - mem_idx + 1
  <1>1. data \in Buffer /\ type.levels \in Seq(Byte \cup {NULL})
    BY DEF Arrived, Sendable
  <1>2. k \in Nat /\ room \in Nat
    BY <1>1, LenProperties, Constants
  <1>3. CASE type.levels = << >>
    <2>1. LevelsSeen(data) = 0 /\ k = 0
      BY <1>3, TypeArrives DEF LevelsSeen
    <2> QED
      BY <2>1
  <1>4. CASE type.levels # << >>
    <2>1. TypeDesc(data) >= 128 /\ ByteAt(data, LevelsIndex(data)) = k
      BY <1>4, TypeArrives, CountArrives
    <2>2. LevelsSeen(data) = IF k <= room THEN k ELSE room
      BY <1>1, <2>1, SeenType
    <2> HIDE DEF k, room
    <2>3. /\ LevelsSeen(data) \in 0..k
          /\ LevelsSeen(data) # k => LevelsSeen(data) = room
      BY <1>2, <2>2
    <2> QED
      BY <2>3 DEF k, room
  <1> QED
    BY <1>3, <1>4

LEMMA MiddleCovers ==
    ASSUME mem_idx \in 0..SIZE_MEM_BUFFER, NEW data, NEW type, NEW key, Arrived(data, type, key)
    PROVE  LET n == LevelsSeen(data)
               some == SubSeq(type.levels, 1, n)
           IN  /\ some \in Seq(Byte \cup {NULL}) /\ Len(some) = n
               /\ Fits(FlattenSeq(LevelLists(data, n)))
               /\ Covers(FlattenSeq(LevelLists(data, n)), LevelBytes(some))
               /\ n = Len(type.levels) =>
                     KeyIndex(data) = 6 + Len(NameBytes(type)) + Len(SizeBytes(type))
                                      + Len(CountBytes(type)) + Len(LevelBytes(type.levels))
  <1> DEFINE levels == type.levels
             k == Len(levels)
             n == LevelsSeen(data)
             b == Len(NameBytes(type))
             c == Len(SizeBytes(type))
             d == Len(CountBytes(type))
             e == Len(LevelBytes(levels))
             h == Len(key)
             q == LevelsIndex(data)
             good(i) == /\ Fits(LevelPieces(data, LevelIndex(data)[i]))
                        /\ Covers(LevelPieces(data, LevelIndex(data)[i]), LevelImage(levels[i]))
  <1>1. data \in Buffer /\ levels \in Seq(Byte \cup {NULL}) /\ n \in 0..k /\ k \in Nat
    BY SeenLevels, LenProperties DEF Arrived, Sendable
  <1>2. q = 6 + b + c
    BY TailCovers
  <1>3. b \in Nat /\ c \in Nat /\ d \in Nat /\ e \in Nat /\ h \in Nat
        /\ 7 + b + c + d + e + h <= INDEX_VALUES
    BY ArrivedLengths
  <1>4. /\ \A i \in 1..n : good(i)
        /\ n = k => KeyIndex(data) = 6 + b + c + d + e
    <2>1. CASE levels = << >>
      <3>1. k = 0 /\ n = 0
        BY <1>1, <2>1
      <3>2. KeyIndex(data) = q
        BY <2>1, TypeArrives DEF KeyIndex
      <3>3. d = 0 /\ e = 0
        BY <2>1, NoLevels DEF CountBytes
      <3> HIDE DEF b, c, d, e, q, k, n, good
      <3>4. KeyIndex(data) = 6 + b + c + d + e
        BY <1>2, <1>3, <3>2, <3>3
      <3> QED
        BY <3>1, <3>4
    <2>2. CASE levels # << >>
      <3>1. d = 1 /\ TypeDesc(data) >= 128
        BY <2>2, TypeArrives, CountArrives
      <3>2. Holds(data, 6 + 1 + b + c + d, LevelBytes(levels))
        BY DEF Arrived, PartsHeld
      <3> HIDE DEF b, c, d, e, h, q
      <3>3. q \in Nat /\ 6 + 1 + b + c + d = q + 2
        BY <1>2, <1>3, <3>1
      <3>4. (q + 1) + e <= INDEX_VALUES
        BY <1>2, <1>3, <3>1, Constants
      <3>5. LevelIndex(data)[k + 1] = (q + 1) + e /\ \A i \in 1..k : good(i)
        <4>1. q = LevelsIndex(data) /\ e = Len(LevelBytes(levels))
          BY DEF q, e
        <4>2. Holds(data, q + 2, LevelBytes(levels)) /\ (q + 1) + Len(LevelBytes(levels)) <= INDEX_VALUES
          BY <3>2, <3>3, <3>4, <4>1
        <4> HIDE DEF levels
        <4> QED
          BY <1>1, <3>3, <4>1, <4>2, LevelsArrive
      <3>6. ASSUME n = k PROVE KeyIndex(data) = 6 + b + c + d + e
        <4>1. KeyIndex(data) = (q + 1) + e
          BY <3>1, <3>5, <3>6 DEF KeyIndex
        <4> HIDE DEF k, n
        <4> QED
          BY <1>2, <1>3, <3>1, <4>1
      <3>7. \A i \in 1..n : good(i)
        <4> HIDE DEF n, k, good
        <4> QED
          BY <1>1, <3>5
      <3> QED
        BY <3>6, <3>7
    <2> QED
      BY <2>1, <2>2
  <1> HIDE DEF n, b, c, d, e, q
  <1>5. /\ Fits(FlattenSeq(LevelLists(data, n)))
        /\ Covers(FlattenSeq(LevelLists(data, n)), LevelBytes(SubSeq(levels, 1, n)))
        /\ SubSeq(levels, 1, n) \in Seq(Byte \cup {NULL}) /\ Len(SubSeq(levels, 1, n)) = n
    <2> HIDE DEF levels
    <2> QED
      BY <1>1, <1>4, LevelListsCover
  <1> QED
    BY <1>4, <1>5 DEF n, b, c, d, e

(* A field all of which is stored has room for all of its levels.          *)
LEMMA LevelsAllSeen ==
    ASSUME mem_idx \in 0..SIZE_MEM_BUFFER, NEW data, NEW type, NEW key, Arrived(data, type, key),
           Allocated(FieldPieces(data), mem_idx) = Len(FieldPieces(data))
    PROVE  LevelsSeen(data) = Len(type.levels)
  <1> DEFINE n == LevelsSeen(data)
             some == SubSeq(type.levels, 1, n)
             head == HeadPieces(data)
             middle == FlattenSeq(LevelLists(data, n))
             a == head \o middle
             last == StringPieces(data, KeyIndex(data))
             pieces == FieldPieces(data)
             image == HeadBytes(type) \o LevelBytes(some)
             room == SIZE_MEM_BUFFER - mem_idx
  <1> SUFFICES ASSUME n # Len(type.levels) PROVE FALSE
    OBVIOUS
  <1>1. n = room + 1 /\ room \in Nat
    BY SeenLevels, Constants
  <1>2. data \in Buffer
    BY DEF Arrived
  <1>3. pieces = a \o last
    BY FieldPiecesSplit
  <1>4. some \in Seq(Byte \cup {NULL}) /\ Len(some) = n /\ Fits(middle) /\ Covers(middle, LevelBytes(some))
    BY MiddleCovers
  <1>5. Fits(head) /\ Covers(head, HeadBytes(type))
    BY HeadCovers
  <1>6. last \in Seq(AnyPiece)
    BY <1>2, SeenType, StringPiecesType
  <1>7. pieces \in Seq(AnyPiece) /\ mem_idx + SizeOf(pieces, Len(pieces)) <= SIZE_MEM_BUFFER
    <2>1. pieces \in Seq(AnyPiece)
      BY <1>2, FieldPiecesType
    <2> HIDE DEF pieces
    <2>2. mem_idx + SizeOf(pieces, Allocated(pieces, mem_idx)) <= SIZE_MEM_BUFFER
      BY <2>1, AllocatedType
    <2>3. Allocated(pieces, mem_idx) = Len(pieces)
      BY DEF pieces
    <2> QED
      BY <2>1, <2>2, <2>3
  <1> HIDE DEF some, head, middle, last, pieces
  <1>8. Fits(a) /\ Covers(a, image)
    BY <1>4, <1>5, CoversConcat
  <1>9. n <= Len(image)
    <2>1. Len(some) <= Len(LevelBytes(some)) /\ LevelBytes(some) \in Seq(Byte)
      BY <1>4, LevelsCounted, ImagesType
    <2>2. HeadBytes(type) \in Seq(Byte)
      BY <1>5, CoversType
    <2>3. Len(image) = Len(HeadBytes(type)) + Len(LevelBytes(some))
      BY <2>1, <2>2, ConcatProperties
    <2>4. Len(HeadBytes(type)) \in Nat /\ Len(LevelBytes(some)) \in Nat
      BY <2>1, <2>2, LenProperties
    <2> DEFINE x == Len(HeadBytes(type))
               y == Len(LevelBytes(some))
               z == Len(image)
    <2>5. n <= y /\ z = x + y /\ x \in Nat /\ y \in Nat /\ n \in Nat
      BY <1>1, <1>4, <2>1, <2>3, <2>4
    <2> HIDE DEF x, y, z, n
    <2>6. n <= z
      BY <2>5
    <2> QED
      BY <2>6 DEF z
  <1> HIDE DEF image
  <1>10. a \in Seq(AnyPiece) /\ SizeOf(a, Len(a)) = Len(image)
    <2> HIDE DEF a
    <2> QED
      BY <1>8, CoversType DEF Fits
  <1> HIDE DEF a
  <1>11. SizeOf(pieces, Len(a)) = Len(image)
    <2>1. Len(a) \in 0..Len(a)
      BY <1>10, LenProperties
    <2> QED
      BY <1>3, <1>6, <1>10, <2>1, SizePrefix
  <1>12. SizeOf(pieces, Len(a)) \in Nat /\ SizeOf(pieces, Len(a)) <= SizeOf(pieces, Len(pieces))
         /\ SizeOf(pieces, Len(pieces)) \in Nat
    <2>1. Len(a) \in Nat /\ Len(last) \in Nat /\ Len(pieces) = Len(a) + Len(last)
      BY <1>3, <1>6, <1>10, LenProperties, ConcatProperties
    <2>2. Len(pieces) \in Nat /\ Len(pieces) <= Len(pieces) /\ Len(a) \in 0..Len(pieces)
          /\ Len(pieces) \in 0..Len(pieces)
      BY <2>1
    <2> QED
      BY <1>7, <2>2, SizeType
  <1> DEFINE x == SizeOf(pieces, Len(a))
             y == SizeOf(pieces, Len(pieces))
  <1>13. n <= x /\ x <= y /\ x \in Nat /\ y \in Nat /\ mem_idx + y <= SIZE_MEM_BUFFER
    BY <1>7, <1>9, <1>11, <1>12
  <1> HIDE DEF x, y, n
  <1> QED
    BY <1>1, <1>13, Constants

LEMMA Regroup == \A K : \A u, v, w \in Seq(K) : u \o (v \o w) = (u \o v) \o w
  BY ConcatAssociative, SMTT(30)

LEMMA PayloadJoins ==
    ASSUME NEW type, NEW key, Sendable(type, key)
    PROVE  Payload(type, key) =
               (HeadBytes(type) \o LevelBytes(type.levels)) \o (<<Len(key)>> \o key)
  <1> DEFINE a == <<TypeByte(type)>>
             b == NameBytes(type)
             c == SizeBytes(type)
             d == CountBytes(type)
             e == LevelBytes(type.levels)
             f == <<Len(key)>>
             K == Nat
  <1>1. /\ a \in Seq(K) /\ b \in Seq(K) /\ c \in Seq(K) /\ d \in Seq(K) /\ e \in Seq(K)
        /\ f \in Seq(K) /\ key \in Seq(K)
    BY PayloadParts
  <1>2. Payload(type, key) = a \o b \o c \o d \o e \o f \o key
    BY DEF Payload
  <1>3. HeadBytes(type) = a \o (b \o c) \o d
    BY DEF HeadBytes
  <1> HIDE DEF a, b, c, d, e, f, K
  <1>4. a \o (b \o c) = a \o b \o c
    <2>1. a \in Seq(K) /\ b \in Seq(K) /\ c \in Seq(K)
      BY <1>1
    <2> QED
      BY <2>1, Regroup
  <1> DEFINE x == a \o b \o c \o d \o e
  <1>5. x \in Seq(K)
    BY <1>1, ConcatProperties
  <1>6. x = HeadBytes(type) \o e /\ Payload(type, key) = (x \o f) \o key
    BY <1>2, <1>3, <1>4
  <1> HIDE DEF x
  <1>7. (x \o f) \o key = x \o (f \o key)
    <2>1. x \in Seq(K) /\ f \in Seq(K) /\ key \in Seq(K)
      BY <1>1, <1>5
    <2> QED
      BY <2>1, Regroup, SMTT(30)
  <1> QED
    BY <1>6, <1>7 DEF e, f

(* The pieces of a field that arrives whole, once all are stored, are its  *)
(* payload.                                                                *)
LEMMA FieldCovers ==
    ASSUME mem_idx \in 0..SIZE_MEM_BUFFER, NEW data, NEW type, NEW key, Arrived(data, type, key),
           Allocated(FieldPieces(data), mem_idx) = Len(FieldPieces(data))
    PROVE  Fits(FieldPieces(data)) /\ Covers(FieldPieces(data), Payload(type, key))
  <1> DEFINE k == Len(type.levels)
             i == KeyIndex(data)
             head == HeadPieces(data)
             middle == FlattenSeq(LevelLists(data, k))
             last == StringPieces(data, i)
             levels == type.levels
             ending == <<Len(key)>> \o key
  <1>1. LevelsSeen(data) = k
    BY LevelsAllSeen
  <1>2. FieldPieces(data) = head \o middle \o last
    BY <1>1, FieldPiecesSplit
  <1>3. data \in Buffer /\ Sendable(type, key) /\ levels \in Seq(Byte \cup {NULL}) /\ key \in Seq(Byte)
    BY DEF Arrived, Sendable
  <1>4. Fits(head) /\ Covers(head, HeadBytes(type))
    BY HeadCovers
  <1>5. SubSeq(levels, 1, k) = levels
    BY <1>3, SubSeqFull
  <1>6. Fits(middle) /\ Covers(middle, LevelBytes(levels))
    BY <1>1, <1>5, MiddleCovers
  <1>7. Fits(last) /\ Covers(last, ending)
    <2> DEFINE b == Len(NameBytes(type))
               c == Len(SizeBytes(type))
               d == Len(CountBytes(type))
               e == Len(LevelBytes(type.levels))
               h == Len(key)
    <2>1. i = 6 + b + c + d + e
      BY <1>1, MiddleCovers
    <2>2. Holds(data, 6 + 1 + b + c + d + e, ending)
      BY DEF Arrived, PartsHeld
    <2>3. b \in Nat /\ c \in Nat /\ d \in Nat /\ e \in Nat /\ h \in Nat
          /\ 7 + b + c + d + e + h <= INDEX_VALUES
      BY ArrivedLengths
    <2> HIDE DEF b, c, d, e, i
    <2>4. i \in Nat /\ i + 1 = 6 + 1 + b + c + d + e
      BY <2>1, <2>3
    <2>5. i + 1 + Len(key) <= INDEX_VALUES
      <3>1. i + 1 + h <= INDEX_VALUES
        <4> HIDE DEF h
        <4> QED
          BY <2>1, <2>3, Constants
      <3> QED
        BY <3>1
    <2>6. Holds(data, i + 1, <<Len(key)>> \o key)
      BY <2>2, <2>4
    <2> QED
      BY <1>3, <2>4, <2>5, <2>6, StringCovers
  <1> HIDE DEF head, middle, last, ending
  <1>8. Fits(head \o middle) /\ Covers(head \o middle, HeadBytes(type) \o LevelBytes(levels))
    BY <1>4, <1>6, CoversConcat
  <1>9. /\ Fits((head \o middle) \o last)
        /\ Covers((head \o middle) \o last, (HeadBytes(type) \o LevelBytes(levels)) \o ending)
    BY <1>7, <1>8, CoversConcat
  <1>10. Payload(type, key) = (HeadBytes(type) \o LevelBytes(levels)) \o ending
    BY <1>3, PayloadJoins DEF ending
  <1> QED
    BY <1>2, <1>9, <1>10

(* What arrives of a field that fits its APDU and the index.               *)
LEMMA FieldArrives ==
    ASSUME buf \in Buffer, NEW type, NEW key, Sendable(type, key),
           Len(send_struct_def_field(type, key)) <= BUF_SIZE,
           Len(send_struct_def_field(type, key)) <= INDEX_VALUES
    PROVE  Arrived(Received(send_struct_def_field(type, key)), type, key)
  <1> DEFINE apdu == send_struct_def_field(type, key)
             data == Received(apdu)
             payload == Payload(type, key)
             header == <<224, 26, 0, 255, Len(payload)>>
  <1>1. apdu \in Seq(Byte) /\ Len(apdu) = 5 + Len(payload) /\ payload \in Seq(Byte)
    BY FieldApdu
  <1>2. data \in Buffer /\ Holds(data, 1, apdu)
    <2> HIDE DEF apdu
    <2>1. Len(apdu) <= BUF_SIZE
      BY DEF apdu
    <2> QED
      BY <1>1, <2>1, ReceivedType
  <1>3. apdu = header \o payload
    BY SendField
  <1> HIDE DEF data
  <1>4. Holds(data, 6, payload)
    <2>1. payload \in Seq(Nat) /\ Len(payload) \in Nat
      BY <1>1, BytesAreNumbers, LenProperties
    <2> HIDE DEF payload
    <2>2. header \in Seq(Nat) /\ Len(header) = 5
      BY <2>1
    <2> HIDE DEF header, apdu
    <2>3. 1 \in Int /\ 1 + Len(header) = 6
      BY <2>2
    <2>4. Holds(data, 1, header \o payload)
      BY <1>2, <1>3
    <2>5. Holds(data, 1 + Len(header), payload)
      BY <2>1, <2>2, <2>3, <2>4, HoldsConcat
    <2> QED
      BY <2>3, <2>5
  <1>5. PartsHeld(data, type, key, 6)
    BY <1>4, PayloadHeld
  <1>6. 5 + Len(payload) <= INDEX_VALUES
    BY <1>1
  <1>7. Arrived(data, type, key)
    BY <1>2, <1>5, <1>6 DEF Arrived
  <1> QED
    BY <1>7 DEF data

=============================================================================
