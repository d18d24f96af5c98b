----------------------------- MODULE StackProofs -----------------------------
(***************************************************************************)
(* What the hash contexts have absorbed, for every schema, every size of   *)
(* the memory and of the tables and every sequence of APDUs.               *)
(*                                                                         *)
(* The context of the n-th struct of the path lies above those of the      *)
(* structs before it and of the arrays around it (Place), and holds its    *)
(* type hash and one item per member before the current one (Mirrors);     *)
(* one more while a handler has fed it and not advanced yet (PendingAt).   *)
(* Every step carries that on (Carries), but for one:                      *)
(* path_new_array_depth() puts the context of an array under the topmost   *)
(* one, whichever that is. When the elements are structs and the path is   *)
(* in a struct within them, that is the wrong place. InPlace says that it  *)
(* does not happen; the first struct of the path is not affected, so what  *)
(* comes out is the hash of a whole root all the same. A schema in which   *)
(* no array is of structs that hold structs (PlainElements) implies it.    *)
(*                                                                         *)
(* The first part counts the items of a transcript. Its brackets match     *)
(* (Whole) when it is made of single tokens and of digests of such         *)
(* transcripts, however deep; a digest appended to it, or a single token,  *)
(* is one item more.                                                       *)
(***************************************************************************)
EXTENDS DeviceProofs

(* Members of S up to n.                                                   *)
UpTo(S, n) == Cardinality(S \cap (1..n))

LEMMA UpToType ==
    ASSUME NEW S, NEW n \in Nat
    PROVE  IsFiniteSet(S \cap (1..n)) /\ UpTo(S, n) \in Nat /\ UpTo(S, 0) = 0
  <1>1. IsFiniteSet(1..n)
    BY FS_Interval
  <1>2. IsFiniteSet(S \cap (1..n))
    BY <1>1, FS_Subset
  <1>3. S \cap (1..0) = {}
    OBVIOUS
  <1> QED
    BY <1>2, <1>3, FS_CardinalityType, FS_EmptySet DEF UpTo

LEMMA UpToNext ==
    ASSUME NEW S, NEW n \in Nat
    PROVE  UpTo(S, n + 1) = UpTo(S, n) + (IF n + 1 \in S THEN 1 ELSE 0)
  <1>1. CASE n + 1 \in S
    <2>1. /\ S \cap (1..(n + 1)) = (S \cap (1..n)) \cup {n + 1}
          /\ n + 1 \notin S \cap (1..n)
      BY <1>1
    <2> QED
      BY <1>1, <2>1, UpToType, FS_AddElement DEF UpTo
  <1>2. CASE n + 1 \notin S
    <2>1. S \cap (1..(n + 1)) = S \cap (1..n)
      BY <1>2
    <2>2. UpTo(S, n + 1) = UpTo(S, n) /\ UpTo(S, n) \in Nat
      BY <2>1, UpToType DEF UpTo
    <2> QED
      BY <1>2, <2>2
  <1> QED
    BY <1>1, <1>2

LEMMA UpToAgree ==
    ASSUME NEW S, NEW R, NEW n \in Nat, \A i \in 1..n : i \in S <=> i \in R
    PROVE  UpTo(S, n) = UpTo(R, n)
  <1>1. S \cap (1..n) = R \cap (1..n)
    OBVIOUS
  <1> QED
    BY <1>1 DEF UpTo

LEMMA UpToWithin ==
    ASSUME NEW S, NEW R, NEW n \in Nat, \A i \in 1..n : i \in S => i \in R
    PROVE  UpTo(S, n) <= UpTo(R, n) /\ UpTo(R, n) <= n
  <1>1. S \cap (1..n) \subseteq R \cap (1..n) /\ R \cap (1..n) \subseteq 1..n
    OBVIOUS
  <1>2. IsFiniteSet(R \cap (1..n))
    BY UpToType
  <1>3. IsFiniteSet(1..n) /\ Cardinality(1..n) = n
    BY FS_Interval
  <1> QED
    BY <1>1, <1>2, <1>3, FS_Subset DEF UpTo

LEMMA UpToNone ==
    ASSUME NEW S, NEW n \in Nat, \A i \in 1..n : i \notin S
    PROVE  UpTo(S, n) = 0
  <1>1. S \cap (1..n) = {}
    OBVIOUS
  <1> QED
    BY <1>1, FS_EmptySet DEF UpTo

LEMMA UpToAll ==
    ASSUME NEW S, NEW n \in Nat, \A i \in 1..n : i \in S
    PROVE  UpTo(S, n) = n
  <1>1. S \cap (1..n) = 1..n
    OBVIOUS
  <1>2. Cardinality(1..n) = n
    BY FS_Interval
  <1> QED
    BY <1>1, <1>2 DEF UpTo

(* Beyond m, and for len, S is R.                                          *)
Shifted(S, R, m, len) == \A k \in 1..len : m + k \in S <=> k \in R

LEMMA UpToShift ==
    ASSUME NEW S, NEW R, NEW m \in Nat, NEW len \in Nat, Shifted(S, R, m, len)
    PROVE  \A k \in 0..len : UpTo(S, m + k) = UpTo(S, m) + UpTo(R, k)
  <1> DEFINE T == {k \in Nat : k <= len => UpTo(S, m + k) = UpTo(S, m) + UpTo(R, k)}
  <1>1. 0 \in T
    <2>1. m + 0 = m
      OBVIOUS
    <2>2. UpTo(S, m) \in Nat /\ UpTo(R, 0) = 0
      BY UpToType
    <2> QED
      BY <2>1, <2>2
  <1>2. ASSUME NEW k \in T PROVE k + 1 \in T
    <2>1. k \in Nat /\ k + 1 \in Nat /\ m + k \in Nat /\ m + (k + 1) = (m + k) + 1
      BY <1>2
    <2>2. ASSUME k + 1 <= len PROVE UpTo(S, m + (k + 1)) = UpTo(S, m) + UpTo(R, k + 1)
      <3>1. k <= len /\ k + 1 \in 1..len
        BY <2>1, <2>2
      <3>2. UpTo(S, m + k) = UpTo(S, m) + UpTo(R, k)
        BY <1>2, <3>1
      <3>3. m + (k + 1) \in S <=> k + 1 \in R
        BY <3>1 DEF Shifted
      <3>4. UpTo(S, (m + k) + 1) = UpTo(S, m + k) + (IF (m + k) + 1 \in S THEN 1 ELSE 0)
        BY <2>1, UpToNext
      <3>5. UpTo(R, k + 1) = UpTo(R, k) + (IF k + 1 \in R THEN 1 ELSE 0)
        BY <2>1, UpToNext
      <3>6. UpTo(S, m) \in Nat /\ UpTo(R, k) \in Nat
        BY <2>1, UpToType
      <3> QED
        BY <2>1, <3>2, <3>3, <3>4, <3>5, <3>6
    <2> QED
      BY <2>1, <2>2
  <1> HIDE DEF T
  <1>3. T \in SUBSET Nat
    BY DEF T
  <1>4. T = Nat
    BY <1>1, <1>2, <1>3, Walks!SetInduction
  <1>5. \A k \in 0..len : k \in Nat /\ k <= len
    OBVIOUS
  <1> QED
    BY <1>4, <1>5 DEF T

-----------------------------------------------------------------------------

Places(t, tok) == {i \in Nat : t[i] = tok}

Count(t, tok, n) == UpTo(Places(t, tok), n)

(* Where every bracket opened is closed again.                             *)
Outside(t) == {n \in Nat : Count(t, Open, n) = Count(t, Close, n)}

(* A transcript whose brackets match.                                      *)
Whole(t) ==
    /\ t \in Transcript
    /\ Count(t, Open, Len(t)) = Count(t, Close, Len(t))
    /\ \A n \in 0..Len(t) : Count(t, Close, n) <= Count(t, Open, n)

LEMMA ItemsCounted ==
    ASSUME NEW t \in Transcript
    PROVE  Items(t) = UpTo(Outside(t), Len(t)) /\ Items(t) \in Nat
  <1>1. Len(t) \in Nat
    BY LenProperties DEF Transcript
  <1>2. ASSUME NEW tok, NEW n \in 1..Len(t)
        PROVE  Cardinality({i \in 1..n : t[i] = tok}) = Count(t, tok, n)
    <2>1. {i \in 1..n : t[i] = tok} = Places(t, tok) \cap (1..n)
      BY <1>1 DEF Places
    <2> QED
      BY <2>1 DEF Count, UpTo
  <1>3. {n \in 1..Len(t) : Cardinality({i \in 1..n : t[i] = Open})
                              = Cardinality({i \in 1..n : t[i] = Close})}
           = Outside(t) \cap (1..Len(t))
    <2>1. \A n \in 1..Len(t) :
              /\ n \in Nat
              /\ Cardinality({i \in 1..n : t[i] = Open}) = Count(t, Open, n)
              /\ Cardinality({i \in 1..n : t[i] = Close}) = Count(t, Close, n)
      BY <1>1, <1>2
    <2> QED
      BY <2>1 DEF Outside
  <1>4. Items(t) = UpTo(Outside(t), Len(t))
    BY <1>3 DEF Items, UpTo
  <1> QED
    BY <1>1, <1>4, UpToType

(* Of a transcript w made of t and v.                                      *)
Joins(t, v, w, tok) ==
    /\ \A n \in 0..Len(t) : Count(w, tok, n) = Count(t, tok, n)
    /\ \A k \in 0..Len(v) :
           Count(w, tok, Len(t) + k) = Count(t, tok, Len(t)) + Count(v, tok, k)

LEMMA CountConcat ==
    ASSUME NEW t \in Transcript, NEW v \in Transcript, NEW tok
    PROVE  /\ t \o v \in Transcript /\ Len(t \o v) = Len(t) + Len(v)
           /\ Len(t) \in Nat /\ Len(v) \in Nat
           /\ Joins(t, v, t \o v, tok)
  <1> DEFINE w == t \o v
  <1>1. /\ w \in Transcript /\ Len(w) = Len(t) + Len(v)
        /\ Len(t) \in Nat /\ Len(v) \in Nat
        /\ \A i \in 1..Len(t) : w[i] = t[i]
        /\ \A i \in 1..Len(v) : w[Len(t) + i] = v[i]
    BY ConcatProperties, LenProperties DEF Transcript
  <1> HIDE DEF w
  <1>2. ASSUME NEW n \in 0..Len(t) PROVE Count(w, tok, n) = Count(t, tok, n)
    <2>1. n \in Nat /\ \A i \in 1..n : i \in Places(w, tok) <=> i \in Places(t, tok)
      BY <1>1, SMTT(30) DEF Places
    <2> QED
      BY <2>1, UpToAgree DEF Count
  <1>3. \A k \in 0..Len(v) :
            Count(w, tok, Len(t) + k) = Count(t, tok, Len(t)) + Count(v, tok, k)
    <2>1. Shifted(Places(w, tok), Places(v, tok), Len(t), Len(v))
      BY <1>1 DEF Places, Shifted
    <2>2. \A k \in 0..Len(v) :
              UpTo(Places(w, tok), Len(t) + k)
                  = UpTo(Places(w, tok), Len(t)) + UpTo(Places(v, tok), k)
      BY <1>1, <2>1, UpToShift
    <2>3. UpTo(Places(w, tok), Len(t)) = UpTo(Places(t, tok), Len(t))
      BY <1>1, <1>2 DEF Count
    <2> QED
      BY <2>2, <2>3 DEF Count
  <1>4. Joins(t, v, w, tok)
    BY <1>2, <1>3 DEF Joins
  <1> QED
    BY <1>1, <1>4 DEF w

LEMMA CountType == ASSUME NEW t, NEW tok, NEW n \in Nat PROVE Count(t, tok, n) \in Nat
  BY UpToType DEF Count

LEMMA WholeConcat ==
    ASSUME NEW t, NEW v, Whole(t), Whole(v)
    PROVE  Whole(t \o v) /\ Items(t \o v) = Items(t) + Items(v)
  <1> DEFINE w == t \o v
  <1>1. t \in Transcript /\ v \in Transcript
    BY DEF Whole
  <1>2. /\ w \in Transcript /\ Len(w) = Len(t) + Len(v) /\ Len(t) \in Nat /\ Len(v) \in Nat
    BY <1>1, CountConcat
  <1>3. /\ \A n \in 0..Len(t) : Count(w, Open, n) = Count(t, Open, n)
        /\ \A n \in 0..Len(t) : Count(w, Close, n) = Count(t, Close, n)
        /\ \A k \in 0..Len(v) :
               Count(w, Open, Len(t) + k) = Count(t, Open, Len(t)) + Count(v, Open, k)
        /\ \A k \in 0..Len(v) :
               Count(w, Close, Len(t) + k) = Count(t, Close, Len(t)) + Count(v, Close, k)
    <2>1. Joins(t, v, w, Open) /\ Joins(t, v, w, Close)
      BY <1>1, CountConcat
    <2> QED
      BY <2>1 DEF Joins
  <1> HIDE DEF w
  <1>4. \A n \in Nat : /\ Count(w, Open, n) \in Nat /\ Count(w, Close, n) \in Nat
                       /\ Count(t, Open, n) \in Nat /\ Count(t, Close, n) \in Nat
                       /\ Count(v, Open, n) \in Nat /\ Count(v, Close, n) \in Nat
    BY CountType
  <1>5. Count(t, Open, Len(t)) = Count(t, Close, Len(t))
    BY DEF Whole
  <1>6. \A k \in 0..Len(v) :
            /\ Count(w, Close, Len(t) + k) <= Count(w, Open, Len(t) + k)
            /\ Count(w, Open, Len(t) + k) = Count(w, Close, Len(t) + k)
                   <=> Count(v, Open, k) = Count(v, Close, k)
    <2> TAKE k \in 0..Len(v)
    <2>1. Count(v, Close, k) <= Count(v, Open, k)
      BY DEF Whole
    <2>2. /\ Count(t, Close, Len(t)) \in Nat
          /\ Count(v, Open, k) \in Nat /\ Count(v, Close, k) \in Nat
      BY <1>2, <1>4
    <2>3. /\ Count(w, Open, Len(t) + k) = Count(t, Close, Len(t)) + Count(v, Open, k)
          /\ Count(w, Close, Len(t) + k) = Count(t, Close, Len(t)) + Count(v, Close, k)
      BY <1>3, <1>5
    <2> QED
      BY <2>1, <2>2, <2>3
  <1>7. Whole(w)
    <2>1. Count(w, Open, Len(w)) = Count(w, Close, Len(w))
      <3>1. Len(v) \in 0..Len(v) /\ Count(v, Open, Len(v)) = Count(v, Close, Len(v))
        BY <1>2 DEF Whole
      <3> QED
        BY <1>2, <1>6, <3>1
    <2>2. ASSUME NEW n \in 0..Len(w) PROVE Count(w, Close, n) <= Count(w, Open, n)
      <3>1. CASE n <= Len(t)
        <4>1. n \in 0..Len(t)
          BY <1>2, <3>1
        <4> QED
          BY <1>3, <4>1 DEF Whole
      <3>2. CASE ~(n <= Len(t))
        <4>1. n - Len(t) \in 0..Len(v) /\ Len(t) + (n - Len(t)) = n
          BY <1>2, <3>2
        <4>2. Count(w, Close, Len(t) + (n - Len(t))) <= Count(w, Open, Len(t) + (n - Len(t)))
          BY <1>6, <4>1
        <4> QED
          BY <4>1, <4>2
      <3> QED
        BY <3>1, <3>2
    <2> QED
      BY <1>2, <2>1, <2>2 DEF Whole
  <1>8. Items(w) = Items(t) + Items(v)
    <2>1. Shifted(Outside(w), Outside(v), Len(t), Len(v))
      <3> SUFFICES ASSUME NEW k \in 1..Len(v)
                   PROVE  Len(t) + k \in Outside(w) <=> k \in Outside(v)
        BY DEF Shifted
      <3>1. k \in 0..Len(v) /\ k \in Nat /\ Len(t) + k \in Nat
        BY <1>2
      <3> QED
        BY <1>6, <3>1 DEF Outside
    <2>2. UpTo(Outside(w), Len(t) + Len(v))
              = UpTo(Outside(w), Len(t)) + UpTo(Outside(v), Len(v))
      <3>1. Len(v) \in 0..Len(v)
        BY <1>2
      <3> QED
        BY <1>2, <2>1, <3>1, UpToShift
    <2>3. UpTo(Outside(w), Len(t)) = UpTo(Outside(t), Len(t))
      <3>1. \A i \in 1..Len(t) : i \in Outside(w) <=> i \in Outside(t)
        BY <1>2, <1>3 DEF Outside
      <3> QED
        BY <1>2, <3>1, UpToAgree
    <2> QED
      BY <1>1, <1>2, <2>2, <2>3, ItemsCounted
  <1> QED
    BY <1>7, <1>8 DEF w

LEMMA BracketsDiffer == Open # Close /\ Final \notin {Open, Close}
  BY DEF Open, Close, Final

LEMMA FlatWhole ==
    ASSUME NEW t \in Transcript, \A i \in 1..Len(t) : t[i] \notin {Open, Close}
    PROVE  Whole(t)
  <1>1. Len(t) \in Nat
    BY LenProperties DEF Transcript
  <1>2. \A n \in 0..Len(t) : Count(t, Open, n) = 0 /\ Count(t, Close, n) = 0
    <2> TAKE n \in 0..Len(t)
    <2>1. n \in Nat /\ \A i \in 1..n : i \notin Places(t, Open) /\ i \notin Places(t, Close)
      BY <1>1 DEF Places
    <2> QED
      BY <2>1, UpToNone DEF Count
  <1>3. Len(t) \in 0..Len(t)
    BY <1>1
  <1> QED
    BY <1>2, <1>3 DEF Whole

LEMMA TokenWhole ==
    ASSUME NEW tok \in Token, tok \notin {Open, Close}
    PROVE  Whole(<<tok>>) /\ Items(<<tok>>) = 1
  <1>1. <<tok>> \in Transcript /\ Len(<<tok>>) = 1 /\ <<tok>>[1] = tok
    BY DEF Transcript
  <1>2. Whole(<<tok>>)
    BY <1>1, FlatWhole
  <1>3. UpTo(Outside(<<tok>>), 0 + 1) = UpTo(Outside(<<tok>>), 0) + 1
    <2>1. Count(<<tok>>, Open, Len(<<tok>>)) = Count(<<tok>>, Close, Len(<<tok>>))
      BY <1>2 DEF Whole
    <2>2. 0 + 1 \in Outside(<<tok>>)
      BY <1>1, <2>1 DEF Outside
    <2> QED
      BY <2>2, UpToNext
  <1>4. UpTo(Outside(<<tok>>), 0) = 0
    BY UpToType
  <1>5. UpTo(Outside(<<tok>>), 1) = 1
    BY <1>3, <1>4
  <1> QED
    BY <1>1, <1>2, <1>5, ItemsCounted

LEMMA OneTokenCount ==
    ASSUME NEW tok, NEW other
    PROVE  Count(<<tok>>, other, 1) = IF tok = other THEN 1 ELSE 0
  <1>1. UpTo(Places(<<tok>>, other), 0 + 1)
            = UpTo(Places(<<tok>>, other), 0) + (IF 0 + 1 \in Places(<<tok>>, other) THEN 1 ELSE 0)
    BY UpToNext
  <1>2. UpTo(Places(<<tok>>, other), 0) = 0
    BY UpToType
  <1>3. 0 + 1 = 1 /\ (1 \in Places(<<tok>>, other) <=> tok = other)
    BY DEF Places
  <1> QED
    BY <1>1, <1>2, <1>3 DEF Count

(* A digest is one item of the transcript it goes into.                    *)
LEMMA DigestWhole ==
    ASSUME NEW u, Whole(u)
    PROVE  Whole(Keccak(u)) /\ Items(Keccak(u)) = 1
  <1> DEFINE o == <<Open>>
             c == <<Close>>
             w == o \o u
             d == w \o c
             m == Len(u) + 1
  <1>1. /\ u \in Transcript /\ o \in Transcript /\ c \in Transcript
        /\ Len(o) = 1 /\ Len(c) = 1 /\ Len(u) \in Nat
    BY LenProperties DEF Whole, Transcript, Token
  <1>2. /\ Count(o, Open, 1) = 1 /\ Count(o, Close, 1) = 0
        /\ Count(c, Open, 1) = 0 /\ Count(c, Close, 1) = 1
    BY OneTokenCount, BracketsDiffer
  <1>0. w = o \o u /\ d = w \o c
    OBVIOUS
  <1> HIDE DEF o, c, w, d
  <1>3. /\ w \in Transcript /\ Len(w) = 1 + Len(u)
        /\ \A k \in 0..Len(u) : Count(w, Open, 1 + k) = 1 + Count(u, Open, k)
        /\ \A k \in 0..Len(u) : Count(w, Close, 1 + k) = 0 + Count(u, Close, k)
    <2>1. /\ o \o u \in Transcript /\ Len(o \o u) = Len(o) + Len(u)
          /\ Joins(o, u, o \o u, Open) /\ Joins(o, u, o \o u, Close)
      BY <1>1, CountConcat
    <2>2. /\ w \in Transcript /\ Len(w) = Len(o) + Len(u)
          /\ Joins(o, u, w, Open) /\ Joins(o, u, w, Close)
      BY <1>0, <2>1
    <2> QED
      BY <1>1, <1>2, <2>2 DEF Joins
  <1>4. /\ d \in Transcript /\ Len(d) = m + 1
        /\ \A n \in 0..m : Count(d, Open, n) = Count(w, Open, n)
        /\ \A n \in 0..m : Count(d, Close, n) = Count(w, Close, n)
        /\ Count(d, Open, m + 1) = Count(w, Open, m) + 0
        /\ Count(d, Close, m + 1) = Count(w, Close, m) + 1
    <2>1. /\ w \o c \in Transcript /\ Len(w \o c) = Len(w) + Len(c)
          /\ Joins(w, c, w \o c, Open) /\ Joins(w, c, w \o c, Close)
      BY <1>1, <1>3, CountConcat
    <2>2. /\ d \in Transcript /\ Len(d) = Len(w) + Len(c)
          /\ Joins(w, c, d, Open) /\ Joins(w, c, d, Close)
      BY <1>0, <2>1
    <2>3. Len(w) = m /\ 1 \in 0..Len(c)
      BY <1>1, <1>3
    <2> QED
      BY <1>1, <1>2, <2>2, <2>3 DEF Joins
  <1>5. \A n \in Nat : /\ Count(u, Open, n) \in Nat /\ Count(u, Close, n) \in Nat
    BY CountType
  <1>6. Count(u, Open, Len(u)) = Count(u, Close, Len(u))
    BY DEF Whole
  <1>7. \A n \in 1..m : Count(d, Close, n) < Count(d, Open, n)
    <2> TAKE n \in 1..m
    <2>1. n - 1 \in 0..Len(u) /\ 1 + (n - 1) = n /\ n \in 0..m /\ n - 1 \in Nat
      BY <1>1
    <2>2. Count(u, Close, n - 1) <= Count(u, Open, n - 1)
      BY <2>1 DEF Whole
    <2>3. Count(w, Open, n) = 1 + Count(u, Open, n - 1) /\ Count(w, Close, n) = 0 + Count(u, Close, n - 1)
      BY <1>3, <2>1
    <2>4. Count(d, Open, n) = Count(w, Open, n) /\ Count(d, Close, n) = Count(w, Close, n)
      BY <1>4, <2>1
    <2>5. Count(u, Open, n - 1) \in Nat /\ Count(u, Close, n - 1) \in Nat
      BY <1>5, <2>1
    <2> QED
      BY <2>2, <2>3, <2>4, <2>5
  <1>8. Count(d, Open, m + 1) = Count(d, Close, m + 1)
    <2>1. Count(w, Open, m) = 1 + Count(u, Open, Len(u))
          /\ Count(w, Close, m) = 0 + Count(u, Close, Len(u))
      <3>1. Len(u) \in 0..Len(u) /\ 1 + Len(u) = m
        BY <1>1
      <3> QED
        BY <1>3, <3>1
    <2>2. Count(u, Close, Len(u)) \in Nat
      BY <1>1, <1>5
    <2> QED
      BY <1>4, <1>6, <2>1, <2>2
  <1>9. m \in Nat /\ m + 1 \in Nat
    BY <1>1
  <1> HIDE DEF m
  <1>10. Whole(d)
    <2>1. ASSUME NEW n \in 0..(m + 1) PROVE Count(d, Close, n) <= Count(d, Open, n)
      <3>0. Count(d, Close, n) \in Nat /\ Count(d, Open, n) \in Nat
        BY <1>9, CountType
      <3>1. CASE n \in 1..m
        BY <1>7, <3>0, <3>1
      <3>2. CASE n = m + 1
        BY <1>8, <3>0, <3>2
      <3>3. CASE n = 0
        <4>1. Count(d, Close, 0) = 0 /\ Count(d, Open, 0) = 0
          BY UpToType DEF Count
        <4> QED
          BY <3>3, <4>1
      <3> QED
        BY <1>9, <3>1, <3>2, <3>3
    <2> QED
      BY <1>4, <1>8, <2>1 DEF Whole
  <1>11. Items(d) = 1
    <2>1. \A n \in 1..m : n \notin Outside(d)
      <3> TAKE n \in 1..m
      <3>1. n \in Nat /\ Count(d, Close, n) \in Nat /\ Count(d, Open, n) \in Nat
        BY <1>9, CountType
      <3>2. Count(d, Close, n) < Count(d, Open, n)
        BY <1>7
      <3> QED
        BY <3>1, <3>2 DEF Outside
    <2>2. UpTo(Outside(d), m) = 0
      BY <1>9, <2>1, UpToNone
    <2>3. m + 1 \in Outside(d)
      BY <1>8, <1>9 DEF Outside
    <2>4. UpTo(Outside(d), m + 1) = 1
      BY <1>9, <2>2, <2>3, UpToNext
    <2> QED
      BY <1>4, <2>4, ItemsCounted
  <1>12. Keccak(u) = d
    BY <1>0 DEF Keccak, o, c
  <1> QED
    BY <1>10, <1>11, <1>12

-----------------------------------------------------------------------------

(* No bracket at all.                                                      *)
Flat(t) == \A i \in 1..Len(t) : t[i] \notin {Open, Close}

LEMMA FlatConcat ==
    ASSUME NEW t \in Transcript, NEW v \in Transcript, Flat(t), Flat(v)
    PROVE  t \o v \in Transcript /\ Flat(t \o v)
  <1>1. /\ t \o v \in Transcript /\ Len(t \o v) = Len(t) + Len(v)
        /\ Len(t) \in Nat /\ Len(v) \in Nat
        /\ \A i \in 1..Len(t) : (t \o v)[i] = t[i]
        /\ \A i \in 1..Len(v) : (t \o v)[Len(t) + i] = v[i]
    BY ConcatProperties, LenProperties DEF Transcript
  <1>2. \A i \in 1..(Len(t) + Len(v)) :
            i \in 1..Len(t) \/ (i - Len(t) \in 1..Len(v) /\ Len(t) + (i - Len(t)) = i)
    BY <1>1
  <1> QED
    BY <1>1, <1>2 DEF Flat

LEMMA FlatAppend ==
    ASSUME NEW t \in Transcript, Flat(t), NEW tok \in Token, tok \notin {Open, Close}
    PROVE  Append(t, tok) \in Transcript /\ Flat(Append(t, tok))
  <1>1. /\ Append(t, tok) \in Transcript /\ Len(Append(t, tok)) = Len(t) + 1
        /\ Len(t) \in Nat
        /\ \A i \in 1..Len(t) : Append(t, tok)[i] = t[i]
        /\ Append(t, tok)[Len(t) + 1] = tok
    BY AppendProperties, LenProperties DEF Transcript
  <1>2. \A i \in 1..(Len(t) + 1) : i \in 1..Len(t) \/ i = Len(t) + 1
    BY <1>1
  <1> QED
    BY <1>1, <1>2 DEF Flat

LEMMA BytesFlat == ASSUME NEW bytes \in Seq(Byte) PROVE Flat(AsTokens(bytes))
  <1>1. Len(AsTokens(bytes)) = Len(bytes) /\ Len(bytes) \in Nat
    BY LenProperties DEF AsTokens
  <1>2. \A i \in 1..Len(bytes) : AsTokens(bytes)[i] = <<"byte", bytes[i]>>
    BY DEF AsTokens
  <1>3. \A b : <<"byte", b>> \notin {Open, Close}
    BY DEF Open, Close
  <1> QED
    BY <1>1, <1>2, <1>3 DEF Flat

(* What a digest is the digest of.                                         *)
LEMMA KeccakInverse ==
    ASSUME NEW t \in Transcript
    PROVE  Len(Keccak(t)) = Len(t) + 2 /\ SubSeq(Keccak(t), 2, Len(Keccak(t)) - 1) = t
  <1> DEFINE d == Keccak(t)
  <1>1. /\ <<Open>> \o t \in Transcript /\ Len(<<Open>> \o t) = 1 + Len(t) /\ Len(t) \in Nat
        /\ \A i \in 1..Len(t) : (<<Open>> \o t)[1 + i] = t[i]
    <2>1. <<Open>> \in Seq(Token) /\ Len(<<Open>>) = 1
      BY DEF Token
    <2> QED
      BY <2>1, ConcatProperties, LenProperties DEF Transcript
  <1>2. /\ d \in Transcript /\ Len(d) = Len(t) + 2
        /\ \A i \in 1..(1 + Len(t)) : d[i] = (<<Open>> \o t)[i]
    <2>1. <<Close>> \in Seq(Token) /\ Len(<<Close>>) = 1
      BY DEF Token
    <2> QED
      BY <1>1, <2>1, ConcatProperties, LenProperties DEF Transcript, Keccak
  <1> HIDE DEF d
  <1>3. \A i \in 1..Len(t) : d[i + 1] = t[i]
    BY <1>1, <1>2
  <1> DEFINE inner == SubSeq(d, 2, Len(d) - 1)
  <1>4. inner = [i \in 1..Len(t) |-> d[i + 1]]
    BY <1>1, <1>2
  <1>5. t = [i \in 1..Len(t) |-> t[i]]
    BY LenProperties DEF Transcript
  <1> HIDE DEF inner
  <1>6. inner = t
    BY <1>3, <1>4, <1>5
  <1> QED
    BY <1>2, <1>6 DEF inner, d

-----------------------------------------------------------------------------

(* Open arrays of the fields before the n-th of the path.                  *)
Inner(open, n) == {i \in Nat : open[i].path_index < n - 1}

Before(open, n) == UpTo(Inner(open, n), Len(open))

LEMMA BeforeBounds ==
    ASSUME NEW open \in Seq(ArrayDepth), NEW n \in Nat, NEW m \in Nat, n <= m
    PROVE  Before(open, n) \in Nat /\ Before(open, n) <= Before(open, m)
           /\ Before(open, m) <= Len(open)
  <1>1. Len(open) \in Nat /\ \A i \in 1..Len(open) : i \in Nat /\ open[i].path_index \in Nat
    BY LenProperties, PathIndex
  <1>2. \A i \in 1..Len(open) : i \in Inner(open, n) => i \in Inner(open, m)
    BY <1>1 DEF Inner
  <1> QED
    BY <1>1, <1>2, UpToType, UpToWithin DEF Before

LEMMA BeforeCounts ==
    ASSUME NEW open \in Seq(ArrayDepth), NEW n \in Nat
    PROVE  Before(open, n) = Cardinality({i \in 1..Len(open) : open[i].path_index < n - 1})
  <1>1. Len(open) \in Nat
    BY LenProperties
  <1>2. {i \in 1..Len(open) : open[i].path_index < n - 1} = Inner(open, n) \cap (1..Len(open))
    BY <1>1 DEF Inner
  <1> QED
    BY <1>2 DEF Before, UpTo

LEMMA BeforeAll ==
    ASSUME NEW open \in Seq(ArrayDepth), NEW n \in Nat,
           \A i \in 1..Len(open) : open[i].path_index < n - 1
    PROVE  Before(open, n) = Len(open)
  <1>1. Len(open) \in Nat /\ \A i \in 1..Len(open) : i \in Inner(open, n)
    BY LenProperties DEF Inner
  <1> QED
    BY <1>1, UpToAll DEF Before

LEMMA BeforeFirst ==
    ASSUME NEW open \in Seq(ArrayDepth)
    PROVE  Before(open, 1) = 0
  <1>1. Len(open) \in Nat /\ \A i \in 1..Len(open) : i \in Nat /\ open[i].path_index \in Nat
    BY LenProperties, PathIndex
  <1>2. \A i \in 1..Len(open) : i \notin Inner(open, 1)
    BY <1>1 DEF Inner
  <1> QED
    BY <1>1, <1>2, UpToNone DEF Before

LEMMA BeforeResized ==
    ASSUME NEW open \in Seq(ArrayDepth), NEW sized, NEW n \in Nat, Len(sized) = Len(open),
           \A i \in 1..Len(open) : sized[i].path_index = open[i].path_index
    PROVE  Before(sized, n) = Before(open, n)
  <1>1. Len(open) \in Nat /\ \A i \in 1..Len(open) : i \in Inner(sized, n) <=> i \in Inner(open, n)
    BY LenProperties DEF Inner
  <1> QED
    BY <1>1, UpToAgree DEF Before

LEMMA BeforeMore ==
    ASSUME NEW open \in Seq(ArrayDepth), NEW new \in ArrayDepth, NEW n \in Nat
    PROVE  Before(Append(open, new), n)
               = Before(open, n) + (IF new.path_index < n - 1 THEN 1 ELSE 0)
  <1> DEFINE more == Append(open, new)
  <1>1. /\ Len(more) = Len(open) + 1 /\ Len(open) \in Nat
        /\ \A i \in 1..Len(open) : more[i] = open[i]
        /\ more[Len(open) + 1] = new
    BY AppendProperties, LenProperties
  <1> HIDE DEF more
  <1>2. UpTo(Inner(more, n), Len(open)) = UpTo(Inner(open, n), Len(open))
    <2>1. \A i \in 1..Len(open) : i \in Inner(more, n) <=> i \in Inner(open, n)
      BY <1>1 DEF Inner
    <2> QED
      BY <1>1, <2>1, UpToAgree
  <1>3. Len(open) + 1 \in Inner(more, n) <=> new.path_index < n - 1
    BY <1>1 DEF Inner
  <1>4. Before(more, n) = Before(open, n) + (IF new.path_index < n - 1 THEN 1 ELSE 0)
    BY <1>1, <1>2, <1>3, UpToNext DEF Before
  <1> QED
    BY <1>4 DEF more

LEMMA BeforeFewer ==
    ASSUME NEW open \in Seq(ArrayDepth), open # << >>, NEW n \in Nat,
           ~(open[Len(open)].path_index < n - 1)
    PROVE  Before(Popped(open), n) = Before(open, n)
  <1> DEFINE last == Len(open) - 1
  <1>1. /\ Len(Popped(open)) = last /\ last \in Nat /\ last + 1 = Len(open)
        /\ \A i \in 1..last : Popped(open)[i] = open[i]
    BY PoppedType, EmptySeq, LenProperties
  <1> HIDE DEF last
  <1>2. UpTo(Inner(Popped(open), n), last) = UpTo(Inner(open, n), last)
    <2>1. \A i \in 1..last : i \in Inner(Popped(open), n) <=> i \in Inner(open, n)
      BY <1>1 DEF Inner
    <2> QED
      BY <1>1, <2>1, UpToAgree
  <1>3. last + 1 \notin Inner(open, n)
    BY <1>1 DEF Inner
  <1>4. UpTo(Inner(open, n), last + 1) = UpTo(Inner(open, n), last) + 0
    BY <1>1, <1>3, UpToNext
  <1>5. UpTo(Inner(open, n), last) \in Nat
    BY <1>1, UpToType
  <1> QED
    BY <1>1, <1>2, <1>4, <1>5 DEF Before

LEMMA BeforeNotAll ==
    ASSUME NEW open \in Seq(ArrayDepth), open # << >>, NEW n \in Nat,
           ~(open[Len(open)].path_index < n - 1)
    PROVE  Before(open, n) < Len(open)
  <1>1. /\ Popped(open) \in Seq(ArrayDepth) /\ Len(Popped(open)) = Len(open) - 1
        /\ Len(open) \in Nat
    BY PoppedType, LenProperties
  <1>2. Before(Popped(open), n) = Before(open, n)
    BY BeforeFewer
  <1>3. n <= n
    OBVIOUS
  <1>4. Before(Popped(open), n) <= Len(Popped(open)) /\ Before(Popped(open), n) \in Nat
    BY <1>1, <1>3, BeforeBounds
  <1> QED
    BY <1>1, <1>2, <1>4

-----------------------------------------------------------------------------

(* Context c was started on the type hash of struct s and holds k items.   *)
Holds(c, s, k) ==
    /\ Whole(c.absorbed)
    /\ c.absorbed # << >>
    /\ SubSeq(c.absorbed[1], 1, 2) = <<"type", s>>
    /\ Items(c.absorbed) = k

LEMMA WholeType == ASSUME NEW t, Whole(t) PROVE t \in Transcript /\ Len(t) \in Nat
  BY LenProperties DEF Whole, Transcript

LEMMA HoldsMore ==
    ASSUME NEW c, NEW s, NEW k, Holds(c, s, k), NEW v, Whole(v), Items(v) = 1
    PROVE  Holds(Ctx(c.absorbed \o v), s, k + 1)
  <1> DEFINE t == c.absorbed
             w == t \o v
  <1>1. Whole(w) /\ Items(w) = k + 1
    BY WholeConcat DEF Holds
  <1>2. /\ t \in Seq(Token) /\ v \in Seq(Token) /\ t # << >>
        /\ SubSeq(t[1], 1, 2) = <<"type", s>>
    BY WholeType DEF Holds, Transcript
  <1> HIDE DEF t
  <1>3. w # << >> /\ w[1] = t[1]
    <2>1. Len(t) \in Nat /\ Len(t) > 0 /\ Len(v) \in Nat
      BY <1>2, EmptySeq, LenProperties
    <2>2. Len(w) = Len(t) + Len(v) /\ 1 \in 1..Len(t) /\ \A i \in 1..Len(t) : w[i] = t[i]
      BY <1>2, <2>1, ConcatProperties
    <2>3. Len(w) # 0
      BY <2>1, <2>2
    <2> HIDE DEF w
    <2> QED
      BY <2>2, <2>3
  <1> HIDE DEF w
  <1>4. Ctx(w).absorbed = w
    BY DEF Ctx
  <1>5. Holds(Ctx(w), s, k + 1)
    BY <1>1, <1>2, <1>3, <1>4 DEF Holds
  <1> QED
    BY <1>5 DEF w, t

LEMMA FirstTwo ==
    ASSUME NEW a, NEW b, NEW c
    PROVE  SubSeq(<<a, b, c>>, 1, 2) = <<a, b>>
  <1>1. SubSeq(<<a, b, c>>, 1, 2) = [i \in 1..2 |-> <<a, b, c>>[i]]
    OBVIOUS
  <1>2. <<a, b>> = [i \in 1..2 |-> <<a, b, c>>[i]]
    OBVIOUS
  <1> QED
    BY <1>1, <1>2

LEMMA HoldsNew ==
    ASSUME NEW s \in StructNames, NEW idx
    PROVE  Whole(<<type_hash(s, idx)>>) /\ Holds(Ctx(<<type_hash(s, idx)>>), s, 1)
  <1> DEFINE tok == type_hash(s, idx)
  <1>1. tok \in Token /\ tok \notin {Open, Close}
    BY DEF type_hash, KeptDeps, Token, Open, Close
  <1>2. Whole(<<tok>>) /\ Items(<<tok>>) = 1
    BY <1>1, TokenWhole
  <1>3. SubSeq(tok, 1, 2) = <<"type", s>>
    BY FirstTwo DEF type_hash
  <1> HIDE DEF tok
  <1>4. <<tok>> # << >> /\ <<tok>>[1] = tok /\ Ctx(<<tok>>).absorbed = <<tok>>
    BY DEF Ctx
  <1>5. Whole(<<tok>>) /\ Holds(Ctx(<<tok>>), s, 1)
    BY <1>2, <1>3, <1>4 DEF Holds
  <1> QED
    BY <1>5 DEF tok

(* The contexts of stack h above b have absorbed whole items.              *)
WholeAbove(h, b) == \A i \in (b + 1)..Len(h) : Whole(h[i].absorbed)

(* As far as q, g is h but for v, which its q-th context absorbed.         *)
AbsorbedAt(g, h, q, v) ==
    /\ g[q] = Ctx(h[q].absorbed \o v)
    /\ \A i \in 1..(q - 1) : g[i] = h[i]

LEMMA AbsorbedWhole ==
    ASSUME NEW h \in Seq(Chunk), NEW b \in Nat, b < Len(h), WholeAbove(h, b), NEW v, Whole(v)
    PROVE  WholeAbove(Absorbed(h, v), b) /\ AbsorbedAt(Absorbed(h, v), h, Len(h), v)
  <1> DEFINE g == Absorbed(h, v)
             top == Ctx(h[Len(h)].absorbed \o v)
  <1>1. Len(h) \in Nat /\ Len(h) \in 1..Len(h) /\ Len(h) \in (b + 1)..Len(h)
    BY LenProperties
  <1>2. /\ Len(g) = Len(h) /\ g[Len(h)] = top
        /\ \A i \in 1..(Len(h) - 1) : g[i] = h[i]
    BY <1>1, LenProperties DEF Absorbed
  <1>3. Whole(top.absorbed)
    <2>1. Whole(h[Len(h)].absorbed)
      BY <1>1 DEF WholeAbove
    <2>2. Whole(h[Len(h)].absorbed \o v)
      BY <2>1, WholeConcat
    <2> QED
      BY <2>2 DEF Ctx
  <1> HIDE DEF g, top
  <1>4. \A i \in (b + 1)..Len(h) : i = Len(h) \/ i \in 1..(Len(h) - 1)
    BY <1>1
  <1>5. WholeAbove(g, b)
    BY <1>2, <1>3, <1>4 DEF WholeAbove
  <1>6. AbsorbedAt(g, h, Len(h), v)
    BY <1>2 DEF AbsorbedAt, top
  <1> QED
    BY <1>5, <1>6 DEF g

LEMMA PoppedWhole ==
    ASSUME NEW h \in Seq(Chunk), h # << >>, NEW b \in Nat, WholeAbove(h, b)
    PROVE  /\ WholeAbove(Popped(h), b)
           /\ Popped(h) \in Seq(Chunk) /\ Len(Popped(h)) = Len(h) - 1 /\ Len(h) \in Nat
           /\ \A i \in 1..(Len(h) - 1) : Popped(h)[i] = h[i]
  <1>1. /\ Len(h) \in Nat /\ Popped(h) \in Seq(Chunk) /\ Len(Popped(h)) = Len(h) - 1
        /\ \A i \in 1..(Len(h) - 1) : Popped(h)[i] = h[i]
    BY PoppedType, LenProperties
  <1>2. \A i \in (b + 1)..(Len(h) - 1) : i \in 1..(Len(h) - 1) /\ i \in (b + 1)..Len(h)
    BY <1>1
  <1>3. WholeAbove(Popped(h), b)
    BY <1>1, <1>2 DEF WholeAbove
  <1> QED
    BY <1>1, <1>3

(* The hash of the topmost context goes into the one below.                *)
LEMMA FoldedWhole ==
    ASSUME NEW h \in Seq(Chunk), NEW b \in Nat, b + 1 < Len(h), WholeAbove(h, b),
           NEW v, v = Keccak(h[Len(h)].absorbed)
    PROVE  /\ Whole(v) /\ Items(v) = 1
           /\ WholeAbove(Absorbed(Popped(h), v), b)
           /\ AbsorbedAt(Absorbed(Popped(h), v), h, Len(h) - 1, v)
  <1> DEFINE rest == Popped(h)
             g == Absorbed(rest, v)
             q == Len(h) - 1
  <1>1. Len(h) \in Nat /\ Len(h) \in (b + 1)..Len(h) /\ h # << >> /\ q \in Nat /\ b < q
    BY EmptySeq, LenProperties
  <1>2. Whole(v) /\ Items(v) = 1
    <2>1. Whole(h[Len(h)].absorbed)
      BY <1>1 DEF WholeAbove
    <2> QED
      BY <2>1, DigestWhole
  <1>3. /\ WholeAbove(rest, b) /\ rest \in Seq(Chunk) /\ Len(rest) = q
        /\ \A i \in 1..q : rest[i] = h[i]
    BY <1>1, PoppedWhole
  <1> HIDE DEF rest, q
  <1>4. WholeAbove(g, b) /\ AbsorbedAt(g, rest, Len(rest), v)
    BY <1>1, <1>2, <1>3, AbsorbedWhole
  <1> HIDE DEF g
  <1>5. AbsorbedAt(g, h, q, v)
    <2>1. q \in 1..q /\ \A i \in 1..(q - 1) : i \in 1..q
      BY <1>1
    <2>2. AbsorbedAt(g, rest, q, v)
      BY <1>3, <1>4
    <2> QED
      BY <1>3, <2>1, <2>2 DEF AbsorbedAt
  <1> QED
    BY <1>2, <1>4, <1>5 DEF g, rest, q

LEMMA AppendedWhole ==
    ASSUME NEW h \in Seq(Chunk), NEW b \in Nat, WholeAbove(h, b), NEW c \in Chunk,
           Whole(c.absorbed)
    PROVE  /\ WholeAbove(Append(h, c), b)
           /\ Len(Append(h, c)) = Len(h) + 1 /\ Len(h) \in Nat
           /\ Append(h, c)[Len(h) + 1] = c
           /\ \A i \in 1..Len(h) : Append(h, c)[i] = h[i]
  <1>1. /\ Len(Append(h, c)) = Len(h) + 1 /\ Len(h) \in Nat
        /\ Append(h, c)[Len(h) + 1] = c
        /\ \A i \in 1..Len(h) : Append(h, c)[i] = h[i]
    BY AppendProperties, LenProperties
  <1>2. \A i \in (b + 1)..(Len(h) + 1) :
            i = Len(h) + 1 \/ (i \in 1..Len(h) /\ i \in (b + 1)..Len(h))
    BY <1>1
  <1>3. WholeAbove(Append(h, c), b)
    BY <1>1, <1>2 DEF WholeAbove
  <1> QED
    BY <1>1, <1>3

-----------------------------------------------------------------------------

(* A value or a digest has gone into the context of the last struct of the *)
(* path, which is on top, and the path has not moved on yet.               *)
PendingAt(n) ==
    IF /\ ctl \in {"array", "struct"}
       /\ n = depth_count
       /\ Before(arrays, n) = array_depth_count
    THEN 1 ELSE 0

Place(n) == base + n + Before(arrays, n)

(* The n-th struct of the path has its context in its place, which holds   *)
(* the type hash and the members before the current one.                   *)
Mirrors(n) == Holds(heap[Place(n)], StructAt(n), 1 + depths[n] + PendingAt(n))

(* Nothing in memory but whole items, and no digest in global_sha3.        *)
WholeInv == Flat(global_sha3) /\ (Sound => WholeAbove(heap, base))

(* The array of a struct is opened with the path on a member of that       *)
(* struct.                                                                 *)
InPlace ==
    ~dropped /\ Len(arrays') > Len(arrays) =>
        LET p == arrays'[Len(arrays')].path_index
        IN  IS_CUSTOM(get_nth_field_from_path(p + 1)) => p = depth_count - 2

(* Where a step leads: what holds of a struct still does, of the root      *)
(* whatever array is opened.                                               *)
Carries ==
    Sound' => \A n \in 1..depth_count' :
                  (n = 1 \/ InPlace) /\ (n <= depth_count => Mirrors(n)) => Mirrors(n)'

-----------------------------------------------------------------------------

LEMMA IndexNumber == ASSUME IInv PROVE \A n \in 1..depth_count : depths[n] \in Nat
  <1>1. \A n \in 1..depth_count : depths[n] \in 0..255
    BY PathTypes
  <1> QED
    BY <1>1, ByteValue

(* The places of the contexts, bottom up.                                  *)
LEMMA PlacesOrdered ==
    ASSUME IInv, PathInv, Sound
    PROVE  /\ Len(heap) = base + depth_count + array_depth_count
           /\ base \in Nat /\ depth_count \in Nat /\ array_depth_count \in Nat
           /\ arrays \in Seq(ArrayDepth) /\ heap \in Seq(Chunk)
           /\ \A n \in 1..depth_count :
                  /\ Before(arrays, n) \in Nat /\ Before(arrays, n) <= array_depth_count
                  /\ n # depth_count => Place(n) < Place(depth_count)
                  /\ Place(n) \in 1..Len(heap)
  <1>1. /\ Len(heap) = base + depth_count + array_depth_count
        /\ base \in Nat /\ depth_count \in Nat /\ array_depth_count \in Nat
        /\ arrays \in Seq(ArrayDepth) /\ heap \in Seq(Chunk)
    BY PathTypes DEF IInv, TypeOK, Balanced, Sound
  <1>2. ASSUME NEW n \in 1..depth_count
        PROVE  /\ Before(arrays, n) \in Nat /\ Before(arrays, n) <= array_depth_count
               /\ n # depth_count => Place(n) < Place(depth_count)
               /\ Place(n) \in 1..Len(heap)
    <2>1. n \in Nat /\ n <= depth_count
      BY <1>1
    <2>2. /\ Before(arrays, n) \in Nat /\ Before(arrays, depth_count) \in Nat
          /\ Before(arrays, n) <= Before(arrays, depth_count)
          /\ Before(arrays, depth_count) <= array_depth_count
      BY <1>1, <2>1, BeforeBounds DEF array_depth_count
    <2> QED
      BY <1>1, <2>1, <2>2 DEF Place
  <1> QED
    BY <1>1, <1>2

(* What holds of the n-th struct holds after a step that leaves the path   *)
(* as far as it and its context where they are.                            *)
LEMMA StillMirrors ==
    ASSUME NEW n \in Nat \ {0}, UNCHANGED <<root, base>>,
           \A k \in 1..(n - 1) : depths'[k] = depths[k],
           Before(arrays', n) = Before(arrays, n), heap'[Place(n)] = heap[Place(n)],
           1 + depths'[n] + PendingAt(n)' = 1 + depths[n] + PendingAt(n), Mirrors(n)
    PROVE  Mirrors(n)'
  <1>1. n - 1 \in Nat /\ n - 1 \in 0..(n - 1)
    OBVIOUS
  <1>2. StructAt(n)' = StructAt(n)
    BY <1>1, PrefixKept DEF StructAt
  <1>3. Place(n)' = Place(n)
    BY DEF Place
  <1> QED
    BY <1>2, <1>3 DEF Mirrors

(* ... and after one that adds an item to it.                              *)
LEMMA MirrorsMore ==
    ASSUME NEW n \in Nat \ {0}, UNCHANGED <<root, base>>,
           \A k \in 1..(n - 1) : depths'[k] = depths[k],
           Before(arrays', n) = Before(arrays, n),
           NEW v, heap'[Place(n)] = Ctx(heap[Place(n)].absorbed \o v), Whole(v), Items(v) = 1,
           1 + depths'[n] + PendingAt(n)' = (1 + depths[n] + PendingAt(n)) + 1, Mirrors(n)
    PROVE  Mirrors(n)'
  <1>1. n - 1 \in Nat /\ n - 1 \in 0..(n - 1)
    OBVIOUS
  <1>2. StructAt(n)' = StructAt(n)
    BY <1>1, PrefixKept DEF StructAt
  <1>3. Place(n)' = Place(n)
    BY DEF Place
  <1>4. Holds(Ctx(heap[Place(n)].absorbed \o v), StructAt(n),
              (1 + depths[n] + PendingAt(n)) + 1)
    BY HoldsMore DEF Mirrors
  <1> QED
    BY <1>2, <1>3, <1>4 DEF Mirrors

(* Steps that leave the contexts as they are.                              *)
LEMMA QuietCarries ==
    ASSUME IInv, PathInv, WholeInv, UNCHANGED <<root, base, depths, heap>>,
           Flat(global_sha3'), Sound' => Sound,
           Sound => \A n \in 1..depth_count : /\ Before(arrays', n) = Before(arrays, n)
                                              /\ PendingAt(n)' = PendingAt(n)
    PROVE  WholeInv' /\ Carries
  <1>1. WholeInv'
    BY DEF WholeInv
  <1>2. Carries
    <2> SUFFICES ASSUME Sound', NEW n \in 1..depth_count', n <= depth_count => Mirrors(n)
                 PROVE  Mirrors(n)'
      BY DEF Carries
    <2>1. Sound /\ depth_count' = depth_count /\ depth_count \in Nat
      BY PathTypes DEF depth_count
    <2>2. n \in 1..depth_count /\ n \in Nat \ {0} /\ Mirrors(n)
      BY <2>1
    <2> QED
      BY <2>1, <2>2, StillMirrors
  <1> QED
    BY <1>1, <1>2

(* Steps that end in a failure.                                            *)
LEMMA UnsoundCarries ==
    ASSUME ~Sound', Flat(global_sha3')
    PROVE  WholeInv' /\ Carries
  BY DEF WholeInv, Carries

LEMMA StrayCarries ==
    ASSUME WholeInv, NEW what \in {"stray_field", "stray_ctx", "stray_mem"}, Stray(what)
    PROVE  WholeInv' /\ Carries
  BY UnsoundCarries DEF Stray, WholeInv, Sound, memVars

(* Steps after which the context on top, the q-th, has one item more.      *)
LEMMA AbsorbingCarries ==
    ASSUME UNCHANGED <<root, base>>, ctl' = "array",
           base \in Nat, depth_count' \in Nat, array_depth_count' \in Nat,
           NEW q \in Nat, q = base + depth_count' + array_depth_count',
           \A n \in 1..depth_count' :
               /\ n <= depth_count
               /\ depths'[n] = depths[n] /\ depths[n] \in Nat
               /\ Before(arrays', n) = Before(arrays, n)
               /\ Before(arrays, n) \in Nat /\ Before(arrays, n) <= array_depth_count'
               /\ PendingAt(n) = 0,
           NEW v, Whole(v), Items(v) = 1, AbsorbedAt(heap', heap, q, v)
    PROVE  Carries
  <1> SUFFICES ASSUME NEW n \in 1..depth_count', Mirrors(n)
               PROVE  Mirrors(n)'
    BY DEF Carries
  <1>1. /\ n \in Nat \ {0} /\ n <= depth_count'
        /\ depths'[n] = depths[n] /\ depths[n] \in Nat
        /\ Before(arrays', n) = Before(arrays, n)
        /\ Before(arrays, n) \in Nat /\ Before(arrays, n) <= array_depth_count'
        /\ PendingAt(n) = 0
    OBVIOUS
  <1>2. \A k \in 1..(n - 1) : depths'[k] = depths[k]
    <2>1. \A k \in 1..(n - 1) : k \in 1..depth_count'
      OBVIOUS
    <2> QED
      BY <2>1
  <1>3. PendingAt(n)' = IF n = depth_count' /\ Before(arrays, n) = array_depth_count'
                        THEN 1 ELSE 0
    BY <1>1 DEF PendingAt
  <1>4. CASE n = depth_count' /\ Before(arrays, n) = array_depth_count'
    <2>1. Place(n) = q
      BY <1>1, <1>4 DEF Place
    <2>2. 1 + depths'[n] + PendingAt(n)' = (1 + depths[n] + PendingAt(n)) + 1
      BY <1>1, <1>3, <1>4
    <2> QED
      BY <1>1, <1>2, <2>1, <2>2, MirrorsMore DEF AbsorbedAt
  <1>5. CASE ~(n = depth_count' /\ Before(arrays, n) = array_depth_count')
    <2>1. Place(n) \in 1..(q - 1)
      BY <1>1, <1>5 DEF Place
    <2>2. 1 + depths'[n] + PendingAt(n)' = 1 + depths[n] + PendingAt(n)
      BY <1>1, <1>3, <1>5
    <2> QED
      BY <1>1, <1>2, <2>1, <2>2, StillMirrors DEF AbsorbedAt
  <1> QED
    BY <1>4, <1>5

-----------------------------------------------------------------------------

LEMMA NextElementStack ==
    ASSUME IInv, PathInv, WholeInv, NextElement, UNCHANGED fh
    PROVE  WholeInv' /\ Carries
  <1>1. /\ status = "run" /\ ctl = "array" /\ ctl' = "update"
        /\ UNCHANGED <<status, root, base, depths, dropped, heap, global_sha3>>
        /\ arrays' = [arrays EXCEPT ![array_depth_count].size = ElementsLeft]
        /\ array_depth_count > 0
        /\ arrays[array_depth_count].path_index = depth_count - 1
    BY DEF NextElement, InArray, Running, memVars
  <1>2. arrays \in Seq(ArrayDepth) /\ array_depth_count \in Nat /\ depth_count \in Nat
    BY PathTypes
  <1>3. /\ Len(arrays') = Len(arrays)
        /\ \A i \in 1..Len(arrays) : arrays'[i].path_index = arrays[i].path_index
    <2>1. array_depth_count \in 1..Len(arrays)
      BY <1>1, <1>2 DEF array_depth_count
    <2>2. arrays[array_depth_count] \in ArrayDepth
      BY <1>2, <2>1, ElementOfSeq
    <2> QED
      BY <1>1, <1>2, <2>1, <2>2, ExceptSeq DEF ArrayDepth
  <1>4. ASSUME NEW n \in 1..depth_count
        PROVE  Before(arrays', n) = Before(arrays, n) /\ PendingAt(n)' = PendingAt(n)
    <2>1. n \in Nat /\ arrays # << >>
      BY <1>1, <1>2, EmptySeq DEF array_depth_count
    <2>2. Before(arrays', n) = Before(arrays, n)
      BY <1>2, <1>3, <2>1, BeforeResized
    <2>3. ASSUME n = depth_count PROVE Before(arrays, n) < array_depth_count
      BY <1>1, <1>2, <2>1, <2>3, BeforeNotAll DEF array_depth_count
    <2>4. PendingAt(n) = 0
      BY <1>2, <2>1, <2>3, BeforeBounds DEF PendingAt
    <2>5. PendingAt(n)' = 0
      BY <1>1 DEF PendingAt
    <2> QED
      BY <2>2, <2>4, <2>5
  <1>5. Flat(global_sha3') /\ (Sound' => Sound)
    BY <1>1 DEF WholeInv, Sound
  <1> QED
    BY <1>1, <1>4, <1>5, QuietCarries

LEMMA EndArrayStack ==
    ASSUME IInv, PathInv, WholeInv, EndArray, UNCHANGED fh
    PROVE  WholeInv' /\ Carries
  <1>1. CASE ~TopAreContexts(2)
    BY <1>1, StrayCarries DEF EndArray, array_depth_list_pop
  <1>2. CASE TopAreContexts(2)
    <2> DEFINE v == Keccak(Top.absorbed)
               q == Len(heap) - 1
    <2>1. /\ status = "run" /\ ctl = "array" /\ ctl' = "array"
          /\ UNCHANGED <<status, root, base, depths, dropped, global_sha3>>
          /\ arrays' = Popped(arrays)
          /\ heap' = Absorbed(Popped(heap), v)
          /\ array_depth_count > 0
          /\ arrays[array_depth_count].path_index = depth_count - 1
      BY <1>2 DEF EndArray, array_depth_list_pop, Running, InArray
    <2>2. CASE ~Sound
      BY <2>1, <2>2, UnsoundCarries DEF WholeInv, Sound
    <2>3. CASE Sound
      <3>1. /\ Len(heap) = base + depth_count + array_depth_count
            /\ base \in Nat /\ depth_count \in Nat /\ array_depth_count \in Nat
            /\ arrays \in Seq(ArrayDepth) /\ heap \in Seq(Chunk)
            /\ \A n \in 1..depth_count :
                   Before(arrays, n) \in Nat /\ Before(arrays, n) <= array_depth_count
        BY <2>3, PlacesOrdered
      <3>2. arrays # << >> /\ depth_count \in Nat \ {0}
        <4>1. arrays # << >> /\ Len(arrays) \in 1..Len(arrays)
          BY <2>1, <3>1, EmptySeq DEF array_depth_count
        <4>2. arrays[array_depth_count].path_index \in Nat
          BY <3>1, <4>1, PathIndex DEF array_depth_count
        <4> QED
          BY <2>1, <3>1, <4>1, <4>2
      <3>3. q \in Nat /\ base + 1 < Len(heap)
            /\ q = base + depth_count + (array_depth_count - 1)
        <4>1. /\ base \in Nat /\ depth_count \in Nat \ {0}
              /\ array_depth_count \in Nat /\ array_depth_count > 0
              /\ Len(heap) = base + depth_count + array_depth_count
          BY <2>1, <3>1, <3>2
        <4> QED
          BY <4>1
      <3>4. WholeAbove(heap, base) /\ v = Keccak(heap[Len(heap)].absorbed)
        BY <2>3 DEF WholeInv, Top
      <3> HIDE DEF v
      <3>5. /\ Whole(v) /\ Items(v) = 1
            /\ WholeAbove(heap', base) /\ AbsorbedAt(heap', heap, q, v)
        BY <2>1, <3>1, <3>3, <3>4, FoldedWhole
      <3> HIDE DEF q
      <3>8. /\ depth_count' = depth_count /\ array_depth_count' = array_depth_count - 1
            /\ array_depth_count' \in Nat
        BY <2>1, <3>1, <3>2, PoppedType DEF depth_count, array_depth_count
      <3>9. ASSUME NEW n \in 1..depth_count
            PROVE  /\ n <= depth_count
                   /\ depths'[n] = depths[n] /\ depths[n] \in Nat
                   /\ Before(arrays', n) = Before(arrays, n)
                   /\ Before(arrays, n) \in Nat /\ Before(arrays, n) <= array_depth_count'
                   /\ PendingAt(n) = 0
        <4>1. n \in Nat /\ n <= depth_count /\ ~(depth_count - 1 < n - 1)
          BY <3>1
        <4>2. ~(arrays[Len(arrays)].path_index < n - 1)
          BY <2>1, <4>1 DEF array_depth_count
        <4>3. Before(arrays', n) = Before(arrays, n) /\ Before(arrays, n) < array_depth_count
          BY <2>1, <3>1, <3>2, <4>1, <4>2, BeforeFewer, BeforeNotAll DEF array_depth_count
        <4>4. Before(arrays, n) \in Nat
          BY <3>1
        <4>5. PendingAt(n) = 0
          BY <3>1, <4>3, <4>4 DEF PendingAt
        <4>6. depths[n] \in Nat
          BY IndexNumber
        <4> QED
          BY <2>1, <3>1, <3>8, <4>1, <4>3, <4>4, <4>5, <4>6
      <3>10. Carries
        BY <2>1, <3>1, <3>3, <3>5, <3>8, <3>9, AbsorbingCarries
      <3>11. WholeInv'
        BY <2>1, <3>5 DEF WholeInv
      <3> QED
        BY <3>10, <3>11
    <2> QED
      BY <2>2, <2>3
  <1> QED
    BY <1>1, <1>2

LEMMA LeaveArraysStack ==
    ASSUME IInv, PathInv, WholeInv, LeaveArrays, UNCHANGED fh
    PROVE  WholeInv' /\ Carries
  <1>1. /\ ctl = "array" /\ ctl' = "struct"
        /\ UNCHANGED <<status, root, base, depths, arrays, dropped, heap, global_sha3>>
    BY DEF LeaveArrays, Running, memVars, pathVars
  <1>2. \A n \in 1..depth_count : /\ Before(arrays', n) = Before(arrays, n)
                                  /\ PendingAt(n)' = PendingAt(n)
    BY <1>1 DEF PendingAt, depth_count, array_depth_count
  <1>3. Flat(global_sha3') /\ (Sound' => Sound)
    BY <1>1 DEF WholeInv, Sound
  <1> QED
    BY <1>1, <1>2, <1>3, QuietCarries

(* path_advance_in_struct() on a path that is not empty.                   *)
LEMMA InStruct ==
    ASSUME IInv, PathInv, Sound, ctl = "struct"
    PROVE  /\ Before(arrays, depth_count) = array_depth_count
           /\ depth_count > 0 => OnField
  <1>1. Stands(Walk, depths, depth_count) /\ Spans(LevelsUpTo, arrays, depth_count - 1)
    BY StandsNow DEF Sound
  <1>2. arrays \in Seq(ArrayDepth) /\ depth_count \in Nat
    BY PathTypes
  <1>3. \A i \in 1..Len(arrays) : arrays[i].path_index < depth_count - 1
    BY <1>1 DEF Spans
  <1>4. Before(arrays, depth_count) = array_depth_count
    BY <1>2, <1>3, BeforeAll DEF array_depth_count
  <1> QED
    BY <1>1, <1>4, FieldHere DEF OnField

LEMMA NextMemberStack ==
    ASSUME IInv, PathInv, WholeInv, NextMember, UNCHANGED fh
    PROVE  WholeInv' /\ Carries
  <1>1. /\ status = "run" /\ ctl = "struct" /\ ctl' = "update"
        /\ UNCHANGED <<status, root, base, arrays, dropped, heap, global_sha3>>
    BY DEF NextMember, Running, memVars
  <1>2. WholeInv'
    BY <1>1 DEF WholeInv, Sound
  <1>3. Carries
    <2> SUFFICES ASSUME Sound', NEW n \in 1..depth_count', n <= depth_count => Mirrors(n)
                 PROVE  Mirrors(n)'
      BY DEF Carries
    <2>1. Sound /\ ~dropped
      BY <1>1 DEF Sound
    <2>2. /\ depth_count' = depth_count /\ depth_count \in Nat \ {0}
          /\ \A k \in 1..(depth_count - 1) : depths'[k] = depths[k]
          /\ depths'[depth_count] = depths[depth_count] + 1
      BY <2>1, NextMemberIndex
    <2>3. n \in 1..depth_count /\ n \in Nat \ {0} /\ Mirrors(n)
      BY <2>2
    <2>4. \A k \in 1..(n - 1) : depths'[k] = depths[k]
      BY <2>2, <2>3
    <2>5. PendingAt(n)' = 0 /\ PendingAt(n) = IF n = depth_count THEN 1 ELSE 0
      BY <1>1, <2>1, InStruct DEF PendingAt
    <2>6. depths[n] \in Nat
      BY <2>3, IndexNumber
    <2>7. 1 + depths'[n] + PendingAt(n)' = 1 + depths[n] + PendingAt(n)
      <3>1. CASE n = depth_count
        <4>1. depths'[n] = depths[n] + 1
          BY <2>2, <3>1
        <4> QED
          BY <2>5, <2>6, <3>1, <4>1
      <3>2. CASE n # depth_count
        <4>1. depths'[n] = depths[n]
          BY <2>2, <2>3, <3>2
        <4> QED
          BY <2>5, <2>6, <3>2, <4>1
      <3> QED
        BY <3>1, <3>2
    <2> QED
      BY <1>1, <2>3, <2>4, <2>7, StillMirrors
  <1> QED
    BY <1>2, <1>3

LEMMA EndStructStack ==
    ASSUME IInv, PathInv, WholeInv, EndStruct, UNCHANGED fh
    PROVE  WholeInv' /\ Carries
  <1> DEFINE upper == Popped(depths)
             v == Keccak(Top.absorbed)
             q == Len(heap) - 1
  <1>1. CASE ~TopAreContexts(IF upper = << >> THEN 1 ELSE 2)
    BY <1>1, StrayCarries DEF EndStruct, path_depth_list_pop
  <1>2. CASE TopAreContexts(IF upper = << >> THEN 1 ELSE 2)
    <2>1. /\ status = "run" /\ ctl = "struct" /\ ctl' = "array" /\ depth_count > 0
          /\ UNCHANGED <<status, root, base, arrays, dropped, global_sha3>>
          /\ depths' = upper
          /\ heap' = IF upper = << >> THEN Popped(heap) ELSE Absorbed(Popped(heap), v)
      BY <1>2 DEF EndStruct, path_depth_list_pop, Running, OnField
    <2>2. CASE ~Sound
      BY <2>1, <2>2, UnsoundCarries DEF WholeInv, Sound
    <2>3. CASE Sound
      <3>1. /\ Len(heap) = base + depth_count + array_depth_count
            /\ base \in Nat /\ depth_count \in Nat /\ array_depth_count \in Nat
            /\ arrays \in Seq(ArrayDepth) /\ heap \in Seq(Chunk)
            /\ \A n \in 1..depth_count :
                   Before(arrays, n) \in Nat /\ Before(arrays, n) <= array_depth_count
        BY <2>3, PlacesOrdered
      <3>2. /\ upper \in Seq(Byte) /\ Len(upper) = depth_count - 1
            /\ \A n \in 1..(depth_count - 1) : upper[n] = depths[n]
        <4>1. depths \in Seq(Byte) /\ depths # << >>
          BY <2>1, <3>1, PathTypes, EmptySeq DEF depth_count
        <4> QED
          BY <4>1, PoppedType DEF depth_count
      <3>3. /\ depth_count' = depth_count - 1 /\ array_depth_count' = array_depth_count
            /\ \A n \in 1..(depth_count - 1) : depths'[n] = depths[n]
        BY <2>1, <3>2 DEF depth_count, array_depth_count
      <3>4. WholeAbove(heap, base) /\ v = Keccak(heap[Len(heap)].absorbed) /\ heap # << >>
        BY <2>1, <2>3, <3>1, EmptySeq DEF WholeInv, Top
      <3>5. CASE upper = << >>
        <4>1. WholeAbove(heap', base)
          BY <2>1, <3>1, <3>4, <3>5, PoppedWhole
        <4>2. depth_count' = 0
          BY <3>2, <3>3, <3>5
        <4> QED
          BY <2>1, <4>1, <4>2 DEF WholeInv, Carries
      <3>6. CASE upper # << >>
        <4>1. /\ depth_count - 1 \in Nat \ {0} /\ q \in Nat /\ base + 1 < Len(heap)
              /\ q = base + (depth_count - 1) + array_depth_count
          <5>1. depth_count - 1 \in Nat \ {0}
            BY <2>1, <3>1, <3>2, <3>6, EmptySeq
          <5>2. /\ base \in Nat /\ array_depth_count \in Nat /\ depth_count \in Nat
                /\ Len(heap) = base + depth_count + array_depth_count
            BY <3>1
          <5> QED
            BY <5>1, <5>2
        <4>2. heap' = Absorbed(Popped(heap), v)
          BY <2>1, <3>6
        <4> HIDE DEF v, upper
        <4>3. /\ Whole(v) /\ Items(v) = 1
              /\ WholeAbove(heap', base) /\ AbsorbedAt(heap', heap, q, v)
          BY <3>1, <3>4, <4>1, <4>2, FoldedWhole
        <4> HIDE DEF q
        <4>4. ASSUME NEW n \in 1..depth_count'
              PROVE  /\ n <= depth_count
                     /\ depths'[n] = depths[n] /\ depths[n] \in Nat
                     /\ Before(arrays', n) = Before(arrays, n)
                     /\ Before(arrays, n) \in Nat /\ Before(arrays, n) <= array_depth_count'
                     /\ PendingAt(n) = 0
          <5>1. /\ n \in 1..(depth_count - 1) /\ n \in 1..depth_count /\ n <= depth_count
                /\ n # depth_count
            BY <3>1, <3>3
          <5>2. PendingAt(n) = 0
            BY <5>1 DEF PendingAt
          <5>3. depths[n] \in Nat
            BY <5>1, IndexNumber
          <5> QED
            BY <2>1, <3>1, <3>3, <5>1, <5>2, <5>3
        <4>5. Carries
          BY <2>1, <3>1, <3>3, <4>1, <4>3, <4>4, AbsorbingCarries
        <4>6. WholeInv'
          BY <2>1, <4>3 DEF WholeInv
        <4> QED
          BY <4>5, <4>6
      <3> QED
        BY <3>5, <3>6
    <2> QED
      BY <2>2, <2>3
  <1> QED
    BY <1>1, <1>2

LEMMA NoMemberStack ==
    ASSUME IInv, PathInv, WholeInv, NoMember, UNCHANGED fh
    PROVE  WholeInv' /\ Carries
  <1>1. CASE path_get_field = NULL
    <2>1. /\ ctl = "struct" /\ ~OnField
          /\ UNCHANGED <<status, root, base, depths, arrays, dropped, heap, global_sha3>>
      BY <1>1 DEF NoMember, Running, memVars, pathVars
    <2>2. Sound => \A n \in 1..depth_count : FALSE
      BY <2>1, InStruct, PathTypes
    <2>3. Flat(global_sha3') /\ (Sound' => Sound)
      BY <2>1 DEF WholeInv, Sound
    <2> QED
      BY <2>1, <2>2, <2>3, QuietCarries
  <1>2. CASE path_get_field # NULL
    BY <1>2, StrayCarries DEF NoMember
  <1> QED
    BY <1>1, <1>2

LEMMA UpdatePathStack ==
    ASSUME IInv, PathInv, WholeInv, UpdatePath \/ PathUpdated, UNCHANGED fh
    PROVE  WholeInv' /\ Carries
  <1>1. CASE Stray("stray_field")
    BY <1>1, StrayCarries
  <1>2. CASE ~Stray("stray_field")
    <2>1. /\ ctl \in {"update", "descend"} /\ ctl' \in {"ready", "descend"}
          /\ UNCHANGED <<status, root, base, depths, arrays, dropped, heap, global_sha3>>
      BY <1>2 DEF UpdatePath, PathUpdated, Running, memVars, pathVars
    <2>2. \A n \in 1..depth_count : /\ Before(arrays', n) = Before(arrays, n)
                                    /\ PendingAt(n)' = PendingAt(n)
      BY <2>1 DEF PendingAt
    <2>3. Flat(global_sha3') /\ (Sound' => Sound)
      BY <2>1 DEF WholeInv, Sound
    <2> QED
      BY <2>1, <2>2, <2>3, QuietCarries
  <1> QED
    BY <1>1, <1>2

(* path_update() enters a struct: its context is on top, started on its    *)
(* type hash.                                                              *)
LEMMA EnterStructStack ==
    ASSUME IInv, PathInv, WholeInv, EnterStruct, UNCHANGED fh
    PROVE  WholeInv' /\ Carries
  <1> DEFINE s == cur.typename
             idx == mem_idx + CTX_SIZE
             c == Ctx(<<type_hash(s, idx)>>)
  <1>1. /\ status = "run" /\ ctl = "descend" /\ IS_CUSTOM(cur)
        /\ UNCHANGED <<root, base, arrays>>
        /\ heap' = Append(heap, c)
        /\ global_sha3' = <<type_hash(s, idx), Final>>
        /\ ~dropped' => depths' = Append(depths, 0) /\ dropped' = dropped
        /\ ctl' \in {ctl, "ready"}
    BY DEF EnterStruct, Running
  <1>2. cur \in Fields /\ s \in StructNames
    BY <1>1, FieldFacts DEF IInv, CurOK
  <1>3. /\ Whole(<<type_hash(s, idx)>>) /\ Holds(c, s, 1)
        /\ <<type_hash(s, idx)>> \in Transcript /\ c \in Chunk /\ Whole(c.absorbed)
    <2>1. Whole(<<type_hash(s, idx)>>) /\ Holds(c, s, 1) /\ <<type_hash(s, idx)>> \in Transcript
      BY <1>2, HoldsNew, TypeHashToken
    <2> QED
      BY <2>1, ContextType DEF Holds
  <1> HIDE DEF c
  <1>4. Flat(global_sha3')
    BY <1>1, BracketsDiffer DEF Flat, type_hash, Open, Close
  <1>5. CASE ~Sound'
    BY <1>4, <1>5, UnsoundCarries
  <1>6. CASE Sound'
    <2>1. Sound /\ depths' = Append(depths, 0)
      BY <1>1, <1>6 DEF Sound
    <2>2. /\ Len(heap) = base + depth_count + array_depth_count
          /\ base \in Nat /\ depth_count \in Nat /\ array_depth_count \in Nat
          /\ arrays \in Seq(ArrayDepth) /\ heap \in Seq(Chunk)
      BY <2>1, PlacesOrdered
    <2>3. WholeAbove(heap, base)
      BY <2>1 DEF WholeInv
    <2>4. /\ WholeAbove(heap', base)
          /\ heap'[Len(heap) + 1] = c
          /\ \A i \in 1..Len(heap) : heap'[i] = heap[i]
      BY <1>1, <1>3, <2>2, <2>3, AppendedWhole
    <2>5. /\ depth_count' = depth_count + 1 /\ depths'[depth_count + 1] = 0
          /\ \A n \in 1..depth_count : depths'[n] = depths[n]
      BY <2>1, PathTypes, AppendProperties DEF depth_count
    <2>6. ASSUME NEW n \in 1..depth_count, Mirrors(n) PROVE Mirrors(n)'
      <3>1. n \in Nat \ {0} /\ n # depth_count + 1
        BY <2>2
      <3>2. \A k \in 1..(n - 1) : depths'[k] = depths[k]
        <4>1. \A k \in 1..(n - 1) : k \in 1..depth_count
          BY <2>2
        <4> QED
          BY <2>5, <4>1
      <3>3. heap'[Place(n)] = heap[Place(n)]
        <4>1. Place(n) \in 1..Len(heap)
          BY <2>1, PlacesOrdered
        <4> QED
          BY <2>4, <4>1
      <3>4. PendingAt(n) = 0 /\ PendingAt(n)' = 0
        BY <1>1, <2>5, <3>1 DEF PendingAt
      <3>5. 1 + depths'[n] + PendingAt(n)' = 1 + depths[n] + PendingAt(n)
        BY <2>5, <3>4
      <3> QED
        BY <1>1, <2>6, <3>1, <3>2, <3>3, <3>5, StillMirrors
    <2>7. ASSUME NEW n \in Nat, n = depth_count + 1 PROVE Mirrors(n)'
      <3>1. /\ Spans(LevelsUpTo, arrays, depth_count) /\ Stands(Walk, depths, depth_count)
            /\ depth_count > 0 /\ cur = path_get_field
        BY <1>1, <2>1, StandsNow DEF Sound, PathInv
      <3>2. Before(arrays, n) = array_depth_count
        <4>1. \A i \in 1..Len(arrays) : arrays[i].path_index < n - 1
          BY <2>2, <2>7, <3>1, SMTT(30) DEF Spans
        <4> QED
          BY <2>2, <4>1, BeforeAll DEF array_depth_count
      <3>3. base' + n + Before(arrays', n) = Len(heap) + 1
        BY <1>1, <2>2, <2>7, <3>2
      <3>4. Walk'[n - 1].struct = s
        <4>1. Walk[depth_count].struct = s
          BY <1>1, <3>1, FieldHere
        <4>2. \A k \in 0..depth_count : Walk'[k] = Walk[k]
          BY <1>1, <2>2, <2>5, PrefixKept
        <4>3. depth_count \in 0..depth_count /\ n - 1 = depth_count
          BY <2>2, <2>7
        <4> QED
          BY <4>1, <4>2, <4>3
      <3>5. PendingAt(n)' = 0
        BY <1>1 DEF PendingAt
      <3>6. 1 + depths'[n] + PendingAt(n)' = 1
        BY <2>5, <2>7, <3>5
      <3> QED
        BY <1>3, <2>4, <3>3, <3>4, <3>6 DEF Mirrors, Place, StructAt
    <2>8. Carries
      <3>1. \A n \in 1..depth_count' : n = depth_count + 1 \/ (n \in 1..depth_count /\ n <= depth_count)
        BY <2>2, <2>5
      <3> QED
        BY <2>2, <2>6, <2>7, <3>1 DEF Carries
    <2> QED
      BY <1>1, <1>4, <2>4, <2>8 DEF WholeInv
  <1> QED
    BY <1>5, <1>6

(* A failed type_hash() leaves at most a type hash in global_sha3.         *)
LEMMA LeaksStack ==
    ASSUME NEW s, NEW idx, TypeHashLeaks(s, idx)
    PROVE  WholeInv' /\ Carries
  <1>1. dropped' /\ (global_sha3' = << >> \/ global_sha3' = <<type_hash(s, idx)>>)
    BY DEF TypeHashLeaks
  <1>2. Flat(global_sha3')
    BY <1>1 DEF Flat, type_hash, Open, Close
  <1> QED
    BY <1>1, <1>2, UnsoundCarries DEF Sound

LEMMA EnterStructFailsStack ==
    ASSUME IInv, PathInv, WholeInv, EnterStructFails, UNCHANGED fh
    PROVE  WholeInv' /\ Carries
  <1>1. CASE ~CanAlloc(mem_idx, CTX_SIZE)
    BY <1>1, UnsoundCarries DEF EnterStructFails, WholeInv, Sound, memVars
  <1>2. CASE Stray("stray_mem")
    BY <1>2, StrayCarries
  <1>3. CASE CanAlloc(mem_idx, CTX_SIZE) /\ ~Stray("stray_mem")
    BY <1>3, LeaksStack DEF EnterStructFails
  <1> QED
    BY <1>1, <1>2, <1>3

-----------------------------------------------------------------------------

LEMMA TypeHashFlat ==
    ASSUME NEW s, NEW idx PROVE Flat(<<type_hash(s, idx), Final>>)
  BY BracketsDiffer DEF Flat, type_hash, Open, Close

(* path_set_root(): the context of the root is the first one above base.   *)
LEMMA SetRootStack ==
    ASSUME IInv, PathInv, WholeInv, NEW name, path_set_root(name), UNCHANGED fh
    PROVE  WholeInv' /\ Carries
  <1> DEFINE s == get_structn(name)
             idx == mem_idx + CTX_SIZE
             result == TypeHashResult(s, idx)
             c == Ctx(<<type_hash(s, idx)>>)
             fits == s # NULL /\ CanAlloc(mem_idx, CTX_SIZE)
  <1>1. CASE ~fits
    BY <1>1, UnsoundCarries DEF path_set_root, WholeInv, Sound, memVars
  <1>2. CASE fits /\ result = "stray"
    BY <1>2, UnsoundCarries DEF path_set_root, WholeInv, Sound, memVars
  <1>3. CASE fits /\ result = "null"
    BY <1>3, LeaksStack DEF path_set_root
  <1>4. CASE fits /\ result \notin {"stray", "null"}
    <2>1. /\ heap' = Append(heap, c) /\ global_sha3' = <<type_hash(s, idx), Final>>
          /\ depths' = <<0>> /\ arrays' = << >> /\ base' = Len(heap) /\ ctl' = "update"
          /\ root' = s
      BY <1>4 DEF path_set_root
    <2>2. s \in StructNames
      BY <1>4 DEF get_structn
    <2>3. /\ Whole(<<type_hash(s, idx)>>) /\ Holds(c, s, 1) /\ c \in Chunk /\ Whole(c.absorbed)
      <3>1. Whole(<<type_hash(s, idx)>>) /\ Holds(c, s, 1) /\ <<type_hash(s, idx)>> \in Transcript
        BY <2>2, HoldsNew, TypeHashToken
      <3> QED
        BY <3>1, ContextType DEF Holds
    <2>4. heap \in Seq(Chunk) /\ Len(heap) \in Nat
      BY LenProperties DEF IInv, TypeOK
    <2>5. Flat(global_sha3')
      BY <2>1, TypeHashFlat
    <2>6. Walk'[0].struct = s
      <3>1. Walk'[0] = WalkStart(root')
        BY NextWalkIsWalk, WalkUnfolds
      <3> QED
        BY <2>1, <3>1 DEF WalkStart
    <2> HIDE DEF c, s
    <2>7. /\ Len(heap') = Len(heap) + 1 /\ heap'[Len(heap) + 1] = c
      BY <2>1, <2>3, <2>4, AppendProperties
    <2>8. WholeAbove(heap', base')
      <3>1. \A i \in (base' + 1)..Len(heap') : i = Len(heap) + 1
        BY <2>1, <2>4, <2>7
      <3> QED
        BY <2>3, <2>7, <3>1 DEF WholeAbove
    <2>9. ASSUME NEW n \in Nat, n = 1 PROVE Mirrors(n)'
      <3>1. Before(arrays', n) = 0
        <4>1. arrays' \in Seq(ArrayDepth)
          BY <2>1
        <4> QED
          BY <2>9, <4>1, BeforeFirst
      <3>2. base' + n + Before(arrays', n) = Len(heap) + 1
        BY <2>1, <2>4, <2>9, <3>1
      <3>3. PendingAt(n)' = 0
        BY <2>1 DEF PendingAt
      <3>4. 1 + depths'[n] + PendingAt(n)' = 1 /\ n - 1 = 0
        BY <2>1, <2>9, <3>3
      <3> QED
        BY <2>3, <2>6, <2>7, <3>2, <3>4 DEF Mirrors, Place, StructAt
    <2>10. Carries
      <3>1. \A n \in 1..depth_count' : n \in Nat /\ n = 1
        BY <2>1 DEF depth_count
      <3> QED
        BY <2>9, <3>1 DEF Carries
    <2> QED
      BY <2>5, <2>8, <2>10 DEF WholeInv
  <1> QED
    BY <1>1, <1>2, <1>3, <1>4

(* Stack g is h, with one context more on top of it or below its top.      *)
Extended(g, h) == \A i \in 1..Len(h) : g[i] = h[i]

Lifted(g, h) == g[Len(h) + 1] = h[Len(h)] /\ \A i \in 1..(Len(h) - 1) : g[i] = h[i]

LEMMA ArrayContextWhole ==
    ASSUME heap \in Seq(Chunk), NEW b \in Nat, b < Len(heap), WholeAbove(heap, b), NEW field
    PROVE  /\ WholeAbove(WithArrayContext(field), b)
           /\ IF IS_CUSTOM(field) THEN Lifted(WithArrayContext(field), heap)
              ELSE Extended(WithArrayContext(field), heap)
  <1>1. << >> \in Transcript /\ Whole(<< >>) /\ Ctx(<< >>).absorbed = << >> /\ Ctx(<< >>) \in Chunk
    <2>1. << >> \in Transcript /\ \A i \in 1..Len(<< >>) : FALSE
      BY DEF Transcript
    <2> QED
      BY <2>1, FlatWhole, ContextType DEF Ctx
  <1>2. CASE ~IS_CUSTOM(field)
    BY <1>1, <1>2, AppendedWhole DEF WithArrayContext, Extended
  <1>3. CASE IS_CUSTOM(field)
    <2> DEFINE below == [heap EXCEPT ![Len(heap)] = Ctx(<< >>)]
               g == Append(below, Top)
    <2>1. Len(heap) \in Nat /\ Len(heap) \in 1..Len(heap) /\ Len(heap) \in (b + 1)..Len(heap)
      BY LenProperties
    <2>2. /\ below \in Seq(Chunk) /\ Len(below) = Len(heap) /\ below[Len(heap)] = Ctx(<< >>)
          /\ \A i \in 1..(Len(heap) - 1) : below[i] = heap[i]
      BY <1>1, <2>1, ExceptSeq
    <2>3. Top = heap[Len(heap)] /\ Top \in Chunk
      BY <2>1, ElementOfSeq DEF Top
    <2> HIDE DEF below
    <2>4. /\ Len(g) = Len(heap) + 1 /\ g[Len(heap) + 1] = heap[Len(heap)]
          /\ g[Len(heap)] = Ctx(<< >>)
          /\ \A i \in 1..(Len(heap) - 1) : g[i] = heap[i]
      BY <2>1, <2>2, <2>3, AppendProperties
    <2> HIDE DEF g
    <2>5. Lifted(g, heap)
      BY <2>4 DEF Lifted
    <2>6. WholeAbove(g, b)
      <3>1. \A i \in (b + 1)..(Len(heap) + 1) :
                \/ i = Len(heap) \/ i = Len(heap) + 1
                \/ i \in 1..(Len(heap) - 1) /\ i \in (b + 1)..Len(heap)
        BY <2>1
      <3> QED
        BY <1>1, <2>1, <2>4, <3>1 DEF WholeAbove
    <2>7. WithArrayContext(field) = g
      BY <1>3 DEF WithArrayContext, g, below
    <2> QED
      BY <1>3, <2>5, <2>6, <2>7
  <1> QED
    BY <1>2, <1>3

(* All arrays open so far are of the fields before the last, if that which *)
(* opens is of the field before the last.                                  *)
LEMMA InnerArraysWait ==
    ASSUME IInv, Stands(Walk, depths, depth_count), Spans(LevelsUpTo, arrays, depth_count),
           NEW n \in 1..depth_count, n = depth_count - 1, Opens(n)
    PROVE  Before(arrays, depth_count) = array_depth_count
  <1>1. arrays \in Seq(ArrayDepth) /\ depth_count \in Nat /\ array_depth_count \in Nat
    BY PathTypes
  <1>2. LevelsUpTo[n] \in Nat /\ LevelsUpTo[n] > array_depth_count
    <2>1. n \in 0..depth_count
      BY <1>1
    <2> QED
      BY <2>1, LevelsHere DEF Opens
  <1>3. ASSUME NEW i \in 1..Len(arrays) PROVE arrays[i].path_index < depth_count - 1
    <2>1. arrays[i].path_index \in Nat /\ arrays[i].path_index < depth_count
      BY <1>1, PathIndex DEF Spans
    <2>2. ASSUME arrays[i].path_index = depth_count - 1 PROVE FALSE
      <3>1. n \in 0..arrays[i].path_index
        BY <1>1, <2>2
      <3>2. LevelsUpTo[n] < i
        BY <3>1 DEF Spans
      <3>3. i \in Nat /\ i <= array_depth_count
        BY <1>1 DEF array_depth_count
      <3> QED
        BY <1>1, <1>2, <3>2, <3>3
    <2> QED
      BY <1>1, <2>1, <2>2
  <1> QED
    BY <1>1, <1>3, BeforeAll DEF array_depth_count

(* path_new_array_depth(): the array's context goes on top, or under the   *)
(* context of its element, and whether that one is the one on top is what  *)
(* InPlace is about.                                                       *)
LEMMA OpenArrayStack ==
    ASSUME IInv, PathInv, WholeInv, NEW n \in 1..depth_count, NEW size \in Byte,
           FirstToOpen(n), OpenArray(n, size), Running("ready"), UNCHANGED fh
    PROVE  WholeInv' /\ Carries
  <1> DEFINE field == get_nth_field_from_path(n)
             new == [path_index |-> n - 1, size |-> size]
  <1>1. CASE UNCHANGED <<status, ctl, cur, memVars, pathVars, dropped>>
    <2>1. \A k \in 1..depth_count : /\ Before(arrays', k) = Before(arrays, k)
                                    /\ PendingAt(k)' = PendingAt(k)
      BY <1>1 DEF PendingAt, depth_count, array_depth_count, pathVars
    <2>2. /\ Flat(global_sha3') /\ (Sound' => Sound)
          /\ UNCHANGED <<root, base, depths, heap>>
      BY <1>1 DEF WholeInv, Sound, memVars, pathVars
    <2> QED
      BY <2>1, <2>2, QuietCarries
  <1>2. CASE Stray("stray_ctx")
    BY <1>2, StrayCarries
  <1>3. CASE ~Stray("stray_ctx") /\ ~UNCHANGED <<status, ctl, cur, memVars, pathVars, dropped>>
    <2>1. /\ status = "run" /\ ctl = "ready" /\ ctl' = "ready"
          /\ UNCHANGED <<status, global_sha3, root, depths, base>>
          /\ arrays' = Append(arrays, new)
          /\ ~dropped' => heap' = WithArrayContext(field) /\ ~dropped
      BY <1>3 DEF OpenArray, Running
    <2>2. Flat(global_sha3')
      BY <2>1 DEF WholeInv
    <2>3. CASE ~Sound'
      BY <2>2, <2>3, UnsoundCarries
    <2>4. CASE Sound'
      <3>1. Sound /\ ~dropped /\ ~dropped' /\ heap' = WithArrayContext(field)
        BY <2>1, <2>4 DEF Sound
      <3>2. /\ Len(heap) = base + depth_count + array_depth_count
            /\ base \in Nat /\ depth_count \in Nat /\ array_depth_count \in Nat
            /\ arrays \in Seq(ArrayDepth) /\ heap \in Seq(Chunk)
            /\ \A k \in 1..depth_count :
                   /\ Before(arrays, k) \in Nat
                   /\ k # depth_count => Place(k) < Place(depth_count)
                   /\ Place(k) \in 1..Len(heap)
        BY <3>1, PlacesOrdered
      <3>3. /\ Stands(Walk, depths, depth_count) /\ Spans(LevelsUpTo, arrays, depth_count)
            /\ ~IS_CUSTOM(path_get_field)
            /\ path_get_field = get_nth_field_from_path(depth_count)
        BY <2>1, <3>1, <3>2, StandsNow DEF PathInv, Sound, path_get_field
      <3>4. n \in Nat /\ depth_count' = depth_count /\ n - 1 \in Byte
        BY <2>1, <3>2, PathTypes DEF depth_count, Byte
      <3>5. new \in ArrayDepth /\ new.path_index = n - 1
        BY <3>4 DEF ArrayDepth
      <3> HIDE DEF new
      <3>6. \A k \in 1..depth_count :
                Before(arrays', k) = Before(arrays, k) + (IF n < k THEN 1 ELSE 0)
        <4> TAKE k \in 1..depth_count
        <4>1. k \in Nat /\ (n - 1 < k - 1 <=> n < k)
          BY <3>2, <3>4
        <4>2. Before(arrays', k)
                  = Before(arrays, k) + (IF new.path_index < k - 1 THEN 1 ELSE 0)
          BY <2>1, <3>2, <3>5, <4>1, BeforeMore
        <4> QED
          BY <3>5, <4>1, <4>2
      <3>7. /\ WholeAbove(heap', base)
            /\ IF IS_CUSTOM(field) THEN Lifted(heap', heap) ELSE Extended(heap', heap)
        <4>1. base < Len(heap) /\ WholeAbove(heap, base)
          BY <3>1, <3>2 DEF WholeInv
        <4> QED
          BY <3>1, <3>2, <4>1, ArrayContextWhole
      <3>8. IS_CUSTOM(field) <=> n # depth_count
        <4>1. n # depth_count => Entered(Walk, depths, n)
          BY <3>2, <3>3 DEF Stands
        <4>2. field = Walk[n].field
          BY <3>4 DEF get_nth_field_from_path
        <4> QED
          BY <3>3, <4>1, <4>2 DEF Entered
      <3>9. \A k \in Nat : PendingAt(k) = 0 /\ PendingAt(k)' = 0
        BY <2>1 DEF PendingAt
      <3>10. ASSUME NEW k \in 1..depth_count, Mirrors(k), k <= n \/ n = depth_count
             PROVE  Mirrors(k)'
        <4>1. k \in Nat \ {0} /\ k <= n
          BY <3>2, <3>10
        <4>2. Before(arrays', k) = Before(arrays, k)
          BY <3>2, <3>4, <3>6, <4>1
        <4>3. heap'[Place(k)] = heap[Place(k)]
          <5>1. CASE IS_CUSTOM(field)
            <6>1. k # depth_count /\ Place(depth_count) \in 1..Len(heap)
              BY <3>2, <3>4, <3>8, <4>1, <5>1
            <6>2. Place(k) < Place(depth_count) /\ Place(k) \in 1..Len(heap)
              BY <3>2, <6>1
            <6>3. Place(k) \in 1..(Len(heap) - 1)
              BY <6>1, <6>2
            <6> QED
              BY <3>7, <5>1, <6>3 DEF Lifted
          <5>2. CASE ~IS_CUSTOM(field)
            BY <3>2, <3>7, <5>2 DEF Extended
          <5> QED
            BY <5>1, <5>2
        <4>4. 1 + depths'[k] + PendingAt(k)' = 1 + depths[k] + PendingAt(k)
          BY <2>1, <3>9, <4>1
        <4>5. \A j \in 1..(k - 1) : depths'[j] = depths[j]
          BY <2>1
        <4> QED
          BY <2>1, <3>10, <4>1, <4>2, <4>3, <4>4, <4>5, StillMirrors
      <3>11. ASSUME NEW k \in 1..depth_count, Mirrors(k), ~(k <= n), InPlace
             PROVE  Mirrors(k)'
        <4>1. k \in Nat \ {0} /\ n < k /\ n # depth_count
          BY <3>2, <3>4, <3>11
        <4>2. n = depth_count - 1 /\ k = depth_count
          <5>1. Len(arrays') = Len(arrays) + 1 /\ Len(arrays) \in Nat
                /\ arrays'[Len(arrays')] = new
            BY <2>1, <3>2, <3>5, AppendProperties, LenProperties
          <5>2. Len(arrays') > Len(arrays)
            BY <5>1
          <5>3. IS_CUSTOM(get_nth_field_from_path((n - 1) + 1)) => n - 1 = depth_count - 2
            BY <3>1, <3>5, <3>11, <5>1, <5>2 DEF InPlace
          <5>4. (n - 1) + 1 = n
            BY <3>4
          <5>5. n - 1 = depth_count - 2
            BY <3>8, <4>1, <5>3, <5>4
          <5> QED
            BY <3>2, <3>4, <3>11, <4>1, <5>5
        <4>3. Before(arrays, k) = array_depth_count
          BY <3>3, <4>2, InnerArraysWait DEF FirstToOpen
        <4>4. Place(k) = Len(heap)
          BY <3>2, <4>2, <4>3 DEF Place
        <4>5. base' + k + Before(arrays', k) = Len(heap) + 1
          BY <2>1, <3>2, <3>6, <4>1, <4>2, <4>3
        <4>6. heap'[Len(heap) + 1] = heap[Len(heap)]
          BY <3>7, <3>8, <4>1 DEF Lifted
        <4>7. Walk'[k - 1].struct = Walk[k - 1].struct
          <5>1. k - 1 \in Nat /\ k - 1 \in 0..(k - 1) /\ \A j \in 1..(k - 1) : depths'[j] = depths[j]
            BY <2>1, <4>1
          <5> QED
            BY <2>1, <5>1, PrefixKept
        <4>8. 1 + depths'[k] + PendingAt(k)' = 1 + depths[k] + PendingAt(k)
          BY <2>1, <3>9, <4>1
        <4>9. Holds(heap[Len(heap)], Walk[k - 1].struct, 1 + depths[k] + PendingAt(k))
          BY <3>11, <4>4 DEF Mirrors, StructAt
        <4> QED
          BY <4>5, <4>6, <4>7, <4>8, <4>9 DEF Mirrors, Place, StructAt
      <3>12. Carries
        <4> SUFFICES ASSUME NEW k \in 1..depth_count', k = 1 \/ InPlace,
                            k <= depth_count => Mirrors(k)
                     PROVE  Mirrors(k)'
          BY DEF Carries
        <4>1. k \in 1..depth_count /\ Mirrors(k) /\ (k = 1 => k <= n)
          BY <3>2, <3>4
        <4> QED
          BY <3>10, <3>11, <4>1
      <3> QED
        BY <2>1, <2>2, <3>7, <3>12 DEF WholeInv
    <2> QED
      BY <2>3, <2>4
  <1> QED
    BY <1>1, <1>2, <1>3

LEMMA NewArrayStack ==
    ASSUME IInv, PathInv, WholeInv, NEW size \in Byte, path_new_array_depth(size), UNCHANGED fh
    PROVE  WholeInv' /\ Carries
  <1>1. CASE \E n \in 1..depth_count : FirstToOpen(n) /\ OpenArray(n, size)
    BY <1>1, OpenArrayStack DEF path_new_array_depth
  <1>2. CASE Stray("stray_field")
    BY <1>2, StrayCarries
  <1>3. CASE UNCHANGED <<status, ctl, cur, memVars, pathVars, dropped>>
    <2>1. \A k \in 1..depth_count : /\ Before(arrays', k) = Before(arrays, k)
                                    /\ PendingAt(k)' = PendingAt(k)
      BY <1>3 DEF PendingAt, depth_count, array_depth_count, pathVars
    <2>2. /\ Flat(global_sha3') /\ (Sound' => Sound)
          /\ UNCHANGED <<root, base, depths, heap>>
      BY <1>3 DEF WholeInv, Sound, memVars, pathVars
    <2> QED
      BY <2>1, <2>2, QuietCarries
  <1> QED
    BY <1>1, <1>2, <1>3 DEF path_new_array_depth

-----------------------------------------------------------------------------

(* What a value comes to is one item: the digest of its bytes, or a word.  *)
LEMMA ValueWhole ==
    ASSUME IInv, WholeInv, NEW data \in Seq(Byte), fh.state = "idle" => Len(data) >= 2,
           NEW field
    PROVE  LET value == IF IS_DYN(field.type)
                        THEN Keccak(Progress(data))
                        ELSE <<Encoded(field.type, Content(data))>>
           IN  /\ Whole(value) /\ Items(value) = 1
               /\ Progress(data) \in Transcript /\ Flat(Progress(data))
  <1>1. Content(data) \in Seq(Byte) /\ Progress(data) \in Transcript
    BY PacketType
  <1>2. Flat(Progress(data))
    <2> DEFINE before == IF fh.state = "idle" THEN << >> ELSE global_sha3
               bytes == AsTokens(Content(data))
    <2>1. before \in Transcript /\ Flat(before)
      BY DEF IInv, TypeOK, WholeInv, Transcript, Flat
    <2>2. bytes \in Transcript /\ Flat(bytes)
      <3>1. Len(Content(data)) \in Nat
        BY <1>1, LenProperties
      <3>2. \A i \in 1..Len(Content(data)) : <<"byte", Content(data)[i]>> \in Token
        BY <1>1, ElementOfSeq DEF Token
      <3> QED
        BY <1>1, <3>1, <3>2, IsASeq, BytesFlat DEF AsTokens, Transcript
    <2>3. Progress(data) = before \o bytes
      BY DEF Progress
    <2> HIDE DEF before, bytes
    <2> QED
      BY <2>1, <2>2, <2>3, FlatConcat
  <1>3. CASE IS_DYN(field.type)
    <2>1. Whole(Progress(data))
      BY <1>1, <1>2, FlatWhole DEF Flat
    <2> QED
      BY <1>1, <1>2, <1>3, <2>1, DigestWhole
  <1>4. CASE ~IS_DYN(field.type)
    <2> DEFINE word == Encoded(field.type, Content(data))
    <2>1. <<word>> \in Seq(Token) /\ Len(<<word>>) = 1 /\ <<word>>[1] = word
      BY <1>1, EncodedType DEF Transcript
    <2>2. word \in Token
      <3> HIDE DEF word
      <3> QED
        BY <2>1, ElementOfSeq
    <2>3. word \notin {Open, Close}
      BY DEF Encoded, Open, Close
    <2> HIDE DEF word
    <2>4. Whole(<<word>>) /\ Items(<<word>>) = 1
      BY <2>2, <2>3, TokenWhole
    <2> QED
      BY <1>1, <1>2, <1>4, <2>4 DEF word
  <1> QED
    BY <1>3, <1>4

(* Packets that do not complete a value leave the contexts alone.          *)
LEMMA WaitingStack ==
    ASSUME IInv, PathInv, WholeInv, NEW data \in Seq(Byte), NEW partial, NEW field,
           fh.state = "idle" => Len(data) >= 2, KeepWaiting(field, data, partial)
    PROVE  WholeInv' /\ Carries
  <1>1. /\ UNCHANGED <<status, ctl, heap, root, depths, arrays, base, dropped>>
        /\ global_sha3' \in {Progress(data), global_sha3}
    BY DEF KeepWaiting, Receive, pathVars
  <1>2. Flat(global_sha3')
    <2>1. Flat(Progress(data))
      BY ValueWhole
    <2> QED
      BY <1>1, <2>1 DEF WholeInv
  <1>3. \A k \in 1..depth_count : /\ Before(arrays', k) = Before(arrays, k)
                                  /\ PendingAt(k)' = PendingAt(k)
    BY <1>1 DEF PendingAt, depth_count, array_depth_count
  <1>4. Sound' => Sound
    BY <1>1 DEF Sound
  <1> QED
    BY <1>1, <1>2, <1>3, <1>4, QuietCarries

(* A complete value is an item of the last struct of the path, or of the   *)
(* innermost array open on the field it belongs to.                        *)
LEMMA FinishValueStack ==
    ASSUME IInv, PathInv, WholeInv, NEW data \in Seq(Byte), NEW partial,
           fh.state = "idle" => Len(data) >= 2, Running("ready"), path_get_field \in Fields,
           FinishValue(path_get_field, data, partial)
    PROVE  WholeInv' /\ Carries
  <1> DEFINE type == path_get_field.type
             value == IF IS_DYN(type) THEN Keccak(Progress(data))
                      ELSE <<Encoded(type, Content(data))>>
             q == Len(heap)
  <1>1. CASE ~TopAreContexts(1)
    BY <1>1, StrayCarries DEF FinishValue
  <1>2. CASE TopAreContexts(1)
    <2>1. /\ status = "run" /\ ctl = "ready" /\ ctl' = "array"
          /\ UNCHANGED <<status, root, depths, arrays, base, dropped>>
          /\ heap' = Absorbed(heap, value)
          /\ global_sha3' = IF IS_DYN(type) THEN Append(Progress(data), Final) ELSE global_sha3
      BY <1>2 DEF FinishValue, Running, pathVars
    <2>2. /\ Whole(value) /\ Items(value) = 1
          /\ Progress(data) \in Transcript /\ Flat(Progress(data))
      BY ValueWhole
    <2> HIDE DEF value
    <2>3. Flat(global_sha3')
      <3>1. Final \in Token /\ Final \notin {Open, Close}
        BY BracketsDiffer DEF Token
      <3>2. Flat(Append(Progress(data), Final))
        BY <2>2, <3>1, FlatAppend
      <3> QED
        BY <2>1, <3>2 DEF WholeInv
    <2>4. CASE ~Sound
      BY <2>1, <2>3, <2>4, UnsoundCarries DEF Sound
    <2>5. CASE Sound
      <3>1. /\ Len(heap) = base + depth_count + array_depth_count
            /\ base \in Nat /\ depth_count \in Nat /\ array_depth_count \in Nat
            /\ arrays \in Seq(ArrayDepth) /\ heap \in Seq(Chunk)
            /\ \A n \in 1..depth_count :
                   Before(arrays, n) \in Nat /\ Before(arrays, n) <= array_depth_count
        BY <2>5, PlacesOrdered
      <3>2. depth_count > 0
        <4>1. depth_count = 0 => path_get_field = NULL
          BY DEF path_get_field, get_nth_field_from_path
        <4> QED
          BY <3>1, <4>1, FieldFacts
      <3>3. base < Len(heap) /\ WholeAbove(heap, base) /\ q \in Nat
            /\ q = base + depth_count + array_depth_count
        BY <2>5, <3>1, <3>2 DEF WholeInv
      <3>4. WholeAbove(heap', base) /\ AbsorbedAt(heap', heap, q, value)
        BY <2>1, <2>2, <3>1, <3>3, AbsorbedWhole
      <3> HIDE DEF q
      <3>5. depth_count' = depth_count /\ array_depth_count' = array_depth_count
        BY <2>1 DEF depth_count, array_depth_count
      <3>6. ASSUME NEW n \in 1..depth_count'
            PROVE  /\ n <= depth_count
                   /\ depths'[n] = depths[n] /\ depths[n] \in Nat
                   /\ Before(arrays', n) = Before(arrays, n)
                   /\ Before(arrays, n) \in Nat /\ Before(arrays, n) <= array_depth_count'
                   /\ PendingAt(n) = 0
        <4>1. n \in 1..depth_count /\ n <= depth_count
          BY <3>1, <3>5
        <4>2. PendingAt(n) = 0
          BY <2>1 DEF PendingAt
        <4>3. depths[n] \in Nat
          BY <4>1, IndexNumber
        <4> QED
          BY <2>1, <3>1, <3>5, <4>1, <4>2, <4>3
      <3>7. Carries
        BY <2>1, <2>2, <3>1, <3>3, <3>4, <3>5, <3>6, AbsorbingCarries
      <3> QED
        BY <2>1, <2>3, <3>4, <3>7 DEF WholeInv
    <2> QED
      BY <2>4, <2>5
  <1> QED
    BY <1>1, <1>2

LEMMA FieldHashStack ==
    ASSUME IInv, PathInv, WholeInv, NEW data \in Seq(Byte), NEW partial,
           field_hash(data, partial)
    PROVE  WholeInv' /\ Carries
  <1>1. CASE NoField /\ path_get_field # NULL
    BY <1>1, StrayCarries DEF NoField
  <1>2. CASE NoField /\ path_get_field = NULL
    <2>1. UNCHANGED <<status, ctl, memVars, pathVars, dropped>>
      BY <1>2 DEF NoField
    <2>2. \A k \in 1..depth_count : /\ Before(arrays', k) = Before(arrays, k)
                                    /\ PendingAt(k)' = PendingAt(k)
      BY <2>1 DEF PendingAt, depth_count, array_depth_count, pathVars
    <2>3. /\ Flat(global_sha3') /\ (Sound' => Sound)
          /\ UNCHANGED <<root, base, depths, heap>>
      BY <2>1 DEF WholeInv, Sound, memVars, pathVars
    <2> QED
      BY <2>2, <2>3, QuietCarries
  <1>3. CASE KeepWaiting(path_get_field, data, partial)
    BY <1>3, WaitingStack DEF field_hash
  <1>4. CASE path_get_field \in Fields /\ FinishValue(path_get_field, data, partial)
    BY <1>4, FinishValueStack DEF field_hash
  <1> QED
    BY <1>1, <1>2, <1>3, <1>4 DEF field_hash

-----------------------------------------------------------------------------

(* A failure is never forgotten, and only path_depth_list_pop() puts out a *)
(* digest.                                                                 *)
LEMMA FailuresStay ==
    ASSUME [Next]_vars
    PROVE  /\ Sound' => Sound
           /\ ~EndStruct => digests' = digests
  <1>1. CASE UNCHANGED vars
    BY <1>1 DEF vars, Sound
  <1>2. CASE Continue
    <2>1. status = "run" /\ (dropped => dropped')
      BY <1>2 DEF Continue, PathStep, Running, Stray, TypeHashLeaks, NextElement, EndArray,
         array_depth_list_pop, LeaveArrays, NextMember, EndStruct, path_depth_list_pop,
         NoMember, UpdatePath, PathUpdated, EnterStruct, EnterStructFails
    <2>2. ~EndStruct => digests' = digests
      BY <1>2 DEF Continue, PathStep, Stray, TypeHashLeaks, NextElement, EndArray,
         array_depth_list_pop, LeaveArrays, NextMember, pathVars,
         NoMember, UpdatePath, PathUpdated, EnterStruct, EnterStructFails
    <2> QED
      BY <2>1, <2>2 DEF Sound
  <1>3. CASE \E apdu \in APDU : StructImplName(apdu) \/ Unknown(apdu)
    BY <1>3 DEF StructImplName, Unknown, path_set_root, TypeHashLeaks, Running, Sound, pathVars
  <1>4. CASE \E apdu \in APDU : StructImplField(apdu)
    BY <1>4 DEF StructImplField, field_hash, NoField, KeepWaiting, FinishValue, Stray, Running,
       Sound, pathVars
  <1>5. CASE \E apdu \in APDU : StructImplArray(apdu)
    BY <1>5 DEF StructImplArray, path_new_array_depth, OpenArray, Stray, Running, Sound, pathVars
  <1> QED
    BY <1>1, <1>2, <1>3, <1>4, <1>5 DEF Next, handle_apdu

LEMMA StackStarts == Init => WholeInv /\ depth_count = 0
  <1> SUFFICES ASSUME Init PROVE WholeInv /\ depth_count = 0
    OBVIOUS
  <1>1. Len(heap) = 0 /\ base = 0 /\ Len(global_sha3) = 0 /\ depth_count = 0
    BY DEF Init, PathInit, depth_count
  <1> QED
    BY <1>1 DEF WholeInv, Flat, WholeAbove

LEMMA StackNext ==
    ASSUME DInv, WholeInv, [Next]_vars
    PROVE  WholeInv' /\ Carries
  <1>1. IInv /\ PathInv
    BY DEF DInv
  <1>2. CASE UNCHANGED vars
    <2>1. \A k \in 1..depth_count : /\ Before(arrays', k) = Before(arrays, k)
                                    /\ PendingAt(k)' = PendingAt(k)
      BY <1>2 DEF PendingAt, depth_count, array_depth_count, vars
    <2>2. /\ Flat(global_sha3') /\ (Sound' => Sound)
          /\ UNCHANGED <<root, base, depths, heap>>
      BY <1>2 DEF WholeInv, Sound, vars
    <2> QED
      BY <1>1, <2>1, <2>2, QuietCarries
  <1>3. CASE Continue
    <2>1. UNCHANGED fh
      BY <1>3 DEF Continue
    <2>2. CASE NextElement
      BY <1>1, <2>1, <2>2, NextElementStack
    <2>3. CASE EndArray
      BY <1>1, <2>1, <2>3, EndArrayStack
    <2>4. CASE LeaveArrays
      BY <1>1, <2>1, <2>4, LeaveArraysStack
    <2>5. CASE NextMember
      BY <1>1, <2>1, <2>5, NextMemberStack
    <2>6. CASE EndStruct
      BY <1>1, <2>1, <2>6, EndStructStack
    <2>7. CASE NoMember
      BY <1>1, <2>1, <2>7, NoMemberStack
    <2>8. CASE UpdatePath \/ PathUpdated
      BY <1>1, <2>1, <2>8, UpdatePathStack
    <2>9. CASE EnterStruct
      BY <1>1, <2>1, <2>9, EnterStructStack
    <2>10. CASE EnterStructFails
      BY <1>1, <2>1, <2>10, EnterStructFailsStack
    <2> QED
      BY <1>3, <2>2, <2>3, <2>4, <2>5, <2>6, <2>7, <2>8, <2>9, <2>10 DEF Continue, PathStep
  <1>4. ASSUME NEW apdu \in APDU, StructImplName(apdu) PROVE WholeInv' /\ Carries
    BY <1>1, <1>4, SetRootStack DEF StructImplName
  <1>5. ASSUME NEW apdu \in APDU, StructImplField(apdu) PROVE WholeInv' /\ Carries
    <2>1. apdu.data \in Seq(Byte)
      BY <1>5, HostAssumption DEF APDU, StructImplField
    <2> QED
      BY <1>1, <1>5, <2>1, FieldHashStack DEF StructImplField
  <1>6. ASSUME NEW apdu \in APDU, StructImplArray(apdu) PROVE WholeInv' /\ Carries
    <2>1. apdu.size \in Byte
      BY <1>6, HostAssumption DEF APDU, StructImplArray
    <2> QED
      BY <1>1, <1>6, <2>1, NewArrayStack DEF StructImplArray
  <1>7. ASSUME NEW apdu \in APDU, Unknown(apdu) PROVE WholeInv' /\ Carries
    BY <1>7, UnsoundCarries DEF Unknown, Sound, WholeInv, memVars
  <1> QED
    BY <1>2, <1>3, <1>4, <1>5, <1>6, <1>7 DEF Next, handle_apdu

(* Whatever arrays are opened: the root has its context in its place.      *)
RootInv == DInv /\ WholeInv /\ (Sound /\ depth_count > 0 => Mirrors(1))

LEMMA RootInductive == Spec => []RootInv
  <1>1. Init => RootInv
    BY PathStarts, StackStarts DEF RootInv
  <1>2. RootInv /\ [Next]_vars => RootInv'
    <2> SUFFICES ASSUME RootInv, [Next]_vars PROVE RootInv'
      OBVIOUS
    <2>1. DInv /\ WholeInv /\ DInv' /\ WholeInv' /\ Carries /\ (Sound' => Sound)
      BY PathNext, StackNext, FailuresStay DEF RootInv
    <2>2. ASSUME Sound', depth_count' > 0 PROVE Mirrors(1)'
      <3>1. depth_count \in Nat /\ depth_count' \in Nat
        BY <2>1, PathTypes DEF DInv, IInv, TypeOK, depth_count
      <3>2. 1 \in 1..depth_count'
        BY <2>2, <3>1
      <3>3. 1 <= depth_count => Mirrors(1)
        BY <2>1, <2>2, <3>1 DEF RootInv
      <3> QED
        BY <2>1, <2>2, <3>2, <3>3 DEF Carries
    <2> QED
      BY <2>1, <2>2 DEF RootInv
  <1> QED
    BY <1>1, <1>2, PTL DEF Spec

-----------------------------------------------------------------------------

(* The digest that comes out is of the root's context.                     *)
LEMMA DigestOfRoot ==
    ASSUME RootInv, EndStruct, digests' # digests, ~dropped
    PROVE  LET hashed == SubSeq(digests'[Len(digests')], 2, Len(digests'[Len(digests')]) - 1)
           IN  /\ SubSeq(hashed[1], 1, 2) = <<"type", root>>
               /\ Items(hashed) = 1 + Len(Structs[root])
  <1> DEFINE t == Top.absorbed
             upper == Popped(depths)
  <1>1. Sound /\ ctl = "struct" /\ DInv /\ IInv /\ PathInv
    BY DEF EndStruct, Running, Sound, RootInv, DInv
  <1>2. /\ depth_count > 0 /\ depths[depth_count] + 1 = FieldsHere
        /\ upper = << >> /\ digests' = Append(digests, Keccak(t))
    BY DEF EndStruct, OnField, path_depth_list_pop, Stray, pathVars
  <1>3. /\ Len(heap) = base + depth_count + array_depth_count
        /\ base \in Nat /\ depth_count \in Nat /\ array_depth_count \in Nat
        /\ heap \in Seq(Chunk)
    BY <1>1, PlacesOrdered
  <1>4. depth_count = 1
    <2>1. depths \in Seq(Byte) /\ depths # << >>
      BY <1>1, <1>2, <1>3, PathTypes, EmptySeq DEF depth_count
    <2>2. Len(upper) = depth_count - 1
      BY <2>1, PoppedType DEF depth_count
    <2> HIDE DEF upper
    <2>3. Len(upper) = 0
      BY <1>2
    <2> QED
      BY <1>3, <2>2, <2>3
  <1>5. StructAt(1) = root
    <2>1. Walk[0] = WalkStart(root)
      BY WalkIsWalk, WalkUnfolds
    <2> QED
      BY <2>1 DEF StructAt, WalkStart
  <1>6. depths[1] \in Nat /\ depths[1] + 1 = Len(Structs[root])
    <2>1. 1 \in 1..depth_count
      BY <1>4
    <2> QED
      BY <1>1, <1>2, <1>4, <1>5, <2>1, IndexNumber DEF FieldsHere
  <1>7. Before(arrays, 1) = array_depth_count
    BY <1>1, <1>4, InStruct
  <1>8. PendingAt(1) = 1 /\ Place(1) = Len(heap)
    BY <1>1, <1>3, <1>4, <1>7 DEF PendingAt, Place
  <1>9. Holds(Top, root, 1 + depths[1] + 1)
    <2>1. Mirrors(1)
      BY <1>1, <1>2 DEF RootInv
    <2> QED
      BY <1>5, <1>8, <2>1 DEF Mirrors, Top
  <1>10. 1 + depths[1] + 1 = 1 + Len(Structs[root])
    BY <1>6
  <1>11. t \in Transcript /\ SubSeq(t[1], 1, 2) = <<"type", root>>
         /\ Items(t) = 1 + Len(Structs[root])
    BY <1>9, <1>10, WholeType DEF Holds
  <1>12. digests'[Len(digests')] = Keccak(t)
    <2>1. digests \in Seq(Transcript)
      BY <1>1 DEF IInv, TypeOK
    <2>2. Keccak(t) \in Transcript
      BY <1>11, KeccakType
    <2> QED
      BY <1>2, <2>1, <2>2, AppendProperties, LenProperties
  <1> HIDE DEF t
  <1>13. SubSeq(Keccak(t), 2, Len(Keccak(t)) - 1) = t
    BY <1>11, KeccakInverse
  <1> QED
    BY <1>11, <1>12, <1>13

(* A digest comes out only as the hash of the whole root struct: its type  *)
(* hash, then one item per field, however the members were nested, in what *)
(* order arrays were opened and how values were cut into packets           *)
(* (path_depth_list_pop).                                                  *)
THEOREM DigestIsOfWholeRoot == Spec => DigestIsWholeRoot
  <1>1. RootInv /\ [Next]_vars => [digests' # digests /\ ~dropped =>
          LET hashed == SubSeq(digests'[Len(digests')], 2, Len(digests'[Len(digests')]) - 1)
          IN  /\ SubSeq(hashed[1], 1, 2) = <<"type", root>>
              /\ Items(hashed) = 1 + Len(Structs[root])]_vars
    BY FailuresStay, DigestOfRoot
  <1> QED
    BY <1>1, RootInductive, PTL DEF Spec, DigestIsWholeRoot

-----------------------------------------------------------------------------

MirrorInv ==
    /\ DInv
    /\ WholeInv
    /\ Sound => \A n \in 1..depth_count : Mirrors(n)

LEMMA MirrorStarts == Init => MirrorInv
  <1>1. Init => DInv /\ WholeInv /\ depth_count = 0
    BY PathStarts, StackStarts
  <1> QED
    BY <1>1 DEF MirrorInv

LEMMA MirrorNext == MirrorInv /\ [Next]_vars /\ InPlace => MirrorInv'
  <1> SUFFICES ASSUME MirrorInv, [Next]_vars, InPlace PROVE MirrorInv'
    OBVIOUS
  <1>1. DInv' /\ WholeInv' /\ Carries /\ (Sound' => Sound)
    BY PathNext, StackNext, FailuresStay DEF MirrorInv
  <1>2. ASSUME Sound', NEW n \in 1..depth_count' PROVE Mirrors(n)'
    <2>1. depth_count \in Nat /\ depth_count' \in Nat
      BY <1>1, PathTypes DEF MirrorInv, DInv, IInv, TypeOK, depth_count
    <2>2. n <= depth_count => Mirrors(n)
      BY <1>1, <1>2, <2>1 DEF MirrorInv
    <2> QED
      BY <1>1, <1>2, <2>2 DEF Carries
  <1> QED
    BY <1>1, <1>2 DEF MirrorInv

LEMMA MirrorInvMirrors == MirrorInv => StackMirrorsPath
  <1> SUFFICES ASSUME MirrorInv, Settled, NEW n \in 1..depth_count
               PROVE  /\ ContextOf(n).absorbed # << >>
                      /\ SubSeq(ContextOf(n).absorbed[1], 1, 2) = <<"type", StructAt(n)>>
                      /\ Items(ContextOf(n).absorbed) = 1 + depths[n]
    BY DEF StackMirrorsPath
  <1>1. IInv /\ Sound /\ ctl = "ready"
    BY DEF MirrorInv, DInv, Settled, Running, Sound
  <1>2. arrays \in Seq(ArrayDepth) /\ n \in Nat /\ depths[n] \in Nat
    BY <1>1, PathTypes, IndexNumber
  <1>3. ContextOf(n) = heap[Place(n)]
    BY <1>2, BeforeCounts DEF ContextOf, Place, array_depth_count
  <1>4. 1 + depths[n] + PendingAt(n) = 1 + depths[n]
    BY <1>1, <1>2 DEF PendingAt
  <1>5. Mirrors(n)
    BY <1>1 DEF MirrorInv
  <1> QED
    BY <1>3, <1>4, <1>5 DEF Mirrors, Holds

(* Between two APDUs each struct on the path has its context in its place, *)
(* started on its own type hash and fed with exactly the members before    *)
(* the current one, as long as whoever sends the APDUs opens the array of  *)
(* a struct before the path is in a member of that struct that is a struct *)
(* itself (path_new_array_depth moves the topmost context, whichever it    *)
(* is).                                                                    *)
THEOREM StackMirrorsInPlace == Spec /\ [][InPlace]_vars => []StackMirrorsPath
  <1>1. MirrorInv /\ [Next]_vars /\ [InPlace]_vars => MirrorInv'
    <2>1. UNCHANGED vars => InPlace
      <3>1. UNCHANGED vars => Len(arrays') = Len(arrays)
        BY DEF vars
      <3> SUFFICES ASSUME arrays' = arrays, Len(arrays') > Len(arrays) PROVE FALSE
        BY <3>1 DEF InPlace, vars
      <3> QED
        OBVIOUS
    <2> QED
      BY <2>1, MirrorNext
  <1> QED
    BY <1>1, MirrorStarts, MirrorInvMirrors, PTL DEF Spec

-----------------------------------------------------------------------------

(* Structs that arrays are of hold no structs themselves.                  *)
PlainElements ==
    \A f \in Fields : IS_CUSTOM(f) /\ struct_field_is_array(f) =>
        \A i \in DOMAIN Structs[f.typename] : ~IS_CUSTOM(Structs[f.typename][i])

(* The path then ends inside such a struct.                                *)
LEMMA PlainIsInnermost ==
    ASSUME PlainElements, IInv, Stands(Walk, depths, depth_count), NEW n \in 1..depth_count,
           IS_CUSTOM(Walk[n].field), struct_field_is_array(Walk[n].field), n # depth_count
    PROVE  n = depth_count - 1
  <1> SUFFICES ASSUME n # depth_count - 1 PROVE FALSE
    OBVIOUS
  <1>1. depth_count \in Nat /\ IsWalk(Walk, root, depths)
    BY PathTypes, WalkIsWalk
  <1>2. n + 1 \in 1..(depth_count - 1) /\ n + 1 \in 1..depth_count /\ (n + 1) - 1 = n
    BY <1>1
  <1> DEFINE m == n + 1
             at == depths[m] + 1
  <1>3. Entered(Walk, depths, m) /\ Member(Walk, depths, m)
    BY <1>2 DEF Stands, Entered
  <1>4. /\ Walk[n].field \in Fields
        /\ Walk[n].struct = Walk[n].field.typename
    <2>1. LET f == Structs[Walk[n - 1].struct][depths[n] + 1]
          IN  /\ f \in Fields
              /\ Walk[n] = [struct |-> IF IS_CUSTOM(f) THEN f.typename ELSE Walk[n - 1].struct,
                            field |-> f]
      BY <1>1, StandsFields, SMTT(30)
    <2> QED
      BY <2>1, SMTT(30)
  <1>5. Walk[m].field = Structs[Walk[n].struct][at]
    <2>1. m \in 1..depth_count /\ m - 1 = n
      BY <1>2
    <2> HIDE DEF m
    <2>2. LET f == Structs[Walk[m - 1].struct][depths[m] + 1]
          IN  Walk[m] = [struct |-> IF IS_CUSTOM(f) THEN f.typename ELSE Walk[m - 1].struct,
                         field |-> f]
      BY <1>1, <2>1, StandsFields, SMTT(30)
    <2> QED
      BY <2>1, <2>2
  <1>6. at \in DOMAIN Structs[Walk[n].struct]
    <2>1. /\ Walk[n].struct \in StructNames /\ depths[m] \in Nat
          /\ depths[m] < Len(Structs[Walk[n].struct])
      BY <1>2, <1>3 DEF Member
    <2>2. Structs[Walk[n].struct] \in Seq(Field)
      BY <2>1, SchemaAssumption
    <2>3. /\ DOMAIN Structs[Walk[n].struct] = 1..Len(Structs[Walk[n].struct])
          /\ Len(Structs[Walk[n].struct]) \in Nat
      BY <2>2, LenProperties
    <2> QED
      BY <2>1, <2>3
  <1>7. ~IS_CUSTOM(Structs[Walk[n].struct][at])
    BY <1>4, <1>6 DEF PlainElements
  <1> QED
    BY <1>3, <1>5, <1>7 DEF Entered

(* Only path_new_array_depth() opens an array.                             *)
LEMMA OpensOneArray ==
    ASSUME IInv, [Next]_vars, Len(arrays') > Len(arrays)
    PROVE  \E n \in 1..depth_count : \E size \in Byte :
               /\ FirstToOpen(n)
               /\ arrays' = Append(arrays, [path_index |-> n - 1, size |-> size])
               /\ Running("ready")
  <1>1. arrays \in Seq(ArrayDepth) /\ Len(arrays) \in Nat
    BY PathTypes, LenProperties
  <1>2. arrays' # arrays
    BY <1>1
  <1>3. ~NextElement
    <2> SUFFICES ASSUME NextElement PROVE FALSE
      OBVIOUS
    <2>1. arrays' = [arrays EXCEPT ![array_depth_count].size = ElementsLeft]
      BY DEF NextElement
    <2>2. Len(arrays') = Len(arrays)
      BY <1>1, <2>1
    <2> QED
      BY <1>1, <2>2
  <1>4. ~EndArray
    <2> SUFFICES ASSUME EndArray PROVE FALSE
      OBVIOUS
    <2>1. arrays' = Popped(arrays) /\ arrays # << >>
      <3>1. array_depth_count > 0
        BY DEF EndArray, InArray
      <3>2. arrays # << >>
        BY <1>1, <3>1, EmptySeq DEF array_depth_count
      <3> QED
        BY <1>2, <3>2 DEF EndArray, array_depth_list_pop, Stray, pathVars
    <2>2. Len(arrays') = Len(arrays) - 1
      BY <1>1, <2>1, PoppedType
    <2> QED
      BY <1>1, <2>2
  <1>5. ASSUME NEW name PROVE ~path_set_root(name)
    <2> SUFFICES ASSUME path_set_root(name) PROVE FALSE
      OBVIOUS
    <2>1. Len(arrays') = 0
      BY <1>2 DEF path_set_root, TypeHashLeaks
    <2> QED
      BY <1>1, <2>1
  <1>6. ~Continue
    BY <1>2, <1>3, <1>4 DEF Continue, PathStep, Stray, TypeHashLeaks, LeaveArrays, NextMember,
       EndStruct, path_depth_list_pop, NoMember, UpdatePath, PathUpdated, EnterStruct,
       EnterStructFails, pathVars
  <1>7. \E apdu \in APDU : StructImplArray(apdu)
    <2>1. ASSUME NEW apdu, StructImplField(apdu) PROVE FALSE
      BY <1>2, <2>1 DEF StructImplField, field_hash, NoField, KeepWaiting, FinishValue, Stray,
         pathVars
    <2>2. ASSUME NEW apdu, Unknown(apdu) PROVE FALSE
      BY <1>2, <2>2 DEF Unknown, pathVars
    <2>3. ASSUME NEW apdu, StructImplName(apdu) PROVE FALSE
      BY <1>5, <2>3 DEF StructImplName
    <2>4. arrays' = arrays \/ Next
      BY DEF vars
    <2> QED
      BY <1>2, <1>6, <2>1, <2>2, <2>3, <2>4 DEF Next, handle_apdu
  <1>8. PICK size \in Byte : path_new_array_depth(size)
    BY <1>7, HostAssumption DEF StructImplArray, APDU
  <1>9. Running("ready") /\ \E n \in 1..depth_count : FirstToOpen(n) /\ OpenArray(n, size)
    BY <1>2, <1>8 DEF path_new_array_depth, Stray, pathVars
  <1>10. PICK n \in 1..depth_count : FirstToOpen(n) /\ OpenArray(n, size)
    BY <1>9
  <1>11. arrays' = Append(arrays, [path_index |-> n - 1, size |-> size])
    BY <1>2, <1>10 DEF OpenArray, Stray, pathVars
  <1> QED
    BY <1>9, <1>10, <1>11

LEMMA PlainInPlace ==
    ASSUME PlainElements, DInv, [Next]_vars
    PROVE  InPlace
  <1> SUFFICES ASSUME ~dropped, Len(arrays') > Len(arrays),
                      NEW p, p = arrays'[Len(arrays')].path_index,
                      IS_CUSTOM(get_nth_field_from_path(p + 1))
               PROVE  p = depth_count - 2
    BY DEF InPlace
  <1>1. IInv /\ PathInv
    BY DEF DInv
  <1>2. PICK n \in 1..depth_count : \E size \in Byte :
            /\ FirstToOpen(n)
            /\ arrays' = Append(arrays, [path_index |-> n - 1, size |-> size])
            /\ Running("ready")
    BY <1>1, OpensOneArray
  <1>3. PICK size \in Byte : arrays' = Append(arrays, [path_index |-> n - 1, size |-> size])
    BY <1>2
  <1>4. arrays \in Seq(ArrayDepth) /\ depth_count \in Nat /\ n \in Nat \ {0} /\ n - 1 \in Byte
    BY <1>1, PathTypes DEF Byte
  <1>5. p = n - 1 /\ p + 1 = n
    <2> DEFINE new == [path_index |-> n - 1, size |-> size]
    <2>1. new \in ArrayDepth /\ new.path_index = n - 1
      BY <1>4 DEF ArrayDepth
    <2> HIDE DEF new
    <2>2. arrays'[Len(arrays')] = new
      BY <1>3, <1>4, <2>1, AppendProperties, LenProperties DEF new
    <2> QED
      BY <1>4, <2>1, <2>2
  <1>6. Stands(Walk, depths, depth_count) /\ ~IS_CUSTOM(path_get_field)
    BY <1>1, <1>2, <1>4, StandsNow DEF Running, PathInv, Sound
  <1>7. get_nth_field_from_path(n) = Walk[n].field /\ n # depth_count
    BY <1>4, <1>5, <1>6 DEF get_nth_field_from_path, path_get_field
  <1>8. struct_field_is_array(Walk[n].field) /\ IS_CUSTOM(Walk[n].field)
    BY <1>2, <1>5, <1>7 DEF FirstToOpen, Opens
  <1>9. n = depth_count - 1
    BY <1>1, <1>6, <1>7, <1>8, PlainIsInnermost
  <1> QED
    BY <1>4, <1>5, <1>9

(* Whatever APDUs arrive: with a schema in which no array is of structs    *)
(* that hold structs themselves, each struct on the path has its context   *)
(* in its place between two APDUs, started on its own type hash and fed    *)
(* with exactly the members before the current one.                        *)
THEOREM PlainStackMirrorsPath ==
    ASSUME PlainElements
    PROVE  Spec => []StackMirrorsPath
  <1>1. MirrorInv /\ [Next]_vars => MirrorInv'
    BY PlainInPlace, MirrorNext DEF MirrorInv
  <1> QED
    BY <1>1, MirrorStarts, MirrorInvMirrors, PTL DEF Spec

=============================================================================
