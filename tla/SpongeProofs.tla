---------------------------- MODULE SpongeProofs ----------------------------
(***************************************************************************)
(* For every message and every way to cut it, what a hash context holds    *)
(* depends on the bytes alone, and the digest it gives is the Keccak-256   *)
(* of them.                                                                *)
(*                                                                         *)
(* Not by an induction over calls only: what one call of sha3_Update()     *)
(* leaves is shown to be what feeding it byte by byte leaves               *)
(* (UpdateFeeds), whether the bytes complete a word that was begun, are    *)
(* mixed as whole words or wait in saved; and a run of bytes may be        *)
(* interrupted anywhere (UpdateTwice). The five steps of a round are those *)
(* of the definition, read by its coordinates (SameRound), and so is the   *)
(* permutation (SamePermutation). Between two words the state is that of   *)
(* the definition after the last whole block, with the bits of the padded  *)
(* message in as many lanes as words were mixed (Stage); sha3_Finalize()   *)
(* puts in the rest of the block, the padding included (FinalizeAbsorbs).  *)
(* Of the tables of sha3.c the proofs take what TLC computes               *)
(* (TablesAssumption).                                                     *)
(***************************************************************************)
EXTENDS Sponge, SequenceTheorems, TLAPS

LEMMA WordSizes == WORD = 8 /\ BITS = 64 /\ SPONGE_WORDS = 25 /\ KECCAK_ROUNDS = 24
  BY DEF WORD, BITS, SPONGE_WORDS, KECCAK_ROUNDS

Bit == 0..(BITS - 1)

LEMMA IsState ==
    ASSUME NEW s PROVE s \in State <=> s \in [1..25 -> SUBSET (0..63)]
  BY WordSizes DEF State

LEMMA Remainder == ASSUME NEW n \in Int, NEW m \in Nat \ {0} PROVE n % m \in 0..(m - 1)
  OBVIOUS

LEMMA XorType ==
    ASSUME NEW v \in SUBSET (0..63), NEW w \in SUBSET (0..63)
    PROVE  Xor(v, w) \in SUBSET (0..63)
  BY DEF Xor

LEMMA TurnType ==
    ASSUME NEW w \in SUBSET (0..63), NEW n \in Nat
    PROVE  ROTL64(w, n) \in SUBSET (0..63)
  <1>1. ASSUME NEW b \in w PROVE (b + n) % BITS \in 0..63
    <2>1. b + n \in Int /\ BITS \in Nat \ {0} /\ BITS = 64
      BY WordSizes
    <2> QED
      BY <2>1, Remainder
  <1> QED
    BY <1>1 DEF ROTL64

LEMMA FifthWord ==
    ASSUME NEW k \in Int PROVE (k % 5) + 1 \in 1..5
  BY Remainder

LEMMA ThetaType == ASSUME NEW s \in State PROVE Theta(s) \in State
  <1>1. s \in [1..25 -> SUBSET (0..63)]
    BY IsState
  <1> DEFINE bc(i) == Xor(s[i], Xor(s[i + 5], Xor(s[i + 10], Xor(s[i + 15], s[i + 20]))))
             t(i) == Xor(bc(((i + 3) % 5) + 1), ROTL64(bc((i % 5) + 1), 1))
  <1>2. ASSUME NEW i \in 1..5 PROVE bc(i) \in SUBSET (0..63)
    <2>1. /\ s[i] \in SUBSET (0..63) /\ s[i + 5] \in SUBSET (0..63) /\ s[i + 10] \in SUBSET (0..63)
          /\ s[i + 15] \in SUBSET (0..63) /\ s[i + 20] \in SUBSET (0..63)
      BY <1>1
    <2>2. Xor(s[i + 15], s[i + 20]) \in SUBSET (0..63)
      BY <2>1, XorType
    <2>3. Xor(s[i + 10], Xor(s[i + 15], s[i + 20])) \in SUBSET (0..63)
      BY <2>1, <2>2, XorType
    <2>4. Xor(s[i + 5], Xor(s[i + 10], Xor(s[i + 15], s[i + 20]))) \in SUBSET (0..63)
      BY <2>1, <2>3, XorType
    <2> QED
      BY <2>1, <2>4, XorType
  <1> HIDE DEF bc
  <1>3. ASSUME NEW i \in 1..5 PROVE t(i) \in SUBSET (0..63)
    <2>1. ((i + 3) % 5) + 1 \in 1..5 /\ (i % 5) + 1 \in 1..5
      BY FifthWord
    <2>2. ROTL64(bc((i % 5) + 1), 1) \in SUBSET (0..63)
      BY <1>2, <2>1, TurnType
    <2> QED
      BY <1>2, <2>1, <2>2, XorType
  <1>4. Theta(s) = [k \in 1..25 |-> Xor(s[k], t(((k - 1) % 5) + 1))]
    BY WordSizes DEF Theta, bc
  <1> HIDE DEF t
  <1>5. ASSUME NEW k \in 1..25 PROVE Xor(s[k], t(((k - 1) % 5) + 1)) \in SUBSET (0..63)
    <2>1. ((k - 1) % 5) + 1 \in 1..5
      BY FifthWord
    <2>2. s[k] \in SUBSET (0..63)
      BY <1>1
    <2> QED
      BY <1>3, <2>1, <2>2, XorType
  <1> QED
    BY <1>4, <1>5, IsState

LEMMA PlacesVisited ==
    \A k \in 2..25 : StepTo[k] \in 1..24 /\ keccakf_piln[StepTo[k]] = k - 1
  <1>1. ASSUME NEW k \in 2..25 PROVE \E i \in 1..24 : keccakf_piln[i] = k - 1
    BY DEF keccakf_piln
  <1>2. ASSUME NEW k \in 2..25
        PROVE  StepTo[k] = CHOOSE i \in 1..24 : keccakf_piln[i] = k - 1
    BY WordSizes DEF StepTo
  <1> QED
    BY <1>1, <1>2

LEMMA RhoPiType == ASSUME NEW s \in State PROVE RhoPi(s) \in State
  <1>1. s \in [1..25 -> SUBSET (0..63)]
    BY IsState
  <1>2. \A i \in 1..24 : keccakf_piln[i] \in 1..24 /\ keccakf_rotc[i] \in Nat
    BY DEF keccakf_piln, keccakf_rotc
  <1>3. ASSUME NEW i \in 1..24 PROVE From(i) + 1 \in 1..25
    <2>1. CASE i = 1
      BY <2>1 DEF From
    <2>2. CASE i # 1
      <3>1. i - 1 \in 1..24
        BY <2>2
      <3> QED
        BY <1>2, <2>2, <3>1 DEF From
    <2> QED
      BY <2>1, <2>2
  <1>4. RhoPi(s) = [k \in 1..25 |->
                       IF k = 1 THEN s[1]
                       ELSE ROTL64(s[From(StepTo[k]) + 1], keccakf_rotc[StepTo[k]])]
    BY WordSizes DEF RhoPi
  <1>5. ASSUME NEW k \in 1..25, k # 1
        PROVE  ROTL64(s[From(StepTo[k]) + 1], keccakf_rotc[StepTo[k]]) \in SUBSET (0..63)
    <2>1. StepTo[k] \in 1..24
      BY <1>5, PlacesVisited
    <2>2. s[From(StepTo[k]) + 1] \in SUBSET (0..63) /\ keccakf_rotc[StepTo[k]] \in Nat
      BY <1>1, <1>2, <1>3, <2>1
    <2> QED
      BY <2>2, TurnType
  <1> QED
    BY <1>1, <1>4, <1>5, IsState

LEMMA ChiType == ASSUME NEW s \in State PROVE Chi(s) \in State
  <1>1. s \in [1..25 -> SUBSET (0..63)]
    BY IsState
  <1> DEFINE next(k, n) == k - ((k - 1) % 5) + ((k - 1 + n) % 5)
  <1>2. Chi(s) = [k \in 1..25 |-> Xor(s[k], s[next(k, 2)] \ s[next(k, 1)])]
    BY WordSizes DEF Chi
  <1>3. ASSUME NEW k \in 1..25, NEW n \in 1..2 PROVE next(k, n) \in 1..25
    OBVIOUS
  <1> HIDE DEF next
  <1>4. ASSUME NEW k \in 1..25
        PROVE  Xor(s[k], s[next(k, 2)] \ s[next(k, 1)]) \in SUBSET (0..63)
    <2>1. s[k] \in SUBSET (0..63) /\ s[next(k, 2)] \in SUBSET (0..63)
      BY <1>1, <1>3
    <2>2. s[next(k, 2)] \ s[next(k, 1)] \in SUBSET (0..63)
      BY <2>1
    <2> QED
      BY <2>1, <2>2, XorType
  <1> QED
    BY <1>2, <1>4, IsState, ZenonT(30)

LEMMA IotaType ==
    ASSUME NEW s \in State, NEW round \in 1..24
    PROVE  Iota(s, round) \in State
  <1>1. s \in [1..25 -> SUBSET (0..63)]
    BY IsState
  <1>2. keccakf_rndc[round] \in SUBSET (0..63)
    BY DEF keccakf_rndc
  <1> DEFINE Words == SUBSET (0..63)
             one == <<Xor(Head(s), keccakf_rndc[round])>>
  <1>3. /\ s \in [1..25 -> Words] /\ 25 \in Nat
        /\ \A w \in Words : Xor(w, keccakf_rndc[round]) \in Words
    BY <1>1, <1>2, XorType
  <1>4. \A f : f \in State <=> f \in [1..25 -> Words]
    BY IsState
  <1> HIDE DEF Words
  <1>5. s \in Seq(Words) /\ Len(s) = 25 /\ s # << >>
    <2>1. s \in Seq(Words)
      BY <1>3, SeqDef
    <2>2. DOMAIN s = 1..25 /\ DOMAIN s = 1..Len(s) /\ Len(s) \in Nat
      BY <1>3, <2>1, LenProperties
    <2>3. Len(s) = 25
      BY <2>2
    <2>4. s # << >>
      BY <2>3, EmptySeq
    <2> QED
      BY <2>1, <2>3, <2>4
  <1>6. /\ Head(s) \in Words /\ Tail(s) \in Seq(Words) /\ Len(Tail(s)) = 24
    BY <1>5, HeadTailProperties
  <1>7. one \in Seq(Words) /\ Len(one) = 1
    BY <1>3, <1>6
  <1>8. Iota(s, round) = one \o Tail(s)
    BY DEF Iota
  <1> HIDE DEF one
  <1>9. one \o Tail(s) \in Seq(Words) /\ Len(one \o Tail(s)) = 25
    <2> DEFINE rest == Tail(s)
    <2>1. rest \in Seq(Words) /\ Len(rest) = 24
      BY <1>6
    <2> HIDE DEF rest
    <2>2. one \o rest \in Seq(Words) /\ Len(one \o rest) = Len(one) + Len(rest)
      BY <1>7, <2>1, ConcatProperties
    <2>3. Len(one \o rest) = 25
      BY <1>7, <2>1, <2>2
    <2> QED
      BY <2>2, <2>3, Zenon DEF rest
  <1>10. one \o Tail(s) \in [1..25 -> Words]
    BY <1>9, LenProperties
  <1> QED
    BY <1>4, <1>8, <1>10

-----------------------------------------------------------------------------

OneRound(st, round) == Iota(Chi(RhoPi(Theta(st))), round)

LEMMA OneRoundType ==
    ASSUME NEW st \in State, NEW round \in 1..24
    PROVE  OneRound(st, round) \in State
  BY ThetaType, RhoPiType, ChiType, IotaType DEF OneRound

(* What the last n rounds do, as a function of the state.                  *)
LastRounds(F, arg, n) == [st \in State |-> F[OneRound(st, 25 - n)]]

Rounds == INSTANCE Recursion WITH Step <- LastRounds

Permutes(f) ==
    f = [at \in (1..(KECCAK_ROUNDS + 1)) \X State |->
            IF at[1] > KECCAK_ROUNDS THEN at[2]
            ELSE f[<<at[1] + 1, OneRound(at[2], at[1])>>]]

Mixed == CHOOSE f : Permutes(f)

LEMMA PermutationExists == \E f : Permutes(f)
  <1> DEFINE none == [st \in State |-> st]
  <1>1. PICK F : Rounds!IsRun(F, none, none)
    BY Rounds!RunExists
  <1>2. /\ \A st \in State : F[0][st] = st
        /\ \A n \in Nat \ {0} : \A st \in State : F[n][st] = F[n - 1][OneRound(st, 25 - n)]
    <2>1. none = [st \in State |-> st]
      OBVIOUS
    <2> HIDE DEF none
    <2>2. F[0] = none
      BY <1>1 DEF Rounds!IsRun
    <2>3. ASSUME NEW n \in Nat \ {0} PROVE F[n] = LastRounds(F[n - 1], none[n], n)
      BY <1>1 DEF Rounds!IsRun
    <2>4. ASSUME NEW n \in Nat \ {0}, NEW st \in State
          PROVE  F[n][st] = F[n - 1][OneRound(st, 25 - n)]
      BY <2>3, ZenonT(30) DEF LastRounds
    <2> QED
      BY <2>1, <2>2, <2>4
  <1> HIDE DEF none
  <1> DEFINE f == [at \in (1..(KECCAK_ROUNDS + 1)) \X State |-> F[25 - at[1]][at[2]]]
  <1>3. ASSUME NEW at \in (1..(KECCAK_ROUNDS + 1)) \X State
        PROVE  f[at] = IF at[1] > KECCAK_ROUNDS THEN at[2]
                       ELSE f[<<at[1] + 1, OneRound(at[2], at[1])>>]
    <2>1. at[1] \in 1..25 /\ at[2] \in State /\ f[at] = F[25 - at[1]][at[2]]
      BY WordSizes
    <2> DEFINE round == at[1]
               st == at[2]
    <2>2. round \in 1..25 /\ st \in State /\ f[at] = F[25 - round][st]
      BY <2>1
    <2> HIDE DEF round, st, f
    <2>3. CASE round = 25
      <3>1. 25 - round = 0 /\ round > 24
        BY <2>3
      <3> QED
        BY <1>2, <2>2, <3>1, WordSizes DEF round, st
    <2>4. CASE round # 25
      <3>1. round \in 1..24 /\ 25 - round \in Nat \ {0} /\ (25 - round) - 1 = 25 - (round + 1)
            /\ 25 - (25 - round) = round /\ round + 1 \in 1..25 /\ ~(round > 24)
        BY <2>2, <2>4
      <3>2. OneRound(st, round) \in State
        BY <2>2, <3>1, OneRoundType
      <3>3. F[25 - round][st] = F[25 - (round + 1)][OneRound(st, round)]
        BY <1>2, <2>2, <3>1
      <3> DEFINE after == OneRound(st, round)
      <3>4. after \in State
        BY <3>2
      <3> HIDE DEF after
      <3>5. f[<<round + 1, after>>] = F[25 - (round + 1)][after]
        BY <3>1, <3>4, WordSizes DEF f
      <3> QED
        BY <2>2, <3>1, <3>3, <3>5, WordSizes DEF after, round, st
    <2> QED
      BY <2>3, <2>4
  <1>4. f = [at \in (1..(KECCAK_ROUNDS + 1)) \X State |-> f[at]]
    OBVIOUS
  <1> HIDE DEF f
  <1>5. f = [at \in (1..(KECCAK_ROUNDS + 1)) \X State |->
                IF at[1] > KECCAK_ROUNDS THEN at[2]
                ELSE f[<<at[1] + 1, OneRound(at[2], at[1])>>]]
    BY <1>3, <1>4
  <1>6. Permutes(f)
    BY <1>5 DEF Permutes
  <1> QED
    BY <1>6

LEMMA MixedRound ==
    ASSUME NEW round \in 1..25, NEW st \in State
    PROVE  Mixed[<<round, st>>] =
               IF round > 24 THEN st ELSE Mixed[<<round + 1, OneRound(st, round)>>]
  <1>1. Permutes(Mixed)
    BY PermutationExists DEF Mixed
  <1> DEFINE at == <<round, st>>
  <1>2. at \in (1..(KECCAK_ROUNDS + 1)) \X State /\ at[1] = round /\ at[2] = st
    BY WordSizes
  <1> HIDE DEF at
  <1>3. Mixed[at] = IF at[1] > KECCAK_ROUNDS THEN at[2]
                    ELSE Mixed[<<at[1] + 1, OneRound(at[2], at[1])>>]
    <2> DEFINE dom == (1..(KECCAK_ROUNDS + 1)) \X State
               body(p) == IF p[1] > KECCAK_ROUNDS THEN p[2]
                          ELSE Mixed[<<p[1] + 1, OneRound(p[2], p[1])>>]
    <2>1. Mixed = [p \in dom |-> body(p)]
      BY <1>1 DEF Permutes
    <2>2. at \in dom
      BY <1>2
    <2> HIDE DEF dom, body
    <2>3. Mixed[at] = body(at)
      BY <2>1, <2>2
    <2> QED
      BY <2>3 DEF body
  <1> QED
    BY <1>2, <1>3, WordSizes DEF at

LEMMA MixedIsPermutation == ASSUME NEW s PROVE keccakf(s) = Mixed[<<1, s>>]
  BY DEF keccakf, Mixed, Permutes, OneRound

MixedType(n) == \A st \in State : Mixed[<<25 - n, st>>] \in State

LEMMA PermutationType == ASSUME NEW s \in State PROVE keccakf(s) \in State
  <1> DEFINE S == {n \in Nat : n <= 24 => MixedType(n)}
  <1>1. 0 \in S
    <2>1. ASSUME NEW st \in State PROVE Mixed[<<25 - 0, st>>] \in State
      <3>1. 25 - 0 \in 1..25 /\ 25 - 0 > 24
        OBVIOUS
      <3> QED
        BY <3>1, MixedRound
    <2> QED
      BY <2>1 DEF MixedType
  <1>2. ASSUME NEW n \in S PROVE n + 1 \in S
    <2>1. n \in Nat /\ n + 1 \in Nat
      BY <1>2
    <2>2. ASSUME n + 1 <= 24, NEW st \in State PROVE Mixed[<<25 - (n + 1), st>>] \in State
      <3> DEFINE round == 25 - (n + 1)
      <3>1. /\ round \in 1..24 /\ round \in 1..25 /\ ~(round > 24)
            /\ round + 1 = 25 - n /\ n <= 24
        BY <2>1, <2>2
      <3> HIDE DEF round
      <3>2. OneRound(st, round) \in State
        BY <3>1, OneRoundType
      <3>3. Mixed[<<round, st>>] = Mixed[<<25 - n, OneRound(st, round)>>]
        BY <3>1, MixedRound
      <3>4. Mixed[<<25 - n, OneRound(st, round)>>] \in State
        BY <1>2, <3>1, <3>2 DEF MixedType
      <3> QED
        BY <3>3, <3>4 DEF round
    <2>3. n + 1 <= 24 => MixedType(n + 1)
      BY <2>2 DEF MixedType
    <2> QED
      BY <2>1, <2>3
  <1> HIDE DEF S
  <1>3. S \in SUBSET Nat
    BY DEF S
  <1>4. S = Nat
    BY <1>1, <1>2, <1>3, Rounds!SetInduction
  <1>5. 24 \in S /\ 25 - 24 = 1
    BY <1>4
  <1>6. Mixed[<<1, s>>] \in State
    BY <1>5 DEF S, MixedType
  <1> QED
    BY <1>6, MixedIsPermutation

-----------------------------------------------------------------------------

(* A round of the reference, numbered from 0.                              *)
ReferenceRound(A, round) == IotaStep(ChiStep(RhoPiSteps(ThetaStep(A))), round)

LEMMA SameXor == \A v, w : Xor(v, w) = Plus(v, w)
  BY DEF Xor, Plus

LEMMA SameTurn == \A w, n : ROTL64(w, n) = Turn(w, n)
  BY DEF ROTL64, Turn, BITS, WORD

LEMMA Position ==
    ASSUME NEW k \in 1..25
    PROVE  /\ X(k) \in 0..4 /\ Y(k) \in 0..4 /\ k = 5 * Y(k) + X(k) + 1
           /\ (k - 1) % 5 = X(k)
  BY DEF X, Y

LEMMA SameTheta == ASSUME NEW s \in State PROVE Theta(s) = ThetaStep(s)
  <1> DEFINE bc(i) == Xor(s[i], Xor(s[i + 5], Xor(s[i + 10], Xor(s[i + 15], s[i + 20]))))
             t(i) == Xor(bc(((i + 3) % 5) + 1), ROTL64(bc((i % 5) + 1), 1))
             C(x) == Plus(Lane(s, x, 0), Plus(Lane(s, x, 1), Plus(Lane(s, x, 2),
                         Plus(Lane(s, x, 3), Lane(s, x, 4)))))
             u(k) == Plus(C(X(k) + 4), Turn(C(X(k) + 1), 1))
  <1>1. ASSUME NEW x \in Nat PROVE C(x) = bc((x % 5) + 1)
    <2> DEFINE i == (x % 5) + 1
    <2>1. i \in 1..5
      OBVIOUS
    <2>2. ASSUME NEW y \in 0..4 PROVE 5 * (y % 5) + (x % 5) + 1 = i + 5 * y
      OBVIOUS
    <2>3. \A y \in 0..4 : Lane(s, x, y) = s[i + 5 * y]
      BY <2>2 DEF Lane
    <2> HIDE DEF i
    <2>4. /\ Lane(s, x, 0) = s[i] /\ Lane(s, x, 1) = s[i + 5] /\ Lane(s, x, 2) = s[i + 10]
          /\ Lane(s, x, 3) = s[i + 15] /\ Lane(s, x, 4) = s[i + 20]
      BY <2>1, <2>3
    <2>5. C(x) = bc(i)
      BY <2>4, SameXor
    <2> QED
      BY <2>5 DEF i
  <1> HIDE DEF bc, C
  <1>2. ASSUME NEW k \in 1..25 PROVE t(((k - 1) % 5) + 1) = u(k)
    <2>1. X(k) \in 0..4 /\ (k - 1) % 5 = X(k)
      BY Position
    <2>2. ((X(k) + 1) + 3) % 5 = (X(k) + 4) % 5 /\ X(k) + 4 \in Nat /\ X(k) + 1 \in Nat
      BY <2>1
    <2>3. C(X(k) + 4) = bc(((X(k) + 4) % 5) + 1) /\ C(X(k) + 1) = bc(((X(k) + 1) % 5) + 1)
      BY <1>1, <2>2
    <2>4. t(X(k) + 1) = u(k)
      BY <2>2, <2>3, SameXor, SameTurn
    <2> HIDE DEF t, u
    <2> QED
      BY <2>1, <2>4
  <1>3. Theta(s) = [k \in 1..25 |-> Xor(s[k], t(((k - 1) % 5) + 1))]
    BY WordSizes DEF Theta, bc
  <1>4. ThetaStep(s) = [k \in 1..25 |-> Plus(s[k], u(k))]
    BY DEF ThetaStep, C
  <1> HIDE DEF t, u
  <1>5. \A k \in 1..25 : Xor(s[k], t(((k - 1) % 5) + 1)) = Plus(s[k], u(k))
    BY <1>2, SameXor
  <1> QED
    BY <1>3, <1>4, <1>5

LEMMA TurnModulo ==
    ASSUME NEW w \in SUBSET (0..63), NEW n \in Nat
    PROVE  Turn(w, n % 64) = Turn(w, n)
  <1>1. \A b \in w : (b + (n % 64)) % 64 = (b + n) % 64
    OBVIOUS
  <1> QED
    BY <1>1 DEF Turn

LEMMA TurnNothing == ASSUME NEW w \in SUBSET (0..63) PROVE Turn(w, 0) = w
  <1>1. \A b \in w : (b + 0) % 64 = b
    OBVIOUS
  <1> QED
    BY <1>1 DEF Turn

LEMMA SameRhoPi == ASSUME NEW s \in State PROVE RhoPi(s) = RhoPiSteps(s)
  <1>1. s \in [1..25 -> SUBSET (0..63)]
    BY IsState
  <1> DEFINE lane(k) == 5 * (X(k) % 5) + ((X(k) + 3 * Y(k)) % 5) + 1
             here(k) == IF k = 1 THEN s[1]
                        ELSE ROTL64(s[From(StepTo[k]) + 1], keccakf_rotc[StepTo[k]])
  <1>2. RhoPi(s) = [k \in 1..25 |-> here(k)]
    BY WordSizes DEF RhoPi
  <1>3. RhoPiSteps(s) = [k \in 1..25 |-> Turn(s[lane(k)], Offset[lane(k)])]
    BY DEF RhoPiSteps, Lane
  <1>4. ASSUME NEW k \in 1..25 PROVE here(k) = Turn(s[lane(k)], Offset[lane(k)])
    <2>1. CASE k = 1
      <3>1. lane(k) = 1
        BY <2>1 DEF X, Y
      <3>2. Offset[1] = 0
        BY DEF Offset
      <3>3. here(k) = s[1] /\ s[1] \in SUBSET (0..63)
        BY <1>1, <2>1
      <3> HIDE DEF here, lane
      <3> QED
        BY <3>1, <3>2, <3>3, TurnNothing
    <2>2. CASE k # 1
      <3>1. k \in 2..SPONGE_WORDS
        BY <2>2, WordSizes
      <3>2. /\ From(StepTo[k]) + 1 = lane(k) /\ keccakf_rotc[StepTo[k]] = Offset[lane(k)] % BITS
            /\ Offset[lane(k)] \in Nat
        BY <3>1, TablesAssumption
      <3>3. lane(k) \in 1..25
        BY Position
      <3>4. here(k) = Turn(s[lane(k)], Offset[lane(k)] % 64)
        BY <2>2, <3>2, SameTurn, WordSizes
      <3> HIDE DEF here, lane
      <3> QED
        BY <1>1, <3>2, <3>3, <3>4, TurnModulo
    <2> QED
      BY <2>1, <2>2
  <1> HIDE DEF here, lane
  <1> QED
    BY <1>2, <1>3, <1>4

LEMMA SameChi == ASSUME NEW s \in State PROVE Chi(s) = ChiStep(s)
  <1> DEFINE next(k, n) == k - ((k - 1) % 5) + ((k - 1 + n) % 5)
  <1>1. Chi(s) = [k \in 1..25 |-> Xor(s[k], s[next(k, 2)] \ s[next(k, 1)])]
    BY WordSizes DEF Chi
  <1>2. ChiStep(s) = [k \in 1..25 |-> Plus(s[k], Lane(s, X(k) + 2, Y(k))
                                                 \ Lane(s, X(k) + 1, Y(k)))]
    BY DEF ChiStep
  <1>3. ASSUME NEW k \in 1..25, NEW n \in 1..2 PROVE s[next(k, n)] = Lane(s, X(k) + n, Y(k))
    <2>1. X(k) \in 0..4 /\ Y(k) \in 0..4 /\ k = 5 * Y(k) + X(k) + 1 /\ (k - 1) % 5 = X(k)
      BY Position
    <2>2. (k - 1 + n) % 5 = (X(k) + n) % 5 /\ Y(k) % 5 = Y(k)
      <3> DEFINE x == X(k)
                 y == Y(k)
      <3>1. x \in 0..4 /\ y \in 0..4 /\ k - 1 + n = 5 * y + (x + n)
        BY <2>1
      <3> HIDE DEF x, y
      <3>2. (5 * y + (x + n)) % 5 = (x + n) % 5 /\ y % 5 = y
        BY <3>1
      <3> QED
        BY <3>1, <3>2 DEF x, y
    <2>3. next(k, n) = 5 * (Y(k) % 5) + ((X(k) + n) % 5) + 1
      BY <2>1, <2>2
    <2> HIDE DEF next
    <2> QED
      BY <2>3 DEF Lane
  <1> HIDE DEF next
  <1>4. \A k \in 1..25 : Xor(s[k], s[next(k, 2)] \ s[next(k, 1)])
                           = Plus(s[k], Lane(s, X(k) + 2, Y(k)) \ Lane(s, X(k) + 1, Y(k)))
    BY <1>3, SameXor
  <1> QED
    BY <1>1, <1>2, <1>4

LEMMA SameRound ==
    ASSUME NEW s \in State, NEW round \in 1..24
    PROVE  OneRound(s, round) = ReferenceRound(s, round - 1)
  <1>1. Theta(s) \in State /\ RhoPi(Theta(s)) \in State
    BY ThetaType, RhoPiType
  <1>2. Chi(RhoPi(Theta(s))) = ChiStep(RhoPiSteps(ThetaStep(s)))
    BY <1>1, SameTheta, SameRhoPi, SameChi
  <1>3. keccakf_rndc[round] = RoundConstant[round - 1]
    BY TablesAssumption, WordSizes
  <1> QED
    BY <1>2, <1>3, SameXor DEF OneRound, ReferenceRound, Iota, IotaStep

-----------------------------------------------------------------------------

References(f) ==
    f = [at \in (0..24) \X [1..25 -> SUBSET (0..63)] |->
            IF at[1] = 24 THEN at[2]
            ELSE f[<<at[1] + 1, ReferenceRound(at[2], at[1])>>]]

Reference == CHOOSE f : References(f)

LEMMA StatesAre == State = [1..25 -> SUBSET (0..63)]
  BY WordSizes DEF State

LEMMA ReferenceExists == \E f : References(f)
  <1> DEFINE dom == (0..24) \X [1..25 -> SUBSET (0..63)]
             f == [at \in dom |-> Mixed[<<at[1] + 1, at[2]>>]]
  <1>1. ASSUME NEW at \in dom
        PROVE  f[at] = IF at[1] = 24 THEN at[2]
                       ELSE f[<<at[1] + 1, ReferenceRound(at[2], at[1])>>]
    <2> DEFINE n == at[1]
               st == at[2]
    <2>1. n \in 0..24 /\ st \in State /\ f[at] = Mixed[<<n + 1, st>>]
      BY StatesAre
    <2> HIDE DEF n, st, f
    <2>2. n + 1 \in 1..25
      BY <2>1
    <2>3. Mixed[<<n + 1, st>>] =
              IF n + 1 > 24 THEN st ELSE Mixed[<<(n + 1) + 1, OneRound(st, n + 1)>>]
      BY <2>1, <2>2, MixedRound
    <2>4. CASE n = 24
      <3>1. n + 1 > 24
        BY <2>4
      <3> QED
        BY <2>1, <2>3, <2>4, <3>1 DEF n, st
    <2>5. CASE n # 24
      <3>1. n + 1 \in 1..24 /\ ~(n + 1 > 24) /\ (n + 1) - 1 = n /\ n + 1 \in 0..24
        BY <2>1, <2>5
      <3> DEFINE after == OneRound(st, n + 1)
      <3>2. after \in State /\ after = ReferenceRound(st, n)
        BY <2>1, <3>1, OneRoundType, SameRound
      <3>3. f[at] = Mixed[<<(n + 1) + 1, after>>]
        BY <2>1, <2>3, <3>1
      <3> HIDE DEF after
      <3>4. f[<<n + 1, after>>] = Mixed[<<(n + 1) + 1, after>>]
        BY <3>1, <3>2, StatesAre DEF f
      <3> QED
        BY <2>5, <3>2, <3>3, <3>4 DEF n, st
    <2> QED
      BY <2>4, <2>5
  <1>2. f = [at \in dom |-> f[at]]
    OBVIOUS
  <1> HIDE DEF f
  <1>3. f = [at \in dom |-> IF at[1] = 24 THEN at[2]
                            ELSE f[<<at[1] + 1, ReferenceRound(at[2], at[1])>>]]
    BY <1>1, <1>2
  <1> QED
    BY <1>3 DEF References

LEMMA ReferenceUnfolds ==
    ASSUME NEW n \in 0..24, NEW st \in State
    PROVE  Reference[<<n, st>>] =
               IF n = 24 THEN st ELSE Reference[<<n + 1, ReferenceRound(st, n)>>]
  <1>1. References(Reference)
    BY ReferenceExists DEF Reference
  <1> DEFINE at == <<n, st>>
             dom == (0..24) \X [1..25 -> SUBSET (0..63)]
             body(p) == IF p[1] = 24 THEN p[2]
                        ELSE Reference[<<p[1] + 1, ReferenceRound(p[2], p[1])>>]
  <1>2. at \in dom /\ at[1] = n /\ at[2] = st
    BY StatesAre
  <1>3. Reference = [p \in dom |-> body(p)]
    BY <1>1 DEF References
  <1> HIDE DEF at, dom, body
  <1>4. Reference[at] = body(at)
    BY <1>2, <1>3
  <1> QED
    BY <1>2, <1>4 DEF body, at

SameFrom(n) == \A st \in State : Reference[<<24 - n, st>>] = Mixed[<<25 - n, st>>]

(* keccakf() is the permutation of the definition.                         *)
LEMMA SamePermutation == ASSUME NEW s \in State PROVE keccakf(s) = Permutation(s)
  <1> DEFINE S == {n \in Nat : n <= 24 => SameFrom(n)}
  <1>1. 0 \in S
    <2>1. ASSUME NEW st \in State PROVE Reference[<<24 - 0, st>>] = Mixed[<<25 - 0, st>>]
      <3>1. 24 - 0 = 24 /\ 24 \in 0..24 /\ 25 - 0 = 25 /\ 25 \in 1..25 /\ 25 > 24
        OBVIOUS
      <3> QED
        BY <3>1, MixedRound, ReferenceUnfolds, ZenonT(60)
    <2> QED
      BY <2>1 DEF SameFrom
  <1>2. ASSUME NEW n \in S PROVE n + 1 \in S
    <2>1. n \in Nat /\ n + 1 \in Nat
      BY <1>2
    <2>2. ASSUME n + 1 <= 24, NEW st \in State
          PROVE  Reference[<<24 - (n + 1), st>>] = Mixed[<<25 - (n + 1), st>>]
      <3> DEFINE round == 25 - (n + 1)
                 before == 24 - (n + 1)
                 after == OneRound(st, round)
      <3>1. /\ round \in 1..24 /\ round \in 1..25 /\ ~(round > 24)
            /\ before \in 0..24 /\ before # 24 /\ round - 1 = before
            /\ round + 1 = 25 - n /\ before + 1 = 24 - n /\ n <= 24
        BY <2>1, <2>2
      <3> HIDE DEF round, before
      <3>2. after \in State /\ after = ReferenceRound(st, before)
        BY <3>1, OneRoundType, SameRound
      <3>3. Mixed[<<round, st>>] = Mixed[<<25 - n, after>>]
        BY <3>1, MixedRound
      <3>4. Reference[<<before, st>>] = Reference[<<24 - n, after>>]
        <4>1. Reference[<<before, st>>] = Reference[<<before + 1, ReferenceRound(st, before)>>]
          BY <3>1, ReferenceUnfolds
        <4> QED
          BY <3>1, <3>2, <4>1
      <3> HIDE DEF after
      <3>5. Reference[<<24 - n, after>>] = Mixed[<<25 - n, after>>]
        BY <1>2, <3>1, <3>2 DEF SameFrom
      <3> QED
        BY <3>3, <3>4, <3>5 DEF round, before
    <2>3. n + 1 <= 24 => SameFrom(n + 1)
      BY <2>2 DEF SameFrom
    <2> QED
      BY <2>1, <2>3
  <1> HIDE DEF S
  <1>3. S \in SUBSET Nat
    BY DEF S
  <1>4. S = Nat
    BY <1>1, <1>2, <1>3, Rounds!SetInduction
  <1>5. 24 \in S /\ 24 - 24 = 0 /\ 25 - 24 = 1
    BY <1>4
  <1>6. Reference[<<0, s>>] = Mixed[<<1, s>>]
    BY <1>5 DEF S, SameFrom
  <1>7. Permutation(s) = Reference[<<0, s>>]
    BY DEF Permutation, Reference, References, ReferenceRound
  <1> QED
    BY <1>6, <1>7, MixedIsPermutation

-----------------------------------------------------------------------------

Byte == SUBSET (0..7)

(* A context between two calls.                                            *)
Context(c) ==
    /\ c \in [s : State, saved : SUBSET Nat, byteIndex : 0..7, wordIndex : 0..16,
              capacityWords : {8}, keccak : BOOLEAN]
    /\ \A b \in c.saved : b < 8 * c.byteIndex

LEMMA WordOfNone == WordOf(<< >>) = {}
  BY DEF WordOf

LEMMA WordOfBits ==
    ASSUME NEW bytes \in Seq(Byte), NEW w
    PROVE  w \in WordOf(bytes) <=> \E i \in 1..Len(bytes) : \E b \in bytes[i] : w = 8 * (i - 1) + b
  <1>1. DOMAIN bytes = 1..Len(bytes)
    BY LenProperties
  <1> QED
    BY <1>1 DEF WordOf

LEMMA WordOfType ==
    ASSUME NEW bytes \in Seq(Byte)
    PROVE  WordOf(bytes) \in SUBSET Nat /\ \A w \in WordOf(bytes) : w < 8 * Len(bytes)
  <1>1. ASSUME NEW w \in WordOf(bytes) PROVE w \in Nat /\ w < 8 * Len(bytes)
    <2>0. PICK i \in 1..Len(bytes) : \E b \in bytes[i] : w = 8 * (i - 1) + b
      BY WordOfBits
    <2>1. PICK b \in bytes[i] : w = 8 * (i - 1) + b
      BY <2>0
    <2>2. bytes[i] \in Byte /\ Len(bytes) \in Nat
      BY ElementOfSeq, LenProperties
    <2>3. b \in 0..7
      BY <2>2 DEF Byte
    <2> QED
      BY <2>1, <2>2, <2>3
  <1> QED
    BY <1>1

LEMMA WordOfMore ==
    ASSUME NEW bytes \in Seq(Byte), NEW x \in Byte
    PROVE  WordOf(Append(bytes, x)) = WordOf(bytes) \cup {8 * Len(bytes) + b : b \in x}
  <1> DEFINE more == Append(bytes, x)
             n == Len(bytes)
  <1>1. /\ more \in Seq(Byte) /\ Len(more) = n + 1 /\ n \in Nat
        /\ \A i \in 1..n : more[i] = bytes[i]
        /\ more[n + 1] = x
    BY AppendProperties, LenProperties
  <1> HIDE DEF more, n
  <1>2. ASSUME NEW w
        PROVE  w \in WordOf(more) <=>
                   (\E i \in 1..n : \E b \in bytes[i] : w = 8 * (i - 1) + b)
                   \/ \E b \in x : w = 8 * n + b
    <2>1. w \in WordOf(more) <=> \E i \in 1..(n + 1) : \E b \in more[i] : w = 8 * (i - 1) + b
      BY <1>1, WordOfBits
    <2>2. (n + 1) - 1 = n /\ n + 1 \in 1..(n + 1) /\ (\A i \in 1..n : i \in 1..(n + 1))
          /\ (\A i \in 1..(n + 1) : i \in 1..n \/ i = n + 1)
      BY <1>1
    <2> QED
      BY <1>1, <2>1, <2>2
  <1>3. \A w : w \in WordOf(bytes) <=> \E i \in 1..n : \E b \in bytes[i] : w = 8 * (i - 1) + b
    BY WordOfBits DEF n
  <1> QED
    BY <1>2, <1>3 DEF more, n

LEMMA SaveFields ==
    ASSUME NEW c, Context(c), NEW bytes \in Seq(Byte)
    PROVE  /\ Save(c, bytes).saved = c.saved \cup {8 * c.byteIndex + b : b \in WordOf(bytes)}
           /\ Save(c, bytes).byteIndex = c.byteIndex + Len(bytes)
           /\ Save(c, bytes).s = c.s /\ Save(c, bytes).wordIndex = c.wordIndex
           /\ Save(c, bytes).capacityWords = c.capacityWords
           /\ Save(c, bytes).keccak = c.keccak
           /\ Save(c, bytes) = [s |-> c.s,
                                saved |-> c.saved \cup {8 * c.byteIndex + b : b \in WordOf(bytes)},
                                byteIndex |-> c.byteIndex + Len(bytes),
                                wordIndex |-> c.wordIndex, capacityWords |-> c.capacityWords,
                                keccak |-> c.keccak]
  <1> DEFINE saved == c.saved \cup {8 * c.byteIndex + b : b \in WordOf(bytes)}
             end == c.byteIndex + Len(bytes)
  <1>1. Save(c, bytes) = [c EXCEPT !.saved = saved, !.byteIndex = end]
    BY DEF Save
  <1>2. c \in [s : State, saved : SUBSET Nat, byteIndex : 0..7, wordIndex : 0..16,
               capacityWords : {8}, keccak : BOOLEAN]
    BY DEF Context
  <1> HIDE DEF saved, end
  <1>3. Save(c, bytes) = [s |-> c.s, saved |-> saved, byteIndex |-> end,
                          wordIndex |-> c.wordIndex, capacityWords |-> c.capacityWords,
                          keccak |-> c.keccak]
    BY <1>1, <1>2
  <1> QED
    BY <1>3 DEF saved, end

LEMMA SavedBits ==
    ASSUME NEW c, Context(c), NEW bytes \in Seq(Byte)
    PROVE  /\ Save(c, bytes).saved \in SUBSET Nat
           /\ \A b \in Save(c, bytes).saved : b < 8 * (c.byteIndex + Len(bytes))
  <1>1. c.byteIndex \in 0..7 /\ c.saved \in SUBSET Nat /\ \A b \in c.saved : b < 8 * c.byteIndex
    BY DEF Context
  <1>2. /\ Len(bytes) \in Nat /\ WordOf(bytes) \in SUBSET Nat
        /\ \A w \in WordOf(bytes) : w < 8 * Len(bytes)
    BY LenProperties, WordOfType
  <1>3. Save(c, bytes).saved = c.saved \cup {8 * c.byteIndex + b : b \in WordOf(bytes)}
    BY SaveFields
  <1>4. ASSUME NEW b \in c.saved PROVE b \in Nat /\ b < 8 * (c.byteIndex + Len(bytes))
    BY <1>1, <1>2, SMTT(30)
  <1>5. ASSUME NEW w \in WordOf(bytes)
        PROVE  8 * c.byteIndex + w \in Nat /\ 8 * c.byteIndex + w < 8 * (c.byteIndex + Len(bytes))
    <2> DEFINE i == c.byteIndex
               n == Len(bytes)
    <2>1. i \in Nat /\ n \in Nat /\ w \in Nat /\ w < 8 * n
      BY <1>1, <1>2
    <2> HIDE DEF i, n
    <2>2. 8 * i + w \in Nat /\ 8 * i + w < 8 * (i + n)
      BY <2>1
    <2> QED
      BY <2>2 DEF i, n
  <1> QED
    BY <1>3, <1>4, <1>5

LEMMA SaveType ==
    ASSUME NEW c, Context(c), NEW bytes \in Seq(Byte), c.byteIndex + Len(bytes) <= 7
    PROVE  Context(Save(c, bytes))
  <1>1. Len(bytes) \in Nat /\ c.byteIndex \in 0..7
    BY LenProperties DEF Context
  <1>2. c.byteIndex + Len(bytes) \in 0..7
    BY <1>1
  <1>3. Save(c, bytes).saved \in SUBSET Nat
        /\ \A b \in Save(c, bytes).saved : b < 8 * Save(c, bytes).byteIndex
    BY SavedBits, SaveFields
  <1>4. /\ c.s \in State /\ c.wordIndex \in 0..16 /\ c.capacityWords \in {8}
        /\ c.keccak \in BOOLEAN
    BY DEF Context
  <1>5. Save(c, bytes) \in [s : State, saved : SUBSET Nat, byteIndex : 0..7, wordIndex : 0..16,
                            capacityWords : {8}, keccak : BOOLEAN]
    BY <1>2, <1>3, <1>4, SaveFields
  <1> QED
    BY <1>3, <1>5 DEF Context

LEMMA SaveNothing == ASSUME NEW c, Context(c) PROVE Save(c, << >>) = c
  <1>1. c.byteIndex \in 0..7 /\ c.byteIndex + Len(<< >>) = c.byteIndex
    BY DEF Context
  <1>2. c.saved \cup {8 * c.byteIndex + b : b \in WordOf(<< >>)} = c.saved
    BY WordOfNone
  <1> DEFINE saved == c.saved \cup {8 * c.byteIndex + b : b \in WordOf(<< >>)}
             end == c.byteIndex + Len(<< >>)
  <1>3. c = [s |-> c.s, saved |-> c.saved, byteIndex |-> c.byteIndex, wordIndex |-> c.wordIndex,
             capacityWords |-> c.capacityWords, keccak |-> c.keccak]
    BY DEF Context
  <1>4. Save(c, << >>) = [s |-> c.s, saved |-> saved, byteIndex |-> end,
                          wordIndex |-> c.wordIndex, capacityWords |-> c.capacityWords,
                          keccak |-> c.keccak]
    <2>1. << >> \in Seq(Byte)
      OBVIOUS
    <2> QED
      BY <2>1, SaveFields
  <1>5. saved = c.saved /\ end = c.byteIndex
    BY <1>1, <1>2
  <1> HIDE DEF saved, end
  <1> QED
    BY <1>3, <1>4, <1>5

LEMMA SaveMore ==
    ASSUME NEW c, Context(c), NEW bytes \in Seq(Byte), NEW x \in Byte,
           c.byteIndex + Len(bytes) <= 7
    PROVE  Save(Save(c, bytes), <<x>>) = Save(c, Append(bytes, x))
  <1> DEFINE d == Save(c, bytes)
             n == Len(bytes)
  <1>1. Context(d) /\ <<x>> \in Seq(Byte) /\ Append(bytes, x) \in Seq(Byte)
        /\ Len(Append(bytes, x)) = n + 1 /\ Len(<<x>>) = 1
        /\ n \in Nat /\ c.byteIndex \in 0..7
    BY SaveType, AppendProperties, LenProperties DEF Context
  <1>2. /\ d.byteIndex = c.byteIndex + n
        /\ d.saved = c.saved \cup {8 * c.byteIndex + b : b \in WordOf(bytes)}
        /\ d.s = c.s /\ d.wordIndex = c.wordIndex /\ d.capacityWords = c.capacityWords
        /\ d.keccak = c.keccak
    BY SaveFields
  <1>3. \A w : w \in WordOf(<<x>>) <=> w \in x
    <2>1. <<x>> = Append(<< >>, x) /\ << >> \in Seq(Byte) /\ Len(<< >>) = 0
      OBVIOUS
    <2>2. WordOf(<<x>>) = {8 * 0 + b : b \in x}
      <3>1. WordOf(Append(<< >>, x)) = WordOf(<< >>) \cup {8 * Len(<< >>) + b : b \in x}
        BY <2>1, WordOfMore
      <3>2. WordOf(<<x>>) = {} \cup {8 * 0 + b : b \in x}
        BY <2>1, <3>1, WordOfNone
      <3> QED
        BY <3>2
    <2>3. \A b \in x : 8 * 0 + b = b
      BY DEF Byte
    <2> QED
      BY <2>2, <2>3
  <1>4. \A w : w \in WordOf(Append(bytes, x)) <=>
                   w \in WordOf(bytes) \/ \E b \in x : w = 8 * n + b
    BY WordOfMore
  <1>5. \A b \in x : 8 * d.byteIndex + b = 8 * c.byteIndex + (8 * n + b)
    <2>1. \A b \in x : b \in Nat
      BY DEF Byte
    <2>2. d.byteIndex = c.byteIndex + n /\ c.byteIndex \in Nat /\ n \in Nat
      BY <1>1, <1>2
    <2> HIDE DEF d, n
    <2> QED
      BY <2>1, <2>2
  <1> HIDE DEF d, n
  <1>6. d.saved \cup {8 * d.byteIndex + b : b \in WordOf(<<x>>)}
            = c.saved \cup {8 * c.byteIndex + b : b \in WordOf(Append(bytes, x))}
    BY <1>2, <1>3, <1>4, <1>5
  <1>7. d.byteIndex + 1 = c.byteIndex + (n + 1)
    BY <1>1, <1>2
  <1>8. Save(d, <<x>>) = Save(c, Append(bytes, x))
    <2> DEFINE saved == d.saved \cup {8 * d.byteIndex + b : b \in WordOf(<<x>>)}
               record(set, end) == [s |-> c.s, saved |-> set, byteIndex |-> end,
                                    wordIndex |-> c.wordIndex,
                                    capacityWords |-> c.capacityWords, keccak |-> c.keccak]
    <2>1. Save(d, <<x>>) = record(saved, d.byteIndex + 1)
      BY <1>1, <1>2, SaveFields, ZenonT(60)
    <2>2. Save(c, Append(bytes, x)) = record(saved, c.byteIndex + (n + 1))
      BY <1>1, <1>6, SaveFields, ZenonT(30)
    <2> HIDE DEF saved, record
    <2> QED
      BY <1>7, <2>1, <2>2
  <1> QED
    BY <1>8 DEF d

(* A context whose word may be complete and not yet mixed.                 *)
Gathering(c) ==
    /\ c \in [s : State, saved : SUBSET Nat, byteIndex : 0..8, wordIndex : 0..16,
              capacityWords : {8}, keccak : BOOLEAN]
    /\ \A b \in c.saved : b < 8 * c.byteIndex

LEMMA ContextGathers == ASSUME NEW c, Context(c) PROVE Gathering(c)
  BY DEF Context, Gathering

LEMMA SaveGathers ==
    ASSUME NEW c, Context(c), NEW bytes \in Seq(Byte), c.byteIndex + Len(bytes) <= 8
    PROVE  Gathering(Save(c, bytes))
  <1>1. Len(bytes) \in Nat /\ c.byteIndex \in 0..7
    BY LenProperties DEF Context
  <1>2. c.byteIndex + Len(bytes) \in 0..8
    BY <1>1
  <1>3. Save(c, bytes).saved \in SUBSET Nat
        /\ \A b \in Save(c, bytes).saved : b < 8 * Save(c, bytes).byteIndex
    BY SavedBits, SaveFields
  <1>4. /\ c.s \in State /\ c.wordIndex \in 0..16 /\ c.capacityWords \in {8}
        /\ c.keccak \in BOOLEAN
    BY DEF Context
  <1>5. Save(c, bytes) \in [s : State, saved : SUBSET Nat, byteIndex : 0..8, wordIndex : 0..16,
                            capacityWords : {8}, keccak : BOOLEAN]
    BY <1>2, <1>3, <1>4, SaveFields
  <1> QED
    BY <1>3, <1>5 DEF Gathering

(* What a word does to the state and to the place in the block.            *)
MixedWord(c, word) == [c.s EXCEPT ![c.wordIndex + 1] = Xor(@, word)]

MixedState(c, word) ==
    IF c.wordIndex + 1 = Rate(c) THEN keccakf(MixedWord(c, word)) ELSE MixedWord(c, word)

MixedIndex(c) == IF c.wordIndex + 1 = Rate(c) THEN 0 ELSE c.wordIndex + 1

LEMMA WordMixed ==
    ASSUME NEW s \in State, NEW i \in 1..25, NEW word \in SUBSET (0..63)
    PROVE  [s EXCEPT ![i] = Xor(@, word)] \in State
  <1>1. s \in [1..25 -> SUBSET (0..63)] /\ Xor(s[i], word) \in SUBSET (0..63)
    BY IsState, XorType
  <1> DEFINE changed == [s EXCEPT ![i] = Xor(@, word)]
  <1>2. changed \in [1..25 -> SUBSET (0..63)]
    BY <1>1
  <1> HIDE DEF changed
  <1>3. changed \in State
    BY <1>2, IsState
  <1> QED
    BY <1>3 DEF changed

LEMMA MixFields ==
    ASSUME NEW c, Gathering(c), NEW word \in SUBSET (0..63)
    PROVE  /\ Mix(c, word) = [s |-> MixedState(c, word), saved |-> c.saved,
                              byteIndex |-> c.byteIndex, wordIndex |-> MixedIndex(c),
                              capacityWords |-> c.capacityWords, keccak |-> c.keccak]
           /\ MixedState(c, word) \in State /\ MixedIndex(c) \in 0..16
  <1>1. c \in [s : State, saved : SUBSET Nat, byteIndex : 0..8, wordIndex : 0..16,
               capacityWords : {8}, keccak : BOOLEAN]
    BY DEF Gathering
  <1>2. c.s \in State /\ c.wordIndex \in 0..16 /\ Rate(c) = 17
    BY <1>1, WordSizes DEF Rate
  <1>3. c.wordIndex + 1 \in 1..25 /\ MixedIndex(c) \in 0..16
    BY <1>2 DEF MixedIndex
  <1>4. MixedWord(c, word) \in State
    BY <1>2, <1>3, WordMixed DEF MixedWord
  <1>5. MixedState(c, word) \in State
    BY <1>4, PermutationType DEF MixedState
  <1> DEFINE st == MixedState(c, word)
             at == MixedIndex(c)
  <1>6. Mix(c, word) = [c EXCEPT !.s = st, !.wordIndex = at]
    BY DEF Mix, MixedState, MixedIndex, MixedWord
  <1> HIDE DEF st, at
  <1>7. Mix(c, word) = [s |-> st, saved |-> c.saved, byteIndex |-> c.byteIndex, wordIndex |-> at,
                        capacityWords |-> c.capacityWords, keccak |-> c.keccak]
    BY <1>1, <1>6
  <1> QED
    BY <1>3, <1>5, <1>7 DEF st, at

LEMMA GatheredWord ==
    ASSUME NEW c, Gathering(c)
    PROVE  c.saved \in SUBSET (0..63)
  <1>1. c.saved \in SUBSET Nat /\ c.byteIndex \in 0..8 /\ \A b \in c.saved : b < 8 * c.byteIndex
    BY DEF Gathering
  <1>2. ASSUME NEW b \in c.saved PROVE b \in 0..63
    BY <1>1
  <1> QED
    BY <1>2

LEMMA MixSavedFields ==
    ASSUME NEW c, Gathering(c)
    PROVE  /\ MixSaved(c) = [s |-> MixedState(c, c.saved), saved |-> {}, byteIndex |-> 0,
                             wordIndex |-> MixedIndex(c),
                             capacityWords |-> c.capacityWords, keccak |-> c.keccak]
           /\ Context(MixSaved(c)) /\ MixSaved(c).byteIndex = 0
  <1> DEFINE st == MixedState(c, c.saved)
             at == MixedIndex(c)
  <1>1. /\ Mix(c, c.saved) = [s |-> st, saved |-> c.saved, byteIndex |-> c.byteIndex,
                              wordIndex |-> at, capacityWords |-> c.capacityWords,
                              keccak |-> c.keccak]
        /\ st \in State /\ at \in 0..16
    BY GatheredWord, MixFields
  <1> HIDE DEF st, at
  <1>2. MixSaved(c) = [s |-> st, saved |-> {}, byteIndex |-> 0, wordIndex |-> at,
                       capacityWords |-> c.capacityWords, keccak |-> c.keccak]
    <2> DEFINE mixed == Mix(c, c.saved)
    <2>1. MixSaved(c) = [mixed EXCEPT !.saved = {}, !.byteIndex = 0]
      BY DEF MixSaved
    <2>2. mixed = [s |-> st, saved |-> c.saved, byteIndex |-> c.byteIndex,
                   wordIndex |-> at, capacityWords |-> c.capacityWords, keccak |-> c.keccak]
      BY <1>1
    <2> HIDE DEF mixed
    <2> QED
      BY <2>1, <2>2
  <1>3. c.capacityWords \in {8} /\ c.keccak \in BOOLEAN
    BY DEF Gathering
  <1>4. Context(MixSaved(c))
    BY <1>1, <1>2, <1>3 DEF Context
  <1> QED
    BY <1>2, <1>4 DEF st, at

LEMMA NothingGathered ==
    ASSUME NEW c, Context(c), c.byteIndex = 0
    PROVE  c.saved = {}
  <1>1. \A b \in c.saved : b \in Nat /\ b < 8 * 0
    BY DEF Context
  <1> QED
    BY <1>1

(* Eight bytes that are gathered are mixed as a word that is whole.        *)
LEMMA MixWhole ==
    ASSUME NEW c, Context(c), c.byteIndex = 0, NEW bytes \in Seq(Byte), Len(bytes) = 8
    PROVE  MixSaved(Save(c, bytes)) = Mix(c, WordOf(bytes))
  <1> DEFINE d == Save(c, bytes)
             word == WordOf(bytes)
  <1>1. Gathering(d) /\ Gathering(c) /\ c.saved = {}
    <2>1. c.byteIndex + Len(bytes) <= 8
      OBVIOUS
    <2>2. Gathering(d)
      BY <2>1, SaveGathers
    <2> QED
      BY <2>2, ContextGathers, NothingGathered
  <1>2. word \in SUBSET Nat /\ \A b \in word : b < 64
    <2>1. word \in SUBSET Nat /\ \A b \in word : b < 8 * Len(bytes)
      BY WordOfType
    <2>2. 8 * Len(bytes) = 64
      OBVIOUS
    <2> HIDE DEF word
    <2> QED
      BY <2>1, <2>2
  <1>3. word \in SUBSET (0..63)
    <2> HIDE DEF word
    <2>1. ASSUME NEW b \in word PROVE b \in 0..63
      <3>1. b \in Nat /\ b < 64
        BY <1>2
      <3> QED
        BY <3>1
    <2> QED
      BY <2>1
  <1>4. /\ d.saved = c.saved \cup {8 * c.byteIndex + b : b \in word}
        /\ d.s = c.s /\ d.wordIndex = c.wordIndex /\ d.capacityWords = c.capacityWords
        /\ d.keccak = c.keccak
    BY SaveFields
  <1>5. d.saved = word
    <2>1. \A b \in word : 8 * c.byteIndex + b = b
      BY <1>2
    <2> QED
      BY <1>1, <1>4, <2>1
  <1> HIDE DEF d, word
  <1>6. MixedState(d, word) = MixedState(c, word) /\ MixedIndex(d) = MixedIndex(c)
    BY <1>4 DEF MixedState, MixedWord, MixedIndex, Rate
  <1>7. MixSaved(d) = [s |-> MixedState(c, word), saved |-> {}, byteIndex |-> 0,
                       wordIndex |-> MixedIndex(c),
                       capacityWords |-> c.capacityWords, keccak |-> c.keccak]
    BY <1>1, <1>4, <1>5, <1>6, MixSavedFields
  <1>8. Mix(c, word) = [s |-> MixedState(c, word), saved |-> c.saved, byteIndex |-> c.byteIndex,
                        wordIndex |-> MixedIndex(c),
                        capacityWords |-> c.capacityWords, keccak |-> c.keccak]
    BY <1>1, <1>3, MixFields
  <1> QED
    BY <1>1, <1>7, <1>8 DEF d, word

-----------------------------------------------------------------------------
(* A byte at a time: what every way to cut a message comes down to.        *)

Feed(c, byte, n) ==
    IF c.byteIndex = 7 THEN MixSaved(Save(c, <<byte>>)) ELSE Save(c, <<byte>>)

Bytewise == INSTANCE Recursion WITH Step <- Feed

Feeds(W, c, bytes, m) == Bytewise!RunsTo(W, c, bytes, m)

LEMMA FeedsUnfold ==
    ASSUME NEW W, NEW c, NEW bytes, NEW m, Feeds(W, c, bytes, m)
    PROVE  W[0] = c /\ \A n \in 1..m : W[n] = Feed(W[n - 1], bytes[n], n)
  BY DEF Feeds, Bytewise!RunsTo

LEMMA OneByte ==
    ASSUME NEW byte \in Byte
    PROVE  <<byte>> \in Seq(Byte) /\ Len(<<byte>>) = 1
  OBVIOUS

LEMMA FeedType ==
    ASSUME NEW c, Context(c), NEW byte \in Byte, NEW n
    PROVE  Context(Feed(c, byte, n))
  <1>1. c.byteIndex \in 0..7 /\ <<byte>> \in Seq(Byte) /\ Len(<<byte>>) = 1
    BY OneByte DEF Context
  <1>2. CASE c.byteIndex = 7
    <2>1. c.byteIndex + Len(<<byte>>) <= 8
      BY <1>1, <1>2
    <2>2. Gathering(Save(c, <<byte>>))
      BY <1>1, <2>1, SaveGathers
    <2> QED
      BY <1>2, <2>2, MixSavedFields DEF Feed
  <1>3. CASE c.byteIndex # 7
    <2>1. c.byteIndex + Len(<<byte>>) <= 7
      BY <1>1, <1>3
    <2> QED
      BY <1>1, <1>3, <2>1, SaveType DEF Feed
  <1> QED
    BY <1>2, <1>3

LEMMA FedType ==
    ASSUME NEW c, Context(c), NEW bytes \in Seq(Byte), NEW m \in 0..Len(bytes),
           NEW W, Feeds(W, c, bytes, m)
    PROVE  \A n \in 0..m : Context(W[n])
  <1> DEFINE S == {n \in Nat : n <= m => Context(W[n])}
  <1>1. m \in Nat /\ m <= Len(bytes) /\ Len(bytes) \in Nat
    BY LenProperties
  <1>2. 0 \in S
    BY FeedsUnfold
  <1>3. ASSUME NEW n \in S PROVE n + 1 \in S
    <2>1. n \in Nat /\ n + 1 \in Nat /\ (n + 1) - 1 = n
      BY <1>3
    <2>2. ASSUME n + 1 <= m PROVE Context(W[n + 1])
      <3>1. n + 1 \in 1..m /\ n <= m /\ n + 1 \in 1..Len(bytes)
        BY <1>1, <2>1, <2>2
      <3>2. Context(W[n]) /\ bytes[n + 1] \in Byte
        BY <1>3, <3>1, ElementOfSeq
      <3>3. W[n + 1] = Feed(W[n], bytes[n + 1], n + 1)
        BY <2>1, <3>1, FeedsUnfold
      <3> QED
        BY <3>2, <3>3, FeedType
    <2> QED
      BY <2>1, <2>2
  <1> HIDE DEF S
  <1>4. S \in SUBSET Nat
    BY DEF S
  <1>5. S = Nat
    BY <1>2, <1>3, <1>4, Rounds!SetInduction
  <1> QED
    BY <1>1, <1>5 DEF S

(* The k bytes after the first j.                                          *)
Piece(bytes, j, k) == SubSeq(bytes, j + 1, j + k)

LEMMA PieceType ==
    ASSUME NEW bytes \in Seq(Byte), NEW j \in Nat, NEW k \in Nat, j + k <= Len(bytes)
    PROVE  /\ Piece(bytes, j, k) \in Seq(Byte)
           /\ Len(Piece(bytes, j, k)) = k
           /\ \A i \in 1..k : Piece(bytes, j, k)[i] = bytes[j + i]
  <1>1. Len(bytes) \in Nat
    BY LenProperties
  <1>2. /\ j + 1 \in Int /\ j + k \in Int /\ (j + k) - (j + 1) + 1 = k
        /\ (IF j + 1 <= j + k THEN (j + k) - (j + 1) + 1 ELSE 0) = k
        /\ \A i \in 1..k : (j + 1) + i - 1 = j + i
    OBVIOUS
  <1>3. ASSUME NEW i \in (j + 1)..(j + k) PROVE bytes[i] \in Byte
    <2>1. i \in 1..Len(bytes)
      BY <1>1
    <2> QED
      BY <2>1, ElementOfSeq
  <1>4. /\ SubSeq(bytes, j + 1, j + k) \in Seq(Byte)
        /\ Len(SubSeq(bytes, j + 1, j + k))
               = IF j + 1 <= j + k THEN (j + k) - (j + 1) + 1 ELSE 0
        /\ \A i \in 1..((j + k) - (j + 1) + 1) :
               SubSeq(bytes, j + 1, j + k)[i] = bytes[(j + 1) + i - 1]
    BY <1>2, <1>3, SubSeqProperties
  <1> QED
    BY <1>2, <1>4 DEF Piece

LEMMA PieceMore ==
    ASSUME NEW bytes \in Seq(Byte), NEW j \in Nat, NEW k \in Nat, j + (k + 1) <= Len(bytes)
    PROVE  Piece(bytes, j, k + 1) = Append(Piece(bytes, j, k), bytes[j + (k + 1)])
           /\ bytes[j + (k + 1)] \in Byte
  <1> DEFINE p == Piece(bytes, j, k)
             q == Piece(bytes, j, k + 1)
             x == bytes[j + (k + 1)]
  <1>1. Len(bytes) \in Nat
    BY LenProperties
  <1>2. j + k <= Len(bytes) /\ k + 1 \in Nat /\ j + (k + 1) \in 1..Len(bytes)
    BY <1>1
  <1>3. p \in Seq(Byte) /\ Len(p) = k /\ \A i \in 1..k : p[i] = bytes[j + i]
    BY <1>2, PieceType
  <1>4. q \in Seq(Byte) /\ Len(q) = k + 1 /\ \A i \in 1..(k + 1) : q[i] = bytes[j + i]
    BY <1>2, PieceType
  <1>5. x \in Byte
    BY <1>2, ElementOfSeq
  <1>6. x = bytes[j + (k + 1)]
    OBVIOUS
  <1> HIDE DEF p, q, x
  <1>7. /\ Append(p, x) \in Seq(Byte) /\ Len(Append(p, x)) = k + 1
        /\ \A i \in 1..k : Append(p, x)[i] = p[i]
        /\ Append(p, x)[k + 1] = x
    BY <1>3, <1>5, AppendProperties
  <1>8. ASSUME NEW i \in 1..(k + 1) PROVE q[i] = Append(p, x)[i]
    <2>1. CASE i = k + 1
      BY <1>2, <1>4, <1>6, <1>7, <2>1
    <2>2. CASE i # k + 1
      <3>1. i \in 1..k
        BY <2>2
      <3> QED
        BY <1>3, <1>4, <1>7, <3>1
    <2> QED
      BY <2>1, <2>2
  <1>9. q = Append(p, x)
    BY <1>4, <1>7, <1>8, SeqEqual
  <1> QED
    BY <1>5, <1>9 DEF p, q, x

(* Bytes that do not complete a word are gathered.                         *)
LEMMA FedSaved ==
    ASSUME NEW c, Context(c), NEW bytes \in Seq(Byte), NEW m \in 0..Len(bytes),
           NEW W, Feeds(W, c, bytes, m),
           NEW j \in Nat, NEW k \in Nat, j + k <= m, W[j].byteIndex + k <= 7
    PROVE  W[j + k] = Save(W[j], Piece(bytes, j, k))
  <1> DEFINE d == W[j]
             S == {i \in Nat : i <= k => W[j + i] = Save(d, Piece(bytes, j, i))}
  <1>1. m \in Nat /\ m <= Len(bytes) /\ Len(bytes) \in Nat /\ j \in 0..m
    BY LenProperties
  <1>2. Context(d) /\ d.byteIndex \in 0..7 /\ d.byteIndex + k <= 7
    BY <1>1, FedType DEF Context
  <1> HIDE DEF d
  <1>3. 0 \in S
    <2>1. Piece(bytes, j, 0) = << >>
      <3>1. 0 \in Nat /\ j + 0 <= Len(bytes)
        BY <1>1
      <3>2. Piece(bytes, j, 0) \in Seq(Byte) /\ Len(Piece(bytes, j, 0)) = 0
        BY <3>1, PieceType
      <3> QED
        BY <3>2, EmptySeq
    <2>2. W[j + 0] = d /\ Save(d, << >>) = d
      BY <1>2, SaveNothing DEF d
    <2> QED
      BY <2>1, <2>2
  <1>4. ASSUME NEW i \in S PROVE i + 1 \in S
    <2>1. i \in Nat /\ i + 1 \in Nat
      BY <1>4
    <2>2. ASSUME i + 1 <= k PROVE W[j + (i + 1)] = Save(d, Piece(bytes, j, i + 1))
      <3>1. /\ i <= k /\ j + (i + 1) \in 1..m /\ (j + (i + 1)) - 1 = j + i
            /\ j + (i + 1) <= Len(bytes) /\ j + i <= Len(bytes)
            /\ d.byteIndex + i <= 6 /\ d.byteIndex + i <= 7
        BY <1>1, <1>2, <2>1, <2>2, SMTT(30)
      <3>2. W[j + i] = Save(d, Piece(bytes, j, i))
        BY <1>4, <3>1
      <3>3. Piece(bytes, j, i) \in Seq(Byte) /\ Len(Piece(bytes, j, i)) = i
        BY <2>1, <3>1, PieceType
      <3> DEFINE p == Piece(bytes, j, i)
                 x == bytes[j + (i + 1)]
      <3>4. Piece(bytes, j, i + 1) = Append(p, x) /\ x \in Byte
        BY <2>1, <3>1, PieceMore
      <3>5. W[j + (i + 1)] = Feed(W[j + i], x, j + (i + 1))
        BY <3>1, FeedsUnfold
      <3> HIDE DEF p, x
      <3>6. p \in Seq(Byte) /\ Len(p) = i /\ W[j + i] = Save(d, p)
        BY <3>2, <3>3 DEF p
      <3>7. Save(d, p).byteIndex # 7
        <4>1. Save(d, p).byteIndex = d.byteIndex + i
          BY <1>2, <3>6, SaveFields
        <4> QED
          BY <1>2, <2>1, <3>1, <4>1
      <3>8. W[j + (i + 1)] = Save(Save(d, p), <<x>>)
        BY <3>5, <3>6, <3>7 DEF Feed
      <3>9. Save(Save(d, p), <<x>>) = Save(d, Append(p, x))
        BY <1>2, <3>1, <3>4, <3>6, SaveMore
      <3> QED
        BY <3>4, <3>8, <3>9
    <2> QED
      BY <2>1, <2>2
  <1> HIDE DEF S
  <1>5. S \in SUBSET Nat
    BY DEF S
  <1>6. S = Nat
    BY <1>3, <1>4, <1>5, Rounds!SetInduction
  <1>7. k \in S
    BY <1>6
  <1> QED
    BY <1>7 DEF S, d

(* The byte that completes it has the word mixed.                          *)
LEMMA FedMixed ==
    ASSUME NEW c, Context(c), NEW bytes \in Seq(Byte), NEW m \in 0..Len(bytes),
           NEW W, Feeds(W, c, bytes, m),
           NEW j \in Nat, NEW k \in Nat, j + k <= m, W[j].byteIndex + k = 8
    PROVE  /\ W[j + k] = MixSaved(Save(W[j], Piece(bytes, j, k)))
           /\ Context(W[j + k]) /\ W[j + k].byteIndex = 0
  <1> DEFINE d == W[j]
  <1>1. m \in Nat /\ m <= Len(bytes) /\ Len(bytes) \in Nat /\ j \in 0..m
    BY LenProperties
  <1>2. Context(d) /\ d.byteIndex \in 0..7 /\ d.byteIndex + k = 8
    BY <1>1, FedType DEF Context
  <1>3. PICK i \in Nat : k = i + 1 /\ d.byteIndex + i = 7
    <2> DEFINE at == d.byteIndex
    <2>1. at \in 0..7 /\ at + k = 8
      BY <1>2
    <2> HIDE DEF at
    <2>2. k - 1 \in Nat /\ k = (k - 1) + 1 /\ at + (k - 1) = 7
      BY <2>1
    <2>3. k - 1 \in Nat /\ k = (k - 1) + 1 /\ d.byteIndex + (k - 1) = 7
      BY <2>2 DEF at
    <2> QED
      BY <2>3
  <1>4. /\ j + (i + 1) \in 1..m /\ (j + (i + 1)) - 1 = j + i /\ j + i <= m
        /\ j + (i + 1) <= Len(bytes) /\ j + i <= Len(bytes)
    BY <1>1, <1>3
  <1>5. W[j + i] = Save(W[j], Piece(bytes, j, i))
    <2>1. W[j].byteIndex + i <= 7
      BY <1>3
    <2> QED
      BY <1>4, <2>1, FedSaved
  <1>6. Piece(bytes, j, i) \in Seq(Byte) /\ Len(Piece(bytes, j, i)) = i
    BY <1>4, PieceType
  <1> DEFINE p == Piece(bytes, j, i)
             x == bytes[j + (i + 1)]
  <1>7. Piece(bytes, j, i + 1) = Append(p, x) /\ x \in Byte
    BY <1>4, PieceMore
  <1>8. W[j + (i + 1)] = Feed(W[j + i], x, j + (i + 1))
    BY <1>4, FeedsUnfold
  <1>9. p \in Seq(Byte) /\ Len(p) = i /\ W[j + i] = Save(d, p)
    BY <1>5, <1>6
  <1> HIDE DEF p, x, d
  <1>10. Save(d, p).byteIndex = 7
    BY <1>2, <1>3, <1>9, SaveFields
  <1>11. W[j + (i + 1)] = MixSaved(Save(Save(d, p), <<x>>))
    BY <1>8, <1>9, <1>10 DEF Feed
  <1>12. Save(Save(d, p), <<x>>) = Save(d, Append(p, x))
    <2>1. d.byteIndex + Len(p) <= 7
      BY <1>3, <1>9
    <2> QED
      BY <1>2, <1>7, <1>9, <2>1, SaveMore
  <1>13. Gathering(Save(d, Append(p, x)))
    <2>1. Append(p, x) \in Seq(Byte) /\ d.byteIndex + Len(Append(p, x)) <= 8
      BY <1>2, <1>3, <1>7, <1>9, AppendProperties
    <2> QED
      BY <1>2, <2>1, SaveGathers
  <1>14. /\ W[j + k] = MixSaved(Save(d, Append(p, x)))
         /\ Context(W[j + k]) /\ W[j + k].byteIndex = 0
    BY <1>3, <1>11, <1>12, <1>13, MixSavedFields
  <1> QED
    BY <1>3, <1>7, <1>14 DEF d

LEMMA FedWord ==
    ASSUME NEW c, Context(c), NEW bytes \in Seq(Byte), NEW m \in 0..Len(bytes),
           NEW W, Feeds(W, c, bytes, m),
           NEW j \in Nat, j + 8 <= m, W[j].byteIndex = 0
    PROVE  W[j + 8] = Mix(W[j], WordOf(Piece(bytes, j, 8))) /\ W[j + 8].byteIndex = 0
  <1>1. m \in Nat /\ m <= Len(bytes) /\ Len(bytes) \in Nat /\ j \in 0..m /\ j + 8 <= Len(bytes)
        /\ 8 \in Nat
    BY LenProperties
  <1>2. Context(W[j]) /\ W[j].byteIndex + 8 = 8
    BY <1>1, FedType
  <1>3. W[j + 8] = MixSaved(Save(W[j], Piece(bytes, j, 8))) /\ W[j + 8].byteIndex = 0
    BY <1>2, FedMixed
  <1>4. Piece(bytes, j, 8) \in Seq(Byte) /\ Len(Piece(bytes, j, 8)) = 8
    BY <1>1, PieceType, ZenonT(30)
  <1> QED
    BY <1>2, <1>3, <1>4, MixWhole

(* sha3_Update(), its parts by name.                                       *)
OldTail(c) == (WORD - c.byteIndex) % WORD

Started(c, buf, tail) ==
    IF tail = 0 THEN c ELSE MixSaved(Save(c, SubSeq(buf, 1, tail)))

Mixes(f, start, buf, tail, words) ==
    f = [n \in 0..words |->
            IF n = 0 THEN start
            ELSE Mix(f[n - 1], WordOf(SubSeq(buf, (tail + WORD * (n - 1)) + 1, tail + WORD * n)))]

WordsMixed(start, buf, tail, words) == CHOOSE f : Mixes(f, start, buf, tail, words)

UpdateFrom(c, buf, tail, words) ==
    Save(WordsMixed(Started(c, buf, tail), buf, tail, words)[words],
         SubSeq(buf, (tail + WORD * words) + 1, Len(buf)))

LEMMA UpdateUnfolds ==
    ASSUME NEW c, NEW buf
    PROVE  sha3_Update(c, buf) =
               IF Len(buf) < OldTail(c) THEN Save(c, buf)
               ELSE UpdateFrom(c, buf, OldTail(c), (Len(buf) - OldTail(c)) \div WORD)
  BY DEF sha3_Update, OldTail, Started, Mixes, WordsMixed, UpdateFrom

LEMMA OldTailCompletes ==
    ASSUME NEW c, Context(c)
    PROVE  OldTail(c) = IF c.byteIndex = 0 THEN 0 ELSE 8 - c.byteIndex
  <1> DEFINE at == c.byteIndex
  <1>1. at \in 0..7 /\ OldTail(c) = (8 - at) % 8
    BY WordSizes DEF Context, OldTail
  <1> HIDE DEF at
  <1>2. (8 - at) % 8 = IF at = 0 THEN 0 ELSE 8 - at
    BY <1>1
  <1> QED
    BY <1>1, <1>2 DEF at

LEMMA WholeWords ==
    ASSUME NEW n \in Nat
    PROVE  /\ n \div WORD \in Nat /\ 8 * (n \div WORD) <= n /\ n < 8 * (n \div WORD) + 8
  BY WordSizes

MixedTo(W, bytes, tail, words, end) ==
    /\ WordsMixed(W[tail], bytes, tail, words)[words] = W[end]
    /\ W[end].byteIndex = 0

(* The word that sha3_Update() mixes is the one the bytes add up to.       *)
LEMMA MixesAreFed ==
    ASSUME NEW c, Context(c), NEW bytes \in Seq(Byte), NEW W, Feeds(W, c, bytes, Len(bytes)),
           NEW tail \in Nat, NEW words \in Nat, NEW end, end = tail + 8 * words,
           end <= Len(bytes), W[tail].byteIndex = 0
    PROVE  MixedTo(W, bytes, tail, words, end)
  <1> DEFINE S == {n \in Nat : n <= words => W[tail + 8 * n].byteIndex = 0}
             next(d, n) == Mix(d, WordOf(SubSeq(bytes, (tail + WORD * (n - 1)) + 1, tail + WORD * n)))
  <1>1. Len(bytes) \in Nat /\ Len(bytes) \in 0..Len(bytes)
    BY LenProperties
  <1>2. ASSUME NEW n \in Nat, n + 1 <= words, W[tail + 8 * n].byteIndex = 0
        PROVE  /\ W[tail + 8 * (n + 1)] = next(W[tail + 8 * n], n + 1)
               /\ W[tail + 8 * (n + 1)].byteIndex = 0
    <2> DEFINE j == tail + 8 * n
    <2>1. /\ j \in Nat /\ j + 8 <= Len(bytes) /\ tail + 8 * (n + 1) = j + 8
          /\ (n + 1) - 1 = n
      BY <1>1, <1>2, SMTT(30)
    <2>2. W[j].byteIndex = 0
      BY <1>2
    <2>3. tail + WORD * ((n + 1) - 1) = j /\ tail + WORD * (n + 1) = j + 8
      BY <2>1, WordSizes
    <2> HIDE DEF j
    <2>4. W[j + 8] = Mix(W[j], WordOf(Piece(bytes, j, 8))) /\ W[j + 8].byteIndex = 0
      BY <1>1, <2>1, <2>2, FedWord
    <2>5. next(W[j], n + 1) = Mix(W[j], WordOf(Piece(bytes, j, 8)))
      BY <2>3 DEF Piece
    <2>6. W[j + 8] = next(W[j], n + 1)
      BY <2>4, <2>5
    <2> HIDE DEF next
    <2> QED
      BY <2>1, <2>4, <2>6 DEF j
  <1> HIDE DEF next
  <1>3. S = Nat
    <2>1. 0 \in S
      <3>1. tail + 8 * 0 = tail
        OBVIOUS
      <3> QED
        BY <3>1
    <2>2. ASSUME NEW n \in S PROVE n + 1 \in S
      <3>1. n \in Nat /\ n + 1 \in Nat
        BY <2>2
      <3>2. ASSUME n + 1 <= words PROVE W[tail + 8 * (n + 1)].byteIndex = 0
        <4>1. n <= words
          BY <3>1, <3>2
        <4>2. W[tail + 8 * n].byteIndex = 0
          BY <2>2, <4>1
        <4> QED
          BY <1>2, <3>1, <3>2, <4>2
      <3> QED
        BY <3>1, <3>2
    <2> HIDE DEF S
    <2>3. S \in SUBSET Nat
      BY DEF S
    <2> QED
      BY <2>1, <2>2, <2>3, Rounds!SetInduction
  <1>4. \A n \in Nat : n <= words => W[tail + 8 * n].byteIndex = 0
    BY <1>3
  <1> HIDE DEF S
  <1>5. ASSUME NEW n \in 0..words, n # 0
        PROVE  W[tail + 8 * n] = next(W[tail + 8 * (n - 1)], n) /\ n - 1 \in 0..words
    <2>1. n - 1 \in Nat /\ n - 1 <= words /\ (n - 1) + 1 = n /\ n <= words /\ n - 1 \in 0..words
      BY <1>5
    <2>2. W[tail + 8 * (n - 1)].byteIndex = 0
      BY <1>4, <2>1
    <2> QED
      BY <1>2, <2>1, <2>2
  <1>6. \E f : Mixes(f, W[tail], bytes, tail, words)
    <2> DEFINE f == [n \in 0..words |-> W[tail + 8 * n]]
    <2>1. ASSUME NEW n \in 0..words
          PROVE  f[n] = IF n = 0 THEN W[tail] ELSE next(f[n - 1], n)
      <3>1. CASE n = 0
        <4>1. tail + 8 * 0 = tail
          OBVIOUS
        <4> QED
          BY <3>1, <4>1
      <3>2. CASE n # 0
        BY <1>5, <3>2
      <3> QED
        BY <3>1, <3>2
    <2>2. f = [n \in 0..words |-> f[n]]
      OBVIOUS
    <2> HIDE DEF f
    <2>3. f = [n \in 0..words |-> IF n = 0 THEN W[tail] ELSE next(f[n - 1], n)]
      BY <2>1, <2>2
    <2>4. Mixes(f, W[tail], bytes, tail, words)
      BY <2>3 DEF Mixes, next
    <2> QED
      BY <2>4
  <1> DEFINE f == WordsMixed(W[tail], bytes, tail, words)
  <1>7. Mixes(f, W[tail], bytes, tail, words)
    BY <1>6 DEF WordsMixed
  <1> HIDE DEF f
  <1>8. ASSUME NEW n \in 0..words
        PROVE  f[n] = IF n = 0 THEN W[tail] ELSE next(f[n - 1], n)
    BY <1>7 DEF Mixes, next
  <1> DEFINE T == {n \in Nat : n <= words => f[n] = W[tail + 8 * n]}
  <1>9. 0 \in T
    <2>1. tail + 8 * 0 = tail /\ 0 \in 0..words
      OBVIOUS
    <2>2. f[0] = W[tail + 8 * 0]
      BY <1>8, <2>1
    <2> QED
      BY <2>2
  <1>10. ASSUME NEW n \in T PROVE n + 1 \in T
    <2>1. n \in Nat /\ n + 1 \in Nat /\ (n + 1) - 1 = n
      BY <1>10
    <2>2. ASSUME n + 1 <= words PROVE f[n + 1] = W[tail + 8 * (n + 1)]
      <3>1. n <= words /\ n + 1 \in 0..words /\ n + 1 # 0
        BY <2>1, <2>2
      <3>2. f[n] = W[tail + 8 * n]
        BY <1>10, <3>1
      <3>3. f[n + 1] = next(f[n], n + 1)
        BY <1>8, <2>1, <3>1
      <3>4. W[tail + 8 * (n + 1)] = next(W[tail + 8 * n], n + 1)
        BY <1>5, <2>1, <3>1
      <3> QED
        BY <3>2, <3>3, <3>4
    <2> QED
      BY <2>1, <2>2
  <1> HIDE DEF T
  <1>11. T \in SUBSET Nat
    BY DEF T
  <1>12. T = Nat
    BY <1>9, <1>10, <1>11, Rounds!SetInduction
  <1>13. words \in T
    BY <1>12
  <1>14. f[words] = W[tail + 8 * words]
    BY <1>13 DEF T
  <1> QED
    BY <1>4, <1>14 DEF f, MixedTo

(* However sha3_Update() groups the bytes, it feeds them one by one.       *)
LEMMA UpdateFeeds ==
    ASSUME NEW c, Context(c), NEW bytes \in Seq(Byte), NEW W, Feeds(W, c, bytes, Len(bytes))
    PROVE  sha3_Update(c, bytes) = W[Len(bytes)] /\ Context(W[Len(bytes)])
  <1> DEFINE n == Len(bytes)
             tail == OldTail(c)
             words == (n - tail) \div WORD
             end == tail + 8 * words
  <1>1. n \in Nat /\ n \in 0..n /\ W[0] = c
    BY LenProperties, FeedsUnfold
  <1>2. c.byteIndex \in 0..7 /\ tail = IF c.byteIndex = 0 THEN 0 ELSE 8 - c.byteIndex
    BY OldTailCompletes DEF Context
  <1>3. tail \in Nat /\ (tail = 0 <=> c.byteIndex = 0) /\ (tail # 0 => c.byteIndex + tail = 8)
    BY <1>2
  <1>4. Context(W[n])
    BY <1>1, FedType
  <1>5. Piece(bytes, 0, n) = bytes
    <2>1. 0 + n <= n /\ \A i \in 1..n : 0 + i = i
      BY <1>1
    <2>2. /\ Piece(bytes, 0, n) \in Seq(Byte) /\ Len(Piece(bytes, 0, n)) = n
          /\ \A i \in 1..n : Piece(bytes, 0, n)[i] = bytes[0 + i]
      BY <1>1, <2>1, PieceType
    <2> QED
      BY <2>1, <2>2, SeqEqual
  <1> HIDE DEF tail
  <1>6. CASE n < tail
    <2>1. 0 + n = n /\ 0 + n <= n /\ c.byteIndex + n <= 7
      BY <1>1, <1>2, <1>6
    <2>2. W[0 + n] = Save(W[0], Piece(bytes, 0, n))
      BY <1>1, <2>1, FedSaved
    <2>3. sha3_Update(c, bytes) = Save(c, bytes)
      BY <1>6, UpdateUnfolds DEF tail
    <2> QED
      BY <1>1, <1>4, <1>5, <2>1, <2>2, <2>3
  <1>7. CASE ~(n < tail)
    <2>1. n - tail \in Nat
      BY <1>1, <1>3, <1>7
    <2>2. words \in Nat /\ 8 * words <= n - tail /\ n - tail < 8 * words + 8
      BY <2>1, WholeWords
    <2> HIDE DEF words
    <2>3. end \in Nat /\ end <= n /\ n - end \in 0..7 /\ end + (n - end) = n /\ n - end \in Nat
      BY <1>1, <1>3, <2>2
    <2>4. W[tail] = Started(c, bytes, tail) /\ W[tail].byteIndex = 0
      <3>1. CASE tail = 0
        BY <1>1, <1>3, <3>1 DEF Started
      <3>2. CASE tail # 0
        <4>1. 0 + tail = tail /\ 0 + 1 = 1 /\ 0 + tail <= n /\ W[0].byteIndex + tail = 8
          BY <1>1, <1>3, <1>7, <3>2
        <4>2. /\ W[0 + tail] = MixSaved(Save(W[0], Piece(bytes, 0, tail)))
              /\ W[0 + tail].byteIndex = 0
          BY <1>1, <1>3, <4>1, FedMixed
        <4> QED
          BY <1>1, <3>2, <4>1, <4>2 DEF Started, Piece
      <3> QED
        BY <3>1, <3>2
    <2>5. WordsMixed(W[tail], bytes, tail, words)[words] = W[end] /\ W[end].byteIndex = 0
      <3>2. tail \in Nat /\ words \in Nat /\ W[tail].byteIndex = 0
        BY <1>3, <2>2, <2>4
      <3>3. end = tail + 8 * words /\ end <= Len(bytes)
        BY <2>3
      <3> HIDE DEF end
      <3>4. MixedTo(W, bytes, tail, words, end)
        BY <3>2, <3>3, MixesAreFed
      <3> QED
        BY <3>4 DEF MixedTo
    <2>6. W[end + (n - end)] = Save(W[end], Piece(bytes, end, n - end))
      <3> DEFINE rest == n - end
      <3>1. /\ W[end].byteIndex + rest <= 7 /\ end + rest <= n
            /\ end \in Nat /\ rest \in Nat /\ Len(bytes) \in 0..Len(bytes)
        <4>1. W[end].byteIndex = 0
          BY <2>5
        <4>2. rest \in 0..7 /\ end + rest = n /\ end \in Nat
          BY <2>3
        <4> HIDE DEF end, rest
        <4>3. W[end].byteIndex + rest <= 7
          BY <4>1, <4>2
        <4> QED
          BY <1>1, <4>2, <4>3
      <3>2. end + rest <= Len(bytes)
        BY <3>1
      <3> HIDE DEF end, rest, n
      <3>3. W[end + rest] = Save(W[end], Piece(bytes, end, rest))
        BY <1>1, <3>1, <3>2, FedSaved, SMTT(30)
      <3> QED
        BY <3>3 DEF rest
    <2>7. UpdateFrom(c, bytes, tail, words) = Save(W[end], SubSeq(bytes, end + 1, n))
      <3>1. tail + WORD * words = end
        BY WordSizes
      <3> HIDE DEF end
      <3> QED
        BY <2>4, <2>5, <3>1 DEF UpdateFrom
    <2>8. sha3_Update(c, bytes) = UpdateFrom(c, bytes, tail, words)
      BY <1>7, UpdateUnfolds DEF tail, words
    <2>9. Piece(bytes, end, n - end) = SubSeq(bytes, end + 1, n)
      BY <2>3 DEF Piece
    <2> QED
      BY <1>4, <2>3, <2>6, <2>7, <2>8, <2>9
  <1> QED
    BY <1>6, <1>7

LEMMA FeedingExists ==
    ASSUME NEW c, NEW bytes
    PROVE  \E W : \A m \in Nat : Feeds(W, c, bytes, m)
  <1>1. PICK W : Bytewise!IsRun(W, c, bytes)
    BY Bytewise!RunExists
  <1>2. ASSUME NEW m \in Nat PROVE Feeds(W, c, bytes, m)
    <2>1. Bytewise!RunsTo(W, c, bytes, m)
      BY <1>1, Bytewise!RunRuns
    <2> QED
      BY <2>1 DEF Feeds
  <1> QED
    BY <1>2

LEMMA UpdateType ==
    ASSUME NEW c, Context(c), NEW bytes \in Seq(Byte)
    PROVE  Context(sha3_Update(c, bytes))
  <1>1. PICK W : \A m \in Nat : Feeds(W, c, bytes, m)
    BY FeedingExists
  <1>2. Feeds(W, c, bytes, Len(bytes))
    BY <1>1, LenProperties
  <1> QED
    BY <1>2, UpdateFeeds

(* Hence it does not matter where a message is cut.                        *)
LEMMA UpdateTwice ==
    ASSUME NEW c, Context(c), NEW bytes \in Seq(Byte), NEW j \in Nat, NEW k \in Nat,
           j + k <= Len(bytes)
    PROVE  sha3_Update(sha3_Update(c, Piece(bytes, 0, j)), Piece(bytes, j, k))
               = sha3_Update(c, Piece(bytes, 0, j + k))
  <1> DEFINE a == Piece(bytes, 0, j)
             b == Piece(bytes, j, k)
             ab == Piece(bytes, 0, j + k)
  <1>1. Len(bytes) \in Nat /\ j + k \in Nat /\ 0 + j <= Len(bytes) /\ 0 + (j + k) <= Len(bytes)
    BY LenProperties
  <1>2. /\ a \in Seq(Byte) /\ Len(a) = j /\ \A i \in 1..j : a[i] = bytes[0 + i]
        /\ b \in Seq(Byte) /\ Len(b) = k /\ \A i \in 1..k : b[i] = bytes[j + i]
        /\ ab \in Seq(Byte) /\ Len(ab) = j + k /\ \A i \in 1..(j + k) : ab[i] = bytes[0 + i]
    <2>1. 0 \in Nat /\ j + k <= Len(bytes)
      OBVIOUS
    <2>2. a \in Seq(Byte) /\ Len(a) = j /\ \A i \in 1..j : a[i] = bytes[0 + i]
      BY <1>1, <2>1, PieceType
    <2>3. b \in Seq(Byte) /\ Len(b) = k /\ \A i \in 1..k : b[i] = bytes[j + i]
      BY <2>1, PieceType
    <2>4. ab \in Seq(Byte) /\ Len(ab) = j + k /\ \A i \in 1..(j + k) : ab[i] = bytes[0 + i]
      BY <1>1, <2>1, PieceType
    <2> QED
      BY <2>2, <2>3, <2>4
  <1> HIDE DEF a, b, ab
  <1>3. PICK W : \A m \in Nat : Feeds(W, c, ab, m)
    BY FeedingExists
  <1>4. W[0] = c /\ \A n \in 1..(j + k) : W[n] = Feed(W[n - 1], ab[n], n)
    BY <1>1, <1>3, FeedsUnfold
  <1>5. Feeds(W, c, a, j)
    <2>1. ASSUME NEW n \in 1..j PROVE W[n] = Feed(W[n - 1], a[n], n)
      <3>1. n \in 1..(j + k)
        OBVIOUS
      <3> QED
        BY <1>2, <1>4, <3>1, ZenonT(60)
    <2> QED
      BY <1>4, <2>1 DEF Feeds, Bytewise!RunsTo
  <1>6. sha3_Update(c, a) = W[j] /\ Context(W[j])
    BY <1>2, <1>5, UpdateFeeds
  <1> DEFINE V == [n \in 0..k |-> W[j + n]]
  <1>7. Feeds(V, W[j], b, k)
    <2>1. V[0] = W[j]
      <3>1. j + 0 = j /\ 0 \in 0..k
        OBVIOUS
      <3> QED
        BY <3>1
    <2>2. ASSUME NEW n \in 1..k PROVE V[n] = Feed(V[n - 1], b[n], n)
      <3>1. /\ n \in 0..k /\ n - 1 \in 0..k /\ j + n \in 1..(j + k) /\ (j + n) - 1 = j + (n - 1)
            /\ 0 + (j + n) = j + n
        OBVIOUS
      <3>2. W[j + n] = Feed(W[j + (n - 1)], ab[j + n], j + n)
        BY <1>4, <3>1
      <3>3. ab[j + n] = b[n]
        BY <1>2, <3>1, ZenonT(30)
      <3> QED
        BY <3>1, <3>2, <3>3 DEF Feed
    <2> HIDE DEF V
    <2> QED
      BY <2>1, <2>2 DEF Feeds, Bytewise!RunsTo
  <1>8. sha3_Update(W[j], b) = V[k]
    <2> HIDE DEF V
    <2> QED
      BY <1>2, <1>6, <1>7, UpdateFeeds
  <1>9. V[k] = W[j + k]
    OBVIOUS
  <1>10. sha3_Update(c, ab) = W[j + k]
    <2>1. Feeds(W, c, ab, Len(ab))
      BY <1>1, <1>2, <1>3
    <2> QED
      BY <1>2, <2>1, UpdateFeeds
  <1> HIDE DEF V
  <1> QED
    BY <1>6, <1>8, <1>9, <1>10 DEF a, b, ab

LEMMA UpdateNothing == ASSUME NEW c, Context(c) PROVE sha3_Update(c, << >>) = c
  <1>1. PICK W : \A m \in Nat : Feeds(W, c, << >>, m)
    BY FeedingExists
  <1>2. << >> \in Seq(Byte) /\ Len(<< >>) = 0 /\ 0 \in Nat
    OBVIOUS
  <1>3. Feeds(W, c, << >>, Len(<< >>)) /\ W[0] = c
    BY <1>1, <1>2, FeedsUnfold
  <1>4. sha3_Update(c, << >>) = W[Len(<< >>)]
    BY <1>2, <1>3, UpdateFeeds
  <1> QED
    BY <1>2, <1>3, <1>4

LEMMA FinalizeType == ASSUME NEW c, Context(c) PROVE Context(sha3_Finalize(c))
  <1> DEFINE pad == {8 * c.byteIndex + b : b \in IF c.keccak THEN {0} ELSE {1, 2}}
             gathered == [c.s EXCEPT ![c.wordIndex + 1] = Xor(@, Xor(c.saved, pad))]
             padded == [gathered EXCEPT ![Rate(c)] = Xor(@, {BITS - 1})]
  <1>1. c \in [s : State, saved : SUBSET Nat, byteIndex : 0..7, wordIndex : 0..16,
               capacityWords : {8}, keccak : BOOLEAN]
    BY DEF Context
  <1>2. c.s \in State /\ c.wordIndex + 1 \in 1..25 /\ Rate(c) = 17 /\ c.byteIndex \in 0..7
    BY <1>1, WordSizes DEF Rate
  <1>3. pad \in SUBSET (0..63) /\ c.saved \in SUBSET (0..63)
    <2>1. \A b \in 0..2 : 8 * c.byteIndex + b \in 0..63
      BY <1>2
    <2> QED
      BY <2>1, ContextGathers, GatheredWord
  <1> HIDE DEF pad
  <1>4. gathered \in State
    <2>1. Xor(c.saved, pad) \in SUBSET (0..63)
      BY <1>3, XorType
    <2> QED
      BY <1>2, <2>1, WordMixed
  <1> HIDE DEF gathered
  <1>5. padded \in State
    <2>1. {BITS - 1} \in SUBSET (0..63) /\ Rate(c) \in 1..25
      BY <1>2, WordSizes
    <2> QED
      BY <1>4, <2>1, WordMixed
  <1>6. sha3_Finalize(c) = [c EXCEPT !.s = keccakf(padded)]
    BY DEF sha3_Finalize, padded, gathered, pad
  <1> DEFINE st == keccakf(padded)
  <1>7. st \in State
    BY <1>5, PermutationType
  <1> HIDE DEF padded, st
  <1>8. /\ [c EXCEPT !.s = st] \in [s : State, saved : SUBSET Nat, byteIndex : 0..7,
                                    wordIndex : 0..16, capacityWords : {8}, keccak : BOOLEAN]
        /\ [c EXCEPT !.s = st].saved = c.saved
        /\ [c EXCEPT !.s = st].byteIndex = c.byteIndex
    BY <1>1, <1>7
  <1>9. Context([c EXCEPT !.s = st])
    BY <1>8 DEF Context
  <1> QED
    BY <1>6, <1>9 DEF st

LEMMA FreshType == Context(Fresh)
  <1>1. Zeroes \in State
    BY DEF Zeroes, State
  <1>2. (2 * 256) \div BITS = 8
    BY WordSizes
  <1>3. Fresh = [s |-> Zeroes, saved |-> {}, byteIndex |-> 0, wordIndex |-> 0,
                 capacityWords |-> 8, keccak |-> TRUE]
    <2> DEFINE words == (2 * 256) \div BITS
    <2>1. Fresh = [[s |-> Zeroes, saved |-> {}, byteIndex |-> 0, wordIndex |-> 0,
                    capacityWords |-> words, keccak |-> FALSE] EXCEPT !.keccak = TRUE]
      BY DEF Fresh, sha3_SetFlags, sha3_Init
    <2> HIDE DEF words
    <2>2. Fresh = [s |-> Zeroes, saved |-> {}, byteIndex |-> 0, wordIndex |-> 0,
                   capacityWords |-> words, keccak |-> TRUE]
      BY <2>1
    <2> QED
      BY <1>2, <2>2 DEF words
  <1> QED
    BY <1>1, <1>3 DEF Context

-----------------------------------------------------------------------------

Whole == Message \in Seq(Byte) /\ Len(Message) \in Nat /\ Lengths \subseteq Nat

LEMMA MessageType == Whole
  BY SpongeAssumption, LenProperties DEF Whole, Byte

IInv ==
    /\ absorbed \in 0..Len(Message)
    /\ Context(ctx)
    /\ PiecesDoNotMatter

LEMMA FreshAbsorbsNothing == Fresh = sha3_Update(Fresh, SubSeq(Message, 1, 0))
  <1>1. SubSeq(Message, 1, 0) = << >>
    BY SubSeqEmpty
  <1> QED
    BY <1>1, FreshType, UpdateNothing

LEMMA InitInv == Init => IInv
  <1> SUFFICES ASSUME Init PROVE IInv
    OBVIOUS
  <1>1. absorbed = 0 /\ ctx = Fresh /\ 0 \in 0..Len(Message)
    BY MessageType DEF Init, Whole
  <1> QED
    BY <1>1, FreshType, FreshAbsorbsNothing DEF IInv, PiecesDoNotMatter

LEMMA KeccakInitStep == ASSUME IInv, cx_keccak_init PROVE IInv'
  <1>1. ctx' = Fresh /\ absorbed' = 0 /\ 0 \in 0..Len(Message)
    BY MessageType DEF cx_keccak_init, Fresh, sha3_SetFlags, sha3_Init, Whole
  <1> QED
    BY <1>1, FreshType, FreshAbsorbsNothing DEF IInv, PiecesDoNotMatter

LEMMA HashStep == ASSUME IInv, NEW len \in Lengths, cx_hash(len) PROVE IInv'
  <1>1. /\ Message \in Seq(Byte) /\ Len(Message) \in Nat /\ len \in Nat
        /\ absorbed \in 0..Len(Message) /\ Context(ctx)
    BY MessageType DEF IInv, Whole
  <1>2. /\ absorbed + len <= Len(Message) /\ absorbed' = absorbed + len /\ out = NULL
        /\ ctx' = sha3_Update(ctx, SubSeq(Message, absorbed + 1, absorbed + len))
    BY DEF cx_hash
  <1>3. absorbed \in Nat /\ absorbed' \in 0..Len(Message)
    BY <1>1, <1>2
  <1>4. ctx' = sha3_Update(ctx, Piece(Message, absorbed, len))
    BY <1>2 DEF Piece
  <1>5. Context(ctx')
    <2>1. Piece(Message, absorbed, len) \in Seq(Byte)
      BY <1>1, <1>2, <1>3, PieceType
    <2> QED
      BY <1>1, <1>4, <2>1, UpdateType
  <1>6. ctx = sha3_Update(Fresh, Piece(Message, 0, absorbed))
    <2>1. ctx = sha3_Update(Fresh, SubSeq(Message, 1, absorbed))
      BY <1>2 DEF IInv, PiecesDoNotMatter
    <2>2. 0 + 1 = 1 /\ 0 + absorbed = absorbed
      BY <1>3
    <2> QED
      BY <2>1, <2>2 DEF Piece
  <1>7. ctx' = sha3_Update(Fresh, Piece(Message, 0, absorbed + len))
    BY <1>1, <1>2, <1>3, <1>4, <1>6, FreshType, UpdateTwice
  <1>8. ctx' = sha3_Update(Fresh, SubSeq(Message, 1, absorbed'))
    <2>1. 0 + 1 = 1 /\ 0 + (absorbed + len) = absorbed'
      BY <1>1, <1>2, <1>3
    <2> QED
      BY <1>7, <2>1 DEF Piece
  <1> QED
    BY <1>3, <1>5, <1>8 DEF IInv, PiecesDoNotMatter

LEMMA HashLastStep == ASSUME IInv, cx_hash_last PROVE IInv'
  <1>1. Context(ctx) /\ absorbed' = absorbed /\ absorbed \in 0..Len(Message)
    BY DEF IInv, cx_hash_last
  <1>2. ctx' = sha3_Finalize(ctx)
    BY <1>1, UpdateNothing DEF cx_hash_last
  <1>3. out' # NULL
    <2>1. out' = [i \in 1..32 |-> sb(ctx', i)]
      BY DEF cx_hash_last
    <2>2. \A i \in 1..32 : sb(ctx', i) \in SUBSET (0..7)
      BY DEF sb
    <2>3. out' \in [1..32 -> SUBSET (0..7)]
      BY <2>1, <2>2
    <2> QED
      BY <2>3, SpongeAssumption
  <1> QED
    BY <1>1, <1>2, <1>3, FinalizeType DEF IInv, PiecesDoNotMatter

LEMMA NextInv == IInv /\ [Next]_vars => IInv'
  <1> SUFFICES ASSUME IInv, [Next]_vars PROVE IInv'
    OBVIOUS
  <1>1. CASE UNCHANGED vars
    BY <1>1 DEF vars, IInv, PiecesDoNotMatter
  <1>2. CASE cx_keccak_init
    BY <1>2, KeccakInitStep
  <1>3. CASE \E len \in Lengths : cx_hash(len)
    BY <1>3, HashStep
  <1>4. CASE cx_hash_last
    BY <1>4, HashLastStep
  <1> QED
    BY <1>1, <1>2, <1>3, <1>4 DEF Next

LEMMA Inductive == Spec => []IInv
  BY InitInv, NextInv, PTL DEF Spec

(* The assertions of sha3_Update() hold for every message and every way to *)
(* cut it: between two calls less than a word is gathered and less than a  *)
(* block is mixed, and the permutation never leaves the state.             *)
THEOREM ContextTypes == Spec => []TypeOK
  <1>1. IInv => TypeOK
    <2> SUFFICES ASSUME IInv PROVE TypeOK
      OBVIOUS
    <2>1. /\ ctx.s \in State /\ ctx.byteIndex \in 0..7 /\ ctx.wordIndex \in 0..16
          /\ ctx.capacityWords = 8 /\ ctx.saved \in SUBSET Nat
          /\ \A b \in ctx.saved : b < 8 * ctx.byteIndex
      BY DEF IInv, Context
    <2>2. ctx.wordIndex \in 0..(Rate(ctx) - 1) /\ ctx.byteIndex \in 0..(WORD - 1)
      BY <2>1, WordSizes DEF Rate
    <2>3. ctx.saved \subseteq 0..(8 * ctx.byteIndex - 1)
      <3>1. ASSUME NEW b \in ctx.saved PROVE b \in 0..(8 * ctx.byteIndex - 1)
        BY <2>1
      <3> QED
        BY <3>1
    <2> QED
      BY <2>1, <2>2, <2>3 DEF IInv, TypeOK
  <1> QED
    BY <1>1, Inductive, PTL

(* A context depends on the bytes it was given alone: sha3_Update() over   *)
(* any pieces leaves what it leaves over all of them at once, so that      *)
(* hash_nbytes() and field_hash() may hash word by word and packet by      *)
(* packet.                                                                 *)
THEOREM OnlyBytesMatter == Spec => []PiecesDoNotMatter
  <1>1. IInv => PiecesDoNotMatter
    BY DEF IInv
  <1> QED
    BY <1>1, Inductive, PTL

-----------------------------------------------------------------------------

BlockStep(A, bits, n) == Permutation(Absorbed(A, bits, n))

Absorbing == INSTANCE Recursion WITH Step <- BlockStep

NoLanes == [i \in 1..25 |-> {}]

Absorbs(f, message) ==
    f = [n \in 0..Blocks(message) |->
            IF n = 0 THEN NoLanes
            ELSE Permutation(Absorbed(f[n - 1], Padded(message), n))]

(* The state of the reference after each block.                            *)
AfterBlock(message) == CHOOSE f : Absorbs(f, message)

LEMMA BlocksType == ASSUME NEW m \in Seq(Byte) PROVE Blocks(m) \in Nat \ {0}
  <1> DEFINE n == 8 * Len(m) + 1
  <1>1. n \in Nat
    BY LenProperties
  <1> HIDE DEF n
  <1>2. (n \div 1088) + 1 \in Nat \ {0}
    BY <1>1
  <1> QED
    BY <1>2 DEF n, Blocks, BitRate

LEMMA AbsorbingExists == ASSUME NEW m \in Seq(Byte) PROVE \E f : Absorbs(f, m)
  <1> DEFINE args == [n \in Nat |-> Padded(m)]
  <1>1. Blocks(m) \in Nat
    BY BlocksType
  <1>2. PICK f : Absorbing!IsRunUpTo(f, NoLanes, args, Blocks(m))
    BY <1>1, Absorbing!RunUpToExists
  <1>3. f = [n \in 0..Blocks(m) |-> IF n = 0 THEN NoLanes ELSE BlockStep(f[n - 1], args[n], n)]
    BY <1>2 DEF Absorbing!IsRunUpTo
  <1>4. \A n \in 0..Blocks(m) : args[n] = Padded(m)
    OBVIOUS
  <1> HIDE DEF args
  <1>5. Absorbs(f, m)
    BY <1>3, <1>4 DEF Absorbs, BlockStep
  <1> QED
    BY <1>5

LEMMA AfterBlockUnfolds ==
    ASSUME NEW m \in Seq(Byte)
    PROVE  /\ AfterBlock(m)[0] = NoLanes
           /\ \A n \in 1..Blocks(m) :
                  AfterBlock(m)[n]
                      = Permutation(Absorbed(AfterBlock(m)[n - 1], Padded(m), n))
           /\ Digest(m) = Output(AfterBlock(m)[Blocks(m)])
  <1> DEFINE f == AfterBlock(m)
  <1>1. Absorbs(f, m)
    BY AbsorbingExists DEF AfterBlock
  <1>2. Blocks(m) \in Nat
    BY BlocksType
  <1>3. Digest(m) = Output(f[Blocks(m)])
    BY DEF Digest, AfterBlock, Absorbs, NoLanes
  <1> HIDE DEF f
  <1>4. f[0] = NoLanes
    BY <1>1, <1>2 DEF Absorbs
  <1>5. ASSUME NEW n \in 1..Blocks(m)
        PROVE  f[n] = Permutation(Absorbed(f[n - 1], Padded(m), n))
    <2>1. n \in 0..Blocks(m) /\ n # 0
      OBVIOUS
    <2> QED
      BY <1>1, <2>1 DEF Absorbs
  <1> QED
    BY <1>3, <1>4, <1>5 DEF f

-----------------------------------------------------------------------------

LEMMA BytesOf ==
    ASSUME NEW m \in Seq(Byte)
    PROVE  Len(m) \in Nat /\ DOMAIN m = 1..Len(m) /\ \A i \in 1..Len(m) : m[i] \in SUBSET (0..7)
  BY LenProperties, ElementOfSeq DEF Byte

(* The bits of a message come first, then the two of the padding.          *)
LEMMA PaddedAre ==
    ASSUME NEW m \in Seq(Byte), NEW p \in Nat
    PROVE  p \in Padded(m) <=> \/ \E i \in 1..Len(m) : \E b \in m[i] : p = 8 * (i - 1) + b
                               \/ p = 8 * Len(m)
                               \/ p = 1088 * Blocks(m) - 1
  <1>1. Padded(m) = WordOf(m) \cup {8 * Len(m), 1088 * Blocks(m) - 1}
    <2>1. Padded(m) = WordOf(m) \cup {8 * Len(m), BitRate * Blocks(m) - 1}
      BY Zenon DEF Padded, WordOf
    <2> QED
      BY <2>1 DEF BitRate
  <1> QED
    BY <1>1, WordOfBits

LEMMA EndsLast ==
    ASSUME NEW m \in Seq(Byte)
    PROVE  8 * Len(m) < 1088 * Blocks(m) - 1
  <1> DEFINE n == Len(m)
             d == (8 * n + 1) \div 1088
  <1>1. n \in Nat
    BY BytesOf
  <1> HIDE DEF n
  <1>2. d \in Nat /\ 8 * n + 1 < 1088 * d + 1088
    BY <1>1
  <1> HIDE DEF d
  <1>3. 8 * n < 1088 * (d + 1) - 1
    BY <1>1, <1>2
  <1> QED
    BY <1>3 DEF n, d, Blocks, BitRate

LEMMA MessageBits ==
    ASSUME NEW m \in Seq(Byte), NEW n \in Nat, n < Len(m), NEW b \in 0..7
    PROVE  8 * n + b \in Padded(m) <=> b \in m[n + 1]
  <1> DEFINE p == 8 * n + b
             L == Len(m)
             end == 1088 * Blocks(m) - 1
  <1>1. L \in Nat /\ \A i \in 1..L : m[i] \in SUBSET (0..7)
    BY BytesOf
  <1>2. 8 * L < end /\ end \in Int
    BY EndsLast, BlocksType
  <1>3. p \in Nat /\ p < 8 * L /\ p # end
    <2> HIDE DEF end
    <2> QED
      BY <1>1, <1>2
  <1>4. p \in Padded(m) <=> \E i \in 1..L : \E c \in m[i] : p = 8 * (i - 1) + c
    <2> HIDE DEF p, end, L
    <2>1. p \in Padded(m) <=> \/ \E i \in 1..L : \E c \in m[i] : p = 8 * (i - 1) + c
                              \/ p = 8 * L
                              \/ p = end
      BY <1>3, PaddedAre DEF L, end
    <2> QED
      BY <1>1, <1>3, <2>1
  <1>5. n + 1 \in 1..L /\ 8 * ((n + 1) - 1) + b = p
    BY <1>1
  <1>6. ASSUME NEW i \in 1..L, NEW c \in m[i], p = 8 * (i - 1) + c PROVE i = n + 1 /\ c = b
    <2>1. c \in 0..7
      BY <1>1
    <2> QED
      BY <1>6, <2>1
  <1> HIDE DEF p
  <1> QED
    BY <1>4, <1>5, <1>6 DEF p

LEMMA PaddingBits ==
    ASSUME NEW m \in Seq(Byte), NEW p \in Nat, p >= 8 * Len(m)
    PROVE  p \in Padded(m) <=> p = 8 * Len(m) \/ p = 1088 * Blocks(m) - 1
  <1>1. Len(m) \in Nat /\ \A i \in 1..Len(m) : m[i] \in SUBSET (0..7)
    BY BytesOf
  <1>2. ASSUME NEW i \in 1..Len(m), NEW b \in m[i] PROVE p # 8 * (i - 1) + b
    <2>1. b \in 0..7
      BY <1>1
    <2> QED
      BY <1>1, <2>1
  <1> QED
    BY <1>2, PaddedAre

(* k bytes after the j-th word, as bits of the padded message.             *)
WordBits(m, j, k) == {b \in 0..63 : b < 8 * k /\ 64 * j + b \in Padded(m)}

(* A bit of the i-th byte of k.                                            *)
LEMMA BitOfByte ==
    ASSUME NEW k \in 0..8, NEW i \in 1..k, NEW b \in 0..7
    PROVE  8 * (i - 1) + b \in 0..63 /\ 8 * (i - 1) + b < 8 * k
  OBVIOUS

LEMMA PieceBits ==
    ASSUME NEW m \in Seq(Byte), NEW j \in Nat, NEW k \in 0..8, 8 * j + k <= Len(m)
    PROVE  WordOf(Piece(m, 8 * j, k)) = WordBits(m, j, k)
  <1> DEFINE piece == Piece(m, 8 * j, k)
  <1>1. /\ piece \in Seq(Byte) /\ Len(piece) = k
        /\ \A i \in 1..k : piece[i] = m[8 * j + i]
    <2>1. 8 * j \in Nat /\ k \in Nat
      OBVIOUS
    <2> QED
      BY <2>1, PieceType
  <1> HIDE DEF piece
  <1>2. \A w : w \in WordOf(piece) <=> \E i \in 1..k : \E b \in piece[i] : w = 8 * (i - 1) + b
    <2>1. ASSUME NEW w
          PROVE  w \in WordOf(piece) <=>
                     \E i \in 1..Len(piece) : \E b \in piece[i] : w = 8 * (i - 1) + b
      BY <1>1, WordOfBits, SMTT(30)
    <2> QED
      BY <1>1, <2>1, Zenon
  <1>3. Len(m) \in Nat /\ \A i \in 1..Len(m) : m[i] \in SUBSET (0..7)
    BY BytesOf
  <1>4. ASSUME NEW w \in WordOf(piece)
        PROVE  w \in 0..63 /\ w < 8 * k /\ 64 * j + w \in Padded(m)
    <2>0. PICK i \in 1..k : \E b \in piece[i] : w = 8 * (i - 1) + b
      BY <1>2
    <2>1. PICK b \in piece[i] : w = 8 * (i - 1) + b
      BY <2>0
    <2> DEFINE n == 8 * j + (i - 1)
    <2>2. n \in Nat /\ n < Len(m) /\ n + 1 = 8 * j + i /\ n + 1 \in 1..Len(m)
      BY <1>3
    <2>3. b \in m[n + 1] /\ b \in 0..7
      BY <1>1, <1>3, <2>2
    <2>4. 64 * j + w = 8 * n + b
      BY <2>1, <2>3
    <2> HIDE DEF n
    <2>5. 8 * n + b \in Padded(m)
      BY <2>2, <2>3, MessageBits
    <2>6. w \in 0..63 /\ w < 8 * k
      BY <2>0, <2>1, <2>3, BitOfByte
    <2> QED
      BY <2>4, <2>5, <2>6
  <1>5. ASSUME NEW w \in 0..63, w < 8 * k, 64 * j + w \in Padded(m)
        PROVE  w \in WordOf(piece)
    <2> DEFINE i == (w \div 8) + 1
               b == w % 8
               n == 8 * j + (i - 1)
    <2>1. i \in 1..k /\ b \in 0..7 /\ w = 8 * (i - 1) + b
      BY <1>5
    <2> HIDE DEF i, b
    <2>2. n \in Nat /\ n < Len(m) /\ n + 1 = 8 * j + i /\ 64 * j + w = 8 * n + b
      BY <1>3, <2>1
    <2> HIDE DEF n
    <2>3. b \in m[n + 1]
      BY <1>5, <2>1, <2>2, MessageBits
    <2> QED
      BY <1>1, <1>2, <2>1, <2>2, <2>3
  <1>6. WordOf(piece) = WordBits(m, j, k)
    BY <1>4, <1>5 DEF WordBits
  <1> QED
    BY <1>6 DEF piece

LEMMA BlockOf ==
    ASSUME NEW m \in Seq(Byte), NEW q \in Nat, NEW w \in 0..16, NEW k \in 0..7,
           Len(m) = 136 * q + 8 * w + k
    PROVE  Blocks(m) = q + 1
  <1> DEFINE r == 64 * w + 8 * k + 1
  <1>1. 8 * Len(m) + 1 = 1088 * q + r /\ r \in 0..1087
    OBVIOUS
  <1> HIDE DEF r
  <1>2. (1088 * q + r) \div 1088 = q
    BY <1>1
  <1> QED
    BY <1>1, <1>2 DEF Blocks, BitRate

-----------------------------------------------------------------------------

(* What the padded message has for the i-th lane of the block after q.     *)
LaneBits(m, q, i) == {b \in 0..63 : 1088 * q + 64 * (i - 1) + b \in Padded(m)}

(* A state with the first w lanes of that block in it.                     *)
Partly(A, m, q, w) ==
    [i \in 1..25 |-> IF i <= w THEN Plus(A[i], LaneBits(m, q, i)) ELSE A[i]]

LEMMA PlusNone == ASSUME NEW v PROVE Plus(v, {}) = v
  BY DEF Plus

LEMMA LaneBitsType == ASSUME NEW m, NEW q, NEW i PROVE LaneBits(m, q, i) \in SUBSET (0..63)
  BY DEF LaneBits

LEMMA PartlyType ==
    ASSUME NEW A \in State, NEW m, NEW q, NEW w
    PROVE  Partly(A, m, q, w) \in State
  <1>1. A \in [1..25 -> SUBSET (0..63)]
    BY IsState
  <1>2. ASSUME NEW i \in 1..25 PROVE Plus(A[i], LaneBits(m, q, i)) \in SUBSET (0..63)
    <2>1. A[i] \in SUBSET (0..63)
      BY <1>1
    <2> QED
      BY <2>1, LaneBitsType, XorType, SameXor
  <1>3. Partly(A, m, q, w) \in [1..25 -> SUBSET (0..63)]
    BY <1>1, <1>2 DEF Partly
  <1> QED
    BY <1>3, IsState

LEMMA PartlyNone ==
    ASSUME NEW A \in State, NEW m, NEW q
    PROVE  Partly(A, m, q, 0) = A
  <1>1. A \in [1..25 -> SUBSET (0..63)]
    BY IsState
  <1>2. \A i \in 1..25 : ~(i <= 0)
    OBVIOUS
  <1> QED
    BY <1>1, <1>2 DEF Partly

OneMore(A, m, q, w) ==
    [Partly(A, m, q, w) EXCEPT ![w + 1] = Xor(@, LaneBits(m, q, w + 1))]

LEMMA PartlyMore ==
    ASSUME NEW A \in State, NEW m, NEW q, NEW w \in 0..16
    PROVE  OneMore(A, m, q, w) = Partly(A, m, q, w + 1)
  <1> DEFINE P == Partly(A, m, q, w)
             N == [P EXCEPT ![w + 1] = Xor(@, LaneBits(m, q, w + 1))]
  <1>1. DOMAIN P = 1..25 /\ w + 1 \in 1..25
    BY DEF Partly
  <1>2. \A i \in 1..25 : P[i] = IF i <= w THEN Plus(A[i], LaneBits(m, q, i)) ELSE A[i]
    BY DEF Partly
  <1> HIDE DEF P
  <1>3. N = [i \in 1..25 |-> N[i]]
    BY <1>1
  <1>4. ASSUME NEW i \in 1..25
        PROVE  N[i] = IF i <= w + 1 THEN Plus(A[i], LaneBits(m, q, i)) ELSE A[i]
    <2>1. CASE i = w + 1
      <3>1. N[i] = Xor(P[i], LaneBits(m, q, i)) /\ P[i] = A[i] /\ i <= w + 1
        BY <1>1, <1>2, <2>1
      <3> HIDE DEF N
      <3> QED
        BY <3>1, SameXor
    <2>2. CASE i # w + 1
      <3>1. N[i] = P[i] /\ (i <= w + 1 <=> i <= w)
        BY <1>1, <2>2
      <3> HIDE DEF N
      <3> QED
        BY <1>2, <3>1
    <2> QED
      BY <2>1, <2>2
  <1> HIDE DEF N
  <1>5. N = Partly(A, m, q, w + 1)
    BY <1>3, <1>4 DEF Partly
  <1> QED
    BY <1>5 DEF N, P, OneMore

(* With all its seventeen lanes the block is absorbed.                     *)
LEMMA PartlyAll ==
    ASSUME NEW A \in State, NEW m, NEW q \in Nat
    PROVE  Absorbed(A, Padded(m), q + 1) = Partly(A, m, q, 17)
  <1> DEFINE bits(i) == {b \in 0..63 : 64 * (i - 1) + b < BitRate
                            /\ BitRate * ((q + 1) - 1) + 64 * (i - 1) + b \in Padded(m)}
  <1>1. Absorbed(A, Padded(m), q + 1) = [i \in 1..25 |-> Plus(A[i], bits(i))]
    BY DEF Absorbed
  <1>2. ASSUME NEW i \in 1..25
        PROVE  Plus(A[i], bits(i)) = IF i <= 17 THEN Plus(A[i], LaneBits(m, q, i)) ELSE A[i]
    <2>1. \A b \in 0..63 : (64 * (i - 1) + b < BitRate <=> i <= 17)
      BY DEF BitRate
    <2>2. (q + 1) - 1 = q /\ BitRate = 1088
      BY DEF BitRate
    <2>3. CASE i <= 17
      <3>1. bits(i) = LaneBits(m, q, i)
        BY <2>1, <2>2, <2>3 DEF LaneBits
      <3> QED
        BY <2>3, <3>1
    <2>4. CASE ~(i <= 17)
      <3>1. bits(i) = {}
        BY <2>1, <2>4
      <3> HIDE DEF bits
      <3> QED
        BY <2>4, <3>1, PlusNone
    <2> QED
      BY <2>3, <2>4
  <1> HIDE DEF bits
  <1> QED
    BY <1>1, <1>2 DEF Partly

LEMMA AfterBlockTypes ==
    ASSUME NEW m \in Seq(Byte), NEW q \in Nat, AfterBlock(m)[q] \in State, q + 1 <= Blocks(m)
    PROVE  /\ keccakf(Partly(AfterBlock(m)[q], m, q, 17)) = AfterBlock(m)[q + 1]
           /\ AfterBlock(m)[q + 1] \in State
  <1> DEFINE A == AfterBlock(m)[q]
             P == Partly(A, m, q, 17)
  <1>1. P \in State
    BY PartlyType
  <1>2. Absorbed(A, Padded(m), q + 1) = P
    BY PartlyAll
  <1>3. q + 1 \in 1..Blocks(m) /\ (q + 1) - 1 = q
    BY BlocksType
  <1>4. AfterBlock(m)[q + 1] = Permutation(Absorbed(A, Padded(m), q + 1))
    BY <1>3, AfterBlockUnfolds
  <1> HIDE DEF A, P
  <1>5. keccakf(P) = Permutation(P) /\ keccakf(P) \in State
    BY <1>1, SamePermutation, PermutationType
  <1> QED
    BY <1>2, <1>4, <1>5 DEF A, P

-----------------------------------------------------------------------------

(* Between two words: q blocks are absorbed and w words of the next.       *)
Stage(c, m, q, w) ==
    /\ Context(c) /\ c.byteIndex = 0 /\ c.wordIndex = w /\ c.keccak = TRUE
    /\ AfterBlock(m)[q] \in State
    /\ c.s = Partly(AfterBlock(m)[q], m, q, w)

StageAt(c, m, j) == \E q \in Nat : \E w \in 0..16 : j = 17 * q + w /\ Stage(c, m, q, w)

LEMMA StageMore ==
    ASSUME NEW m \in Seq(Byte), NEW c, NEW q \in Nat, NEW w \in 0..16, Stage(c, m, q, w),
           NEW j, j = 17 * q + w, 8 * (j + 1) <= Len(m),
           NEW d, d = Mix(c, WordOf(Piece(m, 8 * j, 8))), Context(d), d.byteIndex = 0
    PROVE  StageAt(d, m, j + 1)
  <1> DEFINE A == AfterBlock(m)[q]
             word == WordOf(Piece(m, 8 * j, 8))
  <1>1. j \in Nat /\ Len(m) \in Nat
    BY BytesOf
  <1>2. word = LaneBits(m, q, w + 1)
    <2>1. 8 * j + 8 <= Len(m) /\ 8 \in 0..8
      BY <1>1
    <2>2. word = WordBits(m, j, 8)
      BY <1>1, <2>1, PieceBits
    <2>3. WordBits(m, j, 8) = LaneBits(m, q, w + 1)
      <3> DEFINE base == 64 * j
                 start == 1088 * q + 64 * ((w + 1) - 1)
                 bits == Padded(m)
                 room == 8 * 8
      <3>1. base = start /\ \A b \in 0..63 : b < room
        OBVIOUS
      <3>2. WordBits(m, j, 8) = {b \in 0..63 : b < room /\ base + b \in bits}
        BY DEF WordBits
      <3>3. LaneBits(m, q, w + 1) = {b \in 0..63 : start + b \in bits}
        BY DEF LaneBits
      <3> HIDE DEF base, start, bits, room
      <3> QED
        BY <3>1, <3>2, <3>3
    <2> HIDE DEF word
    <2> QED
      BY <2>2, <2>3
  <1>3. Gathering(c) /\ word \in SUBSET (0..63)
    BY <1>2, LaneBitsType, ContextGathers DEF Stage
  <1>4. /\ c.wordIndex = w /\ c.keccak = TRUE /\ c.s = Partly(A, m, q, w) /\ A \in State
        /\ c.capacityWords = 8
    BY DEF Stage, Context
  <1>5. /\ d.s = MixedState(c, word) /\ d.wordIndex = MixedIndex(c) /\ d.keccak = c.keccak
    <2>1. d = Mix(c, word)
      OBVIOUS
    <2> HIDE DEF word
    <2>2. d = [s |-> MixedState(c, word), saved |-> c.saved, byteIndex |-> c.byteIndex,
               wordIndex |-> MixedIndex(c), capacityWords |-> c.capacityWords,
               keccak |-> c.keccak]
      BY <1>3, <2>1, MixFields
    <2> QED
      BY <2>2
  <1>6. Rate(c) = 17
    BY <1>4, WordSizes DEF Rate
  <1>7. MixedWord(c, word) = Partly(A, m, q, w + 1)
    <2> HIDE DEF A, word
    <2>1. MixedWord(c, word) = OneMore(A, m, q, w)
      BY <1>2, <1>4 DEF MixedWord, OneMore
    <2>2. OneMore(A, m, q, w) = Partly(A, m, q, w + 1)
      BY <1>4, PartlyMore, SMTT(30)
    <2> QED
      BY <2>1, <2>2, Zenon
  <1> HIDE DEF A, word
  <1>8. CASE w = 16
    <2>1. w + 1 = 17 /\ c.wordIndex + 1 = Rate(c)
      BY <1>4, <1>6, <1>8
    <2>2. d.s = keccakf(Partly(A, m, q, 17)) /\ d.wordIndex = 0
      BY <1>5, <1>7, <2>1 DEF MixedState, MixedIndex
    <2>3. q + 1 <= Blocks(m)
      <3> DEFINE k == Len(m)
                 n == (8 * k + 1) \div 1088
      <3>1. 136 * (q + 1) <= k /\ k \in Nat
        BY <1>1, <1>8
      <3> HIDE DEF k
      <3>2. n \in Nat /\ 8 * k + 1 < 1088 * n + 1088
        BY <3>1
      <3> HIDE DEF n
      <3>3. q + 1 <= n + 1
        BY <3>1, <3>2
      <3> QED
        BY <3>3 DEF k, n, Blocks, BitRate
    <2>4. AfterBlock(m)[q + 1] \in State /\ d.s = AfterBlock(m)[q + 1]
      BY <1>4, <2>2, <2>3, AfterBlockTypes DEF A
    <2>5. Stage(d, m, q + 1, 0)
      BY <1>4, <1>5, <2>2, <2>4, PartlyNone DEF Stage
    <2>6. j + 1 = 17 * (q + 1) + 0 /\ q + 1 \in Nat /\ 0 \in 0..16
      BY <1>8
    <2> QED
      BY <2>5, <2>6 DEF StageAt
  <1>9. CASE w # 16
    <2>1. w + 1 \in 0..16 /\ c.wordIndex + 1 # Rate(c)
      BY <1>4, <1>6, <1>9
    <2>2. d.s = Partly(A, m, q, w + 1) /\ d.wordIndex = w + 1
      BY <1>4, <1>5, <1>7, <2>1 DEF MixedState, MixedIndex
    <2>3. Stage(d, m, q, w + 1)
      BY <1>4, <1>5, <2>2 DEF Stage, A
    <2>4. j + 1 = 17 * q + (w + 1)
      OBVIOUS
    <2> QED
      BY <2>1, <2>3, <2>4 DEF StageAt
  <1> QED
    BY <1>8, <1>9

LEMMA FreshStage == ASSUME NEW m \in Seq(Byte) PROVE Stage(Fresh, m, 0, 0)
  <1>1. Zeroes = NoLanes /\ AfterBlock(m)[0] = NoLanes
    BY AfterBlockUnfolds, WordSizes DEF Zeroes, NoLanes
  <1>2. NoLanes \in State
    BY IsState DEF NoLanes
  <1>3. /\ Fresh.s = Zeroes /\ Fresh.byteIndex = 0 /\ Fresh.wordIndex = 0 /\ Fresh.keccak = TRUE
    BY DEF Fresh, sha3_Init, sha3_SetFlags
  <1> QED
    BY <1>1, <1>2, <1>3, FreshType, PartlyNone DEF Stage

LEMMA StagesFollow ==
    ASSUME NEW m \in Seq(Byte), NEW W, Feeds(W, Fresh, m, Len(m))
    PROVE  \A j \in Nat : 8 * j <= Len(m) => StageAt(W[8 * j], m, j)
  <1> DEFINE S == {j \in Nat : 8 * j <= Len(m) => StageAt(W[8 * j], m, j)}
  <1>0. Len(m) \in Nat /\ Len(m) \in 0..Len(m)
    BY BytesOf
  <1>1. 0 \in S
    <2>1. W[0] = Fresh
      BY <1>0, FeedsUnfold
    <2>2. 0 = 17 * 0 + 0 /\ 0 \in Nat /\ 0 \in 0..16 /\ 8 * 0 = 0
      OBVIOUS
    <2>3. StageAt(W[8 * 0], m, 0)
      BY <2>1, <2>2, FreshStage DEF StageAt
    <2> QED
      BY <2>3
  <1>2. ASSUME NEW j \in S PROVE j + 1 \in S
    <2>1. j \in Nat /\ j + 1 \in Nat
      BY <1>2
    <2>2. ASSUME 8 * (j + 1) <= Len(m) PROVE StageAt(W[8 * (j + 1)], m, j + 1)
      <3>1. 8 * j <= Len(m) /\ 8 * j + 8 <= Len(m) /\ 8 * (j + 1) = 8 * j + 8 /\ 8 * j \in Nat
            /\ 8 * (j + 1) \in 0..Len(m)
        BY <1>0, <2>1, <2>2
      <3>2. StageAt(W[8 * j], m, j)
        BY <1>2, <3>1
      <3>3. PICK q \in Nat : \E w \in 0..16 : j = 17 * q + w /\ Stage(W[8 * j], m, q, w)
        BY <3>2 DEF StageAt
      <3>4. PICK w \in 0..16 : j = 17 * q + w /\ Stage(W[8 * j], m, q, w)
        BY <3>3
      <3>5. W[8 * j].byteIndex = 0
        BY <3>4 DEF Stage
      <3> DEFINE d == W[8 * (j + 1)]
      <3>6. d = Mix(W[8 * j], WordOf(Piece(m, 8 * j, 8))) /\ d.byteIndex = 0
        BY <1>0, <3>1, <3>5, FreshType, FedWord
      <3>7. Context(d)
        BY <1>0, <3>1, FreshType, FedType
      <3> HIDE DEF d
      <3>8. StageAt(d, m, j + 1)
        BY <2>2, <3>4, <3>6, <3>7, StageMore
      <3> QED
        BY <3>8 DEF d
    <2> QED
      BY <2>1, <2>2
  <1> HIDE DEF S
  <1>3. S \in SUBSET Nat
    BY DEF S
  <1>4. S = Nat
    BY <1>1, <1>2, <1>3, Rounds!SetInduction
  <1> QED
    BY <1>4 DEF S

(* What a whole message leaves in a fresh context: after its last word, w  *)
(* lanes of the block after q, and k bytes that wait.                      *)
Leaves(m, q, w, k) ==
    /\ Len(m) = 136 * q + 8 * w + k
    /\ AfterBlock(m)[q] \in State
    /\ Context(sha3_Update(Fresh, m))
    /\ sha3_Update(Fresh, m) =
           [s |-> Partly(AfterBlock(m)[q], m, q, w), saved |-> WordBits(m, 17 * q + w, k),
            byteIndex |-> k, wordIndex |-> w, capacityWords |-> 8, keccak |-> TRUE]

LEMMA UpdateLeaves ==
    ASSUME NEW m \in Seq(Byte)
    PROVE  \E q \in Nat : \E w \in 0..16 : \E k \in 0..7 : Leaves(m, q, w, k)
  <1>1. PICK W : \A n \in Nat : Feeds(W, Fresh, m, n)
    BY FeedingExists
  <1>2. Len(m) \in Nat /\ Len(m) \in 0..Len(m)
    BY BytesOf
  <1>3. Feeds(W, Fresh, m, Len(m))
    BY <1>1, <1>2
  <1> DEFINE j == Len(m) \div 8
             k == Len(m) % 8
  <1>4. j \in Nat /\ k \in 0..7 /\ 8 * j + k = Len(m) /\ 8 * j \in Nat /\ 8 * j <= Len(m)
        /\ 8 * j \in 0..Len(m) /\ k \in Nat /\ k \in 0..8
    BY <1>2
  <1> HIDE DEF j, k
  <1>5. StageAt(W[8 * j], m, j)
    BY <1>3, <1>4, StagesFollow
  <1>6. PICK q \in Nat : \E w \in 0..16 : j = 17 * q + w /\ Stage(W[8 * j], m, q, w)
    BY <1>5 DEF StageAt
  <1>7. PICK w \in 0..16 : j = 17 * q + w /\ Stage(W[8 * j], m, q, w)
    BY <1>6
  <1> DEFINE c == W[8 * j]
             piece == Piece(m, 8 * j, k)
  <1>8. Context(c) /\ c.byteIndex = 0 /\ c.wordIndex = w /\ c.keccak = TRUE
        /\ AfterBlock(m)[q] \in State /\ c.s = Partly(AfterBlock(m)[q], m, q, w)
    BY <1>7 DEF Stage
  <1>9. sha3_Update(Fresh, m) = W[Len(m)] /\ Context(W[Len(m)])
    BY <1>3, FreshType, UpdateFeeds
  <1>10. W[Len(m)] = Save(c, piece)
    <2>1. W[8 * j].byteIndex + k <= 7 /\ 8 * j + k <= Len(m)
      BY <1>4, <1>8
    <2>2. W[8 * j + k] = Save(W[8 * j], Piece(m, 8 * j, k))
      BY <1>2, <1>3, <1>4, <2>1, FreshType, FedSaved, SMTT(30)
    <2> QED
      BY <1>4, <2>2
  <1>11. piece \in Seq(Byte) /\ Len(piece) = k
    BY <1>4, PieceType
  <1>12. WordOf(piece) = WordBits(m, j, k) /\ WordOf(piece) \in SUBSET (0..63)
    <2>1. WordOf(piece) = WordBits(m, j, k)
      BY <1>4, PieceBits
    <2>2. WordBits(m, j, k) \in SUBSET (0..63)
      BY DEF WordBits
    <2> QED
      BY <2>1, <2>2
  <1> HIDE DEF c, piece
  <1>13. c.saved = {} /\ c.capacityWords = 8
    BY <1>8, NothingGathered DEF Context
  <1>14. Save(c, piece) = [s |-> c.s,
                           saved |-> c.saved \cup {8 * c.byteIndex + b : b \in WordOf(piece)},
                           byteIndex |-> c.byteIndex + Len(piece),
                           wordIndex |-> c.wordIndex, capacityWords |-> c.capacityWords,
                           keccak |-> c.keccak]
    BY <1>8, <1>11, SaveFields
  <1>15. c.saved \cup {8 * c.byteIndex + b : b \in WordOf(piece)} = WordOf(piece)
    <2> DEFINE word == WordOf(piece)
               at == c.byteIndex
    <2>1. word \in SUBSET (0..63) /\ at = 0
      BY <1>8, <1>12
    <2> HIDE DEF word, at
    <2>2. \A b \in word : 8 * at + b = b
      BY <2>1
    <2>3. {8 * at + b : b \in word} = word
      BY <2>2
    <2> QED
      BY <1>13, <2>3 DEF word, at
  <1>16. c.byteIndex + Len(piece) = k
    BY <1>4, <1>8, <1>11
  <1>17. sha3_Update(Fresh, m) =
             [s |-> Partly(AfterBlock(m)[q], m, q, w), saved |-> WordBits(m, 17 * q + w, k),
              byteIndex |-> k, wordIndex |-> w, capacityWords |-> 8, keccak |-> TRUE]
    BY <1>7, <1>8, <1>9, <1>10, <1>12, <1>13, <1>14, <1>15, <1>16
  <1>18. Len(m) = 136 * q + 8 * w + k
    BY <1>4, <1>7
  <1>19. Leaves(m, q, w, k)
    BY <1>8, <1>9, <1>17, <1>18 DEF Leaves
  <1> QED
    BY <1>4, <1>19

(* The lanes of the last block: those mixed, the one with the end of the   *)
(* message, those between, and the seventeenth, which has the last bit.    *)
LastBit(m, q, w, k, i, b) ==
    b \in LaneBits(m, q, i) <=>
        \/ i = w + 1 /\ (b \in WordBits(m, 17 * q + w, k) \/ b = 8 * k)
        \/ i = 17 /\ b = 63

LEMMA LastLanes ==
    ASSUME NEW m \in Seq(Byte), NEW q \in Nat, NEW w \in 0..16, NEW k \in 0..7,
           Len(m) = 136 * q + 8 * w + k, NEW i \in 1..17, i > w, NEW b \in 0..63
    PROVE  LastBit(m, q, w, k, i, b)
  <1> DEFINE p == 1088 * q + 64 * (i - 1) + b
             end == 1088 * Blocks(m) - 1
             length == 8 * Len(m)
             bits == Padded(m)
  <1>1. /\ b \in LaneBits(m, q, i) <=> p \in bits
        /\ p \in Nat
    BY DEF LaneBits
  <1>2. /\ length = 1088 * q + 64 * w + 8 * k /\ end = 1088 * q + 1087
        /\ length < end
    <2>1. Blocks(m) = q + 1
      BY BlockOf, ZenonT(60)
    <2> QED
      BY <2>1
  <1>3. p >= length => (p \in bits <=> p = length \/ p = end)
    BY <1>1, PaddingBits
  <1>4. b \in WordBits(m, 17 * q + w, k) <=> b < 8 * k /\ 64 * (17 * q + w) + b \in bits
    BY DEF WordBits
  <1>5. p = end <=> i = 17 /\ b = 63
    <2> HIDE DEF end
    <2> QED
      BY <1>2
  <1>6. p = length <=> i = w + 1 /\ b = 8 * k
    <2> HIDE DEF length
    <2> QED
      BY <1>2
  <1>7. p >= length <=> i # w + 1 \/ b >= 8 * k
    <2> HIDE DEF length
    <2> QED
      BY <1>2
  <1>8. i = w + 1 => 64 * (17 * q + w) + b = p
    OBVIOUS
  <1>9. 8 * k \in Int /\ 8 * k < 63
    OBVIOUS
  <1> HIDE DEF p, end, length, bits
  <1>10. CASE p >= length
    <2>1. i = w + 1 => ~(b < 8 * k)
      BY <1>7, <1>9, <1>10
    <2> QED
      BY <1>1, <1>3, <1>4, <1>5, <1>6, <1>10, <2>1 DEF LastBit
  <1>11. CASE ~(p >= length)
    <2>1. i = w + 1 /\ b < 8 * k /\ ~(b = 8 * k) /\ ~(b = 63)
      BY <1>7, <1>9, <1>11
    <2>2. 64 * (17 * q + w) + b = p
      BY <1>8, <2>1
    <2> QED
      BY <1>1, <1>4, <2>1, <2>2, Zenon DEF LastBit
  <1> QED
    BY <1>10, <1>11

LEMMA FinalizeAbsorbs ==
    ASSUME NEW m \in Seq(Byte), NEW q \in Nat, NEW w \in 0..16, NEW k \in 0..7,
           Leaves(m, q, w, k)
    PROVE  sha3_Finalize(sha3_Update(Fresh, m)).s = AfterBlock(m)[Blocks(m)]
  <1> DEFINE c == sha3_Update(Fresh, m)
             A == AfterBlock(m)[q]
             P == Partly(A, m, q, w)
             waiting == WordBits(m, 17 * q + w, k)
             pad == {8 * c.byteIndex + b : b \in IF c.keccak THEN {0} ELSE {1, 2}}
             gathered == [c.s EXCEPT ![c.wordIndex + 1] = Xor(@, Xor(c.saved, pad))]
             padded == [gathered EXCEPT ![Rate(c)] = Xor(@, {BITS - 1})]
  <1>1. /\ Len(m) = 136 * q + 8 * w + k /\ A \in State
        /\ c = [s |-> P, saved |-> waiting, byteIndex |-> k, wordIndex |-> w,
                capacityWords |-> 8, keccak |-> TRUE]
    BY DEF Leaves
  <1> HIDE DEF c
  <1>2. sha3_Finalize(c) = [c EXCEPT !.s = keccakf(padded)]
    BY DEF sha3_Finalize
  <1>3. /\ c.s = P /\ c.saved = waiting /\ c.byteIndex = k /\ c.wordIndex = w
        /\ c.capacityWords = 8 /\ c.keccak = TRUE
    BY <1>1
  <1>4. pad = {8 * k}
    <2>1. pad = {8 * c.byteIndex + b : b \in {0}}
      BY <1>3
    <2>2. 8 * c.byteIndex + 0 = 8 * k
      BY <1>3
    <2> HIDE DEF pad
    <2> QED
      BY <2>1, <2>2
  <1>5. Rate(c) = 17 /\ BITS - 1 = 63
    BY <1>3, WordSizes DEF Rate
  <1> HIDE DEF pad
  <1> DEFINE last == Xor(waiting, {8 * k})
  <1>6. gathered = [P EXCEPT ![w + 1] = Xor(@, last)]
    BY <1>3, <1>4
  <1>7. padded = [gathered EXCEPT ![17] = Xor(@, {63})]
    BY <1>5
  <1> HIDE DEF padded, gathered, last
  <1>8. P \in [1..25 -> SUBSET (0..63)] /\ A \in [1..25 -> SUBSET (0..63)]
    BY <1>1, PartlyType, IsState
  <1>9. \A i \in 1..25 : P[i] = IF i <= w THEN Plus(A[i], LaneBits(m, q, i)) ELSE A[i]
    BY DEF Partly
  <1> HIDE DEF P, A
  <1>10. /\ gathered = [i \in 1..25 |-> gathered[i]]
         /\ \A i \in 1..25 : gathered[i] = IF i = w + 1 THEN Xor(P[i], last) ELSE P[i]
    BY <1>6, <1>8
  <1>11. /\ padded = [i \in 1..25 |-> padded[i]]
         /\ \A i \in 1..25 : padded[i] = IF i = 17 THEN Xor(gathered[i], {63}) ELSE gathered[i]
    BY <1>7, <1>10
  <1>12. ASSUME NEW b \in 0..63 PROVE b \in last <=> b \in waiting \/ b = 8 * k
    <2>1. 8 * k \notin waiting
      BY DEF WordBits
    <2> HIDE DEF waiting
    <2> QED
      BY <2>1 DEF last, Xor
  <1>13. last \in SUBSET (0..63)
    <2>1. waiting \in SUBSET (0..63) /\ {8 * k} \in SUBSET (0..63)
      BY DEF WordBits
    <2> QED
      BY <2>1, XorType DEF last
  <1>14. 63 \notin last
    <2>1. 63 \in 0..63 /\ 63 \notin waiting /\ 63 # 8 * k
      BY DEF WordBits
    <2> HIDE DEF waiting
    <2> QED
      BY <1>12, <2>1
  <1>15. ASSUME NEW i \in 1..17, i > w, NEW b \in 0..63
         PROVE  b \in LaneBits(m, q, i) <=> (i = w + 1 /\ b \in last) \/ (i = 17 /\ b = 63)
    <2>1. b \in LaneBits(m, q, i) <=>
              \/ i = w + 1 /\ (b \in waiting \/ b = 8 * k)
              \/ i = 17 /\ b = 63
      <3>1. LastBit(m, q, w, k, i, b)
        BY <1>1, <1>15, LastLanes
      <3> QED
        BY <3>1, Zenon DEF LastBit
    <2> HIDE DEF waiting
    <2> QED
      BY <1>12, <2>1
  <1>16. ASSUME NEW i \in 1..25
         PROVE  padded[i] = IF i <= 17 THEN Plus(A[i], LaneBits(m, q, i)) ELSE A[i]
    <2> DEFINE bits == LaneBits(m, q, i)
    <2>1. bits \in SUBSET (0..63)
      BY LaneBitsType
    <2>2. \A v : Xor(v, last) = Plus(v, last) /\ Xor(v, {63}) = Plus(v, {63})
      BY SameXor
    <2> HIDE DEF bits, waiting
    <2>3. CASE i <= w
      <3>1. i # w + 1 /\ i # 17 /\ i <= 17
        BY <2>3
      <3> QED
        BY <1>9, <1>10, <1>11, <2>3, <3>1 DEF bits
    <2>4. CASE i > 17
      <3>1. i # w + 1 /\ i # 17 /\ ~(i <= 17) /\ ~(i <= w)
        BY <2>4
      <3> QED
        BY <1>9, <1>10, <1>11, <3>1
    <2>5. CASE i > w /\ i <= 17
      <3>0. ~(i <= w) /\ i <= 17 /\ i \in 1..17
        BY <2>5
      <3>1. P[i] = A[i] /\ i \in 1..17
        BY <1>9, <3>0
      <3>2. \A b \in 0..63 : b \in bits <=> (i = w + 1 /\ b \in last) \/ (i = 17 /\ b = 63)
        BY <1>15, <2>5, <3>1 DEF bits
      <3>3. CASE i = w + 1 /\ i # 17
        <4>1. bits = last
          BY <1>13, <2>1, <3>2, <3>3
        <4>2. padded[i] = Plus(A[i], last)
          BY <1>10, <1>11, <2>2, <3>1, <3>3, SMTT(30)
        <4> QED
          BY <3>0, <4>1, <4>2 DEF bits
      <3>4. CASE i = w + 1 /\ i = 17
        <4>1. bits = last \cup {63}
          <5>1. 63 \in 0..63 /\ \A b \in 0..63 : b \in bits <=> b \in last \/ b = 63
            BY <3>2, <3>4
          <5> QED
            BY <1>13, <2>1, <5>1
        <4>2. padded[i] = Xor(Xor(A[i], last), {63})
          BY <1>10, <1>11, <3>1, <3>4
        <4>3. Xor(Xor(A[i], last), {63}) = Plus(A[i], last \cup {63})
          BY <1>14 DEF Xor, Plus
        <4> QED
          BY <3>0, <4>1, <4>2, <4>3 DEF bits
      <3>5. CASE i # w + 1 /\ i = 17
        <4>1. bits = {63}
          <5>1. 63 \in 0..63 /\ \A b \in 0..63 : b \in bits <=> b = 63
            BY <3>2, <3>5
          <5> QED
            BY <2>1, <5>1
        <4>2. padded[i] = Plus(A[i], {63})
          <5>1. gathered[i] = A[i]
            BY <1>10, <3>1, <3>5
          <5>2. padded[i] = Xor(gathered[i], {63})
            BY <1>11, <3>5
          <5> QED
            BY <2>2, <5>1, <5>2
        <4> QED
          BY <3>0, <4>1, <4>2 DEF bits
      <3>6. CASE i # w + 1 /\ i # 17
        <4>1. bits = {}
          BY <2>1, <3>2, <3>6
        <4>2. Plus(A[i], bits) = A[i]
          BY <4>1, PlusNone
        <4> QED
          BY <1>10, <1>11, <3>0, <3>1, <3>6, <4>2 DEF bits
      <3> QED
        BY <3>3, <3>4, <3>5, <3>6
    <2>6. i <= w \/ i > 17 \/ (i > w /\ i <= 17)
      OBVIOUS
    <2> QED
      BY <2>3, <2>4, <2>5, <2>6
  <1>17. padded = Partly(A, m, q, 17)
    BY <1>11, <1>16 DEF Partly
  <1>18. Blocks(m) = q + 1
    BY <1>1, BlockOf, ZenonT(60)
  <1>19. keccakf(Partly(A, m, q, 17)) = AfterBlock(m)[q + 1]
    <2>1. q + 1 <= Blocks(m)
      BY <1>18
    <2> QED
      BY <1>1, <2>1, AfterBlockTypes DEF A
  <1>20. sha3_Finalize(c).s = keccakf(padded)
    BY <1>1, <1>2
  <1> QED
    BY <1>17, <1>18, <1>19, <1>20 DEF c

LEMMA DigestOf ==
    ASSUME NEW m \in Seq(Byte)
    PROVE  [i \in 1..32 |-> sb(sha3_Finalize(sha3_Update(Fresh, m)), i)] = Digest(m)
  <1> DEFINE c == sha3_Finalize(sha3_Update(Fresh, m))
             A == AfterBlock(m)[Blocks(m)]
  <1>1. PICK q \in Nat : \E w \in 0..16 : \E k \in 0..7 : Leaves(m, q, w, k)
    BY UpdateLeaves
  <1>2. PICK w \in 0..16 : \E k \in 0..7 : Leaves(m, q, w, k)
    BY <1>1
  <1>3. PICK k \in 0..7 : Leaves(m, q, w, k)
    BY <1>2
  <1>4. c.s = A
    BY <1>3, FinalizeAbsorbs
  <1>5. Digest(m) = Output(A)
    BY AfterBlockUnfolds
  <1> HIDE DEF c, A
  <1>6. Output(A) = [i \in 1..32 |-> sb(c, i)]
    BY <1>4 DEF Output, sb, WORD
  <1> QED
    BY <1>5, <1>6 DEF c

-----------------------------------------------------------------------------

DigestInv == IInv /\ DigestIsKeccak256

LEMMA DigestStep == ASSUME IInv, cx_hash_last PROVE DigestIsKeccak256'
  <1> DEFINE m == SubSeq(Message, 1, absorbed)
  <1>1. Context(ctx) /\ absorbed \in 0..Len(Message) /\ ctx = sha3_Update(Fresh, m)
    BY DEF IInv, PiecesDoNotMatter, cx_hash_last
  <1>2. m \in Seq(Byte)
    <2>1. Message \in Seq(Byte) /\ absorbed \in Nat /\ 0 + absorbed <= Len(Message) /\ 0 \in Nat
      BY <1>1, MessageType DEF Whole
    <2>2. Piece(Message, 0, absorbed) \in Seq(Byte)
      BY <2>1, PieceType
    <2>3. 0 + 1 = 1 /\ 0 + absorbed = absorbed
      BY <2>1
    <2> QED
      BY <2>2, <2>3 DEF Piece
  <1>3. ctx' = sha3_Finalize(ctx) /\ absorbed' = absorbed
    BY <1>1, UpdateNothing DEF cx_hash_last
  <1>4. out' = [i \in 1..32 |-> sb(ctx', i)]
    BY DEF cx_hash_last
  <1>5. SubSeq(Message, 1, absorbed)' = m
    BY <1>3
  <1> HIDE DEF m
  <1>6. out' = Digest(m)
    BY <1>1, <1>2, <1>3, <1>4, DigestOf
  <1> QED
    BY <1>5, <1>6 DEF DigestIsKeccak256

LEMMA DigestInvStep == DigestInv /\ [Next]_vars => DigestInv'
  <1> SUFFICES ASSUME DigestInv, [Next]_vars PROVE DigestIsKeccak256'
    BY NextInv DEF DigestInv
  <1>1. CASE UNCHANGED vars
    BY <1>1 DEF vars, DigestInv, DigestIsKeccak256
  <1>2. CASE cx_keccak_init
    BY <1>2 DEF cx_keccak_init, DigestIsKeccak256
  <1>3. CASE \E len \in Lengths : cx_hash(len)
    <2>1. out' = NULL
      BY <1>3 DEF cx_hash
    <2> QED
      BY <2>1 DEF DigestIsKeccak256
  <1>4. CASE cx_hash_last
    BY <1>4, DigestStep DEF DigestInv
  <1> QED
    BY <1>1, <1>2, <1>3, <1>4 DEF Next

(* For every message, cut in every way: the digest a context gives is the  *)
(* Keccak-256 of the bytes it was given, as the definition of Keccak       *)
(* computes it: sha3_Update(), sha3_Finalize() and keccakf() of sha3.c     *)
(* implement the function, of which only the tables are compared by TLC.   *)
THEOREM DigestsAreKeccak == Spec => []DigestIsKeccak256
  <1>1. Init => DigestInv
    BY InitInv DEF Init, DigestInv, DigestIsKeccak256
  <1>2. DigestInv => DigestIsKeccak256
    BY DEF DigestInv
  <1> QED
    BY <1>1, <1>2, DigestInvStep, PTL DEF Spec

=============================================================================
