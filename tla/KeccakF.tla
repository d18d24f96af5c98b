------------------------------ MODULE KeccakF ------------------------------
(***************************************************************************)
(* keccakf() of lib/sha3.c, the permutation that mixes the state of a hash *)
(* context, by its tables. A word is the set of the numbers of its bits    *)
(* that are 1: xor is then the symmetric difference.                       *)
(***************************************************************************)
EXTENDS Integers, Sequences

(* SHA3_KECCAK_SPONGE_WORDS words of sizeof(uint64_t) bytes. Word s[i] of  *)
(* the code is element i + 1.                                              *)
SPONGE_WORDS == 25

WORD == 8

BITS == 8 * WORD

KECCAK_ROUNDS == 24

Zeroes == [i \in 1..SPONGE_WORDS |-> {}]

Xor(v, w) == {b : b \in (v \ w) \cup (w \ v)}

ROTL64(w, n) == {(b + n) % BITS : b \in w}

-----------------------------------------------------------------------------

keccakf_rndc == <<
    {0}, {1, 7, 15}, {1, 3, 7, 15, 63}, {15, 31, 63}, {0, 1, 3, 7, 15}, {0, 31},
    {0, 7, 15, 31, 63}, {0, 3, 15, 63}, {1, 3, 7}, {3, 7}, {0, 3, 15, 31}, {1, 3, 31},
    {0, 1, 3, 7, 15, 31}, {0, 1, 3, 7, 63}, {0, 3, 7, 15, 63}, {0, 1, 15, 63}, {1, 15, 63},
    {7, 63}, {1, 3, 15}, {1, 3, 31, 63}, {0, 7, 15, 31, 63}, {7, 15, 63}, {0, 31},
    {3, 15, 31, 63}>>

keccakf_rotc == <<1, 3, 6, 10, 15, 21, 28, 36, 45, 55, 2, 14, 27, 41, 56, 8, 25, 43, 62,
                  18, 39, 61, 20, 44>>

keccakf_piln == <<10, 7, 11, 17, 18, 3, 5, 16, 8, 21, 24, 4, 15, 23, 19, 13, 12, 2, 20,
                  14, 22, 9, 6, 1>>

Theta(s) ==
    LET bc(i) == Xor(s[i], Xor(s[i + 5], Xor(s[i + 10], Xor(s[i + 15], s[i + 20]))))
        t(i) == Xor(bc(((i + 3) % 5) + 1), ROTL64(bc((i % 5) + 1), 1))
    IN  [k \in 1..SPONGE_WORDS |-> Xor(s[k], t(((k - 1) % 5) + 1))]

(* A word is carried from one position of piln to the next, and turned;    *)
(* the first one comes from position 1. Position 0 is not on the way.      *)
StepTo == [k \in 2..SPONGE_WORDS |-> CHOOSE i \in 1..24 : keccakf_piln[i] = k - 1]

From(i) == IF i = 1 THEN 1 ELSE keccakf_piln[i - 1]

RhoPi(s) ==
    [k \in 1..SPONGE_WORDS |->
        IF k = 1 THEN s[1] ELSE ROTL64(s[From(StepTo[k]) + 1], keccakf_rotc[StepTo[k]])]

Chi(s) ==
    LET next(k, n) == k - ((k - 1) % 5) + ((k - 1 + n) % 5)
    IN  [k \in 1..SPONGE_WORDS |-> Xor(s[k], s[next(k, 2)] \ s[next(k, 1)])]

Iota(s, round) == <<Xor(Head(s), keccakf_rndc[round])>> \o Tail(s)

State == [1..SPONGE_WORDS -> SUBSET (0..(BITS - 1))]

keccakf(s) ==
    LET from[at \in (1..(KECCAK_ROUNDS + 1)) \X State] ==
            IF at[1] > KECCAK_ROUNDS THEN at[2]
            ELSE from[<<at[1] + 1, Iota(Chi(RhoPi(Theta(at[2]))), at[1])>>]
    IN  from[<<1, s>>]

=============================================================================
