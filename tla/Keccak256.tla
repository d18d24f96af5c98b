----------------------------- MODULE Keccak256 -----------------------------
(***************************************************************************)
(* The hash function that the signer's contexts are meant to compute, from *)
(* its definition and not from the code: Keccak with a rate of 1088 and a  *)
(* capacity of 512 bits, with its original padding, on messages of bytes.  *)
(* The state has 5 by 5 lanes of 64 bits; a byte, a lane and a string of   *)
(* bits are the sets of the positions of their ones.                       *)
(***************************************************************************)
EXTENDS Integers, Sequences

Plus(v, w) == {b : b \in (v \ w) \cup (w \ v)}

Turn(lane, n) == {(b + n) % 64 : b \in lane}

(* Lane <<x, y>> of the state A is element 5y + x + 1.                     *)
Lane(A, x, y) == A[5 * (y % 5) + (x % 5) + 1]

X(i) == (i - 1) % 5

Y(i) == (i - 1) \div 5

(* The t-th position on the way that visits all lanes but <<0, 0>>.        *)
Visit[t \in Nat] ==
    IF t = 0 THEN <<1, 0>>
    ELSE LET next(at) == <<at[2], (2 * at[1] + 3 * at[2]) % 5>> IN next(Visit[t - 1])

Offset ==
    [i \in 1..25 |->
        IF i = 1 THEN 0
        ELSE LET t == CHOOSE t \in 0..23 : Visit[t] = <<X(i), Y(i)>>
             IN  ((t + 1) * (t + 2)) \div 2]

(* A shift register with feedback: a polynomial of bits times x, modulo    *)
(* x^8 + x^6 + x^5 + x^4 + 1.                                              *)
Shifted[R \in SUBSET (0..7), n \in 0..7] ==
    IF n = 0 THEN R
    ELSE Shifted[Plus({b + 1 : b \in R \ {7}}, IF 7 \in R THEN {0, 4, 5, 6} ELSE {}), n - 1]

(* Seven shifts a round, one for each bit of a constant that can be 1.     *)
Register[round \in Nat] == IF round = 0 THEN {0} ELSE Shifted[Register[round - 1], 7]

RoundConstant ==
    [round \in 0..23 |-> {2^j - 1 : j \in {i \in 0..6 : 0 \in Shifted[Register[round], i]}}]

-----------------------------------------------------------------------------

ThetaStep(A) ==
    LET C(x) == Plus(Lane(A, x, 0), Plus(Lane(A, x, 1), Plus(Lane(A, x, 2),
                    Plus(Lane(A, x, 3), Lane(A, x, 4)))))
    IN  [i \in 1..25 |-> Plus(A[i], Plus(C(X(i) + 4), Turn(C(X(i) + 1), 1)))]

(* The lane at <<x, y>> comes from <<x + 3y, x>>, turned by its offset.    *)
RhoPiSteps(A) ==
    LET turned(x, y) == Turn(Lane(A, x, y), Lane(Offset, x, y))
    IN  [i \in 1..25 |-> turned(X(i) + 3 * Y(i), X(i))]

ChiStep(A) ==
    [i \in 1..25 |-> Plus(A[i], Lane(A, X(i) + 2, Y(i)) \ Lane(A, X(i) + 1, Y(i)))]

IotaStep(A, round) == <<Plus(Head(A), RoundConstant[round])>> \o Tail(A)

Permutation(A) ==
    LET from[at \in (0..24) \X [1..25 -> SUBSET (0..63)]] ==
            IF at[1] = 24 THEN at[2]
            ELSE from[<<at[1] + 1, IotaStep(ChiStep(RhoPiSteps(ThetaStep(at[2]))), at[1])>>]
    IN  from[<<0, A>>]

-----------------------------------------------------------------------------

BitRate == 1088

(* The bits of a message, a one, as few zeroes as fill a block with the    *)
(* one that ends it.                                                       *)
Blocks(message) == ((8 * Len(message) + 1) \div BitRate) + 1

Padded(message) ==
    (UNION {{8 * (i - 1) + b : b \in message[i]} : i \in DOMAIN message})
    \cup {8 * Len(message), BitRate * Blocks(message) - 1}

(* The n-th block, a lane after the other, into the state.                 *)
Absorbed(A, bits, n) ==
    [i \in 1..25 |->
        Plus(A[i], {b \in 0..63 : 64 * (i - 1) + b < BitRate
                                 /\ BitRate * (n - 1) + 64 * (i - 1) + b \in bits})]

(* The 32 bytes at the beginning of the state.                             *)
Output(A) == [i \in 1..32 |-> {b \in 0..7 : 8 * ((i - 1) % 8) + b \in A[((i - 1) \div 8) + 1]}]

Digest(message) ==
    LET absorbed[n \in 0..Blocks(message)] ==
            IF n = 0 THEN [i \in 1..25 |-> {}]
            ELSE Permutation(Absorbed(absorbed[n - 1], Padded(message), n))
    IN  Output(absorbed[Blocks(message)])

=============================================================================
