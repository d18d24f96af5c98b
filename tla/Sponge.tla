------------------------------- MODULE Sponge -------------------------------
(***************************************************************************)
(* A hash context: sha3_Init(), sha3_Update() and sha3_Finalize() of       *)
(* lib/sha3.c as cx_keccak_init() and cx_hash() of wrap/libcxng.c call     *)
(* them. A byte is the set of its bits, as a word is. The message stands   *)
(* for everything the program hashes with one context, in any pieces.      *)
(***************************************************************************)
EXTENDS KeccakF, Keccak256

CONSTANTS Message,  \* a sequence of bytes, the longest to hash
          Lengths,  \* of the pieces it is given in
          NULL

ASSUME SpongeAssumption ==
    /\ Message \in Seq(SUBSET (0..7))
    /\ Lengths \subseteq Nat
    /\ NULL \notin [1..32 -> SUBSET (0..7)]

(* The tables of sha3.c hold what the definition of Keccak computes: the   *)
(* constants of the rounds, and where a lane comes from and is turned by.  *)
ASSUME TablesAssumption ==
    /\ \A round \in 1..KECCAK_ROUNDS : keccakf_rndc[round] = RoundConstant[round - 1]
    /\ \A k \in 2..SPONGE_WORDS :
           LET lane == 5 * (X(k) % 5) + ((X(k) + 3 * Y(k)) % 5) + 1
           IN  /\ From(StepTo[k]) + 1 = lane
               /\ keccakf_rotc[StepTo[k]] = Offset[lane] % BITS
               /\ Offset[lane] \in Nat

VARIABLES ctx,       \* sha3_context
          absorbed,  \* bytes of the message given since the initialisation
          out        \* the digest, if the context was asked for it

vars == <<ctx, absorbed, out>>

WordOf(bytes) == UNION {{8 * (i - 1) + b : b \in bytes[i]} : i \in DOMAIN bytes}

Rate(c) == SPONGE_WORDS - c.capacityWords

-----------------------------------------------------------------------------

(* Faulty variant: what was buffered is not cleared.                       *)
sha3_InitDirty(c, bitSize) ==
    [s |-> Zeroes, saved |-> c.saved, byteIndex |-> 0, wordIndex |-> 0,
     capacityWords |-> (2 * bitSize) \div BITS, keccak |-> FALSE]

sha3_Init(c, bitSize) ==
    [s |-> Zeroes, saved |-> {}, byteIndex |-> 0, wordIndex |-> 0,
     capacityWords |-> (2 * bitSize) \div BITS, keccak |-> FALSE]

(* Faulty variant: SHA-3 where Keccak is meant.                            *)
sha3_SetFlagsNone(c) == c

(* SHA3_FLAGS_KECCAK.                                                      *)
sha3_SetFlags(c) == [c EXCEPT !.keccak = TRUE]

(* Bytes into the word that is being gathered.                             *)
Save(c, bytes) ==
    [c EXCEPT !.saved = @ \cup {8 * c.byteIndex + b : b \in WordOf(bytes)},
              !.byteIndex = @ + Len(bytes)]

(* Faulty variant: the block is one word longer.                           *)
MixLate(c, word) ==
    LET s == [c.s EXCEPT ![c.wordIndex + 1] = Xor(@, word)]
    IN  IF c.wordIndex + 1 = Rate(c) + 1
        THEN [c EXCEPT !.s = keccakf(s), !.wordIndex = 0]
        ELSE [c EXCEPT !.s = s, !.wordIndex = @ + 1]

(* A word into the sponge, which is permuted when the block is complete.   *)
Mix(c, word) ==
    LET s == [c.s EXCEPT ![c.wordIndex + 1] = Xor(@, word)]
    IN  IF c.wordIndex + 1 = Rate(c)
        THEN [c EXCEPT !.s = keccakf(s), !.wordIndex = 0]
        ELSE [c EXCEPT !.s = s, !.wordIndex = @ + 1]

MixSaved(c) == [Mix(c, c.saved) EXCEPT !.saved = {}, !.byteIndex = 0]

(* What completes the gathered word, then whole words, then the rest.      *)
sha3_Update(c, buf) ==
    LET old_tail == (WORD - c.byteIndex) % WORD
    IN  IF Len(buf) < old_tail THEN Save(c, buf)
        ELSE LET started == IF old_tail = 0 THEN c ELSE MixSaved(Save(c, SubSeq(buf, 1, old_tail)))
                 words == (Len(buf) - old_tail) \div WORD
                 end(n) == old_tail + WORD * n
                 mixed[n \in 0..words] ==
                     IF n = 0 THEN started
                     ELSE Mix(mixed[n - 1], WordOf(SubSeq(buf, end(n - 1) + 1, end(n))))
             IN  Save(mixed[words], SubSeq(buf, end(words) + 1, Len(buf)))

(* The padding: after the message 1 (or, without the flag, 01 and 1), and  *)
(* the last bit of the block.                                              *)
sha3_Finalize(c) ==
    LET t == {8 * c.byteIndex + b : b \in IF c.keccak THEN {0} ELSE {1, 2}}
        last == Rate(c)
        gathered == [c.s EXCEPT ![c.wordIndex + 1] = Xor(@, Xor(c.saved, t))]
    IN  [c EXCEPT !.s = keccakf([gathered EXCEPT ![last] = Xor(@, {BITS - 1})])]

(* Byte i of the state, from 1: sb of the union.                           *)
sb(c, i) == {b \in 0..7 : 8 * ((i - 1) % WORD) + b \in c.s[((i - 1) \div WORD) + 1]}

-----------------------------------------------------------------------------

Fresh == sha3_SetFlags(sha3_Init([saved |-> {}], 256))

Init ==
    /\ ctx = Fresh
    /\ absorbed = 0
    /\ out = NULL

(* Before its first use, after a digest, or with a hash left unfinished.   *)
cx_keccak_init ==
    /\ ctx' = sha3_SetFlags(sha3_Init(ctx, 256))
    /\ absorbed' = 0
    /\ out' = NULL

cx_hash(len) ==
    /\ out = NULL
    /\ absorbed + len <= Len(Message)
    /\ ctx' = sha3_Update(ctx, SubSeq(Message, absorbed + 1, absorbed + len))
    /\ absorbed' = absorbed + len
    /\ UNCHANGED out

(* cx_hash() with CX_LAST: every call of it passes no more bytes.          *)
cx_hash_last ==
    /\ out = NULL
    /\ ctx' = sha3_Finalize(sha3_Update(ctx, << >>))
    /\ out' = [i \in 1..32 |-> sb(ctx', i)]
    /\ UNCHANGED absorbed

Next ==
    \/ cx_keccak_init
    \/ \E len \in Lengths : cx_hash(len)
    \/ cx_hash_last

Spec == Init /\ [][Next]_vars

-----------------------------------------------------------------------------

(* The assertions of sha3_Update() (lib/sha3.c:173 and on), which the      *)
(* build compiles to nothing: between two calls less than a word is        *)
(* gathered, in the low bytes of saved, and less than a block is mixed.    *)
TypeOK ==
    /\ absorbed \in 0..Len(Message)
    /\ ctx.s \in State
    /\ ctx.byteIndex \in 0..(WORD - 1)
    /\ ctx.wordIndex \in 0..(Rate(ctx) - 1)
    /\ ctx.saved \subseteq 0..(8 * ctx.byteIndex - 1)

(* A context depends on the bytes it was given, not on the pieces they     *)
(* came in (hash_nbytes() gives a type word by word, field_hash() a value  *)
(* packet by packet), nor on what its memory held before.                  *)
PiecesDoNotMatter ==
    out = NULL => ctx = sha3_Update(Fresh, SubSeq(Message, 1, absorbed))

(* What comes out is the Keccak-256 digest of what went in.                *)
DigestIsKeccak256 ==
    out # NULL => out = Digest(SubSeq(Message, 1, absorbed))

=============================================================================
