------------------------------ MODULE MCSponge ------------------------------
(***************************************************************************)
(* Sponge on one message, a little longer than one block.                  *)
(***************************************************************************)
EXTENDS Sponge

MCMessage == [i \in 1..152 |-> {b \in 0..7 : ((37 * i + 11) \div 2^b) % 2 = 1}]

(* keccak256("") begins with c5 d2 46 01 86 f7 23 3c.                      *)
ASSUME DigestOfNothing ==
    SubSeq(Digest(<< >>), 1, 8) =
        <<{0, 2, 6, 7}, {1, 4, 6, 7}, {1, 2, 6}, {0}, {1, 2, 7}, {0, 1, 2, 4, 5, 6, 7},
          {0, 1, 5}, {2, 3, 4, 5}>>

=============================================================================
