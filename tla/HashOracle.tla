----------------------------- MODULE HashOracle -----------------------------
(***************************************************************************)
(* What the signer is for: it prints the expected hashes, one after the    *)
(* other, all of them, and nothing else.                                   *)
(***************************************************************************)
EXTENDS Sequences, Naturals

VARIABLES expected, \* the hashes of the messages of a session
          printed

Init == printed = << >>

PrintHash ==
    /\ Len(printed) < Len(expected)
    /\ printed' = Append(printed, expected[Len(printed) + 1])
    /\ UNCHANGED expected

Spec == Init /\ [][PrintHash]_<<expected, printed>> /\ WF_<<expected, printed>>(PrintHash)

=============================================================================
