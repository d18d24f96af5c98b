----------------------------- MODULE ApduQueue -----------------------------
(***************************************************************************)
(* What reading APDUs from a byte stream is for: those in the queue are    *)
(* handled whole, each once, in order, until the queue is empty.           *)
(***************************************************************************)
EXTENDS Sequences, Naturals

VARIABLES queue,    \* the APDUs there are to handle
          handled

Init == handled = << >>

Handle ==
    /\ Len(handled) < Len(queue)
    /\ handled' = Append(handled, queue[Len(handled) + 1])
    /\ UNCHANGED queue

Safety == Init /\ [][Handle]_<<queue, handled>>

Spec == Safety /\ WF_<<queue, handled>>(Handle)

=============================================================================
