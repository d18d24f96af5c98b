------------------------------ MODULE Session ------------------------------
(***************************************************************************)
(* A whole session: the host walks a domain and a message and sends their  *)
(* APDUs, the signer handles them as they come. The host does not wait for *)
(* any answer, but the APDUs queue on the signer's standard input, so the  *)
(* signer reads the next one only when it is done with the one before.     *)
(***************************************************************************)
EXTENDS Device, Feeder, TypedData

CONSTANT Messages   \* [domain, primaryType, data]: what the user may want to sign

VARIABLES script,   \* APDUs on their way
          expected  \* the reference hashes of the domain and of the message

sessionVars == <<vars, script, expected>>

SessionInit ==
    /\ Init
    /\ \E m \in Messages :
        /\ script = Script(m.domain, m.primaryType, m.data)
        /\ expected = <<HashStruct("EIP712Domain", m.domain), HashStruct(m.primaryType, m.data)>>

ReadApdu ==
    /\ script # << >>
    /\ handle_apdu(Head(script))
    /\ script' = Tail(script)
    /\ UNCHANGED expected

Run == Continue /\ UNCHANGED <<script, expected>>

Ended == status = "exit" /\ UNCHANGED sessionVars

SessionNext == Run \/ ReadApdu \/ Ended

(* main() reads its input to the end and no handler blocks.                *)
SessionSpec == SessionInit /\ [][SessionNext]_sessionVars /\ WF_sessionVars(Run \/ ReadApdu)

-----------------------------------------------------------------------------

Oracle == INSTANCE HashOracle WITH printed <- digests

(* The signer prints the hash of the domain, then that of the message, as  *)
(* the reference implementation computes them, and always gets there.      *)
SignsReference == Oracle!Spec

(* Only these two hashes ever come out, in this order.                     *)
OnlyReferenceHashes ==
    \A i \in 1..Len(digests) : i <= Len(expected) /\ digests[i] = expected[i]

(* The APDUs of a session make the signer print both hashes.               *)
BothHashesPrinted == <>(Len(digests) = Len(expected))

(* The host and the signer walk the message in step: the field the host    *)
(* means with an APDU is the one the signer applies it to, and the first   *)
(* packet of a value, and no other, finds the field hash idle.             *)
InStep ==
    Running("ready") /\ script # << >> =>
        LET apdu == Head(script)
        IN  /\ apdu.op = "field" => path_get_field = apdu.of
            /\ apdu.op = "array" =>
                 \E n \in 1..depth_count :
                    FirstToOpen(n) /\ get_nth_field_from_path(n) = apdu.of
            /\ apdu.op \in {"name", "other"} => depth_count = 0
            /\ fh.state = "waiting" <=> (apdu.op = "field" /\ ~apdu.first)

=============================================================================
