------------------------------ MODULE Mailbox ------------------------------
(***************************************************************************)
(* What ObicoServer promises the agent, with connections, queue and        *)
(* threads left out: a lossy channel that keeps the order.  The messages   *)
(* are numbered as they are accepted; any of them may be lost, but none is *)
(* heard twice, or after a later one, or without having been sent.         *)
(***************************************************************************)
EXTENDS Naturals

VARIABLES
    sent,   \* the number of the last message accepted
    heard   \* the number of the last message that came out at the other end

Init == sent = 0 /\ heard = 0

Accept == sent' = sent + 1 /\ UNCHANGED heard

Hear == heard' \in (heard + 1)..sent /\ UNCHANGED sent

Next == Accept \/ Hear

Spec == Init /\ [][Next]_<<sent, heard>>
=============================================================================
