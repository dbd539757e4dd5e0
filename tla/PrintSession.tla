---------------------------- MODULE PrintSession ----------------------------
(***************************************************************************)
(* What the job tracker promises Obico, with the printer left out: at any  *)
(* moment there is at most one print session, and the news sent about it   *)
(* is a well-formed story.  A session begins once and ends once; in        *)
(* between it alternates between printing and paused, every change of the  *)
(* two is news, and its id does not move.  A session may be replaced by    *)
(* the next in one batch of news: the end first, then the start.           *)
(***************************************************************************)
EXTENDS Integers, Sequences

VARIABLES
    phase,  \* "none", "printing" or "paused"
    id,     \* the id of the session, NoId when there is none
    news    \* the events of the latest batch

NoId == -1
Endings == {"PrintDone", "PrintCancelled", "PrintFailed"}
Running == {"printing", "paused"}

Init == phase = "none" /\ id = NoId /\ news = <<>>

Quiet == news' = <<>> /\ UNCHANGED <<phase, id>>

Begin == /\ phase = "none"
         /\ phase' \in Running
         /\ id' \in Nat
         /\ news' = <<"PrintStarted">>

Pause == /\ phase = "printing"
         /\ phase' = "paused"
         /\ news' = <<"PrintPaused">>
         /\ UNCHANGED id

Resume == /\ phase = "paused"
          /\ phase' = "printing"
          /\ news' = <<"PrintResumed">>
          /\ UNCHANGED id

End == /\ phase \in Running
       /\ phase' = "none"
       /\ id' = NoId
       /\ \E e \in Endings : news' = <<e>>

Replace == /\ phase \in Running
           /\ phase' \in Running
           /\ id' \in Nat
           /\ \E e \in Endings : news' = <<e, "PrintStarted">>

Next == Quiet \/ Begin \/ Pause \/ Resume \/ End \/ Replace

Spec == Init /\ [][Next]_<<phase, id, news>>
=============================================================================
