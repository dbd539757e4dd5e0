--------------------------- MODULE DeferredPause ---------------------------
(***************************************************************************)
(* What the agent promises the people who press pause, resume and cancel,  *)
(* with threads, lock, printer and retries left out.  One command is       *)
(* carried out at a time.  A pause may be kept for later, but only while   *)
(* it is itself being carried out; to begin a resume or a cancel is to     *)
(* withdraw it, to begin another pause is not.                             *)
(***************************************************************************)
VARIABLES
    doing,  \* the command being carried out, or Nothing
    kept    \* "pause" while one is kept for later, or Nothing

Nothing == "none"

Init == doing = Nothing /\ kept = Nothing

Begin(c) ==
    /\ doing = Nothing
    /\ doing' = c
    /\ kept' = IF c = "pause" THEN kept ELSE Nothing

Keep == doing = "pause" /\ kept' = "pause" /\ UNCHANGED doing

End == doing # Nothing /\ doing' = Nothing /\ UNCHANGED kept

Settle == kept' = Nothing /\ UNCHANGED doing    \* sent again, or wanted no longer

Forget == doing' = Nothing /\ kept' = Nothing   \* the process is restarted

Next == (\E c \in {"pause", "resume", "cancel"} : Begin(c)) \/ Keep \/ End \/ Settle \/ Forget

Spec == Init /\ [][Next]_<<doing, kept>>
=============================================================================
