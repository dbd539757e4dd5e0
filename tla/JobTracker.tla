----------------------------- MODULE JobTracker -----------------------------
(***************************************************************************)
(* The job tracker on its own, fed any sequence of snapshots: every reply  *)
(* a printer can give, and None for a printer that cannot be read.  The    *)
(* wall clock is free (time.time may be stepped), so the session id        *)
(* int(now) is any second of Times.                                        *)
(***************************************************************************)
EXTENDS Tracking

CONSTANT Times      \* the seconds int(now) may show

ASSUME TimesAssumption == Times \subseteq Nat

VARIABLES
    tracker,    \* the JobTracker object
    batch,      \* what the latest observe() returned
    last        \* history: the latest telling snapshot, None before the first

vars == <<tracker, batch, last>>

Init == /\ tracker = Fresh
        /\ batch = <<>>
        /\ last = None

Observe(s, now) ==
    /\ tracker' = Observed(tracker, s, now)
    /\ batch' = Emitted(tracker, s)
    /\ last' = IF Telling(s) THEN s ELSE last

Next == \E s \in Snapshots \cup {None}, now \in Times : Observe(s, now)

Spec == Init /\ [][Next]_vars
-----------------------------------------------------------------------------
TypeOK ==
    /\ tracker \in Trackers
    /\ batch \in Batches
    /\ last \in Snapshots \cup {None}

\* The tracker, which only ever sees differences, never drifts from the
\* printer: after any sequence of readable, unreadable and unfamiliar replies
\* it holds a session exactly when the last telling snapshot showed a job, for
\* the same file, with the same pause state and the same progress, and with a
\* session id (JobTracker.observe, _start, _end).
TrackerMirrorsPrinter ==
    IF last # None /\ HasJob(last)
    THEN /\ tracker.file = last.file
         /\ tracker.paused = IsPaused(last)
         /\ tracker.done = last.done
         /\ tracker.ts \in Nat
    ELSE tracker = Fresh

\* The events are a well-formed story of print sessions: the tracker
\* implements PrintSession (JobTracker.observe).
Session == INSTANCE PrintSession WITH
    phase <- IF tracker.file = NoFile THEN "none"
             ELSE IF tracker.paused THEN "paused" ELSE "printing",
    id    <- tracker.ts,
    news  <- batch

TellsSessions == Session!Spec
=============================================================================
