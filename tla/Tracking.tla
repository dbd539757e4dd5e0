------------------------------ MODULE Tracking ------------------------------
(***************************************************************************)
(* JobTracker.observe (job_tracker.py) as a function: the tracker object   *)
(* before, the snapshot and the clock give the tracker after and the       *)
(* events returned.                                                        *)
(***************************************************************************)
EXTENDS Snapshot, Integers, Sequences

Events == {"PrintStarted", "PrintPaused", "PrintResumed",
           "PrintDone", "PrintCancelled", "PrintFailed"}

EndEvents == {"PrintDone", "PrintCancelled", "PrintFailed"}

NoSession == -1

Trackers == [ts     : Nat \cup {NoSession},   \* current_print_ts
             file   : Files \cup {NoFile},    \* active_file; NoFile for None
             paused : BOOLEAN,
             done   : BOOLEAN]                \* _last_progress >= DONE_THRESHOLD

\* The batches observe() can return are at most two events long.
Batches == {<<>>} \cup {<<e>> : e \in Events} \cup {<<e, "PrintStarted">> : e \in EndEvents}

Fresh == [ts |-> NoSession, file |-> NoFile, paused |-> FALSE, done |-> FALSE]

\* A snapshot the tracker learns from; the others leave it as it is.
Telling(s) == s # None /\ s.state # "unknown"

LosesJob(t, s) == t.file # NoFile /\ (~HasJob(s) \/ s.file # t.file)

EndEvent(t, s) ==
    CASE s.state = "completed"          -> "PrintDone"
      [] s.state = "cancelled"          -> "PrintCancelled"
      [] s.state = "ready" /\ t.done    -> "PrintDone"
      [] OTHER                          -> "PrintFailed"

StartedUnpaused(s, now) ==  \* mutant: a job is taken to start printing
    [ts |-> now, file |-> s.file, paused |-> FALSE, done |-> s.done]

Started(s, now) == [ts |-> now, file |-> s.file, paused |-> IsPaused(s), done |-> s.done]

Continued(t, s) == [t EXCEPT !.paused = IsPaused(s), !.done = s.done]

PauseEventsRepeated(t, s) ==    \* mutant: paused is announced on every reply
    IF IsPaused(s) THEN <<"PrintPaused">>
    ELSE IF t.paused THEN <<"PrintResumed">> ELSE <<>>

PauseEvents(t, s) ==
    IF IsPaused(s) = t.paused THEN <<>>
    ELSE IF IsPaused(s) THEN <<"PrintPaused">> ELSE <<"PrintResumed">>

\* The tracker after observe(s, now), for a telling snapshot s.
TrackerAfter(t, s, now) ==
    CASE HasJob(s) /\ (LosesJob(t, s) \/ t.file = NoFile)    -> Started(s, now)
      [] HasJob(s) /\ ~LosesJob(t, s) /\ t.file # NoFile     -> Continued(t, s)
      [] ~HasJob(s)                                          -> IF LosesJob(t, s) THEN Fresh ELSE t

EventsOfStartAndPause(t, s) ==  \* mutant: a new job also announces its pause
    (IF LosesJob(t, s) THEN <<EndEvent(t, s)>> ELSE <<>>)
    \o (IF HasJob(s) /\ (LosesJob(t, s) \/ t.file = NoFile) THEN <<"PrintStarted">> ELSE <<>>)
    \o (IF HasJob(s) THEN PauseEvents(t, s) ELSE <<>>)

\* The events observe(s, now) returns, for a telling snapshot s.
EventsOf(t, s) ==
    CASE LosesJob(t, s) /\ HasJob(s)    -> <<EndEvent(t, s), "PrintStarted">>
      [] LosesJob(t, s) /\ ~HasJob(s)   -> <<EndEvent(t, s)>>
      [] ~LosesJob(t, s) /\ HasJob(s)   -> IF t.file = NoFile THEN <<"PrintStarted">>
                                          ELSE PauseEvents(t, s)
      [] ~LosesJob(t, s) /\ ~HasJob(s)  -> <<>>

Observed(t, s, now) == IF Telling(s) THEN TrackerAfter(t, s, now) ELSE t

Emitted(t, s) == IF Telling(s) THEN EventsOf(t, s) ELSE <<>>
=============================================================================
