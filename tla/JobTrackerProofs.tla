-------------------------- MODULE JobTrackerProofs --------------------------
(***************************************************************************)
(* The tracker's invariants and its refinement, for every set of files and *)
(* codes and every clock.  The argument: TrackerMirrorsPrinter is          *)
(* inductive, since a telling snapshot determines the tracker's file,      *)
(* pause and progress, and the others change nothing.  The refinement then *)
(* goes case by case on whether the snapshot shows a job and whether the   *)
(* tracker held it.                                                        *)
(***************************************************************************)
EXTENDS JobTracker, TrackingProofs

\* Every variable keeps its type (TypeOK).
THEOREM TypeCorrect == Spec => []TypeOK
<1>1. Init => TypeOK
  BY DEF Init, TypeOK, Fresh, Trackers, NoSession, Batches
<1>2. TypeOK /\ [Next]_vars => TypeOK'
  <2>. SUFFICES ASSUME TypeOK, [Next]_vars
                PROVE  TypeOK'
    OBVIOUS
  <2>1. ASSUME NEW s \in Snapshots \cup {None}, NEW now \in Times, Observe(s, now)
        PROVE  TypeOK'
    <3>1. now \in Nat
      BY TimesAssumption
    <3>2. tracker' \in Trackers
      BY <2>1, <3>1, ObservedType DEF TypeOK, Observe
    <3>3. batch' \in Batches
      BY <2>1, EmittedType DEF TypeOK, Observe
    <3>4. last' \in Snapshots \cup {None}
      BY <2>1 DEF TypeOK, Observe
    <3>. QED
      BY <3>2, <3>3, <3>4 DEF TypeOK
  <2>2. CASE UNCHANGED vars
    BY <2>2 DEF vars, TypeOK
  <2>. QED
    BY <2>1, <2>2 DEF Next
<1>. QED
  BY <1>1, <1>2, PTL DEF Spec

\* A tracker that mirrored the printer mirrors it after one more observe().
LEMMA ObserveMirrors ==
    ASSUME TypeOK, TrackerMirrorsPrinter,
           NEW s \in Snapshots \cup {None}, NEW now \in Times, Observe(s, now)
    PROVE  TrackerMirrorsPrinter'
<1>1. CASE ~Telling(s)
  BY <1>1 DEF Observe, Observed, TrackerMirrorsPrinter
<1>2. CASE Telling(s)
  <2>1. s \in Snapshots /\ s # None /\ last' = s /\ now \in Nat
    BY <1>2, TellingIsSnapshot, TimesAssumption DEF Observe, Telling
  <2>2. tracker' = TrackerAfter(tracker, s, now)
    BY <1>2 DEF Observe, Observed
  <2>3. CASE ~HasJob(s)
    <3>1. tracker.file = NoFile => tracker = Fresh
      BY DEF TrackerMirrorsPrinter, HasJob
    <3>2. tracker' = Fresh
      BY <2>2, <2>3, <3>1 DEF TrackerAfter, LosesJob
    <3>. QED
      BY <2>1, <2>3, <3>2 DEF TrackerMirrorsPrinter
  <2>4. CASE HasJob(s) /\ (LosesJob(tracker, s) \/ tracker.file = NoFile)
    <3>1. tracker' = Started(s, now)
      BY <2>2, <2>4 DEF TrackerAfter
    <3>. QED
      BY <2>1, <2>4, <3>1 DEF TrackerMirrorsPrinter, Started
  <2>5. CASE HasJob(s) /\ ~LosesJob(tracker, s) /\ tracker.file # NoFile
    <3>1. tracker' = Continued(tracker, s)
      BY <2>2, <2>5 DEF TrackerAfter
    <3>2. tracker.file = s.file
      BY <2>5 DEF LosesJob
    <3>3. tracker.ts \in Nat
      BY <2>5 DEF TrackerMirrorsPrinter, Fresh
    <3>. QED
      BY <2>1, <2>5, <3>1, <3>2, <3>3 DEF TrackerMirrorsPrinter, Continued, TypeOK, Trackers
  <2>. QED
    BY <2>3, <2>4, <2>5
<1>. QED
  BY <1>1, <1>2

\* The tracker never drifts from the printer (TrackerMirrorsPrinter).
THEOREM MirrorCorrect == Spec => []TrackerMirrorsPrinter
<1>1. Init => TrackerMirrorsPrinter
  BY DEF Init, TrackerMirrorsPrinter
<1>2. TypeOK /\ TrackerMirrorsPrinter /\ [Next]_vars => TrackerMirrorsPrinter'
  <2>1. ASSUME TypeOK, TrackerMirrorsPrinter, Next
        PROVE  TrackerMirrorsPrinter'
    BY <2>1, ObserveMirrors DEF Next
  <2>2. ASSUME TrackerMirrorsPrinter, UNCHANGED vars
        PROVE  TrackerMirrorsPrinter'
    BY <2>2 DEF vars, TrackerMirrorsPrinter
  <2>. QED
    BY <2>1, <2>2
<1>. QED
  BY <1>1, <1>2, TypeCorrect, PTL DEF Spec
-----------------------------------------------------------------------------
\* One observe() is one step of the story, or a quiet one (TellsSessions).
LEMMA ObserveTells ==
    ASSUME TypeOK, TrackerMirrorsPrinter,
           NEW s \in Snapshots \cup {None}, NEW now \in Times, Observe(s, now)
    PROVE  Session!Next
<1>. USE DEF Session!Next
<1>1. CASE ~Telling(s)
  BY <1>1 DEF Observe, Observed, Emitted, Session!Quiet
<1>2. CASE Telling(s)
  <2>1. /\ now \in Nat
        /\ tracker' = TrackerAfter(tracker, s, now)
        /\ batch' = EventsOf(tracker, s)
    BY <1>2, TimesAssumption DEF Observe, Observed, Emitted
  <2>2. s \in Snapshots
    BY <1>2, TellingIsSnapshot
  <2>3. CASE tracker.file = NoFile /\ ~HasJob(s)
    <3>1. tracker' = tracker /\ batch' = <<>>
      BY <2>1, <2>3 DEF TrackerAfter, EventsOf, LosesJob
    <3>. QED
      BY <3>1 DEF Session!Quiet
  <2>4. CASE tracker.file = NoFile /\ HasJob(s)
    <3>1. tracker' = Started(s, now) /\ batch' = <<"PrintStarted">>
      BY <2>1, <2>4 DEF TrackerAfter, EventsOf, LosesJob
    <3>2. Session!Begin
      BY <2>1, <2>2, <2>4, <3>1 DEF Session!Begin, Session!Running, Started, IsPaused, HasJob
    <3>. QED
      BY <3>2
  <2>5. CASE tracker.file # NoFile /\ ~HasJob(s)
    <3>1. LosesJob(tracker, s)
      BY <2>5 DEF LosesJob
    <3>2. tracker' = Fresh /\ batch' = <<EndEvent(tracker, s)>>
      BY <2>1, <2>5, <3>1 DEF TrackerAfter, EventsOf
    <3>3. EndEvent(tracker, s) \in Session!Endings
      BY DEF EndEvent, Session!Endings
    <3>4. Session!End
      BY <2>5, <3>2, <3>3 DEF Session!End, Session!Running, Session!NoId, Fresh, NoSession
    <3>. QED
      BY <3>4
  <2>6. CASE HasJob(s) /\ LosesJob(tracker, s)
    <3>1. tracker' = Started(s, now) /\ batch' = <<EndEvent(tracker, s), "PrintStarted">>
      BY <2>1, <2>6 DEF TrackerAfter, EventsOf
    <3>2. \E e \in Session!Endings : batch' = <<e, "PrintStarted">>
      BY <3>1 DEF EndEvent, Session!Endings
    <3>3. tracker.file # NoFile /\ tracker'.file # NoFile
      BY <2>6, <3>1 DEF HasJob, LosesJob, Started
    <3>4. tracker'.ts \in Nat
      BY <2>1, <3>1 DEF Started
    <3>5. Session!Replace
      BY <3>2, <3>3, <3>4 DEF Session!Replace, Session!Running
    <3>. QED
      BY <3>5
  <2>7. CASE HasJob(s) /\ tracker.file # NoFile /\ ~LosesJob(tracker, s)
    <3>1. tracker' = Continued(tracker, s) /\ batch' = PauseEvents(tracker, s)
      BY <2>1, <2>7 DEF TrackerAfter, EventsOf
    <3>2. tracker'.file = tracker.file /\ tracker'.ts = tracker.ts /\ tracker'.paused = IsPaused(s)
      BY <3>1 DEF Continued, TypeOK, Trackers
    <3>3. CASE IsPaused(s) = tracker.paused
      BY <3>1, <3>2, <3>3 DEF PauseEvents, Session!Quiet
    <3>4. CASE IsPaused(s) /\ ~tracker.paused
      BY <2>7, <3>1, <3>2, <3>4 DEF PauseEvents, Session!Pause
    <3>5. CASE ~IsPaused(s) /\ tracker.paused
      BY <2>7, <3>1, <3>2, <3>5 DEF PauseEvents, Session!Resume
    <3>. QED
      BY <3>3, <3>4, <3>5 DEF IsPaused, TypeOK, Trackers
  <2>. QED
    BY <2>3, <2>4, <2>5, <2>6, <2>7 DEF LosesJob
<1>. QED
  BY <1>1, <1>2

\* The tracker implements PrintSession (TellsSessions).
THEOREM TellsSessionsCorrect == Spec => TellsSessions
<1>1. Init => Session!Init
  BY DEF Init, Session!Init, Session!NoId, Fresh, NoSession
<1>2. TypeOK /\ TrackerMirrorsPrinter /\ [Next]_vars
        => [Session!Next]_<<IF tracker.file = NoFile THEN "none"
                            ELSE IF tracker.paused THEN "paused" ELSE "printing",
                            tracker.ts, batch>>
  <2>1. ASSUME TypeOK, TrackerMirrorsPrinter, Next
        PROVE  Session!Next
    BY <2>1, ObserveTells DEF Next
  <2>2. ASSUME UNCHANGED vars
        PROVE  UNCHANGED <<IF tracker.file = NoFile THEN "none"
                           ELSE IF tracker.paused THEN "paused" ELSE "printing",
                           tracker.ts, batch>>
    BY <2>2 DEF vars
  <2>. QED
    BY <2>1, <2>2
<1>. QED
  BY <1>1, <1>2, TypeCorrect, MirrorCorrect, PTL DEF Spec, TellsSessions, Session!Spec
=============================================================================
