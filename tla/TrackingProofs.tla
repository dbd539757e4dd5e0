--------------------------- MODULE TrackingProofs ---------------------------
(***************************************************************************)
(* What observe() returns, for every tracker and snapshot: facts the       *)
(* proofs about the tracker and about the agent both rest on.              *)
(***************************************************************************)
EXTENDS Tracking, TLAPS

\* A snapshot the tracker learns from is one (JobTracker.observe).
LEMMA TellingIsSnapshot ==
    ASSUME NEW s \in Snapshots \cup {None}, Telling(s)
    PROVE  s \in Snapshots
BY DEF Telling

\* observe() keeps the tracker well-typed (JobTracker.observe).
LEMMA ObservedType ==
    ASSUME NEW t \in Trackers, NEW s \in Snapshots \cup {None}, NEW now \in Nat
    PROVE  Observed(t, s, now) \in Trackers
<1>1. CASE ~Telling(s)
  BY <1>1 DEF Observed
<1>2. CASE Telling(s)
  <2>1. s \in Snapshots
    BY <1>2, TellingIsSnapshot
  <2>2. Fresh \in Trackers
    BY DEF Fresh, Trackers, NoSession
  <2>3. Started(s, now) \in Trackers
    BY <2>1 DEF Started, Trackers, Snapshots, IsPaused
  <2>4. Continued(t, s) \in Trackers
    BY <2>1 DEF Continued, Trackers, Snapshots, IsPaused
  <2>. QED
    BY <1>2, <2>2, <2>3, <2>4 DEF Observed, TrackerAfter
<1>. QED
  BY <1>1, <1>2

\* observe() returns nothing, one event, or an end followed by a start
\* (JobTracker.observe).
LEMMA EmittedType ==
    ASSUME NEW t \in Trackers, NEW s \in Snapshots \cup {None}
    PROVE  Emitted(t, s) \in Batches
<1>1. CASE ~Telling(s)
  BY <1>1 DEF Emitted, Batches
<1>2. CASE Telling(s)
  <2>1. EndEvent(t, s) \in EndEvents
    BY DEF EndEvent, EndEvents
  <2>2. PauseEvents(t, s) \in {<<>>, <<"PrintPaused">>, <<"PrintResumed">>}
    BY DEF PauseEvents
  <2>3. CASE LosesJob(t, s) /\ HasJob(s)
    BY <1>2, <2>1, <2>3 DEF Emitted, EventsOf, Batches
  <2>4. CASE LosesJob(t, s) /\ ~HasJob(s)
    BY <1>2, <2>1, <2>4 DEF Emitted, EventsOf, Batches, Events, EndEvents
  <2>5. CASE ~LosesJob(t, s)
    BY <1>2, <2>2, <2>5 DEF Emitted, EventsOf, Batches, Events
  <2>. QED
    BY <2>3, <2>4, <2>5
<1>. QED
  BY <1>1, <1>2
=============================================================================
