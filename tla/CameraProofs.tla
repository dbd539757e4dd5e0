---------------------------- MODULE CameraProofs ----------------------------
(***************************************************************************)
(* The safety of the camera source for any number of viewers, frames and   *)
(* faults.  NobodySleepsThroughAFrame is inductive as it stands: a viewer  *)
(* falls asleep only in the step that sees nothing new, and whatever is    *)
(* stored wakes everyone.  StopHangsUp needs Released: a stream that       *)
(* stop() has taken out belongs to a reader that can only close it,        *)
(* untrack it and end, so no other connection comes after the one that was *)
(* hung up.                                                                *)
(* SlotGivenBack needs Answered: the camera holds on to a connection that  *)
(* has ended only if that one went mute.                                   *)
(***************************************************************************)
EXTENDS Camera, TLAPS

\* Doubling keeps the backoff in its range (MjpegSource._run).
LEMMA LaterInRange ==
    ASSUME NEW b \in BackoffStart..BackoffMax
    PROVE  Later(b) \in BackoffStart..BackoffMax
BY CameraAssumption DEF Later

\* Every step keeps the types, the backoff its range.
LEMMA TypeStep ==
    ASSUME TypeOK, Next
    PROVE  TypeOK'
<1>. USE CameraAssumption DEF TypeOK
<1>1. CASE Loop \/ Open \/ Track
  <2>1. muted' \in BOOLEAN
    BY <1>1, Zenon DEF Loop, Open, Track
  <2>. QED
    BY <1>1, <2>1 DEF Loop, Open, Track, readerVars, stopVars, viewerVars
<1>2. CASE Sleep
  BY <1>2, LaterInRange DEF Sleep, stopVars, viewerVars
<1>3. CASE OpenFails
  <2>1. lastError' \in BOOLEAN /\ pc' \in {"ended", "sleep"}
    BY <1>3, Zenon DEF OpenFails, AfterException
  <2>. QED
    BY <1>3, <2>1 DEF OpenFails, stopVars, viewerVars
<1>4. CASE Store
  <2>1. viewer' \in [Viewers -> {"off", "check", "asleep", "write"}]
    BY <1>4 DEF Store, NotifyAll
  <2>2. pc' \in {"close", "read"}
    BY <1>4, Zenon DEF Store
  <2>3. latest' \in 0..MaxFrames /\ earned' \in BackoffStart..BackoffMax
    BY <1>4 DEF Store
  <2>4. lastError' \in BOOLEAN /\ UNCHANGED <<tracked, backoff, stopVars, last, conn, slotHeld, faults, muted>>
    BY <1>4, Zenon DEF Store
  <2>. QED
    BY <2>1, <2>2, <2>3, <2>4 DEF stopVars
<1>5. CASE StreamEnds \/ ReadFails \/ Quiet
  BY <1>5 DEF StreamEnds, ReadFails, Quiet, stopVars, viewerVars
<1>6. ASSUME NEW heard, HangUp(heard)
      PROVE  conn' = "none" /\ slotHeld' \in BOOLEAN
  BY <1>6, Zenon DEF HangUp
<1>7. CASE Leave
  <2>1. conn' = "none" /\ slotHeld' \in BOOLEAN
    BY <1>7, <1>6, Zenon DEF Leave
  <2>2. pc' \in {"untrack", "unwind"}
    BY <1>7, Zenon DEF Leave
  <2>3. UNCHANGED <<latest, tracked, lastError, backoff, earned, stopVars, viewerVars, faults, muted>>
    BY <1>7, Zenon DEF Leave
  <2>. QED
    BY <2>1, <2>2, <2>3 DEF stopVars, viewerVars
<1>8. CASE CloseEnded \/ CloseFailed
  <2>1. lastError' \in BOOLEAN /\ pc' \in {"ended", "sleep"}
    BY <1>8, Zenon DEF CloseEnded, CloseFailed, AfterException
  <2>2. backoff' \in {backoff, earned}
    BY <1>8, Zenon DEF CloseEnded, CloseFailed
  <2>3. tracked' = FALSE /\ UNCHANGED <<latest, earned, stopVars, viewerVars, conn, slotHeld, faults, muted>>
    BY <1>8, Zenon DEF CloseEnded, CloseFailed, Untracked
  <2>. QED
    BY <2>1, <2>2, <2>3 DEF stopVars, viewerVars
<1>9. CASE Stop \/ TakeStream \/ CloseServer
  <2>1. stopping' \in BOOLEAN /\ taken' \in BOOLEAN /\ tracked' \in BOOLEAN
    BY <1>9, Zenon DEF Stop, TakeStream, CloseServer
  <2>2. /\ stopper' \in {"take", "shutdown", "closed"}
        /\ UNCHANGED <<latest, lastError, readerVars, viewerVars, conn, slotHeld, faults, muted>>
    BY <1>9, Zenon DEF Stop, TakeStream, CloseServer
  <2>. QED
    BY <2>1, <2>2 DEF readerVars, viewerVars
<1>10. CASE Shutdown
  <2>1. slotHeld' \in BOOLEAN
    BY <1>10, Zenon DEF Shutdown
  <2>2. conn' \in {conn, "shut"}
    BY <1>10, Zenon DEF Shutdown, AfterShutdown
  <2>3. stopper' = "done" /\ UNCHANGED <<latest, tracked, lastError, readerVars, stopping, taken, viewerVars, faults, muted>>
    BY <1>10, Zenon DEF Shutdown
  <2>. QED
    BY <2>1, <2>2, <2>3 DEF readerVars, viewerVars
<1>11. CASE PeerEnds \/ SlotExpires
  <2>1. slotHeld' \in BOOLEAN /\ conn' \in {conn, "over", "mute"} /\ muted' \in BOOLEAN
    BY <1>11, Zenon DEF PeerEnds, SlotExpires
  <2>2. faults' \in 0..MaxFaults
    BY <1>11 DEF PeerEnds, SlotExpires
  <2>3. UNCHANGED <<latest, tracked, lastError, readerVars, stopVars, viewerVars>>
    BY <1>11, Zenon DEF PeerEnds, SlotExpires
  <2>. QED
    BY <2>1, <2>2, <2>3 DEF readerVars, stopVars, viewerVars
<1>12. ASSUME NEW v \in Viewers, Arrive(v) \/ Serve(v)
       PROVE  TypeOK'
  <2>1. /\ viewer' \in [Viewers -> {"off", "check", "asleep", "write"}]
        /\ last' \in [Viewers -> 0..MaxFrames]
    BY <1>12 DEF Arrive, Serve, Look, Stale, Write
  <2>2. UNCHANGED <<latest, tracked, lastError, readerVars, stopVars, conn, slotHeld, faults, muted>>
    BY <1>12, Zenon DEF Arrive, Serve, Look, Stale, Write
  <2>. QED
    BY <2>1, <2>2 DEF readerVars, stopVars
<1>. QED
  BY <1>1, <1>2, <1>3, <1>4, <1>5, <1>7, <1>8, <1>9, <1>10, <1>11, <1>12 DEF Next, Reader, Stopping

\* Every variable keeps its type (TypeOK).
THEOREM TypeCorrect == Spec => []TypeOK
<1>1. ASSUME Init PROVE TypeOK
  <2>1. /\ viewer \in [Viewers -> {"off", "check", "asleep", "write"}]
        /\ last \in [Viewers -> 0..MaxFrames]
        /\ backoff \in BackoffStart..BackoffMax /\ earned \in BackoffStart..BackoffMax
        /\ latest \in 0..MaxFrames /\ faults \in 0..MaxFaults
    BY <1>1, CameraAssumption DEF Init
  <2>. QED
    BY <1>1, <2>1, Zenon DEF Init, TypeOK
<1>2. TypeOK /\ [Next]_vars => TypeOK'
  <2>1. ASSUME TypeOK, Next PROVE TypeOK'
    BY <2>1, TypeStep
  <2>2. ASSUME TypeOK, UNCHANGED vars PROVE TypeOK'
    BY <2>2 DEF TypeOK, vars, readerVars, stopVars, viewerVars
  <2>. QED
    BY <2>1, <2>2
<1>. QED
  BY <1>1, <1>2, PTL DEF Spec
-----------------------------------------------------------------------------
\* No viewer sleeps through a frame, for any number of viewers
\* (NobodySleepsThroughAFrame).
THEOREM WakeUpCorrect == Spec => []NobodySleepsThroughAFrame
<1>1. Init => NobodySleepsThroughAFrame
  BY DEF Init, NobodySleepsThroughAFrame
<1>2. TypeOK /\ NobodySleepsThroughAFrame /\ [Next]_vars => NobodySleepsThroughAFrame'
  <2>. SUFFICES ASSUME TypeOK, NobodySleepsThroughAFrame, [Next]_vars,
                       NEW v \in Viewers, viewer'[v] = "asleep"
                PROVE  ~New(v)'
    BY DEF NobodySleepsThroughAFrame
  <2>1. CASE UNCHANGED <<viewer, last, latest>>
    BY <2>1 DEF NobodySleepsThroughAFrame, New
  <2>2. CASE Store
    <3>1. viewer'[v] = IF viewer[v] = "asleep" THEN "check" ELSE viewer[v]
      BY <2>2 DEF Store, NotifyAll
    <3>. QED
      BY <3>1
  <2>3. ASSUME NEW w \in Viewers, Arrive(w) \/ Serve(w)
        PROVE  ~New(v)'
    <3>1. CASE v # w
      <4>1. viewer'[v] = viewer[v] /\ last'[v] = last[v] /\ latest' = latest
        BY <2>3, <3>1 DEF Arrive, Serve, Look, Stale, Write, TypeOK
      <4>. QED
        BY <4>1 DEF NobodySleepsThroughAFrame, New
    <3>2. CASE v = w
      <4>1. Look(v) /\ ~New(v)
        BY <2>3, <3>2 DEF Arrive, Serve, Look, Stale, Write, TypeOK
      <4>. QED
        BY <4>1 DEF Look, New
    <3>. QED
      BY <3>1, <3>2
  <2>4. Store \/ (\E w \in Viewers : Arrive(w) \/ Serve(w)) \/ UNCHANGED <<viewer, last, latest>>
    BY DEF Next, Reader, Stopping, vars, viewerVars, Loop, Sleep, Open, OpenFails, Track, StreamEnds,
       ReadFails, Quiet, Leave, CloseEnded, CloseFailed, Stop, TakeStream, Shutdown, CloseServer, PeerEnds, SlotExpires
  <2>. QED
    BY <2>1, <2>2, <2>3, <2>4
<1>. QED
  BY <1>1, <1>2, TypeCorrect, PTL DEF Spec
-----------------------------------------------------------------------------
\* The reader's way out of a connection, and what stop() knows of it.
Closing == {"read", "close", "abort", "untrack", "unwind"}

Released ==
    /\ stopper # "idle" <=> stopping
    /\ tracked => pc \in Closing
    /\ taken => stopper \in {"shutdown", "done", "closed"} /\ pc \in Closing \cup {"ended"}

\* Every step keeps Released, and with it StopHangsUp.
LEMMA ReleasedStep ==
    ASSUME TypeOK, Released, StopHangsUp, Next
    PROVE  Released' /\ StopHangsUp'
<1>. USE DEF Released, StopHangsUp, Closing
<1>1. CASE Loop \/ Sleep \/ Open \/ OpenFails \/ Track
  <2>1. UNCHANGED <<stopVars, tracked>> \/ (UNCHANGED stopVars /\ pc' = "read")
    BY <1>1 DEF Loop, Sleep, Open, OpenFails, Track
  <2>2. pc \notin Closing \cup {"ended"}
    BY <1>1 DEF Loop, Sleep, Open, OpenFails, Track
  <2>. QED
    BY <2>1, <2>2 DEF stopVars
<1>2. CASE Store \/ StreamEnds \/ ReadFails \/ Quiet
  BY <1>2 DEF Store, StreamEnds, ReadFails, Quiet, stopVars
<1>3. CASE CloseEnded \/ CloseFailed
  <2>1. tracked' = FALSE /\ UNCHANGED <<stopVars, conn>>
    BY <1>3, Zenon DEF CloseEnded, CloseFailed, Untracked
  <2>2. stopping => pc' = "ended"
    BY <1>3, Zenon DEF CloseEnded, CloseFailed, AfterException
  <2>. QED
    BY <2>1, <2>2 DEF stopVars
<1>8. CASE Leave
  <2>1. conn' = "none" /\ UNCHANGED <<stopVars, tracked>>
    BY <1>8, Zenon DEF Leave, HangUp
  <2>2. pc \in Closing /\ pc' \in Closing
    BY <1>8 DEF Leave
  <2>. QED
    BY <2>1, <2>2 DEF stopVars
<1>4. CASE Stop \/ TakeStream
  BY <1>4 DEF Stop, TakeStream, readerVars, TypeOK
<1>5. CASE Shutdown \/ CloseServer
  BY <1>5 DEF Shutdown, AfterShutdown, CloseServer, readerVars, TypeOK
<1>6. CASE PeerEnds \/ SlotExpires
  BY <1>6 DEF PeerEnds, SlotExpires, readerVars, stopVars
<1>7. ASSUME NEW v \in Viewers, Arrive(v) \/ Serve(v)
      PROVE  Released' /\ StopHangsUp'
  BY <1>7 DEF Arrive, Serve, Look, Stale, Write, readerVars, stopVars
<1>. QED
  BY <1>1, <1>2, <1>3, <1>4, <1>5, <1>6, <1>7, <1>8 DEF Next, Reader, Stopping

\* When stop() returns, the stream it found is hung up (StopHangsUp).
THEOREM StopCorrect == Spec => []StopHangsUp
<1>1. Init => Released /\ StopHangsUp
  BY DEF Init, Released, StopHangsUp
<1>2. TypeOK /\ Released /\ StopHangsUp /\ [Next]_vars => (Released /\ StopHangsUp)'
  <2>1. ASSUME TypeOK, Released, StopHangsUp, Next PROVE (Released /\ StopHangsUp)'
    BY <2>1, ReleasedStep
  <2>2. ASSUME Released, StopHangsUp, UNCHANGED vars PROVE (Released /\ StopHangsUp)'
    BY <2>2 DEF Released, StopHangsUp, vars, readerVars, stopVars
  <2>. QED
    BY <2>1, <2>2
<1>. QED
  BY <1>1, <1>2, TypeCorrect, PTL DEF Spec
-----------------------------------------------------------------------------
\* While the reader is between connections there is none, and the camera is
\* told of the end of each unless it went mute.
Answered ==
    /\ pc \in {"track", "read", "close", "abort"} \/ conn = "none"
    /\ conn = "mute" => muted
    /\ slotHeld => conn = "open" \/ muted

\* Every step keeps Answered.
LEMMA AnsweredStep ==
    ASSUME TypeOK, Answered, Next
    PROVE  Answered'
<1>. USE DEF Answered, TypeOK
<1>1. CASE Loop \/ Sleep \/ Track
  BY <1>1 DEF Loop, Sleep, Track
<1>2. CASE Open \/ OpenFails
  BY <1>2 DEF Open, OpenFails
<1>3. CASE Store \/ StreamEnds \/ ReadFails \/ Quiet
  BY <1>3 DEF Store, StreamEnds, ReadFails, Quiet
<1>4. CASE Leave
  <2>1. conn' = "none" /\ UNCHANGED muted /\ (slotHeld' => slotHeld /\ conn # "open")
    BY <1>4, Zenon DEF Leave, HangUp
  <2>. QED
    BY <2>1
<1>9. CASE CloseEnded \/ CloseFailed
  BY <1>9 DEF CloseEnded, CloseFailed
<1>5. CASE Stop \/ TakeStream \/ CloseServer
  BY <1>5 DEF Stop, TakeStream, CloseServer, readerVars
<1>6. CASE Shutdown
  <2>1. UNCHANGED <<pc, muted>> /\ (conn' = conn \/ (conn' = "shut" /\ conn # "none"))
    BY <1>6 DEF Shutdown, AfterShutdown, readerVars
  <2>2. slotHeld' => slotHeld /\ (conn = "open" => conn' = "open")
    BY <1>6, <2>1 DEF Shutdown
  <2>. QED
    BY <2>1, <2>2
<1>7. CASE PeerEnds \/ SlotExpires
  BY <1>7 DEF PeerEnds, SlotExpires, readerVars
<1>8. ASSUME NEW v \in Viewers, Arrive(v) \/ Serve(v)
      PROVE  Answered'
  BY <1>8 DEF Arrive, Serve, Look, Stale, Write, readerVars
<1>. QED
  BY <1>1, <1>2, <1>3, <1>4, <1>5, <1>6, <1>7, <1>8, <1>9 DEF Next, Reader, Stopping

\* The camera gets its viewer slot back with every connection that has not gone
\* mute, however it ends (SlotGivenBack).
THEOREM SlotCorrect == Spec => []SlotGivenBack
<1>1. Init => Answered
  BY DEF Init, Answered
<1>2. TypeOK /\ Answered /\ [Next]_vars => Answered'
  <2>1. ASSUME TypeOK, Answered, Next PROVE Answered'
    BY <2>1, AnsweredStep
  <2>2. ASSUME Answered, UNCHANGED vars PROVE Answered'
    BY <2>2 DEF Answered, vars, readerVars
  <2>. QED
    BY <2>1, <2>2
<1>3. Answered => SlotGivenBack
  BY DEF Answered, SlotGivenBack
<1>. QED
  BY <1>1, <1>2, <1>3, TypeCorrect, PTL DEF Spec

\* Once stop() is called each step of the reader is one towards its end, for
\* every number of frames and faults (StopIsShort).
THEOREM StopIsShortCorrect == Spec => StopIsShort
<1>1. ASSUME TypeOK, Next, stopping, <<latest, pc>>' # <<latest, pc>>
      PROVE  StepsToEnd' < StepsToEnd
  <2>. USE <1>1 DEF StepsToEnd, TypeOK
  <2>1. Reader
    BY DEF Next, Stop, Stopping, TakeStream, Shutdown, CloseServer, PeerEnds, SlotExpires,
       Arrive, Serve, Look, Stale, Write, readerVars
  <2>2. CASE Loop \/ Sleep \/ Open \/ Track
    <3>1. \/ pc = "loop" /\ pc' = "ended"
          \/ pc = "sleep" /\ pc' = "loop"
          \/ pc = "open" /\ pc' = "track"
          \/ pc = "track" /\ pc' = "read"
      BY <2>2 DEF Loop, Sleep, Open, Track
    <3>. QED
      BY <3>1
  <2>3. CASE Store \/ StreamEnds \/ ReadFails \/ Quiet
    <3>1. pc = "read" /\ pc' \in {"close", "abort"}
      BY <2>3 DEF Store, StreamEnds, ReadFails, Quiet
    <3>. QED
      BY <3>1
  <2>4. CASE OpenFails \/ CloseEnded \/ CloseFailed
    <3>1. pc \in {"open", "untrack", "unwind"} /\ pc' = "ended"
      BY <2>4 DEF OpenFails, CloseEnded, CloseFailed, AfterException
    <3>. QED
      BY <3>1
  <2>5. CASE Leave
    <3>1. pc \in {"close", "abort"} /\ pc' \in {"untrack", "unwind"}
      BY <2>5 DEF Leave
    <3>. QED
      BY <3>1
  <2>. QED
    BY <2>1, <2>2, <2>3, <2>4, <2>5 DEF Reader
<1>2. TypeOK /\ [Next]_vars
        => [stopping /\ <<latest, pc>>' # <<latest, pc>> => StepsToEnd' < StepsToEnd]_vars
  BY <1>1
<1>. QED
  BY <1>2, TypeCorrect, PTL DEF Spec, StopIsShort
=============================================================================
