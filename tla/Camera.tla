------------------------------- MODULE Camera ------------------------------
(***************************************************************************)
(* camera/mjpeg_source.py and the streaming half of camera/reserve.py: one *)
(* thread reads the printer's only viewer slot and keeps the newest frame, *)
(* any number of HTTP threads wait for it and pass it on, and stop() hangs *)
(* up from a thread of its own.                                            *)
(*                                                                         *)
(* A frame is the number of its arrival; iter_mjpeg_frames is its outcome: *)
(* a frame, the end of the stream, or an exception.                        *)
(***************************************************************************)
EXTENDS Integers, FiniteSets

CONSTANTS
    Viewers,        \* HTTP clients of /cameras/<i>/stream
    BackoffStart,   \* BACKOFF_START_S
    BackoffMax,     \* BACKOFF_MAX_S
    MaxFrames,      \* bound: frames the camera sends in all
    MaxFaults       \* bound: streams the camera or the network ends

ASSUME CameraAssumption ==
    /\ BackoffStart \in Nat \ {0} /\ BackoffMax \in Nat /\ BackoffStart <= BackoffMax
    /\ MaxFrames \in Nat /\ MaxFaults \in Nat

VARIABLES
    \* MjpegSource
    latest,         \* the frame in _latest, 0 for None
    stopping,       \* _stop.is_set()
    tracked,        \* is the connection in _stream?
    lastError,      \* is there text in _last_error?
    pc,             \* the reader thread, _run and _consume_stream
    backoff,        \* `backoff` of _run
    earned,         \* `backoff` of _consume_stream
    stopper,        \* the main thread's way out: "idle", "take", "shutdown", "done", "closed"
    taken,          \* did _close_stream find a stream to hang up?
    \* CameraReserver, one thread per viewer
    viewer,         \* "off", "check", "asleep", "write"
    last,           \* the last frame written to it
    \* the printer's camera and the network
    conn,           \* "none", "open", "over" (ended by the peer), "mute", "shut"
    slotHeld,       \* does the camera believe that it has a viewer?
    faults,
    \* history
    muted           \* did the latest connection go mute?

readerVars == <<pc, backoff, earned>>
stopVars == <<stopping, stopper, taken>>
viewerVars == <<viewer, last>>
vars == <<latest, tracked, lastError, readerVars, stopVars, viewerVars, conn, slotHeld, faults, muted>>

Init ==
    /\ latest = 0 /\ stopping = FALSE /\ tracked = FALSE /\ lastError = FALSE
    /\ pc = "loop" /\ backoff = BackoffStart /\ earned = BackoffStart
    /\ stopper = "idle" /\ taken = FALSE
    /\ viewer = [v \in Viewers |-> "off"] /\ last = [v \in Viewers |-> 0]
    /\ conn = "none" /\ slotHeld = FALSE /\ faults = 0 /\ muted = FALSE
-----------------------------------------------------------------------------
\* _run.
Loop ==
    /\ pc = "loop"
    /\ pc' = IF stopping THEN "ended" ELSE "open"
    /\ UNCHANGED <<latest, tracked, lastError, backoff, earned, stopVars, viewerVars, conn, slotHeld, faults, muted>>

LaterUncapped(b) == b * 2       \* mutant: no BACKOFF_MAX_S

Later(b) == IF b * 2 <= BackoffMax THEN b * 2 ELSE BackoffMax

Sleep ==
    /\ pc = "sleep"
    /\ backoff' = Later(backoff)
    /\ pc' = "loop"
    /\ UNCHANGED <<latest, tracked, lastError, earned, stopVars, viewerVars, conn, slotHeld, faults, muted>>

\* _consume_stream: the opener returns a stream that nobody else knows of yet ...
Open ==
    /\ pc = "open" /\ ~slotHeld
    /\ conn' = "open" /\ slotHeld' = TRUE
    /\ earned' = backoff
    /\ muted' = FALSE
    /\ pc' = "track"
    /\ UNCHANGED <<latest, tracked, lastError, backoff, stopVars, viewerVars, faults>>

AfterExceptionSleeps == lastError' = TRUE /\ pc' = "sleep"   \* mutant: the flag not looked at

\* Every exception ends in the handler of _run, which keeps the old backoff.
AfterException ==
    /\ lastError' = IF stopping THEN lastError ELSE TRUE
    /\ pc' = IF stopping THEN "ended" ELSE "sleep"

OpenFails ==
    /\ pc = "open" /\ (slotHeld \/ faults < MaxFaults)
    /\ faults' = IF slotHeld THEN faults ELSE faults + 1
    /\ AfterException
    /\ UNCHANGED <<latest, tracked, backoff, earned, stopVars, viewerVars, conn, slotHeld, muted>>

\* ... until it is tracked, where stop() finds it.
Track ==
    /\ pc = "track"
    /\ tracked' = TRUE
    /\ pc' = "read"
    /\ UNCHANGED <<latest, lastError, backoff, earned, stopVars, viewerVars, conn, slotHeld, faults, muted>>

NotifyOne ==        \* mutant: notify() for notify_all()
    viewer' = IF \E v \in Viewers : viewer[v] = "asleep"
              THEN [viewer EXCEPT ![CHOOSE v \in Viewers : viewer[v] = "asleep"] = "check"]
              ELSE viewer

NotifyAll == viewer' = [v \in Viewers |-> IF viewer[v] = "asleep" THEN "check" ELSE viewer[v]]

\* _store, under the condition's lock: the frame, and a call to all who wait.
Store ==
    /\ pc = "read" /\ conn = "open" /\ latest < MaxFrames
    /\ latest' = latest + 1
    /\ lastError' = FALSE
    /\ earned' = BackoffStart
    /\ NotifyAll
    /\ pc' = IF stopping THEN "close" ELSE "read"
    /\ UNCHANGED <<tracked, backoff, stopVars, last, conn, slotHeld, faults, muted>>

\* iter_mjpeg_frames returns: the stream is at its end or cut within a part, or
\* the camera says its last boundary, or a part is too large to be a frame, on
\* a connection that is still open.
StreamEnds ==
    /\ pc = "read" /\ conn \in {"open", "over", "shut"}
    /\ pc' = "close"
    /\ UNCHANGED <<latest, tracked, lastError, backoff, earned, stopVars, viewerVars, conn, slotHeld, faults, muted>>

TimesOutNever == FALSE      \* mutant: urlopen without a timeout

TimesOut == TRUE            \* OPEN_TIMEOUT_S holds for every read

\* A read that fails, or times out on a connection gone mute.
ReadFails ==
    /\ pc = "read"
    /\ conn \in {"over", "shut"} \/ (conn = "mute" /\ TimesOut)
    /\ pc' = "abort"
    /\ UNCHANGED <<latest, tracked, lastError, backoff, earned, stopVars, viewerVars, conn, slotHeld, faults, muted>>

HangUpNever(heard) == UNCHANGED <<conn, slotHeld>>     \* mutant: no `with stream`

HangUpUnheard(heard) == conn' = "none" /\ UNCHANGED slotHeld  \* mutant: dropped, not closed

\* Leaving `with stream`: the camera gets to know, unless the network is gone.
HangUp(heard) ==
    /\ conn' = "none"
    /\ slotHeld' = (slotHeld /\ ~heard)

UntrackedNever == UNCHANGED tracked     \* mutant: no `finally: self._track_stream(None)`

Untracked == tracked' = FALSE

Leave ==
    /\ pc \in {"close", "abort"}
    /\ HangUp(conn \in {"open", "over"})
    /\ pc' = IF pc = "close" THEN "untrack" ELSE "unwind"
    /\ UNCHANGED <<latest, tracked, lastError, backoff, earned, stopVars, viewerVars, faults, muted>>

\* Only then is it untracked: until here stop() may take out a closed stream.
CloseEnded ==
    /\ pc = "untrack"
    /\ Untracked
    /\ backoff' = earned
    /\ pc' = IF stopping THEN "ended" ELSE "sleep"
    /\ UNCHANGED <<latest, lastError, earned, stopVars, viewerVars, conn, slotHeld, faults, muted>>

CloseFailed ==
    /\ pc = "unwind"
    /\ Untracked
    /\ AfterException
    /\ UNCHANGED <<latest, backoff, earned, stopVars, viewerVars, conn, slotHeld, faults, muted>>

\* stop(): the flag, then the stream taken out under its lock, then shutdown.
Stop ==
    /\ stopper = "idle"
    /\ stopping' = TRUE /\ stopper' = "take"
    /\ UNCHANGED <<latest, tracked, lastError, readerVars, taken, viewerVars, conn, slotHeld, faults, muted>>

TakeStream ==
    /\ stopper = "take"
    /\ taken' = tracked /\ tracked' = FALSE
    /\ stopper' = "shutdown"
    /\ UNCHANGED <<latest, lastError, readerVars, stopping, viewerVars, conn, slotHeld, faults, muted>>

ShutsNothing == "open"      \* mutant: only the flag, no shutdown of the socket

AfterShutdown == "shut"

Shutdown ==
    /\ stopper = "shutdown"
    /\ conn' = IF taken /\ conn \in {"open", "mute"} THEN AfterShutdown ELSE conn
    /\ slotHeld' = (slotHeld /\ ~(conn = "open" /\ conn' = "shut"))
    /\ stopper' = "done"
    /\ UNCHANGED <<latest, tracked, lastError, readerVars, stopping, taken, viewerVars, faults, muted>>

\* The re-server is stopped after the cameras.
CloseServer ==
    /\ stopper = "done"
    /\ stopper' = "closed"
    /\ UNCHANGED <<latest, tracked, lastError, readerVars, stopping, taken, viewerVars, conn, slotHeld, faults, muted>>
-----------------------------------------------------------------------------
\* Handler._stream: a viewer comes ...
Arrive(v) ==
    /\ viewer[v] = "off" /\ stopper # "closed"
    /\ viewer' = [viewer EXCEPT ![v] = "check"]
    /\ last' = [last EXCEPT ![v] = 0]
    /\ UNCHANGED <<latest, tracked, lastError, readerVars, stopVars, conn, slotHeld, faults, muted>>

New(v) == latest > last[v]

\* ... wait_for_new_frame looks, under the lock, before it sleeps ...
Look(v) ==
    /\ viewer[v] = "check"
    /\ IF New(v)
       THEN /\ viewer' = [viewer EXCEPT ![v] = "write"]
            /\ last' = [last EXCEPT ![v] = latest]
       ELSE /\ viewer' = [viewer EXCEPT ![v] = "asleep"]
            /\ UNCHANGED last
    /\ UNCHANGED <<latest, tracked, lastError, readerVars, stopVars, conn, slotHeld, faults, muted>>

\* ... and after `stale_after_s` of sleep the response ends.
Stale(v) ==
    /\ viewer[v] = "asleep"
    /\ viewer' = [viewer EXCEPT ![v] = "off"]
    /\ UNCHANGED <<latest, tracked, lastError, readerVars, last, stopVars, conn, slotHeld, faults, muted>>

\* The frame is written, or the client is gone (BrokenPipeError); the loop
\* ends with the server.
Write(v) ==
    /\ viewer[v] = "write"
    /\ \/ stopper # "closed" /\ viewer' = [viewer EXCEPT ![v] = "check"]
       \/ viewer' = [viewer EXCEPT ![v] = "off"]
    /\ UNCHANGED <<latest, tracked, lastError, readerVars, last, stopVars, conn, slotHeld, faults, muted>>
-----------------------------------------------------------------------------
\* The camera ends the stream, or the network does without a word.
PeerEnds ==
    /\ conn = "open" /\ faults < MaxFaults
    /\ faults' = faults + 1
    /\ \/ conn' = "over" /\ slotHeld' = FALSE /\ UNCHANGED muted
       \/ conn' = "mute" /\ muted' = TRUE /\ UNCHANGED slotHeld
    /\ UNCHANGED <<latest, tracked, lastError, readerVars, stopVars, viewerVars>>

\* Hours later at the worst, the firmware drops a viewer that is no more.
SlotExpires ==
    /\ slotHeld /\ conn = "none"
    /\ slotHeld' = FALSE
    /\ UNCHANGED <<latest, tracked, lastError, readerVars, stopVars, viewerVars, conn, faults, muted>>

\* Nothing to see for OPEN_TIMEOUT_S on a connection that is well: a read
\* times out all the same.
Quiet ==
    /\ conn = "open" /\ pc = "read" /\ latest = MaxFrames /\ TimesOut
    /\ pc' = "abort"
    /\ UNCHANGED <<latest, tracked, lastError, backoff, earned, stopVars, viewerVars, conn, slotHeld, faults, muted>>
-----------------------------------------------------------------------------
Reader == Loop \/ Sleep \/ Open \/ OpenFails \/ Track \/ Store \/ StreamEnds \/ ReadFails \/ Quiet
              \/ Leave \/ CloseEnded \/ CloseFailed
Stopping == TakeStream \/ Shutdown \/ CloseServer
Serve(v) == Look(v) \/ Stale(v) \/ Write(v)

Next ==
    \/ Reader \/ Stop \/ Stopping \/ PeerEnds \/ SlotExpires
    \/ \E v \in Viewers : Arrive(v) \/ Serve(v)

Spec == Init /\ [][Next]_vars

\* Every wait of the reader and of the main thread is bounded, and so is the
\* camera's patience.  Nothing is assumed of the viewers: a client that reads
\* no more holds its thread in a write.
FairSpec == Spec /\ WF_vars(Reader) /\ WF_vars(Stopping) /\ WF_vars(SlotExpires)
-----------------------------------------------------------------------------
TypeOK ==
    /\ latest \in 0..MaxFrames /\ stopping \in BOOLEAN /\ tracked \in BOOLEAN /\ lastError \in BOOLEAN
    /\ pc \in {"loop", "open", "track", "read", "close", "abort", "untrack", "unwind", "sleep", "ended"}
    /\ backoff \in BackoffStart..BackoffMax /\ earned \in BackoffStart..BackoffMax
    /\ stopper \in {"idle", "take", "shutdown", "done", "closed"} /\ taken \in BOOLEAN
    /\ viewer \in [Viewers -> {"off", "check", "asleep", "write"}]
    /\ last \in [Viewers -> 0..MaxFrames]
    /\ conn \in {"none", "open", "over", "mute", "shut"} /\ slotHeld \in BOOLEAN
    /\ faults \in 0..MaxFaults /\ muted \in BOOLEAN

\* No viewer sleeps through a frame, however its look at the latest one and
\* the arrival of the next interleave (_store, wait_for_new_frame).
NobodySleepsThroughAFrame ==
    \A v \in Viewers : viewer[v] = "asleep" => ~New(v)

\* When stop() returns, the stream it found has been hung up, whatever the
\* reader is doing with it: "Hangs up at once" (_close_stream).
StopHangsUp == stopper \in {"done", "closed"} /\ taken => conn \in {"none", "over", "shut"}

\* The printer's only viewer slot comes free with the connection, whether the
\* reader closed it, stop() hung it up or the camera ended it: the camera holds
\* on to a viewer that is gone only if the network had gone silent on it
\* (_consume_stream, _close_stream).
SlotGivenBack == slotHeld /\ conn = "none" => muted

\* Once stop() has set the flag each step of the reader is one towards its end:
\* no wait for another connection, none but the one it may already be opening,
\* and no frame after the one it was reading (stop, _run, _consume_stream).
StepsToEnd ==
    CASE pc = "open"                           -> 5
      [] pc = "track"                          -> 4
      [] pc = "read"                           -> 3
      [] pc \in {"close", "abort", "sleep"}    -> 2
      [] pc \in {"untrack", "unwind", "loop"}  -> 1
      [] pc = "ended"                          -> 0
StopIsShort == [][stopping /\ <<latest, pc>>' # <<latest, pc>> => StepsToEnd' < StepsToEnd]_vars

\* After stop() the reader ends and holds no connection, even if stop() came
\* while the connection was being opened (stop, _run, _consume_stream).
StopEnds == stopping ~> pc = "ended" /\ conn = "none" /\ ~tracked

\* health() does not go on calling a lost stream a stream (_track_stream).
HealthRecovers == tracked /\ conn \in {"over", "mute", "shut"} ~> ~tracked

\* A lost stream is opened again, though the camera may hold on to the viewer
\* it lost (_run).
Reconnects == conn # "open" ~> conn = "open" \/ stopping
=============================================================================
