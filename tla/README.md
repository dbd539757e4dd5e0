# flashforge-obico in TLA+

`flashforge-obico` is an agent that sits between a FlashForge printer on the LAN and an Obico
server: it polls the printer over HTTP, tells Obico over a websocket what the printer is doing,
posts camera frames, and carries pause, resume and cancel back. Obico decides; the agent forwards,
and the printer is the authority on what became of a command. The code is small, but five kinds of
threads work on a few shared objects without transactions, against a printer that acknowledges
commands it ignores. This directory models that part of it, checks it with TLC, and proves the
most important invariants with TLAPS for every value of the constants.

Paths below are relative to `src/src/flashforge_obico/`. "The design" is
`src/docs/superpowers/specs/2026-09-15-flashforge-obico-agent-design.md`.

## Inventory

| Part | State | Operations | Talks to | What makes it right |
|---|---|---|---|---|
| Agent (`agent.py`) | `_snapshot`, `_failures`, `_state_text`, `_settings_sent`, `_faults_reported`, `pending_command`, the command queue and lock | `poll_once`, `_publish`, `_service_pending_command`, `execute_command`, `_drain_commands`, `start_print`, picture loops | everything | commands one at a time; a revoked pause stays revoked; a kept pause is issued; Obico ends up with the truth; a start meets no job the agent has looked at |
| Job tracker (`job_tracker.py`) | file, paused, session id, progress | `observe` | called by `_publish`, from two threads | mirrors the printer; events make well-formed sessions |
| Snapshot (`flashforge/snapshot.py`) | none | `parse_snapshot`, `has_job`, `warming_up` | agent, tracker | unknown is never idle |
| Status (`obico/status.py`) | none | `obico_state_text`, `build_status`, `build_message` | agent | text follows the state |
| Obico connection (`obico/server.py`) | bounded queue, connection, flags, backoff | `send`, `_run`, `_session`, `_pump`, `_reader`, REST posts | agent, Obico | order and freshness; reconnects, but never after 4321 |
| Camera source (`camera/mjpeg_source.py`) | latest frame, tracked stream, backoff, last error | `start`, `stop`, reader thread, `wait_for_new_frame` | printer's camera, re-server, agent | nobody sleeps through a frame; the single slot is given back |
| Re-server (`camera/reserve.py`) | sources, routes | stream and snapshot handlers, `add_source`, `stop` | camera sources, console | stale streams end |
| Client (`flashforge/client.py`) | credentials | `detail`, `pause`, `resume`, `cancel`, files, light | printer | every failure is a `FlashforgeError` |
| Reply parsing (`flashforge/parsing.py`) | none | `parse_gcode_files`, single fields | client | every listed file, with its detail if there is one |
| Console (`console/`), CLI (`__main__.py`), config, logging | none to speak of | | | pure functions, read once, or wiring |
| Printer, Obico, network, Docker | external | | | modelled from how the code uses them |

Who runs what: the main thread polls and publishes and issues a deferred pause; a command thread,
started by the first command and gone after half a second without one, executes what Obico
(websocket reader thread) and the console (HTTP threads) put on the queue; the websocket thread
pumps the message queue; each camera has a reader, each viewer a thread.

What is hard here, line by line, is the list of hazards in `PROJECT.json`: interleavings of the
poll loop with a command, replies that are stale when stored, lost replies and messages, a thread
that leaves while a command arrives, restarts, the overflow of a queue with several senders, a
print started on the word of a snapshot that has aged.

## The modules

| Module | Models | State and actions |
|---|---|---|
| `Snapshot` | `snapshot.py`, `obico_state_text` | pure operators: what the agent reads out of a reply |
| `Tracking` | `JobTracker.observe` as a function | pure operators: tracker before + snapshot + second → tracker after and events |
| `JobTracker` | the tracker on its own | one action, `Observe`, over every snapshot and second |
| `PrintSession` | what the tracker promises | abstract: started, paused, resumed, ended, swapped |
| `Printer` | the machine, its touchscreen, its network (external) | what it is doing, the command it owes, whether it can be reached |
| `Agent` | the main and the command thread | extends `Tracking` and `Printer`; see below |
| `DeferredPause` | what the agent promises who presses pause, resume or cancel | abstract: one command at a time; a pause kept only while carried out, withdrawn by a resume or cancel |
| `Mailbox` | what the Obico connection promises the agent | abstract: a lossy channel that keeps the order |
| `ObicoServer` | senders, websocket thread, reader | queue, connection, backoff; two places inside `send()` |
| `Camera` | camera reader, viewers, `stop()` | latest frame, tracked stream, the printer's one viewer slot |
| `StartPrint` | `start_print`, `may_start_print`, the file list, one thread per request | extends `Printer`; a request's place, its list, the snapshot and who refreshes it, the file store |
| `StartPrintMC` | | the files and slicings of the runs of `StartPrint` |
| `TrackingProofs`, `PrinterProofs`, `JobTrackerProofs`, `AgentProofs`, `AgentPollingProofs`, `ObicoServerProofs`, `CameraProofs`, `StartPrintProofs` | | lemmas and theorems |

`Tracking` and `Snapshot` are shared by `JobTracker` (every input, no threads) and `Agent` (the
inputs the printer really gives, two threads).

**Agent, step by step.** A step is a stretch of code that the other thread can only see whole. A
new step starts wherever shared state is read or written, and wherever the thread waits:

- `_read_printer`: `Poll` (the printer answers) and `TakeReply` (the reply is stored) are two
  steps, `PollFails` is the error path with the offline threshold.
- `_publish`: `Observe`, `Announce` or `Heartbeat`, then `Build` and `Enqueue` for each event.
- `_report_fault`: `Fault`; `_service_pending_command`: `Service` (the test) and `Act` (the swap).
- `execute_command`: `Acquire`, `Check`, then per attempt `Accepted`, `Refused`, `ReplyLost` or
  `NoSuchCommand`, per read-back `ReadBack`, `ReadBackFails`, `Assign`, `Judge` and `Over`; then, if
  it was not taken, `Verdict` and `Defer` (a pause that warm-up may have swallowed) or `Report` and
  `Quote` (the notice to the user); then the publication above, and `Release`. The code reads
  `_snapshot` anew at lines 365, 367, 319 (twice) and 327 (twice), so each look is a step, and one
  that finds the poll loop's `None` where the one before found a snapshot raises (`Trips`).
- `_drain_commands` and `_ensure_command_thread`: `TakeCommand`, `GiveUp` (the thread first stops
  waiting, then stops living) and `Request` (put, and a new thread if the old one is not alive).
- `Kill` and `Restart` are the container and `restart: unless-stopped`, which calls `run` again.

The agent talks to Obico through the `Mailbox` that `ObicoServer` implements: `Enqueue` hands a
message over, which is heard in its turn (`Heard`) or lost (`NotHeard`, at most `MaxDropped` times).
`told` is what Obico heard last; `story` follows the sessions it heard of, across restarts, and is
broken once a message is lost or the messages make no sequence of sessions. An end is accepted under
any id: the code builds every message after the tracker has moved on, so the end of a job carries -1,
or the next job's id where two jobs were swapped between two polls, although the design (4.3) sends
the event first and sets the id to -1 then.

`execute_command`, the queue and the poll loop together implement `DeferredPause`: `doing` is the command
of whoever holds the lock, `kept` is `pending_command`. Of all the steps only `Acquire`, `Release`, the
two ways an exception takes (`NoSuchCommand`, `Trips`), `Defer`, `Act` and `Restart` are seen there.

`clock` advances with every session, so session ids differ here although two sessions in one
second would share one in the code. `seenAt`, `revoked`, `story`, `sends` and `looksDue` (how often the
command being executed was sent, and the read-backs its acknowledged sends still deserve) are history:
the code does not have them.

**ObicoServer.** `send()` is `Send`, then `Put`, or `Full` and `Drop` and again; the queue is
Python's own thread-safe one, so each of these is one step. `_pump` is `Check`, `Get`, then
`Deliver`, `SendIntoVoid` (the system takes bytes for a connection that is gone) or `SendFails`.
A connection is *cut* (silence: the reader times out and goes on) or *closed* (the reader gets the
close code). A text frame the reader dispatches is `Request` of `Agent`, a different module.

**Camera.** Opening and tracking a stream are two steps, and so are closing it (`Leave`) and untracking it
(`CloseEnded`, `CloseFailed`); `stop()` sets the flag, takes the tracked stream and shuts it down in
three, and may come between any two of the reader's. `StreamEnds` is the parser's return, also on a
connection that is still open (the closing boundary, a part too large). A viewer looks under the
condition's lock and falls asleep in the same step. The camera keeps its one slot when a connection
vanishes in silence, also when `stop()` then shuts the socket: `muted` is history and says so.

**StartPrint.** A request reads the list (`List`, `ListFails`), looks whether there is a snapshot
(`NoSnapshot`, `HasSnapshot`), is judged on its state in a second look (`SnapshotGone`, a 500, if an
outage has wiped it in between; `Refused`, `Allowed`), sends (`Begin`, `StartFails`) and hears the answer
(`Started`, or `StartFails` when it is lost). Between any two of these the touchscreen may act
(`Touchscreen`, the whole of `Printer`), files may be stored, replaced or deleted (`Store`), and polls be
answered and stored (`Poll`, `TakeReply`, `PollFails`). A `detail` reply and a request's permission carry
the date of the printer's answer. A request may name any file or none (`Post`, `PostNoName`). Firmware
that lists only names and firmware that lists details differ in `Reply`. A busy machine refuses a start,
as `src/tests/test_files.py:151-154` has it. `left`, `checked`, `begun`, `unheard` and `held` are history.

## Runs

| Run | Bounds | What it shows |
|---|---|---|
| `JobTracker` | 2 files, all states, progress bit | every sequence of replies: the tracker mirrors the printer and implements `PrintSession` |
| `AgentCommands` | 2 commands of any kind, 2 printer changes, 1 lost reply, 2 attempts, 2 read-backs each | serialisation, also past exceptions; each step of a command nearer to its end, and none given up before its last send and read-back; who may make, keep or withdraw a pending pause (`DeferredPause`) |
| `AgentPolling` | 2 files, error code, odd states, 4 changes, 1 kill, 3 failures to offline | without commands: what Obico is told equals what the agent knows, and is one session at a time across outages, swaps and restarts. A session open at a restart is left without an end and never continued; under which id an end is told is left open |
| `AgentConverges` | 1 command of any kind, 1 attempt, 2 changes, 1 lost message, fair | a command taken finishes, a deferred pause is issued and takes, Obico ends with the truth |
| `ObicoServer` | 2 senders, queue of 2, 5 messages, 2 faults, fair | it implements `Mailbox`; the queue holds the latest; lost connections known, noticed and given up within one round; none opened by this process after 4321 is known; the queue drains |
| `Camera` | 2 viewers, 2 frames, 2 faults, fair | no missed wake-up; the slot given back; `stop()` always ends the reader, every step of it one towards its end; lost streams reopened |
| `StartPrint` | 2 requests, 1 file of 2 slicings or absent, 3 changes, 1 change of the store, 1 lost answer, 1 failure to offline | only a job younger than the reply looked at is in the way; slots are the file's; "started" is said of a begun print only, and "not ready" of a begun one exactly when the printer's own answer was lost, which nobody here could know better |
| `AgentRevokedPause` | pause, resume | **violated:** the pause leaves `pending_command` before the lock is held; a resume in between cannot drop it |
| `AgentStalePoll` | pause | **violated:** a poll's older reply replaces what the read-back has stored |
| `AgentLostWakeup` | 2 pauses, fair | **violated:** a command queued while the command thread is leaving stays there until the next |
| `ObicoTurned` | as `ObicoServer` | **violated:** a send that fails first hides 4321, and the agent reconnects |
| `StartPrintBusy` | 1 request | **violated:** the start is sent to a machine whose job began after the poll that was looked at |

Every finding quotes the sentence of the design, a comment or a docstring that it contradicts; see
`PROJECT.json`.

**Why the bounds are enough.** The tracker looks at one snapshot and its own four fields, so two files
show every swap. In `Agent` all races are between one step of the poll loop and one command, or between a
command and the one behind it: two commands, two threads and two changes of the printer give each of
these; retries differ from the first attempt only in the counter, so two attempts show "again" and "the
last", and two read-backs in `AgentCommands` the same of the inner loop. In `AgentConverges` one request
of one attempt means no contention for the lock but by the deferred pause, no retry, no restart and no
odd words, so `CommandsFinish` and `DeferredPauseTakes` are shown for that much only; that the lock comes
free with two commands is `LockHolderAtWork`, and that the retries come to an end `CommandsAdvance`. `MaxChanges`, `MaxRequests`, `MaxLost`, `MaxKills`,
`MaxDropped`, `MaxSends`, `MaxFaults`, `MaxFrames`, `MaxPosts` and `MaxUploads` only bound what the world
does, not the code. In `StartPrint` requests meet only through the snapshot and the printer, so two show
every meeting (they are interchangeable, hence the symmetry), one changed file shows every stale list, and
three changes begin a job, heat and finish it. One poller is enough for TLC, a second one adds only older
snapshots; the proof is for any number. The passing run has firmware that lists details, without which no
slot is ever sent; `StartPrintBusy` has names-only firmware too. `OfflineAfterFailures` is 3 as in the
code where it matters (`AgentPolling`). A queue of two overflows with two senders inside `send()` at once,
which a longer one only does later.

**Deadlock** is checked in every Agent and JobTracker run. `ObicoServer` and `Camera` may stop
(`stop()`), and requests come to an end, so there it is not.

## Fairness

- Both agent threads: every blocking call has a timeout (15 s for a call to the printer, 60 s for a
  REST post to Obico, 0.5 s at the queue, the waits between polls and read-backs), so each thread's
  next step comes: `WF`.
- `Heartbeat("main")`: strong fairness. The poll loop runs every 5 s at most, and `HEARTBEAT_S`
  after the last message an unchanged status is sent; between two polls the step is disabled, yet
  it comes round again and again.
- `Restart`: Docker's restart policy. `PrinterProgress`: heating ends, a command that was heeded
  is obeyed, calibration ends, an outage ends. Nobody has to send commands, start or finish jobs.
- `ObicoServer`: the websocket thread's waits are bounded (0.2 s, 1 s, 10 s, the backoff), Obico
  comes back. Nothing is assumed of `stop()`, of faults, or of a cut connection being noticed: that
  takes a message and TCP's patience.
- `Camera`: the reader's and main thread's waits are bounded, and the firmware drops a dead viewer
  some day. Nothing is assumed of viewers: a client that stops reading blocks its thread.

## Proofs

All theorems are of `Spec` without fairness, from the named assumptions on the constants
(`AgentAssumption`, `TimesAssumption`, `ObicoAssumption`, `CameraAssumption`,
`StartPrintAssumption`; nothing beyond "a positive number" and the shape of data).

- `JobTrackerProofs`: type correctness; `TrackerMirrorsPrinter` (inductive as it stands, once the
  types are known); `TellsSessions`, the refinement of `PrintSession`: from a tracker that mirrors
  the printer each `observe` is one abstract step or none. It rests on the lemmas of
  `TrackingProofs` about `Observed` and `Emitted`.
- `AgentProofs`: type correctness of all variables, the two retry counters within their bounds; then
  `CommandsSerialised` and `IntentStaysDropped` from one inductive invariant, `Safe`, which says besides
  that only the holder of a pause comes to `Defer` (`OnlyPausesWait`). `IntentStaysDropped` is not
  inductive alone: a thread that picks up a resume would have to be shown not to hold the lock already.
  `LockHolderAtWork` says so, and `CommandsSerialised` says that nobody else can reach `Defer`, the
  one place that makes a pause pending. `LockHolderAtWork` is a theorem of its own: an exception that kept
  the lock would stop every later command. `GoneOnlyIfRevoked` needs one conjunct more (`Kept`): while
  something is pending nothing has revoked it, so the poll loop comes to its swap with an intent nobody
  has touched yet. `GivesUpOnlyAtTheEnd` rests on `Accounted`: at each step of the holder the sends
  counted are the attempts made, and the read-backs due are what the inner loop's counter leaves of the
  last acknowledged send. `CommandsAdvance` is proved from `Safe`: each step of the lock's holder lowers a
  measure of four parts, compared in turn (the way through `execute_command`, attempts or messages left,
  read-backs left, the way through one of them), and `OthersLeaveItAlone` says that no step of anybody
  else moves it away from its end. It is the safety half of `CommandsFinish`: with the holder's fairness a
  command can only end. `KeepsItsPromise` is the refinement of `DeferredPause`, one case per kind of step;
  `LockHolderAtWork` is what makes `TakeCommand` and `Act`, which overwrite a thread's `cmd`, invisible
  there.
- `AgentPollingProofs`: `ToldWhatItKnows` and `ToldAsSessions` until the first command is sent or the
  first message lost (`requests = 0 /\ dropped = 0`), for all constants; both counters only grow
  (`UndisturbedBefore`). `Alone` says that the command thread never moves; `Knows` what the tracker, the
  text and the last message have to do with each other at each step of `_publish`, `Owes` which message
  is still due; `StoryFits` ties the story Obico heard to the tracker and the events in hand:
  between two publications it is the tracker's session, or none (`Matches`), also one left open by a
  restart, and no session in it is newer than the clock (`StoryWithinClock`).
- `ObicoServerProofs`: type correctness with the queue's bound; `QueueHoldsTheLatest`, and that
  `ObicoServer` implements `Mailbox` (`ActsAsMailbox`), for any number of senders, any bound and any
  failures. The invariant `InLine` puts everything on one line of numbers: what Obico heard, then the
  message in flight, then the queue without a gap up to the last message put. Without the part about
  the message in flight the refinement fails at `Deliver`. `ClosedIsKnown`, `FailureEndsSession` and
  `SharedIsFinal` come from `SessionWhole`: connection, reader and failure live exactly while the pump
  runs, a connection always has its reader or the reader's failure, and a pump that has learnt of 4321
  runs no more. `SharedIsFinal` is of one process: the container's restart policy starts another after
  the exit. The first two are the safety half of `LossIsNoticed`; the third is what is left of
  "stop reconnecting" in spite of `ObicoTurned`.
- `CameraProofs`: type correctness; `NobodySleepsThroughAFrame` (inductive with the types);
  `StopHangsUp` from `Released`: a stream that `stop()` has taken out belongs to a reader that can
  only close it, untrack it and end, so no other connection follows the one that was hung up.
  `SlotGivenBack` from `Answered`: the camera holds a viewer only while its connection is open, or after
  it went mute. `StopIsShort`, the safety half of `StopEnds`, needs only the types.
- `StartPrintProofs`: type correctness, `OnlyANewerJobIsInTheWay`, `AnswersAreHonest` and
  `MappingsAreTheFiles`. The first rests on `Dated`: whatever says "ready", a reply under way, the
  snapshot or a permission, carries a date at or after which the machine was idle, and no step of
  the world takes that back (`SoundStays`). The last rests on `Seen`: an open request has witnessed
  all the store holds now, and its list promises no tools that it has not witnessed.
- `PrinterProofs` and `TrackingProofs` hold the lemmas the others share.

## Only model-checked

Liveness under fairness (`CommandsFinish`, `EventuallyAccurate`, `IntentSettles`,
`DeferredPauseTakes`, `LossIsNoticed`, `QueueDrains`, `StopEnds`, `HealthRecovers`, `Reconnects`) is
out of the prover's reach; what safety has to say of three of them is proved (`CommandsAdvance`,
`ClosedIsKnown` with `FailureEndsSession`, `StopIsShort`), the step from there to the liveness property
is fairness and `ENABLED`. After a command `ToldWhatItKnows` and `ToldAsSessions` do not hold, as two
`_publish` may overlap; then Obico knows the truth only in the end (`EventuallyAccurate`). Every
invariant and action property of a passing run is proved.

## Not modelled, and why

- Notices posted to the user, the picture loops and other REST calls: they change no state of the
  agent except `_faults_reported`, which is modelled.
- The discovery of the printer's camera (`_discover_camera`), and the two ways `run()` returns, its stop
  event and the shared token: `Run` is the loop itself.
- Whether a repeated command does harm: after a lost reply the code sends again without a read-back
  (`agent.py:347`), where the design (4.4) has it only if the state has not changed; the modelled printer
  ignores a command that has lost its meaning.
- The id an end of a session is told under (`agent.py:150`): see `story` above.
- The light, thumbnails and the page's own file list: one call to the printer and its answer, no
  state of the agent.
- Replies of the wrong shape: a `gcodeToolDatas` that is a number makes `parse_gcode_files` raise and
  the request end in a 500 (`flashforge/parsing.py:93`); the route's handler catches it.
- Settings after a reconnect: `_settings_sent` is set once (`agent.py:152`) while the design (4.3)
  wants them with every connection; whether Obico forgets them is not known.
- The payload of a status beyond text, event and session; number and string parsing.
- The inside of `JobTracker.observe()`: it is one step of `Agent`, although two threads may be in it at
  once (`agent.py:106`, reached without a common lock).
- Two command threads: `Request` is one caller's put and check in one step.
- A reader that is still dispatching when its connection has been replaced: the reconnect waits a
  second at least.
- Configuration, logging, the console page: no state that changes.

## Plan

Done: `Snapshot`, `Tracking`, `JobTracker`, `PrintSession`, `Printer`, `Agent`, `DeferredPause`,
`Mailbox`, `ObicoServer`, `Camera`, `StartPrint`, each with its proofs. Left, in this order:

1. `CommandQueue`: several callers and drainers, put and check apart, to show what order commands are
   executed in and when two drainers exist; composed with `Agent` if its state space allows.
2. The user notices in `Agent`: one notice per command that did not take, none for one that took.
3. `iter_mjpeg_frames` as a function over abstract lines, against a reference definition.
4. `ToldAsSessions` with commands, from an account of two overlapping `_publish`.
