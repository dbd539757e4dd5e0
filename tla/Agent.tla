------------------------------- MODULE Agent -------------------------------
(***************************************************************************)
(* agent.py: the poll loop of the main thread and the thread that drains   *)
(* the command queue, over one shared Agent object.                        *)
(*                                                                         *)
(* Each thread runs the code one step at a time; a step is a stretch that  *)
(* the other thread can only see whole.  A new step starts wherever the    *)
(* code reads or writes what the other thread writes, and wherever it      *)
(* waits for the printer: a `detail` reply is a picture of the printer at  *)
(* the time the printer answered, and is stored only in a later step.      *)
(*                                                                         *)
(* Both threads execute commands (the main thread the deferred pause), so  *)
(* the steps of execute_command and _publish take the thread as parameter. *)
(*                                                                         *)
(* ObicoServer is the Mailbox it implements: a message handed over is      *)
(* heard at the other end in its turn, or lost.                            *)
(***************************************************************************)
EXTENDS Tracking, Printer

CONSTANTS
    OfflineAfterFailures,   \* OFFLINE_AFTER_FAILURES
    ReadbackAttempts,       \* READBACK_ATTEMPTS
    MaxCommandAttempts,     \* MAX_COMMAND_ATTEMPTS
    UserCommands,           \* the commands people send in this instance
    MaxRequests,            \* bound: commands sent in all
    MaxLost,                \* bound: command replies lost on the way back
    MaxDropped,             \* bound: status messages lost on the way to Obico
    MaxKills                \* bound: times the process is killed from outside

ASSUME AgentAssumption ==
    /\ OfflineAfterFailures \in Nat \ {0}
    /\ ReadbackAttempts \in Nat \ {0}
    /\ MaxCommandAttempts \in Nat \ {0}
    /\ UserCommands \subseteq Commands
    /\ MaxRequests \in Nat
    /\ MaxLost \in Nat
    /\ MaxDropped \in Nat
    /\ MaxKills \in Nat

Threads == {"main", "commands"}
Free == "free"          \* _command_lock not held
NoEvent == "no event"

Labels == {"idle", "polled", "observe", "announce", "build", "enqueue", "fault", "service", "act",
           "acquire", "check", "attempt", "readback", "assign", "judge", "over",
           "verdict", "defer", "report", "quote", "release", "dead", "leaving", "gone"}

\* Where a thread holds the command lock; publishing is common to both loops.
Executing == {"check", "attempt", "readback", "assign", "judge", "over",
              "verdict", "defer", "report", "quote", "release"}
Publishing == {"observe", "announce", "build", "enqueue"}

Messages == [event : Events \cup {NoEvent}, ts : Nat \cup {NoSession}, text : Texts]
NoMessage == [event |-> NoEvent, ts |-> NoSession, text |-> "Offline"]

Statuses == [ts : Nat \cup {NoSession}, text : Texts]
StatusOf(m) == [ts |-> m.ts, text |-> m.text]

\* A session as a reader of the messages knows it, under the id of the latest
\* start: "left" when the process ended in the middle of it, Broken if the
\* messages make no session.
Stories == [phase : {"none", "printing", "paused", "left", "broken"}, ts : Nat \cup {NoSession}]
NoStory == [phase |-> "none", ts |-> NoSession]
Broken == [phase |-> "broken", ts |-> NoSession]

\* The command thread is started by the first command and leaves when it has
\* waited in vain for the next; from then on it is gone.
PcInit == [t \in Threads |-> IF t = "main" THEN "idle" ELSE "gone"]

\* A reply in a thread's hands, or its local `snapshot`; `at` dates it.
Views == [snap : Snapshots \cup {None}, at : Nat]
Nothing == [snap |-> None, at |-> 0]

VARIABLES
    \* the Agent object
    snapshot,       \* _snapshot, with the date of the reply it came from
    failures,       \* _failures, counted no further than the threshold
    stateText,      \* _state_text
    settingsSent,   \* _settings_sent
    tracker,        \* the JobTracker
    reported,       \* _faults_reported
    pending,        \* pending_command
    queue,          \* _commands
    lock,           \* who holds _command_lock
    \* the threads
    pc,             \* the step each thread is about to take
    cmd,            \* the `cmd` of execute_command, per thread
    attempt,        \* the loop counter of _attempt_command (under the lock)
    reads,          \* the loop counter of _read_back (under the lock)
    view,           \* a reply or a local copy of the snapshot, per thread
    events,         \* what _publish still has to send, per thread
    message,        \* a message built and not yet handed over, per thread
    \* the world
    told,           \* what the last message Obico heard says
    dropped,        \* status messages lost so far
    requests,       \* commands people have sent so far
    lost,           \* command replies lost so far
    clock,          \* the second the latest session began
    kills,          \* times the process was killed so far
    \* history
    seenAt,         \* the date of the latest snapshot the tracker was shown
    sends,          \* times the command being executed was sent so far
    looksDue,       \* read-backs its acknowledged sends still deserve
    revoked,        \* has a resume or cancel been executed since the last deferral?
    story           \* the print session as the messages told it

objectVars == <<snapshot, failures, stateText, settingsSent, tracker, reported>>
intentVars == <<pending, revoked>>
effortVars == <<attempt, reads, sends, looksDue>>
commandVars == <<queue, requests, lost, kills, effortVars>>
publishVars == <<events, message, told, dropped, story, clock, seenAt>>

threadVars == <<lock, pc, cmd, view>>

vars == <<printerVars, objectVars, intentVars, commandVars, publishVars, threadVars>>

Alive == pc["main"] # "dead"

Goto(t, label) == pc' = [pc EXCEPT ![t] = label]

Init ==
    /\ PrinterInit
    /\ snapshot = Nothing /\ failures = 0 /\ stateText = "Offline" /\ settingsSent = FALSE
    /\ tracker = Fresh /\ reported = {}
    /\ pending = NoCmd /\ queue = <<>> /\ lock = Free
    /\ pc = PcInit
    /\ cmd = [t \in Threads |-> NoCmd]
    /\ attempt = 0 /\ reads = 0
    /\ view = [t \in Threads |-> Nothing]
    /\ events = [t \in Threads |-> <<>>]
    /\ message = [t \in Threads |-> NoMessage]
    /\ told = StatusOf(NoMessage)
    /\ requests = 0 /\ lost = 0 /\ dropped = 0 /\ kills = 0 /\ clock = 0
    /\ seenAt = 0 /\ story = NoStory /\ revoked = FALSE /\ sends = 0 /\ looksDue = 0
-----------------------------------------------------------------------------
\* People: Obico's commands and the console's, both put on the same queue.  A
\* thread that is gone is replaced, one that is only leaving counts as alive.
Request(c) ==
    /\ Alive
    /\ requests < MaxRequests
    /\ requests' = requests + 1
    /\ queue' = Append(queue, c)
    /\ IF pc["commands"] = "gone" THEN Goto("commands", "idle") ELSE UNCHANGED pc
    /\ UNCHANGED <<printerVars, objectVars, intentVars, lost, kills, effortVars, publishVars,
                   lock, cmd, view>>

\* The process is killed where it stands: the host or its container goes down.
Kill ==
    /\ Alive
    /\ kills < MaxKills
    /\ kills' = kills + 1
    /\ Goto("main", "dead")
    /\ UNCHANGED <<printerVars, objectVars, intentVars, queue, requests, lost, effortVars,
                   publishVars, lock, cmd, view>>

\* History: a process that ends leaves its session open at Obico.
StoryLeft == IF story.phase \in {"printing", "paused"} THEN [story EXCEPT !.phase = "left"] ELSE story

\* The deployment restarts a dead process; run() builds every object anew,
\* nothing was kept on disk.
Restart ==
    /\ ~Alive
    /\ snapshot' = Nothing /\ failures' = 0 /\ stateText' = "Offline" /\ settingsSent' = FALSE
    /\ tracker' = Fresh /\ reported' = {}
    /\ pending' = NoCmd /\ queue' = <<>> /\ lock' = Free
    /\ pc' = PcInit
    /\ cmd' = [t \in Threads |-> NoCmd]
    /\ attempt' = 0 /\ reads' = 0 /\ sends' = 0 /\ looksDue' = 0
    /\ view' = [t \in Threads |-> Nothing]
    /\ events' = [t \in Threads |-> <<>>]
    /\ message' = [t \in Threads |-> NoMessage]
    /\ revoked' = FALSE /\ story' = StoryLeft
    /\ UNCHANGED <<printerVars, told, dropped, requests, lost, kills, clock, seenAt>>
-----------------------------------------------------------------------------
\* _read_printer: the reply is a picture of the printer as it answers ...
Poll ==
    /\ pc["main"] = "idle"
    /\ reachable
    /\ view' = [view EXCEPT !["main"] = [snap |-> Detail, at |-> changes]]
    /\ Goto("main", "polled")
    /\ UNCHANGED <<printerVars, objectVars, intentVars, commandVars, publishVars, lock, cmd>>

\* ... and becomes the agent's snapshot only once it has arrived.
TakeReply ==
    /\ pc["main"] = "polled"
    /\ snapshot' = view["main"]
    /\ view' = [view EXCEPT !["main"] = Nothing]
    /\ failures' = 0
    /\ Goto("main", "observe")
    /\ UNCHANGED <<printerVars, stateText, settingsSent, tracker, reported,
                   intentVars, commandVars, publishVars, lock, cmd>>

Offline(count) == count >= OfflineAfterFailures

PollFails ==
    /\ pc["main"] = "idle"
    /\ ~reachable
    /\ LET count == IF failures < OfflineAfterFailures THEN failures + 1 ELSE failures
       IN /\ failures' = count
          /\ IF Offline(count)
             THEN snapshot' = [snap |-> None, at |-> changes] /\ Goto("main", "observe")
             ELSE UNCHANGED <<snapshot, pc>>
    /\ UNCHANGED <<printerVars, stateText, settingsSent, tracker, reported,
                   intentVars, commandVars, publishVars, lock, cmd, view>>
-----------------------------------------------------------------------------
\* _publish, line by line: the tracker sees the current snapshot ...  A
\* session's id is the second it begins in; no two begin in one second here.
Observe(t) ==
    /\ Alive
    /\ pc[t] = "observe"
    /\ events' = [events EXCEPT ![t] = Emitted(tracker, snapshot.snap)]
    /\ tracker' = Observed(tracker, snapshot.snap, clock + 1)
    /\ clock' = IF tracker'.ts = clock + 1 THEN clock + 1 ELSE clock
    /\ seenAt' = snapshot.at
    /\ Goto(t, "announce")
    /\ UNCHANGED <<printerVars, snapshot, failures, stateText, settingsSent, reported,
                   intentVars, commandVars, message, told, dropped, story, lock, cmd, view>>

AfterPublish(t) == IF lock = t THEN "release" ELSE "fault"

NewText == StateText(snapshot.snap, stateText)

ChangedByEvents(t) == events[t] # <<>> \/ ~settingsSent    \* mutant: the text forgotten

Changed(t) == NewText # stateText \/ events[t] # <<>> \/ ~settingsSent

\* ... the state text follows it, and a change is sent at once ...
Announce(t) ==
    /\ Alive
    /\ pc[t] = "announce"
    /\ stateText' = NewText
    /\ Goto(t, IF Changed(t) THEN "build" ELSE AfterPublish(t))
    /\ UNCHANGED <<printerVars, snapshot, failures, settingsSent, tracker, reported,
                   intentVars, commandVars, publishVars, lock, cmd, view>>

HeartbeatNever(t) == FALSE      \* mutant: only changes are sent

\* ... and so is an unchanged status, HEARTBEAT_S after the last.
Heartbeat(t) ==
    /\ Alive
    /\ pc[t] = "announce"
    /\ ~Changed(t)
    /\ stateText' = NewText
    /\ Goto(t, "build")
    /\ UNCHANGED <<printerVars, snapshot, failures, settingsSent, tracker, reported,
                   intentVars, commandVars, publishVars, lock, cmd, view>>

FirstEvent(batch) == IF batch = <<>> THEN NoEvent ELSE Head(batch)

\* build_status: an empty status is how Obico is told "Offline".
StatusText == IF snapshot.snap = None THEN "Offline" ELSE stateText

\* _send_status builds the message from the agent as it is by then ...
Build(t) ==
    /\ Alive
    /\ pc[t] = "build"
    /\ message' = [message EXCEPT ![t] = [event |-> FirstEvent(events[t]),
                                          ts    |-> tracker.ts,
                                          text  |-> StatusText]]
    /\ Goto(t, "enqueue")
    /\ UNCHANGED <<printerVars, objectVars, intentVars, commandVars, events, told, dropped, story, clock,
                   seenAt, lock, cmd, view>>

RestForgotten(batch) == <<>>    \* mutant: only the first event of a batch is sent

Rest(batch) == IF batch = <<>> THEN <<>> ELSE Tail(batch)

\* History: what a message makes of the session the earlier ones told of.  The
\* end of a session may come under any id, its own, none or the next one's.
StoryAfter(m) ==
    CASE m.event = NoEvent /\ story.phase \in {"printing", "paused"} /\ m.ts = story.ts
           -> story
      [] m.event = NoEvent /\ story.phase \in {"none", "left"} /\ m.ts = NoSession
           -> [story EXCEPT !.phase = "none"]
      [] m.event = "PrintStarted" /\ story.phase \in {"none", "left"} /\ m.ts > story.ts
           -> [phase |-> IF m.text = "Paused" THEN "paused" ELSE "printing", ts |-> m.ts]
      [] m.event = "PrintPaused" /\ story.phase = "printing" /\ m.ts = story.ts
           -> [story EXCEPT !.phase = "paused"]
      [] m.event = "PrintResumed" /\ story.phase = "paused" /\ m.ts = story.ts
           -> [story EXCEPT !.phase = "printing"]
      [] m.event \in EndEvents /\ story.phase \in {"printing", "paused"}
           -> [story EXCEPT !.phase = "none"]
      [] OTHER -> Broken

Heard(m) == told' = StatusOf(m) /\ story' = StoryAfter(m) /\ UNCHANGED dropped

\* Dropped by a full queue, or with the connection it was written into.
NotHeard == dropped < MaxDropped /\ dropped' = dropped + 1 /\ story' = Broken /\ UNCHANGED told

\* ... and hands it over; one message per event, the first with any status.
Enqueue(t) ==
    /\ Alive
    /\ pc[t] = "enqueue"
    /\ Heard(message[t]) \/ NotHeard
    /\ message' = [message EXCEPT ![t] = NoMessage]
    /\ settingsSent' = TRUE
    /\ events' = [events EXCEPT ![t] = Rest(events[t])]
    /\ Goto(t, IF Rest(events[t]) # <<>> THEN "build" ELSE AfterPublish(t))
    /\ UNCHANGED <<printerVars, snapshot, failures, stateText, tracker, reported,
                   intentVars, commandVars, clock, seenAt, lock, cmd, view>>

\* _report_fault: each error code is reported once in the agent's life.
Fault ==
    /\ pc["main"] = "fault"
    /\ reported' = IF snapshot.snap # None THEN reported \cup ({snapshot.snap.error} \ {NoCode})
                   ELSE reported
    /\ Goto("main", "service")
    /\ UNCHANGED <<printerVars, snapshot, failures, stateText, settingsSent, tracker,
                   intentVars, commandVars, publishVars, lock, cmd, view>>
-----------------------------------------------------------------------------
OnlyOffline == snapshot.snap = None     \* mutant: the intent is not looked at

NothingToService == pending = NoCmd \/ snapshot.snap = None

\* _service_pending_command: a local copy of the snapshot, a first look at
\* the intent ...
Service ==
    /\ pc["main"] = "service"
    /\ IF NothingToService
       THEN Goto("main", "idle") /\ UNCHANGED view
       ELSE Goto("main", "act") /\ view' = [view EXCEPT !["main"] = snapshot]
    /\ UNCHANGED <<printerVars, objectVars, intentVars, commandVars, publishVars, lock, cmd>>

TakenAfterClearing == NoCmd     \* mutant: the intent cleared before it is read

TakenIntent == pending

\* ... then, without the lock: the intent is dropped, kept, or taken out to
\* be executed.
Act ==
    /\ pc["main"] = "act"
    /\ view' = [view EXCEPT !["main"] = Nothing]
    /\ LET s == view["main"].snap
       IN \/ /\ ~HasJob(s) \/ IsPaused(s)
             /\ pending' = NoCmd
             /\ Goto("main", "idle") /\ UNCHANGED cmd
          \/ /\ WarmingUp(s)
             /\ Goto("main", "idle") /\ UNCHANGED <<pending, cmd>>
          \/ /\ HasJob(s) /\ ~IsPaused(s) /\ ~WarmingUp(s)
             /\ cmd' = [cmd EXCEPT !["main"] = TakenIntent]
             /\ pending' = NoCmd
             /\ Goto("main", "acquire")
    /\ UNCHANGED <<printerVars, objectVars, revoked, commandVars, publishVars, lock>>

\* _drain_commands: the next command ...
TakeCommand ==
    /\ Alive
    /\ pc["commands"] = "idle"
    /\ queue # <<>>
    /\ cmd' = [cmd EXCEPT !["commands"] = Head(queue)]
    /\ queue' = Tail(queue)
    /\ Goto("commands", "acquire")
    /\ UNCHANGED <<printerVars, objectVars, intentVars, requests, lost, kills, effortVars,
                   publishVars, lock, view>>

\* ... or, after half a second without one, the end of the thread.
GiveUp ==
    /\ Alive
    /\ \/ pc["commands"] = "idle" /\ queue = <<>> /\ Goto("commands", "leaving")
       \/ pc["commands"] = "leaving" /\ Goto("commands", "gone")
    /\ UNCHANGED <<printerVars, objectVars, intentVars, commandVars, publishVars, lock, cmd, view>>
-----------------------------------------------------------------------------
OnlyResumeDrops(c) == c = "resume"      \* mutant: a cancel leaves the intent

EveryCommandDrops(c) == TRUE            \* mutant: a second pause drops it

DropsIntent(c) == c \in {"resume", "cancel"}

LockIgnored == TRUE     \* mutant: execute_command without the lock

LockAvailable == lock = Free

\* execute_command takes the lock; a resume or cancel drops a pending intent.
Acquire(t) ==
    /\ Alive
    /\ pc[t] = "acquire"
    /\ LockAvailable
    /\ lock' = t
    /\ pending' = IF DropsIntent(cmd[t]) THEN NoCmd ELSE pending
    /\ revoked' = (revoked \/ DropsIntent(cmd[t]))
    /\ Goto(t, "check")
    /\ UNCHANGED <<printerVars, objectVars, commandVars, publishVars, cmd, view>>

\* Nothing to do without a job, or when the printer is already there.
Moot(c, s) ==
    \/ s = None
    \/ s # None /\ ~HasJob(s)
    \/ s # None /\ c = "pause" /\ IsPaused(s)
    \/ s # None /\ c = "resume" /\ ~IsPaused(s)

Check(t) ==
    /\ Alive
    /\ pc[t] = "check"
    /\ IF Moot(cmd[t], snapshot.snap)
       THEN Goto(t, "release") /\ UNCHANGED attempt
       ELSE Goto(t, "attempt") /\ attempt' = 1
    /\ UNCHANGED <<printerVars, objectVars, intentVars, queue, requests, lost, kills, reads, sends, looksDue,
                   publishVars, lock, cmd, view>>

NextAttemptTooMany(t) ==    \* mutant: one attempt more than the bound
    IF attempt <= MaxCommandAttempts
    THEN attempt' = attempt + 1 /\ Goto(t, "attempt")
    ELSE UNCHANGED attempt /\ Goto(t, "verdict")

NextAttemptUncounted(t) ==  \* mutant: only a refusal counts
    IF pc[t] = "attempt" /\ attempt = MaxCommandAttempts
    THEN UNCHANGED attempt /\ Goto(t, "verdict")
    ELSE attempt' = (IF pc[t] = "attempt" THEN attempt + 1 ELSE attempt) /\ Goto(t, "attempt")

NextAttemptTooFew(t) ==     \* mutant: the last attempt is not made
    IF attempt + 1 < MaxCommandAttempts
    THEN attempt' = attempt + 1 /\ Goto(t, "attempt")
    ELSE UNCHANGED attempt /\ Goto(t, "verdict")

\* A refusal counts as an attempt; the last one ends in the verdict.
NextAttempt(t) ==
    IF attempt < MaxCommandAttempts
    THEN attempt' = attempt + 1 /\ Goto(t, "attempt")
    ELSE UNCHANGED attempt /\ Goto(t, "verdict")

Accepted(t) ==
    /\ Alive
    /\ pc[t] = "attempt" /\ cmd[t] # NoCmd
    /\ reachable
    /\ Acknowledge(cmd[t])
    /\ reads' = 1
    /\ sends' = sends + 1 /\ looksDue' = looksDue + ReadbackAttempts
    /\ Goto(t, "readback")
    /\ UNCHANGED <<objectVars, intentVars, queue, requests, lost, kills, attempt, publishVars, lock, cmd, view>>

\* FlashforgeError: the printer is away, or answers that it will not.
Refused(t) ==
    /\ Alive
    /\ pc[t] = "attempt" /\ cmd[t] # NoCmd
    /\ ~reachable \/ ~Heeds(cmd[t])
    /\ NextAttempt(t)
    /\ sends' = sends + 1
    /\ UNCHANGED <<printerVars, objectVars, intentVars, queue, requests, lost, kills, reads, looksDue,
                   publishVars, lock, cmd, view>>

\* FlashforgeError too, though the printer took the command: the reply is lost.
ReplyLost(t) ==
    /\ Alive
    /\ pc[t] = "attempt" /\ cmd[t] # NoCmd
    /\ reachable /\ lost < MaxLost
    /\ lost' = lost + 1
    /\ Acknowledge(cmd[t])
    /\ NextAttempt(t)
    /\ sends' = sends + 1
    /\ UNCHANGED <<objectVars, intentVars, queue, requests, kills, reads, looksDue,
                   publishVars, lock, cmd, view>>

RaiseHoldingLock(t) ==      \* mutant: the lock not released by an exception
    /\ UNCHANGED lock
    /\ attempt' = 0 /\ reads' = 0 /\ sends' = 0 /\ looksDue' = 0
    /\ cmd' = [cmd EXCEPT ![t] = NoCmd]
    /\ Goto(t, IF t = "main" THEN "dead" ELSE "idle")

\* An exception that is no FlashforgeError gives the lock back on its way out,
\* is logged by _drain_commands, and ends the main thread.
Raise(t) ==
    /\ lock' = Free
    /\ attempt' = 0 /\ reads' = 0 /\ sends' = 0 /\ looksDue' = 0
    /\ cmd' = [cmd EXCEPT ![t] = NoCmd]
    /\ Goto(t, IF t = "main" THEN "dead" ELSE "idle")

\* getattr(self.printer, None) is a TypeError.
NoSuchCommand(t) ==
    /\ Alive
    /\ pc[t] = "attempt" /\ cmd[t] = NoCmd
    /\ Raise(t)
    /\ UNCHANGED <<printerVars, objectVars, intentVars, queue, requests, lost, kills, publishVars, view>>

NextRead(t) ==
    IF reads < ReadbackAttempts
    THEN reads' = reads + 1 /\ Goto(t, "readback") /\ UNCHANGED attempt
    ELSE UNCHANGED reads /\ NextAttempt(t)

\* _read_back: one `detail` per second ...
ReadBack(t) ==
    /\ Alive
    /\ pc[t] = "readback"
    /\ reachable
    /\ view' = [view EXCEPT ![t] = [snap |-> Detail, at |-> changes]]
    /\ looksDue' = looksDue - 1
    /\ Goto(t, "assign")
    /\ UNCHANGED <<printerVars, objectVars, intentVars, queue, requests, lost, kills, attempt, reads, sends,
                   publishVars, lock, cmd>>

ReadBackFails(t) ==
    /\ Alive
    /\ pc[t] = "readback"
    /\ ~reachable
    /\ NextRead(t)
    /\ looksDue' = looksDue - 1
    /\ UNCHANGED <<printerVars, objectVars, intentVars, queue, requests, lost, kills, sends,
                   publishVars, lock, cmd, view>>

\* ... stored in the agent ...
Assign(t) ==
    /\ Alive
    /\ pc[t] = "assign"
    /\ snapshot' = view[t]
    /\ view' = [view EXCEPT ![t] = Nothing]
    /\ Goto(t, "judge")
    /\ UNCHANGED <<printerVars, failures, stateText, settingsSent, tracker, reported,
                   intentVars, commandVars, publishVars, lock, cmd>>

Confirms(c, s) ==
    CASE c = "pause"  -> IsPaused(s)
      [] c = "resume" -> HasJob(s) /\ ~IsPaused(s)
      [] OTHER        -> ~HasJob(s)

\* A thread about to look into the snapshot, where it may find that the poll
\* loop has put None since it last looked: an AttributeError.
Trips(t, label) ==
    /\ Alive
    /\ pc[t] = label
    /\ snapshot.snap = None
    /\ Raise(t)
    /\ UNCHANGED <<printerVars, objectVars, intentVars, queue, requests, lost, kills, publishVars, view>>

\* ... and judged there: confirmed ...
Judge(t) ==
    \/ Trips(t, "judge")
    \/ /\ Alive
       /\ pc[t] = "judge" /\ snapshot.snap # None
       /\ CASE Confirms(cmd[t], snapshot.snap)
                 -> Goto(t, "observe") /\ UNCHANGED <<attempt, reads>>
            [] ~Confirms(cmd[t], snapshot.snap) /\ cmd[t] = "cancel"
                 -> NextRead(t)
            [] OTHER
                 -> Goto(t, "over") /\ UNCHANGED <<attempt, reads>>
       /\ UNCHANGED <<printerVars, objectVars, intentVars, queue, requests, lost, kills, sends, looksDue,
                      publishVars, lock, cmd, view>>

\* ... or, looked at once more, "job-over": both end the command.
Over(t) ==
    \/ Trips(t, "over")
    \/ /\ Alive
       /\ pc[t] = "over" /\ snapshot.snap # None
       /\ IF HasJob(snapshot.snap)
          THEN NextRead(t)
          ELSE Goto(t, "observe") /\ UNCHANGED <<attempt, reads>>
       /\ UNCHANGED <<printerVars, objectVars, intentVars, queue, requests, lost, kills, sends, looksDue,
                      publishVars, lock, cmd, view>>

\* Not taken.  A pause may have been ignored in warm-up, if there is a snapshot
\* to tell it from ...
Verdict(t) ==
    /\ Alive
    /\ pc[t] = "verdict"
    /\ Goto(t, IF cmd[t] = "pause" /\ snapshot.snap # None THEN "defer" ELSE "report")
    /\ UNCHANGED <<printerVars, objectVars, intentVars, commandVars, publishVars, lock, cmd, view>>

\* ... which is read anew: in warm-up the pause becomes the pending intent ...
Defer(t) ==
    \/ Trips(t, "defer")
    \/ /\ Alive
       /\ pc[t] = "defer" /\ snapshot.snap # None
       /\ IF WarmingUp(snapshot.snap)
          THEN pending' = "pause" /\ revoked' = FALSE /\ Goto(t, "observe")
          ELSE UNCHANGED intentVars /\ Goto(t, "report")
       /\ UNCHANGED <<printerVars, objectVars, commandVars, publishVars, lock, cmd, view>>

\* ... anything else is reported to the user, with the state if there is one ...
Report(t) ==
    /\ Alive
    /\ pc[t] = "report"
    /\ Goto(t, IF snapshot.snap = None THEN "observe" ELSE "quote")
    /\ UNCHANGED <<printerVars, objectVars, intentVars, commandVars, publishVars, lock, cmd, view>>

\* ... read anew, too.
Quote(t) ==
    \/ Trips(t, "quote")
    \/ /\ Alive
       /\ pc[t] = "quote" /\ snapshot.snap # None
       /\ Goto(t, "observe")
       /\ UNCHANGED <<printerVars, objectVars, intentVars, commandVars, publishVars, lock, cmd, view>>

Release(t) ==
    /\ Alive
    /\ pc[t] = "release"
    /\ lock' = Free
    /\ attempt' = 0 /\ reads' = 0 /\ sends' = 0 /\ looksDue' = 0
    /\ cmd' = [cmd EXCEPT ![t] = NoCmd]
    /\ Goto(t, "idle")
    /\ UNCHANGED <<printerVars, objectVars, intentVars, queue, requests, lost, kills, publishVars, view>>
-----------------------------------------------------------------------------
Publish(t) == Observe(t) \/ Announce(t) \/ Heartbeat(t) \/ Build(t) \/ Enqueue(t)

Execute(t) ==
    \/ Acquire(t) \/ Check(t) \/ Accepted(t) \/ Refused(t) \/ ReplyLost(t) \/ NoSuchCommand(t)
    \/ ReadBack(t) \/ ReadBackFails(t) \/ Assign(t) \/ Judge(t) \/ Over(t)
    \/ Verdict(t) \/ Defer(t) \/ Report(t) \/ Quote(t) \/ Release(t)

\* What the code of each thread does next.
Run(t) ==
    \/ t = "main" /\ (Poll \/ TakeReply \/ PollFails \/ Fault \/ Service \/ Act)
    \/ t = "commands" /\ (TakeCommand \/ GiveUp)
    \/ Publish(t)
    \/ Execute(t)

World == PrinterNext /\ UNCHANGED <<objectVars, intentVars, commandVars, publishVars, threadVars>>

Next ==
    \/ World
    \/ \E c \in UserCommands : Request(c)
    \/ Kill
    \/ Restart
    \/ \E t \in Threads : Run(t)

\* Both threads keep running: every blocking call has a timeout.  A heartbeat
\* falls due every 30 s, and the agent polls at least every 5.  A dead process
\* is restarted.  The printer makes the progress it owes by itself.
PrinterProgress ==
    /\ Heat \/ Obey \/ Calibrated \/ ComeBack
    /\ UNCHANGED <<objectVars, intentVars, commandVars, publishVars, threadVars>>

Fairness ==
    /\ \A t \in Threads : WF_vars(Run(t))
    /\ SF_vars(Heartbeat("main"))
    /\ WF_vars(Restart)
    /\ WF_vars(PrinterProgress)

Spec == Init /\ [][Next]_vars
FairSpec == Spec /\ Fairness
-----------------------------------------------------------------------------
FlagsTypeOK ==
    /\ settingsSent \in BOOLEAN
    /\ revoked \in BOOLEAN

ObjectTypeOK ==
    /\ snapshot \in Views
    /\ failures \in 0..OfflineAfterFailures
    /\ stateText \in Texts
    /\ tracker \in Trackers
    /\ reported \subseteq Codes
    /\ pending \in Commands \cup {NoCmd}
    /\ queue \in Seq(Commands)
    /\ lock \in Threads \cup {Free}

CountersTypeOK ==
    /\ requests \in Nat /\ lost \in Nat /\ dropped \in Nat /\ kills \in Nat
    /\ attempt \in 0..MaxCommandAttempts /\ reads \in 0..ReadbackAttempts
    /\ clock \in Nat /\ seenAt \in Nat
    /\ sends \in Nat /\ looksDue \in Int

ThreadsTypeOK ==
    /\ pc \in [Threads -> Labels]
    /\ cmd \in [Threads -> Commands \cup {NoCmd}]
    /\ view \in [Threads -> Views]
    /\ events \in [Threads -> Batches]

MessagesTypeOK ==
    /\ message \in [Threads -> Messages]
    /\ told \in Statuses
    /\ story \in Stories

TypeOK == PrinterTypeOK /\ FlagsTypeOK /\ ObjectTypeOK /\ CountersTypeOK /\ ThreadsTypeOK /\ MessagesTypeOK

\* One command at a time: whoever is between the check and the publication of
\* a command holds the lock, so a deferred pause issued by the poll loop never
\* mixes with a command of the command thread (execute_command).
CommandsSerialised ==
    \A t \in Threads : pc[t] \in Executing => lock = t

\* The lock is held by a thread that is executing or publishing a command,
\* never by one that waits for a command, for a poll or for the lock itself,
\* which is not reentrant: no exception keeps it (execute_command).
LockHolderAtWork ==
    \A t \in Threads : lock = t => pc[t] \in Executing \cup Publishing \cup {"dead"}

\* Between the poll loop's test of the intent and the swap that takes it, the
\* intent is gone exactly if a resume or cancel has been executed since it was
\* deferred: nothing else ever makes the agent take None for a command
\* (_service_pending_command, execute_command).
GoneOnlyIfRevoked ==
    pc["main"] = "act" => (pending = NoCmd <=> revoked)

\* From the moment a resume or cancel starts executing until it is published,
\* no pause is pending, whatever the poll loop does meanwhile
\* (execute_command, _service_pending_command).
IntentStaysDropped ==
    \A t \in Threads : lock = t /\ cmd[t] \in {"resume", "cancel"} => pending = NoCmd

\* A command is given up, kept for later or reported as not taken, only after
\* it was sent as often as the user is told ("The printer was asked to pause 3
\* times") and every send the printer acknowledged was followed by all its
\* read-backs, whatever failed in between (_attempt_command, _read_back).
GivesUpOnlyAtTheEnd ==
    \A t \in Threads :
        pc[t] \in {"verdict", "defer", "report", "quote"} =>
            sends = MaxCommandAttempts /\ looksDue = 0

\* The deferred pause as the users know it (execute_command,
\* _service_pending_command): lock, threads and retries implement
\* DeferredPause.
Promise == INSTANCE DeferredPause WITH
    doing <- IF lock = Free THEN NoCmd ELSE cmd[lock],
    kept  <- pending
KeepsItsPromise == Promise!Spec

\* What is left of a command, the outermost loop first: the way through
\* execute_command, then the attempts or the messages to send, then the
\* read-backs of this attempt, then the way through one of them.
Stage(t) ==
    CASE pc[t] = "check"                                               -> 10
      [] pc[t] \in {"attempt", "readback", "assign", "judge", "over"}  -> 9
      [] pc[t] = "verdict"                                             -> 8
      [] pc[t] = "defer"                                               -> 7
      [] pc[t] = "report"                                              -> 6
      [] pc[t] = "quote"                                               -> 5
      [] pc[t] = "observe"                                             -> 4
      [] pc[t] = "announce"                                            -> 3
      [] pc[t] \in {"build", "enqueue"}                                -> 2
      [] pc[t] = "release"                                             -> 1
      [] OTHER                                                         -> 0

RoundsLeft(t) == IF Stage(t) = 2 THEN Len(events[t]) ELSE MaxCommandAttempts - attempt

ReadsLeft(t) == IF pc[t] = "attempt" THEN ReadbackAttempts + 1 ELSE ReadbackAttempts - reads

StepsLeft(t) ==
    CASE pc[t] = "readback"             -> 3
      [] pc[t] = "assign"               -> 2
      [] pc[t] \in {"judge", "build"}   -> 1
      [] OTHER                          -> 0

Nearer(t) ==
    \/ Stage(t)' < Stage(t)
    \/ /\ Stage(t)' = Stage(t)
       /\ \/ RoundsLeft(t)' < RoundsLeft(t)
          \/ RoundsLeft(t)' = RoundsLeft(t) /\ ReadsLeft(t)' < ReadsLeft(t)
          \/ /\ RoundsLeft(t)' = RoundsLeft(t) /\ ReadsLeft(t)' = ReadsLeft(t)
             /\ StepsLeft(t)' < StepsLeft(t)

\* Every step of a command brings its end nearer, whatever the printer answers
\* and the poll loop does meanwhile; so the nested loops of sends and read-backs
\* are bounded, and nobody else can put them back (_attempt_command, _read_back).
CommandAdvances ==
    \A t \in Threads :
        /\ lock = t /\ lock' = t
        /\ <<pc[t], attempt, reads, events[t]>>' # <<pc[t], attempt, reads, events[t]>>
        => Nearer(t)
CommandsAdvance == [][CommandAdvances]_vars

\* Snapshots reach the tracker in the order the printer gave them, as
\* "consecutive printer snapshots" (job_tracker.py) wants (Agent._publish).
ObservedInOrder == [][seenAt' >= seenAt]_vars

\* The messages tell of one print session at a time: under an id of its own,
\* newer than any before, and under that one alone until its end; started before
\* it is paused, resumed or ended, and ended once; across outages, jobs swapped
\* between two polls and restarts.  A session that is open when the process dies
\* is left without an end, but never continued: the next thing told is that
\* there is none, or the start of a newer one.  Nothing is said of the id an end
\* is told under (_publish, _send_status, JobTracker.observe).
ToldAsSessions ==
    story # Broken

\* Between two polls, what Obico was told last is what the agent believes
\* (_publish, _send_status).
ToldWhatItKnows ==
    pc["main"] = "idle" /\ settingsSent =>
        told.text = StatusText /\ told.ts = tracker.ts

\* A command taken off the queue is finished, one way or another, and the lock
\* given back (_drain_commands, execute_command).
CommandsFinish ==
    cmd["commands"] # NoCmd ~> pc["commands"] \in {"idle", "leaving", "gone"} /\ lock # "commands"

\* A pause is not pending for ever: it is dropped or issued once warm-up ends.
IntentSettles == pending = "pause" ~> pending = NoCmd

\* ... and it does what it was kept for: the printer pauses, or the job is
\* over, or the user has been told that the pause did not take.
DeferredPauseTakes ==
    pending = "pause" ~> \/ Detail.state = "paused" \/ ~HasJob(Detail)
                         \/ pc["main"] = "report"

\* However the threads raced and whatever message was lost, once the printer and
\* the people are quiet Obico is told the truth and keeps it (_publish and its
\* heartbeat).
EventuallyAccurate ==
    <>[](/\ HasJob(Detail) => tracker.file = printer.file /\ tracker.paused = IsPaused(Detail)
         /\ ~HasJob(Detail) => tracker = Fresh
         /\ told.text = StateText(Detail, told.text)
         /\ told.ts = tracker.ts)
-----------------------------------------------------------------------------
(***************************************************************************)
(* What a document, a comment or a test says of the program, and a run     *)
(* shows it not to do.                                                     *)
(***************************************************************************)

\* "a resume or cancel from the user drops that intent" (execute_command): a
\* pause deferred before the user resumed or cancelled is not sent after it.
RevokedPauseIsNotSent ==
    pc["main"] = "attempt" => ~revoked

\* A command is "Queued like an Obico command, so it gets the same retries,
\* read-back and warm-up deferral" (request_command): none stays on the queue.
CommandsAreTaken == queue # <<>> ~> queue = <<>>
=============================================================================
