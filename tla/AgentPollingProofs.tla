------------------------- MODULE AgentPollingProofs -------------------------
(***************************************************************************)
(* What Obico is told until the first command is sent or the first message *)
(* is lost, whatever the printer, the touchscreen and the network do and   *)
(* however often the agent is restarted.  Afterwards the two properties do *)
(* not hold: two publications may overlap.                                 *)
(*                                                                         *)
(* Only the poll loop runs then (Alone), and each of its steps leaves a    *)
(* known difference between the agent and what it has told: after the      *)
(* tracker has seen a snapshot, a batch of events that make up for the     *)
(* change of session (Owes); before the announcement, a text still to be   *)
(* renewed; between the two, a message that carries both (Knows).          *)
(***************************************************************************)
EXTENDS AgentProofs

Quiet == {"idle", "polled", "fault", "service"}

Alone ==
    /\ queue = <<>> /\ pending = NoCmd /\ lock = Free
    /\ pc["commands"] = "gone"
    /\ pc["main"] \in Quiet \cup Publishing \cup {"dead"}

Shaped(t) == (t.file = NoFile <=> t.ts = NoSession) /\ (t.file = NoFile => ~t.paused)

\* The reader knows the tracker's session, or that there is none to know of.
Matches(st, t) ==
    IF t.ts = NoSession THEN st.phase \in {"none", "left"}
    ELSE st = [phase |-> IF t.paused THEN "paused" ELSE "printing", ts |-> t.ts]

\* Told one message per event of `batch`, a reader who knows `st` will know
\* the session of the tracker.
Owes(batch, st, t) ==
    \/ batch = <<>> /\ Matches(st, t)
    \/ batch = <<"PrintStarted">> /\ st.phase \in {"none", "left"} /\ t.ts > st.ts
    \/ /\ batch = <<"PrintPaused">> /\ t.ts # NoSession /\ t.paused
       /\ st = [phase |-> "printing", ts |-> t.ts]
    \/ /\ batch = <<"PrintResumed">> /\ t.ts # NoSession /\ ~t.paused
       /\ st = [phase |-> "paused", ts |-> t.ts]
    \/ \E e \in EndEvents :
         /\ st.phase \in {"printing", "paused"}
         /\ \/ batch = <<e>> /\ t.ts = NoSession
            \/ batch = <<e, "PrintStarted">> /\ t.ts > st.ts

Starts(batch) == batch # <<>> /\ batch[Len(batch)] = "PrintStarted"

\* A job that is about to be told as started is told in its present state.
StartsAsSeen ==
    Starts(events["main"]) =>
        CASE pc["main"] = "announce" ->
               /\ snapshot.snap # None
               /\ HasJob(snapshot.snap) /\ tracker.paused = IsPaused(snapshot.snap)
          [] pc["main"] \in {"build", "enqueue"} -> stateText = "Paused" <=> tracker.paused
          [] OTHER -> TRUE

StoryFits ==
    /\ Shaped(tracker) /\ tracker.ts <= clock /\ story.ts <= clock
    /\ story.phase # "broken"
    /\ pc["main"] \in Quiet \cup {"observe"} => Matches(story, tracker)
    /\ pc["main"] \in {"announce", "build", "enqueue"} => Owes(events["main"], story, tracker)
    /\ StartsAsSeen

\* What was told last, at each step of the loop, against what the agent knows.
Knows ==
    /\ pc["main"] \in Quiet \cup {"build", "enqueue"} /\ snapshot.snap = None =>
           stateText = "Offline"
    /\ pc["main"] \in Quiet \cup {"observe"} /\ settingsSent =>
           told = [ts |-> tracker.ts, text |-> stateText]
    /\ pc["main"] = "announce" /\ settingsSent =>
           told.text = stateText /\ (events["main"] = <<>> => told.ts = tracker.ts)
    /\ pc["main"] = "enqueue" =>
           message["main"] = [event |-> FirstEvent(events["main"]), ts |-> tracker.ts, text |-> stateText]
-----------------------------------------------------------------------------
\* One observe() of a tracker in shape: the events it returns are exactly the
\* messages that make up for the change of session (JobTracker.observe).
LEMMA ObservedOwes ==
    ASSUME NEW t \in Trackers, NEW s \in Snapshots \cup {None}, NEW now \in Nat,
           NEW st \in Stories, Matches(st, t), Shaped(t), t.ts < now, st.ts < now
    PROVE  /\ Shaped(Observed(t, s, now)) /\ Observed(t, s, now).ts <= now
           /\ Owes(Emitted(t, s), st, Observed(t, s, now))
           /\ Emitted(t, s) = <<>> => Observed(t, s, now).ts = t.ts
           /\ Starts(Emitted(t, s)) =>
                s # None /\ HasJob(s) /\ Observed(t, s, now).paused = IsPaused(s)
<1>. DEFINE t2 == Observed(t, s, now)
            b == Emitted(t, s)
<1>. USE DEF NoSession
<1>t. t.ts \in Nat \cup {-1} /\ t.paused \in BOOLEAN /\ t.file \in Files \cup {NoFile} /\ st.ts \in Nat \cup {-1}
  BY DEF Trackers, Stories
<1>1. CASE b = <<>> /\ t2.ts = t.ts /\ t2.paused = t.paused /\ t2.file = t.file
  BY <1>1, <1>t DEF Shaped, Owes, Matches, Starts
<1>2. CASE ~Telling(s)
  BY <1>1, <1>2 DEF Observed, Emitted
<1>3. CASE Telling(s)
  <2>0. s \in Snapshots /\ s # None
    BY <1>3, TellingIsSnapshot DEF Telling
  <2>. t2 = TrackerAfter(t, s, now) /\ b = EventsOf(t, s)
    BY <1>3 DEF Observed, Emitted
  <2>e. EndEvent(t, s) \in EndEvents
    BY DEF EndEvent, EndEvents
  <2>1. CASE LosesJob(t, s) /\ HasJob(s)
    <3>1. t2 = Started(s, now) /\ b = <<EndEvent(t, s), "PrintStarted">>
      BY <2>1 DEF TrackerAfter, EventsOf
    <3>2. t2.ts = now /\ t2.paused = IsPaused(s) /\ t2.file = s.file /\ s.file # NoFile
      BY <3>1, <2>1 DEF Started, HasJob
    <3>3. st.phase \in {"printing", "paused"}
      BY <2>1 DEF Matches, Shaped, LosesJob
    <3>4. Owes(b, st, t2)
      BY <3>1, <3>2, <3>3, <2>e, <1>t DEF Owes
    <3>. QED
      BY <3>1, <3>2, <3>4, <2>0, <2>1 DEF Shaped
  <2>2. CASE LosesJob(t, s) /\ ~HasJob(s)
    <3>1. t2 = Fresh /\ b = <<EndEvent(t, s)>>
      BY <2>2 DEF TrackerAfter, EventsOf
    <3>2. t2.ts = NoSession /\ ~t2.paused /\ t2.file = NoFile
      BY <3>1 DEF Fresh
    <3>3. st.phase \in {"printing", "paused"}
      BY <2>2 DEF Matches, Shaped, LosesJob
    <3>4. Owes(b, st, t2)
      BY <3>1, <3>2, <3>3, <2>e DEF Owes
    <3>5. ~Starts(b)
      BY <3>1, <2>e DEF Starts, EndEvents
    <3>. QED
      BY <3>1, <3>2, <3>4, <3>5 DEF Shaped
  <2>3. CASE ~LosesJob(t, s) /\ HasJob(s) /\ t.file = NoFile
    <3>1. t2 = Started(s, now) /\ b = <<"PrintStarted">>
      BY <2>3 DEF TrackerAfter, EventsOf
    <3>2. t2.ts = now /\ t2.paused = IsPaused(s) /\ t2.file = s.file /\ s.file # NoFile
      BY <3>1, <2>3 DEF Started, HasJob
    <3>3. st.phase \in {"none", "left"}
      BY <2>3 DEF Matches, Shaped
    <3>4. Owes(b, st, t2)
      BY <3>1, <3>2, <3>3, <1>t DEF Owes
    <3>. QED
      BY <3>1, <3>2, <3>4, <2>0, <2>3 DEF Shaped
  <2>4. CASE ~LosesJob(t, s) /\ HasJob(s) /\ t.file # NoFile
    <3>1. t2 = Continued(t, s) /\ b = PauseEvents(t, s)
      BY <2>4 DEF TrackerAfter, EventsOf
    <3>2. t2.ts = t.ts /\ t2.paused = IsPaused(s) /\ t2.file = t.file
      BY <3>1 DEF Continued, Trackers
    <3>3. t.ts # NoSession /\ t2.paused \in BOOLEAN
      BY <2>4, <3>2 DEF Shaped, IsPaused
    <3>4. CASE t2.paused = t.paused
      BY <1>1, <3>1, <3>2, <3>4 DEF PauseEvents
    <3>5. CASE t2.paused /\ ~t.paused
      <4>1. b = <<"PrintPaused">>
        BY <3>1, <3>2, <3>5, <1>t DEF PauseEvents
      <4>. QED
        BY <4>1, <3>2, <3>3, <3>5, <1>t DEF Owes, Matches, Shaped, Starts
    <3>6. CASE ~t2.paused /\ t.paused
      <4>1. b = <<"PrintResumed">>
        BY <3>1, <3>2, <3>6, <1>t DEF PauseEvents
      <4>. QED
        BY <4>1, <3>2, <3>3, <3>6, <1>t DEF Owes, Matches, Shaped, Starts
    <3>. QED
      BY <3>3, <3>4, <3>5, <3>6, <1>t
  <2>5. CASE ~LosesJob(t, s) /\ ~HasJob(s)
    <3>1. t2 = t /\ b = <<>>
      BY <2>5 DEF TrackerAfter, EventsOf
    <3>. QED
      BY <1>1, <3>1
  <2>. QED
    BY <2>1, <2>2, <2>3, <2>4, <2>5
<1>. QED
  BY <1>2, <1>3

\* Telling the first event of a batch pays that part of what is owed
\* (Agent._send_status).
LEMMA TellingPays ==
    ASSUME TypeOK, NEW batch \in Batches, Owes(batch, story, tracker),
           NEW m, m.event = FirstEvent(batch), m.ts = tracker.ts,
           Starts(batch) => (m.text = "Paused" <=> tracker.paused)
    PROVE  Owes(Rest(batch), StoryAfter(m), tracker)
<1>t. /\ tracker.ts \in Nat \cup {NoSession} /\ tracker.paused \in BOOLEAN /\ story \in Stories
      /\ story = [phase |-> story.phase, ts |-> story.ts]
  BY DEF TypeOK, ObjectTypeOK, MessagesTypeOK, Trackers, Stories
<1>1. CASE batch = <<>> /\ Matches(story, tracker)
  <2>1. m.event = NoEvent /\ Rest(batch) = <<>>
    BY <1>1 DEF FirstEvent, Rest
  <2>2. CASE tracker.ts = NoSession
    <3>1. story.phase \in {"none", "left"} /\ m.ts = NoSession
      BY <1>1, <2>2 DEF Matches
    <3>2. StoryAfter(m) = [story EXCEPT !.phase = "none"]
      BY <2>1, <3>1 DEF StoryAfter, NoEvent, EndEvents
    <3>3. Matches(StoryAfter(m), tracker)
      BY <1>t, <2>2, <3>2 DEF Matches
    <3>. QED
      BY <2>1, <3>3 DEF Owes
  <2>3. CASE tracker.ts # NoSession
    <3>1. story.phase \in {"printing", "paused"} /\ m.ts = story.ts
      BY <1>1, <2>3 DEF Matches
    <3>2. StoryAfter(m) = story
      BY <2>1, <3>1 DEF StoryAfter, NoEvent, EndEvents
    <3>. QED
      BY <1>1, <2>1, <3>2 DEF Owes
  <2>. QED
    BY <2>2, <2>3
<1>2. CASE batch = <<"PrintStarted">> /\ story.phase \in {"none", "left"} /\ tracker.ts > story.ts
  <2>1. m.event = "PrintStarted" /\ Rest(batch) = <<>>
    BY <1>2 DEF FirstEvent, Rest
  <2>2. StoryAfter(m) = [phase |-> IF m.text = "Paused" THEN "paused" ELSE "printing", ts |-> m.ts]
    <3>1. m.event # NoEvent /\ m.ts > story.ts
      BY <1>2, <2>1 DEF NoEvent
    <3>. QED
      BY <1>2, <2>1, <3>1, Zenon DEF StoryAfter
  <2>3. m.text = "Paused" <=> tracker.paused
    BY <1>2 DEF Starts
  <2>4. tracker.ts # NoSession
    BY <1>2, <1>t DEF NoSession, Stories
  <2>5. Matches(StoryAfter(m), tracker)
    BY <2>2, <2>3, <2>4 DEF Matches
  <2>. QED
    BY <2>1, <2>5 DEF Owes
<1>3. CASE batch = <<"PrintPaused">> /\ tracker.ts # NoSession /\ tracker.paused
           /\ story = [phase |-> "printing", ts |-> tracker.ts]
  <2>1. m.event = "PrintPaused" /\ Rest(batch) = <<>>
    BY <1>3 DEF FirstEvent, Rest
  <2>2. StoryAfter(m) = [phase |-> "paused", ts |-> tracker.ts]
    BY <1>3, <2>1 DEF StoryAfter, NoEvent, EndEvents
  <2>. QED
    BY <1>3, <2>1, <2>2 DEF Owes, Matches
<1>4. CASE batch = <<"PrintResumed">> /\ tracker.ts # NoSession /\ ~tracker.paused
           /\ story = [phase |-> "paused", ts |-> tracker.ts]
  <2>1. m.event = "PrintResumed" /\ Rest(batch) = <<>>
    BY <1>4 DEF FirstEvent, Rest
  <2>2. StoryAfter(m) = [phase |-> "printing", ts |-> tracker.ts]
    BY <1>4, <2>1 DEF StoryAfter, NoEvent, EndEvents
  <2>. QED
    BY <1>4, <2>1, <2>2 DEF Owes, Matches
<1>5. ASSUME NEW e \in EndEvents,
             story.phase \in {"printing", "paused"},
             \/ batch = <<e>> /\ tracker.ts = NoSession
             \/ batch = <<e, "PrintStarted">> /\ tracker.ts > story.ts
      PROVE  Owes(Rest(batch), StoryAfter(m), tracker)
  <2>1. m.event = e
    <3>1. batch = <<e>> \/ batch = <<e, "PrintStarted">>
      BY <1>5
    <3>. QED
      BY <3>1 DEF FirstEvent
  <2>2. StoryAfter(m) = [phase |-> "none", ts |-> story.ts]
    BY <1>5, <1>t, <2>1 DEF StoryAfter, NoEvent, EndEvents
  <2>3. CASE batch = <<e>> /\ tracker.ts = NoSession
    <3>1. Rest(batch) = <<>>
      BY <2>3 DEF Rest
    <3>. QED
      BY <2>2, <2>3, <3>1 DEF Owes, Matches
  <2>4. CASE batch = <<e, "PrintStarted">> /\ tracker.ts > story.ts
    <3>1. Rest(batch) = <<"PrintStarted">>
      BY <2>4 DEF Rest
    <3>. QED
      BY <2>2, <2>4, <3>1 DEF Owes
  <2>. QED
    BY <1>5, <2>3, <2>4
<1>. QED
  BY <1>1, <1>2, <1>3, <1>4, <1>5 DEF Owes

\* No message tells of a session that has not begun (Agent._send_status).
LEMMA StoryWithinClock ==
    ASSUME TypeOK, NEW m, m.ts \in Nat \cup {NoSession}, m.ts <= clock, story.ts <= clock
    PROVE  StoryAfter(m).ts <= clock
BY DEF StoryAfter, Broken, NoSession, TypeOK, MessagesTypeOK, CountersTypeOK, Stories

\* The steps of an agent nobody sends commands to: those of the printer, of the
\* deployment and of the poll loop.
PollLoop ==
    \/ Poll \/ TakeReply \/ PollFails \/ Fault \/ Service
    \/ Observe("main") \/ Announce("main") \/ Heartbeat("main") \/ Build("main") \/ Enqueue("main")

\* ... and they keep to themselves (Agent.run).
LEMMA AloneStep ==
    ASSUME TypeOK, Alone, requests' = 0, Next
    PROVE  /\ World \/ Kill \/ Restart \/ PollLoop
           /\ Alone'
<1>. USE DEF Alone, Quiet, Publishing
<1>1. World \/ Kill \/ Restart \/ PollLoop
  <2>1. ASSUME Run("main") PROVE PollLoop
    BY <2>1 DEF Run, PollLoop, Act, Publish, Execute, Acquire, Check, Accepted, Refused, ReplyLost,
       NoSuchCommand, ReadBack, ReadBackFails, Assign, Judge, Over, Trips, Verdict, Defer, Report, Quote, Release
  <2>2. ASSUME Run("commands") PROVE FALSE
    BY <2>2 DEF Run, TakeCommand, GiveUp, Publish, Observe, Announce, Heartbeat, Build, Enqueue,
       Execute, Acquire, Check, Accepted, Refused, ReplyLost,
       NoSuchCommand, ReadBack, ReadBackFails, Assign, Judge, Over, Trips, Verdict, Defer, Report, Quote, Release
  <2>3. ASSUME NEW c \in UserCommands, Request(c) PROVE FALSE
    BY <2>3 DEF Request, TypeOK, CountersTypeOK
  <2>. QED
    BY <2>1, <2>2, <2>3 DEF Next, Threads
<1>. USE DEF TypeOK, ThreadsTypeOK, Threads, Goto, Free
<1>2. ASSUME World PROVE Alone'
  BY <1>2 DEF World, intentVars, commandVars, threadVars
<1>3. ASSUME Kill PROVE Alone'
  BY <1>3 DEF Kill, intentVars
<1>4. ASSUME Restart PROVE Alone'
  BY <1>4 DEF Restart, PcInit
<1>5. ASSUME Poll \/ TakeReply \/ PollFails \/ Fault \/ Service
      PROVE  Alone'
  BY <1>5 DEF Poll, TakeReply, PollFails, Fault, Service, NothingToService, intentVars, commandVars
<1>6. ASSUME Observe("main") \/ Announce("main") \/ Heartbeat("main") \/ Build("main") \/ Enqueue("main")
      PROVE  Alone'
  BY <1>6 DEF Observe, Announce, Heartbeat, Build, Enqueue, AfterPublish, intentVars, commandVars
<1>. QED
  BY <1>1, <1>2, <1>3, <1>4, <1>5, <1>6 DEF PollLoop

\* What the texts say of a snapshot (obico_state_text).
LEMMA TextTells ==
    ASSUME NEW s, NEW previous
    PROVE  /\ s = None => StateText(s, previous) = "Offline"
           /\ s # None /\ HasJob(s) => (StateText(s, previous) = "Paused" <=> IsPaused(s))
BY DEF StateText

tellingVars == <<snapshot, stateText, settingsSent, tracker, told, story, events, message, clock>>

Tells == StoryFits /\ Knows

\* The poll loop tells what it has seen, step by step (_publish, _send_status).
LEMMA TellsStep ==
    ASSUME requests' = 0, dropped' = 0, TypeOK, Alone, Tells, Next
    PROVE  Tells'
<1>. USE DEF Tells, Quiet
<1>t. /\ tracker \in Trackers /\ snapshot.snap \in Snapshots \cup {None} /\ clock \in Nat
      /\ events["main"] \in Batches /\ lock = Free
      /\ pc \in [Threads -> Labels] /\ "main" \in Threads
  BY DEF TypeOK, ObjectTypeOK, CountersTypeOK, ThreadsTypeOK, Views, Threads, Alone
<1>g. ASSUME NEW l, Goto("main", l) PROVE pc'["main"] = l
  BY <1>g, <1>t DEF Goto
<1>0. World \/ Kill \/ Restart \/ PollLoop
  BY AloneStep
<1>1. CASE UNCHANGED tellingVars /\ pc'["main"] = pc["main"]
  BY <1>1 DEF tellingVars, StoryFits, Knows, StartsAsSeen
<1>2. CASE UNCHANGED tellingVars /\ pc["main"] \in {"idle", "polled", "fault", "service"}
           /\ pc'["main"] \in {"idle", "polled", "fault", "service"}
  BY <1>2 DEF tellingVars, StoryFits, Knows, StartsAsSeen
<1>3. CASE UNCHANGED tellingVars /\ pc'["main"] = "dead"
  BY <1>3 DEF tellingVars, StoryFits, Knows, StartsAsSeen, Publishing
<1>4. CASE World
  BY <1>4, <1>1 DEF World, tellingVars, objectVars, publishVars, threadVars
<1>5. CASE Kill
  BY <1>5, <1>3, <1>g DEF Kill, tellingVars, objectVars, publishVars
<1>6. CASE Restart
  <2>1. /\ snapshot'.snap = None /\ stateText' = "Offline" /\ settingsSent' = FALSE
        /\ tracker' = Fresh /\ story' = StoryLeft /\ clock' = clock /\ pc'["main"] = "idle"
    BY <1>6 DEF Restart, PcInit, Nothing, Threads
  <2>2. StoryLeft.phase \in {"none", "left"} /\ StoryLeft.ts = story.ts
    BY DEF StoryLeft, StoryFits, TypeOK, MessagesTypeOK, Stories
  <2>. QED
    BY <2>1, <2>2, <1>t DEF StoryFits, Knows, StartsAsSeen, Fresh, Shaped, Matches, NoSession
<1>7. CASE Poll \/ Fault \/ Service
  <2>1. UNCHANGED tellingVars
    BY <1>7 DEF Poll, Fault, Service, tellingVars, objectVars, publishVars
  <2>2. pc["main"] \in {"idle", "fault", "service"} /\ pc'["main"] \in {"idle", "polled", "service"}
    BY <1>7, <1>g DEF Poll, Fault, Service, NothingToService, Alone
  <2>. QED
    BY <2>1, <2>2, <1>2
<1>8. CASE TakeReply
  <2>1. /\ UNCHANGED <<stateText, settingsSent, tracker, told, story, events, message, clock>>
        /\ pc["main"] = "polled" /\ pc'["main"] = "observe"
    BY <1>8, <1>g DEF TakeReply, publishVars
  <2>. QED
    BY <2>1 DEF StoryFits, Knows, StartsAsSeen
<1>9. CASE PollFails
  <2>1. /\ UNCHANGED <<stateText, settingsSent, tracker, told, story, events, message, clock>>
        /\ pc["main"] = "idle"
        /\ pc'["main"] = "observe" \/ UNCHANGED <<snapshot, pc>>
    BY <1>9, <1>g DEF PollFails, publishVars
  <2>. QED
    BY <2>1 DEF StoryFits, Knows, StartsAsSeen
<1>10. CASE Observe("main")
  <2>1. /\ UNCHANGED <<snapshot, stateText, settingsSent, told, story, message>>
        /\ events'["main"] = Emitted(tracker, snapshot.snap)
        /\ tracker' = Observed(tracker, snapshot.snap, clock + 1)
        /\ clock' = IF tracker'.ts = clock + 1 THEN clock + 1 ELSE clock
        /\ pc["main"] = "observe" /\ pc'["main"] = "announce"
    BY <1>10, <1>g, <1>t DEF Observe, TypeOK, ThreadsTypeOK
  <2>2. /\ tracker.ts < clock + 1 /\ Shaped(tracker) /\ Matches(story, tracker)
        /\ story \in Stories /\ story.ts < clock + 1
    BY <2>1, <1>t DEF StoryFits, Trackers, Stories, NoSession, TypeOK, MessagesTypeOK
  <2>3. tracker' \in Trackers
    <3>1. clock + 1 \in Nat
      BY <1>t
    <3>. QED
      BY <2>1, <3>1, <1>t, ObservedType
  <2>4. /\ Shaped(tracker') /\ tracker'.ts <= clock + 1
        /\ Owes(events'["main"], story', tracker')
        /\ events'["main"] = <<>> => tracker'.ts = tracker.ts
        /\ Starts(events'["main"]) =>
             snapshot.snap # None /\ HasJob(snapshot.snap) /\ tracker'.paused = IsPaused(snapshot.snap)
    BY <2>1, <2>2, <1>t, ObservedOwes
  <2>5. tracker'.ts <= clock'
    BY <2>1, <2>3, <2>4, <1>t DEF Trackers, NoSession
  <2>a. story'.ts <= clock'
    BY <2>1, <2>2, <1>t DEF StoryFits, Stories, NoSession
  <2>6. StoryFits'
    BY <2>1, <2>4, <2>5, <2>a DEF StoryFits, StartsAsSeen
  <2>7. Knows'
    BY <2>1, <2>4 DEF Knows
  <2>. QED
    BY <2>6, <2>7
<1>11. CASE Announce("main") \/ Heartbeat("main")
  <2>1. /\ UNCHANGED <<snapshot, settingsSent, tracker, told, story, events, message, clock>>
        /\ stateText' = StateText(snapshot.snap, stateText)
        /\ pc["main"] = "announce"
        /\ \/ pc'["main"] = "build"
           \/ /\ pc'["main"] = "fault" /\ stateText' = stateText
              /\ events["main"] = <<>> /\ settingsSent
    BY <1>11, <1>g, <1>t DEF Announce, Heartbeat, AfterPublish, Changed, NewText, publishVars, Free
  <2>2. snapshot.snap = None => stateText' = "Offline"
    BY <2>1, TextTells
  <2>3. Starts(events["main"]) => (stateText' = "Paused" <=> tracker.paused)
    BY <2>1, TextTells DEF StoryFits, StartsAsSeen
  <2>4. events["main"] = <<>> => Matches(story, tracker)
    BY <2>1 DEF StoryFits, Owes
  <2>5. StoryFits'
    BY <2>1, <2>3, <2>4 DEF StoryFits, StartsAsSeen
  <2>6. told = [ts |-> told.ts, text |-> told.text]
    BY DEF TypeOK, MessagesTypeOK, Statuses
  <2>7. Knows'
    BY <2>1, <2>2, <2>6 DEF Knows
  <2>. QED
    BY <2>5, <2>7
<1>12. CASE Build("main")
  <2>1. /\ UNCHANGED <<snapshot, stateText, settingsSent, tracker, told, story, events, clock>>
        /\ message'["main"] = [event |-> FirstEvent(events["main"]), ts |-> tracker.ts, text |-> StatusText]
        /\ pc["main"] = "build" /\ pc'["main"] = "enqueue"
    BY <1>12, <1>g, <1>t DEF Build, objectVars, TypeOK, MessagesTypeOK
  <2>2. StatusText = stateText
    BY <2>1 DEF Knows, StatusText
  <2>3. StoryFits'
    BY <2>1 DEF StoryFits, StartsAsSeen
  <2>4. Knows'
    BY <2>1, <2>2 DEF Knows
  <2>. QED
    BY <2>3, <2>4
<1>13. CASE Enqueue("main")
  <2>. DEFINE m == message["main"]
  <2>1. /\ UNCHANGED <<snapshot, stateText, tracker, clock>>
        /\ settingsSent' /\ events'["main"] = Rest(events["main"])
        /\ Heard(m)
        /\ pc["main"] = "enqueue"
        /\ pc'["main"] = IF Rest(events["main"]) # <<>> THEN "build" ELSE "fault"
    <3>1. ~NotHeard
      BY DEF NotHeard, TypeOK, CountersTypeOK
    <3>. QED
      BY <3>1, <1>13, <1>g, <1>t DEF Enqueue, AfterPublish, TypeOK, ThreadsTypeOK, Free
  <2>2. m.event = FirstEvent(events["main"]) /\ m.ts = tracker.ts /\ m.text = stateText
    BY <2>1 DEF Knows
  <2>3. Starts(events["main"]) => (m.text = "Paused" <=> tracker.paused)
    BY <2>1, <2>2 DEF StoryFits, StartsAsSeen
  <2>4. Owes(events'["main"], story', tracker')
    <3>1. Owes(events["main"], story, tracker)
      BY <2>1 DEF StoryFits
    <3>. QED
      BY <2>1, <2>2, <2>3, <3>1, <1>t, TellingPays DEF Heard
  <2>5. events'["main"] = <<>> => Matches(story', tracker')
    BY <2>4 DEF Owes
  <2>6. Starts(events'["main"]) => (stateText' = "Paused" <=> tracker'.paused)
    <3>1. events'["main"] # <<>> => Starts(events["main"])
      BY <2>1, <1>t DEF Rest, Batches, Starts
    <3>. QED
      BY <2>1, <2>2, <2>3, <3>1 DEF Starts
  <2>a. story'.phase # "broken"
    BY <2>4 DEF Owes, Matches
  <2>b. story'.ts <= clock'
    <3>1. tracker.ts \in Nat \cup {NoSession}
      BY <1>t DEF Trackers
    <3>. QED
      BY <2>1, <2>2, <3>1, StoryWithinClock DEF Heard, StoryFits
  <2>7. StoryFits'
    BY <2>1, <2>4, <2>5, <2>6, <2>a, <2>b DEF StoryFits, StartsAsSeen
  <2>8. told' = [ts |-> tracker.ts, text |-> stateText]
    BY <2>1, <2>2 DEF Heard, StatusOf
  <2>9. Knows'
    BY <2>1, <2>8 DEF Knows
  <2>. QED
    BY <2>7, <2>9
<1>. QED
  BY <1>0, <1>4, <1>5, <1>6, <1>7, <1>8, <1>9, <1>10, <1>11, <1>12, <1>13 DEF PollLoop

Undisturbed == requests = 0 /\ dropped = 0

\* Once disturbed, always disturbed: both counters only grow.
LEMMA UndisturbedBefore ==
    ASSUME TypeOK, [Next]_vars, Undisturbed'
    PROVE  Undisturbed
<1>. USE DEF TypeOK, CountersTypeOK
<1>1. requests' = requests \/ requests' = requests + 1
  BY DEF vars, Next, World, Request, Kill, Restart, commandVars,
     Run, Poll, TakeReply, PollFails, Fault, Service, Act, TakeCommand, GiveUp,
     Publish, Observe, Announce, Heartbeat, Build, Enqueue,
     Execute, Acquire, Check, Accepted, Refused, ReplyLost, NoSuchCommand, ReadBack, ReadBackFails, Assign,
     Judge, Over, Trips, Verdict, Defer, Report, Quote, Release
<1>2. dropped' = dropped \/ dropped' = dropped + 1
  BY DEF vars, Next, World, Request, Kill, Restart, publishVars, Heard, NotHeard,
     Run, Poll, TakeReply, PollFails, Fault, Service, Act, TakeCommand, GiveUp,
     Publish, Observe, Announce, Heartbeat, Build, Enqueue,
     Execute, Acquire, Check, Accepted, Refused, ReplyLost, NoSuchCommand, ReadBack, ReadBackFails, Assign,
     Judge, Over, Trips, Verdict, Defer, Report, Quote, Release
<1>. QED
  BY <1>1, <1>2 DEF Undisturbed

\* The inductive invariant.
LEMMA TellsInvariant == Spec => [](Undisturbed => Alone /\ Tells)
<1>1. Init => Alone /\ Tells
  <2>. SUFFICES ASSUME Init PROVE Alone /\ Tells
    OBVIOUS
  <2>1. pc["main"] = "idle" /\ pc["commands"] = "gone"
    BY DEF Init, PcInit, Threads
  <2>. QED
    BY <2>1 DEF Init, Alone, Tells, Quiet, StoryFits, StartsAsSeen, Knows, Nothing,
       Fresh, Shaped, Matches, NoStory, NoSession
<1>2. TypeOK /\ (Undisturbed => Alone /\ Tells) /\ [Next]_vars => (Undisturbed => Alone /\ Tells)'
  <2>. SUFFICES ASSUME TypeOK, Undisturbed => Alone /\ Tells, [Next]_vars, Undisturbed'
                PROVE  (Alone /\ Tells)'
    OBVIOUS
  <2>1. Alone /\ Tells
    BY UndisturbedBefore
  <2>2. ASSUME Next PROVE (Alone /\ Tells)'
    BY <2>1, <2>2, AloneStep, TellsStep DEF Undisturbed
  <2>3. ASSUME UNCHANGED vars PROVE (Alone /\ Tells)'
    BY <2>1, <2>3 DEF Alone, Tells, StoryFits, StartsAsSeen, Knows, vars, objectVars, intentVars, commandVars,
       publishVars, threadVars
  <2>. QED
    BY <2>2, <2>3
<1>. QED
  BY <1>1, <1>2, TypeCorrect, PTL DEF Spec

\* Until somebody sends a command or a message is lost, what Obico was told last
\* is what the agent believes, for every printer, outage and restart
\* (ToldWhatItKnows).
THEOREM ToldWhatItKnowsCorrect ==
    Spec => [](requests = 0 /\ dropped = 0 => ToldWhatItKnows)
<1>1. Tells => ToldWhatItKnows
  BY DEF Tells, Knows, ToldWhatItKnows, StatusText, Quiet
<1>. QED
  BY <1>1, TellsInvariant, PTL DEF Undisturbed

\* ... and its messages tell of one print session at a time (ToldAsSessions).
THEOREM ToldAsSessionsCorrect ==
    Spec => [](requests = 0 /\ dropped = 0 => ToldAsSessions)
<1>1. Tells => ToldAsSessions
  BY DEF Tells, StoryFits, ToldAsSessions, Broken
<1>. QED
  BY <1>1, TellsInvariant, PTL DEF Undisturbed
=============================================================================
