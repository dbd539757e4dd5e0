---------------------------- MODULE AgentProofs ----------------------------
EXTENDS Agent, TrackingProofs, PrinterProofs

\* What is left of a batch is a batch (Agent._publish).
LEMMA RestType ==
    ASSUME NEW batch \in Batches
    PROVE  Rest(batch) \in Batches
<1>1. CASE batch = <<>>
  BY <1>1 DEF Rest, Batches
<1>2. CASE \E e \in Events : batch = <<e>>
  <2>1. PICK e \in Events : batch = <<e>>
    BY <1>2
  <2>2. Tail(batch) = <<>>
    BY <2>1
  <2>. QED
    BY <2>1, <2>2 DEF Rest, Batches
<1>3. CASE \E e \in EndEvents : batch = <<e, "PrintStarted">>
  <2>1. PICK e \in EndEvents : batch = <<e, "PrintStarted">>
    BY <1>3
  <2>2. Tail(batch) = <<"PrintStarted">>
    BY <2>1
  <2>. QED
    BY <2>1, <2>2 DEF Rest, Batches, Events
<1>. QED
  BY <1>1, <1>2, <1>3 DEF Batches

\* ... and its first event is an event (Agent._publish).
LEMMA FirstEventType ==
    ASSUME NEW batch \in Batches
    PROVE  FirstEvent(batch) \in Events \cup {NoEvent}
BY DEF FirstEvent, Batches, Events, EndEvents

\* The state text is one Obico knows (obico_state_text).
LEMMA StateTextType ==
    ASSUME NEW s, NEW previous \in Texts
    PROVE  StateText(s, previous) \in Texts
BY DEF StateText, Texts
-----------------------------------------------------------------------------
\* The agent's actions keep the types.  The printer moves in World and when a
\* command reaches it, the flags in a handful of steps.
LEMMA PrinterPart ==
    ASSUME TypeOK, Next
    PROVE  PrinterTypeOK'
<1>1. CASE World
  BY <1>1, PrinterType DEF World, TypeOK
<1>2. ASSUME NEW t \in Threads, Accepted(t) \/ ReplyLost(t)
      PROVE  PrinterTypeOK'
  <2>1. owed' \in Commands \cup {NoCmd}
    BY <1>2 DEF Accepted, ReplyLost, Acknowledge, TypeOK, PrinterTypeOK, ThreadsTypeOK
  <2>2. UNCHANGED <<printer, reachable, changes>>
    BY <1>2 DEF Accepted, ReplyLost, Acknowledge
  <2>. QED
    BY <2>1, <2>2, Zenon DEF TypeOK, PrinterTypeOK
<1>3. CASE UNCHANGED printerVars
  BY <1>3, Zenon DEF printerVars, TypeOK, PrinterTypeOK
<1>4. (\E c \in UserCommands : Request(c)) \/ Kill \/ Restart => UNCHANGED printerVars
  BY DEF Request, Kill, Restart
<1>5. ASSUME NEW t \in Threads, Run(t), ~Accepted(t), ~ReplyLost(t)
      PROVE  UNCHANGED printerVars
  BY <1>5 DEF Run, Poll, TakeReply, PollFails, Fault, Service, Act, TakeCommand, GiveUp,
      Publish, Observe, Announce, Heartbeat, Build, Enqueue,
      Execute, Acquire, Check, Refused, NoSuchCommand, ReadBack, ReadBackFails, Assign,
      Judge, Over, Trips, Verdict, Defer, Report, Quote, Release
<1>. QED
  BY <1>1, <1>2, <1>3, <1>4, <1>5 DEF Next

\* ... the flags change in a few steps, to TRUE, FALSE or a disjunction.
LEMMA FlagsPart ==
    ASSUME TypeOK, Next
    PROVE  FlagsTypeOK'
<1>1. settingsSent' \in BOOLEAN
  <2>1. settingsSent' = TRUE \/ settingsSent' = FALSE \/ settingsSent' = settingsSent
    BY DEF Next, World, Request, Kill, Restart, objectVars,
      Run, Poll, TakeReply, PollFails, Fault, Service, Act, TakeCommand, GiveUp,
      Publish, Observe, Announce, Heartbeat, Build, Enqueue,
      Execute, Acquire, Check, Accepted, Refused, ReplyLost, NoSuchCommand, ReadBack, ReadBackFails, Assign,
      Judge, Over, Trips, Verdict, Defer, Report, Quote, Release
  <2>. QED
    BY <2>1, Zenon DEF TypeOK, FlagsTypeOK
<1>2. revoked' \in BOOLEAN
  <2>1. CASE UNCHANGED revoked \/ revoked' = FALSE
    BY <2>1, Zenon DEF TypeOK, FlagsTypeOK
  <2>2. ASSUME NEW t \in Threads, Acquire(t)
        PROVE  revoked' \in BOOLEAN
    BY <2>2, Zenon DEF Acquire
  <2>3. ASSUME NEW t \in Threads, Defer(t)
        PROVE  UNCHANGED revoked \/ revoked' = FALSE
    BY <2>3 DEF Defer, Trips, intentVars
  <2>4. (\E t \in Threads : Acquire(t) \/ Defer(t)) \/ UNCHANGED revoked \/ revoked' = FALSE
    BY DEF Next, World, Request, Kill, Restart, intentVars,
      Run, Poll, TakeReply, PollFails, Fault, Service, Act, TakeCommand, GiveUp,
      Publish, Observe, Announce, Heartbeat, Build, Enqueue,
      Execute, Check, Accepted, Refused, ReplyLost, NoSuchCommand, ReadBack, ReadBackFails, Assign,
      Judge, Over, Trips, Verdict, Report, Quote, Release
  <2>. QED
    BY <2>1, <2>2, <2>3, <2>4
<1>. QED
  BY <1>1, <1>2 DEF FlagsTypeOK

\* ... the Agent object ...
LEMMA ObjectPart ==
    ASSUME TypeOK, Next
    PROVE  ObjectTypeOK'
<1>. USE DEF TypeOK, ObjectTypeOK
<1>1. CASE World
  BY <1>1 DEF World, objectVars, intentVars, commandVars, threadVars
<1>2. ASSUME NEW c \in UserCommands, Request(c)
      PROVE  ObjectTypeOK'
  <2>1. queue' \in Seq(Commands)
    BY <1>2, AgentAssumption DEF Request
  <2>. QED
    BY <1>2, <2>1 DEF Request, objectVars, intentVars
<1>3. CASE Kill
  BY <1>3 DEF Kill, objectVars, intentVars
<1>4. CASE Restart
  <2>1. Fresh \in Trackers /\ Nothing \in Views
    BY DEF Fresh, Trackers, NoSession, Nothing, Views
  <2>. QED
    BY <1>4, <2>1, AgentAssumption DEF Restart, Texts
<1>5. CASE TakeReply \/ PollFails
  <2>1. CASE TakeReply
    <3>1. view["main"] \in Views
      BY DEF ThreadsTypeOK, Threads
    <3>. QED
      BY <2>1, <3>1, AgentAssumption DEF TakeReply, intentVars, commandVars
  <2>2. CASE PollFails
    <3>1. failures' \in 0..OfflineAfterFailures
      BY <2>2, AgentAssumption DEF PollFails
    <3>2. snapshot' \in Views
      BY <2>2 DEF PollFails, Views, PrinterTypeOK
    <3>. QED
      BY <2>2, <3>1, <3>2 DEF PollFails, intentVars, commandVars
  <2>. QED
    BY <1>5, <2>1, <2>2
<1>6. CASE Poll \/ Service
  BY <1>6 DEF Poll, Service, objectVars, intentVars, commandVars
<1>7. CASE Fault
  <2>1. reported' \subseteq Codes
    BY <1>7 DEF Fault, Views, Snapshots
  <2>. QED
    BY <1>7, <2>1 DEF Fault, intentVars, commandVars
<1>8. CASE Act
  BY <1>8 DEF Act, objectVars, commandVars
<1>9. CASE TakeCommand \/ GiveUp
  BY <1>9 DEF TakeCommand, GiveUp, objectVars, intentVars, commandVars
<1>10. ASSUME NEW t \in Threads, Publish(t)
       PROVE  ObjectTypeOK'
  <2>1. tracker' \in Trackers
    <3>1. ASSUME Observe(t)
          PROVE  tracker' \in Trackers
      <4>1. snapshot.snap \in Snapshots \cup {None} /\ clock + 1 \in Nat
        BY DEF Views, CountersTypeOK
      <4>. QED
        BY <3>1, <4>1, ObservedType DEF Observe
    <3>. QED
      BY <1>10, <3>1 DEF Publish, Announce, Heartbeat, Build, Enqueue, objectVars
  <2>2. stateText' \in Texts
    BY <1>10, StateTextType DEF Publish, Observe, Announce, Heartbeat, Build, Enqueue, objectVars, NewText
  <2>. QED
    BY <1>10, <2>1, <2>2 DEF Publish, Observe, Announce, Heartbeat, Build, Enqueue, objectVars, intentVars, commandVars
<1>11. ASSUME NEW t \in Threads, Execute(t)
       PROVE  ObjectTypeOK'
  <2>1. CASE Acquire(t)
    BY <2>1 DEF Acquire, objectVars, commandVars
  <2>2. CASE Assign(t)
    BY <2>2 DEF Assign, intentVars, commandVars, ThreadsTypeOK
  <2>3. CASE Defer(t)
    BY <2>3 DEF Defer, Trips, Raise, Commands, objectVars, intentVars, commandVars
  <2>4. CASE Check(t) \/ Accepted(t) \/ Refused(t) \/ ReplyLost(t) \/ NoSuchCommand(t)
             \/ ReadBack(t) \/ ReadBackFails(t) \/ Release(t)
    BY <2>4 DEF Check, Accepted, Refused, ReplyLost, NoSuchCommand, Raise,
       ReadBack, ReadBackFails, Release, objectVars, intentVars, commandVars
  <2>5. CASE Judge(t) \/ Over(t) \/ Verdict(t) \/ Report(t) \/ Quote(t)
    BY <2>5 DEF Judge, Over, Trips, Raise, Verdict, Report, Quote, objectVars, intentVars, commandVars
  <2>. QED
    BY <1>11, <2>1, <2>2, <2>3, <2>4, <2>5 DEF Execute
<1>. QED
  BY <1>1, <1>2, <1>3, <1>4, <1>5, <1>6, <1>7, <1>8, <1>9, <1>10, <1>11 DEF Next, Run

\* ... the counters, whose loops stay within their bounds ...
LEMMA CountersPart ==
    ASSUME TypeOK, Next
    PROVE  CountersTypeOK'
<1>. USE AgentAssumption DEF TypeOK, CountersTypeOK
<1>1. CASE World
  BY <1>1 DEF World, commandVars, effortVars, publishVars
<1>2. ASSUME NEW c \in UserCommands, Request(c)
      PROVE  CountersTypeOK'
  BY <1>2 DEF Request, effortVars, publishVars
<1>3. CASE Kill
  BY <1>3 DEF Kill, effortVars, publishVars
<1>4. CASE Restart
  BY <1>4 DEF Restart
<1>5. CASE Poll \/ TakeReply \/ PollFails \/ Fault \/ Service \/ Act
  BY <1>5 DEF Poll, TakeReply, PollFails, Fault, Service, Act, commandVars, effortVars, publishVars
<1>6. CASE TakeCommand \/ GiveUp
  BY <1>6 DEF TakeCommand, GiveUp, commandVars, effortVars, publishVars
<1>7. ASSUME NEW t \in Threads, Observe(t)
      PROVE  CountersTypeOK'
  BY <1>7 DEF Observe, commandVars, effortVars, ObjectTypeOK, Views
<1>8. ASSUME NEW t \in Threads, Announce(t) \/ Heartbeat(t) \/ Build(t) \/ Enqueue(t)
      PROVE  CountersTypeOK'
  BY <1>8 DEF Announce, Heartbeat, Build, Enqueue, Heard, NotHeard, commandVars, effortVars, publishVars
<1>9. ASSUME NEW t \in Threads, Acquire(t) \/ ReadBack(t) \/ Assign(t) \/ Verdict(t) \/ Report(t)
      PROVE  CountersTypeOK'
  BY <1>9 DEF Acquire, ReadBack, Assign, Verdict, Report, commandVars, effortVars, publishVars
<1>10. ASSUME NEW t \in Threads, Check(t) \/ Accepted(t) \/ NoSuchCommand(t) \/ Release(t)
       PROVE  CountersTypeOK'
  BY <1>10 DEF Check, Accepted, NoSuchCommand, Raise, Release, publishVars
<1>11. ASSUME NEW t \in Threads, Refused(t) \/ ReplyLost(t) \/ ReadBackFails(t)
       PROVE  CountersTypeOK'
  BY <1>11 DEF Refused, ReplyLost, ReadBackFails, NextAttempt, NextRead, publishVars
<1>12. ASSUME NEW t \in Threads, Judge(t) \/ Over(t)
       PROVE  CountersTypeOK'
  BY <1>12 DEF Judge, Over, Trips, NextAttempt, NextRead, Raise, publishVars
<1>13. ASSUME NEW t \in Threads, Defer(t) \/ Quote(t)
       PROVE  CountersTypeOK'
  BY <1>13 DEF Defer, Quote, Trips, Raise, commandVars, effortVars, publishVars
<1>. QED
  BY <1>1, <1>2, <1>3, <1>4, <1>5, <1>6, <1>7, <1>8, <1>9, <1>10, <1>11, <1>12, <1>13 DEF Next, Run, Publish, Execute

\* ... the threads ...
LEMMA ThreadsPart ==
    ASSUME TypeOK, Next
    PROVE  ThreadsTypeOK'
<1>. USE DEF TypeOK, ThreadsTypeOK, Goto, Threads, Labels
<1>1. CASE World
  BY <1>1 DEF World, threadVars, publishVars
<1>2. ASSUME NEW c \in UserCommands, Request(c)
      PROVE  ThreadsTypeOK'
  BY <1>2 DEF Request, publishVars
<1>3. CASE Kill
  BY <1>3 DEF Kill, publishVars
<1>4. CASE Restart
  BY <1>4 DEF Restart, PcInit, Nothing, Views, Batches
<1>5. CASE Poll
  <2>1. [snap |-> Detail, at |-> changes] \in Views
    BY DetailType DEF Views, PrinterTypeOK
  <2>. QED
    BY <1>5, <2>1 DEF Poll, publishVars
<1>6. CASE TakeReply \/ PollFails \/ Fault
  BY <1>6 DEF TakeReply, PollFails, Fault, publishVars, Nothing, Views
<1>7. CASE Service
  BY <1>7 DEF Service, publishVars, ObjectTypeOK
<1>8. CASE Act
  BY <1>8 DEF Act, publishVars, ObjectTypeOK, TakenIntent, Nothing, Views
<1>9. CASE TakeCommand \/ GiveUp
  <2>1. CASE TakeCommand
    <3>1. Head(queue) \in Commands
      BY <2>1 DEF TakeCommand, ObjectTypeOK
    <3>. QED
      BY <2>1, <3>1 DEF TakeCommand, publishVars
  <2>2. CASE GiveUp
    BY <2>2 DEF GiveUp, publishVars
  <2>. QED
    BY <1>9, <2>1, <2>2
<1>10. ASSUME NEW t \in Threads, Observe(t)
       PROVE  ThreadsTypeOK'
  <2>1. Emitted(tracker, snapshot.snap) \in Batches
    BY EmittedType DEF ObjectTypeOK, Views
  <2>. QED
    BY <1>10, <2>1 DEF Observe
<1>11. ASSUME NEW t \in Threads, Announce(t) \/ Heartbeat(t) \/ Build(t)
       PROVE  ThreadsTypeOK'
  BY <1>11 DEF Announce, Heartbeat, Build, AfterPublish, publishVars
<1>12. ASSUME NEW t \in Threads, Enqueue(t)
       PROVE  ThreadsTypeOK'
  <2>1. Rest(events[t]) \in Batches
    BY RestType
  <2>. QED
    BY <1>12, <2>1 DEF Enqueue, AfterPublish
<1>13. ASSUME NEW t \in Threads, Acquire(t) \/ Check(t) \/ Accepted(t) \/ Verdict(t) \/ Report(t) \/ Release(t)
       PROVE  ThreadsTypeOK'
  BY <1>13 DEF Acquire, Check, Accepted, Verdict, Report, Release, publishVars
<1>14. ASSUME NEW t \in Threads, Refused(t) \/ ReplyLost(t) \/ NoSuchCommand(t) \/ ReadBackFails(t)
       PROVE  ThreadsTypeOK'
  BY <1>14 DEF Refused, ReplyLost, NoSuchCommand, ReadBackFails, NextAttempt, NextRead, Raise, publishVars
<1>15. ASSUME NEW t \in Threads, ReadBack(t)
       PROVE  ThreadsTypeOK'
  <2>1. [snap |-> Detail, at |-> changes] \in Views
    BY DetailType DEF Views, PrinterTypeOK
  <2>. QED
    BY <1>15, <2>1 DEF ReadBack, publishVars
<1>16. ASSUME NEW t \in Threads, Assign(t)
       PROVE  ThreadsTypeOK'
  BY <1>16 DEF Assign, publishVars, Nothing, Views
<1>17. ASSUME NEW t \in Threads, Judge(t) \/ Over(t)
       PROVE  ThreadsTypeOK'
  BY <1>17 DEF Judge, Over, Trips, NextRead, NextAttempt, Raise, publishVars
<1>18. ASSUME NEW t \in Threads, Defer(t) \/ Quote(t)
       PROVE  ThreadsTypeOK'
  BY <1>18 DEF Defer, Quote, Trips, Raise, publishVars
<1>. QED
  BY <1>1, <1>2, <1>3, <1>4, <1>5, <1>6, <1>7, <1>8, <1>9, <1>10, <1>11, <1>12, <1>13, <1>14, <1>15, <1>16,
     <1>17, <1>18
  DEF Next, Run, Publish, Execute

\* ... and the messages.
LEMMA MessagesPart ==
    ASSUME TypeOK, Next
    PROVE  MessagesTypeOK'
<1>. USE DEF TypeOK, MessagesTypeOK
<1>1. ASSUME NEW t \in Threads, Build(t)
      PROVE  MessagesTypeOK'
  <2>1. FirstEvent(events[t]) \in Events \cup {NoEvent}
    BY FirstEventType DEF ThreadsTypeOK
  <2>2. StatusText \in Texts
    BY DEF StatusText, Texts, ObjectTypeOK
  <2>3. tracker.ts \in Nat \cup {NoSession}
    BY DEF ObjectTypeOK, Trackers
  <2>4. [event |-> FirstEvent(events[t]), ts |-> tracker.ts, text |-> StatusText] \in Messages
    BY <2>1, <2>2, <2>3 DEF Messages
  <2>. QED
    BY <1>1, <2>4 DEF Build
<1>2. ASSUME NEW t \in Threads, Enqueue(t)
      PROVE  MessagesTypeOK'
  <2>1. NoMessage \in Messages
    BY DEF NoMessage, Messages, Texts, NoSession
  <2>2. StatusOf(message[t]) \in Statuses /\ StoryAfter(message[t]) \in Stories
    <3>1. message[t] \in Messages
      OBVIOUS
    <3>2. StoryAfter(message[t]) \in Stories
      BY <3>1 DEF StoryAfter, Broken, Stories, Messages, NoSession
    <3>. QED
      BY <3>1, <3>2 DEF StatusOf, Statuses, Messages
  <2>3. told' \in Statuses /\ story' \in Stories
    BY <1>2, <2>2 DEF Enqueue, Heard, NotHeard, Broken, Stories, NoSession
  <2>. QED
    BY <1>2, <2>1, <2>3 DEF Enqueue
<1>3. CASE Restart
  <2>1. NoMessage \in Messages
    BY DEF NoMessage, Messages, Texts, NoSession
  <2>2. StoryLeft \in Stories
    BY DEF StoryLeft, Stories
  <2>. QED
    BY <1>3, <2>1, <2>2 DEF Restart
<1>4. CASE UNCHANGED <<message, told, story>>
  BY <1>4
<1>5. Restart \/ (\E t \in Threads : Build(t) \/ Enqueue(t)) \/ UNCHANGED <<message, told, story>>
  BY DEF Next, World, Request, Kill, publishVars,
      Run, Poll, TakeReply, PollFails, Fault, Service, Act, TakeCommand, GiveUp,
      Publish, Observe, Announce, Heartbeat,
      Execute, Acquire, Check, Accepted, Refused, ReplyLost, NoSuchCommand, ReadBack, ReadBackFails, Assign,
      Judge, Over, Trips, Verdict, Defer, Report, Quote, Release
<1>. QED
  BY <1>1, <1>2, <1>3, <1>4, <1>5

\* Every variable keeps its type (TypeOK).
THEOREM TypeCorrect == Spec => []TypeOK
<1>1. Init => TypeOK
  <2>. SUFFICES ASSUME Init PROVE TypeOK
    OBVIOUS
  <2>1. PrinterTypeOK
    BY DEF Init, PrinterInit, PrinterTypeOK, Machines, StatusWords, MachineStates
  <2>2. FlagsTypeOK
    BY DEF Init, FlagsTypeOK
  <2>6. CountersTypeOK
    BY AgentAssumption DEF Init, CountersTypeOK
  <2>3. ObjectTypeOK
    BY AgentAssumption DEF Init, ObjectTypeOK, Views, Nothing, Texts, Trackers, Fresh, NoSession
  <2>4. ThreadsTypeOK
    BY DEF Init, PcInit, ThreadsTypeOK, Threads, Labels, Views, Nothing, Batches
  <2>5. MessagesTypeOK
    BY DEF Init, MessagesTypeOK, NoMessage, Messages, Texts, NoSession, StatusOf, Statuses, NoStory, Stories
  <2>. QED
    BY <2>1, <2>2, <2>3, <2>4, <2>5, <2>6 DEF TypeOK
<1>2. TypeOK /\ [Next]_vars => TypeOK'
  <2>1. ASSUME TypeOK, Next PROVE TypeOK'
    BY <2>1, PrinterPart, FlagsPart, ObjectPart, CountersPart, ThreadsPart, MessagesPart DEF TypeOK
  <2>2. ASSUME TypeOK, UNCHANGED vars PROVE TypeOK'
    BY <2>2 DEF TypeOK, PrinterTypeOK, FlagsTypeOK, ObjectTypeOK, CountersTypeOK, ThreadsTypeOK, MessagesTypeOK,
       vars, printerVars, objectVars, intentVars, commandVars, effortVars, publishVars, threadVars
  <2>. QED
    BY <2>1, <2>2
<1>. QED
  BY <1>1, <1>2, PTL DEF Spec
-----------------------------------------------------------------------------
(***************************************************************************)
(* The safety of the two threads.  CommandsSerialised needs no more than   *)
(* itself: a thread enters through the free lock, and hands it back only   *)
(* when it leaves.  IntentStaysDropped is not inductive alone: a thread    *)
(* that picks up its next command must not hold the lock already, which is *)
(* LockHolderAtWork; and only the holder of a pause comes to where a pause *)
(* is made pending, which is OnlyPausesWait.                               *)
(***************************************************************************)
OnlyPausesWait == \A t \in Threads : pc[t] = "defer" => cmd[t] = "pause"

Safe == CommandsSerialised /\ LockHolderAtWork /\ IntentStaysDropped /\ OnlyPausesWait

\* Every step of the agent keeps Safe.
LEMMA SafeStep ==
    ASSUME TypeOK, Safe, Next
    PROVE  Safe'
<1>. USE DEF Safe, CommandsSerialised, LockHolderAtWork, IntentStaysDropped, OnlyPausesWait,
             Threads, Executing, Publishing, Goto, TypeOK, ThreadsTypeOK, ObjectTypeOK, Free
<1>1. CASE World
  BY <1>1 DEF World, threadVars, intentVars
<1>2. ASSUME NEW c \in UserCommands, Request(c)
      PROVE  Safe'
  BY <1>2 DEF Request, intentVars
<1>3. CASE Kill
  BY <1>3 DEF Kill, intentVars
<1>4. CASE Restart
  BY <1>4 DEF Restart, PcInit
<1>5. CASE Poll \/ TakeReply \/ PollFails \/ Fault \/ Service
  BY <1>5 DEF Poll, TakeReply, PollFails, Fault, Service, intentVars
<1>6. CASE Act
  BY <1>6 DEF Act, TakenIntent
<1>7. CASE TakeCommand \/ GiveUp
  BY <1>7 DEF TakeCommand, GiveUp, intentVars
<1>8. ASSUME NEW t \in Threads, Observe(t) \/ Announce(t) \/ Heartbeat(t) \/ Build(t) \/ Enqueue(t)
      PROVE  Safe'
  BY <1>8 DEF Observe, Announce, Heartbeat, Build, Enqueue, AfterPublish, intentVars
<1>9. ASSUME NEW t \in Threads, Acquire(t)
      PROVE  Safe'
  BY <1>9 DEF Acquire, LockAvailable, DropsIntent
<1>10. ASSUME NEW t \in Threads, Check(t) \/ Accepted(t) \/ ReadBack(t) \/ Assign(t)
       PROVE  Safe'
  BY <1>10 DEF Check, Accepted, ReadBack, Assign, intentVars
<1>11. ASSUME NEW t \in Threads, Refused(t) \/ ReplyLost(t) \/ ReadBackFails(t)
       PROVE  Safe'
  BY <1>11 DEF Refused, ReplyLost, ReadBackFails, NextAttempt, NextRead, intentVars
<1>12. ASSUME NEW t \in Threads, NoSuchCommand(t) \/ Release(t)
       PROVE  Safe'
  BY <1>12 DEF NoSuchCommand, Release, Raise, intentVars
<1>13. ASSUME NEW t \in Threads, Judge(t) \/ Over(t)
       PROVE  Safe'
  BY <1>13 DEF Judge, Over, Trips, NextAttempt, NextRead, Raise, intentVars
<1>14. ASSUME NEW t \in Threads, Verdict(t) \/ Report(t) \/ Quote(t)
       PROVE  Safe'
  BY <1>14 DEF Verdict, Report, Quote, Trips, Raise, intentVars
<1>15. ASSUME NEW t \in Threads, Defer(t)
       PROVE  Safe'
  BY <1>15 DEF Defer, Trips, Raise, intentVars
<1>. QED
  BY <1>1, <1>2, <1>3, <1>4, <1>5, <1>6, <1>7, <1>8, <1>9, <1>10, <1>11, <1>12, <1>13, <1>14, <1>15
  DEF Next, Run, Publish, Execute

\* The inductive invariant.
LEMMA SafeInvariant == Spec => []Safe
<1>1. Init => Safe
  BY DEF Init, PcInit, Safe, CommandsSerialised, LockHolderAtWork, IntentStaysDropped,
         OnlyPausesWait, Threads, Executing, Free
<1>2. TypeOK /\ Safe /\ [Next]_vars => Safe'
  <2>1. ASSUME TypeOK, Safe, Next PROVE Safe'
    BY <2>1, SafeStep
  <2>2. ASSUME Safe, UNCHANGED vars PROVE Safe'
    BY <2>2 DEF vars, intentVars, threadVars, Safe, CommandsSerialised, LockHolderAtWork,
                IntentStaysDropped, OnlyPausesWait
  <2>. QED
    BY <2>1, <2>2
<1>. QED
  BY <1>1, <1>2, TypeCorrect, PTL DEF Spec

\* One command at a time, whatever the two threads and the printer do
\* (CommandsSerialised).
THEOREM CommandsSerialisedCorrect == Spec => []CommandsSerialised
BY SafeInvariant, PTL DEF Safe

\* While a resume or cancel executes, no pause is pending
\* (IntentStaysDropped).
THEOREM IntentStaysDroppedCorrect == Spec => []IntentStaysDropped
BY SafeInvariant, PTL DEF Safe

\* The command lock is given back by every exception: who holds it is at work
\* on a command (LockHolderAtWork).
THEOREM LockHolderAtWorkCorrect == Spec => []LockHolderAtWork
BY SafeInvariant, PTL DEF Safe
-----------------------------------------------------------------------------
(***************************************************************************)
(* GoneOnlyIfRevoked is not inductive alone: the poll loop comes to "act"  *)
(* with an intent, so no resume or cancel may have been executed since it  *)
(* was deferred.                                                           *)
(***************************************************************************)
Kept == GoneOnlyIfRevoked /\ (pending # NoCmd => ~revoked)

\* Every step of the agent keeps Kept.
LEMMA KeptStep ==
    ASSUME TypeOK, Kept, Next
    PROVE  Kept'
<1>. USE DEF Kept, GoneOnlyIfRevoked, Threads, Goto, TypeOK, ThreadsTypeOK, ObjectTypeOK
<1>1. CASE World
  BY <1>1 DEF World, threadVars, intentVars
<1>2. ASSUME NEW c \in UserCommands, Request(c)
      PROVE  Kept'
  BY <1>2 DEF Request, intentVars
<1>3. CASE Kill
  BY <1>3 DEF Kill, intentVars
<1>4. CASE Restart
  BY <1>4 DEF Restart, PcInit
<1>5. CASE Poll \/ TakeReply \/ PollFails \/ Fault
  BY <1>5 DEF Poll, TakeReply, PollFails, Fault, intentVars
<1>6. CASE Service
  BY <1>6 DEF Service, NothingToService, intentVars
<1>7. CASE Act
  BY <1>7 DEF Act
<1>8. CASE TakeCommand \/ GiveUp
  BY <1>8 DEF TakeCommand, GiveUp, intentVars
<1>9. ASSUME NEW t \in Threads, Publish(t)
      PROVE  Kept'
  BY <1>9 DEF Publish, Observe, Announce, Heartbeat, Build, Enqueue, AfterPublish, intentVars
<1>10. ASSUME NEW t \in Threads, Acquire(t)
       PROVE  Kept'
  BY <1>10 DEF Acquire
<1>11. ASSUME NEW t \in Threads,
              Check(t) \/ Accepted(t) \/ Refused(t) \/ ReplyLost(t) \/ NoSuchCommand(t)
       PROVE  Kept'
  BY <1>11 DEF Check, Accepted, Refused, ReplyLost, NoSuchCommand, NextAttempt, Raise, intentVars
<1>12. ASSUME NEW t \in Threads,
              ReadBack(t) \/ ReadBackFails(t) \/ Assign(t) \/ Judge(t) \/ Over(t) \/ Release(t)
       PROVE  Kept'
  BY <1>12 DEF ReadBack, ReadBackFails, Assign, Judge, Over, Trips, Release, NextRead, NextAttempt, Raise,
     intentVars
<1>13. ASSUME NEW t \in Threads, Verdict(t) \/ Defer(t) \/ Report(t) \/ Quote(t)
       PROVE  Kept'
  BY <1>13 DEF Verdict, Defer, Report, Quote, Trips, Raise, NoCmd, intentVars
<1>. QED
  BY <1>1, <1>2, <1>3, <1>4, <1>5, <1>6, <1>7, <1>8, <1>9, <1>10, <1>11, <1>12, <1>13
  DEF Next, Run, Execute

\* Between the poll loop's look at the intent and its swap, the intent is gone
\* exactly if a resume or cancel was executed (GoneOnlyIfRevoked).
THEOREM GoneOnlyIfRevokedCorrect == Spec => []GoneOnlyIfRevoked
<1>1. Init => Kept
  BY DEF Init, PcInit, Kept, GoneOnlyIfRevoked, Threads
<1>2. TypeOK /\ Kept /\ [Next]_vars => Kept'
  <2>1. ASSUME TypeOK, Kept, Next PROVE Kept'
    BY <2>1, KeptStep
  <2>2. ASSUME Kept, UNCHANGED vars PROVE Kept'
    BY <2>2 DEF vars, intentVars, threadVars, Kept, GoneOnlyIfRevoked
  <2>. QED
    BY <2>1, <2>2
<1>3. Kept => GoneOnlyIfRevoked
  BY DEF Kept
<1>. QED
  BY <1>1, <1>2, <1>3, TypeCorrect, PTL DEF Spec
-----------------------------------------------------------------------------
(***************************************************************************)
(* GivesUpOnlyAtTheEnd holds because the effort is accounted for at every  *)
(* step on the way: the sends by the attempts, the read-backs still due by *)
(* those of this attempt.  Who takes the lock starts from nothing.         *)
(***************************************************************************)
Effort(label) ==
    CASE label = "check"                      -> sends = 0 /\ looksDue = 0
      [] label = "attempt"                    -> sends = attempt - 1 /\ looksDue = 0
      [] label = "readback"                   -> sends = attempt /\ looksDue = ReadbackAttempts + 1 - reads
      [] label \in {"assign", "judge", "over"} -> sends = attempt /\ looksDue = ReadbackAttempts - reads
      [] label \in {"verdict", "defer", "report", "quote"} -> sends = MaxCommandAttempts /\ looksDue = 0
      [] OTHER                                -> TRUE

Accounted ==
    /\ lock = Free => sends = 0 /\ looksDue = 0
    /\ \A t \in Threads : Effort(pc[t])

\* Where the effort does not change, a step that starts nothing and sends
\* nothing keeps the account (Agent._attempt_command).
LEMMA AccountedElsewhere ==
    ASSUME TypeOK, Accounted, UNCHANGED effortVars,
           lock' = Free => lock = Free,
           \A t \in Threads : pc'[t] = pc[t] \/ pc'[t] \notin Executing
    PROVE  Accounted'
BY DEF Accounted, Effort, Executing, effortVars

\* Every step of the agent keeps the account.
LEMMA AccountedStep ==
    ASSUME TypeOK, Safe, Accounted, Next
    PROVE  Accounted'
<1>. USE AgentAssumption DEF Threads, Free, TypeOK, ThreadsTypeOK, CountersTypeOK, Goto
<1>a. ASSUME NEW t \in Threads, NEW u \in Threads, pc[t] \in Executing, pc[u] \in Executing
      PROVE  u = t /\ lock = t
  BY <1>a DEF Safe, CommandsSerialised
<1>b. ASSUME NEW t \in Threads, pc[t] \in Executing, lock' # Free,
             \A u \in Threads : u # t => pc'[u] = pc[u],
             Effort(pc[t])'
      PROVE  Accounted'
  <2>1. ASSUME NEW u \in Threads, u # t PROVE pc'[u] \notin Executing
    BY <1>a, <1>b, <2>1
  <2>2. \A u \in Threads : u # t => Effort(pc[u])'
    BY <2>1 DEF Effort, Executing
  <2>. QED
    BY <1>b, <2>2 DEF Accounted
<1>1. CASE World \/ Kill \/ (\E c \in UserCommands : Request(c))
  <2>1. UNCHANGED <<effortVars, lock>>
    BY <1>1 DEF World, Kill, Request, commandVars, threadVars
  <2>2. \A t \in Threads : pc'[t] = pc[t] \/ pc'[t] \notin Executing
    BY <1>1 DEF World, Kill, Request, threadVars, Executing
  <2>. QED
    BY <2>1, <2>2, AccountedElsewhere
<1>2. CASE Restart
  BY <1>2 DEF Restart, PcInit, Accounted, Effort
<1>3. CASE Poll \/ TakeReply \/ PollFails \/ Fault \/ Service \/ Act \/ TakeCommand \/ GiveUp
  <2>1. UNCHANGED <<effortVars, lock>>
    BY <1>3 DEF Poll, TakeReply, PollFails, Fault, Service, Act, TakeCommand, GiveUp, commandVars
  <2>2. \A t \in Threads : pc'[t] = pc[t] \/ pc'[t] \notin Executing
    BY <1>3 DEF Poll, TakeReply, PollFails, Fault, Service, Act, TakeCommand, GiveUp, Executing
  <2>. QED
    BY <2>1, <2>2, AccountedElsewhere
<1>4. ASSUME NEW t \in Threads, Publish(t)
      PROVE  Accounted'
  <2>1. UNCHANGED <<effortVars, lock>>
    BY <1>4 DEF Publish, Observe, Announce, Heartbeat, Build, Enqueue, commandVars
  <2>2. \A u \in Threads : pc'[u] = pc[u] \/ pc'[u] = "release" \/ pc'[u] \notin Executing
    BY <1>4 DEF Publish, Observe, Announce, Heartbeat, Build, Enqueue, AfterPublish, Executing
  <2>. QED
    BY <2>1, <2>2 DEF Accounted, Effort, Executing, effortVars
<1>5. ASSUME NEW t \in Threads, Acquire(t)
      PROVE  Accounted'
  <2>1. sends = 0 /\ looksDue = 0 /\ UNCHANGED effortVars
    BY <1>5 DEF Acquire, LockAvailable, Accounted, commandVars
  <2>2. \A u \in Threads : pc'[u] = "check" \/ (pc'[u] = pc[u] /\ pc[u] \notin Executing)
    BY <1>5 DEF Acquire, LockAvailable, Safe, CommandsSerialised
  <2>. QED
    BY <1>5, <2>1, <2>2 DEF Acquire, Accounted, Effort, Executing, effortVars
<1>6. ASSUME NEW t \in Threads, Raise(t), pc[t] \in Executing
      PROVE  Accounted'
  <2>1. sends' = 0 /\ looksDue' = 0
    BY <1>6 DEF Raise
  <2>2. \A u \in Threads : pc'[u] \notin Executing
    BY <1>a, <1>6 DEF Raise, Executing
  <2>. QED
    BY <2>1, <2>2 DEF Accounted, Effort, Executing
<1>7. ASSUME NEW t \in Threads, NoSuchCommand(t) \/ (\E l \in Executing : Trips(t, l))
      PROVE  Accounted'
  BY <1>6, <1>7 DEF NoSuchCommand, Trips, Executing
<1>8. ASSUME NEW t \in Threads, Release(t)
      PROVE  Accounted'
  <2>1. sends' = 0 /\ looksDue' = 0
    BY <1>8 DEF Release
  <2>2. \A u \in Threads : pc'[u] \notin Executing
    BY <1>a, <1>8 DEF Release, Executing
  <2>. QED
    BY <2>1, <2>2 DEF Accounted, Effort, Executing
<1>9. ASSUME NEW t \in Threads, Check(t)
      PROVE  Accounted'
  <2>1. pc[t] = "check" /\ sends = 0 /\ looksDue = 0 /\ UNCHANGED <<sends, looksDue, lock>>
    BY <1>9 DEF Check, Accounted, Effort
  <2>2. pc'[t] = "release" \/ (pc'[t] = "attempt" /\ attempt' = 1)
    BY <1>9 DEF Check
  <2>3. Effort(pc[t])'
    BY <2>1, <2>2 DEF Effort
  <2>4. pc[t] \in Executing /\ lock' # Free /\ \A u \in Threads : u # t => pc'[u] = pc[u]
    BY <1>9, <1>a, <2>1 DEF Check, Executing
  <2>. QED
    BY <1>b, <2>3, <2>4
<1>10. ASSUME NEW t \in Threads, Accepted(t) \/ Refused(t) \/ ReplyLost(t)
       PROVE  Accounted'
  <2>1. pc[t] = "attempt" /\ sends = attempt - 1 /\ looksDue = 0 /\ sends' = sends + 1
    BY <1>10 DEF Accepted, Refused, ReplyLost, Accounted, Effort
  <2>2. CASE Accepted(t)
    <3>1. pc'[t] = "readback" /\ reads' = 1 /\ attempt' = attempt /\ looksDue' = ReadbackAttempts
      BY <2>1, <2>2 DEF Accepted
    <3>. QED
      BY <2>1, <3>1, <1>b, <1>a, <2>2 DEF Accepted, Effort, Executing
  <2>3. CASE Refused(t) \/ ReplyLost(t)
    <3>1. NextAttempt(t) /\ looksDue' = looksDue /\ UNCHANGED lock
      BY <2>3 DEF Refused, ReplyLost
    <3>2. Effort(pc[t])'
      BY <2>1, <3>1 DEF NextAttempt, Effort
    <3>3. pc[t] \in Executing /\ lock' # Free /\ \A u \in Threads : u # t => pc'[u] = pc[u]
      BY <1>a, <2>1, <3>1 DEF NextAttempt, Executing
    <3>. QED
      BY <1>b, <3>2, <3>3
  <2>. QED
    BY <1>10, <2>2, <2>3
<1>11. ASSUME NEW t \in Threads, NextRead(t), pc[t] \in Executing, UNCHANGED lock,
              sends = attempt, sends' = sends, looksDue' = ReadbackAttempts - reads
       PROVE  Accounted'
  <2>1. Effort(pc[t])'
    BY <1>11 DEF NextRead, NextAttempt, Effort
  <2>2. lock' # Free /\ \A u \in Threads : u # t => pc'[u] = pc[u]
    BY <1>a, <1>11 DEF NextRead, NextAttempt
  <2>. QED
    BY <1>b, <1>11, <2>1, <2>2
<1>12. ASSUME NEW t \in Threads, ReadBack(t) \/ ReadBackFails(t)
       PROVE  Accounted'
  <2>1. /\ pc[t] = "readback" /\ UNCHANGED <<lock, sends>> /\ looksDue' = looksDue - 1
        /\ sends = attempt /\ looksDue = ReadbackAttempts + 1 - reads
    BY <1>12 DEF ReadBack, ReadBackFails, Accounted, Effort
  <2>2. CASE ReadBackFails(t)
    BY <1>11, <2>1, <2>2 DEF ReadBackFails, Executing
  <2>3. CASE ReadBack(t)
    <3>1. pc'[t] = "assign" /\ UNCHANGED <<attempt, reads>>
      BY <2>3 DEF ReadBack
    <3>2. Effort(pc[t])'
      BY <2>1, <3>1 DEF Effort
    <3>. QED
      BY <1>a, <1>b, <2>1, <2>3, <3>2 DEF ReadBack, Executing
  <2>. QED
    BY <1>12, <2>2, <2>3
<1>13. ASSUME NEW t \in Threads, Assign(t)
       PROVE  Accounted'
  <2>1. /\ pc[t] = "assign" /\ pc'[t] = "judge" /\ UNCHANGED <<lock, attempt, reads, sends, looksDue>>
        /\ sends = attempt /\ looksDue = ReadbackAttempts - reads
    BY <1>13 DEF Assign, Accounted, Effort, commandVars, effortVars
  <2>2. Effort(pc[t])'
    BY <2>1 DEF Effort
  <2>. QED
    BY <1>a, <1>b, <1>13, <2>1, <2>2 DEF Assign, Executing
<1>14. ASSUME NEW t \in Threads, Judge(t) \/ Over(t)
       PROVE  Accounted'
  <2>1. CASE \E l \in Executing : Trips(t, l)
    BY <1>7, <2>1
  <2>2. CASE ~\E l \in Executing : Trips(t, l)
    <3>1. /\ pc[t] \in {"judge", "over"} /\ UNCHANGED <<lock, sends, looksDue>>
          /\ sends = attempt /\ looksDue = ReadbackAttempts - reads
      BY <1>14, <2>2 DEF Judge, Over, Accounted, Effort, Executing
    <3>2. \/ NextRead(t)
          \/ Goto(t, "observe") /\ UNCHANGED <<attempt, reads>>
          \/ Goto(t, "over") /\ UNCHANGED <<attempt, reads>>
      BY <1>14, <2>2 DEF Judge, Over, Executing
    <3>3. CASE NextRead(t)
      BY <1>11, <3>1, <3>3 DEF Executing
    <3>4. CASE (Goto(t, "observe") \/ Goto(t, "over")) /\ UNCHANGED <<attempt, reads>>
      <4>1. Effort(pc[t])'
        BY <3>1, <3>4 DEF Effort
      <4>. QED
        BY <1>a, <1>b, <3>1, <3>4, <4>1 DEF Executing
    <3>. QED
      BY <3>2, <3>3, <3>4
  <2>. QED
    BY <2>1, <2>2
<1>15. ASSUME NEW t \in Threads, Verdict(t) \/ Defer(t) \/ Report(t) \/ Quote(t)
       PROVE  Accounted'
  <2>1. CASE \E l \in Executing : Trips(t, l)
    BY <1>7, <2>1
  <2>2. CASE ~\E l \in Executing : Trips(t, l)
    <3>1. /\ pc[t] \in {"verdict", "defer", "report", "quote"} /\ UNCHANGED <<lock, effortVars>>
          /\ sends = MaxCommandAttempts /\ looksDue = 0
      BY <1>15, <2>2 DEF Verdict, Defer, Report, Quote, Accounted, Effort, Executing, commandVars
    <3>2. \E l \in {"defer", "report", "quote", "observe"} : Goto(t, l)
      BY <1>15, <2>2 DEF Verdict, Defer, Report, Quote, Executing
    <3>3. Effort(pc[t])'
      BY <3>1, <3>2 DEF Effort, effortVars
    <3>. QED
      BY <1>a, <1>b, <3>1, <3>2, <3>3 DEF Executing
  <2>. QED
    BY <2>1, <2>2
<1>. QED
  BY <1>1, <1>2, <1>3, <1>4, <1>5, <1>7, <1>8, <1>9, <1>10, <1>12, <1>13, <1>14, <1>15
  DEF Next, Run, Execute

\* Nothing is given up before it was sent and looked for as often as the user is
\* told, for every number of attempts and read-backs (GivesUpOnlyAtTheEnd).
THEOREM GivesUpOnlyAtTheEndCorrect == Spec => []GivesUpOnlyAtTheEnd
<1>1. Init => Accounted
  BY DEF Init, PcInit, Accounted, Effort, Threads
<1>2. TypeOK /\ Safe /\ Accounted /\ [Next]_vars => Accounted'
  <2>1. ASSUME TypeOK, Safe, Accounted, Next PROVE Accounted'
    BY <2>1, AccountedStep
  <2>2. ASSUME Accounted, UNCHANGED vars PROVE Accounted'
    BY <2>2 DEF vars, commandVars, effortVars, threadVars, Accounted, Effort
  <2>. QED
    BY <2>1, <2>2
<1>3. Accounted => GivesUpOnlyAtTheEnd
  BY DEF Accounted, Effort, GivesUpOnlyAtTheEnd
<1>. QED
  BY <1>1, <1>2, <1>3, TypeCorrect, SafeInvariant, PTL DEF Spec
-----------------------------------------------------------------------------
(***************************************************************************)
(* A command advances with every step of the thread that holds the lock,   *)
(* and with no step of anybody else: Safe keeps the other thread out of    *)
(* execute_command, so it can touch neither the loop counters nor the      *)
(* events of the holder.                                                   *)
(***************************************************************************)
At(t) == <<pc[t], attempt, reads, events[t]>>

\* Who holds the lock is moved by nobody else (execute_command).
LEMMA OthersLeaveItAlone ==
    ASSUME TypeOK, Safe, NEW t \in Threads, lock = t, lock' = t, Next, ~Run(t)
    PROVE  At(t)' = At(t) \/ Nearer(t)
<1>. USE DEF Threads, Goto, TypeOK, ThreadsTypeOK, Free
<1>0. pc[t] \in Executing \cup Publishing \cup {"dead"}
  BY DEF Safe, LockHolderAtWork
<1>1. CASE World
  BY <1>1 DEF World, commandVars, effortVars, publishVars, threadVars, At
<1>2. ASSUME NEW c \in UserCommands, Request(c)
      PROVE  At(t)' = At(t)
  BY <1>0, <1>2 DEF Request, effortVars, publishVars, At, Executing, Publishing
<1>3. CASE Kill
  <2>1. CASE t = "main"
    <3>1. pc[t] \in Executing \cup Publishing /\ pc'[t] = "dead"
      BY <1>0, <1>3, <2>1 DEF Kill, Alive
    <3>2. Stage(t) > 0 /\ Stage(t)' = 0
      BY <3>1 DEF Stage, Executing, Publishing
    <3>. QED
      BY <3>2 DEF Nearer, Stage
  <2>2. CASE t # "main"
    BY <1>3, <2>2 DEF Kill, effortVars, publishVars, At
  <2>. QED
    BY <2>1, <2>2
<1>4. ~Restart
  BY DEF Restart
<1>5. ASSUME NEW u \in Threads, u # t, Run(u)
      PROVE  At(t)' = At(t)
  <2>1. pc[u] \notin Executing
    BY <1>5 DEF Safe, CommandsSerialised
  <2>2. ~Execute(u)
    BY <2>1 DEF Execute, Executing, Acquire, LockAvailable, Check, Accepted, Refused, ReplyLost,
       NoSuchCommand, ReadBack, ReadBackFails, Assign, Judge, Over, Trips, Verdict, Defer, Report, Quote, Release
  <2>3. CASE Publish(u)
    BY <1>5, <2>3 DEF Publish, Observe, Announce, Heartbeat, Build, Enqueue, commandVars, effortVars, publishVars, At
  <2>4. CASE ~Publish(u)
    BY <1>5, <2>2, <2>4 DEF Run, Poll, TakeReply, PollFails, Fault, Service, Act, TakeCommand, GiveUp,
       commandVars, effortVars, publishVars, At
  <2>. QED
    BY <2>3, <2>4
<1>. QED
  BY <1>1, <1>2, <1>3, <1>4, <1>5 DEF Next

\* The holder has publishing left: every message brings its end nearer
\* (_publish).
LEMMA PublishingAdvances ==
    ASSUME TypeOK, NEW t \in Threads, lock = t, Publish(t)
    PROVE  Nearer(t)
<1>t. pc \in [Threads -> Labels] /\ events \in [Threads -> Batches]
  BY DEF TypeOK, ThreadsTypeOK
<1>g. ASSUME NEW l, Goto(t, l) PROVE pc'[t] = l
  BY <1>g, <1>t DEF Goto
<1>1. CASE Observe(t)
  BY <1>1, <1>g DEF Observe, Nearer, Stage
<1>2. CASE Announce(t) \/ Heartbeat(t)
  BY <1>2, <1>g DEF Announce, Heartbeat, AfterPublish, Nearer, Stage
<1>3. CASE Build(t)
  <2>1. /\ pc[t] = "build" /\ pc'[t] = "enqueue"
        /\ UNCHANGED <<events, attempt, reads>>
    BY <1>3, <1>g DEF Build, commandVars, effortVars
  <2>2. Stage(t)' = Stage(t) /\ RoundsLeft(t)' = RoundsLeft(t) /\ ReadsLeft(t)' = ReadsLeft(t)
    <3>1. Stage(t)' = 2 /\ Stage(t) = 2
      BY <2>1 DEF Stage
    <3>2. RoundsLeft(t)' = RoundsLeft(t)
      BY <2>1, <3>1 DEF RoundsLeft
    <3>3. ReadsLeft(t)' = ReadsLeft(t)
      BY <2>1 DEF ReadsLeft
    <3>. QED
      BY <3>1, <3>2, <3>3
  <2>3. StepsLeft(t)' = 0 /\ StepsLeft(t) = 1
    BY <2>1 DEF StepsLeft
  <2>. QED
    BY <2>2, <2>3 DEF Nearer
<1>4. CASE Enqueue(t)
  <2>1. CASE Rest(events[t]) = <<>>
    BY <1>4, <1>g, <2>1 DEF Enqueue, AfterPublish, Nearer, Stage
  <2>2. CASE Rest(events[t]) # <<>>
    <3>1. /\ pc[t] = "enqueue" /\ pc'[t] = "build"
          /\ events'[t] = Rest(events[t])
      BY <1>4, <1>g, <1>t, <2>2 DEF Enqueue
    <3>2. Len(Rest(events[t])) < Len(events[t])
      <4>1. events[t] \in Batches
        BY <1>t
      <4>. QED
        BY <4>1, <2>2 DEF Rest, Batches
    <3>3. Stage(t)' = 2 /\ Stage(t) = 2
      BY <3>1 DEF Stage
    <3>4. RoundsLeft(t)' < RoundsLeft(t)
      BY <3>1, <3>2, <3>3 DEF RoundsLeft
    <3>. QED
      BY <3>3, <3>4 DEF Nearer
  <2>. QED
    BY <2>1, <2>2
<1>. QED
  BY <1>1, <1>2, <1>3, <1>4 DEF Publish

\* The two retry loops: a further attempt, or the verdict (_attempt_command) ...
LEMMA NextAttemptAdvances ==
    ASSUME TypeOK, NEW t \in Threads, Stage(t) = 9, NextAttempt(t)
    PROVE  Nearer(t)
<1>. USE AgentAssumption DEF Threads, Goto, TypeOK, ThreadsTypeOK, CountersTypeOK
<1>1. CASE attempt < MaxCommandAttempts
  <2>1. pc'[t] = "attempt" /\ attempt' = attempt + 1
    BY <1>1 DEF NextAttempt
  <2>2. Stage(t)' = 9
    BY <2>1 DEF Stage
  <2>3. RoundsLeft(t)' < RoundsLeft(t)
    BY <2>1, <2>2 DEF RoundsLeft
  <2>. QED
    BY <2>2, <2>3 DEF Nearer
<1>2. CASE ~(attempt < MaxCommandAttempts)
  BY <1>2 DEF NextAttempt, Nearer, Stage
<1>. QED
  BY <1>1, <1>2

\* ... and a further read-back, or the next attempt (_read_back).
LEMMA NextReadAdvances ==
    ASSUME TypeOK, NEW t \in Threads, pc[t] \in {"readback", "judge", "over"}, NextRead(t)
    PROVE  Nearer(t)
<1>. USE AgentAssumption DEF Threads, Goto, TypeOK, ThreadsTypeOK, CountersTypeOK
<1>0. Stage(t) = 9
  BY DEF Stage
<1>1. CASE reads < ReadbackAttempts
  <2>1. pc'[t] = "readback" /\ reads' = reads + 1 /\ attempt' = attempt
    BY <1>1 DEF NextRead
  <2>2. Stage(t)' = 9
    BY <2>1 DEF Stage
  <2>3. RoundsLeft(t)' = RoundsLeft(t)
    BY <1>0, <2>1, <2>2 DEF RoundsLeft
  <2>4. ReadsLeft(t)' < ReadsLeft(t)
    BY <2>1 DEF ReadsLeft
  <2>. QED
    BY <1>0, <2>2, <2>3, <2>4 DEF Nearer
<1>2. CASE ~(reads < ReadbackAttempts)
  BY <1>0, <1>2, NextAttemptAdvances DEF NextRead
<1>. QED
  BY <1>1, <1>2

\* The holder's way through execute_command.
LEMMA ExecutingAdvances ==
    ASSUME TypeOK, NEW t \in Threads, lock = t, lock' = t, Execute(t)
    PROVE  Nearer(t)
<1>t. /\ pc \in [Threads -> Labels] /\ t # Free
      /\ attempt \in 0..MaxCommandAttempts /\ reads \in 0..ReadbackAttempts
  BY DEF TypeOK, ThreadsTypeOK, CountersTypeOK, Threads, Free
<1>g. ASSUME NEW l, Goto(t, l) PROVE pc'[t] = l
  BY <1>g, <1>t DEF Goto
<1>1. ~Acquire(t) /\ ~NoSuchCommand(t) /\ ~Release(t)
  BY <1>t DEF Acquire, LockAvailable, NoSuchCommand, Raise, Release
<1>2. CASE Check(t) \/ Verdict(t) \/ Report(t)
  BY <1>2, <1>g DEF Check, Verdict, Report, Nearer, Stage
<1>3. CASE Accepted(t)
  <2>1. pc[t] = "attempt" /\ pc'[t] = "readback" /\ reads' = 1 /\ attempt' = attempt
    BY <1>3, <1>g DEF Accepted
  <2>2. Stage(t)' = Stage(t) /\ RoundsLeft(t)' = RoundsLeft(t)
    BY <2>1 DEF Stage, RoundsLeft
  <2>3. ReadsLeft(t)' < ReadsLeft(t)
    BY <2>1, AgentAssumption DEF ReadsLeft
  <2>. QED
    BY <2>2, <2>3 DEF Nearer
<1>4. CASE Refused(t) \/ ReplyLost(t)
  <2>1. Stage(t) = 9 /\ NextAttempt(t)
    BY <1>4 DEF Refused, ReplyLost, Stage
  <2>. QED
    BY <2>1, NextAttemptAdvances
<1>5. CASE ReadBack(t) \/ Assign(t)
  <2>1. /\ \/ pc[t] = "readback" /\ pc'[t] = "assign"
           \/ pc[t] = "assign" /\ pc'[t] = "judge"
        /\ UNCHANGED <<attempt, reads>>
    BY <1>5, <1>g DEF ReadBack, Assign, commandVars, effortVars
  <2>2. Stage(t)' = Stage(t) /\ RoundsLeft(t)' = RoundsLeft(t) /\ ReadsLeft(t)' = ReadsLeft(t)
    <3>1. Stage(t)' = 9 /\ Stage(t) = 9
      BY <2>1 DEF Stage
    <3>2. RoundsLeft(t)' = RoundsLeft(t)
      BY <2>1, <3>1 DEF RoundsLeft
    <3>3. ReadsLeft(t)' = ReadsLeft(t)
      BY <2>1 DEF ReadsLeft
    <3>. QED
      BY <3>1, <3>2, <3>3
  <2>3. StepsLeft(t)' < StepsLeft(t)
    BY <2>1 DEF StepsLeft
  <2>. QED
    BY <2>2, <2>3 DEF Nearer
<1>6. CASE ReadBackFails(t)
  BY <1>6, NextReadAdvances DEF ReadBackFails
<1>7. ASSUME NEW l, Trips(t, l) PROVE FALSE
  BY <1>7, <1>t DEF Trips, Raise
<1>8. CASE Judge(t) \/ Over(t)
  <2>1. pc[t] \in {"judge", "over"}
    BY <1>7, <1>8 DEF Judge, Over
  <2>2. pc'[t] = "observe" \/ NextRead(t) \/ (pc[t] = "judge" /\ pc'[t] = "over" /\ UNCHANGED <<attempt, reads>>)
    BY <1>7, <1>8, <1>g DEF Judge, Over
  <2>3. CASE pc'[t] = "observe"
    BY <2>1, <2>3 DEF Nearer, Stage
  <2>4. CASE pc[t] = "judge" /\ pc'[t] = "over" /\ UNCHANGED <<attempt, reads>>
    <3>1. Stage(t)' = 9 /\ Stage(t) = 9
      BY <2>4 DEF Stage
    <3>2. RoundsLeft(t)' = RoundsLeft(t) /\ ReadsLeft(t)' = ReadsLeft(t)
      BY <2>4, <3>1 DEF RoundsLeft, ReadsLeft
    <3>3. StepsLeft(t)' < StepsLeft(t)
      BY <2>4 DEF StepsLeft
    <3>. QED
      BY <3>1, <3>2, <3>3 DEF Nearer
  <2>. QED
    BY <2>1, <2>2, <2>3, <2>4, NextReadAdvances
<1>9. CASE Defer(t) \/ Quote(t)
  BY <1>7, <1>9, <1>g DEF Defer, Quote, Nearer, Stage
<1>. QED
  BY <1>1, <1>2, <1>3, <1>4, <1>5, <1>6, <1>8, <1>9 DEF Execute

\* Every step of a command brings its end nearer, for every number of attempts
\* and read-backs (CommandsAdvance).
THEOREM CommandsAdvanceCorrect == Spec => CommandsAdvance
<1>1. ASSUME TypeOK, Safe, Next PROVE CommandAdvances
  <2>. SUFFICES ASSUME NEW t \in Threads, lock = t, lock' = t, At(t)' # At(t)
                PROVE  Nearer(t)
    BY DEF CommandAdvances, At
  <2>1. CASE ~Run(t)
    BY <1>1, <2>1, OthersLeaveItAlone
  <2>2. CASE Publish(t)
    BY <1>1, <2>2, PublishingAdvances
  <2>3. CASE Execute(t)
    BY <1>1, <2>3, ExecutingAdvances
  <2>4. CASE Run(t) /\ ~Publish(t) /\ ~Execute(t)
    <3>1. pc[t] \in Executing \cup Publishing \cup {"dead"}
      BY <1>1 DEF Safe, LockHolderAtWork
    <3>2. pc[t] \in {"idle", "polled", "fault", "service", "act", "leaving"}
      BY <2>4 DEF Run, Poll, TakeReply, PollFails, Fault, Service, Act, TakeCommand, GiveUp
    <3>. QED
      BY <3>1, <3>2 DEF Executing, Publishing
  <2>. QED
    BY <2>1, <2>2, <2>3, <2>4
<1>2. TypeOK /\ Safe /\ [Next]_vars => [CommandAdvances]_vars
  BY <1>1
<1>. QED
  BY <1>2, TypeCorrect, SafeInvariant, PTL DEF Spec, CommandsAdvance
-----------------------------------------------------------------------------
(***************************************************************************)
(* The agent implements DeferredPause: what is being done is the command   *)
(* of the lock's holder, what is kept is pending_command.  Of the steps    *)
(* only those that take or give back the lock, the deferral, the poll      *)
(* loop's swap and a restart are seen there.                               *)
(***************************************************************************)
Doing == IF lock = Free THEN NoCmd ELSE cmd[lock]

\* A step that moves neither the lock, nor its holder's command, nor the intent
\* is a stutter (execute_command).
LEMMA PromiseStutters ==
    ASSUME UNCHANGED <<lock, pending>>, cmd'[lock] = cmd[lock]
    PROVE  UNCHANGED <<Doing, pending>>
BY DEF Doing

\* Every step of the agent is a step of DeferredPause, or a stutter.
LEMMA PromiseStep ==
    ASSUME TypeOK, Safe, Next
    PROVE  Promise!Next \/ UNCHANGED <<Doing, pending>>
<1>. USE DEF Promise!Nothing, NoCmd, Threads, Free, TypeOK, ThreadsTypeOK, ObjectTypeOK
<1>0. ASSUME NEW t \in Threads, pc[t] \in Executing
      PROVE  lock = t
  BY <1>0 DEF Safe, CommandsSerialised
<1>1. ASSUME NEW t \in Threads, lock = t, lock' = Free, UNCHANGED pending
      PROVE  Promise!Next \/ UNCHANGED <<Doing, pending>>
  BY <1>1 DEF Doing, Promise!Next, Promise!End
<1>2. ASSUME NEW t \in Threads, Acquire(t)
      PROVE  Promise!Next \/ UNCHANGED <<Doing, pending>>
  <2>1. /\ Doing = NoCmd /\ Doing' = cmd[t]
        /\ pending' = IF cmd[t] \in {"resume", "cancel"} THEN NoCmd ELSE pending
    BY <1>2 DEF Acquire, LockAvailable, DropsIntent, Doing
  <2>2. CASE cmd[t] = NoCmd
    BY <2>1, <2>2
  <2>3. CASE cmd[t] \in Commands
    <3>1. Promise!Begin(cmd[t])
      BY <2>1, <2>3 DEF Doing, Promise!Begin, Commands
    <3>. QED
      BY <2>3, <3>1 DEF Promise!Next, Commands
  <2>. QED
    BY <2>2, <2>3
<1>p. ASSUME NEW t \in Threads, NEW l \in Executing, Trips(t, l)
      PROVE  Promise!Next \/ UNCHANGED <<Doing, pending>>
  <2>1. lock = t /\ lock' = Free /\ UNCHANGED pending
    BY <1>0, <1>p DEF Trips, Raise, intentVars
  <2>. QED
    BY <1>1, <2>1
<1>3. ASSUME NEW t \in Threads, Defer(t)
      PROVE  Promise!Next \/ UNCHANGED <<Doing, pending>>
  <2>1. CASE Trips(t, "defer")
    BY <1>p, <2>1 DEF Executing
  <2>2. CASE ~Trips(t, "defer")
    <3>1. lock = t /\ cmd[t] = "pause" /\ UNCHANGED <<lock, cmd>>
      BY <1>0, <1>3, <2>2 DEF Defer, Executing, Safe, OnlyPausesWait
    <3>2. Doing = "pause" /\ UNCHANGED Doing
      BY <3>1 DEF Doing
    <3>3. pending' = "pause" \/ UNCHANGED pending
      BY <1>3, <2>2 DEF Defer, intentVars
    <3>. QED
      BY <3>2, <3>3 DEF Promise!Next, Promise!Keep, Doing
  <2>. QED
    BY <2>1, <2>2
<1>4. ASSUME NEW t \in Threads, NoSuchCommand(t) \/ Release(t)
      PROVE  Promise!Next \/ UNCHANGED <<Doing, pending>>
  <2>1. lock = t /\ lock' = Free /\ UNCHANGED pending
    BY <1>0, <1>4 DEF NoSuchCommand, Release, Raise, Executing, intentVars
  <2>. QED
    BY <1>1, <2>1
<1>5. ASSUME NEW t \in Threads, Judge(t) \/ Over(t) \/ Quote(t)
      PROVE  Promise!Next \/ UNCHANGED <<Doing, pending>>
  <2>1. lock = t /\ UNCHANGED pending /\ (lock' = Free \/ UNCHANGED <<lock, cmd>>)
    BY <1>0, <1>5 DEF Judge, Over, Quote, Trips, Raise, Executing, intentVars
  <2>2. CASE lock' = Free
    BY <1>1, <2>1, <2>2
  <2>3. CASE UNCHANGED <<lock, cmd>>
    BY <2>1, <2>3, PromiseStutters
  <2>. QED
    BY <2>1, <2>2, <2>3
<1>6. ASSUME NEW t \in Threads,
             \/ Check(t) \/ Accepted(t) \/ Refused(t) \/ ReplyLost(t)
             \/ ReadBack(t) \/ ReadBackFails(t) \/ Assign(t) \/ Verdict(t) \/ Report(t) \/ Publish(t)
      PROVE  UNCHANGED <<lock, cmd, pending>>
  BY <1>6 DEF Check, Accepted, Refused, ReplyLost, ReadBack, ReadBackFails, Assign, Verdict, Report, Publish,
     Observe, Announce, Heartbeat, Build, Enqueue, intentVars
<1>7. ASSUME World \/ Kill \/ (\E c \in UserCommands : Request(c))
             \/ Poll \/ TakeReply \/ PollFails \/ Fault \/ Service \/ GiveUp
      PROVE  UNCHANGED <<lock, cmd, pending>>
  BY <1>7 DEF World, Kill, Request, Poll, TakeReply, PollFails, Fault, Service, GiveUp, intentVars, threadVars
<1>8. CASE UNCHANGED <<lock, cmd, pending>>
  BY <1>8, PromiseStutters
<1>9. CASE TakeCommand
  <2>1. lock # "commands"
    BY <1>9 DEF TakeCommand, Safe, LockHolderAtWork, Executing, Publishing
  <2>2. UNCHANGED <<lock, pending>> /\ cmd'["main"] = cmd["main"]
    BY <1>9 DEF TakeCommand, intentVars
  <2>. QED
    BY <2>1, <2>2 DEF Doing
<1>10. CASE Act
  <2>1. lock # "main"
    BY <1>10 DEF Act, Safe, LockHolderAtWork, Executing, Publishing
  <2>2. UNCHANGED lock /\ cmd'["commands"] = cmd["commands"]
    BY <1>10 DEF Act
  <2>3. UNCHANGED Doing
    BY <2>1, <2>2 DEF Doing
  <2>4. pending' = NoCmd \/ UNCHANGED pending
    BY <1>10 DEF Act
  <2>. QED
    BY <2>3, <2>4 DEF Promise!Next, Promise!Settle, Doing
<1>11. CASE Restart
  BY <1>11 DEF Restart, Doing, Promise!Next, Promise!Forget
<1>. QED
  BY <1>2, <1>3, <1>4, <1>5, <1>6, <1>7, <1>8, <1>9, <1>10, <1>11 DEF Next, Run, Execute

\* Lock, threads, retries and read-backs keep the promise of the deferred pause
\* (KeepsItsPromise).
THEOREM KeepsItsPromiseCorrect == Spec => KeepsItsPromise
<1>1. Init => Promise!Init
  BY DEF Init, Promise!Init, Promise!Nothing, NoCmd, Free
<1>2. TypeOK /\ Safe /\ [Next]_vars => [Promise!Next]_<<Doing, pending>>
  <2>1. UNCHANGED vars => UNCHANGED <<Doing, pending>>
    BY DEF vars, threadVars, intentVars, Doing
  <2>. QED
    BY <2>1, PromiseStep
<1>. QED
  BY <1>1, <1>2, TypeCorrect, SafeInvariant, PTL DEF Spec, KeepsItsPromise, Promise!Spec, Doing
=============================================================================
