------------------------- MODULE ObicoServerProofs -------------------------
EXTENDS ObicoServer, SequenceTheorems, TLAPS

\* Taking the head off a run of messages leaves the rest of the run
\* (queue.get, also when it drops the oldest).
LEMMA TailOfQueue ==
    ASSUME NEW s \in Seq(Nat), s # <<>>
    PROVE  /\ Tail(s) \in Seq(Nat)
           /\ Len(Tail(s)) = Len(s) - 1
           /\ \A i \in 1..Len(Tail(s)) : Tail(s)[i] = s[i + 1]
           /\ Head(s) = s[1] /\ Head(s) \in Nat /\ Len(s) >= 1
OBVIOUS

\* Every variable keeps its type in every step: the queue its bound, the
\* backoff its range.
LEMMA TypeStep ==
    ASSUME TypeOK, Next
    PROVE  TypeOK'
<1>. USE ObicoAssumption DEF TypeOK
<1>n. NoMessage \in Nat
  BY DEF NoMessage
<1>e. EndSession => /\ connected' = FALSE /\ link' = "none" /\ reading' = FALSE /\ failure' = "none"
                    /\ pc' = "sleep" /\ inflight' \in Nat
                    /\ backoff' \in BackoffStart..BackoffMax
  BY <1>n DEF EndSession
<1>1. ASSUME NEW p \in Producers, Send(p) \/ Full(p)
      PROVE  TypeOK'
  BY <1>1 DEF Send, Full, threadVars, linkVars, historyVars
<1>2. ASSUME NEW p \in Producers, Put(p)
      PROVE  TypeOK'
  <2>1. queue' \in Seq(Nat) /\ Len(queue') = Len(queue) + 1
    BY <1>2 DEF Put
  <2>2. Len(queue') <= QueueMax
    BY <1>2, <2>1 DEF Put, QueueFull
  <2>. QED
    BY <1>2, <2>1, <2>2 DEF Put, threadVars, linkVars
<1>3. ASSUME NEW p \in Producers, Drop(p)
      PROVE  TypeOK'
  <2>1. queue' \in Seq(Nat) /\ Len(queue') <= QueueMax
    <3>1. CASE queue = <<>>
      BY <1>3, <3>1 DEF Drop, OldestDropped
    <3>2. CASE queue # <<>>
      <4>1. queue' = Tail(queue)
        BY <1>3, <3>2 DEF Drop, OldestDropped
      <4>. QED
        BY <4>1, <3>2, TailOfQueue
    <3>. QED
      BY <3>1, <3>2
  <2>. QED
    BY <1>3, <2>1 DEF Drop, threadVars, linkVars, historyVars
<1>4. CASE Loop \/ ConnectFails
  BY <1>4 DEF Loop, ConnectFails, producerVars, linkVars, historyVars
<1>5. CASE Sleep
  <2>1. backoff' \in BackoffStart..BackoffMax
    BY <1>5 DEF Sleep, Later
  <2>. QED
    BY <1>5, <2>1 DEF Sleep, producerVars, linkVars, historyVars
<1>6. CASE Connect
  BY <1>6 DEF Connect, producerVars
<1>7. CASE Check
  <2>1. shared' \in BOOLEAN
    <3>1. shared' = shared \/ shared' = (shared \/ failure = "4321")
      BY <1>7 DEF Check
    <3>. QED
      BY <3>1, Zenon
  <2>2. CASE EndSession
    BY <1>7, <2>1, <2>2, <1>e DEF Check, producerVars, historyVars
  <2>3. CASE UNCHANGED <<connected, link, reading, failure, inflight, backoff>> /\ pc' = "get"
    BY <1>7, <2>1, <2>3 DEF Check, producerVars, historyVars
  <2>. QED
    BY <1>7, <2>2, <2>3, Zenon DEF Check
<1>8. CASE Get
  <2>1. queue' \in Seq(Nat) /\ Len(queue') <= QueueMax /\ inflight' \in Nat
    <3>1. CASE queue = <<>>
      BY <1>8, <3>1 DEF Get
    <3>2. CASE queue # <<>>
      <4>1. queue' = Tail(queue) /\ inflight' = Head(queue)
        BY <1>8, <3>2 DEF Get
      <4>. QED
        BY <4>1, <3>2, TailOfQueue
    <3>. QED
      BY <3>1, <3>2
  <2>. QED
    BY <1>8, <2>1 DEF Get, producerVars, linkVars, historyVars
<1>9. CASE Deliver
  BY <1>9, <1>n DEF Deliver, producerVars, linkVars
<1>10. CASE SendIntoVoid
  BY <1>10, <1>n DEF SendIntoVoid, producerVars, historyVars
<1>11. CASE SendFails
  BY <1>11, <1>e DEF SendFails, QueueAfterFailure, producerVars, historyVars
<1>12. CASE ReaderFails
  BY <1>12 DEF ReaderFails, Noticed, producerVars, linkVars, historyVars
<1>13. CASE Stop
  BY <1>13 DEF Stop, producerVars, threadVars, linkVars, historyVars
<1>14. CASE Cut \/ GiveUp \/ GoDown \/ ComeUp
  <2>1. link' \in {"none", "up", "cut", "closed"}
    BY <1>14 DEF Cut, GiveUp, GoDown, ComeUp
  <2>2. up' \in BOOLEAN
    BY <1>14, Zenon DEF Cut, GiveUp, GoDown, ComeUp
  <2>3. faults' = faults \/ faults' = faults + 1
    BY <1>14 DEF Cut, GiveUp, GoDown, ComeUp
  <2>. QED
    BY <1>14, <2>1, <2>2, <2>3 DEF Cut, GiveUp, GoDown, ComeUp, producerVars, threadVars, historyVars
<1>15. ASSUME NEW c \in {"plain", "4321"}, Close(c)
       PROVE  TypeOK'
  <2>1. turnedAway' \in BOOLEAN
    BY <1>15, Zenon DEF Close
  <2>2. /\ link' = "closed" /\ code' \in {"plain", "4321"} /\ faults' = faults + 1
        /\ UNCHANGED <<producerVars, queue, connected, shared, stopping, threadVars, unacked, up, puts, heard>>
    BY <1>15, Zenon DEF Close
  <2>. QED
    BY <2>1, <2>2 DEF producerVars, threadVars
<1>. QED
  BY <1>1, <1>2, <1>3, <1>4, <1>5, <1>6, <1>7, <1>8, <1>9, <1>10, <1>11, <1>12, <1>13, <1>14, <1>15
  DEF Next, Produce, Websocket, World

\* Every variable keeps its type (TypeOK).
THEOREM TypeCorrect == Spec => []TypeOK
<1>1. Init => TypeOK
  <2>. SUFFICES ASSUME Init PROVE TypeOK
    OBVIOUS
  <2>1. step \in [Producers -> {"idle", "put", "full"}]
    BY Zenon DEF Init
  <2>2. queue \in Seq(Nat) /\ Len(queue) <= QueueMax
    BY ObicoAssumption DEF Init
  <2>3. backoff \in BackoffStart..BackoffMax
    BY ObicoAssumption DEF Init
  <2>. QED
    BY <2>1, <2>2, <2>3 DEF Init, TypeOK, NoMessage
<1>2. TypeOK /\ [Next]_vars => TypeOK'
  <2>1. ASSUME TypeOK, Next PROVE TypeOK'
    BY <2>1, TypeStep
  <2>2. ASSUME TypeOK, UNCHANGED vars PROVE TypeOK'
    BY <2>2 DEF TypeOK, vars, producerVars, threadVars, linkVars, historyVars
  <2>. QED
    BY <2>1, <2>2
<1>. QED
  BY <1>1, <1>2, PTL DEF Spec
-----------------------------------------------------------------------------
(***************************************************************************)
(* The queue and what Obico has heard, counted along one line of numbers:  *)
(* heard, then perhaps the message in flight, then the queue without a gap *)
(* up to the last message put.                                             *)
(***************************************************************************)
Behind == puts - Len(queue)     \* the last number that is off the queue

HeardIsBehind ==
    /\ heard <= Behind
    /\ pc = "send" => heard < inflight /\ inflight <= Behind

InLine == QueueHoldsTheLatest /\ HeardIsBehind

\* Every step keeps the line.
LEMMA InLineStep ==
    ASSUME TypeOK, InLine, Next
    PROVE  InLine'
<1>. USE DEF InLine, QueueHoldsTheLatest, HeardIsBehind, Behind
<1>t. queue \in Seq(Nat) /\ puts \in Nat /\ heard \in Nat /\ inflight \in Nat /\ Len(queue) \in Nat
  BY DEF TypeOK
<1>1. ASSUME NEW p \in Producers, Put(p)
      PROVE  InLine'
  <2>1. queue' = Append(queue, puts + 1) /\ puts' = puts + 1
    BY <1>1 DEF Put
  <2>2. /\ Len(queue') = Len(queue) + 1
        /\ \A i \in 1..Len(queue) : queue'[i] = queue[i]
        /\ queue'[Len(queue) + 1] = puts + 1
    BY <1>t, <2>1
  <2>3. UNCHANGED <<heard, pc, inflight>>
    BY <1>1 DEF Put, threadVars
  <2>4. QueueHoldsTheLatest'
    <3>. SUFFICES ASSUME NEW i \in 1..Len(queue')
                  PROVE  queue'[i] = puts' - Len(queue') + i
      OBVIOUS
    <3>1. CASE i = Len(queue) + 1
      BY <1>t, <2>1, <2>2, <3>1
    <3>2. CASE i \in 1..Len(queue)
      BY <1>t, <2>1, <2>2, <3>2
    <3>. QED
      BY <1>t, <2>2, <3>1, <3>2
  <2>5. HeardIsBehind'
    BY <1>t, <2>1, <2>2, <2>3
  <2>. QED
    BY <2>4, <2>5
<1>2. ASSUME NEW p \in Producers, Drop(p)
      PROVE  InLine'
  <2>1. UNCHANGED <<heard, pc, inflight, puts>>
    BY <1>2 DEF Drop, threadVars, historyVars
  <2>2. CASE queue = <<>>
    BY <1>2, <2>1, <2>2 DEF Drop, OldestDropped
  <2>3. CASE queue # <<>>
    <3>1. queue' = Tail(queue)
      BY <1>2, <2>3 DEF Drop, OldestDropped
    <3>. QED
      BY <1>t, <2>1, <2>3, <3>1, TailOfQueue
  <2>. QED
    BY <2>2, <2>3
<1>3. CASE Get
  <2>1. CASE queue = <<>>
    BY <1>3, <2>1 DEF Get, historyVars
  <2>2. CASE queue # <<>>
    <3>1. queue' = Tail(queue) /\ inflight' = Head(queue) /\ UNCHANGED <<puts, heard>>
      BY <1>3, <2>2 DEF Get, historyVars
    <3>. QED
      BY <1>t, <2>2, <3>1, TailOfQueue
  <2>. QED
    BY <2>1, <2>2
<1>4. CASE Deliver
  BY <1>t, <1>4 DEF Deliver
<1>5. CASE SendFails
  BY <1>5 DEF SendFails, QueueAfterFailure, EndSession, historyVars
<1>6. CASE UNCHANGED <<queue, puts, heard>> /\ (UNCHANGED <<pc, inflight>> \/ pc' # "send")
  BY <1>6
<1>7. ASSUME NEW p \in Producers, Send(p) \/ Full(p)
      PROVE  InLine'
  BY <1>7, <1>6 DEF Send, Full, threadVars, historyVars
<1>8. CASE Loop \/ Sleep \/ Connect \/ ConnectFails \/ SendIntoVoid
  BY <1>8, <1>6 DEF Loop, Sleep, Connect, ConnectFails, SendIntoVoid, historyVars
<1>9. CASE Check
  BY <1>9, <1>6 DEF Check, EndSession, historyVars
<1>10. CASE ReaderFails \/ Stop
  BY <1>10, <1>6 DEF ReaderFails, Stop, threadVars, historyVars
<1>11. CASE World
  BY <1>11, <1>6 DEF World, Cut, GiveUp, Close, GoDown, ComeUp, threadVars, historyVars
<1>. QED
  BY <1>1, <1>2, <1>3, <1>4, <1>5, <1>7, <1>8, <1>9, <1>10, <1>11 DEF Next, Produce, Websocket

\* The inductive invariant.
LEMMA InLineInvariant == Spec => []InLine
<1>1. Init => InLine
  BY DEF Init, InLine, QueueHoldsTheLatest, HeardIsBehind, Behind
<1>2. TypeOK /\ InLine /\ [Next]_vars => InLine'
  <2>1. ASSUME TypeOK, InLine, Next PROVE InLine'
    BY <2>1, InLineStep
  <2>2. ASSUME InLine, UNCHANGED vars PROVE InLine'
    BY <2>2 DEF vars, threadVars, historyVars, InLine, QueueHoldsTheLatest, HeardIsBehind, Behind
  <2>. QED
    BY <2>1, <2>2
<1>. QED
  BY <1>1, <1>2, TypeCorrect, PTL DEF Spec

\* The queue holds the latest messages without a gap, for every bound and any
\* number of senders (QueueHoldsTheLatest).
THEOREM QueueCorrect == Spec => []QueueHoldsTheLatest
BY InLineInvariant, PTL DEF InLine

\* The threads, the queue and the connections implement the lossy channel that
\* keeps the order: only a put sends, only a delivery is heard (ActsAsMailbox).
THEOREM MailboxCorrect == Spec => ActsAsMailbox
<1>1. Init => Channel!Init
  BY DEF Init, Channel!Init
<1>2. TypeOK /\ InLine /\ [Next]_vars => [Channel!Next]_<<puts, heard>>
  <2>. SUFFICES ASSUME TypeOK, InLine, Next, ~UNCHANGED <<puts, heard>>
                PROVE  Channel!Next
    BY DEF vars, historyVars
  <2>1. Deliver \/ \E p \in Producers : Put(p)
    BY DEF Next, Produce, Send, Full, Drop, Websocket, Loop, Sleep, Connect, ConnectFails, Check, Get,
       SendIntoVoid, SendFails, ReaderFails, Stop, World, Cut, GiveUp, Close, GoDown, ComeUp, historyVars
  <2>2. CASE Deliver
    <3>1. heard' = inflight /\ UNCHANGED puts /\ heard < inflight /\ inflight <= puts - Len(queue)
      BY <2>2 DEF Deliver, InLine, HeardIsBehind, Behind
    <3>2. heard' \in (heard + 1)..puts
      BY <3>1 DEF TypeOK
    <3>. QED
      BY <3>1, <3>2 DEF Channel!Next, Channel!Hear
  <2>3. CASE \E p \in Producers : Put(p)
    BY <2>3 DEF Put, Channel!Next, Channel!Accept
  <2>. QED
    BY <2>1, <2>2, <2>3
<1>. QED
  BY <1>1, <1>2, TypeCorrect, InLineInvariant, PTL DEF Spec, ActsAsMailbox, Channel!Spec
-----------------------------------------------------------------------------
(***************************************************************************)
(* A session and what belongs to it.  The connection, its reader and the   *)
(* reader's failure live exactly while the pump runs, one of the latter    *)
(* two is always there, and a pump that has learnt of 4321 runs no more.   *)
(***************************************************************************)
Pumping == pc \in {"check", "get", "send"}

SessionWhole ==
    /\ link # "none" => reading \/ failure # "none"
    /\ failure # "none" => Pumping
    /\ reading => Pumping
    /\ connected => Pumping
    /\ shared => pc \in {"sleep", "loop", "ended"}

\* Every step keeps the session whole.
LEMMA SessionStep ==
    ASSUME TypeOK, SessionWhole, Next
    PROVE  SessionWhole'
<1>. USE DEF SessionWhole, Pumping
<1>e. EndSession => pc' = "sleep" /\ ~connected' /\ link' = "none" /\ ~reading' /\ failure' = "none"
  BY DEF EndSession
<1>1. ASSUME NEW p \in Producers, Produce(p)
      PROVE  SessionWhole'
  BY <1>1 DEF Produce, Send, Put, Full, Drop, threadVars, linkVars
<1>2. CASE Loop
  BY <1>2 DEF Loop, ShouldRun, linkVars
<1>3. CASE Sleep \/ ConnectFails \/ Connect
  BY <1>3 DEF Sleep, ConnectFails, Connect, linkVars
<1>4. CASE Check
  <2>1. CASE EndSession
    BY <2>1, <1>e
  <2>2. CASE ~EndSession
    BY <1>4, <2>2 DEF Check
  <2>. QED
    BY <2>1, <2>2
<1>5. CASE Get \/ Deliver \/ SendIntoVoid
  BY <1>5 DEF Get, Deliver, SendIntoVoid, linkVars
<1>6. CASE SendFails
  BY <1>6, <1>e DEF SendFails
<1>7. CASE ReaderFails
  <2>1. failure' # "none"
    BY <1>7 DEF ReaderFails, Noticed
  <2>. QED
    BY <1>7, <2>1 DEF ReaderFails, linkVars
<1>8. CASE Stop
  BY <1>8 DEF Stop, threadVars, linkVars
<1>9. CASE World
  BY <1>9 DEF World, Cut, GiveUp, Close, GoDown, ComeUp, threadVars
<1>. QED
  BY <1>1, <1>2, <1>3, <1>4, <1>5, <1>6, <1>7, <1>8, <1>9 DEF Next, Websocket

\* The inductive invariant.
LEMMA SessionInvariant == Spec => []SessionWhole
<1>1. Init => SessionWhole
  BY DEF Init, SessionWhole, Pumping
<1>2. TypeOK /\ SessionWhole /\ [Next]_vars => SessionWhole'
  <2>1. ASSUME TypeOK, SessionWhole, Next PROVE SessionWhole'
    BY <2>1, SessionStep
  <2>2. ASSUME SessionWhole, UNCHANGED vars PROVE SessionWhole'
    BY <2>2 DEF vars, threadVars, linkVars, SessionWhole, Pumping
  <2>. QED
    BY <2>1, <2>2
<1>. QED
  BY <1>1, <1>2, TypeCorrect, PTL DEF Spec

\* A closed connection has a reader that will notice or has noticed
\* (ClosedIsKnown).
THEOREM ClosedIsKnownCorrect == Spec => []ClosedIsKnown
<1>1. SessionWhole => ClosedIsKnown
  BY DEF SessionWhole, ClosedIsKnown
<1>. QED
  BY <1>1, SessionInvariant, PTL

\* What the reader has noticed ends the session within a round of the pump
\* (FailureEndsSession).
THEOREM FailureEndsSessionCorrect == Spec => FailureEndsSession
<1>1. ASSUME TypeOK, SessionWhole, Next, failure # "none", pc' # pc
      PROVE  StepsToEnd' < StepsToEnd
  <2>. USE <1>1 DEF StepsToEnd
  <2>1. Pumping
    BY DEF SessionWhole
  <2>2. Check \/ Get \/ Deliver \/ SendIntoVoid \/ SendFails
    BY <2>1 DEF Pumping, Next, Produce, Send, Put, Full, Drop, Websocket, Loop, Sleep, Connect, ConnectFails,
       ReaderFails, Stop, World, Cut, GiveUp, Close, GoDown, ComeUp, threadVars
  <2>3. CASE Check
    <3>1. pc = "check" /\ pc' = "sleep"
      BY <2>3 DEF Check, Failed, EndSession
    <3>. QED
      BY <3>1
  <2>4. CASE Get
    <3>1. pc = "get" /\ pc' \in {"check", "send"}
      BY <2>4 DEF Get
    <3>. QED
      BY <3>1
  <2>5. CASE Deliver \/ SendIntoVoid \/ SendFails
    <3>1. pc = "send" /\ pc' \in {"check", "sleep"}
      BY <2>5 DEF Deliver, SendIntoVoid, SendFails, EndSession
    <3>. QED
      BY <3>1
  <2>. QED
    BY <2>2, <2>3, <2>4, <2>5
<1>2. TypeOK /\ SessionWhole /\ [Next]_vars
        => [failure # "none" /\ pc' # pc => StepsToEnd' < StepsToEnd]_vars
  BY <1>1
<1>. QED
  BY <1>2, TypeCorrect, SessionInvariant, PTL DEF Spec, FailureEndsSession

\* Once the agent's process knows that it is turned away it makes no other
\* connection (SharedIsFinal).
THEOREM SharedIsFinalCorrect == Spec => SharedIsFinal
<1>1. ASSUME TypeOK, SessionWhole, Next, shared, ~connected
      PROVE  ~connected'
  <2>1. ~Connect
    BY <1>1 DEF SessionWhole, Connect
  <2>2. connected' = connected \/ ~connected'
    BY <1>1, <2>1 DEF Next, Produce, Send, Put, Full, Drop, Websocket, Loop, Sleep, ConnectFails, Check, EndSession,
       Get, Deliver, SendIntoVoid, SendFails, ReaderFails, Stop, World, Cut, GiveUp, Close, GoDown, ComeUp
  <2>. QED
    BY <1>1, <2>2
<1>2. TypeOK /\ SessionWhole /\ [Next]_vars => [shared /\ ~connected => ~connected']_vars
  BY <1>1
<1>. QED
  BY <1>2, TypeCorrect, SessionInvariant, PTL DEF Spec, SharedIsFinal
=============================================================================
