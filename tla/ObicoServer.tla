---------------------------- MODULE ObicoServer ----------------------------
(***************************************************************************)
(* obico/server.py: the threads that call send(), the websocket thread     *)
(* (_run, _session, _pump) and its reader, around one bounded queue and    *)
(* one connection at a time.                                               *)
(*                                                                         *)
(* What the reader dispatches goes to Agent.handle_server_message, which   *)
(* is Request of Agent.tla; here a text frame changes nothing.             *)
(***************************************************************************)
EXTENDS Integers, Sequences

CONSTANTS
    Producers,      \* the threads that send: the poll loop and the command thread
    QueueMax,       \* QUEUE_MAX
    BackoffStart,   \* BACKOFF_START_S
    BackoffMax,     \* BACKOFF_MAX_S
    MaxSends,       \* bound: calls of send() in all
    MaxFaults       \* bound: failures of the connection or of Obico in all

ASSUME ObicoAssumption ==
    /\ QueueMax \in Nat \ {0}
    /\ BackoffStart \in Nat \ {0} /\ BackoffMax \in Nat /\ BackoffStart <= BackoffMax
    /\ MaxSends \in Nat /\ MaxFaults \in Nat

VARIABLES
    \* the producers
    step,           \* where each is inside send()
    \* the ObicoServer object
    queue,          \* _queue, of message numbers
    connected,      \* connected.is_set()
    shared,         \* shared_token_detected.is_set()
    stopping,       \* _stop.is_set()
    \* the websocket thread and its reader
    pc,
    backoff,
    inflight,       \* the number of the message between _queue.get and the end of ws.send
    failure,        \* what the reader left for the pump
    reading,        \* is the reader of this connection running?
    \* the connection and Obico at its other end
    link,           \* "none", "up", "cut" in silence, or "closed" by Obico or the system
    code,           \* how it was closed: "plain" or "4321"
    unacked,        \* has something been written into a cut connection?
    up,             \* does Obico accept connections?
    sends, faults,
    \* history
    puts,           \* messages put on the queue so far; each is known by its number
    heard,          \* the number of the last message Obico received
    turnedAway      \* has Obico closed a connection with 4321?

producerVars == <<step, sends>>
threadVars == <<pc, backoff, inflight, failure, reading>>
linkVars == <<link, code, unacked, up, faults>>
historyVars == <<puts, heard, turnedAway>>
vars == <<producerVars, queue, connected, shared, stopping, threadVars, linkVars, historyVars>>

NoMessage == 0

Init ==
    /\ step = [p \in Producers |-> "idle"] /\ sends = 0
    /\ queue = <<>> /\ connected = FALSE /\ shared = FALSE /\ stopping = FALSE
    /\ pc = "loop" /\ backoff = BackoffStart /\ inflight = NoMessage
    /\ failure = "none" /\ reading = FALSE
    /\ link = "none" /\ code = "plain" /\ unacked = FALSE /\ up \in BOOLEAN /\ faults = 0
    /\ puts = 0 /\ heard = 0 /\ turnedAway = FALSE
-----------------------------------------------------------------------------
\* Agent._send_status builds a message and calls send ...
Send(p) ==
    /\ step[p] = "idle"
    /\ sends < MaxSends
    /\ sends' = sends + 1
    /\ step' = [step EXCEPT ![p] = "put"]
    /\ UNCHANGED <<queue, connected, shared, stopping, threadVars, linkVars, historyVars>>

FullOneLate == Len(queue) > QueueMax    \* mutant: one message more than the bound

QueueFull == Len(queue) >= QueueMax

\* ... which puts it on the queue and returns ...
Put(p) ==
    /\ step[p] = "put"
    /\ ~QueueFull
    /\ queue' = Append(queue, puts + 1)
    /\ puts' = puts + 1
    /\ step' = [step EXCEPT ![p] = "idle"]
    /\ UNCHANGED <<sends, connected, shared, stopping, threadVars, linkVars, heard, turnedAway>>

Full(p) ==
    /\ step[p] = "put"
    /\ QueueFull
    /\ step' = [step EXCEPT ![p] = "full"]
    /\ UNCHANGED <<sends, queue, connected, shared, stopping, threadVars,
                   linkVars, historyVars>>

NewestDropped == IF queue = <<>> THEN <<>> ELSE SubSeq(queue, 1, Len(queue) - 1)   \* mutant

OldestDropped == IF queue = <<>> THEN <<>> ELSE Tail(queue)

\* ... or, finding it full, first drops whatever is the oldest by then.
Drop(p) ==
    /\ step[p] = "full"
    /\ queue' = OldestDropped
    /\ step' = [step EXCEPT ![p] = "put"]
    /\ UNCHANGED <<sends, connected, shared, stopping, threadVars, linkVars, historyVars>>
-----------------------------------------------------------------------------
ShouldRunWhileUp == ~stopping /\ ~shared /\ up      \* mutant: one failed attempt ends it

ShouldRunAnyway == ~stopping        \* mutant: run goes on after 4321

ShouldRun == ~stopping /\ ~shared

\* _run.
Loop ==
    /\ pc = "loop"
    /\ pc' = IF ShouldRun THEN "connect" ELSE "ended"
    /\ UNCHANGED <<producerVars, queue, connected, shared, stopping, backoff, inflight, failure, reading,
                   linkVars, historyVars>>

Later == IF backoff * 2 <= BackoffMax THEN backoff * 2 ELSE BackoffMax

Sleep ==
    /\ pc = "sleep"
    /\ backoff' = IF ShouldRun THEN Later ELSE backoff
    /\ pc' = "loop"
    /\ UNCHANGED <<producerVars, queue, connected, shared, stopping, inflight, failure, reading,
                   linkVars, historyVars>>

\* _session opens the connection, _pump starts its reader.
Connect ==
    /\ pc = "connect" /\ up
    /\ link' = "up" /\ code' = "plain" /\ unacked' = FALSE
    /\ connected' = TRUE /\ failure' = "none" /\ reading' = TRUE
    /\ pc' = "check"
    /\ UNCHANGED <<producerVars, queue, shared, stopping, backoff, inflight, up, faults, puts, heard, turnedAway>>

ConnectFails ==
    /\ pc = "connect" /\ ~up
    /\ pc' = "sleep"
    /\ UNCHANGED <<producerVars, queue, connected, shared, stopping, backoff, inflight, failure, reading,
                   linkVars, historyVars>>

\* The end of _session, however it comes: the connection is closed, its reader
\* gone with it, and a message in flight is nobody's any more.
EndSession ==
    /\ connected' = FALSE /\ link' = "none" /\ reading' = FALSE /\ failure' = "none"
    /\ inflight' = NoMessage /\ backoff' = BackoffStart
    /\ pc' = "sleep"

FailedUnseen == FALSE       \* mutant: the pump never looks at `failure`

Failed == failure # "none"

\* _pump: first what the reader has to say ...
Check ==
    /\ pc = "check"
    /\ \/ /\ stopping
          /\ EndSession /\ UNCHANGED shared
       \/ /\ ~stopping /\ Failed
          /\ EndSession /\ shared' = (shared \/ failure = "4321")
       \/ /\ ~stopping /\ ~Failed
          /\ pc' = "get"
          /\ UNCHANGED <<connected, link, reading, failure, inflight, backoff, shared>>
    /\ UNCHANGED <<producerVars, queue, stopping, code, unacked, up, faults, historyVars>>

\* ... then the next message, if one comes within a fifth of a second ...
Get ==
    /\ pc = "get"
    /\ IF queue = <<>>
       THEN pc' = "check" /\ UNCHANGED <<queue, inflight>>
       ELSE pc' = "send" /\ inflight' = Head(queue) /\ queue' = Tail(queue)
    /\ UNCHANGED <<producerVars, connected, shared, stopping, backoff, failure, reading, linkVars, historyVars>>

\* ... which is sent: to Obico, or into a connection that is there no more.
Deliver ==
    /\ pc = "send" /\ link = "up"
    /\ heard' = inflight
    /\ inflight' = NoMessage /\ pc' = "check"
    /\ UNCHANGED <<producerVars, queue, connected, shared, stopping, backoff, failure, reading, linkVars,
                   puts, turnedAway>>

SendIntoVoid ==
    /\ pc = "send" /\ link \in {"cut", "closed"}
    /\ unacked' = TRUE
    /\ inflight' = NoMessage /\ pc' = "check"
    /\ UNCHANGED <<producerVars, queue, connected, shared, stopping, backoff, failure, reading,
                   link, code, up, faults, historyVars>>

LostIsQueuedAgain == Append(queue, inflight)    \* mutant: a failed message goes to the end

QueueAfterFailure == queue

SendFails ==
    /\ pc = "send" /\ link \in {"cut", "closed"}
    /\ queue' = QueueAfterFailure
    /\ EndSession
    /\ UNCHANGED <<producerVars, shared, stopping, code, unacked, up, faults, historyVars>>

OnlyRefusalNoticed == IF code = "4321" THEN "4321" ELSE "none"     \* mutant

Noticed == IF code = "4321" THEN "4321" ELSE "lost"

\* _reader: a closed connection becomes the pump's failure; a cut one is only
\* silence, which it waits out.
ReaderFails ==
    /\ reading /\ ~stopping
    /\ link = "closed"
    /\ failure' = Noticed
    /\ reading' = FALSE
    /\ UNCHANGED <<producerVars, queue, connected, shared, stopping, pc, backoff, inflight, linkVars, historyVars>>

\* stop(), called on the way out of the process.
Stop ==
    /\ ~stopping
    /\ stopping' = TRUE
    /\ UNCHANGED <<producerVars, queue, connected, shared, threadVars, linkVars, historyVars>>
-----------------------------------------------------------------------------
\* Obico and the network.
Cut ==
    /\ link = "up" /\ faults < MaxFaults
    /\ link' = "cut" /\ faults' = faults + 1
    /\ UNCHANGED <<producerVars, queue, connected, shared, stopping, threadVars, code, unacked, up, historyVars>>

\* TCP gives a connection up when what it sent is not acknowledged.
GiveUp ==
    /\ link = "cut" /\ unacked
    /\ link' = "closed"
    /\ UNCHANGED <<producerVars, queue, connected, shared, stopping, threadVars, code, unacked, up, faults, historyVars>>

Close(c) ==
    /\ link = "up" /\ faults < MaxFaults
    /\ link' = "closed" /\ code' = c /\ faults' = faults + 1
    /\ turnedAway' = (turnedAway \/ c = "4321")
    /\ UNCHANGED <<producerVars, queue, connected, shared, stopping, threadVars, unacked, up, puts, heard>>

GoDown ==
    /\ up /\ faults < MaxFaults
    /\ up' = FALSE /\ faults' = faults + 1
    /\ link' = IF link = "up" THEN "closed" ELSE link
    /\ UNCHANGED <<producerVars, queue, connected, shared, stopping, threadVars, code, unacked, historyVars>>

ComeUp ==
    /\ ~up
    /\ up' = TRUE
    /\ UNCHANGED <<producerVars, queue, connected, shared, stopping, threadVars, link, code, unacked, faults, historyVars>>
-----------------------------------------------------------------------------
Produce(p) == Send(p) \/ Put(p) \/ Full(p) \/ Drop(p)
Websocket == Loop \/ Sleep \/ Connect \/ ConnectFails \/ Check \/ Get \/ Deliver \/ SendIntoVoid \/ SendFails
World == Cut \/ GiveUp \/ (\E c \in {"plain", "4321"} : Close(c)) \/ GoDown \/ ComeUp

Next == (\E p \in Producers : Produce(p)) \/ Websocket \/ ReaderFails \/ Stop \/ World

Spec == Init /\ [][Next]_vars

\* The threads run: every call they block in has a timeout.  Obico, once down,
\* comes back.
FairSpec ==
    /\ Spec
    /\ \A p \in Producers : WF_vars(Put(p) \/ Full(p) \/ Drop(p))
    /\ WF_vars(Websocket) /\ WF_vars(ReaderFails) /\ WF_vars(ComeUp)
-----------------------------------------------------------------------------
TypeOK ==
    /\ step \in [Producers -> {"idle", "put", "full"}] /\ sends \in Nat
    /\ queue \in Seq(Nat) /\ Len(queue) <= QueueMax
    /\ connected \in BOOLEAN /\ shared \in BOOLEAN /\ stopping \in BOOLEAN
    /\ pc \in {"loop", "connect", "check", "get", "send", "sleep", "ended"}
    /\ backoff \in BackoffStart..BackoffMax
    /\ inflight \in Nat /\ failure \in {"none", "lost", "4321"} /\ reading \in BOOLEAN
    /\ link \in {"none", "up", "cut", "closed"} /\ code \in {"plain", "4321"}
    /\ unacked \in BOOLEAN /\ up \in BOOLEAN /\ faults \in Nat
    /\ puts \in Nat /\ heard \in Nat /\ turnedAway \in BOOLEAN

\* However senders, overflow and the pump race for it, the queue holds the
\* latest messages without a gap: "the oldest is dropped, never the newest"
\* (send, _pump).
QueueHoldsTheLatest ==
    \A i \in 1..Len(queue) : queue[i] = puts - Len(queue) + i

\* Across overflow, lost messages and new connections the whole of it is a
\* Mailbox: Obico hears messages in the order they were queued, none twice and
\* none that was not sent (send, _pump, _session).
Channel == INSTANCE Mailbox WITH sent <- puts
ActsAsMailbox == Channel!Spec

\* No closed connection is left to itself: as long as the pump holds one, its
\* reader is there to notice or has noticed already (_reader, _pump).
ClosedIsKnown == link = "closed" /\ ~stopping => reading \/ failure # "none"

\* What the reader has noticed ends the session within one round of the pump,
\* which takes at most the one message it was about to take; and a failure is
\* never carried over to the next connection (_pump, _session).
StepsToEnd ==
    CASE pc = "get"   -> 3
      [] pc = "send"  -> 2
      [] pc = "check" -> 1
      [] OTHER        -> 0
FailureEndsSession == [][failure # "none" /\ pc' # pc => StepsToEnd' < StepsToEnd]_vars

\* Once the agent's process has taken note of 4321 and closed that connection,
\* there is no other; a restarted one knows nothing of it (_run, _session).
SharedIsFinal == [][shared /\ ~connected => ~connected']_vars

\* A connection the other side has closed is given up even when there is
\* nothing to send, so the reader's failure always reaches the pump (_reader,
\* _pump).
LossIsNoticed == link = "closed" ~> link # "closed"

\* What is queued while Obico is away is sent when it is back, unless it
\* was stopped or another agent has the token (_run, _pump).
QueueDrains == queue # <<>> ~> queue = <<>> \/ stopping \/ shared
-----------------------------------------------------------------------------
\* "Stop reconnecting and exit non-zero" (design, 4.7): once Obico has closed a
\* connection with 4321 there is no new one (_pump, _session).
TurnedAwayStaysAway == [][turnedAway /\ ~connected => ~connected']_vars
=============================================================================
