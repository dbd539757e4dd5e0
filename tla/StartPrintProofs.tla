-------------------------- MODULE StartPrintProofs --------------------------
(***************************************************************************)
(* start_print for any number of requests, pollers, files and slicings.    *)
(*                                                                         *)
(* A date is Sound while the machine has been idle at or after it, or is   *)
(* still idle: no step of the world can take that back, because a machine  *)
(* that leaves its idleness does so today.  Whatever says "ready" carries  *)
(* a sound date, from the reply to the snapshot to the request.            *)
(***************************************************************************)
EXTENDS StartPrint, PrinterProofs

\* A parsed list gives every file an entry or none (parse_gcode_files).
LEMMA ParsedType ==
    ASSUME stored \in [Files -> Slicings \cup {Absent}]
    PROVE  Parsed(Reply) \in [Files -> Entries \cup {Absent}]
<1>. SUFFICES ASSUME NEW f \in Files
              PROVE  Parsed(Reply)[f] \in Entries \cup {Absent}
  BY DEF Parsed
<1>1. Reply.detail[f] # Absent => Reply.detail[f] \in Entries
  <2>1. Reply.detail = NoFiles \/ Reply.detail = stored
    BY DEF Reply
  <2>. QED
    BY <2>1, StartPrintAssumption DEF NoFiles
<1>2. Reply.detail[f] # Absent =>
        [station |-> Reply.detail[f].station, tools |-> {t \in Reply.detail[f].tools : t.shown}] \in Entries
  BY <1>1 DEF Entries
<1>3. [station |-> FALSE, tools |-> {}] \in Entries
  BY DEF Entries
<1>. QED
  BY <1>2, <1>3 DEF Parsed

\* What is sent maps tools to slots, never to None (start_print).
LEMMA MappingsType ==
    ASSUME NEW entry, NEW m \in Mappings(entry)
    PROVE  m.tool # None /\ m.slot # None
BY DEF Mappings

\* The types without what a request is allowed to send.
Types ==
    /\ PrinterTypeOK
    /\ snapshot \in [state : MachineStates \cup {None}, at : Nat] /\ failures \in 0..OfflineAfterFailures
    /\ reply \in [Pollers -> [state : MachineStates \cup {None}, at : Nat]]
    /\ step \in [Clients -> {"off", "list", "check", "state", "send", "sent"}]
    /\ name \in [Clients -> Files \cup {NoFile}]
    /\ files \in [Clients -> [Files -> Entries \cup {Absent}]]
    /\ answer \in [Clients -> {"none", "bad_request", "unknown_file", "not_ready", "error", "started"}]
    /\ stored \in [Files -> Slicings \cup {Absent}] /\ firmware \in Firmwares
    /\ posts \in Nat /\ uploads \in Nat /\ lost \in Nat
    /\ left \in Nat /\ checked \in [Clients -> Nat] /\ begun \in [Clients -> Nat]
    /\ unheard \in [Clients -> BOOLEAN]
    /\ held \in [Clients -> SUBSET (Files \X Slicings)]

Requested ==
    \A c \in Clients : step[c] = "send" => name[c] \in Files /\ files[c][name[c]] # Absent

LEMMA TypeParts == Types /\ Requested => TypeOK
BY MappingsType DEF Types, Requested, TypeOK, Sent

\* Every step keeps the types.
LEMMA TypesStep ==
    ASSUME Types, Requested, Next
    PROVE  Types'
<1>. USE StartPrintAssumption
<1>p. ASSUME UNCHANGED printerVars PROVE PrinterTypeOK'
  BY <1>p DEF Types, PrinterTypeOK, printerVars
<1>1. CASE Touchscreen
  <2>1. PrinterTypeOK'
    BY <1>1, PrinterType DEF Touchscreen, Types
  <2>2. left' \in Nat
    BY <1>1 DEF Touchscreen, Types, PrinterTypeOK
  <2>. QED
    BY <1>1, <2>1, <2>2 DEF Touchscreen, Types, pollVars, requestVars, storeVars
<1>2. CASE PollFails
  BY <1>2, <1>p DEF PollFails, Types, requestVars, storeVars, Nothing
<1>3. ASSUME NEW p \in Pollers, Poll(p) PROVE Types'
  <2>1. Detail.state \in MachineStates
    BY DEF Detail, ParseState, MachineStates
  <2>2. reply' \in [Pollers -> [state : MachineStates \cup {None}, at : Nat]]
    BY <1>3, <2>1 DEF Poll, Types, PrinterTypeOK
  <2>. QED
    BY <1>3, <1>p, <2>2 DEF Poll, Types, requestVars, storeVars
<1>4. ASSUME NEW p \in Pollers, TakeReply(p) PROVE Types'
  BY <1>4, <1>p DEF TakeReply, Types, requestVars, storeVars, Nothing
<1>5. ASSUME NEW f \in Files, NEW content \in Slicings \cup {Absent}, Store(f, content) PROVE Types'
  <2>1. held' \in [Clients -> SUBSET (Files \X Slicings)]
    BY <1>5 DEF Store, Types
  <2>2. stored' \in [Files -> Slicings \cup {Absent}]
    BY <1>5 DEF Store, Types
  <2>. QED
    BY <1>5, <1>p, <2>1, <2>2 DEF Store, Types, pollVars, requestVars
<1>6. ASSUME NEW c \in Clients, NEW n \in Files \cup {NoFile}, Post(c, n) PROVE Types'
  <2>1. held' \in [Clients -> SUBSET (Files \X Slicings)]
    BY <1>6 DEF Post, Types
  <2>2. /\ step' \in [Clients -> {"off", "list", "check", "state", "send", "sent"}]
        /\ name' \in [Clients -> Files \cup {NoFile}]
        /\ answer' \in [Clients -> {"none", "bad_request", "unknown_file", "not_ready", "error", "started"}]
        /\ begun' \in [Clients -> Nat] /\ unheard' \in [Clients -> BOOLEAN] /\ posts' \in Nat
    BY <1>6 DEF Post, Types
  <2>. QED
    BY <1>6, <1>p, <2>1, <2>2 DEF Post, Types, pollVars
<1>7. ASSUME NEW c \in Clients, PostNoName(c) PROVE Types'
  BY <1>7, <1>p DEF PostNoName, Types, pollVars, storeVars
<1>8. ASSUME NEW c \in Clients, NEW what \in {"unknown_file", "not_ready", "error", "started"}, Answer(c, what)
      PROVE  /\ step' \in [Clients -> {"off", "list", "check", "state", "send", "sent"}]
             /\ answer' \in [Clients -> {"none", "bad_request", "unknown_file", "not_ready", "error", "started"}]
             /\ checked' \in [Clients -> Nat]
             /\ held' \in [Clients -> SUBSET (Files \X Slicings)]
  BY <1>8 DEF Answer, Types
<1>9. ASSUME NEW c \in Clients, List(c) PROVE Types'
  <2>1. files' \in [Clients -> [Files -> Entries \cup {Absent}]]
    BY <1>9, ParsedType DEF List, Listed, Types
  <2>. QED
    BY <1>9, <1>p, <2>1 DEF List, Types, pollVars, storeVars
<1>10. ASSUME NEW c \in Clients, NoSnapshot(c) \/ SnapshotGone(c) \/ Refused(c) \/ Started(c) PROVE Types'
  <2>1. \E what \in {"unknown_file", "not_ready", "error", "started"} : Answer(c, what)
    BY <1>10 DEF NoSnapshot, SnapshotGone, Refused, Started
  <2>. QED
    BY <1>10, <1>p, <1>8, <2>1 DEF NoSnapshot, SnapshotGone, Refused, Started, Types, pollVars
<1>11. ASSUME NEW c \in Clients, ListFails(c) \/ StartFails(c) PROVE Types'
  <2>1. \E what \in {"unknown_file", "not_ready", "error", "started"} : Answer(c, what)
    BY <1>11 DEF ListFails, StartFails, AfterError
  <2>2. lost' \in Nat
    BY <1>11 DEF ListFails, StartFails, NoReply, Types
  <2>3. unheard' \in [Clients -> BOOLEAN]
    <3>1. unheard' = unheard \/ unheard' = [unheard EXCEPT ![c] = TRUE]
      BY <1>11 DEF ListFails, StartFails
    <3>. QED
      BY <3>1 DEF Types
  <2>. QED
    BY <1>11, <1>p, <1>8, <2>1, <2>2, <2>3 DEF ListFails, StartFails, Types, pollVars
<1>12. ASSUME NEW c \in Clients, HasSnapshot(c) \/ Allowed(c) PROVE Types'
  BY <1>12, <1>p DEF HasSnapshot, Allowed, Types, pollVars, storeVars
<1>13. ASSUME NEW c \in Clients, Begin(c) PROVE Types'
  <2>. name[c] \in Files
    BY <1>13 DEF Begin, Requested
  <2>1. PrinterTypeOK'
    BY <1>13 DEF Begin, Becomes, Types, PrinterTypeOK, Machines, StatusWords, MachineStates
  <2>2. left' \in Nat /\ begun' \in [Clients -> Nat]
    BY <1>13 DEF Begin, Types, PrinterTypeOK
  <2>. QED
    BY <1>13, <2>1, <2>2 DEF Begin, Types, pollVars, storeVars
<1>. QED
  BY <1>1, <1>2, <1>3, <1>4, <1>5, <1>6, <1>7, <1>9, <1>10, <1>11, <1>12, <1>13 DEF Next, Request

\* The fields of one request that its own steps write.
Untouched(c) == UNCHANGED <<step[c], name[c], files[c], answer[c], checked[c], begun[c], unheard[c], held[c]>>

\* A step of one request leaves the others alone.
LEMMA OneAtATime ==
    ASSUME Types, NEW c \in Clients, NEW d \in Clients, d # c,
           Request(c) \/ PostNoName(c) \/ \E n \in Files \cup {NoFile} : Post(c, n)
    PROVE  Untouched(d)
BY DEF Types, Untouched, Request, PostNoName, Post, List, ListFails, NoSnapshot, HasSnapshot,
   SnapshotGone, Refused, Allowed, Begin, Started,
       StartFails, Answer, storeVars, requestVars

\* Only the store writes what an open request has seen; nothing else the
\* world does touches a request.
LEMMA WorldStep ==
    ASSUME Types, NEW d \in Clients,
           \/ Touchscreen \/ PollFails
           \/ \E p \in Pollers : Poll(p) \/ TakeReply(p)
    PROVE  Untouched(d) /\ UNCHANGED stored
BY DEF Untouched, Touchscreen, PollFails, Poll, TakeReply, requestVars, storeVars

LEMMA StoreStep ==
    ASSUME Types, NEW d \in Clients, NEW f \in Files, NEW content \in Slicings \cup {Absent}, Store(f, content)
    PROVE  /\ UNCHANGED <<step[d], name[d], files[d], answer[d], checked[d], begun[d], unheard[d]>>
           /\ held[d] \subseteq held'[d]
           /\ stored' = [stored EXCEPT ![f] = content]
           /\ step[d] # "off" /\ content # Absent => <<f, content>> \in held'[d]
BY DEF Types, Store, requestVars

\* A request that is to be sent names a file of its list.
LEMMA RequestedStep ==
    ASSUME Types, Requested, Next
    PROVE  Requested'
<1>. SUFFICES ASSUME NEW d \in Clients, step'[d] = "send"
              PROVE  name'[d] \in Files /\ files'[d][name'[d]] # Absent
  BY DEF Requested
<1>1. CASE Untouched(d)
  BY <1>1 DEF Untouched, Requested
<1>2. ASSUME NEW f \in Files, NEW content \in Slicings \cup {Absent}, Store(f, content)
      PROVE  name'[d] \in Files /\ files'[d][name'[d]] # Absent
  BY <1>2, StoreStep DEF Requested
<1>3. CASE Request(d) \/ PostNoName(d) \/ \E n \in Files \cup {NoFile} : Post(d, n)
  <2>1. Allowed(d)
    BY <1>3 DEF Types, Request, PostNoName, Post, List, ListFails, NoSnapshot, HasSnapshot, SnapshotGone,
       Refused, Begin, Started, StartFails, Answer
  <2>. QED
    BY <2>1 DEF Allowed, Known, Types
<1>. QED
  BY <1>1, <1>2, <1>3, OneAtATime, WorldStep DEF Next

LEMMA TypesCorrect == Spec => [](Types /\ Requested)
<1>1. Init => Types /\ Requested
  <2>1. ASSUME Init PROVE Types
    <3>1. PrinterTypeOK
      BY <2>1 DEF Init, PrinterInit, PrinterTypeOK, Machines, StatusWords, MachineStates
    <3>2. /\ snapshot \in [state : MachineStates \cup {None}, at : Nat]
          /\ reply \in [Pollers -> [state : MachineStates \cup {None}, at : Nat]]
      BY <2>1 DEF Init, Nothing
    <3>3. files \in [Clients -> [Files -> Entries \cup {Absent}]]
      BY <2>1 DEF Init, NoFiles
    <3>. QED
      BY <2>1, <3>1, <3>2, <3>3, StartPrintAssumption DEF Init, Types
  <2>2. ASSUME Init PROVE Requested
    BY <2>2 DEF Init, Requested
  <2>. QED
    BY <2>1, <2>2
<1>2. Types /\ Requested /\ [Next]_vars => (Types /\ Requested)'
  <2>1. ASSUME Types, Requested, Next PROVE (Types /\ Requested)'
    BY <2>1, TypesStep, RequestedStep
  <2>2. ASSUME Types, Requested, UNCHANGED vars PROVE (Types /\ Requested)'
    BY <2>2 DEF Types, Requested, PrinterTypeOK, vars, printerVars, pollVars, requestVars, storeVars
  <2>. QED
    BY <2>1, <2>2
<1>. QED
  BY <1>1, <1>2, PTL DEF Spec

\* Every variable keeps its type, and no tool is ever mapped to no slot (TypeOK).
THEOREM TypeCorrect == Spec => []TypeOK
BY TypesCorrect, TypeParts, PTL
-----------------------------------------------------------------------------
\* The machine has been idle at or after this date.
Sound(date) == date <= changes /\ (~Idle => left >= date)

Dated ==
    /\ snapshot.state \in ReadyToStart => Sound(snapshot.at)
    /\ \A p \in Pollers : reply[p].state \in ReadyToStart => Sound(reply[p].at)
    /\ \A c \in Clients : step[c] = "send" => Sound(checked[c])

\* The same of a date from before the step, once the step is done.
StillSound(date) == date <= changes' /\ (~Idle' => left' >= date)

\* Time and the touchscreen take no date back.
LEMMA SoundStays ==
    ASSUME Types, Next, NEW date \in Nat, Sound(date)
    PROVE  StillSound(date)
<1>1. ASSUME UNCHANGED <<printerVars, left>> PROVE StillSound(date)
  BY <1>1 DEF Sound, StillSound, Idle, printerVars
<1>2. ASSUME changes' \in Nat, changes' >= changes, left' = IF Idle THEN changes ELSE left PROVE StillSound(date)
  BY <1>2 DEF Sound, StillSound, Idle, Types, PrinterTypeOK
<1>3. CASE Touchscreen
  <2>1. changes' = changes \/ changes' = changes + 1
    BY <1>3 DEF Touchscreen, PrinterNext, StartJob, Heat, Touch, Obey, Finish, Break, Spin, Calibrate,
       Calibrated, GoDark, ComeBack, Becomes
  <2>. QED
    BY <1>2, <1>3, <2>1 DEF Touchscreen, Types, PrinterTypeOK
<1>4. ASSUME NEW c \in Clients, Begin(c) PROVE StillSound(date)
  BY <1>2, <1>4 DEF Begin, Becomes, Types, PrinterTypeOK
<1>5. Touchscreen \/ (\E c \in Clients : Begin(c)) \/ UNCHANGED <<printerVars, left>>
  BY DEF Next, Request, PollFails, Poll, TakeReply, Store, Post, PostNoName, List, ListFails, NoSnapshot,
     HasSnapshot, SnapshotGone, Refused,
     Allowed, Started, StartFails
<1>. QED
  BY <1>1, <1>3, <1>4, <1>5

\* A machine that says it is ready is idle as it says so (ParseState).
LEMMA ReadyIsIdle == Types /\ Detail.state \in ReadyToStart => Idle
BY DEF Types, PrinterTypeOK, Machines, StatusWords, MachineStates, Detail, ParseState, ReadyToStart, Idle

LEMMA DatedStep ==
    ASSUME Types, Requested, Dated, Next
    PROVE  Dated'
<1>s. \A date \in Nat : Sound(date) => StillSound(date)
  BY SoundStays
<1>n. StillSound(0)
  <2>1. Types'
    BY TypesStep
  <2>. QED
    BY <2>1 DEF Types, PrinterTypeOK, StillSound
<1>1. snapshot'.state \in ReadyToStart => StillSound(snapshot'.at)
  <2>1. CASE UNCHANGED snapshot
    BY <1>s, <2>1 DEF Dated, Types
  <2>2. ASSUME NEW p \in Pollers, TakeReply(p) PROVE snapshot'.state \in ReadyToStart => StillSound(snapshot'.at)
    BY <1>s, <2>2 DEF TakeReply, Dated, Types
  <2>3. CASE PollFails
    BY <1>s, <1>n, <2>3 DEF PollFails, Dated, Types, Nothing
  <2>. QED
    BY <2>1, <2>2, <2>3 DEF Next, Request, Touchscreen, Poll, Store, Post, PostNoName, List, ListFails,
       NoSnapshot, HasSnapshot, SnapshotGone, Refused,
       Allowed, Begin, Started, StartFails, pollVars
<1>2. ASSUME NEW p \in Pollers, reply'[p].state \in ReadyToStart PROVE StillSound(reply'[p].at)
  <2>1. CASE reply'[p] = reply[p]
    BY <1>s, <1>2, <2>1 DEF Dated, Types
  <2>2. CASE Poll(p)
    <3>1. Detail.state \in ReadyToStart /\ reply'[p].at = changes
      BY <1>2, <2>2 DEF Poll, Types
    <3>2. Sound(changes)
      BY <3>1, ReadyIsIdle DEF Sound, Types, PrinterTypeOK
    <3>. QED
      BY <1>s, <3>1, <3>2 DEF Types, PrinterTypeOK
  <2>3. CASE TakeReply(p)
    BY <1>n, <2>3 DEF TakeReply, Types, Nothing
  <2>. QED
    BY <2>1, <2>2, <2>3 DEF Next, Request, Touchscreen, PollFails, Poll, TakeReply, Store, Post,
       PostNoName, List,
       ListFails, NoSnapshot, HasSnapshot, SnapshotGone, Refused, Allowed, Begin, Started, StartFails,
       pollVars, Types
<1>3. ASSUME NEW c \in Clients, step'[c] = "send" PROVE StillSound(checked'[c])
  <2>1. CASE step[c] = "send" /\ checked'[c] = checked[c]
    BY <1>s, <2>1 DEF Dated, Types
  <2>2. CASE Allowed(c)
    BY <1>s, <2>2 DEF Allowed, Dated, Types
  <2>3. ASSUME NEW f \in Files, NEW content \in Slicings \cup {Absent}, Store(f, content)
        PROVE  step[c] = "send" /\ checked'[c] = checked[c]
    BY <1>3, <2>3, StoreStep
  <2>4. CASE Request(c) \/ PostNoName(c) \/ \E n \in Files \cup {NoFile} : Post(c, n)
    BY <1>3, <2>4, <2>2 DEF Types, Request, PostNoName, Post, List, ListFails, NoSnapshot, HasSnapshot,
       SnapshotGone, Refused, Begin, Started, StartFails, Answer
  <2>5. CASE Untouched(c)
    BY <1>3, <2>5, <2>1 DEF Untouched
  <2>. QED
    BY <2>1, <2>3, <2>4, <2>5, OneAtATime, WorldStep DEF Next
<1>. QED
  BY <1>1, <1>2, <1>3 DEF Dated, Sound, StillSound

\* No job older than the reply that allowed it is in the way of a start, for
\* any number of requests and pollers (OnlyANewerJobIsInTheWay).
THEOREM OnlyANewerJobCorrect == Spec => []OnlyANewerJobIsInTheWay
<1>1. Init => Dated
  BY DEF Init, Dated, Nothing, Sound, Idle, PrinterInit
<1>2. Types /\ Requested /\ Dated /\ [Next]_vars => Dated'
  <2>1. ASSUME Types, Requested, Dated, Next PROVE Dated'
    BY <2>1, DatedStep
  <2>2. ASSUME Dated, UNCHANGED vars PROVE Dated'
    BY <2>2 DEF Dated, Sound, Idle, vars, printerVars, pollVars, requestVars
  <2>. QED
    BY <2>1, <2>2
<1>3. Dated => OnlyANewerJobIsInTheWay
  BY DEF Dated, Sound, OnlyANewerJobIsInTheWay
<1>. QED
  BY <1>1, <1>2, <1>3, TypesCorrect, PTL DEF Spec
-----------------------------------------------------------------------------
\* What a request has begun and said, at each of its steps.
Kept ==
    \A c \in Clients :
        /\ step[c] \in {"list", "check", "state", "send"} => begun[c] = 0 /\ answer[c] = "none" /\ ~unheard[c]
        /\ step[c] = "sent" => begun[c] = 1 /\ answer[c] = "none" /\ ~unheard[c]
        /\ step[c] = "off" /\ answer[c] = "started" => begun[c] = 1
        /\ step[c] = "off" /\ answer[c] \in {"unknown_file", "bad_request", "error"} => begun[c] = 0
        /\ step[c] = "off" /\ answer[c] = "not_ready" => (begun[c] = 1 <=> unheard[c])
        /\ step[c] = "off" => begun[c] \in {0, 1}

LEMMA KeptStep ==
    ASSUME Types, Kept, Next
    PROVE  Kept'
<1>. SUFFICES ASSUME NEW c \in Clients
     PROVE  /\ step'[c] \in {"list", "check", "state", "send"} =>
                 begun'[c] = 0 /\ answer'[c] = "none" /\ ~unheard'[c]
            /\ step'[c] = "sent" => begun'[c] = 1 /\ answer'[c] = "none" /\ ~unheard'[c]
            /\ step'[c] = "off" /\ answer'[c] = "started" => begun'[c] = 1
            /\ step'[c] = "off" /\ answer'[c] \in {"unknown_file", "bad_request", "error"} => begun'[c] = 0
            /\ step'[c] = "off" /\ answer'[c] = "not_ready" => (begun'[c] = 1 <=> unheard'[c])
            /\ step'[c] = "off" => begun'[c] \in {0, 1}
  BY DEF Kept
<1>1. CASE UNCHANGED <<step[c], answer[c], begun[c], unheard[c]>>
  BY <1>1 DEF Kept
<1>2. CASE (\E n \in Files \cup {NoFile} : Post(c, n)) \/ PostNoName(c) \/ List(c) \/ HasSnapshot(c) \/ Allowed(c)
  BY <1>2 DEF Kept, Types, Post, PostNoName, List, HasSnapshot, Allowed
<1>3. CASE ListFails(c) \/ NoSnapshot(c) \/ SnapshotGone(c) \/ Refused(c)
  BY <1>3 DEF Kept, Types, ListFails, NoSnapshot, HasSnapshot, SnapshotGone, Refused, Answer
<1>4. CASE Begin(c)
  BY <1>4 DEF Kept, Types, Begin
<1>5. CASE Started(c) \/ StartFails(c)
  BY <1>5 DEF Kept, Types, Started, StartFails, Answer, AfterError
<1>6. ASSUME NEW f \in Files, NEW content \in Slicings \cup {Absent}, Store(f, content)
      PROVE  UNCHANGED <<step[c], answer[c], begun[c], unheard[c]>>
  BY <1>6, StoreStep
<1>. QED
  BY <1>1, <1>2, <1>3, <1>4, <1>5, <1>6, OneAtATime, WorldStep DEF Next, Request, Untouched

\* "Started" is told of a begun print only, an error or an unknown file of none,
\* and "not ready" of a begun one exactly when the printer's own answer was
\* lost, for any number of requests, pollers and lost answers (AnswersAreHonest).
THEOREM AnswersAreHonestCorrect == Spec => []AnswersAreHonest
<1>1. Init => Kept
  BY DEF Init, Kept
<1>2. Types /\ Kept /\ [Next]_vars => Kept'
  <2>1. ASSUME Types, Kept, Next PROVE Kept'
    BY <2>1, KeptStep
  <2>2. ASSUME Kept, UNCHANGED vars PROVE Kept'
    BY <2>2 DEF Kept, vars, requestVars
  <2>. QED
    BY <2>1, <2>2
<1>3. Types /\ Kept => AnswersAreHonest
  BY DEF Types, Kept, AnswersAreHonest
<1>. QED
  BY <1>1, <1>2, <1>3, TypesCorrect, PTL DEF Spec
-----------------------------------------------------------------------------
\* What an open request has seen of the store, and what its list owes to it.
Seen ==
    \A c \in Clients :
        /\ step[c] # "off" => \A f \in Files : stored[f] # Absent => <<f, stored[f]>> \in held[c]
        /\ step[c] \in {"check", "state", "send"} =>
             \A f \in Files : files[c][f] # Absent /\ files[c][f].station =>
                 \E e \in held[c] : e[1] = f /\ e[2].station /\ files[c][f].tools \subseteq e[2].tools

\* A parsed entry has the tools of the file it describes, at the most.
LEMMA ParsedFromStore ==
    ASSUME Types, NEW f \in Files, Parsed(Reply)[f] # Absent, Parsed(Reply)[f].station
    PROVE  stored[f] # Absent /\ stored[f].station /\ Parsed(Reply)[f].tools \subseteq stored[f].tools
<1>1. Reply.detail[f] # Absent
  BY DEF Parsed
<1>2. Reply.detail = stored
  BY <1>1 DEF Reply, NoFiles
<1>3. Parsed(Reply)[f] = [station |-> stored[f].station, tools |-> {t \in stored[f].tools : t.shown}]
  BY <1>1, <1>2 DEF Parsed
<1>. QED
  BY <1>1, <1>2, <1>3

LEMMA SeenStep ==
    ASSUME Types, Seen, Next
    PROVE  Seen'
<1>. SUFFICES ASSUME NEW c \in Clients, step'[c] # "off"
     PROVE  /\ \A f \in Files : stored'[f] # Absent => <<f, stored'[f]>> \in held'[c]
            /\ step'[c] \in {"check", "state", "send"} =>
                 \A f \in Files : files'[c][f] # Absent /\ files'[c][f].station =>
                     \E e \in held'[c] : e[1] = f /\ e[2].station /\ files'[c][f].tools \subseteq e[2].tools
  BY DEF Seen
<1>1. CASE UNCHANGED <<step[c], files[c], held[c], stored>>
  BY <1>1 DEF Seen
<1>2. ASSUME NEW f \in Files, NEW content \in Slicings \cup {Absent}, Store(f, content)
      PROVE  /\ \A g \in Files : stored'[g] # Absent => <<g, stored'[g]>> \in held'[c]
             /\ UNCHANGED <<step[c], files[c]>> /\ held[c] \subseteq held'[c]
  <2>1. /\ UNCHANGED <<step[c], files[c]>> /\ held[c] \subseteq held'[c]
        /\ stored' = [stored EXCEPT ![f] = content] /\ (content # Absent => <<f, content>> \in held'[c])
    BY <1>2, StoreStep
  <2>. QED
    BY <2>1 DEF Seen, Types
<1>3. ASSUME NEW n \in Files \cup {NoFile}, Post(c, n)
      PROVE  step'[c] = "list" /\ \A f \in Files : stored'[f] # Absent => <<f, stored'[f]>> \in held'[c]
  <2>1. step'[c] = "list" /\ held'[c] = {e \in Files \X Slicings : stored[e[1]] = e[2]} /\ stored' = stored
    BY <1>3 DEF Post, Types
  <2>. QED
    BY <2>1 DEF Types
<1>4. CASE List(c)
  <2>1. files'[c] = Parsed(Reply) /\ UNCHANGED <<stored, held>> /\ step[c] = "list"
    BY <1>4 DEF List, Listed, Types, storeVars
  <2>2. ASSUME NEW f \in Files, files'[c][f] # Absent, files'[c][f].station
        PROVE  \E e \in held'[c] : e[1] = f /\ e[2].station /\ files'[c][f].tools \subseteq e[2].tools
    <3>1. <<f, stored[f]>> \in held'[c] /\ stored[f].station /\ files'[c][f].tools \subseteq stored[f].tools
      BY <2>1, <2>2, ParsedFromStore DEF Seen
    <3>. QED
      BY <3>1
  <2>. QED
    BY <2>1, <2>2 DEF Seen
<1>5. CASE HasSnapshot(c) \/ Allowed(c) \/ Begin(c)
  <2>1. UNCHANGED <<files, held, stored>> /\ step[c] \in {"check", "state", "send"}
    BY <1>5 DEF HasSnapshot, Allowed, Begin, storeVars
  <2>. QED
    BY <2>1 DEF Seen
<1>6. CASE ListFails(c) \/ NoSnapshot(c) \/ SnapshotGone(c) \/ Refused(c) \/ Started(c) \/ StartFails(c) \/ PostNoName(c)
  <2>1. step'[c] = "off"
    BY <1>6 DEF ListFails, NoSnapshot, HasSnapshot, SnapshotGone, Refused, Started, StartFails,
       PostNoName, Answer, Types
  <2>. QED
    BY <2>1
<1>7. ASSUME NEW d \in Clients, d # c, Request(d) \/ PostNoName(d) \/ \E n \in Files \cup {NoFile} : Post(d, n)
      PROVE  UNCHANGED <<step[c], files[c], held[c], stored>>
  <2>1. Untouched(c)
    BY <1>7, OneAtATime
  <2>2. UNCHANGED stored
    BY <1>7 DEF Request, PostNoName, Post, List, ListFails, NoSnapshot, HasSnapshot, SnapshotGone,
       Refused, Allowed, Begin, Started, StartFails, storeVars
  <2>. QED
    BY <2>1, <2>2 DEF Untouched
<1>8. ASSUME \/ Touchscreen \/ PollFails
             \/ \E p \in Pollers : Poll(p) \/ TakeReply(p)
      PROVE  UNCHANGED <<step[c], files[c], held[c], stored>>
  BY <1>8, WorldStep DEF Untouched
<1>9. ASSUME NEW f \in Files, NEW content \in Slicings \cup {Absent}, Store(f, content)
      PROVE  step'[c] \in {"check", "state", "send"} =>
                 \A g \in Files : files'[c][g] # Absent /\ files'[c][g].station =>
                     \E e \in held'[c] : e[1] = g /\ e[2].station /\ files'[c][g].tools \subseteq e[2].tools
  BY <1>2, <1>9 DEF Seen
<1>. QED
  BY <1>1, <1>2, <1>3, <1>4, <1>5, <1>6, <1>7, <1>8, <1>9 DEF Next, Request

\* No tool is fed from a slot of an older list, for any files, slicings and
\* uploads (MappingsAreTheFiles).
THEOREM MappingsAreTheFilesCorrect == Spec => []MappingsAreTheFiles
<1>1. Init => Seen
  BY DEF Init, Seen
<1>2. Types /\ Seen /\ [Next]_vars => Seen'
  <2>1. ASSUME Types, Seen, Next PROVE Seen'
    BY <2>1, SeenStep
  <2>2. ASSUME Seen, UNCHANGED vars PROVE Seen'
    BY <2>2 DEF Seen, vars, requestVars, storeVars
  <2>. QED
    BY <2>1, <2>2
<1>3. Types /\ Requested /\ Seen => MappingsAreTheFiles
  <2>. SUFFICES ASSUME Types, Requested, Seen, NEW c \in Clients, step[c] = "send", NEW m \in Sent(c)
                PROVE  \E e \in held[c] : /\ e[1] = name[c] /\ e[2].station
                                          /\ \E t \in e[2].tools : t.tool = m.tool /\ t.slot = m.slot
    BY DEF MappingsAreTheFiles
  <2>1. name[c] \in Files /\ files[c][name[c]] # Absent
    BY DEF Requested
  <2>2. PICK t \in files[c][name[c]].tools : t.tool = m.tool /\ t.slot = m.slot
    BY DEF Sent, Mappings
  <2>3. files[c][name[c]].station
    BY DEF Sent, Mappings
  <2>. QED
    BY <2>1, <2>2, <2>3 DEF Seen
<1>. QED
  BY <1>1, <1>2, <1>3, TypesCorrect, PTL DEF Spec
=============================================================================
