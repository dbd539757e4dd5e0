---------------------------- MODULE StartPrint ----------------------------
(***************************************************************************)
(* Starting a stored file from the console: agent.py's start_print and     *)
(* may_start_print, on one HTTP thread per request, against the threads    *)
(* that refresh the snapshot, the touchscreen and the printer's file store.*)
(*                                                                         *)
(* The request waits for the printer twice, for the file list and for the  *)
(* answer to printGcode; in between it looks at the snapshot, twice: is    *)
(* there one, and what state does it tell of?  Each is a step, and the     *)
(* world moves on between any two.                                         *)
(*                                                                         *)
(* The store and the answer to printGcode are EXTERNAL, as the client and  *)
(* its tests know them: a busy machine refuses, an answer may be lost.     *)
(***************************************************************************)
EXTENDS Printer

CONSTANTS
    Clients,                \* HTTP threads, one request at a time each
    Pollers,                \* the threads that refresh the snapshot
    Tools,                  \* entries of gcodeToolDatas, as _tool reads them
    Slicings,               \* entries of gcodeListDetail a file may be sliced with
    Absent,                 \* no such file, no such entry
    Firmwares,              \* which lists this printer's gcodeList replies carry
    OfflineAfterFailures,   \* OFFLINE_AFTER_FAILURES
    MaxPosts,               \* bound: requests in all
    MaxUploads,             \* bound: changes of the file store
    MaxLost                 \* bound: answers lost on the way back

\* A tool is listed if it has a material or a colour to show.
Entries == [station : BOOLEAN, tools : SUBSET Tools]

ASSUME StartPrintAssumption ==
    /\ \A t \in Tools : DOMAIN t = {"tool", "slot", "shown"} /\ t.shown \in BOOLEAN
    /\ Slicings \subseteq Entries
    /\ Absent \notin Entries
    /\ Firmwares \subseteq {"names", "details", "both"}
    /\ OfflineAfterFailures \in Nat \ {0}
    /\ MaxPosts \in Nat /\ MaxUploads \in Nat /\ MaxLost \in Nat

VARIABLES
    snapshot,   \* the state in _snapshot (None without one), and the reply's date
    failures,   \* _failures, counted no further than the threshold
    reply,      \* a `detail` reply in a poller's hands
    step,       \* where each request is: "off", "list", "check", "state", "send", "sent"
    name,       \* file_name
    files,      \* the list the request has read
    answer,     \* what the console was told last
    stored,     \* the printer's files, each as it was sliced
    firmware,
    posts, uploads, lost,
    \* history
    left,       \* the date the machine was last idle
    checked,    \* the date of the snapshot an open request was allowed by
    begun,      \* prints the printer has begun for this request
    unheard,    \* was the printer's yes to this request lost?
    held        \* what the printer has stored since an open request came in

pollVars == <<snapshot, failures, reply>>
requestVars == <<step, name, files, answer, posts, checked, begun, unheard>>
storeVars == <<stored, uploads, held>>
vars == <<printerVars, pollVars, requestVars, storeVars, firmware, lost, left>>

Nothing == [state |-> None, at |-> 0]
NoFiles == [f \in Files |-> Absent]

Idle == printer.word \in {"ready", "completed", "cancel", "cancelled"}

Init ==
    /\ PrinterInit
    /\ snapshot = Nothing /\ failures = 0 /\ reply = [p \in Pollers |-> Nothing]
    /\ step = [c \in Clients |-> "off"] /\ name = [c \in Clients |-> NoFile]
    /\ files = [c \in Clients |-> NoFiles] /\ answer = [c \in Clients |-> "none"]
    /\ stored \in [Files -> Slicings \cup {Absent}] /\ firmware \in Firmwares
    /\ posts = 0 /\ uploads = 0 /\ lost = 0 /\ left = 0
    /\ checked = [c \in Clients |-> 0] /\ begun = [c \in Clients |-> 0]
    /\ unheard = [c \in Clients |-> FALSE]
    /\ held = [c \in Clients |-> {}]
-----------------------------------------------------------------------------
\* _read_printer and _read_back: the reply is dated by the printer's answer ...
Poll(p) ==
    /\ reachable /\ reply[p] = Nothing
    /\ reply' = [reply EXCEPT ![p] = [state |-> Detail.state, at |-> changes]]
    /\ UNCHANGED <<printerVars, snapshot, failures, requestVars, storeVars, firmware, lost, left>>

\* ... and stored when it arrives.
TakeReply(p) ==
    /\ reply[p] # Nothing
    /\ snapshot' = reply[p]
    /\ reply' = [reply EXCEPT ![p] = Nothing]
    /\ failures' = IF p = "main" THEN 0 ELSE failures
    /\ UNCHANGED <<printerVars, requestVars, storeVars, firmware, lost, left>>

PollFails ==
    /\ ~reachable /\ reply["main"] = Nothing
    /\ failures' = IF failures < OfflineAfterFailures THEN failures + 1 ELSE failures
    /\ snapshot' = IF failures' = OfflineAfterFailures THEN Nothing ELSE snapshot
    /\ UNCHANGED <<printerVars, reply, requestVars, storeVars, firmware, lost, left>>
-----------------------------------------------------------------------------
\* POST /api/print.  Whoever asks may name any file, also one that is not there ...
Post(c, n) ==
    /\ step[c] = "off" /\ posts < MaxPosts
    /\ posts' = posts + 1
    /\ step' = [step EXCEPT ![c] = "list"]
    /\ name' = [name EXCEPT ![c] = n]
    /\ answer' = [answer EXCEPT ![c] = "none"]
    /\ begun' = [begun EXCEPT ![c] = 0] /\ unheard' = [unheard EXCEPT ![c] = FALSE]
    /\ held' = [held EXCEPT ![c] = {e \in Files \X Slicings : stored[e[1]] = e[2]}]
    /\ UNCHANGED <<printerVars, pollVars, files, checked, stored, uploads, firmware, lost, left>>

\* ... but must name one.
PostNoName(c) ==
    /\ step[c] = "off" /\ posts < MaxPosts
    /\ posts' = posts + 1
    /\ answer' = [answer EXCEPT ![c] = "bad_request"]
    /\ begun' = [begun EXCEPT ![c] = 0] /\ unheard' = [unheard EXCEPT ![c] = FALSE]
    /\ UNCHANGED <<printerVars, pollVars, step, name, files, checked, storeVars, firmware, lost, left>>

Answer(c, what) ==
    /\ answer' = [answer EXCEPT ![c] = what]
    /\ step' = [step EXCEPT ![c] = "off"]
    /\ checked' = [checked EXCEPT ![c] = 0]
    /\ held' = [held EXCEPT ![c] = {}]

\* No answer from the printer, or none that arrives: a FlashforgeError.
NoReply ==
    \/ ~reachable /\ UNCHANGED lost
    \/ reachable /\ lost < MaxLost /\ lost' = lost + 1

\* gcodeList as this firmware answers it: the names, the details, or both ...
Reply ==
    [names  |-> IF firmware = "details" THEN {} ELSE {f \in Files : stored[f] # Absent},
     detail |-> IF firmware = "names" THEN NoFiles ELSE stored]

\* ... and as parse_gcode_files reads it: every name, with the detail if there is one.
Parsed(body) ==
    [f \in Files |->
        IF body.detail[f] # Absent
        THEN [station |-> body.detail[f].station, tools |-> {t \in body.detail[f].tools : t.shown}]
        ELSE IF f \in body.names THEN [station |-> FALSE, tools |-> {}] ELSE Absent]

ListedOnce(c) == IF files[c] = NoFiles THEN Parsed(Reply) ELSE files[c]     \* mutant: keeps an old list

Listed(c) == Parsed(Reply)

List(c) ==
    /\ step[c] = "list"
    /\ reachable
    /\ files' = [files EXCEPT ![c] = Listed(c)]
    /\ step' = [step EXCEPT ![c] = "check"]
    /\ UNCHANGED <<printerVars, pollVars, name, answer, posts, checked, begun, unheard, storeVars, firmware, lost, left>>

ListFails(c) ==
    /\ step[c] = "list"
    /\ NoReply
    /\ Answer(c, "unknown_file")
    /\ UNCHANGED <<printerVars, pollVars, name, files, posts, begun, unheard, stored, uploads, firmware, left>>

ReadyOrUnknown == {"ready", "completed", "cancelled", "unknown"}    \* mutant: unknown taken for idle

ReadyToStart == {"ready", "completed", "cancelled"}

Known(c) == name[c] # NoFile /\ files[c][name[c]] # Absent

\* Without a snapshot there is no state, and no start ...
NoSnapshot(c) ==
    /\ step[c] = "check" /\ snapshot.state = None
    /\ Answer(c, "not_ready")
    /\ UNCHANGED <<printerVars, pollVars, name, files, posts, begun, unheard, stored, uploads, firmware, lost, left>>

HasSnapshot(c) ==
    /\ step[c] = "check" /\ snapshot.state # None
    /\ step' = [step EXCEPT ![c] = "state"]
    /\ UNCHANGED <<printerVars, pollVars, name, files, answer, posts, checked, begun, unheard, storeVars,
                   firmware, lost, left>>

\* ... if there is one, its state is read in a second look, which an outage may
\* have got ahead of: an AttributeError, answered by the route with a 500.
SnapshotGone(c) ==
    /\ step[c] = "state" /\ snapshot.state = None
    /\ Answer(c, "error")
    /\ UNCHANGED <<printerVars, pollVars, name, files, posts, begun, unheard, stored, uploads, firmware, lost, left>>

\* may_start_print, on the state of the snapshot as it is now.
Refused(c) ==
    /\ step[c] = "state" /\ snapshot.state # None
    /\ \/ snapshot.state \notin ReadyToStart /\ Answer(c, "not_ready")
       \/ snapshot.state \in ReadyToStart /\ ~Known(c) /\ Answer(c, "unknown_file")
    /\ UNCHANGED <<printerVars, pollVars, name, files, posts, begun, unheard, stored, uploads, firmware, lost, left>>

Allowed(c) ==
    /\ step[c] = "state"
    /\ snapshot.state \in ReadyToStart /\ Known(c)
    /\ checked' = [checked EXCEPT ![c] = snapshot.at]
    /\ step' = [step EXCEPT ![c] = "send"]
    /\ UNCHANGED <<printerVars, pollVars, name, files, answer, posts, begun, unheard, storeVars, firmware, lost, left>>

MappingsUnfiltered(entry) ==    \* mutant: a tool without a slot is mapped all the same
    IF entry.station THEN {[tool |-> t.tool, slot |-> t.slot] : t \in entry.tools} ELSE {}

\* The tool-to-slot mapping the file was sliced with.
Mappings(entry) ==
    IF entry.station
    THEN {[tool |-> t.tool, slot |-> t.slot] : t \in {u \in entry.tools : u.tool # None /\ u.slot # None}}
    ELSE {}

Sent(c) == Mappings(files[c][name[c]])

\* print_gcode: the machine takes the job and answers ...
Begin(c) ==
    /\ step[c] = "send"
    /\ reachable /\ Idle /\ stored[name[c]] # Absent
    /\ Becomes([word |-> "printing", file |-> name[c], extruding |-> FALSE, error |-> NoCode])
    /\ left' = changes
    /\ begun' = [begun EXCEPT ![c] = @ + 1]
    /\ step' = [step EXCEPT ![c] = "sent"]
    /\ UNCHANGED <<owed, reachable, pollVars, name, files, answer, posts, checked, unheard, storeVars, firmware, lost>>

Started(c) ==
    /\ step[c] = "sent"
    /\ Answer(c, "started")
    /\ UNCHANGED <<printerVars, pollVars, name, files, posts, begun, unheard, stored, uploads, firmware, lost, left>>

AfterErrorStarted == "started"      \* mutant: a FlashforgeError is logged and forgotten

AfterError == "not_ready"

\* ... or says no, or is not heard, whatever it does.
StartFails(c) ==
    /\ \/ step[c] = "send" /\ NoReply /\ UNCHANGED unheard
       \/ /\ step[c] = "send" /\ reachable /\ (~Idle \/ stored[name[c]] = Absent)
          /\ UNCHANGED <<lost, unheard>>
       \/ /\ step[c] = "sent" /\ lost < MaxLost /\ lost' = lost + 1
          /\ unheard' = [unheard EXCEPT ![c] = TRUE]
    /\ Answer(c, AfterError)
    /\ UNCHANGED <<printerVars, pollVars, name, files, posts, begun, stored, uploads, firmware, left>>
-----------------------------------------------------------------------------
\* Files come and go at the printer, one by the name of another included.
Store(f, content) ==
    /\ uploads < MaxUploads /\ stored[f] # content
    /\ uploads' = uploads + 1
    /\ stored' = [stored EXCEPT ![f] = content]
    /\ held' = [c \in Clients |-> IF step[c] = "off" \/ content = Absent THEN held[c]
                                 ELSE held[c] \cup {<<f, content>>}]
    /\ UNCHANGED <<printerVars, pollVars, requestVars, firmware, lost, left>>

Touchscreen ==
    /\ PrinterNext
    /\ left' = IF Idle THEN changes ELSE left
    /\ UNCHANGED <<pollVars, requestVars, storeVars, firmware, lost>>

Request(c) ==
    \/ List(c) \/ ListFails(c) \/ NoSnapshot(c) \/ HasSnapshot(c) \/ SnapshotGone(c) \/ Refused(c) \/ Allowed(c)
    \/ Begin(c) \/ Started(c) \/ StartFails(c)

Next ==
    \/ Touchscreen \/ PollFails
    \/ \E p \in Pollers : Poll(p) \/ TakeReply(p)
    \/ \E f \in Files, content \in Slicings \cup {Absent} : Store(f, content)
    \/ \E c \in Clients : Request(c) \/ PostNoName(c) \/ \E n \in Files \cup {NoFile} : Post(c, n)

Spec == Init /\ [][Next]_vars
-----------------------------------------------------------------------------
TypeOK ==
    /\ PrinterTypeOK
    /\ snapshot \in [state : MachineStates \cup {None}, at : Nat] /\ failures \in 0..OfflineAfterFailures
    /\ reply \in [Pollers -> [state : MachineStates \cup {None}, at : Nat]]
    /\ step \in [Clients -> {"off", "list", "check", "state", "send", "sent"}]
    /\ name \in [Clients -> Files \cup {NoFile}]
    /\ files \in [Clients -> [Files -> Entries \cup {Absent}]]
    /\ answer \in [Clients -> {"none", "bad_request", "unknown_file", "not_ready", "error", "started"}]
    /\ stored \in [Files -> Slicings \cup {Absent}] /\ firmware \in Firmwares
    /\ posts \in Nat /\ uploads \in Nat /\ lost \in Nat
    /\ left \in Nat /\ checked \in [Clients -> Nat] /\ begun \in [Clients -> Nat]
    /\ unheard \in [Clients -> BOOLEAN]
    /\ held \in [Clients -> SUBSET (Files \X Slicings)]
    /\ \A c \in Clients : step[c] = "send" =>
          name[c] \in Files /\ files[c][name[c]] # Absent /\ \A m \in Sent(c) : m.tool # None /\ m.slot # None

\* A machine that is busy when a start is sent to it was idle at or after the
\* reply the request was allowed by: no job older than what the agent has
\* looked at is ever in the way (start_print, may_start_print).
OnlyANewerJobIsInTheWay ==
    \A c \in Clients : step[c] = "send" /\ ~Idle => left >= checked[c]

\* "Started" is said only of a request the printer began a print for; an
\* unknown file, a missing name and an internal error only of one it began none
\* for; and "not ready" of a print that did begin exactly where it cannot be
\* helped, when the printer's own yes was lost.  None is begun twice
\* (start_print and its route).
AnswersAreHonest ==
    \A c \in Clients :
        /\ answer[c] = "started" => begun[c] = 1
        /\ answer[c] \in {"unknown_file", "bad_request", "error"} => begun[c] = 0
        /\ answer[c] = "not_ready" => (begun[c] = 1 <=> unheard[c])
        /\ begun[c] <= 1

\* A tool is fed from the slot a file by that name was sliced for, in a
\* version the printer has held since the request came in: never from an
\* older list (start_print).
MappingsAreTheFiles ==
    \A c \in Clients : step[c] = "send" =>
        \A m \in Sent(c) :
            \E e \in held[c] : /\ e[1] = name[c] /\ e[2].station
                               /\ \E t \in e[2].tools : t.tool = m.tool /\ t.slot = m.slot

\* tests/test_files.py:159-162 of the guard: "never while the machine is busy"
\* is a start sent to it (start_print).
NeverWhileBusy ==
    [][\A c \in Clients : step[c] = "send" /\ step'[c] # "send" /\ reachable => Idle]_vars
=============================================================================
