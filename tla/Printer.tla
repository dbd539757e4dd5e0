------------------------------ MODULE Printer ------------------------------
(***************************************************************************)
(* The printer as the agent meets it over its HTTP port: EXTERNAL to the   *)
(* repository, modelled from what the code and the design say of it.       *)
(*   - `detail` answers with a status word, a file name, whether anything  *)
(*     has been extruded, and an error code;                               *)
(*   - it says "printing" from the moment a job is accepted, and ignores   *)
(*     job control until it extrudes (PrinterSnapshot.warming_up);         *)
(*   - an accepted command is an acknowledgement: it takes effect some     *)
(*     time later, or never (design, 4.4);                                 *)
(*   - someone at the touchscreen may start, pause, resume or cancel a job *)
(*     at any time, and the network may fail and come back.                *)
(***************************************************************************)
EXTENDS Snapshot, Integers

CONSTANTS
    OddWords,     \* the status words beyond the everyday ones this printer uses
    MaxChanges    \* bound: printer changes before the touchscreen goes quiet

Commands == {"pause", "resume", "cancel"}
NoCmd == "none"

VARIABLES
    printer,    \* what the machine is doing: [word, file, extruding, error]
    owed,       \* a command it has accepted and not yet obeyed, or NoCmd
    reachable,  \* does `detail` get an answer?
    changes     \* changes of the machine so far: dates what is read from it

printerVars == <<printer, owed, reachable, changes>>

Machines == [word : StatusWords, file : Files \cup {NoFile},
             extruding : BOOLEAN, error : Codes \cup {NoCode}]

PrinterTypeOK ==
    /\ printer \in Machines
    /\ owed \in Commands \cup {NoCmd}
    /\ reachable \in BOOLEAN
    /\ changes \in Nat

PrinterInit ==
    /\ printer = [word |-> "ready", file |-> NoFile, extruding |-> FALSE, error |-> NoCode]
    /\ owed = NoCmd
    /\ reachable = TRUE
    /\ changes = 0

\* The snapshot parse_snapshot makes of a `detail` reply given right now.
Detail == [state     |-> ParseState(printer.word),
           file      |-> printer.file,
           extruding |-> printer.extruding,
           done      |-> printer.word = "completed",
           error     |-> printer.error]

IdleWords == {"ready", "completed", "cancel", "error"}

\* The machine acts on a command only in the states where it means something.
Heeds(cmd) ==
    CASE cmd = "pause"  -> printer.word = "printing" /\ printer.extruding
      [] cmd = "resume" -> printer.word = "pause"
      [] cmd = "cancel" -> printer.word = "pause" \/ (printer.word = "printing" /\ printer.extruding)
      [] OTHER          -> FALSE

WordAfter(cmd) ==
    CASE cmd = "pause"  -> "pause"
      [] cmd = "resume" -> "printing"
      [] OTHER          -> "cancel"

Becomes(machine) == printer' = machine /\ changes' = changes + 1

TouchscreenBusy == changes < MaxChanges

StartJob(f) ==
    /\ TouchscreenBusy
    /\ printer.word \in IdleWords \cup {"busy"}
    /\ Becomes([word |-> "printing", file |-> f, extruding |-> FALSE, error |-> NoCode])
    /\ UNCHANGED <<owed, reachable>>

Heat ==     \* the first layer starts
    /\ printer.word = "printing" /\ ~printer.extruding
    /\ Becomes([printer EXCEPT !.extruding = TRUE])
    /\ UNCHANGED <<owed, reachable>>

Touch(cmd) ==   \* a button on the touchscreen
    /\ TouchscreenBusy
    /\ Heeds(cmd)
    /\ Becomes([printer EXCEPT !.word = WordAfter(cmd)])
    /\ UNCHANGED <<owed, reachable>>

Obey ==     \* an accepted command takes effect, or has lost its meaning
    /\ owed # NoCmd
    /\ owed' = NoCmd
    /\ IF Heeds(owed) THEN Becomes([printer EXCEPT !.word = WordAfter(owed)])
       ELSE UNCHANGED <<printer, changes>>
    /\ UNCHANGED reachable

Finish ==
    /\ TouchscreenBusy
    /\ printer.word = "printing" /\ printer.extruding
    /\ Becomes([printer EXCEPT !.word = "completed"])
    /\ UNCHANGED <<owed, reachable>>

Break(code) ==
    /\ TouchscreenBusy
    /\ printer.word \in {"printing", "pause"}
    /\ Becomes([printer EXCEPT !.word = "error", !.error = code])
    /\ UNCHANGED <<owed, reachable>>

Spin ==     \* busy with no file: a job may be spinning up
    /\ TouchscreenBusy
    /\ "busy" \in OddWords /\ printer.word \in IdleWords
    /\ Becomes([word |-> "busy", file |-> NoFile, extruding |-> FALSE, error |-> NoCode])
    /\ UNCHANGED <<owed, reachable>>

Calibrate ==    \* an unfamiliar word in the middle of a job
    /\ TouchscreenBusy
    /\ "calibrating" \in OddWords /\ printer.word = "printing"
    /\ Becomes([printer EXCEPT !.word = "calibrating"])
    /\ UNCHANGED <<owed, reachable>>

Calibrated ==
    /\ printer.word = "calibrating"
    /\ Becomes([printer EXCEPT !.word = "printing"])
    /\ UNCHANGED <<owed, reachable>>

GoDark ==
    /\ TouchscreenBusy
    /\ reachable
    /\ reachable' = FALSE
    /\ changes' = changes + 1
    /\ UNCHANGED <<printer, owed>>

ComeBack ==
    /\ ~reachable
    /\ reachable' = TRUE
    /\ UNCHANGED <<printer, owed, changes>>

PrinterNext ==
    \/ \E f \in Files : StartJob(f)
    \/ \E cmd \in Commands : Touch(cmd)
    \/ \E code \in Codes : Break(code)
    \/ Heat \/ Obey \/ Finish \/ Spin \/ Calibrate \/ Calibrated
    \/ GoDark \/ ComeBack

\* jobCtl_cmd answered with code 0: the machine means to obey, unless the
\* firmware ignores the command in its present state.
Acknowledge(cmd) ==
    /\ owed' = IF Heeds(cmd) THEN cmd ELSE owed
    /\ UNCHANGED <<printer, reachable, changes>>
=============================================================================
