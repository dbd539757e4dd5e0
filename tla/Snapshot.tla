------------------------------ MODULE Snapshot ------------------------------
(***************************************************************************)
(* The agent's typed view of one `detail` reply (flashforge/snapshot.py)   *)
(* and the questions the agent asks of it.                                 *)
(*                                                                         *)
(* Data is cut to what the agent branches on: the machine state, the file  *)
(* name, whether anything has been extruded (printDuration or printLayer   *)
(* off zero), whether progress has reached job_tracker.DONE_THRESHOLD, and *)
(* the error code.  Temperatures, estimates, slots and the like are copied *)
(* through to messages and decide nothing.                                 *)
(***************************************************************************)

CONSTANTS
    Files,      \* print file names the printer may report
    NoFile,     \* the empty printFileName
    Codes,      \* error codes the printer may report
    NoCode,     \* the empty errorCode
    None        \* Python's None, where a snapshot is expected

MachineStates == {"ready", "busy", "heating", "printing", "paused",
                  "completed", "error", "cancelled", "unknown"}

ActiveStates == {"printing", "heating", "busy", "paused"}

\* Every status word a printer may send: the ones the agent knows, the short
\* forms of firmware 1.9.9, and one that stands for all unfamiliar words.
StatusWords == (MachineStates \ {"unknown"}) \cup {"pause", "cancel", "calibrating"}

ParseState(word) ==
    CASE word = "pause"  -> "paused"
      [] word = "cancel" -> "cancelled"
      [] word \in MachineStates -> word
      [] OTHER -> "unknown"

Snapshots == [state     : MachineStates,
              file      : Files \cup {NoFile},
              extruding : BOOLEAN,
              done      : BOOLEAN,
              error     : Codes \cup {NoCode}]

ASSUME SnapshotAssumption ==
    /\ NoFile \notin Files
    /\ NoCode \notin Codes
    /\ None \notin Snapshots

HasJob(s) == s.file # NoFile /\ s.state \in ActiveStates

IsPaused(s) == s.state = "paused"

WarmingUpAllJob(s) == HasJob(s) /\ ~IsPaused(s)     \* mutant: extrusion is not looked at

WarmingUp(s) == HasJob(s) /\ ~IsPaused(s) /\ ~s.extruding

Texts == {"Offline", "Operational", "Printing", "Paused"}

\* obico_state_text: what Obico shows for a snapshot, given what it shows now.
StateText(s, previous) ==
    CASE s = None              -> "Offline"
      [] s # None /\ HasJob(s) -> IF IsPaused(s) THEN "Paused" ELSE "Printing"
      [] s # None /\ ~HasJob(s) /\ s.state \in {"unknown", "busy"} -> previous
      [] OTHER                 -> "Operational"
=============================================================================
