--------------------------- MODULE PrinterProofs ---------------------------
(***************************************************************************)
(* What the proofs about the agent need to know of the printer.            *)
(***************************************************************************)
EXTENDS Printer, TLAPS

\* A snapshot read off the printer is one (parse_snapshot).
LEMMA DetailType ==
    ASSUME PrinterTypeOK
    PROVE  Detail \in Snapshots
<1>1. printer \in Machines
  BY DEF PrinterTypeOK
<1>2. ParseState(printer.word) \in MachineStates
  BY DEF ParseState, MachineStates
<1>. QED
  BY <1>1, <1>2 DEF Detail, Snapshots, Machines

\* The printer keeps its type (Printer.tla).
LEMMA PrinterType ==
    ASSUME PrinterTypeOK, PrinterNext
    PROVE  PrinterTypeOK'
<1>1. reachable' \in BOOLEAN
  <2>1. CASE GoDark \/ ComeBack
    BY <2>1, Zenon DEF GoDark, ComeBack
  <2>2. CASE ~GoDark /\ ~ComeBack
    <3>1. reachable' = reachable
      BY <2>2 DEF PrinterNext, StartJob, Heat, Touch, Obey, Finish, Break, Spin, Calibrate, Calibrated
    <3>. QED
      BY <3>1 DEF PrinterTypeOK
  <2>. QED
    BY <2>1, <2>2
<1>2. changes' \in Nat
  <2>1. changes' = changes \/ changes' = changes + 1
    BY DEF PrinterNext, StartJob, Heat, Touch, Obey, Finish, Break, Spin, Calibrate, Calibrated,
           GoDark, ComeBack, Becomes
  <2>. QED
    BY <2>1 DEF PrinterTypeOK
<1>3. owed' \in Commands \cup {NoCmd}
  BY DEF PrinterTypeOK, PrinterNext, StartJob, Heat, Touch, Obey, Finish, Break, Spin,
         Calibrate, Calibrated, GoDark, ComeBack
<1>4. printer' \in Machines
  <2>. USE DEF PrinterTypeOK, Becomes, Machines, StatusWords, MachineStates
  <2>1. CASE \E f \in Files : StartJob(f)
    BY <2>1 DEF StartJob
  <2>2. CASE \E c \in Commands : Touch(c)
    BY <2>2 DEF Touch, WordAfter
  <2>3. CASE \E code \in Codes : Break(code)
    BY <2>3 DEF Break
  <2>4. CASE Heat
    BY <2>4 DEF Heat
  <2>5. CASE Obey
    BY <2>5 DEF Obey, WordAfter
  <2>6. CASE Finish
    BY <2>6 DEF Finish
  <2>7. CASE Spin
    BY <2>7 DEF Spin
  <2>8. CASE Calibrate
    BY <2>8 DEF Calibrate
  <2>9. CASE Calibrated
    BY <2>9 DEF Calibrated
  <2>10. CASE GoDark \/ ComeBack
    BY <2>10 DEF GoDark, ComeBack
  <2>. QED
    BY <2>1, <2>2, <2>3, <2>4, <2>5, <2>6, <2>7, <2>8, <2>9, <2>10 DEF PrinterNext
<1>. QED
  BY <1>1, <1>2, <1>3, <1>4 DEF PrinterTypeOK
=============================================================================
