----------------------------- MODULE ScanBatch ------------------------------
(***************************************************************************)
(* The batch window (views/scan_settings): one click sends a command to    *)
(* every CMU of the address field.  Each CMU gets a worker in a thread of  *)
(* its own, which reports once (workFinished); the window writes the       *)
(* report into the worker's row of the result table, counts it, and is     *)
(* free again when it has counted as many as there are targets.            *)
(*                                                                         *)
(* The handlers run in the GUI thread.  Those of the write, test and set-  *)
(* the-clock buttons start all workers at once; that of the command menu   *)
(* sleeps between two workers, and handles events while it does: reports,  *)
(* and further clicks.                                                     *)
(***************************************************************************)
EXTENDS Integers, Sequences

CONSTANTS
  Hosts,          \* the CMUs
  Ranges,         \* what the address field may hold, as lists of CMUs
  Firmware,       \* the firmware files beside the program, in their order
  MaxClicks,      \* bound: clicks on a button
  NoResult

Files == {Firmware[i] : i \in DOMAIN Firmware}
Report == [click: 0 .. MaxClicks, name: Hosts \cup Files]

ASSUME BatchAssumption ==
  /\ Ranges \subseteq Seq(Hosts)
  /\ Firmware \in Seq(Files)
  /\ Files \cap Hosts = {}
  /\ MaxClicks \in Nat
  /\ NoResult \notin Report

VARIABLES
  range,          \* the address field (connectIP)
  targets,        \* target_ips
  count,          \* target_count
  busy,           \* setBusy: the write, test and command buttons are disabled
  rows,           \* the result table: what a row is about, the report in it
  workers,        \* the workers that have not reported: click, row and CMU
  loops,          \* handlers of the command menu that sleep, innermost first
  sending,        \* files queued for Qtftp::client_put
  clicks,         \* history: clicks so far
  careful         \* the user waits for a batch to end, whatever the window allows

vars ==
  <<range, targets, count, busy, rows, workers, loops, sending, clicks, careful>>

Worker ==
  [click: 1 .. MaxClicks, row: UNION {DOMAIN r : r \in Ranges}, host: Hosts]
Row == [name: Hosts \cup Files, report: Report \cup {NoResult}]

Init ==
  /\ range \in Ranges
  /\ targets = <<>>
  /\ count = 0
  /\ busy = FALSE
  /\ rows = <<>>
  /\ workers = {}
  /\ loops = <<>>
  /\ sending = <<>>
  /\ clicks = 0
  /\ careful \in BOOLEAN

-----------------------------------------------------------------------------
\* The field is never disabled.  A careful user leaves it alone while the menu's
\* handler sleeps.
EditRange ==
  /\ careful => loops = <<>>
  /\ range' \in Ranges \ {range}
  /\ UNCHANGED <<targets, count, busy, rows, workers, loops, sending, clicks, careful>>

\* What setBusy disables.  The buttons it leaves enabled a careful user does not
\* use.
Enabled_TestAlways(button) == button \in {"test", "fixTime", "upload"} \/ ~busy
Enabled(button) == button \in {"fixTime", "upload"} \/ ~busy

Click(button) ==
  /\ Enabled(button)
  /\ careful => button \notin {"fixTime", "upload"}
  /\ clicks < MaxClicks
  /\ clicks' = clicks + 1

Blank(names) ==
  [i \in DOMAIN names |-> [name |-> names[i], report |-> NoResult]]

CountedAtFirst_One == -1
CountedAtFirst == 0

\* ip_analyze, and setBusy for the batch.
IpAnalyze ==
  /\ targets' = range
  /\ count' = CountedAtFirst
  /\ rows' = Blank(range)
  /\ busy' = (busy \/ range # <<>>)

NewWorker(click, i, list) == [click |-> click, row |-> i, host |-> list[i]]

\* on_btnWrite_released, on_btnTest_released, on_btnFixTime_released
StartAll(button) ==
  /\ Click(button)
  /\ IpAnalyze
  /\ workers' = workers \cup {NewWorker(clicks + 1, i, range) : i \in DOMAIN range}
  /\ UNCHANGED <<range, loops, sending, careful>>

\* btnCtrlMenu, up to its first sleep.
StartCtrl ==
  /\ Click("ctrl")
  /\ IpAnalyze
  /\ IF range = <<>>
     THEN UNCHANGED <<workers, loops>>
     ELSE /\ workers' = workers \cup {NewWorker(clicks + 1, 1, range)}
          /\ loops' = <<[click |-> clicks + 1, next |-> 2]>> \o loops
  /\ UNCHANGED <<range, sending, careful>>

\* The innermost sleep ends: the loop goes on over the targets there are now.
CtrlWakes ==
  /\ loops # <<>>
  /\ LET l == Head(loops) IN
     IF l.next <= Len(targets)
     THEN /\ workers' = workers \cup {NewWorker(l.click, l.next, targets)}
          /\ loops' = [loops EXCEPT ![1].next = @ + 1]
     ELSE loops' = Tail(loops) /\ UNCHANGED workers
  /\ UNCHANGED <<range, targets, count, busy, rows, sending, clicks, careful>>

\* ParaModel::updateData(row, ...)
RowOf_Arrival(w) == count + 1
RowOf(w) == w.row

Shown_ButLast(i, report) ==
  IF i + 1 \in DOMAIN rows THEN [rows EXCEPT ![i].report = report] ELSE rows
Shown(i, report) ==
  IF i \in DOMAIN rows THEN [rows EXCEPT ![i].report = report] ELSE rows

AllCounted_Before(n) == n = Len(targets) + 1
AllCounted_Early(n) == n = Len(targets) - 1
AllCounted(n) == n = Len(targets)

WorkFinished(w) ==
  /\ w \in workers
  /\ workers' = workers \ {w}
  /\ count' = count + 1
  /\ busy' = (busy /\ ~AllCounted(count + 1))
  /\ rows' = Shown(RowOf(w), [click |-> w.click, name |-> w.host])
  /\ UNCHANGED <<range, targets, loops, sending, clicks, careful>>

\* on_btnUpload_released uses the same table.
StartUpload ==
  /\ Click("upload")
  /\ rows' = Blank(Firmware)
  /\ sending' = sending \o Firmware
  /\ UNCHANGED <<range, targets, count, busy, workers, loops, careful>>

\* The handler of fileSent looks its row up by name.
FileSent ==
  /\ sending # <<>>
  /\ sending' = Tail(sending)
  /\ rows' = [i \in DOMAIN rows |->
                IF rows[i].name = Head(sending)
                THEN [rows[i] EXCEPT !.report = [click |-> 0, name |-> Head(sending)]]
                ELSE rows[i]]
  /\ UNCHANGED <<range, targets, count, busy, workers, loops, clicks, careful>>

User ==
  \/ EditRange \/ StartCtrl \/ StartUpload
  \/ \E button \in {"write", "test", "fixTime"} : StartAll(button)

Next == User \/ CtrlWakes \/ FileSent \/ \E w \in workers : WorkFinished(w)

Spec == Init /\ [][Next]_vars

\* A worker's requests time out, so it reports; a sleep ends; client_put ends.
FairSpec ==
  /\ Spec
  /\ WF_vars(CtrlWakes)
  /\ WF_vars(FileSent)
  /\ \A w \in Worker : WF_vars(WorkFinished(w))

-----------------------------------------------------------------------------
TypeOK ==
  /\ range \in Seq(Hosts)
  /\ targets \in Seq(Hosts)
  /\ count \in Nat
  /\ busy \in BOOLEAN
  /\ rows \in Seq(Row)
  /\ workers \subseteq Worker
  /\ loops \in Seq([click: 1 .. MaxClicks, next: Nat \ {0}])
  /\ sending \in Seq(Files)
  /\ clicks \in 0 .. MaxClicks
  /\ careful \in BOOLEAN

\* What the buttons setBusy disables are to achieve: a user who uses no other and
\* lets the menu's handler sleep never makes two batches overlap.

\* No CMU is given two commands at once: a reset and new settings, say, never run
\* against the same CMU side by side.  (The fields of the instances list a CMU once: one
\* listed twice gets two workers.)
OneCommandAtATime == careful => \A v, w \in workers : v.host = w.host => v = w

\* A report stands in the row of the CMU it is about, in the table of its click.
ReportsInTheirRow ==
  careful =>
    \A i \in DOMAIN rows : rows[i].report # NoResult =>
      rows[i].report = [click |-> clicks, name |-> rows[i].name]

\* While a worker is at work, or has yet to be started, the window is busy.
BusyWhileWorking ==
  careful /\ (workers # {} \/ (loops # <<>> /\ Head(loops).next <= Len(targets)))
    => busy

\* The window becomes free only when no worker is left and every row has its
\* report.
Completed ==
  busy /\ ~busy' =>
    /\ workers' = {}
    /\ \A i \in DOMAIN rows' : rows'[i].report # NoResult
FreedWhenDone == [][careful => Completed]_vars

\* "操作完毕" (scan_settings.cpp:909, the operation is finished), said when the
\* window becomes free, is true whatever the user clicks.
DoneMeansDone == [][Completed]_vars

\* However clicks overlap, the window becomes free again; unless the clock button
\* is clicked during a batch with no CMU in the address field, which makes the
\* number of reports that end the batch zero: no report brings it about any more.
BusyEnds == busy ~> (~busy \/ (~careful /\ targets = <<>>))
=============================================================================
