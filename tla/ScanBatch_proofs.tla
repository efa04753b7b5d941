--------------------------- MODULE ScanBatch_proofs ---------------------------
(***************************************************************************)
(* Proofs about ScanBatch, for any CMUs, address fields and firmware       *)
(* files, and for any number of clicks.                                    *)
(***************************************************************************)
EXTENDS ScanBatch, SequenceTheorems, FiniteSetTheorems, TLAPS

USE BatchAssumption

Handler == [click: 1 .. MaxClicks, next: Nat \ {0}]

\* The innermost handler of the command menu has workers to start; the rows whose
\* worker has been started; those that have their report.
Starting == loops # <<>> /\ Head(loops).next <= Len(targets)
Started == {i \in DOMAIN targets : Starting => i < Head(loops).next}
Reported == {i \in DOMAIN rows : rows[i].report # NoResult}

\* For a careful user the table is that of the click made last,
TableFits ==
  /\ DOMAIN rows = DOMAIN targets
  /\ \A i \in DOMAIN rows :
       /\ rows[i].name = targets[i]
       /\ rows[i].report # NoResult =>
            rows[i].report = [click |-> clicks, name |-> targets[i]]

\* no handler but that of the click made last will start workers,
HandlersFit ==
  /\ loops # <<>> => targets = range
  /\ \A i \in DOMAIN loops :
       loops[i].next > Len(targets) \/ (i = 1 /\ loops[i].click = clicks)

\* a worker has a row to itself, and has not reported,
WorkersFit ==
  \A w \in workers :
    /\ w.click = clicks /\ w.row \in Started \ Reported
    /\ w.host = targets[w.row]

\* the count is that of the rows with a report,
CountFits == Reported \subseteq Started /\ count = Cardinality(Reported)

\* and the window is free only between two batches.
FreeBetween == ~busy => workers = {} /\ ~Starting /\ Reported = DOMAIN rows

OneBatch == TableFits /\ HandlersFit /\ WorkersFit /\ CountFits /\ FreeBetween

Typed == TypeOK /\ range \in Ranges /\ targets \in Ranges \cup {<<>>}

IInv == Typed /\ (careful => sending = <<>> /\ OneBatch)
-----------------------------------------------------------------------------
(* Sequences.                                                                *)

LEMMA RangesAreLists ==
  ASSUME NEW r \in Ranges \cup {<<>>}
  PROVE  /\ r \in Seq(Hosts) /\ Len(r) \in Nat /\ DOMAIN r = 1 .. Len(r)
         /\ r = <<>> => Len(r) = 0
         /\ Len(r) = 0 => r = <<>>
<1>1. r \in Seq(Hosts)
  BY EmptySeq
<1> QED BY <1>1, EmptySeq, LenProperties

\* A click pushes a handler, the last sleep of a handler pops it.
LEMMA Pushed ==
  ASSUME NEW q \in Seq(Handler), NEW h \in Handler
  PROVE  /\ <<h>> \o q \in Seq(Handler) /\ <<h>> \o q # <<>>
         /\ Head(<<h>> \o q) = h
         /\ \A i \in DOMAIN (<<h>> \o q) : i # 1 =>
              \E j \in DOMAIN q : (<<h>> \o q)[i] = q[j]
<1> DEFINE p == <<h>> \o q
<1>1. <<h>> \in Seq(Handler) /\ Len(<<h>>) = 1 /\ <<h>>[1] = h
  OBVIOUS
<1>2. /\ p \in Seq(Handler) /\ Len(p) = 1 + Len(q)
      /\ \A i \in 1 .. 1 + Len(q) : p[i] = IF i <= 1 THEN <<h>>[i] ELSE q[i - 1]
  BY <1>1, ConcatProperties
<1>3. Len(q) \in Nat /\ DOMAIN q = 1 .. Len(q) /\ DOMAIN p = 1 .. 1 + Len(q)
  BY <1>2, LenProperties
<1> HIDE DEF p
<1>4. p[1] = h
  BY <1>1, <1>2, <1>3
<1>5. p # <<>>
  BY <1>2, <1>3, EmptySeq
<1>6. Head(p) = h
  BY <1>2, <1>4, <1>5
<1>7. ASSUME NEW i \in DOMAIN p, i # 1
      PROVE  \E j \in DOMAIN q : p[i] = q[j]
  <2>1. i \in 1 .. 1 + Len(q) /\ i - 1 \in DOMAIN q
    BY <1>3, <1>7
  <2>2. p[i] = q[i - 1]
    BY <1>2, <1>7, <2>1
  <2> QED BY <2>1, <2>2
<1> QED BY <1>2, <1>5, <1>6, <1>7 DEF p

LEMMA Popped ==
  ASSUME NEW q \in Seq(Handler), q # <<>>
  PROVE  /\ Head(q) \in Handler /\ Tail(q) \in Seq(Handler)
         /\ 1 \in DOMAIN q /\ Head(q) = q[1]
         /\ \A i \in DOMAIN Tail(q) :
              i + 1 \in DOMAIN q /\ i + 1 # 1 /\ Tail(q)[i] = q[i + 1]
<1>1. /\ Head(q) \in Handler /\ Tail(q) \in Seq(Handler) /\ Len(Tail(q)) = Len(q) - 1
      /\ \A i \in 1 .. Len(Tail(q)) : Tail(q)[i] = q[i + 1]
      /\ Len(q) \in Nat \ {0} /\ DOMAIN q = 1 .. Len(q)
  BY HeadTailProperties, EmptySeq, LenProperties
<1>2. Head(q) = q[1] /\ DOMAIN Tail(q) = 1 .. Len(q) - 1
  BY <1>1, LenProperties
<1>3. ASSUME NEW i \in 1 .. Len(q) - 1
      PROVE  i + 1 \in 1 .. Len(q) /\ i + 1 # 1 /\ Tail(q)[i] = q[i + 1]
  BY <1>1, <1>3
<1> QED BY <1>1, <1>2, <1>3

LEMMA Advanced ==
  ASSUME NEW q \in Seq(Handler), q # <<>>
  PROVE  LET p == [q EXCEPT ![1].next = @ + 1]
         IN  /\ p \in Seq(Handler) /\ p # <<>> /\ DOMAIN p = DOMAIN q
             /\ Head(p) = [click |-> Head(q).click, next |-> Head(q).next + 1]
             /\ p[1] = Head(p)
             /\ \A i \in DOMAIN q : i # 1 => p[i] = q[i]
<1> DEFINE h == [q[1] EXCEPT !.next = @ + 1]
           p == [q EXCEPT ![1] = h]
<1>1. Head(q) \in Handler /\ Head(q) = q[1] /\ 1 \in DOMAIN q /\ DOMAIN q = 1 .. Len(q)
  BY Popped, LenProperties
<1>2. h = [click |-> Head(q).click, next |-> Head(q).next + 1] /\ h \in Handler
  BY <1>1 DEF Handler
<1> HIDE DEF h
<1>3. /\ p \in Seq(Handler) /\ Len(p) = Len(q) /\ DOMAIN p = 1 .. Len(p)
      /\ \A i \in 1 .. Len(q) : p[i] = IF i = 1 THEN h ELSE q[i]
  BY <1>1, <1>2, ExceptSeq, LenProperties
<1>4. p[1] = h
  BY <1>1, <1>3
<1> HIDE DEF p
<1>5. p # <<>>
  BY <1>1, <1>3, EmptySeq
<1>6. Head(p) = p[1]
  BY <1>3, <1>5
<1>7. DOMAIN p = DOMAIN q /\ \A i \in DOMAIN q : i # 1 => p[i] = q[i]
  BY <1>1, <1>3
<1>8. [q EXCEPT ![1].next = @ + 1] = p
  BY <1>1 DEF p, h
<1> QED BY <1>2, <1>3, <1>4, <1>5, <1>6, <1>7, <1>8

\* updateData changes the report of one row.
LEMMA Written ==
  ASSUME NEW t \in Seq(Row), NEW i \in DOMAIN t, NEW r \in Report \cup {NoResult}
  PROVE  LET u == [t EXCEPT ![i].report = r]
         IN  /\ u \in Seq(Row) /\ DOMAIN u = DOMAIN t
             /\ u[i] = [name |-> t[i].name, report |-> r]
             /\ \A j \in DOMAIN t : j # i => u[j] = t[j]
<1> DEFINE e == [t[i] EXCEPT !.report = r]
           u == [t EXCEPT ![i] = e]
<1>1. DOMAIN t = 1 .. Len(t) /\ i \in 1 .. Len(t) /\ t[i] \in Row
  BY LenProperties, ElementOfSeq
<1>2. e = [name |-> t[i].name, report |-> r] /\ e \in Row
  BY <1>1 DEF Row
<1> HIDE DEF e
<1>3. /\ u \in Seq(Row) /\ Len(u) = Len(t) /\ DOMAIN u = 1 .. Len(u)
      /\ \A j \in 1 .. Len(t) : u[j] = IF j = i THEN e ELSE t[j]
  BY <1>1, <1>2, ExceptSeq, LenProperties
<1>4. [t EXCEPT ![i].report = r] = u
  BY <1>1 DEF e
<1> HIDE DEF u
<1> QED BY <1>1, <1>2, <1>3, <1>4

\* A new table has the names it is made of and no report.
LEMMA NewTable ==
  ASSUME NEW names \in Seq(Hosts \cup Files)
  PROVE  /\ Blank(names) \in Seq(Row) /\ DOMAIN Blank(names) = DOMAIN names
         /\ \A i \in DOMAIN names :
              Blank(names)[i].name = names[i] /\ Blank(names)[i].report = NoResult
<1>1. Len(names) \in Nat /\ DOMAIN names = 1 .. Len(names)
  BY LenProperties
<1>2. \A i \in 1 .. Len(names) : [name |-> names[i], report |-> NoResult] \in Row
  BY ElementOfSeq DEF Row
<1> QED BY <1>1, <1>2 DEF Blank
-----------------------------------------------------------------------------
(* Types.                                                                    *)

LEMMA NewWorkerTyped ==
  ASSUME NEW r \in Ranges \cup {<<>>}, NEW i \in DOMAIN r, NEW c \in 1 .. MaxClicks
  PROVE  NewWorker(c, i, r) \in Worker
<1>1. r \in Ranges /\ r[i] \in Hosts
  <2>1. r \in Seq(Hosts) /\ DOMAIN r = 1 .. Len(r) /\ i \in 1 .. Len(r)
    BY RangesAreLists
  <2>2. r # <<>>
    BY <2>1, RangesAreLists
  <2> QED BY <2>1, <2>2, ElementOfSeq
<1> QED BY <1>1 DEF NewWorker, Worker

LEMMA RangeNames ==
  ASSUME NEW r \in Ranges
  PROVE  r \in Seq(Hosts \cup Files)
BY SeqMonotonic

LEMMA ClickTyped ==
  ASSUME Typed, NEW button, Click(button)
  PROVE  /\ clicks' \in 0 .. MaxClicks /\ clicks' = clicks + 1
         /\ clicks + 1 \in 1 .. MaxClicks
BY DEF Click, Typed, TypeOK

LEMMA IpAnalyzeTyped ==
  ASSUME Typed, IpAnalyze
  PROVE  /\ targets' = range /\ targets' \in Ranges /\ targets' \in Seq(Hosts)
         /\ count' = 0 /\ busy' \in BOOLEAN /\ rows' \in Seq(Row)
         /\ rows' = Blank(range)
<1>1. targets' = range /\ rows' = Blank(range) /\ range \in Ranges /\ count' = 0
  BY DEF IpAnalyze, CountedAtFirst, Typed
<1>2. Blank(range) \in Seq(Row)
  BY <1>1, RangeNames, NewTable
<1>3. busy' \in BOOLEAN
  BY DEF IpAnalyze, Typed, TypeOK
<1> QED BY <1>1, <1>2, <1>3

LEMMA StartAllTyped ==
  ASSUME Typed, NEW button, StartAll(button)
  PROVE  Typed'
<1> USE DEF StartAll
<1>1. clicks' \in 0 .. MaxClicks /\ clicks + 1 \in 1 .. MaxClicks
  BY ClickTyped
<1>2. /\ targets' \in Ranges /\ targets' \in Seq(Hosts) /\ count' \in Nat
      /\ busy' \in BOOLEAN /\ rows' \in Seq(Row)
  BY IpAnalyzeTyped
<1>3. workers' \subseteq Worker
  <2>1. \A i \in DOMAIN range : NewWorker(clicks + 1, i, range) \in Worker
    BY <1>1, NewWorkerTyped DEF Typed
  <2> QED BY <2>1 DEF Typed, TypeOK
<1> QED BY <1>1, <1>2, <1>3 DEF Typed, TypeOK

LEMMA StartCtrlTyped == Typed /\ StartCtrl => Typed'
<1> SUFFICES ASSUME Typed, StartCtrl PROVE Typed'
  OBVIOUS
<1> USE DEF StartCtrl
<1> DEFINE h == [click |-> clicks + 1, next |-> 2]
<1>1. clicks' \in 0 .. MaxClicks /\ clicks + 1 \in 1 .. MaxClicks
  BY ClickTyped
<1>2. /\ targets' \in Ranges /\ targets' \in Seq(Hosts) /\ count' \in Nat
      /\ busy' \in BOOLEAN /\ rows' \in Seq(Row)
  BY IpAnalyzeTyped
<1>3. workers' \subseteq Worker /\ loops' \in Seq(Handler)
  <2>1. loops \in Seq(Handler) /\ workers \subseteq Worker /\ range \in Ranges
    BY DEF Typed, TypeOK, Handler
  <2>2. CASE range = <<>>
    BY <2>1, <2>2
  <2>3. CASE range # <<>>
    <3>1. h \in Handler
      BY <1>1 DEF Handler
    <3>2. <<h>> \o loops \in Seq(Handler)
      BY <2>1, <3>1, Pushed
    <3>3. 1 \in DOMAIN range
      BY <2>1, <2>3, RangesAreLists
    <3>4. NewWorker(clicks + 1, 1, range) \in Worker
      BY <1>1, <2>1, <3>3, NewWorkerTyped
    <3> QED BY <2>1, <2>3, <3>2, <3>4
  <2> QED BY <2>2, <2>3
<1> QED BY <1>1, <1>2, <1>3 DEF Typed, TypeOK, Handler

\* The handler that wakes, and the worker it starts.
LEMMA Waking ==
  ASSUME Typed, CtrlWakes
  PROVE  LET l == Head(loops) IN
         /\ loops \in Seq(Handler) /\ loops # <<>> /\ l \in Handler
         /\ l.click \in 1 .. MaxClicks /\ l.next \in Nat \ {0}
         /\ l.next <= Len(targets) => l.next \in DOMAIN targets
<1>1. loops \in Seq(Handler) /\ loops # <<>>
  BY DEF Typed, TypeOK, Handler, CtrlWakes
<1>2. Head(loops) \in Handler
  BY <1>1, Popped
<1>3. DOMAIN targets = 1 .. Len(targets) /\ Len(targets) \in Nat
  BY RangesAreLists DEF Typed
<1> QED BY <1>1, <1>2, <1>3 DEF Handler

LEMMA CtrlWakesTyped == Typed /\ CtrlWakes => Typed'
<1> SUFFICES ASSUME Typed, CtrlWakes PROVE Typed'
  OBVIOUS
<1> DEFINE l == Head(loops)
<1>1. workers' \subseteq Worker /\ loops' \in Seq(Handler)
  <2>1. CASE l.next <= Len(targets)
    <3>1. NewWorker(l.click, l.next, targets) \in Worker
      BY <2>1, Waking, NewWorkerTyped DEF Typed
    <3>2. [loops EXCEPT ![1].next = @ + 1] \in Seq(Handler)
      BY Waking, Advanced
    <3> QED BY <2>1, <3>1, <3>2 DEF CtrlWakes, Typed, TypeOK
  <2>2. CASE ~(l.next <= Len(targets))
    <3>1. Tail(loops) \in Seq(Handler)
      BY Waking, Popped
    <3> QED BY <2>2, <3>1 DEF CtrlWakes, Typed, TypeOK
  <2> QED BY <2>1, <2>2
<1> QED BY <1>1 DEF CtrlWakes, Typed, TypeOK, Handler

LEMMA WorkFinishedTyped ==
  ASSUME Typed, NEW w \in workers, WorkFinished(w)
  PROVE  Typed'
<1> DEFINE r == [click |-> w.click, name |-> w.host]
<1>1. r \in Report
  BY DEF Typed, TypeOK, Worker, Report
<1>2. rows' \in Seq(Row)
  <2>1. rows \in Seq(Row) /\ rows' = Shown(w.row, r)
    BY DEF Typed, TypeOK, WorkFinished, RowOf
  <2> HIDE DEF r
  <2>2. CASE w.row \in DOMAIN rows
    BY <1>1, <2>1, <2>2, Written DEF Shown
  <2>3. CASE w.row \notin DOMAIN rows
    BY <2>1, <2>3 DEF Shown
  <2> QED BY <2>2, <2>3
<1> QED BY <1>2 DEF WorkFinished, Typed, TypeOK

LEMMA UploadsTyped == Typed /\ (StartUpload \/ FileSent) => Typed'
<1> SUFFICES ASSUME Typed, StartUpload \/ FileSent PROVE Typed'
  OBVIOUS
<1>1. CASE StartUpload
  <2>1. clicks' \in 0 .. MaxClicks
    BY <1>1, ClickTyped DEF StartUpload
  <2>2. rows' \in Seq(Row)
    <3>1. Firmware \in Seq(Hosts \cup Files)
      BY SeqMonotonic
    <3> QED BY <1>1, <3>1, NewTable DEF StartUpload
  <2>3. sending' \in Seq(Files)
    BY <1>1, ConcatProperties DEF StartUpload, Typed, TypeOK
  <2> QED BY <1>1, <2>1, <2>2, <2>3 DEF StartUpload, Typed, TypeOK
<1>2. CASE FileSent
  <2> DEFINE f == Head(sending)
  <2>1. sending' \in Seq(Files) /\ f \in Files
    BY <1>2, HeadTailProperties DEF FileSent, Typed, TypeOK
  <2>2. rows' \in Seq(Row)
    <3>1. rows \in Seq(Row) /\ DOMAIN rows = 1 .. Len(rows) /\ Len(rows) \in Nat
      BY LenProperties DEF Typed, TypeOK
    <3>2. [click |-> 0, name |-> f] \in Report
      BY <2>1 DEF Report
    <3> HIDE DEF f
    <3>3. ASSUME NEW i \in 1 .. Len(rows)
          PROVE  /\ rows[i] \in Row
                 /\ [rows[i] EXCEPT !.report = [click |-> 0, name |-> f]] \in Row
      <4>1. rows[i] \in Row
        BY <3>1, ElementOfSeq
      <4> QED BY <3>2, <4>1 DEF Row
    <3>4. rows' = [i \in 1 .. Len(rows) |->
                     IF rows[i].name = f
                     THEN [rows[i] EXCEPT !.report = [click |-> 0, name |-> f]]
                     ELSE rows[i]]
      BY <1>2, <3>1 DEF FileSent, f
    <3> QED BY <3>1, <3>3, <3>4
  <2> QED BY <1>2, <2>1, <2>2 DEF FileSent, Typed, TypeOK
<1> QED BY <1>1, <1>2

LEMMA TypedStep == Typed /\ [Next]_vars => Typed'
<1> SUFFICES ASSUME Typed, [Next]_vars PROVE Typed'
  OBVIOUS
<1>1. CASE EditRange \/ UNCHANGED vars
  BY <1>1 DEF EditRange, vars, Typed, TypeOK
<1>2. CASE StartCtrl \/ CtrlWakes
  BY <1>2, StartCtrlTyped, CtrlWakesTyped
<1>3. CASE StartUpload \/ FileSent
  BY <1>3, UploadsTyped
<1>4. ASSUME NEW button, StartAll(button) PROVE Typed'
  BY <1>4, StartAllTyped
<1>5. ASSUME NEW w \in workers, WorkFinished(w) PROVE Typed'
  BY <1>5, WorkFinishedTyped
<1> QED BY <1>1, <1>2, <1>3, <1>4, <1>5 DEF Next, User

LEMMA InitTyped == Init => Typed
<1> SUFFICES ASSUME Init PROVE Typed
  OBVIOUS
<1>1. /\ targets \in Seq(Hosts) /\ rows \in Seq(Row) /\ loops \in Seq(Handler)
      /\ sending \in Seq(Files)
  BY EmptySeq DEF Init
<1>2. range \in Ranges /\ targets \in Ranges \cup {<<>>}
  BY DEF Init
<1>3. count \in Nat /\ clicks \in 0 .. MaxClicks
  BY DEF Init
<1>4. busy \in BOOLEAN /\ careful \in BOOLEAN /\ workers \subseteq Worker
  BY DEF Init
<1> QED BY <1>1, <1>2, <1>3, <1>4 DEF Typed, TypeOK, Handler
-----------------------------------------------------------------------------
(* One batch at a time.                                                      *)

LEMMA Lists ==
  ASSUME Typed
  PROVE  /\ Len(targets) \in Nat /\ DOMAIN targets = 1 .. Len(targets)
         /\ loops \in Seq(Handler) /\ DOMAIN rows = 1 .. Len(rows)
         /\ loops # <<>> => Head(loops) = loops[1] /\ 1 \in DOMAIN loops
         /\ \A i \in DOMAIN loops : loops[i].next \in Nat
<1>1. Len(targets) \in Nat /\ DOMAIN targets = 1 .. Len(targets)
  BY RangesAreLists DEF Typed
<1>2. loops \in Seq(Handler) /\ rows \in Seq(Row)
  BY DEF Typed, TypeOK, Handler
<1>3. loops # <<>> => Head(loops) = loops[1] /\ 1 \in DOMAIN loops
  BY <1>2, Popped
<1>4. ASSUME NEW i \in DOMAIN loops PROVE loops[i].next \in Nat
  <2>1. loops[i] \in Handler
    BY <1>2, LenProperties, ElementOfSeq
  <2> QED BY <2>1 DEF Handler
<1> QED BY <1>1, <1>2, <1>3, <1>4, LenProperties

\* Handlers that have nothing to start are all past the end of the list.
LEMMA HandlersPast ==
  ASSUME Typed, HandlersFit, ~Starting
  PROVE  \A i \in DOMAIN loops : loops[i].next > Len(targets)
<1> SUFFICES ASSUME NEW i \in DOMAIN loops PROVE loops[i].next > Len(targets)
  OBVIOUS
<1>1. loops[i].next > Len(targets) \/ i = 1
  BY DEF HandlersFit
<1>2. CASE i = 1
  <2>1. loops # <<>>
    OBVIOUS
  <2> QED BY <1>2, <2>1, Lists DEF Starting
<1> QED BY <1>1, <1>2

\* A click a careful user can make: no batch is under way.
LEMMA CarefulClick ==
  ASSUME IInv, careful, NEW button, Click(button)
  PROVE  /\ button \notin {"fixTime", "upload"} /\ ~busy
         /\ workers = {} /\ ~Starting /\ clicks' = clicks + 1
BY DEF Click, Enabled, IInv, OneBatch, FreeBetween

LEMMA FreshTable ==
  ASSUME Typed, IpAnalyze
  PROVE  TableFits' /\ CountFits' /\ Reported' = {}
<1>1. targets' = range /\ rows' = Blank(range) /\ count' = 0 /\ range \in Ranges
  BY IpAnalyzeTyped DEF Typed
<1>2. /\ DOMAIN rows' = DOMAIN targets'
      /\ \A i \in DOMAIN targets' :
           rows'[i].name = targets'[i] /\ rows'[i].report = NoResult
  BY <1>1, RangeNames, NewTable
<1>3. Reported' = {}
  BY <1>2 DEF Reported
<1>4. CountFits'
  BY <1>1, <1>3, FS_EmptySet DEF CountFits
<1> QED BY <1>2, <1>3, <1>4 DEF TableFits

LEMMA StartAllFits ==
  ASSUME IInv, careful, NEW button, StartAll(button)
  PROVE  OneBatch'
<1>1. /\ ~busy /\ workers = {} /\ ~Starting /\ clicks' = clicks + 1
      /\ Typed /\ IpAnalyze /\ HandlersFit
  BY CarefulClick DEF StartAll, IInv, OneBatch
<1>2. targets' = range /\ loops' = loops
  BY <1>1 DEF IpAnalyze, StartAll
<1>3. HandlersFit' /\ ~Starting'
  <2>1. CASE loops = <<>>
    BY <1>2, <2>1 DEF HandlersFit, Starting
  <2>2. CASE loops # <<>>
    <3>1. targets' = targets /\ range' = range
      BY <1>1, <1>2, <2>2 DEF HandlersFit, StartAll
    <3> QED BY <1>1, <1>2, <3>1, HandlersPast DEF HandlersFit, Starting
  <2> QED BY <2>1, <2>2
<1>4. WorkersFit'
  <2>1. Started' = DOMAIN targets' /\ Reported' = {}
    BY <1>1, <1>3, FreshTable DEF Started
  <2>2. \A w \in workers' : \E i \in DOMAIN range : w = NewWorker(clicks + 1, i, range)
    BY <1>1 DEF StartAll
  <2> QED BY <1>1, <1>2, <2>1, <2>2 DEF WorkersFit, NewWorker
<1>5. FreeBetween'
  <2>1. ~busy' => range = <<>>
    BY <1>1 DEF IpAnalyze
  <2>2. range = <<>> => workers' = {} /\ DOMAIN rows' = {}
    BY <1>1, <1>2, FreshTable DEF StartAll, TableFits
  <2> QED BY <1>1, <1>3, <2>1, <2>2, FreshTable DEF FreeBetween
<1> QED BY <1>1, <1>3, <1>4, <1>5, FreshTable DEF OneBatch

LEMMA StartCtrlFits ==
  ASSUME IInv, careful, StartCtrl
  PROVE  OneBatch'
<1> DEFINE h == [click |-> clicks + 1, next |-> 2]
<1>1. /\ ~busy /\ workers = {} /\ ~Starting /\ clicks' = clicks + 1
      /\ Typed /\ IpAnalyze /\ HandlersFit
  BY CarefulClick DEF StartCtrl, IInv, OneBatch
<1>2. targets' = range /\ range \in Ranges /\ (loops # <<>> => targets' = targets)
  BY <1>1 DEF IpAnalyze, HandlersFit, Typed
<1>3. TableFits' /\ CountFits' /\ Reported' = {}
  BY <1>1, FreshTable
<1>4. CASE range = <<>>
  <2>1. workers' = {} /\ loops' = loops
    BY <1>1, <1>4 DEF StartCtrl
  <2>2. HandlersFit' /\ ~Starting'
    <3>1. CASE loops = <<>>
      BY <2>1, <3>1 DEF HandlersFit, Starting
    <3>2. CASE loops # <<>>
      <4>1. targets' = targets /\ range' = range
        BY <1>2, <3>2 DEF StartCtrl
      <4> QED BY <1>1, <1>2, <2>1, <4>1, HandlersPast DEF HandlersFit, Starting
    <3> QED BY <3>1, <3>2
  <2>3. DOMAIN rows' = {}
    BY <1>2, <1>3, <1>4 DEF TableFits
  <2> QED BY <1>3, <2>1, <2>2, <2>3 DEF OneBatch, WorkersFit, FreeBetween
<1>5. CASE range # <<>>
  <2>1. workers' = {NewWorker(clicks + 1, 1, range)} /\ loops' = <<h>> \o loops
    BY <1>1, <1>5 DEF StartCtrl
  <2>2. h \in Handler /\ loops \in Seq(Handler)
    BY <1>1, ClickTyped, Lists DEF StartCtrl, Handler
  <2>3. /\ loops' # <<>> /\ Head(loops') = h
        /\ \A i \in DOMAIN loops' : i # 1 => \E j \in DOMAIN loops : loops'[i] = loops[j]
        /\ loops'[1] = h
    <3> HIDE DEF h
    <3>1. <<h>> \o loops \in Seq(Handler)
      BY <2>2, Pushed
    <3> QED BY <2>1, <2>2, <3>1, Pushed, Popped
  <2>4. HandlersFit'
    <3>1. range' = range
      BY DEF StartCtrl
    <3>2. ASSUME NEW i \in DOMAIN loops', i # 1 PROVE loops'[i].next > Len(targets')
      <4>1. PICK j \in DOMAIN loops : loops'[i] = loops[j]
        BY <2>3, <3>2
      <4>2. loops # <<>>
        BY <4>1
      <4> QED BY <1>1, <1>2, <4>1, <4>2, HandlersPast
    <3> QED BY <1>1, <1>2, <2>3, <3>1, <3>2 DEF HandlersFit
  <2>5. WorkersFit'
    <3>1. 1 \in DOMAIN targets'
      BY <1>2, <1>5, RangesAreLists
    <3>2. 1 \in Started'
      BY <2>3, <3>1 DEF Started
    <3> QED BY <1>1, <1>2, <1>3, <2>1, <3>2 DEF WorkersFit, NewWorker
  <2>6. busy'
    BY <1>1, <1>5 DEF IpAnalyze
  <2> QED BY <1>3, <2>4, <2>5, <2>6 DEF OneBatch, FreeBetween
<1> QED BY <1>4, <1>5
LEMMA CtrlWakesFits ==
  ASSUME IInv, careful, CtrlWakes
  PROVE  OneBatch'
<1> DEFINE l == Head(loops)
<1>1. /\ Typed /\ TableFits /\ HandlersFit /\ WorkersFit /\ CountFits /\ FreeBetween
      /\ loops # <<>>
  BY DEF IInv, OneBatch, CtrlWakes
<1>2. /\ loops \in Seq(Handler) /\ l = loops[1] /\ 1 \in DOMAIN loops
      /\ Len(targets) \in Nat /\ l.next \in Nat
  BY <1>1, Lists
<1>3. UNCHANGED <<range, targets, count, busy, rows, clicks>>
  BY DEF CtrlWakes
<1>4. Reported' = Reported /\ TableFits'
  BY <1>1, <1>3 DEF Reported, TableFits
<1>5. CASE l.next <= Len(targets)
  <2>1. /\ workers' = workers \cup {NewWorker(l.click, l.next, targets)}
        /\ loops' = [loops EXCEPT ![1].next = @ + 1]
    BY <1>5 DEF CtrlWakes
  <2>2. /\ loops' # <<>> /\ DOMAIN loops' = DOMAIN loops
        /\ Head(loops') = [click |-> l.click, next |-> l.next + 1]
        /\ loops'[1] = Head(loops')
        /\ \A i \in DOMAIN loops : i # 1 => loops'[i] = loops[i]
    BY <1>1, <1>2, <2>1, Advanced
  <2>3. l.click = clicks /\ Starting
    BY <1>1, <1>2, <1>5 DEF HandlersFit, Starting
  <2>4. l.next \in DOMAIN targets
    BY <1>1, <1>5, Waking
  <2>5. Started \subseteq Started' /\ l.next \in Started' /\ l.next \notin Started
    <3>1. ASSUME NEW i \in Started PROVE i \in Started'
      <4>1. i \in DOMAIN targets /\ i < l.next /\ i \in Nat
        BY <1>1, <2>3, <3>1, Lists DEF Started
      <4> QED BY <1>2, <1>3, <2>2, <4>1 DEF Started
    <3>2. l.next \in Started'
      BY <1>2, <1>3, <2>2, <2>4 DEF Started
    <3>3. l.next \notin Started
      BY <1>2, <2>3 DEF Started
    <3> QED BY <3>1, <3>2, <3>3
  <2>6. HandlersFit'
    BY <1>1, <1>3, <2>2, <2>3 DEF HandlersFit
  <2>7. CountFits'
    BY <1>1, <1>3, <1>4, <2>5 DEF CountFits
  <2>8. WorkersFit'
    <3>1. ASSUME NEW w \in workers
          PROVE  /\ w.click = clicks' /\ w.row \in Started' \ Reported'
                 /\ w.host = targets'[w.row]
      BY <1>1, <1>3, <1>4, <2>5 DEF WorkersFit
    <3>2. LET w == NewWorker(l.click, l.next, targets)
          IN  /\ w.click = clicks' /\ w.row \in Started' \ Reported'
              /\ w.host = targets'[w.row]
      BY <1>1, <1>3, <1>4, <2>3, <2>5 DEF CountFits, NewWorker
    <3> QED BY <2>1, <3>1, <3>2 DEF WorkersFit
  <2>9. busy'
    BY <1>1, <1>3, <2>3 DEF FreeBetween
  <2> QED BY <1>4, <2>6, <2>7, <2>8, <2>9 DEF OneBatch, FreeBetween
<1>6. CASE ~(l.next <= Len(targets))
  <2>1. workers' = workers /\ loops' = Tail(loops)
    BY <1>6 DEF CtrlWakes
  <2>2. ~Starting /\ \A i \in DOMAIN loops : loops[i].next > Len(targets)
    BY <1>1, <1>6, HandlersPast DEF Starting
  <2>3. /\ loops' \in Seq(Handler)
        /\ \A i \in DOMAIN loops' : loops'[i].next > Len(targets)
    BY <1>1, <1>2, <2>1, <2>2, Popped
  <2>4. ~Starting'
    <3>1. loops' # <<>> => Head(loops') = loops'[1] /\ 1 \in DOMAIN loops'
      BY <2>3, Popped
    <3>2. loops' # <<>> => Head(loops').next \in Nat
      BY <2>3, Popped DEF Handler
    <3> QED BY <1>2, <1>3, <2>3, <3>1, <3>2 DEF Starting
  <2>5. Started' = Started
    BY <1>3, <2>2, <2>4 DEF Started
  <2>6. HandlersFit'
    BY <1>1, <1>3, <2>3 DEF HandlersFit
  <2>7. WorkersFit' /\ CountFits'
    BY <1>1, <1>3, <1>4, <2>1, <2>5 DEF WorkersFit, CountFits
  <2>8. FreeBetween'
    BY <1>1, <1>3, <1>4, <2>1, <2>4 DEF FreeBetween
  <2> QED BY <1>4, <2>6, <2>7, <2>8 DEF OneBatch
<1> QED BY <1>5, <1>6

LEMMA CountTo ==
  ASSUME NEW n \in Nat
  PROVE  IsFiniteSet(1 .. n) /\ Cardinality(1 .. n) = n
<1>1. IsFiniteSet(1 .. n) /\ Cardinality(1 .. n) = IF 1 > n THEN 0 ELSE n - 1 + 1
  BY FS_Interval
<1>2. (IF 1 > n THEN 0 ELSE n - 1 + 1) = n
  OBVIOUS
<1> QED BY <1>1, <1>2

\* A report is counted once and leaves no other worker without its row.
LEMMA WorkFinishedFits ==
  ASSUME IInv, careful, NEW w \in workers, WorkFinished(w)
  PROVE  OneBatch'
<1> DEFINE i == w.row
           r == [click |-> w.click, name |-> w.host]
<1>1. /\ Typed /\ TableFits /\ HandlersFit /\ WorkersFit /\ CountFits /\ FreeBetween
  BY DEF IInv, OneBatch
<1>2. /\ UNCHANGED <<range, targets, loops, clicks>> /\ workers' = workers \ {w}
      /\ count' = count + 1
  BY DEF WorkFinished
<1>3. /\ i \in Started /\ i \notin Reported /\ i \in DOMAIN rows
      /\ r = [click |-> clicks, name |-> targets[i]]
  BY <1>1 DEF WorkersFit, TableFits, Started
<1>4. r \in Report /\ r # NoResult /\ rows \in Seq(Row)
  <2>1. w \in Worker /\ rows \in Seq(Row)
    BY <1>1 DEF Typed, TypeOK
  <2>2. r \in Report
    BY <2>1 DEF Worker, Report
  <2> QED BY <2>1, <2>2
<1> HIDE DEF r, i
<1>5. rows' = [rows EXCEPT ![i].report = r]
  BY <1>3 DEF WorkFinished, Shown, RowOf, r, i
<1>6. /\ DOMAIN rows' = DOMAIN rows
      /\ rows'[i] = [name |-> rows[i].name, report |-> r]
      /\ \A j \in DOMAIN rows : j # i => rows'[j] = rows[j]
  BY <1>3, <1>4, <1>5, Written
<1>7. TableFits'
  BY <1>1, <1>2, <1>3, <1>6 DEF TableFits
<1>8. Reported' = Reported \cup {i}
  BY <1>3, <1>4, <1>6 DEF Reported
<1>9. Started' = Started /\ (Starting' <=> Starting)
  BY <1>2 DEF Started, Starting
<1>10. CountFits'
  <2>1. IsFiniteSet(Reported)
    <3>1. Reported \in SUBSET (1 .. Len(targets)) /\ Len(targets) \in Nat
      BY <1>1, Lists DEF TableFits, Reported
    <3>2. IsFiniteSet(1 .. Len(targets))
      BY <3>1, CountTo
    <3> QED BY <3>1, <3>2, FS_Subset
  <2>2. Cardinality(Reported') = Cardinality(Reported) + 1
    BY <1>3, <1>8, <2>1, FS_AddElement
  <2> QED BY <1>1, <1>2, <1>3, <1>8, <1>9, <2>2 DEF CountFits
<1>11. WorkersFit'
  <2>1. ASSUME NEW v \in workers, v # w PROVE v.row # i
    <3>1. v \in Worker /\ w \in Worker
      BY <1>1 DEF Typed, TypeOK
    <3>2. v.click = w.click /\ v.host = targets[v.row] /\ w.host = targets[w.row]
      BY <1>1 DEF WorkersFit
    <3> QED BY <2>1, <3>1, <3>2 DEF Worker, i
  <2> QED BY <1>1, <1>2, <1>8, <1>9, <2>1 DEF WorkersFit
<1>12. FreeBetween'
  <2>1. SUFFICES ASSUME ~busy'
                 PROVE  workers' = {} /\ ~Starting' /\ Reported' = DOMAIN rows'
    BY DEF FreeBetween
  <2>2. busy
    BY <1>1 DEF FreeBetween
  <2>3. count' = Len(targets)
    BY <1>2, <2>1, <2>2 DEF WorkFinished, AllCounted
  <2>4. Reported' = 1 .. Len(targets)
    <3>1. Len(targets) \in Nat /\ DOMAIN rows' = 1 .. Len(targets)
      BY <1>1, <1>6, Lists DEF TableFits
    <3>2. Reported' \in SUBSET (1 .. Len(targets))
      BY <3>1 DEF Reported
    <3>3. IsFiniteSet(1 .. Len(targets)) /\ Cardinality(1 .. Len(targets)) = Len(targets)
      BY <3>1, CountTo
    <3>4. Cardinality(Reported') = Len(targets)
      BY <1>10, <2>3 DEF CountFits
    <3> QED BY <3>2, <3>3, <3>4, FS_Subset
  <2>5. Started' \subseteq 1 .. Len(targets) /\ DOMAIN rows' = 1 .. Len(targets)
    BY <1>1, <1>2, <1>6, Lists DEF Started, TableFits
  <2>6. workers' = {}
    BY <1>11, <2>4, <2>5 DEF WorkersFit
  <2>7. ~Starting'
    <3> SUFFICES ASSUME Starting' PROVE FALSE
      OBVIOUS
    <3>1. Starting /\ Head(loops).next \in 1 .. Len(targets)
      <4>1. Starting /\ loops # <<>> /\ loops \in Seq(Handler)
        BY <1>1, <1>9, Lists DEF Starting
      <4>2. Head(loops) \in Handler
        BY <4>1, Popped
      <4> QED BY <1>1, <4>1, <4>2, Lists DEF Starting, Handler
    <3>2. Head(loops).next \in Started
      BY <1>9, <1>10, <2>4, <3>1 DEF CountFits
    <3> QED BY <3>1, <3>2 DEF Started
  <2> QED BY <2>4, <2>5, <2>6, <2>7
<1> QED BY <1>1, <1>2, <1>7, <1>10, <1>11, <1>12 DEF OneBatch, HandlersFit
-----------------------------------------------------------------------------
(* The theorems.                                                             *)

\* The invariant is inductive: the buttons setBusy disables keep the batches of a careful
\* user apart, whatever address fields, reports and sleeps follow one another.
THEOREM Invariance == Spec => []IInv
<1>1. Init => IInv
  <2> SUFFICES ASSUME Init PROVE IInv
    OBVIOUS
  <2>1. /\ rows = <<>> /\ targets = <<>> /\ loops = <<>> /\ workers = {} /\ count = 0
        /\ sending = <<>>
    BY DEF Init
  <2>2. DOMAIN rows = {} /\ DOMAIN targets = {} /\ DOMAIN loops = {}
    BY <2>1
  <2>3. ~Starting /\ Reported = {}
    BY <2>1, <2>2 DEF Starting, Reported
  <2>4. TableFits /\ HandlersFit /\ WorkersFit
    BY <2>1, <2>2 DEF TableFits, HandlersFit, WorkersFit
  <2>5. CountFits /\ FreeBetween
    BY <2>1, <2>2, <2>3, FS_EmptySet DEF CountFits, FreeBetween
  <2> QED BY <2>1, <2>4, <2>5, InitTyped DEF IInv, OneBatch
<1>2. IInv /\ [Next]_vars => IInv'
  <2> SUFFICES ASSUME IInv, [Next]_vars PROVE IInv'
    OBVIOUS
  <2>1. Typed' /\ careful' = careful
    BY TypedStep
       DEF IInv, Next, User, EditRange, StartAll, StartCtrl, StartUpload, CtrlWakes,
           FileSent, WorkFinished, vars
  <2> SUFFICES ASSUME careful PROVE sending' = <<>> /\ OneBatch'
    BY <2>1 DEF IInv
  <2> USE DEF IInv
  <2>2. CASE EditRange
    <3>1. loops = <<>> /\ UNCHANGED <<targets, count, busy, rows, workers>>
          /\ UNCHANGED <<loops, sending, clicks>>
      BY <2>2 DEF EditRange
    <3> QED BY <3>1 DEF OneBatch, TableFits, HandlersFit, WorkersFit, CountFits,
                        FreeBetween, Started, Starting, Reported
  <2>3. CASE StartCtrl
    BY <2>3, StartCtrlFits DEF StartCtrl
  <2>4. CASE CtrlWakes
    BY <2>4, CtrlWakesFits DEF CtrlWakes
  <2>5. ASSUME NEW button, StartAll(button) PROVE sending' = <<>> /\ OneBatch'
    BY <2>5, StartAllFits DEF StartAll
  <2>6. ASSUME NEW w \in workers, WorkFinished(w) PROVE sending' = <<>> /\ OneBatch'
    BY <2>6, WorkFinishedFits DEF WorkFinished
  <2>7. ~StartUpload /\ ~FileSent
    BY CarefulClick DEF StartUpload, FileSent
  <2>8. CASE UNCHANGED vars
    BY <2>8 DEF vars, OneBatch, TableFits, HandlersFit, WorkersFit, CountFits, FreeBetween,
                Started, Starting, Reported
  <2> QED BY <2>2, <2>3, <2>4, <2>5, <2>6, <2>7, <2>8 DEF Next, User
<1> QED BY <1>1, <1>2, PTL DEF Spec

\* Every variable keeps its type, for careful users and others: a sleeping handler only
\* ever starts a worker for a row of the list there is.
THEOREM TypeCorrect == Spec => []TypeOK
<1>1. IInv => TypeOK
  BY DEF IInv, Typed
<1> QED BY <1>1, Invariance, PTL

\* For careful users a report stands in the row of the CMU it is about, in the table of
\* its click.
THEOREM ReportsStandInTheirRow == Spec => []ReportsInTheirRow
<1>1. IInv => ReportsInTheirRow
  BY DEF IInv, OneBatch, TableFits, ReportsInTheirRow
<1> QED BY <1>1, Invariance, PTL

\* While a worker of a careful user is at work or has yet to be started, the window is
\* busy.
THEOREM BusyAllTheWhile == Spec => []BusyWhileWorking
<1>1. IInv => BusyWhileWorking
  BY DEF IInv, OneBatch, FreeBetween, Starting, BusyWhileWorking
<1> QED BY <1>1, Invariance, PTL

\* When the window becomes free for a careful user, no worker is left and every row has
\* its report.
THEOREM FreeMeansDone == Spec => FreedWhenDone
<1>1. IInv /\ IInv' /\ [Next]_vars => [careful => Completed]_vars
  <2> SUFFICES ASSUME IInv', [Next]_vars, careful, ~busy', ~(UNCHANGED vars)
               PROVE  workers' = {} /\ \A i \in DOMAIN rows' : rows'[i].report # NoResult
    BY DEF Completed
  <2>1. careful'
    BY DEF Next, User, EditRange, StartAll, StartCtrl, StartUpload, CtrlWakes, FileSent,
           WorkFinished
  <2> QED BY <2>1 DEF IInv, OneBatch, FreeBetween, Reported
<1> QED BY <1>1, Invariance, PTL DEF Spec, FreedWhenDone

\* The address field lists no CMU twice. The user may well enter one twice: ip_analyze keeps
\* both, and each row has a worker of its own.
NoneTwice == \A r \in Ranges : \A i, j \in DOMAIN r : r[i] = r[j] => i = j

\* If the address field lists no CMU twice, no CMU of a careful user is given two commands
\* at once.
THEOREM NoCommandsSideBySide == NoneTwice => (Spec => []OneCommandAtATime)
<1> SUFFICES ASSUME NoneTwice PROVE Spec => []OneCommandAtATime
  OBVIOUS
<1>1. IInv => OneCommandAtATime
  <2> SUFFICES ASSUME IInv, careful, NEW v \in workers, NEW w \in workers, v.host = w.host
               PROVE  v = w
    BY DEF OneCommandAtATime
  <2>1. v \in Worker /\ w \in Worker
    BY DEF IInv, Typed, TypeOK
  <2>2. /\ v.click = w.click /\ targets[v.row] = targets[w.row]
        /\ v.row \in DOMAIN targets /\ w.row \in DOMAIN targets
    BY DEF IInv, OneBatch, WorkersFit, Started
  <2>3. targets \in Ranges
    BY <2>2 DEF IInv, Typed
  <2>4. v.row = w.row
    BY <2>2, <2>3 DEF NoneTwice
  <2> QED BY <2>1, <2>2, <2>4 DEF Worker
<1> QED BY <1>1, Invariance, PTL
=============================================================================
