---------------------------- MODULE Recorder_proofs ----------------------------
(***************************************************************************)
(* What Recorder promises of the record of the readings and of the fault   *)
(* log, for every set of versions, sizes, faults and counts.               *)
(*                                                                         *)
(* The inductive invariant adds two facts to the types.  CountsKept ties   *)
(* what the program counts to what has happened: a fault's lines and its   *)
(* count together account for every sample that showed it.  FilesKept says *)
(* that an open record is one that is on, and that no way of changing what *)
(* its columns depend on ends without a new title.                         *)
(***************************************************************************)
EXTENDS Recorder, TLAPS

EachNth == logSaveMethod = "NTIMES" /\ asked < Wrap

\* What the count and the lines of one fault say of the samples that showed it.
Kept(f) ==
  /\ lines[f] <= seen[f]
  /\ logSaveMethod = "ONCE" =>
       OldErrLogBufMap[f] = Least(1, seen[f]) /\ lines[f] = Least(1, seen[f])
  /\ logSaveMethod = "ALWAYS" => lines[f] = seen[f]
  /\ EachNth => /\ OldErrLogBufMap[f] < asked
                /\ seen[f] = asked * lines[f] + OldErrLogBufMap[f]

CountsKept == (EachNth => errLogCount = asked) /\ \A f \in Faults : Kept(f)

FilesKept ==
  file["data"] # NoFile =>
    /\ Opens("data")
    /\ Quiet => file["data"].columns = TitleColumns

IInv == TypeOK /\ CountsKept /\ FilesKept /\ Survives

-----------------------------------------------------------------------------
(* Arithmetic, and the columns.                                              *)

\* Dividing the samples by N gives the lines when less than N are left over.
LEMMA Quotient ==
  ASSUME NEW a \in Nat \ {0}, NEW q \in Nat, NEW r \in Nat, r < a
  PROVE  (a * q + r) \div a = q
OBVIOUS

\* A number that fits is not changed by cutting it down to the width.
LEMMA Narrowed ==
  ASSUME NEW n \in Nat, NEW w \in Nat \ {0}
  PROVE  n % w \in 0 .. w - 1 /\ (n < w => n % w = n)
<1>1. n % w \in 0 .. w - 1
  OBVIOUS
<1>2. n < w => n % w = n
  OBVIOUS
<1> QED BY <1>1, <1>2

\* The two tests of the version agree, except for version 4.
LEMMA PartsAgree ==
  ASSUME NEW v \in Nat, Pro(v) = 0 => v <= 3
  PROVE  TitleParts(v) = RowParts(v)
<1>1. (v > 3) <=> (Pro(v) # 0)
  BY DEF Pro
<1> QED BY <1>1 DEF TitleParts, RowParts

LEMMA PartsNamed ==
  ASSUME NEW v
  PROVE  TitleParts(v) \subseteq Parts
BY DEF TitleParts, CommonParts, Balance, Parts

LEMMA ColumnsTyped ==
  ASSUME NEW t \in Nat, NEW b \in Nat, NEW c \in Nat, NEW parts \in SUBSET Parts
  PROVE  {<<"nodes", t, 0>>} \cup {<<p, b, c>> : p \in IF b = 0 THEN {} ELSE parts}
           \in SUBSET (Parts \X Nat \X Nat)
<1>1. <<"nodes", t, 0>> \in Parts \X Nat \X Nat
  BY DEF Parts
<1>2. ASSUME NEW p \in parts
      PROVE  <<p, b, c>> \in Parts \X Nat \X Nat
  OBVIOUS
<1> QED BY <1>1, <1>2
-----------------------------------------------------------------------------
(* What opening files does.                                                  *)

FilesTyped == /\ file \in [Logs -> File \cup {NoFile}] /\ aged \in [Logs -> BOOLEAN]
              /\ disk \in {"ok", "full"}

\* A new file is a file: it is not NoFile.
LEMMA NewFileTyped ==
  ASSUME config' \in [bmu : Nat, vol : Nat], table' \in Nat,
         file \in [Logs -> File \cup {NoFile}], NEW log \in Logs
  PROVE  NewFile(log) \in File
<1>1. TitleColumns' \in SUBSET (Parts \X Nat \X Nat)
  <2> DEFINE parts == TitleParts(version')
  <2>1. parts \in SUBSET Parts
    BY PartsNamed
  <2>2. config.bmu' \in Nat /\ config.vol' \in Nat
    OBVIOUS
  <2>3. TitleColumns' = {<<"nodes", table', 0>>} \cup
          {<<p, config.bmu', config.vol'>> : p \in IF config.bmu' = 0 THEN {} ELSE parts}
    BY DEF TitleColumns, Columns
  <2> HIDE DEF parts
  <2> QED BY <2>1, <2>2, <2>3, ColumnsTyped
<1>2. (file[log] # NoFile /\ ~file[log].turn) \in BOOLEAN
  OBVIOUS
<1> QED BY <1>1, <1>2 DEF NewFile, File

LEMMA TitlesEffect ==
  ASSUME config' \in [bmu : Nat, vol : Nat], table' \in Nat, FilesTyped,
         NEW logs \in SUBSET Logs, Titles(logs)
  PROVE  /\ FilesTyped'
         /\ \A log \in Logs : log \in logs /\ Opens(log) =>
              /\ disk' = "ok" => file'[log] # NoFile
              /\ log = "data" /\ file'[log] # NoFile => file'[log].columns = TitleColumns'
         /\ \A log \in Logs : ~(log \in logs /\ Opens(log)) => file'[log] = file[log]
<1>1. ASSUME NEW log \in Logs
      PROVE  /\ NewFile(log) \in File
             /\ log = "data" => NewFile(log).columns = TitleColumns'
  BY <1>1, NewFileTyped DEF FilesTyped, NewFile
<1>2. ASSUME NEW log \in Logs
      PROVE  NewFile(log) # NoFile
  BY <1>1, RecorderAssumption DEF RecorderAssumption
<1>3. ASSUME NEW log \in Logs
      PROVE  file'[log] = IF log \in logs /\ Opens(log) THEN Title(log) ELSE file[log]
  BY <1>3 DEF Titles
<1>4. file' \in [Logs -> File \cup {NoFile}]
  <2>1. ASSUME NEW log \in Logs
        PROVE  Title(log) \in File \cup {NoFile} /\ file[log] \in File \cup {NoFile}
    BY <1>1 DEF Title, FilesTyped
  <2> QED BY <2>1 DEF Titles
<1>5. aged' \in [Logs -> BOOLEAN] /\ disk' \in {"ok", "full"}
  BY DEF Titles, FilesTyped
<1>6. ASSUME NEW log \in Logs, log \in logs, Opens(log)
      PROVE  /\ disk' = "ok" => file'[log] # NoFile
             /\ log = "data" /\ file'[log] # NoFile => file'[log].columns = TitleColumns'
  BY <1>1, <1>2, <1>3, <1>6 DEF Title
<1> QED BY <1>3, <1>4, <1>5, <1>6 DEF FilesTyped
-----------------------------------------------------------------------------
(* Types.                                                                    *)

\* The types of all but the files and the counts of the fault log.
PlainTyped ==
  /\ state \in {"CONNECT", "INIT", "READ"} /\ wpc \in {"idle", "titles"}
  /\ alive \in BOOLEAN
  /\ config \in [bmu : 0 .. MaxSizes.bmu, vol : 0 .. MaxSizes.vol]
  /\ version \in Nat /\ table \in Nat
  /\ writing \in Nat /\ expro \in Nat /\ changes \in 0 .. ChangeBound
  /\ writing + expro <= changes
  /\ stopped \in [Logs -> BOOLEAN] /\ rec \in BOOLEAN
  /\ logSaveMethod \in ERRLOG_METHOD
  /\ errLogCount \in 0 .. Wrap - 1 /\ asked \in Counts \cup {DefaultCount}
  /\ cells \in 0 .. MaxSizes.vol /\ sys_para \in Sizes

CountsTyped ==
  /\ OldErrLogBufMap \in [Faults -> Nat]
  /\ seen \in [Faults -> 0 .. SeenBound] /\ lines \in [Faults -> 0 .. SeenBound]

LEMMA TypeParts == TypeOK <=> PlainTyped /\ FilesTyped /\ CountsTyped
BY DEF TypeOK, PlainTyped, FilesTyped, CountsTyped

LEMMA SizesNat == PlainTyped => config \in [bmu : Nat, vol : Nat]
BY RecorderAssumption DEF PlainTyped, RecorderAssumption

LEMMA AskedPositive ==
  ASSUME NEW n \in Counts \cup {DefaultCount}
  PROVE  n \in Nat \ {0}
<1>1. DefaultCount \in Nat \ {0}
  BY RecorderAssumption DEF RecorderAssumption
<1>2. Counts \subseteq Nat \ {0}
  BY RecorderAssumption DEF RecorderAssumption
<1> QED BY <1>1, <1>2

LEMMA Clamped ==
  ASSUME NEW s \in Sizes
  PROVE  Clamp(s) \in [bmu : 0 .. MaxSizes.bmu, vol : 0 .. MaxSizes.vol]
<1>1. s.bmu \in Nat /\ s.vol \in Nat /\ MaxSizes.bmu \in Nat /\ MaxSizes.vol \in Nat
  BY RecorderAssumption DEF RecorderAssumption
<1>2. Least(s.bmu, MaxSizes.bmu) \in 0 .. MaxSizes.bmu
  BY <1>1 DEF Least
<1>3. Least(s.vol, MaxSizes.vol) \in 0 .. MaxSizes.vol
  BY <1>1 DEF Least
<1> QED BY <1>2, <1>3 DEF Clamp

LEMMA InitType == Init => TypeOK
<1> SUFFICES ASSUME Init PROVE TypeOK
  OBVIOUS
<1>1. FilesTyped
  BY DEF Init, FilesTyped
<1>2. CountsTyped
  BY RecorderAssumption DEF Init, CountsTyped, RecorderAssumption
<1>3. version \in Nat
  BY RecorderAssumption DEF Init, RecorderAssumption, Baseline, Pro
<1>4. config \in [bmu : 0 .. MaxSizes.bmu, vol : 0 .. MaxSizes.vol]
  BY RecorderAssumption DEF Init, RecorderAssumption, NoSizes
<1>5. PlainTyped
  BY RecorderAssumption, <1>3, <1>4 DEF Init, PlainTyped, RecorderAssumption, ERRLOG_METHOD
<1> QED BY <1>1, <1>2, <1>5, TypeParts

LEMMA PlainStep ==
  ASSUME TypeOK, [Next]_vars
  PROVE  PlainTyped'
<1> USE RecorderAssumption DEF RecorderAssumption
<1>0. PlainTyped
  BY TypeParts
<1>1. CASE Connect
  BY <1>0, <1>1 DEF PlainTyped, Connect, tableVars, versionVars, switchVars, methodVars, envVars
<1>2. CASE Reconnect
  BY <1>0, <1>2 DEF PlainTyped, Reconnect, tableVars, versionVars, switchVars, methodVars, envVars
<1>3. CASE ReadSysPara
  <2>1. Clamp(sys_para) \in [bmu : 0 .. MaxSizes.bmu, vol : 0 .. MaxSizes.vol]
    BY <1>0, Clamped DEF PlainTyped
  <2>2. alive' \in BOOLEAN
    BY <1>0, <1>3 DEF ReadSysPara, PlainTyped, Writable
  <2> QED BY <1>0, <1>3, <2>1, <2>2 DEF PlainTyped, ReadSysPara, versionVars, switchVars, methodVars
<1>4. ASSUME NEW faults \in SUBSET Faults, Record(faults)
      PROVE  PlainTyped'
  <2>1. alive' \in BOOLEAN
    BY <1>4 DEF Record, Writable, HasMeans
  <2>2. cells' \in 0 .. MaxSizes.vol
    BY <1>0, <1>4 DEF Record, ChannelsRead, PlainTyped
  <2> QED BY <1>0, <1>4, <2>1, <2>2
          DEF PlainTyped, Record, tableVars, versionVars, switchVars, methodVars
<1>5. CASE CtrlDump
  BY <1>0, <1>5 DEF PlainTyped, CtrlDump, pollVars, tableVars, versionVars, methodVars, envVars
<1>6. CASE CtrlDumpErrLog
  BY <1>0, <1>6 DEF PlainTyped, CtrlDumpErrLog, pollVars, tableVars, versionVars, methodVars,
                         envVars
<1>7. ASSUME NEW m \in ERRLOG_METHOD, NEW n \in Counts, SetErrLogMethod(m, n)
      PROVE  PlainTyped'
  <2>1. n % Wrap \in 0 .. Wrap - 1
    BY Narrowed
  <2> QED BY <1>0, <1>7, <2>1 DEF PlainTyped, SetErrLogMethod, pollVars, tableVars, versionVars,
                                  switchVars, envVars
<1>8. CASE InitTables
  <2>1. Baseline(version) \in Nat
    BY <1>0 DEF PlainTyped, Baseline, Pro
  <2>2. version' \in Nat
    BY <1>0, <1>8, <2>1 DEF InitTables, PlainTyped
  <2>3. config' \in [bmu : 0 .. MaxSizes.bmu, vol : 0 .. MaxSizes.vol]
    BY <1>8 DEF InitTables, NoSizes
  <2> QED BY <1>0, <1>8, <2>2, <2>3 DEF PlainTyped, InitTables, switchVars, methodVars, envVars
<1>9. CASE NewTitles
  BY <1>0, <1>9 DEF PlainTyped, NewTitles, Writable, tableVars, versionVars, switchVars, methodVars
<1>10. CASE StartChange
  BY <1>0, <1>10 DEF PlainTyped, StartChange, pollVars, tableVars, switchVars, methodVars, envVars
<1>11. CASE FinishChange
  BY <1>0, <1>11 DEF PlainTyped, FinishChange, pollVars, tableVars, switchVars, methodVars, envVars
<1>12. CASE Resized
  BY <1>0, <1>12 DEF PlainTyped, Resized, pollVars, tableVars, versionVars, switchVars, methodVars
<1>13. ASSUME NEW log \in Logs, Ages(log)
       PROVE  PlainTyped'
  BY <1>0, <1>13 DEF PlainTyped, Ages, pollVars, tableVars, versionVars, switchVars,
                          methodVars, envVars
<1>14. CASE UNCHANGED vars
  BY <1>0, <1>14 DEF PlainTyped, vars, pollVars, tableVars, versionVars, switchVars,
                          methodVars, envVars
<1> QED BY <1>1, <1>2, <1>3, <1>4, <1>5, <1>6, <1>7, <1>8, <1>9, <1>10, <1>11, <1>12, <1>13, <1>14
        DEF Next, WorkerNext
-----------------------------------------------------------------------------
(* The files.                                                                *)

\* The three steps that write titles: which recordings they do it for.
LEMMA TitleSteps ==
  ASSUME [Next]_vars
  PROVE  \/ \E logs \in SUBSET Logs : Titles(logs) /\ UNCHANGED switchVars
         \/ UNCHANGED <<fileVars, switchVars, disk>>
         \/ CtrlDump \/ CtrlDumpErrLog \/ \E log \in Logs : Ages(log)
<1>1. CASE ReadSysPara
  BY <1>1 DEF ReadSysPara, switchVars, fileVars
<1>2. ASSUME NEW faults \in SUBSET Faults, Record(faults)
      PROVE  Titles(Due) /\ UNCHANGED switchVars
  BY <1>2 DEF Record
<1>3. Due \in SUBSET Logs /\ AfterInit \in SUBSET Logs
  BY DEF Due, AfterInit
<1>4. CASE NewTitles
  BY <1>3, <1>4 DEF NewTitles, switchVars
<1>5. CASE Connect \/ Reconnect \/ \E m \in ERRLOG_METHOD, n \in Counts : SetErrLogMethod(m, n)
  BY <1>5 DEF Connect, Reconnect, SetErrLogMethod, switchVars, fileVars, envVars
<1>6. CASE InitTables \/ StartChange \/ FinishChange \/ Resized \/ UNCHANGED vars
  BY <1>6 DEF InitTables, StartChange, FinishChange, Resized, vars, switchVars, fileVars, envVars
<1> QED BY <1>1, <1>2, <1>3, <1>4, <1>5, <1>6 DEF Next, WorkerNext

LEMMA FilesTypedStep ==
  ASSUME TypeOK, [Next]_vars
  PROVE  FilesTyped'
<1>0. FilesTyped /\ PlainTyped'
  BY TypeParts, PlainStep
<1>1. ASSUME NEW logs \in SUBSET Logs, Titles(logs)
      PROVE  FilesTyped'
  <2>1. config' \in [bmu : Nat, vol : Nat]
    BY <1>0, RecorderAssumption DEF PlainTyped, RecorderAssumption
  <2> QED BY <1>0, <1>1, <2>1, TitlesEffect DEF PlainTyped
<1>2. CASE UNCHANGED <<fileVars, switchVars, disk>>
  BY <1>0, <1>2 DEF FilesTyped, fileVars
<1>3. CASE CtrlDump
  BY <1>0, <1>3 DEF FilesTyped, CtrlDump, fileVars, envVars, Logs
<1>4. CASE CtrlDumpErrLog
  BY <1>0, <1>4 DEF FilesTyped, CtrlDumpErrLog, fileVars, envVars, Logs
<1>5. ASSUME NEW log \in Logs, Ages(log)
      PROVE  FilesTyped'
  BY <1>0, <1>5 DEF FilesTyped, Ages, envVars
<1> QED BY <1>1, <1>2, <1>3, <1>4, <1>5, TitleSteps

\* Written for a change of what the columns depend on, or of nothing.
LEMMA FilesKeptByTitles ==
  ASSUME TypeOK, PlainTyped', FilesKept,
         NEW logs \in SUBSET Logs, Titles(logs), UNCHANGED switchVars,
         "data" \in logs \/ UNCHANGED <<config, table, version, writing, expro, wpc>>
  PROVE  FilesKept'
<1>1. config' \in [bmu : Nat, vol : Nat] /\ table' \in Nat /\ FilesTyped
  BY TypeParts, RecorderAssumption DEF PlainTyped, RecorderAssumption
<1>2. Opens("data")' = Opens("data")
  BY DEF Opens, switchVars
<1>3. "data" \in Logs
  BY DEF Logs
<1>4. CASE "data" \in logs /\ Opens("data")
  BY <1>1, <1>2, <1>3, <1>4, TitlesEffect DEF FilesKept
<1>5. CASE ~("data" \in logs /\ Opens("data"))
  <2>1. file'["data"] = file["data"]
    BY <1>1, <1>3, <1>5, TitlesEffect
  <2>2. CASE ~Opens("data")
    BY <1>2, <2>1, <2>2 DEF FilesKept
  <2>3. CASE UNCHANGED <<config, table, version, writing, expro, wpc>>
    <3>1. Quiet' = Quiet /\ TitleColumns' = TitleColumns
      BY <2>3 DEF Quiet, TitleColumns, Columns
    <3> QED BY <1>2, <2>1, <3>1 DEF FilesKept
  <2> QED BY <1>5, <2>2, <2>3
<1> QED BY <1>4, <1>5

LEMMA FilesKeptStep ==
  ASSUME TypeOK, FilesKept, [Next]_vars
  PROVE  FilesKept'
<1>0. PlainTyped /\ PlainTyped' /\ FilesTyped
  BY TypeParts, PlainStep
<1>1. ASSUME UNCHANGED <<config, table, version, writing, expro, wpc>>,
             file'["data"] \in {NoFile, file["data"]},
             UNCHANGED switchVars \/ file'["data"] = NoFile
      PROVE  FilesKept'
  <2>1. Quiet' = Quiet /\ TitleColumns' = TitleColumns
    BY <1>1 DEF Quiet, TitleColumns, Columns
  <2> QED BY <1>1, <2>1 DEF FilesKept, Opens, switchVars
<1>2. ASSUME UNCHANGED <<file, switchVars>>, ~Quiet'
      PROVE  FilesKept'
  BY <1>2 DEF FilesKept, Opens, switchVars
<1>3. CASE Connect \/ Reconnect \/ \E m \in ERRLOG_METHOD, n \in Counts : SetErrLogMethod(m, n)
  BY <1>1, <1>3 DEF Connect, Reconnect, SetErrLogMethod, tableVars, versionVars, pollVars, fileVars
<1>4. CASE Resized \/ UNCHANGED vars
  BY <1>1, <1>4 DEF Resized, vars, tableVars, versionVars, pollVars, fileVars
<1>5. ASSUME NEW log \in Logs, Ages(log)
      PROVE  FilesKept'
  BY <1>1, <1>5 DEF Ages, tableVars, versionVars, pollVars
<1>6. CASE ReadSysPara
  <2>1. CASE SizesChanged
    <3>1. Titles(Logs) /\ UNCHANGED switchVars /\ "data" \in Logs
      BY <1>6, <2>1 DEF ReadSysPara, Logs
    <3> QED BY <1>0, <3>1, FilesKeptByTitles
  <2>2. CASE ~SizesChanged
    BY <1>1, <1>6, <2>2 DEF ReadSysPara, versionVars, fileVars
  <2> QED BY <2>1, <2>2
<1>7. ASSUME NEW faults \in SUBSET Faults, Record(faults)
      PROVE  FilesKept'
  <2>1. Titles(Due) /\ UNCHANGED switchVars /\ Due \in SUBSET Logs
    BY <1>7 DEF Record, Due
  <2>2. UNCHANGED <<config, table, version, writing, expro, wpc>>
    BY <1>7 DEF Record, tableVars, versionVars
  <2> QED BY <1>0, <2>1, <2>2, FilesKeptByTitles
<1>8. CASE CtrlDump
  <2>1. CASE stopped["data"]
    <3>1. file["data"] = NoFile
      BY <2>1 DEF FilesKept, Opens
    <3> QED BY <1>1, <1>8, <2>1, <3>1 DEF CtrlDump, tableVars, versionVars, pollVars, fileVars
  <2>2. CASE ~stopped["data"]
    <3>1. file'["data"] = NoFile
      BY <1>0, <1>8, <2>2 DEF CtrlDump, FilesTyped, Logs
    <3> QED BY <3>1 DEF FilesKept
  <2> QED BY <2>1, <2>2
<1>9. CASE CtrlDumpErrLog
  <2>1. file'["data"] = file["data"] /\ stopped'["data"] = stopped["data"] /\ rec' = rec
    BY <1>0, <1>9 DEF CtrlDumpErrLog, FilesTyped, PlainTyped, Logs, fileVars
  <2>2. UNCHANGED <<config, table, version, writing, expro, wpc>>
    BY <1>9 DEF CtrlDumpErrLog, tableVars, versionVars, pollVars
  <2>3. Quiet' = Quiet /\ TitleColumns' = TitleColumns
    BY <2>2 DEF Quiet, TitleColumns, Columns
  <2> QED BY <2>1, <2>3 DEF FilesKept, Opens
<1>10. CASE InitTables
  BY <1>2, <1>10 DEF InitTables, fileVars, Quiet
<1>11. CASE NewTitles
  <2>1. Titles(Logs) /\ UNCHANGED switchVars /\ "data" \in Logs
    BY <1>11 DEF NewTitles, AfterInit, Logs
  <2> QED BY <1>0, <2>1, FilesKeptByTitles
<1>12. CASE StartChange
  <2>1. ~Quiet'
    BY <1>0, <1>12 DEF StartChange, PlainTyped, Quiet
  <2> QED BY <1>2, <1>12, <2>1 DEF StartChange, fileVars
<1>13. CASE FinishChange
  <2>1. ~Quiet'
    BY <1>0, <1>13 DEF FinishChange, PlainTyped, Quiet
  <2> QED BY <1>2, <1>13, <2>1 DEF FinishChange, fileVars
<1> QED BY <1>3, <1>4, <1>5, <1>6, <1>7, <1>8, <1>9, <1>10, <1>11, <1>12, <1>13
        DEF Next, WorkerNext
-----------------------------------------------------------------------------
(* The fault log.                                                            *)

\* One sample of one fault keeps what its counts say, whatever the method.
LEMMA Sampled ==
  ASSUME asked \in Nat \ {0}, NEW f \in Faults, Kept(f), EachNth => errLogCount = asked,
         OldErrLogBufMap[f] \in Nat, seen[f] \in Nat, lines[f] \in Nat,
         UNCHANGED methodVars,
         seen'[f] = seen[f] + 1,
         lines'[f] = (IF CanWrite(OldErrLogBufMap[f] + 1) THEN lines[f] + 1 ELSE lines[f]),
         OldErrLogBufMap'[f] = CountAfter(OldErrLogBufMap[f] + 1)
  PROVE  OldErrLogBufMap'[f] \in Nat /\ lines'[f] \in Nat /\ Kept(f)'
<1> DEFINE old == OldErrLogBufMap[f]
           s == seen[f]
           l == lines[f]
           newOld == OldErrLogBufMap'[f]
           newLines == lines'[f]
<1>1. asked \in Nat \ {0} /\ old \in Nat /\ s \in Nat /\ l \in Nat
  OBVIOUS
<1>2. /\ newLines = IF CanWrite(old + 1) THEN l + 1 ELSE l
      /\ newOld = CountAfter(old + 1)
  OBVIOUS
<1>3. /\ l <= s
      /\ logSaveMethod = "ONCE" => old = Least(1, s) /\ l = Least(1, s)
      /\ logSaveMethod = "ALWAYS" => l = s
      /\ EachNth => errLogCount = asked /\ old < asked /\ s = asked * l + old
  BY DEF Kept
<1> HIDE DEF old, s, l, newOld, newLines
<1>4. newOld \in Nat /\ newLines \in Nat /\ newLines <= s + 1
  BY <1>1, <1>2, <1>3 DEF CountAfter
<1>5. ASSUME logSaveMethod = "ONCE"
      PROVE  newOld = Least(1, s + 1) /\ newLines = Least(1, s + 1)
  <2>1. newOld = 1 /\ (CanWrite(old + 1) <=> old = 0)
    BY <1>1, <1>2, <1>5 DEF CountAfter, CanWrite
  <2> QED BY <1>1, <1>2, <1>3, <1>5, <2>1 DEF Least
<1>6. ASSUME logSaveMethod = "ALWAYS"
      PROVE  newLines = s + 1
  BY <1>2, <1>3, <1>6 DEF CanWrite
<1>7. ASSUME EachNth
      PROVE  newOld < asked /\ s + 1 = asked * newLines + newOld
  <2>1. CanWrite(old + 1) <=> old + 1 = asked
    BY <1>1, <1>3, <1>7 DEF CanWrite, EachNth
  <2>2. CASE old + 1 = asked
    <3>1. newOld = 0 /\ newLines = l + 1
      BY <1>2, <1>7, <2>1, <2>2 DEF CountAfter, EachNth
    <3>2. asked * (l + 1) = asked * l + asked
      BY <1>1
    <3> QED BY <1>1, <1>3, <1>7, <2>2, <3>1, <3>2
  <2>3. CASE old + 1 # asked
    <3>1. newOld = old + 1 /\ newLines = l
      BY <1>2, <1>7, <2>1, <2>3 DEF CountAfter, EachNth
    <3> QED BY <1>1, <1>3, <1>7, <2>3, <3>1
  <2> QED BY <2>2, <2>3
<1>8. logSaveMethod' = logSaveMethod /\ asked' = asked /\ EachNth' = EachNth
  BY DEF methodVars, EachNth
<1>9. seen'[f] = s + 1
  BY DEF s
<1>10. /\ newLines <= seen'[f]
       /\ logSaveMethod' = "ONCE" =>
            newOld = Least(1, seen'[f]) /\ newLines = Least(1, seen'[f])
       /\ logSaveMethod' = "ALWAYS" => newLines = seen'[f]
       /\ EachNth' => newOld < asked' /\ seen'[f] = asked' * newLines + newOld
  BY <1>4, <1>5, <1>6, <1>7, <1>8, <1>9
<1> QED BY <1>4, <1>10 DEF Kept, newOld, newLines

LEMMA CountsClearedKept ==
  ASSUME Cleared, asked' \in Nat \ {0}, EachNth' => errLogCount' = asked'
  PROVE  CountsTyped' /\ CountsKept'
<1>1. ASSUME NEW f \in Faults
      PROVE  seen'[f] = 0 /\ lines'[f] = 0 /\ OldErrLogBufMap'[f] = 0
  BY DEF Cleared, ClearCounts
<1>2. CountsTyped'
  BY RecorderAssumption DEF Cleared, ClearCounts, CountsTyped, RecorderAssumption
<1>3. asked' * 0 + 0 = 0 /\ 0 < asked'
  <2>1. ASSUME NEW a \in Nat \ {0}
        PROVE  a * 0 + 0 = 0 /\ 0 < a
    OBVIOUS
  <2> QED BY <2>1
<1>4. ASSUME NEW f \in Faults
      PROVE  Kept(f)'
  BY <1>1, <1>3 DEF Kept, Least
<1> QED BY <1>2, <1>4 DEF CountsKept

LEMMA CountsStep ==
  ASSUME TypeOK, CountsKept, [Next]_vars
  PROVE  CountsTyped' /\ CountsKept'
<1>0. PlainTyped /\ PlainTyped' /\ CountsTyped
  BY TypeParts, PlainStep
<1>1. asked \in Nat \ {0} /\ asked' \in Nat \ {0}
  BY <1>0, AskedPositive DEF PlainTyped
<1>2. ASSUME UNCHANGED <<methodVars, countVars>>
      PROVE  CountsTyped' /\ CountsKept'
  BY <1>0, <1>2 DEF CountsTyped, CountsKept, Kept, EachNth, methodVars, countVars
<1>3. CASE Connect \/ Reconnect \/ ReadSysPara \/ CtrlDump \/ InitTables \/ NewTitles
  BY <1>2, <1>3 DEF Connect, Reconnect, ReadSysPara, CtrlDump, InitTables, NewTitles
<1>4. CASE StartChange \/ FinishChange \/ Resized \/ UNCHANGED vars
             \/ \E log \in Logs : Ages(log)
  BY <1>2, <1>4 DEF StartChange, FinishChange, Resized, Ages, vars
<1>5. ASSUME NEW faults \in SUBSET Faults, Record(faults)
      PROVE  CountsTyped' /\ CountsKept'
  <2>1. CASE UNCHANGED countVars
    BY <1>2, <1>5, <2>1 DEF Record
  <2>2. CASE LogFaults(faults) /\ \A f \in faults : seen[f] < SeenBound
    <3>1. UNCHANGED methodVars
      BY <1>5 DEF Record
    <3>2. ASSUME NEW f \in Faults
          PROVE  /\ seen[f] \in Nat /\ seen[f] <= SeenBound
                 /\ lines[f] \in Nat /\ OldErrLogBufMap[f] \in Nat
                 /\ lines[f] <= seen[f] /\ SeenBound \in Nat
      BY <1>0, RecorderAssumption DEF CountsTyped, CountsKept, Kept, RecorderAssumption
    <3>3. ASSUME NEW f \in Faults
          PROVE  /\ OldErrLogBufMap'[f] \in Nat /\ Kept(f)'
                 /\ seen'[f] \in 0 .. SeenBound /\ lines'[f] \in 0 .. SeenBound
      <4>1. CASE f \in faults
        <5>1. seen'[f] = seen[f] + 1 /\ seen[f] < SeenBound
          BY <2>2, <4>1 DEF LogFaults
        <5>2. lines'[f] = IF CanWrite(OldErrLogBufMap[f] + 1) THEN lines[f] + 1 ELSE lines[f]
          BY <2>2, <4>1 DEF LogFaults
        <5>3. OldErrLogBufMap'[f] = CountAfter(OldErrLogBufMap[f] + 1)
          BY <2>2, <4>1 DEF LogFaults
        <5>4. Kept(f) /\ (EachNth => errLogCount = asked)
          BY DEF CountsKept
        <5>5. OldErrLogBufMap'[f] \in Nat /\ lines'[f] \in Nat /\ Kept(f)'
          BY <1>1, <3>1, <3>2, <5>1, <5>2, <5>3, <5>4, Sampled
        <5>6. seen'[f] \in 0 .. SeenBound /\ lines'[f] \in 0 .. SeenBound
          BY <3>2, <5>1, <5>5 DEF Kept
        <5> QED BY <5>5, <5>6
      <4>2. CASE f \notin faults
        <5>1. seen'[f] = seen[f] /\ lines'[f] = lines[f]
                /\ OldErrLogBufMap'[f] = OldErrLogBufMap[f]
          BY <2>2, <4>2 DEF LogFaults
        <5>2. Kept(f)
          BY DEF CountsKept
        <5>3. Kept(f)'
          BY <3>1, <5>1, <5>2 DEF Kept, EachNth, methodVars
        <5> QED BY <3>2, <5>1, <5>3
      <4> QED BY <4>1, <4>2
    <3>4. CountsTyped'
      BY <2>2, <3>3 DEF CountsTyped, LogFaults
    <3>5. CountsKept'
      BY <3>1, <3>3 DEF CountsKept, EachNth, methodVars
    <3> QED BY <3>4, <3>5
  <2> QED BY <1>5, <2>1, <2>2 DEF Record
<1>6. CASE CtrlDumpErrLog
  <2>1. CASE Cleared
    <3>1. UNCHANGED methodVars
      BY <1>6 DEF CtrlDumpErrLog
    <3>2. EachNth' => errLogCount' = asked'
      BY <3>1 DEF CountsKept, EachNth, methodVars
    <3> QED BY <1>1, <2>1, <3>2, CountsClearedKept
  <2>2. CASE UNCHANGED countVars
    BY <1>2, <1>6, <2>2 DEF CtrlDumpErrLog
  <2> QED BY <1>6, <2>1, <2>2 DEF CtrlDumpErrLog
<1>7. ASSUME NEW m \in ERRLOG_METHOD, NEW n \in Counts, SetErrLogMethod(m, n)
      PROVE  CountsTyped' /\ CountsKept'
  <2>1. n < Wrap => n % Wrap = n
    BY RecorderAssumption, Narrowed DEF RecorderAssumption
  <2>2. EachNth' => errLogCount' = asked'
    BY <1>7, <2>1 DEF SetErrLogMethod, EachNth
  <2> QED BY <1>1, <1>7, <2>2, CountsClearedKept DEF SetErrLogMethod
<1> QED BY <1>3, <1>4, <1>5, <1>6, <1>7 DEF Next, WorkerNext
-----------------------------------------------------------------------------
(* The end of the program.                                                   *)

LEMMA Unwritable ==
  ASSUME config' \in [bmu : Nat, vol : Nat], table' \in Nat, FilesTyped,
         NEW logs \in SUBSET Logs, Titles(logs), UNCHANGED switchVars,
         \A log \in Logs : log \in logs \/ file[log] # NoFile,
         ~Writable'
  PROVE  disk' = "full"
<1>1. PICK log \in Logs : Opens(log)' /\ file'[log] = NoFile
  BY DEF Writable
<1>2. Opens(log)
  BY <1>1 DEF Opens, switchVars
<1>3. log \in logs
  BY <1>1, <1>2, TitlesEffect
<1>4. disk' # "ok" /\ FilesTyped'
  BY <1>1, <1>2, <1>3, TitlesEffect
<1> QED BY <1>4 DEF FilesTyped

LEMMA SurvivesStep ==
  ASSUME TypeOK, Survives, [Next]_vars
  PROVE  Survives'
<1>0. PlainTyped /\ PlainTyped' /\ FilesTyped
  BY TypeParts, PlainStep
<1>1. config' \in [bmu : Nat, vol : Nat] /\ table' \in Nat
  BY <1>0, RecorderAssumption DEF PlainTyped, RecorderAssumption
<1>2. ASSUME alive' PROVE Survives'
  BY <1>2 DEF Survives
<1>3. ASSUME NEW logs \in SUBSET Logs, Titles(logs), UNCHANGED switchVars,
             \A log \in Logs : log \in logs \/ file[log] # NoFile, ~Writable'
      PROVE  Survives'
  BY <1>0, <1>1, <1>3, Unwritable DEF Survives
<1>4. CASE Connect \/ Reconnect \/ CtrlDump \/ CtrlDumpErrLog
             \/ \E m \in ERRLOG_METHOD, n \in Counts : SetErrLogMethod(m, n)
  BY <1>2, <1>4 DEF Idle, Connect, Reconnect, CtrlDump, CtrlDumpErrLog, SetErrLogMethod, pollVars
<1>5. CASE InitTables \/ StartChange \/ FinishChange \/ Resized \/ \E log \in Logs : Ages(log)
  BY <1>2, <1>5 DEF Idle, InitTables, StartChange, FinishChange, Resized, Ages, pollVars
<1>6. CASE UNCHANGED vars
  BY <1>6 DEF vars, Survives, pollVars, tableVars, envVars
<1>7. CASE ReadSysPara
  <2>1. CASE SizesChanged
    <3>1. Titles(Logs) /\ UNCHANGED switchVars /\ (alive' <=> Writable')
      BY <1>7, <2>1 DEF ReadSysPara, Writable
    <3> QED BY <1>2, <1>3, <3>1
  <2>2. CASE ~SizesChanged
    BY <1>2, <1>7, <2>2 DEF ReadSysPara, Idle
  <2> QED BY <2>1, <2>2
<1>8. CASE NewTitles
  <2>1. Titles(Logs) /\ UNCHANGED switchVars /\ (alive' <=> Writable')
    BY <1>8 DEF NewTitles, AfterInit, Writable
  <2> QED BY <1>2, <1>3, <2>1
<1>9. ASSUME NEW faults \in SUBSET Faults, Record(faults)
      PROVE  Survives'
  <2>1. /\ Titles(Due) /\ UNCHANGED switchVars /\ Due \in SUBSET Logs
        /\ \A log \in Logs : log \in Due \/ file[log] # NoFile
    BY <1>9 DEF Record, Due
  <2>2. CASE ~Writable'
    BY <1>3, <2>1, <2>2
  <2>3. CASE ~HasMeans'
    <3>1. config' = config /\ cells' = ChannelsRead /\ config'.vol > cells'
      BY <1>0, <1>1, <1>9, <2>3 DEF Record, HasMeans, tableVars, PlainTyped
    <3>2. config'.bmu = 0
      BY <1>1, <3>1 DEF ChannelsRead
    <3>3. config'.vol > 0
      BY <1>0, <1>1, <3>1, RecorderAssumption DEF PlainTyped, RecorderAssumption
    <3> QED BY <3>2, <3>3 DEF Survives
  <2>4. CASE Writable' /\ HasMeans'
    BY <1>2, <1>9, <2>4 DEF Record
  <2> QED BY <2>2, <2>3, <2>4
<1> QED BY <1>4, <1>5, <1>6, <1>7, <1>8, <1>9 DEF Next, WorkerNext

-----------------------------------------------------------------------------
(* The theorems.                                                             *)

\* The invariant is inductive: no file is open at first and nothing is counted, and
\* each step keeps its four parts.
THEOREM Inductive == Spec => []IInv
<1>1. Init => IInv
  <2> SUFFICES ASSUME Init PROVE IInv
    OBVIOUS
  <2>1. TypeOK
    BY InitType
  <2>2. CountsKept
    BY RecorderAssumption DEF Init, CountsKept, Kept, EachNth, Least, RecorderAssumption
  <2>3. FilesKept
    BY DEF Init, FilesKept, Logs
  <2>4. Survives
    BY DEF Init, Survives
  <2> QED BY <2>1, <2>2, <2>3, <2>4 DEF IInv
<1>2. IInv /\ [Next]_vars => IInv'
  <2> SUFFICES ASSUME IInv, [Next]_vars PROVE IInv'
    OBVIOUS
  <2>1. TypeOK /\ CountsKept /\ FilesKept /\ Survives
    BY DEF IInv
  <2>2. PlainTyped' /\ FilesTyped' /\ CountsTyped' /\ CountsKept'
    BY <2>1, PlainStep, FilesTypedStep, CountsStep
  <2>3. TypeOK'
    BY <2>2 DEF TypeOK, PlainTyped, FilesTyped, CountsTyped
  <2> QED BY <2>1, <2>2, <2>3, FilesKeptStep, SurvivesStep DEF IInv
<1> QED BY <1>1, <1>2, PTL DEF Spec

\* Every variable keeps its type, for every set of versions and sizes.
THEOREM TypeCorrect == Spec => []TypeOK
<1>1. IInv => TypeOK
  BY DEF IInv
<1> QED BY <1>1, Inductive, PTL

\* A row of the record stands under its titles: Dump2CsvTitle and Dump2Csv agree on the
\* columns whatever versions and sizes came before, version 4 excepted.
THEOREM RowsUnderTitles == Spec => []ColumnsFit
<1>1. IInv => ColumnsFit
  <2> SUFFICES ASSUME IInv, Quiet, file["data"] # NoFile, Pro(version) = 0 => version <= 3
               PROVE  file["data"].columns = RowColumns
    BY DEF ColumnsFit
  <2>1. file["data"].columns = TitleColumns
    BY DEF IInv, FilesKept
  <2>2. version \in Nat
    BY DEF IInv, TypeOK
  <2>3. TitleParts(version) = RowParts(version)
    BY <2>2, PartsAgree
  <2> QED BY <2>1, <2>3 DEF TitleColumns, RowColumns
<1> QED BY <1>1, Inductive, PTL

\* IsErrCanWrite thins the fault log as the user asked, for every number below the width
\* of its counter and any number of faults and samples.
THEOREM FaultLogThinned == Spec => []LinesAsAsked
<1>1. IInv => LinesAsAsked
  <2> SUFFICES ASSUME IInv, NEW f \in Faults
               PROVE  /\ logSaveMethod = "ONCE"   => lines[f] = Least(1, seen[f])
                      /\ logSaveMethod = "ALWAYS" => lines[f] = seen[f]
                      /\ logSaveMethod = "NTIMES" /\ asked < Wrap =>
                           lines[f] = seen[f] \div asked
    BY DEF LinesAsAsked
  <2>1. Kept(f)
    BY DEF IInv, CountsKept
  <2>2. /\ asked \in Nat \ {0} /\ lines[f] \in Nat /\ OldErrLogBufMap[f] \in Nat
    BY TypeParts, AskedPositive DEF IInv, PlainTyped, CountsTyped
  <2>3. EachNth => (asked * lines[f] + OldErrLogBufMap[f]) \div asked = lines[f]
    BY <2>1, <2>2, Quotient DEF Kept
  <2>4. EachNth => lines[f] = seen[f] \div asked
    BY <2>1, <2>3 DEF Kept
  <2> QED BY <2>1, <2>4 DEF Kept, EachNth
<1> QED BY <1>1, Inductive, PTL

\* Recording ends the program for no other reason than a full disk or a CMU that reports
\* cells but no BMU.
THEOREM RecordingSurvives == Spec => []Survives
<1>1. IInv => Survives
  BY DEF IInv
<1> QED BY <1>1, Inductive, PTL

\* The calls of Dump2CsvTitle and DumpErrLog2CsvTitle replace a file that is open only when
\* it is old, or the version, or the sizes, have changed.
THEOREM FilesLast == Spec => NewFileWhenNeeded
<1>1. IInv /\ [Next]_vars =>
        [ \A log \in Logs :
            file[log] # NoFile /\ file'[log] \notin {NoFile, file[log]} =>
              \/ aged[log] \/ wpc = "titles" \/ config' # config
              \/ Clamp(sys_para) # sys_para ]_vars
  <2> SUFFICES ASSUME IInv, [Next]_vars, NEW log \in Logs,
                      file[log] # NoFile, file'[log] \notin {NoFile, file[log]}
               PROVE  \/ aged[log] \/ wpc = "titles" \/ config' # config
                      \/ Clamp(sys_para) # sys_para
    OBVIOUS
  <2>0. PlainTyped /\ PlainTyped' /\ FilesTyped
    BY TypeParts, PlainStep DEF IInv
  <2>1. CASE ReadSysPara
    <3>1. SizesChanged
      BY <2>1 DEF ReadSysPara, fileVars
    <3>2. config' = Clamp(sys_para) /\ config # sys_para
      BY <2>1, <3>1 DEF ReadSysPara, SizesChanged
    <3> QED BY <3>2
  <2>2. ASSUME NEW faults \in SUBSET Faults, Record(faults)
        PROVE  aged[log]
    <3>1. log \in Due
      <4>1. Titles(Due) /\ config' \in [bmu : Nat, vol : Nat] /\ table' \in Nat
        BY <2>0, <2>2, RecorderAssumption DEF Record, PlainTyped, RecorderAssumption
      <4>2. Due \in SUBSET Logs
        BY DEF Due
      <4> QED BY <2>0, <4>1, <4>2, TitlesEffect
    <3> QED BY <3>1 DEF Due
  <2>3. CASE NewTitles
    BY <2>3 DEF NewTitles
  <2>4. CASE CtrlDump \/ CtrlDumpErrLog
    <3>1. file'[log] \in {NoFile, file[log]}
      BY <2>0, <2>4 DEF CtrlDump, CtrlDumpErrLog, FilesTyped, fileVars, Logs
    <3> QED BY <3>1
  <2>5. CASE Connect \/ Reconnect \/ InitTables
               \/ \E m \in ERRLOG_METHOD, n \in Counts : SetErrLogMethod(m, n)
    BY <2>5 DEF Connect, Reconnect, InitTables, SetErrLogMethod, fileVars
  <2>6. CASE StartChange \/ FinishChange \/ Resized \/ UNCHANGED vars
               \/ \E l \in Logs : Ages(l)
    BY <2>6 DEF StartChange, FinishChange, Resized, Ages, vars, fileVars
  <2> QED BY <2>1, <2>2, <2>3, <2>4, <2>5, <2>6 DEF Next, WorkerNext
<1> QED BY <1>1, Inductive, PTL DEF Spec, NewFileWhenNeeded
=============================================================================
