------------------------------- MODULE Recorder -------------------------------
(***************************************************************************)
(* What the worker of a view (class mb_cmu) writes to disk while it polls: *)
(* the record of the readings (Dump2Csv, a row per read cycle) and the     *)
(* fault log (DumpErrLog2Csv, thinned by IsErrCanWrite).                   *)
(*                                                                         *)
(* The files are written in the worker's thread, between its polls and the *)
(* commands of the view.  The columns of a row depend on the protocol      *)
(* version, which the view's thread also writes, and on the table sizes    *)
(* the CMU reports; the columns of a file were fixed when it was opened.   *)
(*                                                                         *)
(* Polling is cut down to what matters here (CmuWorker has the rest), and  *)
(* the change of a version to its first and last write (ProtocolSync has   *)
(* the steps between).  A clock is replaced by the moment at which a file  *)
(* reaches the age of twelve hours.                                        *)
(***************************************************************************)
EXTENDS Integers

CONSTANTS
  Versions,       \* protocol versions the view may set
  cproVerList,    \* those with an extended table
  Sizes,          \* table sizes a CMU may report: BMUs, cells of a BMU
  MaxSizes,       \* the sizes the tool has room for (MAX_BMU, MAX_U)
  Faults,         \* keys of OldErrLogBufMap: a BMU, a kind, a value or channel
  Counts,         \* numbers the user may enter for "every N times"
  DefaultCount,   \* errLogCount at first (5)
  Wrap,           \* values of an uint16_t (65536)
  NoFile,         \* a null csvfile
  ChangeBound,    \* bound: changes of the version
  SeenBound       \* bound: samples that show a fault between two clearings

ERRLOG_METHOD == {"ONCE", "ALWAYS", "NTIMES"}
Logs == {"data", "fault"}

NoSizes == [bmu |-> 0, vol |-> 0]

\* Groups of columns, and a file: its groups, each with the table or the sizes it was
\* written for, and which of its two names it has.
Parts == {"nodes", "cells", "ModT", "FanSpeed", "CanErr", "BalIdc", "BalIdc4"}
File == [columns : SUBSET (Parts \X Nat \X Nat), turn : BOOLEAN]

ASSUME RecorderAssumption ==
  /\ Versions \subseteq Nat /\ cproVerList \subseteq Nat
  /\ Sizes \subseteq [bmu : Nat, vol : Nat]
  /\ MaxSizes \in [bmu : Nat, vol : Nat]
  /\ Wrap \in Nat \ {0} /\ Counts \subseteq Nat \ {0}
  /\ DefaultCount \in 1 .. Wrap - 1
  /\ ChangeBound \in Nat /\ SeenBound \in Nat
  /\ NoFile \notin File

VARIABLES
  \* the worker: polling, and its place in the handler of CTRL_SET_EXPRO
  state, wpc, alive,
  \* the table in use: its sizes, the version of its nodes
  config, table,
  \* the version, written by both threads; changes that have begun; their
  \* CTRL_SET_EXPRO that wait to be dealt with
  version, writing, expro, changes,
  \* the two recordings: switched off, the format of the first one has CSV, the
  \* open file, is it twelve hours old
  stopped, rec, file, aged,
  \* the fault log: its method, its count, the occurrences counted per fault,
  \* the channels ChlCellMap has readings of
  logSaveMethod, errLogCount, OldErrLogBufMap, cells,
  \* the sizes the CMU reports now; did the last file opened open
  sys_para, disk,
  \* history: the count the user entered; since the last clearing, the samples
  \* that showed a fault and the lines written about it
  asked, seen, lines

pollVars    == <<state, wpc, alive>>
tableVars   == <<config, table>>
versionVars == <<version, writing, expro, changes>>
fileVars    == <<file, aged>>
switchVars  == <<stopped, rec>>
methodVars  == <<logSaveMethod, errLogCount, asked>>
countVars   == <<OldErrLogBufMap, seen, lines>>
envVars     == <<sys_para, disk>>
vars == <<pollVars, tableVars, versionVars, fileVars, switchVars, methodVars,
          countVars, cells, envVars>>

Pro(v) == v \div 1000
Baseline(v) == Pro(v) * 1000

\* No change of the version is under way, in either thread.
Quiet == writing = 0 /\ expro = 0 /\ wpc = "idle"

-----------------------------------------------------------------------------
(* Columns.  The title and the rows are written by two functions, each with  *)
(* its own tests of the version.                                             *)

CommonParts(v) ==
  {"cells"} \cup { p \in {"ModT", "FanSpeed", "CanErr"} :
                     \/ p = "ModT" /\ Pro(v) = 2
                     \/ p = "FanSpeed" /\ v = 1003
                     \/ p = "CanErr" /\ v > 2 }

Balance(v) == IF Pro(v) = 3 THEN {"BalIdc4"} ELSE {"BalIdc"}
TitleParts(v) == CommonParts(v) \cup (IF v > 3 THEN Balance(v) ELSE {})
RowParts(v)   == CommonParts(v) \cup (IF Pro(v) # 0 THEN Balance(v) ELSE {})

Columns(parts) ==
  {<<"nodes", table, 0>>} \cup
  { <<p, config.bmu, config.vol>> : p \in IF config.bmu = 0 THEN {} ELSE parts }

TitleColumns == Columns(TitleParts(version))
RowColumns   == Columns(RowParts(version))

-----------------------------------------------------------------------------
(* Opening files.                                                            *)

\* Dump2CsvTitle and DumpErrLog2CsvTitle do nothing while switched off.
Opens(log) == ~stopped[log] /\ (log = "data" => rec)

NewFile(log) ==
  [columns |-> IF log = "data" THEN TitleColumns' ELSE {},
   turn    |-> file[log] # NoFile /\ ~file[log].turn]

\* Each replaces the open file.  If the new one cannot be opened its pointer is
\* cleared and then used to report the error: the program is gone.
Title(log) == IF disk' = "ok" THEN NewFile(log) ELSE NoFile

Titles(logs) ==
  LET opened == {log \in logs : Opens(log)}
  IN /\ disk' \in IF opened = {} THEN {disk} ELSE {"ok", "full"}
     /\ file' = [log \in Logs |-> IF log \in opened THEN Title(log) ELSE file[log]]
     /\ aged' = [log \in Logs |-> aged[log] /\ log \notin opened]

\* Every recording that is on has a file to write to.
Writable == \A log \in Logs : Opens(log) => file[log] # NoFile

-----------------------------------------------------------------------------
Init ==
  /\ state = "CONNECT" /\ wpc = "idle" /\ alive = TRUE
  /\ version \in {Baseline(v) : v \in Versions}
  /\ config = NoSizes /\ table = version
  /\ writing = 0 /\ expro = 0 /\ changes = 0
  /\ stopped = [log \in Logs |-> TRUE] /\ rec = TRUE
  /\ file = [log \in Logs |-> NoFile] /\ aged = [log \in Logs |-> FALSE]
  /\ logSaveMethod = "ONCE" /\ errLogCount = DefaultCount /\ asked = DefaultCount
  /\ OldErrLogBufMap = [f \in Faults |-> 0] /\ cells = 0
  /\ seen = [f \in Faults |-> 0] /\ lines = [f \in Faults |-> 0]
  /\ sys_para \in Sizes /\ disk = "ok"

\* The worker's thread is free for a timer event or a command.
Idle == alive /\ wpc = "idle"

-----------------------------------------------------------------------------
(* timerEvent                                                                *)

Connect ==
  /\ Idle /\ state = "CONNECT"
  /\ state' = "INIT"
  /\ UNCHANGED <<wpc, alive, tableVars, versionVars, fileVars, switchVars,
                 methodVars, countVars, cells, envVars>>

\* A connection is given up after failures, or for a new address (CONFIG_IP): the
\* next CMU may have other sizes.
Reconnect ==
  /\ Idle /\ state # "CONNECT"
  /\ state' = "CONNECT"
  /\ UNCHANGED <<wpc, alive, tableVars, versionVars, fileVars, switchVars,
                 methodVars, countVars, cells, envVars>>

Least(a, b) == IF a < b THEN a ELSE b
Clamp_Missing(s) == s
Clamp(s) == [bmu |-> Least(s.bmu, MaxSizes.bmu), vol |-> Least(s.vol, MaxSizes.vol)]

\* SM_INIT: the sizes in use are compared with those reported, which may be more
\* than there is room for.
SizesChanged == config # sys_para

ReadSysPara ==
  /\ Idle /\ state = "INIT"
  /\ state' = "READ"
  /\ UNCHANGED <<wpc, table, versionVars, switchVars, methodVars, countVars,
                 cells, sys_para>>
  /\ IF SizesChanged
     THEN config' = Clamp(sys_para) /\ Titles(Logs) /\ alive' = Writable'
     ELSE UNCHANGED <<config, fileVars, alive, disk>>

\* A file is due when there is none, or the one there is has reached its age.
Due_AgeOnly == {log \in Logs : aged[log]}
Due_Always == Logs
Due == {log \in Logs : file[log] = NoFile \/ aged[log]}

\* IsErrCanWrite, with the occurrences counted so far, this one included.
CanWrite(n) ==
  \/ logSaveMethod = "ONCE"   /\ n = 1
  \/ logSaveMethod = "ALWAYS"
  \/ logSaveMethod = "NTIMES" /\ n >= errLogCount

CountAfter(n) ==
  IF logSaveMethod = "ONCE" THEN 1
  ELSE IF logSaveMethod = "NTIMES" /\ CanWrite(n) THEN 0
  ELSE n

LogFaults(faults) ==
  LET n(f) == OldErrLogBufMap[f] + 1
  IN /\ seen' = [f \in Faults |-> IF f \in faults THEN seen[f] + 1 ELSE seen[f]]
     /\ lines' = [f \in Faults |->
          IF f \in faults /\ CanWrite(n(f)) THEN lines[f] + 1 ELSE lines[f]]
     /\ OldErrLogBufMap' = [f \in Faults |->
          IF f \in faults THEN CountAfter(n(f)) ELSE OldErrLogBufMap[f]]

\* ReadBmuData rebuilds ChlCellMap only if there is a BMU.  The fault log takes the
\* mean of every channel: without a reading it divides by zero.
ChannelsRead == IF config.bmu > 0 THEN config.vol ELSE cells
HasMeans == stopped["fault"] \/ config.vol <= cells

\* A read cycle ends: Dump2Csv, then DumpErrLog2Csv.
Record(faults) ==
  /\ Idle /\ state = "READ"
  /\ state' = "INIT"
  /\ UNCHANGED <<wpc, tableVars, versionVars, switchVars, methodVars, sys_para>>
  /\ cells' = ChannelsRead
  /\ Titles(Due)
  /\ alive' = (Writable /\ HasMeans)'
  /\ IF alive' /\ ~stopped["fault"]
     THEN /\ config.bmu = 0 => faults = {}
          /\ \A f \in faults : seen[f] < SeenBound
          /\ LogFaults(faults)
     ELSE UNCHANGED countVars

-----------------------------------------------------------------------------
(* DealCMD                                                                   *)

\* CTRL_DUMP: the check box queues a start and a stop in turn.  The format is read
\* from the settings each time.
CtrlDump ==
  /\ Idle
  /\ stopped' = [stopped EXCEPT !["data"] = ~@]
  /\ rec' \in BOOLEAN
  /\ IF stopped["data"]
     THEN UNCHANGED fileVars
     ELSE file' = [file EXCEPT !["data"] = NoFile] /\ aged' = [aged EXCEPT !["data"] = FALSE]
  /\ UNCHANGED <<pollVars, tableVars, versionVars, methodVars, countVars, cells,
                 envVars>>

ClearCounts_Kept == OldErrLogBufMap' = OldErrLogBufMap
ClearCounts == OldErrLogBufMap' = [f \in Faults |-> 0]
Cleared ==
  /\ ClearCounts
  /\ seen' = [f \in Faults |-> 0] /\ lines' = [f \in Faults |-> 0]

\* CTRL_DUMPERRLOG: a start forgets what was counted, a stop does not.
CtrlDumpErrLog ==
  /\ Idle
  /\ stopped' = [stopped EXCEPT !["fault"] = ~@]
  /\ IF stopped["fault"]
     THEN Cleared /\ UNCHANGED fileVars
     ELSE /\ file' = [file EXCEPT !["fault"] = NoFile] /\ aged' = [aged EXCEPT !["fault"] = FALSE]
          /\ UNCHANGED countVars
  /\ UNCHANGED <<pollVars, tableVars, versionVars, rec, methodVars, cells, envVars>>

\* CTRL_SET_ERRLOG_METHOD: the number the user enters is cut down to 16 bits.
SetErrLogMethod(m, n) ==
  /\ Idle
  /\ logSaveMethod' = m
  /\ IF m = "NTIMES" THEN errLogCount' = n % Wrap /\ asked' = n
                     ELSE UNCHANGED <<errLogCount, asked>>
  /\ Cleared
  /\ UNCHANGED <<pollVars, tableVars, versionVars, fileVars, switchVars, cells,
                 envVars>>

\* CTRL_SET_EXPRO: Init() loads the nodes of the version and clears the sizes; it
\* falls back to the baseline if the version has no table of its own, or if another
\* change took the flag of this one.
InitTables ==
  /\ Idle /\ expro > 0
  /\ expro' = expro - 1
  /\ version' \in {Baseline(version)} \cup ({version} \cap cproVerList)
  /\ table' = version' /\ config' = NoSizes
  /\ wpc' = "titles"
  /\ UNCHANGED <<state, alive, writing, changes, fileVars, switchVars, methodVars,
                 countVars, cells, envVars>>

AfterInit_FaultOnly == {"fault"}
AfterInit == Logs

NewTitles ==
  /\ alive /\ wpc = "titles"
  /\ wpc' = "idle"
  /\ UNCHANGED <<state, tableVars, versionVars, switchVars, methodVars, countVars,
                 cells, sys_para>>
  /\ Titles(AfterInit)
  /\ alive' = Writable'

WorkerNext ==
  \/ Connect \/ Reconnect \/ ReadSysPara \/ \E faults \in SUBSET Faults : Record(faults)
  \/ CtrlDump \/ CtrlDumpErrLog
  \/ \E m \in ERRLOG_METHOD, n \in Counts : SetErrLogMethod(m, n)
  \/ InitTables \/ NewTitles

-----------------------------------------------------------------------------
(* setCompoundProtocolVer, in the view's thread or in the worker's: in its   *)
(* course the version may be neither the old one nor the new one.  The view  *)
(* then queues CTRL_SET_EXPRO.                                               *)

StartChange ==
  /\ alive /\ changes < ChangeBound
  /\ version' \in Versions
  /\ changes' = changes + 1 /\ writing' = writing + 1
  /\ UNCHANGED <<expro, pollVars, tableVars, fileVars, switchVars, methodVars,
                 countVars, cells, envVars>>

FinishChange ==
  /\ alive /\ writing > 0
  /\ version' \in Versions
  /\ writing' = writing - 1 /\ expro' = expro + 1
  /\ UNCHANGED <<changes, pollVars, tableVars, fileVars, switchVars, methodVars,
                 countVars, cells, envVars>>

-----------------------------------------------------------------------------
(* The environment: the CMU's parameters and the clock.                      *)

Resized ==
  /\ alive /\ sys_para' \in Sizes \ {sys_para}
  /\ UNCHANGED <<pollVars, tableVars, versionVars, fileVars, switchVars, methodVars,
                 countVars, cells, disk>>

\* Twelve hours have passed since the file was opened.
Ages(log) ==
  /\ alive /\ file[log] # NoFile
  /\ aged' = [aged EXCEPT ![log] = TRUE]
  /\ UNCHANGED <<pollVars, tableVars, versionVars, file, switchVars, methodVars,
                 countVars, cells, envVars>>

-----------------------------------------------------------------------------
Next == \/ WorkerNext \/ StartChange \/ FinishChange
        \/ Resized \/ \E log \in Logs : Ages(log)

Spec == Init /\ [][Next]_vars

-----------------------------------------------------------------------------
TypeOK ==
  /\ state \in {"CONNECT", "INIT", "READ"} /\ wpc \in {"idle", "titles"}
  /\ alive \in BOOLEAN
  /\ config \in [bmu : 0 .. MaxSizes.bmu, vol : 0 .. MaxSizes.vol]
  /\ version \in Nat /\ table \in Nat
  /\ writing \in Nat /\ expro \in Nat /\ changes \in 0 .. ChangeBound
  /\ writing + expro <= changes
  /\ stopped \in [Logs -> BOOLEAN] /\ rec \in BOOLEAN
  /\ file \in [Logs -> File \cup {NoFile}] /\ aged \in [Logs -> BOOLEAN]
  /\ logSaveMethod \in ERRLOG_METHOD
  /\ errLogCount \in 0 .. Wrap - 1 /\ asked \in Counts \cup {DefaultCount}
  /\ OldErrLogBufMap \in [Faults -> Nat] /\ cells \in 0 .. MaxSizes.vol
  /\ seen \in [Faults -> 0 .. SeenBound] /\ lines \in [Faults -> 0 .. SeenBound]
  /\ sys_para \in Sizes /\ disk \in {"ok", "full"}

\* A row stands under its titles: when no change of the version is under way, the
\* columns of the next row are those of the open file, whatever versions and sizes
\* came before, unless the version is 4 (CMU_P_V0_0_04), whose titles name balance
\* columns that its rows do not have.
ColumnsFit ==
  alive /\ Quiet /\ Opens("data") /\ file["data"] # NoFile
        /\ (Pro(version) = 0 => version <= 3)
  => file["data"].columns = RowColumns

\* The fault log is thinned as the user asked: since the recording was switched on,
\* or the method was set, each fault has one line, a line per sample that showed it,
\* or a line per N such samples, across new files, versions, sizes and connections;
\* for a number that 16 bits can hold.
LinesAsAsked ==
  \A f \in Faults :
    /\ logSaveMethod = "ONCE"   => lines[f] = Least(1, seen[f])
    /\ logSaveMethod = "ALWAYS" => lines[f] = seen[f]
    /\ logSaveMethod = "NTIMES" /\ asked < Wrap => lines[f] = seen[f] \div asked

\* Recording ends the program only when a file cannot be opened, or the fault log
\* meets a CMU that reports cells but no BMU: never by a row for a file that a stop,
\* a new version or new sizes have closed.
Survives == ~alive => disk = "full" \/ (config.bmu = 0 /\ config.vol > 0)

\* A file that is open is replaced only because of its age, a new version, or other
\* sizes than before, as long as the CMU reports sizes the tool has room for.
NewFileWhenNeeded ==
  [][ \A log \in Logs :
        file[log] # NoFile /\ file'[log] \notin {NoFile, file[log]} =>
          \/ aged[log] \/ wpc = "titles" \/ config' # config
          \/ Clamp(sys_para) # sys_para ]_vars
=============================================================================
