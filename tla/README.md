# bmsTool: a TLA+ model of the tool's concurrent core

bmsTool is a Qt program with which service staff watch and configure battery
management systems: it polls CMUs (cluster management units) over Modbus/TCP,
writes settings to them, records what it reads, gives one command to whole
strings of CMUs, and runs a TFTP server from which the CMUs take firmware. This
directory holds TLA+ modules of the parts in which several threads, event
handlers or network partners meet, TLC configurations that check them on small
instances, and TLAPS proofs for every value of the constants.

The code has next to no tests (`tests/` exercises a list view), so the models
are translated from the source. Documentation is compared with it where there is
any: comments, messages, and the files the program shows its users
(`other/verHelp.txt`).

Paths below are relative to the source tree; definitions are mapped to their
lines in `PROJECT.json`.

## 1. Inventory

### Components, their state and operations

| Component | Code | State | Operations | What makes it correct |
|---|---|---|---|---|
| Polling worker | `protocol/cmu/mb_cmu.*` | address, connection, `state`, `currentReadGroup`, `err_counter`, `drv_status`, table sizes, timers | `timerEvent` (connect, read parameters, read blocks), `DealCMD` (one case per command) | polls the CMU the user asked for, with that CMU's parameters; drops dead links; never falls silent while its view is open, and does once it is closed |
| Version negotiation | `views/bmsview`, `mb_cmu.*`, `models/protocolsetframe` | `protocal_ver`, `ex_ver`, `exVerChangedFlag`, node table, `verCache`, protocol box | `findPreVer`, `setCompoundProtocolVer`, handler of `cpVerChanged`, `CTRL_SET_PRO`, `CTRL_SET_EXPRO`, `Init()` | table and box agree with the version once changes have come to rest, and they do come to rest |
| Version lookup | `findPreVer`, `other/CMUver.txt` | position of the scan | scan of the ranges in the order of the tables | finds a table exactly for the recorded programs, one that exists, and of several the one promised |
| Register planner | `mb_cmu::Init`, `mb_tcp::init_config`, `NewReg`, `InsertReg`, `JudgeReg` of both; `db_manager.cpp` | `reg_list_` | one row of the node table after the other | every value is read from its own registers, once, within a frame and the buffer |
| TFTP server | `3rdParty/qtftp/tftpserver.*` | sessions (file, block, retries, timer) | `socketReadyRead` by kind of datagram, `onTimeout`, `sendCurrentBlock`, `init`, `stopServer` | a copy is the file; success is notified for complete transfers; sessions end |
| TFTP upload | `3rdParty/qtftp/Qtftp.cpp` (`client_put`) | block in the buffer, ACK awaited, attempts, looks | send, `waitForAck`, send again, give up | implements a TFTP client; agrees with the server on success; always ends |
| Batch window | `views/scan_settings` | address field, `target_ips`, `target_count`, busy state, result table, workers | the five buttons, `ip_analyze`, `workFinished`, `fileSent` | batches do not overlap; "done" is true; the window becomes free again |
| Record of the readings | `mb_cmu.cpp` (`Dump2CsvTitle`, `Dump2Csv`) | open file, its age, switched off or on, format | title, row, new file after twelve hours, new sizes or a new version | rows stand under their titles; files are replaced only for a reason |
| Fault log | `mb_cmu.cpp` (`DumpErrLog2Csv*`, `IsErrCanWrite`) | open file, method, count, occurrences per fault | row, thinning out of repeated faults, change of the method | as many lines as the user asked for |
| Event records | `mb_cmu.cpp` (`ReadSOE`) | the page read | one read per page | a failed page is told |
| Modbus connection of a batch worker | `protocol/cmu/mb_tcp.*` | connection, the plan of its reads | blocking request and reply, planning | as the planner's |
| Firmware check | `views/firmwareDialog` | cursor over the header | `checkSignV1`, `checkSignV2`, `loadfile` | reads within the file; accepts only what is signed |
| Main window | `main_ui.*`, `appinit.*` | TFTP server and its thread, its address | `initTftp`, `changeTftpServerIp` | a replaced server notifies nothing that is not so |
| The rest | `rtu_tool`, `cmu_ip`, `cmu4u`, `downloadmanager`, `socImporter`, widgets, libraries | | | see section 8 |

### How they interact

- A **view and its worker** share an object, `mb_cmu`, that lives in the worker's
  thread. The view queues commands to it (`send_msg` to `msg_deal`), the worker
  answers with queued signals (`cpVerChanged`), and both read and write some
  members of the object directly, without a lock. The worker's event loop runs
  one handler at a time: a timer event or a command.
- The **worker and the CMU** exchange blocking Modbus requests. A request whose
  answer is late leaves the connection out of step: each later answer carries
  the number of an earlier request and is refused.
- The **TFTP server** runs in one thread for all sessions; clients are CMUs, or
  another computer with the tool (`client_put`). The main window deletes it and
  makes another, from the GUI thread, when a view shows a CMU that names another
  server (`tftpServerIpChanged`).
- The **batch window** starts one thread per CMU; each reports once, to handlers
  in the GUI thread. The handler of the command menu sleeps between two workers
  in `myHelper::Sleep`, which handles events meanwhile.

### What is hard here

Commands that arrive in any state of the polling machine; two threads that write one
version without a lock; a flag shared by two changes in flight; state read from one CMU
and used after a reconnection to another; a failure counter that ticks and clears in
several places; datagrams lost, repeated and late; 16-bit block numbers and 8-bit
offsets at their limits; handlers re-entered while another sleeps; files whose columns
were fixed for a version and sizes that change while they are open; a server stopped
under its running handler. `PROJECT.json` lists each at its line under `hazards`, with
the properties that would notice it going wrong, or the reason none does.

## 2. Modules

| Module | Models | Composition |
|---|---|---|
| `CmuWorker` | the worker with view, CMUs and network as environment | `CmuWorkerMC` instantiates it, `CmuWorker_proofs` proves |
| `ProtocolSync` | view and worker changing the version, field by field | `ProtocolSyncMC`, `ProtocolSync_proofs` |
| `VersionTable` | `CMUver.txt`, the code's `cproVerList` (`ShippedTables`) and what `findPreVer` answers, without state | extended by `VersionScan`; `ProtocolSyncMC` takes its tables from it by `INSTANCE` |
| `VersionScan` | the scan of `findPreVer`, for the versions that a CMU may report | `VersionScanMC`, `VersionScan_proofs` |
| `RegPlan` | the planning loops over the node table, of `mb_cmu` and of `mb_tcp` | `RegPlanMC`, `RegPlan_proofs` |
| `Recorder` | the record and the fault log, with polling and version changes as far as they matter to them | `RecorderMC`, `Recorder_proofs` |
| `TftpServer` | the server, its replacement, the network, an RFC 1350 client | `TftpServerMC`, `TftpServer_proofs` |
| `TftpUpload` | `client_put`, composed with the server by `INSTANCE TftpServer` | `TftpUploadMC`, `TftpUpload_proofs`; `TftpServer!Spec` is its abstract specification |
| `ScanBatch` | the batch window, its workers, its user | `ScanBatchMC`, `ScanBatch_proofs` |

In every module a definition `Name_Variant` just before `Name` is a mutant: the
slip (a dropped guard, a missing reset, a wrong limit) that `PROJECT.json` pairs
with the property that notices it.

### How state and actions correspond to the code

**CmuWorker.** The variables carry the names of the members of `mb_cmu`; `conn`
is the Modbus context, `healthy` whether answers still match requests, `timers`
the number of running timer chains (every `CONFIG_INIT` starts one more).
`TimerEvent` is `timerEvent`, one disjunct per state of the machine; `DealCMD`
one disjunct per command, `DealWrite` standing for all that only write. A batch
of reads is abstracted to the number of failures after its last answer
(`TrailsOf`): all that `err_counter`, `drv_status` and the results depend on.
`paraFrom` and `silent` are history. The four sizes a CMU reports are one number, so
each is seen clamped but not the sum of two of them.

**ProtocolSync.** `setCompoundProtocolVer` and `Init()` are split at every access
to `protocal_ver`, `ex_ver` and `exVerChangedFlag`, since the other thread may
run in between; `wpc` and `gpc` are the positions of the two threads.
`setCompoundProtocolVer` reads `protocal_ver` back after writing it, which may
give the value of either thread (`ExAfter`). `worker` and `events` are the event
queues. A detection looks its table up in `Recommended`, and `Recorded` has all tables the
file gives for the program: `ProtocolSyncMC` compares both with `VersionTable`
(`FromVersionTable`).

**VersionTable, VersionScan.** The file is a sequence of ranges in the order in which
the scan meets them: by table, since the code puts the lines into a `QMap`. `Candidates`
are the tables whose ranges hold a version, `findPreVer` is the one of the first; the
scan of `VersionScan` is shown to compute it.

**Recorder.** A file is its columns, and `turn` tells a file from the one that
replaced it. A column stands for the group of columns of one part of a table
(nodes, cells, fan speed, balance current ...) with the version or the sizes it
was written for; `TitleColumns` and `RowColumns` each follow the tests of their
own function. `Titles` opens files and fails when the disk is full, after which
the code reports the error through the pointer it has just cleared: `alive` turns
false. A change of the version is its first and its last write
(`StartChange`, `FinishChange`) with any version in between, and the queued
`CTRL_SET_EXPRO` in two steps (`InitTables`, `NewTitles`) between which the view's
thread may write again. `seen` and `lines` are history: the samples that showed
a fault and the lines written about it since the counts were cleared.

**RegPlan.** One step plans one row. `planner` says whose loop runs: the polling
worker's refuses rows without a neighbour and fills messages up to 110 registers, the
batch worker's takes any row and fills them up to 120. The distance of two registers has
16 bits, the offset in a message 8, as in the code. Decoding is not modelled: the
properties are about which registers a value comes from.

**TftpServer.** A handler is a function from session and datagram to the session
it leaves, what it sends and what it notifies (`Result`). A file is its number
of full blocks and whether a rest follows; a DATA datagram carries the block of
the file it really holds (`chunk`) beside the block number in its header, since
the server reads from the file position and never seeks. Whether the network is
`faulty` is chosen at the start. `ChangeServerIp` ends every session. If a handler
is running it finds a closed file and block number -1 wherever it has got to;
`CutResults` and `CutTimeout` list what it may still send and notify, and `cut`
remembers the clients this happened to, and those whose upload it ended. The new
server may fail to bind (`serving` is false); as `tftpServerIp` is set before, it
is not tried again for the same address.

**TftpUpload.** `header` is the block in the buffer, `awaited` the number that
`waitForAck(block++)` waits for: they part as soon as a block is sent again.

**ScanBatch.** `loops` holds the handlers of the command menu that sleep,
innermost first. Whether the user is `careful` (uses only the buttons `setBusy`
disables, leaves the address field alone while the menu's handler sleeps) is
chosen at the start: the properties those buttons should guarantee are stated
for careful users, the others for all.

## 3. Runs

| Run | Shows | Size |
|---|---|---|
| `worker` | with two addresses and two ports: polls go to the CMU configured last, "connected" is not shown for a closed connection, a cycle uses the parameters of its CMU, `ErrLimit` polls without an answer lead to a reconnection, the worker keeps a timer; it recovers once its CMU can be reached again; after a closed view it comes to leave the CMU alone for good; an expired build says so | 598,000 states |
| `version_scan` | **violation**: for a program in the ranges of two tables the lower is taken | |
| `protocol` | two changes by the user, detections and an exchange of the CMU in any interleaving: everything comes to rest, with table and box in agreement, and after a detection the table is one recorded for the program | 1.1 million states |
| `protocol_chosen` | **violation**: of two changes in flight the second loses its extended table | |
| `recorder` | polls, commands, changes of version and sizes, and files that cannot be opened, in any order: rows under their titles, lines as asked for, no row without a file, no file replaced without a reason | 2.2 million states |
| `plan_sorted` | all ascending tables of up to four rows around both limits: usable messages and every row once from both planners, no gap of ten registers or more from the polling worker's | 110,000 states |
| `plan_extended` | **violation**: a row just below a planned message gets offset -1 | |
| `tftp` | faulty network and a server replaced once at any moment: ordered copies unless a block was sent again, success only after everything arrived, complete uploads, sessions with a timer end; good network: every servable request completes | 198,000 states |
| `tftp_resend` | **violation**: after a timeout other bytes go out under the old number | |
| `upload` | `client_put` implements the client; success on both sides or none on this; every upload ends, and succeeds on a good network | 5,600 states |
| `scan` | careful users: batches do not overlap, reports stand in their rows, free means done; all users: the window becomes free again, but for an empty batch over a running one | 269,000 states |
| `scan_overlap` | **violation**: "done" while workers are still at work | |

### Bounds and why they are enough

- **CmuWorker**: two addresses and two ports, with a CMU behind each address at a port
  of its own, so that a new address without its port, and a new port at the old
  address, lead nowhere. `ErrLimit` 3 (10 in the code) separates "below",
  "at" and "above" the limit; two blocks separate "the last one failed" from
  "all failed"; a size of 3 against `MaxDim` 2 needs the clamp. The view
  queues more only when no command waits (`InboxBound` 1; a change of the address
  queues three at once), and two timer chains run. The safety properties are
  proved without any of these bounds.
- **ProtocolSync**: two changes by the user beside the detections of the timer give
  every pair that can overlap; a cable pulled once allows another CMU. Two protocols
  with their tables separate "other protocol" from "other extension". The two programs
  are real ones: 00.00.02.FF, whose table is 0004, and 02.00.04.E0, for which the file
  has two tables, 1003 and 1004. The user picks 0004 or 1003 (`Picked`). `verCache`
  starts with any value, as the code never sets it.
- **Recorder**: a passive version with the baseline's columns, one whose titles and
  rows differ, and an active one; sizes that fit, that do not fit (3 cells against
  `MaxSizes` 2) and without a BMU; one fault, as each has a count of its own; the
  counts 2 and 5 lie on both sides of `Wrap` 4 (65536 in the code), and three
  samples take a count of two once past its turn. One change of the version: the
  title functions keep nothing of the change before it; the proof has no such bound.
- **RegPlan**: addresses on both sides of the ten-register rule and of the limits
  of 110 and 120 registers; four rows fill a message and start the next.
- **TftpServer**: files from nothing to one block more than is served, all of
  them with and without a shorter rest. `MaxFull` 3 and `Wrap` 6 keep the
  relation of the code's 65533 and 65536, so the largest file's final block just
  does not wrap. An upload of `Wrap - 1` full blocks does not fit and must never be
  told complete. One client, as sessions share nothing in the model, and one
  replacement of the server, after which it starts from nothing. `Retries` is 3,
  as in the code. The safety properties are proved for any values of these bounds.
- **TftpUpload**: one to three full blocks; `Wrap` 10, above the largest number a
  moved-on `awaited` reaches (`UploadsAssumption`, which the code leaves to the size of
  the file: see section 7).
- **ScanBatch**: three CMUs, fields of none to three of them, three clicks: two
  batches that overlap and a third that follows.
- **VersionScan**: the ends of all ranges and the versions next to them, between
  which no answer can change; the proof is for every version.

### Where TLC may stop

`CHECK_DEADLOCK FALSE` is set where the system does stop: a table is planned, a
transfer has ended, all clicks are spent, the program has ended at a file it
could not open.

## 4. Fairness

- `CmuWorker`: weak fairness of `TimerEvent` and of `DealCMD`. Qt's event loop
  delivers expired timers and queued calls alike and no handler blocks for ever
  (a Modbus request times out). None for the view or the environment; `Recovers`
  assumes that the CMU eventually stays reachable and answers are not lost.
- `ProtocolSync`: weak fairness of the two event loops for what is queued or half
  done. None for polls, detections, users or cables. `Settles` leaves out
  behaviours in which the CMU's version is looked up anew for ever.
- `TftpServer`: weak fairness of the timers that are due. On a good network
  also of handling what has arrived and of the client's answers; on a faulty one
  nothing need ever arrive. `SessionEnds` is about what happens once the client
  is silent.
- `TftpUpload`: the client's thread runs (its socket waits a second at most) and
  the server handles something while it can.
- `ScanBatch`: every worker reports (its requests time out), a sleep ends, an
  upload ends. None for the user.

## 5. What is proved

All theorems are proved by TLAPS for every value of the constants that meets the
named assumptions of the modules.

**CmuWorker_proofs.** `TypeOK`, `PollsConfiguredCmu`, `OnlineIsConnected`,
`ParametersOfThisCmu`, `DeadLinkAbandoned` and `PollingAlive` hold for any addresses and
ports, error limit, numbers of blocks and sizes. The inductive invariant `IInv` adds
three facts the properties need:

- `InboxOrder`: a queued `CONFIG_PORT` is followed at once by a `CONFIG_INIT`.
  `CONFIG_PORT` asks for no reconnection, so otherwise the worker would go on polling
  the old port; `PollsConfiguredCmu` is not inductive without it.
- `FirstInit`: before the first command the next one is `CONFIG_INIT` and no timer
  runs, hence `PollingAlive` from the start.
- `SilentCounted`: `silent <= err_counter`. The code counts failures of single
  reads, resets in several places and compares once per tick; this is why the
  polls without an answer stay within the limit.

The proof has a lemma for each group of steps (view, timer, commands,
environment, stutter) with one step per action; `PostKeepsOrder` and
`TakeKeepsOrder` carry `InboxOrder` through appending and taking.

**RegPlan_proofs.** `TypeOK` holds for every table. From every table in ascending order
of addresses `UsableMessages` holds: each value is read from its own registers, within
the answer and the buffer, and the 8-bit offset has not been truncated, for both
planners (`ShortFits`: neither's limit exceeds the buffer or a byte). The invariant adds
`StartsPlanned`: every message starts at the register of a row already planned, so with
an ascending table no message starts above the row at hand and the 16-bit distance has
not wrapped. That the table is in order is a hypothesis of the theorem, not a fact of
the code: `getExternNode` orders nothing, and `plan_extended` shows what an unordered
table leads to.

`EachPlannedOnce` holds for any table and either planner, in order or not. Its part
`PlacedOnce` says of each row already planned where it lies and that no other
message has it. `NoGap` needs a table in order again, and two more parts: `Chained`
(messages of one type follow one another, so the one `JudgeReg` returns is the last of
its type that starts below the row) and `Joined` (in a message of the polling worker's each
row above the first register has one within ten registers below it).

**Recorder_proofs.** `TypeOK`, `ColumnsFit`, `LinesAsAsked`, `Survives` and
`NewFileWhenNeeded` hold for any versions, sizes, faults, counts and width of the
counter, and for any number of version changes. Assumed is, beside the ranges of
the constants, that a null pointer is not a file. The invariant adds two facts:

- `CountsKept`: under "every N times" the samples of a fault are N times its lines
  plus what `OldErrLogBufMap` holds, which stays below N; under "once" both are 1
  after the first sample. A count tested before it is raised, or one that survives
  a change of the method, breaks it. N must fit the 16-bit `errLogCount`.
- `FilesKept`: an open record is one that is switched on, and once no change of the
  version is under way its columns are the titles of now. Each step that writes
  what the columns depend on must close the file, write a title, or lead to a step
  that does (`FilesKeptByTitles`, cited for all three kinds of title).

`TitlesEffect` says once what opening files does; `PartsAgree` that the two tests
of the version name the same columns unless the version is 4.

**ProtocolSync_proofs.** `TypeOK`, `TableFollowsVersion`, `BoxShowsVersion` and
`ChangeTakesEffect` hold for any protocols, tables and recommendation, and for any
number of changes, detections and exchanged CMUs; `DetectedTableFits` if each
recommended table is recorded for its program and one `Init()` has (`TablesKept`), which
is what `RecommendedTableExists` of `VersionScan_proofs` says of the shipped files.
`Quiet`, to which the properties refer, is far from being inductive; the invariant
follows a change through its stages instead:

- `ReloadFollows`: the version written last is followed by a load of the tables. It may
  be queued, the emission that leads to it may be, the load may be under way and still
  ahead of the read of the version, or the table fits. The two threads write between
  each other's steps, but every write of the version has an emission behind it.
- `BoxFollows`: the same for the protocol box, which the events update in order; it
  leaves out the detections that began while a change was under way (`raced`).
- `DetectionAlone`: a detection that began in quiet has the worker idle to its end,
  so that none of its three writes is overtaken.
- `ChangeFollows`: the four stages a change passes that no other overlaps.

**ScanBatch_proofs.** `TypeOK`, for all users, and `ReportsInTheirRow`,
`BusyWhileWorking` and `FreedWhenDone`, for careful ones, hold for any CMUs, address
fields and numbers of clicks. The invariant describes one batch: its table
(`TableFits`), the handlers asleep, of which only the innermost has anything left to
start (`HandlersFit`), workers that have a row to themselves which was started and
has no report (`WorkersFit`), `target_count` as the number of rows with a report
(`CountFits`), and a window that is free between two batches only (`FreeBetween`).
A count that is not that of the reports, or a handler that wakes after the batch of
another click has begun, breaks it. `OneCommandAtATime` has the hypothesis `NoneTwice`: an
address listed twice has two workers.

**TftpServer_proofs.** `TypeOK`, `CleanCopy`, `SuccessMeansReceived` and
`UploadComplete` hold for any number of clients, any requests, retries and
replacements of the server, on either network. The invariant ties the four places that
know how far a transfer is, of each client:

- of a file sent: a session's reading position follows its block number unless a block was
  sent again (`SendingFits`), the blocks under way are blocks of the file with the
  right number and end (`BlocksFit`), a reader has taken them in order and
  acknowledged no more (`ReaderFits`); so an ACK that moves the session past the
  last block has been sent by a reader that is done (`SuccessFits`);
- of a file received: the blocks under way are the file's (`WriterFits`), the block a
  session awaits is the one behind what is written (`WritingFits`). Block numbers wrap
  and the session's does not, which is why an upload as long as `Wrap` is never told
  complete, and why `UploadComplete` stops there.

What a stop of the server leaves (`CutResults`, `CutTimeout`) has lemmas of its own: a
reader gets no block that does not fit (`CutSent`), an upload's file at most the
block that was its turn (`CutWritten`).

**TftpUpload_proofs.** `Spec => TftpServer!Spec`, under the refinement mapping of the
module: every step of `client_put` is a step of the client of RFC 1350 or none. `Put`
asks, an ACK accepted is `TakeAck`, sending again is a stutter on a faulty network (the
datagram is on its way already) and `AskAgain` after a refusal, giving up is `GiveUp`.
The step that is not obvious is the ACK: the code awaits a number that has moved on with
every try, the abstract client the one of its buffer. `Position` says how far it has
moved, `Answered` that the server acknowledges nothing that was not sent, so that a
number moved on is never answered (`AckIsOfBuffer`). Sessions of uploads have no timer,
and the server has notified success before it acknowledges the last block (`Agreed`):
hence `OkOnBothSides`. The proof needs `full + Retries < Wrap`, and without it TLC finds
the property violated (section 7).

**VersionScan_proofs.** `ScanIsRight`: for every version the scan ends with the table of
the first range that holds it, or with none; the invariant is that no range passed holds
the version. `RecommendedTableExists`: for every version a table is recommended exactly
if a range holds it, that of such a range, and one that `Init()` has (by going through
the file: the two lists are kept in different places and nothing in the code compares
them).

## 6. What is only model-checked

Liveness (`Recovers`, `ClosedViewFallsSilent`, `ExpiryShown`, `Settles`, `SessionEnds`,
`Completes`, `PutEnds`, `PutSucceeds`, `BusyEnds`), as the proof system has no rule for
fairness here. Every safety property of the passing runs is proved, `OneCommandAtATime`
under the hypothesis named above, `UsableMessages` and `NoGap` for tables in ascending
order.

## 7. Where the code disagrees with what is said of it

Shown by a run (details under `findings`):

1. `protocol_chosen`: `Init()` loads the extended table only while
   `exVerChangedFlag` is set and clears it after. Two changes in flight share the
   flag, so the second `CTRL_SET_EXPRO` loads the baseline and resets the version.
2. `plan_extended`: `JudgeReg` accepts a message that starts above the row, and
   the offset -1 does not fit the byte it is stored in.
3. `tftp_resend`: `sendCurrentBlock` never seeks, so a repeated block holds the
   bytes that follow.
4. `scan_overlap`: the clock button restarts a running batch.
5. `version_scan`: `verHelp.txt:24` promises the higher table where ranges overlap;
   `findPreVer` returns at the first, which is the lower (`bmsview.cpp:3521`). Programs
   02.00.04.E0 to 02.00.04.FF get 1003 and not 1004.

Seen while modelling, without a run of its own yet:

- A refused read request keeps its session and timer; on the timeout block -1
  lies past any file, and `RTN_OK` is notified (`tftpserver.cpp:536`).
- A command that writes looks at no state (`mb_cmu.cpp:1177`): queued behind a
  `CONFIG_IP` it goes out over the old connection, to the CMU configured before, as long
  as no timer event has reconnected. `PollsConfiguredCmu` is about polls.
- A stop ends the polling only: after an expiry the view can still write and
  read event records, and `CONFIG_INIT` adds one more timer that polls nothing.
- The temperatures of pack and poles are clamped to `MAX_T` each (`mb_cmu.cpp:1146`) and
  stored in one array of `MAX_T` (`mb_cmu.cpp:862`): together they may pass its end.
- `verHelp.txt:1` promises a selection after each reconnection; `verCache`
  prevents it for the same program version (`bmsview.cpp:3438`).
- `verHelp.txt:3` promises the closest protocol for unrecorded versions; the code
  only changes a label (`bmsview.cpp:3548`).
- The command menu's loop reads `target_ips.size()` anew after each sleep and may
  go on over the list of another click (`scan_settings.cpp:774`).
- An address field without a valid address sets zero targets while a batch runs,
  which then never reaches its count, and the buttons stay disabled
  (`scan_settings.cpp:889`). It is the one case `BusyEnds` leaves out, and only
  users who are not careful get there.
- For version 0004 the titles name the balance columns (`mb_cmu.cpp:204`, any
  version above 3) and the rows leave them out (`mb_cmu.cpp:300`, active
  protocols): every column behind is shifted. `ColumnsFit` excludes it.
- An address listed twice in the field of the batch window gets two rows and two
  workers, which command one CMU side by side (`scan_settings.cpp:431`).
- An upload of more blocks than there are block numbers may have a block in another's
  place: after a late WRQ the session starts over, and takes an early block under
  way for the one of the same number behind it. `UploadComplete` excludes it.
- `waitForAck(block++)` moves the awaited number on with every try (`Qtftp.cpp:238`). In the
  last blocks of a file of nearly 65536 blocks it wraps to 0 and takes the ACK of the
  request for that of the last block: success is shown for a file that never
  arrived whole. `UploadsAssumption` excludes it. A file of less than a block makes
  `client_put` divide by zero.
- While a change of the version is under way, rows of the new version stand under
  the titles of the old one; `ColumnsFit` is about the time it has come to rest.
- The sizes in use are compared with those reported before they are clamped
  (`mb_cmu.cpp:1140`): a CMU with more cells than `MAX_U` makes every cycle start
  two new files. In the same second the new file has the name of the old one and
  empties it. `NewFileWhenNeeded` excludes such a CMU.
- When a new CMU has the sizes of the old one, its rows go on in the same file,
  which carries the old one's address in its name, and its faults are counted with
  the old one's.
- When a file cannot be opened, its pointer is deleted, cleared and then used for
  the message (`mb_cmu.cpp:168`, `419`); a CMU that reports cells but no BMU makes
  the fault log divide by zero (`mb_cmu.cpp:499`). `Survives` names both.
- The count of "every N times" is cut to 16 bits (`bmsview.cpp:3324`) though the
  field takes up to 99999: 65536 means every time. `LinesAsAsked` excludes it.
- A server that is stopped while it handles the ACK of a client, or its timeout,
  may notify success at any block (`tftpserver.cpp:90`, `536`), also in the handling of the
  read request itself; one that fails to
  bind its new address is not tried again (`main_ui.cpp:82`); two views whose CMUs
  name different servers replace the server at every refresh (`main_ui.cpp:93`).

## 8. What is not modelled, and why

- What the blocks mean: decoding, units, display, the values in the files. The
  properties do not tell values apart. That the words of a failed piece of a long
  block are stale (`mb_cmu.cpp:650`) is therefore not expressed either.
- A block the CMU never answers while it answers others: `Recovers` assumes a CMU
  that serves its whole table.
- The packed record (a file per cycle, opened and closed in one call).
- `ReadSOE`: its reads are a step of `CmuWorker` that may fail; the rest fills a
  table from the page it read.
- `firmwareDialog`: a dialog that reads a file and shows whether its header
  matches; one thread, no state that survives the call.
- Two clients writing one file (`tftpserver.cpp:343`): each client of the model has
  a file of its own.
- A block size option of 0, by which `tftpserver.cpp:469` divides.
- Datagrams that still wait in the socket when the server is stopped under `readyRead`: its
  loop (`tftpserver.cpp:141`) may take them and make sessions in the server that is
  going away. In the model they stay under way, for the new server.
- `client_put`'s returns when the file cannot be opened or the socket refuses a datagram
  (`Qtftp.cpp:185`, `207`, `233`): it then reports the error and sends nothing more.
- `client_get`, `server_get` and `server_put` of `Qtftp`: no callers.
- `rtu_tool` and `cmu_ip` send to message queue 0, which nothing registers or
  reads since `cmu4u.cpp` is no longer built; their messages are dropped.
- `DownLoadManager`: its only call is commented out (`appinit.cpp:32`).
- `db_manager`: queries; only the order of the rows they return matters
  (`RegPlan`). `socImporter`, log views, widgets and libraries: input, output and
  presentation.

## 9. What would come next

1. The theorems of `TftpServer_proofs` for `client_put`, by instantiation.
2. `ProtocolSync`: reconnections with the history `verHelp.txt` speaks of.
3. Two clients that write one file.

## 10. Running it

    tlc -config CmuWorker.cfg CmuWorkerMC
    tlapm CmuWorker_proofs.tla

`PROJECT.json` names module and configuration of every run.
