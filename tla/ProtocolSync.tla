----------------------------- MODULE ProtocolSync -----------------------------
(***************************************************************************)
(* Changing the protocol version of a view.  Two threads take part:        *)
(*                                                                         *)
(*  - the GUI thread of BMSView: the protocol box, the dialog behind the   *)
(*    help button, the handler of cpVerChanged and, on the view's timer,   *)
(*    findPreVer, which recommends the version for the CMU's program;      *)
(*  - the worker thread of mb_cmu: CTRL_SET_PRO, CTRL_SET_EXPRO, the       *)
(*    queued call of setCompoundProtocolVer, and the polls.                *)
(*                                                                         *)
(* protocal_ver, ex_ver and exVerChangedFlag belong to mb_cmu but are      *)
(* written by both threads without a common lock, so every handler that    *)
(* touches them is split where the other thread can come between.          *)
(***************************************************************************)
EXTENDS Integers, Sequences

CONSTANTS
  BMS_PROTOCOL,  \* protocols (0..3), entries of the protocol box
  Versions,      \* tables the dialog offers and the recommendation names
  cproVerList,   \* tables that exist as extended tables
  CmuVers,       \* program versions of the CMUs on the network
  Recommended,   \* function: the table findPreVer finds for a program version
  Recorded,      \* function: the tables CMUver.txt gives for a program version
  NoTable,       \* "no recommendation"
  Picked,        \* bound: extended tables a user picks in the dialog
  UserBound,     \* bound: changes a user makes
  SwapBound,     \* bound: cables pulled, CMUs exchanged
  QueueBound     \* bound: events waiting for the worker

Pro(v) == v \div 1000
Ex(v)  == v % 1000
Unread == 0      \* cmu_ver when its read failed: ReadData clears the buffer

ASSUME ConstantsAssumption ==
  /\ BMS_PROTOCOL \subseteq Nat
  /\ \A v \in Versions \cup cproVerList : v \in Nat /\ Pro(v) \in BMS_PROTOCOL
  /\ Recommended \in [CmuVers \cup {Unread} -> Versions \cup {NoTable}]
  /\ Recorded \in [CmuVers \cup {Unread} -> SUBSET Versions]
  /\ Picked \subseteq cproVerList
  /\ NoTable \notin Nat /\ Unread \notin CmuVers
  /\ Recommended[Unread] = NoTable
  /\ UserBound \in Nat /\ SwapBound \in Nat /\ QueueBound \in Nat

VARIABLES
  \* shared by the threads
  protocal_ver, ex_ver, exVerChangedFlag, cmu_ver, online,
  \* the worker: its queue, its position in a handler, the version a running
  \* setCompoundProtocolVer sets, the table Init loaded
  worker, wpc, setting, table,
  \* the GUI: its queue, its position in findPreVer, the protocol box, the
  \* version seen last
  events, gpc, cbProtocol, verCache,
  \* the CMU at the other end, and whether the cable is plugged
  dev, linked,
  \* bounds
  users, swaps,
  \* history: a change, or a detection, began while another was under way; the
  \* table the dialog or a detection set last
  overlapped, raced, chosen

sharedVars == <<protocal_ver, ex_ver, exVerChangedFlag>>
pollVars   == <<cmu_ver, online>>
workerVars == <<wpc, setting, table>>
guiVars    == <<gpc, cbProtocol, verCache>>
envVars    == <<dev, linked, swaps>>
histVars   == <<overlapped, raced, chosen>>
vars == <<sharedVars, pollVars, worker, workerVars, events, guiVars, envVars,
          users, histVars>>

compound_protocol_ver == protocal_ver * 1000 + ex_ver

SET_PRO(p) == [cmd |-> "SET_PRO", ver |-> p * 1000]
SET_CP(v)  == [cmd |-> "SET_CP", ver |-> v]
SET_EXPRO  == [cmd |-> "SET_EXPRO", ver |-> 0]

\* Nothing is on its way: both queues are empty, no handler is half done.
Quiet == worker = <<>> /\ events = <<>> /\ wpc = "idle" /\ gpc = "idle"

-----------------------------------------------------------------------------
Init ==
  /\ protocal_ver \in BMS_PROTOCOL /\ ex_ver = 0 /\ exVerChangedFlag = FALSE
  /\ cmu_ver = Unread /\ online = FALSE
  /\ worker = <<>> /\ wpc = "idle" /\ setting = 0
  /\ table = [kind |-> "origin", pro |-> protocal_ver, ex |-> 0]
  /\ events = <<>> /\ gpc = "idle" /\ cbProtocol = protocal_ver
  /\ verCache \in CmuVers \cup {Unread}          \* never initialised
  /\ dev \in CmuVers /\ linked = TRUE
  /\ users = 0 /\ swaps = 0
  /\ overlapped = FALSE /\ raced = FALSE /\ chosen = NoTable

-----------------------------------------------------------------------------
(* The worker.                                                              *)

Post(c) == worker' = Append(worker, c)

\* The extended version is what remains of the version after protocal_ver, which
\* another thread may have written meanwhile: the build reads either.
ExAfter_Whole(v) == {v}
ExAfter(v) == {v - 1000 * p : p \in {Pro(v), protocal_ver}}

FlagAfterSet_Missing == exVerChangedFlag
FlagAfterSet == TRUE

\* setCompoundProtocolVer, from the dialog or from CTRL_SET_PRO: three writes,
\* then cpVerChanged, which the GUI gets through its event queue.
StartSet ==
  /\ wpc = "idle" /\ worker # <<>> /\ Head(worker).cmd \in {"SET_PRO", "SET_CP"}
  /\ worker' = Tail(worker)
  /\ setting' = Head(worker).ver
  /\ protocal_ver' = Pro(setting')
  /\ wpc' = "setEx"
  /\ UNCHANGED <<ex_ver, exVerChangedFlag, pollVars, table, events, guiVars,
                 envVars, users, histVars>>

FinishSet ==
  /\ wpc = "setEx"
  /\ ex_ver' \in ExAfter(setting) /\ exVerChangedFlag' = FlagAfterSet
  /\ events' = Append(events, setting)
  /\ wpc' = "idle"
  /\ UNCHANGED <<protocal_ver, pollVars, worker, setting, table, guiVars,
                 envVars, users, histVars>>

\* CTRL_SET_EXPRO runs Init(): the test, the load, the reset of the flag.  The
\* files it then starts anew are those of module Recorder.
StartInit ==
  /\ wpc = "idle" /\ worker # <<>> /\ Head(worker).cmd = "SET_EXPRO"
  /\ worker' = Tail(worker)
  /\ wpc' = IF compound_protocol_ver \in cproVerList /\ exVerChangedFlag
            THEN "extern" ELSE "origin"
  /\ UNCHANGED <<sharedVars, pollVars, setting, table, events, guiVars,
                 envVars, users, histVars>>

ClearedEx_Kept == ex_ver
ClearedEx == 0

ClearEx ==
  /\ wpc = "origin"
  /\ ex_ver' = ClearedEx
  /\ wpc' = "getOrigin"
  /\ UNCHANGED <<protocal_ver, exVerChangedFlag, pollVars, worker, setting, table,
                 events, guiVars, envVars, users, histVars>>

LoadOrigin ==
  /\ wpc = "getOrigin"
  /\ table' = [kind |-> "origin", pro |-> protocal_ver, ex |-> 0]
  /\ wpc' = "clear"
  /\ UNCHANGED <<sharedVars, pollVars, worker, setting, events, guiVars, envVars,
                 users, histVars>>

LoadExtern ==
  /\ wpc = "extern"
  /\ table' = [kind |-> "extern", pro |-> protocal_ver, ex |-> ex_ver]
  /\ wpc' = "clear"
  /\ UNCHANGED <<sharedVars, pollVars, worker, setting, events, guiVars,
                 envVars, users, histVars>>

ClearFlag ==
  /\ wpc = "clear"
  /\ exVerChangedFlag' = FALSE
  /\ wpc' = "idle"
  /\ UNCHANGED <<protocal_ver, ex_ver, pollVars, worker, setting, table,
                 events, guiVars, envVars, users, histVars>>

\* A read cycle: the version block is read first, so its failure alone leaves
\* cmu_ver cleared while the view still shows the CMU as connected.
Poll ==
  /\ wpc = "idle" /\ linked
  /\ online' = TRUE
  /\ cmu_ver' \in {dev, Unread}
  /\ UNCHANGED <<sharedVars, worker, workerVars, events, guiVars, envVars, users,
                 histVars>>

\* Without a link every read fails; the version is cleared if its block was due.
PollFails ==
  /\ wpc = "idle" /\ ~linked
  /\ online' = FALSE
  /\ cmu_ver' \in {cmu_ver, Unread}
  /\ UNCHANGED <<sharedVars, worker, workerVars, events, guiVars, envVars, users,
                 histVars>>

WorkerNext == \/ StartSet \/ FinishSet
              \/ StartInit \/ ClearEx \/ LoadOrigin \/ LoadExtern \/ ClearFlag
              \/ Poll \/ PollFails

-----------------------------------------------------------------------------
(* The GUI thread.                                                          *)

\* The user picks a protocol; Qt reports it only if it differs from the present.
ChangeProtocol(p) ==
  /\ gpc = "idle" /\ users < UserBound /\ Len(worker) < QueueBound
  /\ p # cbProtocol /\ cbProtocol' = p
  /\ Post(SET_PRO(p))
  /\ users' = users + 1
  /\ chosen' = NoTable
  /\ overlapped' = (overlapped \/ ~Quiet)
  /\ UNCHANGED <<sharedVars, pollVars, workerVars, events, gpc, verCache, envVars,
                 raced>>

\* The dialog's button; the dialog stays open, so it may follow itself at once.
RunChange(v) ==
  /\ gpc = "idle" /\ users < UserBound /\ Len(worker) < QueueBound
  /\ Post(SET_CP(v))
  /\ users' = users + 1
  /\ chosen' = v
  /\ overlapped' = (overlapped \/ ~Quiet)
  /\ UNCHANGED <<sharedVars, pollVars, workerVars, events, guiVars, envVars,
                 raced>>

\* The view's handler of cpVerChanged, with the signals of the box blocked.
Reload_Unblocked(p) == <<SET_EXPRO, SET_PRO(p)>>
Reload(p) == <<SET_EXPRO>>

BoxAfter_Kept(p) == cbProtocol
BoxAfter(p) == p

CpVerChanged ==
  /\ gpc = "idle" /\ events # <<>>
  /\ events' = Tail(events)
  /\ worker' = worker \o Reload(Pro(Head(events)))
  /\ cbProtocol' = BoxAfter(Pro(Head(events)))
  /\ UNCHANGED <<sharedVars, pollVars, workerVars, gpc, verCache, envVars, users,
                 histVars>>

\* findPreVer, on the view's timer: a program version not seen before is looked
\* up.  Setting the version happens here, in the GUI thread, and the handler of
\* cpVerChanged runs inside it.
Detects == gpc = "idle" /\ online /\ cmu_ver # verCache

LookUpFails ==
  /\ Detects /\ Recommended[cmu_ver] = NoTable
  /\ verCache' = cmu_ver
  /\ UNCHANGED <<sharedVars, pollVars, worker, workerVars, events, gpc, cbProtocol,
                 envVars, users, histVars>>

LookUp ==
  /\ Detects /\ Recommended[cmu_ver] # NoTable /\ Len(worker) < QueueBound
  /\ verCache' = cmu_ver
  /\ protocal_ver' = Pro(Recommended[cmu_ver])
  /\ gpc' = "setEx"
  /\ overlapped' = (overlapped \/ ~Quiet) /\ raced' = (raced \/ ~Quiet)
  /\ chosen' = Recommended[cmu_ver]
  /\ UNCHANGED <<ex_ver, exVerChangedFlag, pollVars, worker, workerVars, events,
                 cbProtocol, envVars, users>>

SetEx ==
  /\ gpc = "setEx"
  /\ ex_ver' \in ExAfter(Recommended[verCache])
  /\ gpc' = "emit"
  /\ UNCHANGED <<protocal_ver, exVerChangedFlag, pollVars, worker, workerVars, events,
                 cbProtocol, verCache, envVars, users, histVars>>

EmitChanged ==
  /\ gpc = "emit"
  /\ exVerChangedFlag' = FlagAfterSet
  /\ worker' = worker \o Reload(Pro(Recommended[verCache]))
  /\ cbProtocol' = BoxAfter(Pro(Recommended[verCache]))
  /\ gpc' = "idle"
  /\ UNCHANGED <<protocal_ver, ex_ver, pollVars, workerVars, events, verCache,
                 envVars, users, histVars>>

GuiNext == \/ \E p \in BMS_PROTOCOL : ChangeProtocol(p)
           \/ \E v \in Picked : RunChange(v)
           \/ CpVerChanged \/ LookUpFails \/ LookUp \/ SetEx \/ EmitChanged

-----------------------------------------------------------------------------
(* The cable is pulled; it is plugged in again, perhaps to another CMU.     *)

Unplug ==
  /\ linked /\ swaps < SwapBound
  /\ linked' = FALSE /\ swaps' = swaps + 1
  /\ UNCHANGED <<sharedVars, pollVars, worker, workerVars, events, guiVars, dev,
                 users, histVars>>
Plug ==
  /\ ~linked
  /\ linked' = TRUE /\ dev' \in CmuVers
  /\ UNCHANGED <<sharedVars, pollVars, worker, workerVars, events, guiVars, swaps,
                 users, histVars>>

EnvNext == Unplug \/ Plug

-----------------------------------------------------------------------------
Next == WorkerNext \/ GuiNext \/ EnvNext

\* Both event loops serve what is queued to them.
Fairness ==
  /\ WF_vars(\/ StartSet \/ FinishSet \/ StartInit
             \/ ClearEx \/ LoadOrigin \/ LoadExtern \/ ClearFlag)
  /\ WF_vars(CpVerChanged \/ SetEx \/ EmitChanged)

Spec == Init /\ [][Next]_vars
FairSpec == Spec /\ Fairness

-----------------------------------------------------------------------------
Cmds == {SET_EXPRO} \cup {SET_PRO(p) : p \in BMS_PROTOCOL}
                    \cup {SET_CP(v) : v \in cproVerList}
Tables == [kind : {"origin", "extern"}, pro : BMS_PROTOCOL, ex : Int]

TypeOK ==
  /\ protocal_ver \in BMS_PROTOCOL /\ ex_ver \in Int
  /\ ~raced => ex_ver \in 0..999
  /\ exVerChangedFlag \in BOOLEAN /\ online \in BOOLEAN /\ linked \in BOOLEAN
  /\ {cmu_ver, verCache} \subseteq CmuVers \cup {Unread} /\ dev \in CmuVers
  /\ worker \in Seq(Cmds) /\ setting \in Nat
  /\ wpc \in {"idle", "setEx", "origin", "getOrigin", "extern", "clear"}
  /\ table \in Tables
  /\ events \in Seq(Nat) /\ gpc \in {"idle", "setEx", "emit"}
  /\ cbProtocol \in BMS_PROTOCOL
  /\ {overlapped, raced} \subseteq BOOLEAN
  /\ chosen \in Versions \cup cproVerList \cup {NoTable}

\* However the threads interleave, once a change has come to rest the node table
\* is the one of the version in use: an extended table for a version that has one,
\* else the baseline with the extended version cleared.
TableFollowsVersion ==
  Quiet => /\ table.pro = protocal_ver /\ table.ex = ex_ver
           /\ table.kind = "extern" => compound_protocol_ver \in cproVerList
           /\ table.kind = "origin" => ex_ver = 0

\* The protocol box shows the protocol the worker uses, for any overlapping of the
\* user's changes, unless a detection began while a change was under way.
BoxShowsVersion == Quiet /\ ~raced => cbProtocol = protocal_ver

\* The version in use is the one the dialog or the detection set last, if it has
\* an extended table, when no two changes overlapped.
SettledVersion(v) == IF v \in cproVerList THEN v ELSE Pro(v) * 1000
ChangeTakesEffect ==
  Quiet /\ ~overlapped /\ chosen # NoTable =>
     compound_protocol_ver = SettledVersion(chosen)

\* A detection ends with a node table that CMUver.txt records for the program of the
\* CMU.  findPreVer names it from the file, Init() falls back on the baseline if the
\* list in the code lacks it.
DetectedTableFits ==
  Quiet /\ ~overlapped /\ chosen # NoTable /\ chosen = Recommended[verCache] =>
     table.pro * 1000 + table.ex \in Recorded[verCache]

\* Changes come to rest: the two threads do not answer each other for ever.
Settles == []<><<LookUp>>_vars \/ <>[]Quiet

\* "CTRL_SET_EXPRO, 设置扩展协议版本" (protocol/cmu/mb_cmu.h:63, set the extended
\* version): the version chosen last is in use, also when two changes overlapped.
ChosenVersionUsed ==
  Quiet /\ ~raced /\ chosen # NoTable =>
     compound_protocol_ver = SettledVersion(chosen)
=============================================================================
