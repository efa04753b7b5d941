-------------------------- MODULE ProtocolSync_proofs --------------------------
(***************************************************************************)
(* Proofs about ProtocolSync, for any protocols, tables, program versions  *)
(* and recommendation, and for any number of changes and exchanged CMUs.   *)
(***************************************************************************)
EXTENDS ProtocolSync, SequenceTheorems, TLAPS

USE ConstantsAssumption

Version == {v \in Nat : Pro(v) \in BMS_PROTOCOL}

\* Commands in a queue: one that reloads the table, one that sets the version.
Reloads(q) == \E i \in 1 .. Len(q) : q[i].cmd = "SET_EXPRO"
SetsVersion(q) == \E i \in 1 .. Len(q) : q[i].cmd # "SET_EXPRO"

Recommending == Recommended[verCache]

\* Versions under way are versions.
Typed ==
  /\ TypeOK
  /\ events \in Seq(Version)
  /\ wpc = "setEx" => setting \in Version
  /\ gpc # "idle" => Recommending \in Version
  /\ raced => overlapped

\* A detection that has begun while all was quiet is alone: the GUI thread is in it.
Alone == worker = <<>> /\ events = <<>> /\ wpc = "idle"
DetectionAlone ==
  ~raced /\ gpc # "idle" => Alone /\ protocal_ver = Pro(Recommending)

\* The version written last will be followed by a load of the tables.
ReloadPending == gpc # "idle" \/ events # <<>> \/ Reloads(worker)
TableFits ==
  /\ table.pro = protocal_ver /\ table.ex = ex_ver
  /\ table.kind = "extern" => compound_protocol_ver \in cproVerList
  /\ table.kind = "origin" => ex_ver = 0
ReloadFollows ==
  \/ ReloadPending \/ wpc \in {"setEx", "origin"}
  \/ wpc = "getOrigin" /\ ex_ver = 0
  \/ wpc = "extern" /\ compound_protocol_ver \in cproVerList
  \/ wpc \in {"idle", "clear"} /\ TableFits

\* The box will show the protocol set last: by a command still queued, by a change
\* under way, by an event still queued; or it does.
BoxFollows ==
  ~raced =>
    /\ wpc = "setEx" => protocal_ver = Pro(setting)
    /\ gpc = "idle" /\ wpc # "setEx" /\ events # <<>>
         => protocal_ver = Pro(events[Len(events)])
    /\ gpc = "idle" /\ wpc # "setEx" /\ events = <<>> /\ ~SetsVersion(worker)
         => cbProtocol = protocal_ver

\* A change that no other overlaps passes through these stages.
Stage(q, e, w, g) == worker = q /\ events = e /\ wpc = w /\ gpc = g
ChangeFollows ==
  ~overlapped /\ chosen # NoTable =>
    \/ Stage(<<SET_CP(chosen)>>, <<>>, "idle", "idle")
    \/ Stage(<<>>, <<>>, "setEx", "idle") /\ setting = chosen /\ protocal_ver = Pro(chosen)
    \/ Stage(<<>>, <<chosen>>, "idle", "idle")
         /\ compound_protocol_ver = chosen /\ exVerChangedFlag
    \/ Stage(<<>>, <<>>, "idle", "setEx") /\ Recommending = chosen
         /\ protocal_ver = Pro(chosen)
    \/ Stage(<<>>, <<>>, "idle", "emit") /\ compound_protocol_ver = chosen
    \/ Stage(<<SET_EXPRO>>, <<>>, "idle", "idle")
         /\ compound_protocol_ver = chosen /\ exVerChangedFlag
    \/ Stage(<<>>, <<>>, "extern", "idle")
         /\ compound_protocol_ver = chosen /\ chosen \in cproVerList
    \/ Stage(<<>>, <<>>, "origin", "idle")
         /\ compound_protocol_ver = chosen /\ chosen \notin cproVerList
    \/ /\ \/ Stage(<<>>, <<>>, "getOrigin", "idle")
          \/ Stage(<<>>, <<>>, "clear", "idle") \/ Quiet
       /\ compound_protocol_ver = SettledVersion(chosen)

IInv == Typed /\ DetectionAlone /\ ReloadFollows /\ BoxFollows /\ ChangeFollows
-----------------------------------------------------------------------------
(* Versions.                                                                 *)

LEMMA VersionParts ==
  ASSUME NEW v \in Nat
  PROVE  /\ Pro(v) \in Nat /\ v - 1000 * Pro(v) \in 0 .. 999
         /\ Pro(v) * 1000 + (v - 1000 * Pro(v)) = v
BY DEF Pro

LEMMA ProtocolVersion ==
  ASSUME NEW p \in BMS_PROTOCOL
  PROVE  p * 1000 \in Version /\ Pro(p * 1000) = p
<1>1. p \in Nat
  OBVIOUS
<1>2. p * 1000 \in Nat /\ Pro(p * 1000) = p
  BY <1>1 DEF Pro
<1> QED BY <1>2 DEF Version

LEMMA TablesAreVersions == Versions \cup cproVerList \subseteq Version
BY DEF Version

LEMMA RecommendedVersion ==
  ASSUME NEW v \in CmuVers \cup {Unread}, Recommended[v] # NoTable
  PROVE  Recommended[v] \in Versions /\ Recommended[v] \in Version
BY TablesAreVersions

-----------------------------------------------------------------------------
(* The queue of the worker.                                                  *)

LEMMA Commands ==
  ASSUME NEW c \in Cmds
  PROVE  /\ c.cmd \in {"SET_PRO", "SET_CP", "SET_EXPRO"}
         /\ c.cmd # "SET_EXPRO" => c.ver \in Version
<1>1. CASE c = SET_EXPRO
  BY <1>1 DEF SET_EXPRO
<1>2. ASSUME NEW p \in BMS_PROTOCOL, c = SET_PRO(p)
      PROVE  c.cmd = "SET_PRO" /\ c.ver \in Version
  BY <1>2, ProtocolVersion DEF SET_PRO
<1>3. ASSUME NEW v \in cproVerList, c = SET_CP(v)
      PROVE  c.cmd = "SET_CP" /\ c.ver \in Version
  BY <1>3, TablesAreVersions DEF SET_CP
<1> QED BY <1>1, <1>2, <1>3 DEF Cmds

LEMMA Posting ==
  ASSUME NEW q \in Seq(Cmds), NEW c \in Cmds
  PROVE  /\ Append(q, c) \in Seq(Cmds) /\ q \o <<c>> = Append(q, c)
         /\ Reloads(Append(q, c)) <=> Reloads(q) \/ c.cmd = "SET_EXPRO"
         /\ SetsVersion(Append(q, c)) <=> SetsVersion(q) \/ c.cmd # "SET_EXPRO"
<1> DEFINE r == Append(q, c)
<1>1. /\ r \in Seq(Cmds) /\ Len(r) = Len(q) + 1 /\ Len(q) \in Nat
      /\ \A i \in 1 .. Len(q) : r[i] = q[i]
      /\ r[Len(q) + 1] = c /\ q \o <<c>> = r
  BY AppendProperties, AppendIsConcat, LenProperties
<1> HIDE DEF r
<1>2. \A i \in 1 .. Len(r) : i \in 1 .. Len(q) \/ i = Len(q) + 1
  BY <1>1
<1>3. \A i \in 1 .. Len(q) : i \in 1 .. Len(r)
  BY <1>1
<1>4. Len(q) + 1 \in 1 .. Len(r)
  BY <1>1
<1>5. Reloads(r) <=> Reloads(q) \/ c.cmd = "SET_EXPRO"
  <2>1. Reloads(r) => Reloads(q) \/ c.cmd = "SET_EXPRO"
    BY ONLY <1>1, <1>2 DEF Reloads
  <2>2. Reloads(q) => Reloads(r)
    BY ONLY <1>1, <1>3 DEF Reloads
  <2>3. c.cmd = "SET_EXPRO" => Reloads(r)
    BY ONLY <1>1, <1>4 DEF Reloads
  <2> QED BY <2>1, <2>2, <2>3
<1>6. SetsVersion(r) <=> SetsVersion(q) \/ c.cmd # "SET_EXPRO"
  <2>1. SetsVersion(r) => SetsVersion(q) \/ c.cmd # "SET_EXPRO"
    BY ONLY <1>1, <1>2 DEF SetsVersion
  <2>2. SetsVersion(q) => SetsVersion(r)
    BY ONLY <1>1, <1>3 DEF SetsVersion
  <2>3. c.cmd # "SET_EXPRO" => SetsVersion(r)
    BY ONLY <1>1, <1>4 DEF SetsVersion
  <2> QED BY <2>1, <2>2, <2>3
<1> QED BY <1>1, <1>5, <1>6 DEF r

LEMMA Taking ==
  ASSUME NEW q \in Seq(Cmds), q # <<>>
  PROVE  /\ Head(q) \in Cmds /\ Tail(q) \in Seq(Cmds)
         /\ Reloads(q) <=> Reloads(Tail(q)) \/ Head(q).cmd = "SET_EXPRO"
         /\ SetsVersion(q) <=> SetsVersion(Tail(q)) \/ Head(q).cmd # "SET_EXPRO"
<1> DEFINE r == Tail(q)
<1>1. /\ r \in Seq(Cmds) /\ Len(r) = Len(q) - 1 /\ Len(q) \in Nat \ {0}
      /\ \A i \in 1 .. Len(r) : r[i] = q[i + 1]
      /\ Head(q) \in Cmds /\ Head(q) = q[1]
  BY HeadTailProperties, EmptySeq
<1> HIDE DEF r
<1>2. ASSUME NEW i \in 1 .. Len(q), i # 1
      PROVE  i - 1 \in 1 .. Len(r) /\ r[i - 1] = q[i]
  <2>1. i - 1 \in 1 .. Len(r) /\ (i - 1) + 1 = i
    BY <1>1, <1>2
  <2> QED BY <1>1, <2>1
<1>3. \A i \in 1 .. Len(r) : i + 1 \in 1 .. Len(q) /\ r[i] = q[i + 1]
  BY <1>1
<1>4. 1 \in 1 .. Len(q)
  BY <1>1
<1>5. Reloads(q) <=> Reloads(r) \/ q[1].cmd = "SET_EXPRO"
  <2>1. Reloads(q) => Reloads(r) \/ q[1].cmd = "SET_EXPRO"
    BY ONLY <1>2 DEF Reloads
  <2>2. Reloads(r) => Reloads(q)
    BY ONLY <1>3 DEF Reloads
  <2>3. q[1].cmd = "SET_EXPRO" => Reloads(q)
    BY ONLY <1>4 DEF Reloads
  <2> QED BY <2>1, <2>2, <2>3
<1>6. SetsVersion(q) <=> SetsVersion(r) \/ q[1].cmd # "SET_EXPRO"
  <2>1. SetsVersion(q) => SetsVersion(r) \/ q[1].cmd # "SET_EXPRO"
    BY ONLY <1>2 DEF SetsVersion
  <2>2. SetsVersion(r) => SetsVersion(q)
    BY ONLY <1>3 DEF SetsVersion
  <2>3. q[1].cmd # "SET_EXPRO" => SetsVersion(q)
    BY ONLY <1>4 DEF SetsVersion
  <2> QED BY <2>1, <2>2, <2>3
<1> QED BY <1>1, <1>5, <1>6 DEF r

LEMMA EmptyQueue == ~Reloads(<<>>) /\ ~SetsVersion(<<>>)
BY DEF Reloads, SetsVersion
-----------------------------------------------------------------------------
(* Types.                                                                    *)

LEMMA InitTyped == Init => Typed
<1> SUFFICES ASSUME Init PROVE Typed
  OBVIOUS
<1>1. protocal_ver \in Nat
  BY DEF Init
<1>2. table \in Tables
  BY DEF Init, Tables
<1>3. worker \in Seq(Cmds) /\ events \in Seq(Nat) /\ events \in Seq(Version)
  BY DEF Init
<1>4. {cmu_ver, verCache} \subseteq CmuVers \cup {Unread} /\ dev \in CmuVers
  BY DEF Init
<1>5. /\ protocal_ver \in BMS_PROTOCOL /\ cbProtocol \in BMS_PROTOCOL
      /\ ex_ver \in 0 .. 999 /\ setting \in Nat
  BY DEF Init
<1>6. /\ {overlapped, raced} \subseteq BOOLEAN /\ exVerChangedFlag \in BOOLEAN
      /\ online \in BOOLEAN /\ linked \in BOOLEAN
  BY DEF Init
<1>7. /\ chosen \in Versions \cup cproVerList \cup {NoTable}
      /\ wpc \in {"idle", "setEx", "origin", "getOrigin", "extern", "clear"}
      /\ gpc \in {"idle", "setEx", "emit"} /\ ex_ver \in Int
  BY DEF Init
<1>8. TypeOK
  BY <1>2, <1>3, <1>4, <1>5, <1>6, <1>7 DEF TypeOK
<1> QED BY <1>3, <1>8 DEF Init, Typed

\* setCompoundProtocolVer writes a version in two parts; they are those of one
\* version unless another thread came between.
LEMMA ExAfterTyped ==
  ASSUME NEW v \in Nat, protocal_ver \in Nat, NEW x \in ExAfter(v)
  PROVE  x \in Int /\ (protocal_ver = Pro(v) => x = v - 1000 * Pro(v) /\ x \in 0 .. 999)
BY VersionParts DEF ExAfter

LEMMA WorkerTyped ==
  ASSUME Typed, DetectionAlone, BoxFollows, WorkerNext
  PROVE  Typed'
<1> USE DEF Typed, TypeOK, pollVars, workerVars, guiVars, envVars, histVars, sharedVars
<1>1. CASE StartSet
  <2>1. /\ Head(worker) \in Cmds /\ Head(worker).cmd # "SET_EXPRO"
        /\ worker' \in Seq(Cmds)
    BY <1>1, Taking DEF StartSet
  <2>2. setting' \in Version
    BY <1>1, <2>1, Commands DEF StartSet
  <2>3. protocal_ver' \in BMS_PROTOCOL /\ setting' \in Nat
    BY <1>1, <2>2 DEF StartSet, Version
  <2> QED BY <1>1, <2>1, <2>2, <2>3 DEF StartSet, Recommending
<1>2. CASE FinishSet
  <2>1. setting \in Version /\ setting \in Nat /\ protocal_ver \in Nat
    BY <1>2 DEF FinishSet, Version
  <2>2. ex_ver' \in Int /\ (~raced => ex_ver' \in 0 .. 999)
    BY <1>2, <2>1, ExAfterTyped DEF FinishSet, BoxFollows
  <2>3. events' \in Seq(Nat) /\ events' \in Seq(Version)
    BY <1>2, <2>1 DEF FinishSet
  <2> QED BY <1>2, <2>2, <2>3 DEF FinishSet, FlagAfterSet, Recommending
<1>3. CASE StartInit
  <2>1. worker' \in Seq(Cmds)
    BY <1>3, Taking DEF StartInit
  <2> QED BY <1>3, <2>1 DEF StartInit, Recommending
<1>4. CASE LoadOrigin
  <2>1. table' \in Tables
    BY <1>4 DEF LoadOrigin, Tables
  <2> QED BY <1>4, <2>1 DEF LoadOrigin, Recommending
<1>5. CASE LoadExtern
  <2>1. table' \in Tables
    BY <1>5 DEF LoadExtern, Tables
  <2> QED BY <1>5, <2>1 DEF LoadExtern, Recommending
<1>6. CASE ClearFlag
  BY <1>6 DEF ClearFlag, Recommending
<1>7. CASE Poll
  BY <1>7 DEF Poll, Recommending
<1>8. CASE PollFails
  <2>1. {cmu_ver', verCache'} \subseteq CmuVers \cup {Unread}
    BY <1>8 DEF PollFails
  <2> QED BY <1>8, <2>1 DEF PollFails, Recommending
<1>9. CASE ClearEx
  BY <1>9 DEF ClearEx, ClearedEx, Recommending
<1> QED BY <1>1, <1>2, <1>3, <1>4, <1>5, <1>6, <1>7, <1>8, <1>9 DEF WorkerNext

LEMMA GuiTyped ==
  ASSUME Typed, DetectionAlone, GuiNext
  PROVE  Typed'
<1> USE DEF Typed, TypeOK, pollVars, workerVars, guiVars, envVars, histVars, sharedVars
<1>0. SET_EXPRO \in Cmds
  BY DEF Cmds
<1>1. ASSUME NEW p \in BMS_PROTOCOL, ChangeProtocol(p)
      PROVE  Typed'
  <2>1. SET_PRO(p) \in Cmds
    BY DEF Cmds
  <2>2. worker' \in Seq(Cmds)
    BY <1>1, <2>1, Posting DEF ChangeProtocol, Post
  <2> QED BY <1>1, <2>2 DEF ChangeProtocol, Recommending
<1>2. ASSUME NEW v \in Picked, RunChange(v)
      PROVE  Typed'
  <2>1. v \in cproVerList /\ SET_CP(v) \in Cmds
    BY DEF Cmds
  <2>2. worker' \in Seq(Cmds)
    BY <1>2, <2>1, Posting DEF RunChange, Post
  <2> QED BY <1>2, <2>2 DEF RunChange, Recommending
<1>3. CASE CpVerChanged
  <2>1. worker' \in Seq(Cmds)
    BY <1>0, <1>3, Posting DEF CpVerChanged, Reload
  <2>2. events' \in Seq(Nat) /\ events' \in Seq(Version) /\ Head(events) \in Version
    BY <1>3, HeadTailProperties DEF CpVerChanged
  <2>3. cbProtocol' \in BMS_PROTOCOL
    BY <1>3, <2>2 DEF CpVerChanged, BoxAfter, Version
  <2> QED BY <1>3, <2>1, <2>2, <2>3 DEF CpVerChanged, Recommending
<1>4. CASE LookUpFails
  BY <1>4 DEF LookUpFails, Detects, Recommending
<1>5. CASE LookUp
  <2>1. Recommended[cmu_ver] \in Versions /\ Recommended[cmu_ver] \in Version
    BY <1>5, RecommendedVersion DEF LookUp
  <2>2. protocal_ver' \in BMS_PROTOCOL
    BY <1>5, <2>1 DEF LookUp, Version
  <2> QED BY <1>5, <2>1, <2>2 DEF LookUp, Detects, Recommending
<1>6. CASE SetEx
  <2>1. Recommending \in Nat /\ protocal_ver \in Nat
    BY <1>6 DEF SetEx, Version
  <2>2. ex_ver' \in Int /\ (~raced => ex_ver' \in 0 .. 999)
    BY <1>6, <2>1, ExAfterTyped DEF SetEx, DetectionAlone, Recommending
  <2> QED BY <1>6, <2>2 DEF SetEx, Recommending
<1>7. CASE EmitChanged
  <2>1. worker' \in Seq(Cmds)
    BY <1>0, <1>7, Posting DEF EmitChanged, Reload
  <2>2. cbProtocol' \in BMS_PROTOCOL
    BY <1>7 DEF EmitChanged, BoxAfter, Version, Recommending
  <2> QED BY <1>7, <2>1, <2>2 DEF EmitChanged, FlagAfterSet, Recommending
<1> QED BY <1>1, <1>2, <1>3, <1>4, <1>5, <1>6, <1>7 DEF GuiNext

LEMMA OtherTyped ==
  ASSUME Typed, EnvNext \/ UNCHANGED vars
  PROVE  Typed'
<1> USE DEF Typed, TypeOK, pollVars, workerVars, guiVars, envVars, histVars, sharedVars,
            Recommending
<1>1. CASE Unplug
  BY <1>1 DEF Unplug
<1>2. CASE Plug
  BY <1>2 DEF Plug
<1>3. CASE UNCHANGED vars
  BY <1>3 DEF vars
<1> QED BY <1>1, <1>2, <1>3 DEF EnvNext

LEMMA TypedStep ==
  ASSUME Typed, DetectionAlone, BoxFollows, [Next]_vars
  PROVE  Typed'
BY WorkerTyped, GuiTyped, OtherTyped DEF Next
-----------------------------------------------------------------------------
(* A detection that is alone stays so: only the GUI thread can queue anything, *)
(* and it is in the detection.                                                 *)

LEMMA DetectionAloneStep ==
  ASSUME Typed, DetectionAlone, [Next]_vars
  PROVE  DetectionAlone'
<1> SUFFICES ASSUME ~raced', gpc' # "idle"
             PROVE  Alone' /\ protocal_ver' = Pro(Recommending')
  BY DEF DetectionAlone, Recommending
<1> USE DEF DetectionAlone, Alone,
            pollVars, workerVars, guiVars, envVars, histVars, sharedVars
<1>1. CASE WorkerNext
  <2>1. ~raced /\ gpc # "idle" /\ verCache' = verCache
    BY <1>1 DEF WorkerNext, StartSet, FinishSet, StartInit, ClearEx, LoadOrigin, LoadExtern,
                ClearFlag, Poll, PollFails
  <2>2. Alone /\ protocal_ver = Pro(Recommending)
    BY <2>1
  <2>3. UNCHANGED <<worker, events, wpc, protocal_ver>>
    BY <1>1, <2>2 DEF WorkerNext, StartSet, FinishSet, StartInit, ClearEx, LoadOrigin,
                      LoadExtern, ClearFlag, Poll, PollFails
  <2> QED BY <2>1, <2>2, <2>3 DEF Recommending
<1>2. CASE LookUp
  BY <1>2 DEF LookUp, Quiet, Recommending, Detects
<1>3. CASE SetEx
  BY <1>3 DEF SetEx, Recommending
<1>4. CASE EmitChanged
  BY <1>4 DEF EmitChanged
<1>5. CASE \/ CpVerChanged \/ LookUpFails
           \/ \E p \in BMS_PROTOCOL : ChangeProtocol(p)
           \/ \E v \in Picked : RunChange(v)
  BY <1>5 DEF CpVerChanged, LookUpFails, ChangeProtocol, RunChange, Detects
<1>6. CASE EnvNext \/ UNCHANGED vars
  BY <1>6 DEF EnvNext, Unplug, Plug, vars, Recommending
<1> QED BY <1>1, <1>2, <1>3, <1>4, <1>5, <1>6 DEF Next, GuiNext

-----------------------------------------------------------------------------
(* The tables.                                                               *)

LEMMA ReloadPendingFollows == ReloadPending' => ReloadFollows'
BY DEF ReloadFollows

LEMMA ReloadStep ==
  ASSUME Typed, ReloadFollows, [Next]_vars
  PROVE  ReloadFollows'
<1> USE DEF pollVars, workerVars, guiVars, envVars, histVars, sharedVars
<1>0. worker \in Seq(Cmds) /\ SET_EXPRO \in Cmds /\ SET_EXPRO.cmd = "SET_EXPRO"
  BY DEF Typed, TypeOK, Cmds, SET_EXPRO
<1>a. ASSUME UNCHANGED <<protocal_ver, ex_ver, wpc, table, gpc, events>>,
             Reloads(worker) => Reloads(worker)'
      PROVE  ReloadFollows'
  BY <1>a DEF ReloadFollows, ReloadPending, TableFits, compound_protocol_ver
<1>1. CASE StartSet
  BY <1>1 DEF StartSet, ReloadFollows
<1>2. CASE FinishSet
  <2>1. events' # <<>>
    BY <1>2, AppendProperties DEF FinishSet, Typed, TypeOK
  <2> QED BY <2>1 DEF ReloadFollows, ReloadPending
<1>3. CASE StartInit
  BY <1>3 DEF StartInit, ReloadFollows, compound_protocol_ver
<1>4. CASE ClearEx
  BY <1>4 DEF ClearEx, ClearedEx, ReloadFollows
<1>15. CASE LoadOrigin
  <2>1. ReloadPending \/ ex_ver = 0
    BY <1>15 DEF LoadOrigin, ReloadFollows
  <2>2. ReloadPending' = ReloadPending
    BY <1>15 DEF LoadOrigin, ReloadPending, Reloads
  <2> QED BY <1>15, <2>1, <2>2 DEF LoadOrigin, ReloadFollows, TableFits
<1>5. CASE LoadExtern
  <2>1. ReloadPending \/ compound_protocol_ver \in cproVerList
    BY <1>5 DEF LoadExtern, ReloadFollows
  <2>2. ReloadPending' = ReloadPending /\ compound_protocol_ver' = compound_protocol_ver
    BY <1>5 DEF LoadExtern, ReloadPending, Reloads, compound_protocol_ver
  <2> QED BY <1>5, <2>1, <2>2 DEF LoadExtern, ReloadFollows, TableFits
<1>6. CASE ClearFlag
  BY <1>6 DEF ClearFlag, ReloadFollows, ReloadPending, Reloads, TableFits,
              compound_protocol_ver
<1>7. CASE Poll \/ PollFails
  BY <1>7, <1>a DEF Poll, PollFails, Reloads
<1>8. ASSUME NEW c \in Cmds, worker' = Append(worker, c)
      PROVE  Reloads(worker) => Reloads(worker')
  BY <1>0, <1>8, Posting
<1>9. ASSUME NEW p \in BMS_PROTOCOL, ChangeProtocol(p)
      PROVE  ReloadFollows'
  <2>1. SET_PRO(p) \in Cmds
    BY DEF Cmds
  <2> QED BY <1>8, <1>9, <1>a, <2>1 DEF ChangeProtocol, Post
<1>10. ASSUME NEW v \in Picked, RunChange(v)
       PROVE  ReloadFollows'
  <2>1. v \in cproVerList /\ SET_CP(v) \in Cmds
    BY DEF Cmds
  <2> QED BY <1>8, <1>10, <1>a, <2>1 DEF RunChange, Post
<1>11. CASE CpVerChanged \/ EmitChanged
  <2>1. worker' = Append(worker, SET_EXPRO)
    BY <1>0, <1>11, Posting DEF CpVerChanged, EmitChanged, Reload
  <2>2. Reloads(worker')
    BY <1>0, <2>1, Posting
  <2> QED BY <2>2 DEF ReloadFollows, ReloadPending
<1>12. CASE LookUpFails
  BY <1>12, <1>a DEF LookUpFails
<1>13. CASE LookUp \/ SetEx
  BY <1>13 DEF LookUp, SetEx, ReloadFollows, ReloadPending
<1>14. CASE EnvNext \/ UNCHANGED vars
  BY <1>14, <1>a DEF EnvNext, Unplug, Plug, vars
<1> QED BY <1>1, <1>2, <1>3, <1>4, <1>5, <1>6, <1>7, <1>9, <1>10, <1>11, <1>12, <1>13,
           <1>14, <1>15 DEF Next, WorkerNext, GuiNext
-----------------------------------------------------------------------------
(* The protocol box.                                                         *)

\* The event handled last is the one queued last.
LEMMA LastEvent ==
  ASSUME NEW q \in Seq(Version), q # <<>>
  PROVE  /\ Tail(q) # <<>> => Tail(q)[Len(Tail(q))] = q[Len(q)]
         /\ Tail(q) = <<>> => Head(q) = q[Len(q)]
<1>1. /\ Tail(q) \in Seq(Version) /\ Len(Tail(q)) = Len(q) - 1 /\ Len(q) \in Nat \ {0}
      /\ \A i \in 1 .. Len(Tail(q)) : Tail(q)[i] = q[i + 1]
      /\ Head(q) = q[1]
  BY HeadTailProperties, EmptySeq
<1>2. ASSUME Tail(q) # <<>>
      PROVE  Tail(q)[Len(Tail(q))] = q[Len(q)]
  <2>1. Len(Tail(q)) \in 1 .. Len(Tail(q)) /\ Len(Tail(q)) + 1 = Len(q)
    BY <1>1, <1>2, EmptySeq
  <2> QED BY <1>1, <2>1
<1>3. ASSUME Tail(q) = <<>>
      PROVE  Len(q) = 1
  <2>1. Len(<<>>) = 0
    BY EmptySeq
  <2>2. Len(Tail(q)) = Len(<<>>)
    BY <1>3, Zenon
  <2>3. Len(q) - 1 = 0
    BY <1>1, <2>1, <2>2, Zenon
  <2>4. ASSUME NEW n \in Nat, n - 1 = 0
        PROVE  n = 1
    BY <2>4
  <2>5. Len(q) \in Nat
    BY LenProperties
  <2> QED BY <2>3, <2>4, <2>5, Zenon
<1> QED BY <1>1, <1>2, <1>3

LEMMA BoxWorkerStep ==
  ASSUME Typed, DetectionAlone, BoxFollows, WorkerNext
  PROVE  BoxFollows'
<1> SUFFICES ASSUME ~raced' PROVE BoxFollows'
  BY DEF BoxFollows
<1> USE DEF BoxFollows, pollVars, workerVars, guiVars, envVars, histVars, sharedVars
<1>0. worker \in Seq(Cmds) /\ events \in Seq(Version)
  BY DEF Typed, TypeOK
<1>1. CASE StartSet
  BY <1>1 DEF StartSet
<1>2. CASE FinishSet
  <2>1. setting \in Version
    BY <1>2 DEF FinishSet, Typed
  <2>2. events' # <<>> /\ events'[Len(events')] = setting
    BY <1>0, <1>2, <2>1, AppendProperties DEF FinishSet
  <2> QED BY <1>2, <2>2 DEF FinishSet
<1>3. CASE StartInit
  <2>1. SetsVersion(worker) => SetsVersion(worker')
    BY <1>0, <1>3, Taking DEF StartInit
  <2> QED BY <1>3, <2>1 DEF StartInit
<1>4. CASE ClearEx \/ LoadOrigin
  BY <1>4 DEF ClearEx, LoadOrigin, SetsVersion
<1>5. CASE LoadExtern
  BY <1>5 DEF LoadExtern, SetsVersion
<1>6. CASE ClearFlag \/ Poll \/ PollFails
  BY <1>6 DEF ClearFlag, Poll, PollFails, SetsVersion
<1> QED BY <1>1, <1>2, <1>3, <1>4, <1>5, <1>6 DEF WorkerNext

LEMMA BoxGuiStep ==
  ASSUME Typed, DetectionAlone, BoxFollows, GuiNext \/ EnvNext \/ UNCHANGED vars
  PROVE  BoxFollows'
<1> SUFFICES ASSUME ~raced' PROVE BoxFollows'
  BY DEF BoxFollows
<1> USE DEF BoxFollows, pollVars, workerVars, guiVars, envVars, histVars, sharedVars
<1>0. /\ worker \in Seq(Cmds) /\ events \in Seq(Version)
      /\ SET_EXPRO \in Cmds /\ SET_EXPRO.cmd = "SET_EXPRO"
  BY DEF Typed, TypeOK, Cmds, SET_EXPRO
<1>1. ASSUME NEW p \in BMS_PROTOCOL, ChangeProtocol(p)
      PROVE  BoxFollows'
  <2>1. SET_PRO(p) \in Cmds /\ SET_PRO(p).cmd # "SET_EXPRO"
    BY DEF Cmds, SET_PRO
  <2>2. SetsVersion(worker')
    BY <1>0, <1>1, <2>1, Posting DEF ChangeProtocol, Post
  <2> QED BY <1>1, <2>2 DEF ChangeProtocol
<1>2. ASSUME NEW v \in Picked, RunChange(v)
      PROVE  BoxFollows'
  <2>1. SET_CP(v) \in Cmds /\ SET_CP(v).cmd # "SET_EXPRO"
    BY DEF Cmds, SET_CP
  <2>2. SetsVersion(worker')
    BY <1>0, <1>2, <2>1, Posting DEF RunChange, Post
  <2> QED BY <1>2, <2>2 DEF RunChange
<1>3. CASE CpVerChanged
  <2>1. /\ events' # <<>> => events'[Len(events')] = events[Len(events)]
        /\ events' = <<>> => Head(events) = events[Len(events)]
    BY <1>0, <1>3, LastEvent DEF CpVerChanged
  <2>2. cbProtocol' = Pro(Head(events))
    BY <1>3 DEF CpVerChanged, BoxAfter
  <2> QED BY <1>3, <2>1, <2>2 DEF CpVerChanged
<1>4. CASE LookUpFails
  BY <1>4 DEF LookUpFails
<1>5. CASE LookUp
  BY <1>5 DEF LookUp, Quiet
<1>6. CASE SetEx
  BY <1>6 DEF SetEx, DetectionAlone, Alone
<1>7. CASE EmitChanged
  <2>1. Alone /\ protocal_ver = Pro(Recommending)
    BY <1>7 DEF EmitChanged, DetectionAlone
  <2>2. cbProtocol' = Pro(Recommending)
    BY <1>7 DEF EmitChanged, BoxAfter, Recommending
  <2> QED BY <1>7, <2>1, <2>2 DEF EmitChanged, Alone
<1>8. CASE EnvNext \/ UNCHANGED vars
  BY <1>8 DEF EnvNext, Unplug, Plug, vars
<1> QED BY <1>1, <1>2, <1>3, <1>4, <1>5, <1>6, <1>7, <1>8 DEF GuiNext

-----------------------------------------------------------------------------
(* A change that nothing overlaps.                                           *)

LEMMA ChangeWorkerStep ==
  ASSUME Typed, ChangeFollows, WorkerNext
  PROVE  ChangeFollows'
<1> SUFFICES ASSUME ~overlapped, chosen # NoTable, UNCHANGED <<overlapped, chosen>>
             PROVE  ChangeFollows'
  BY DEF ChangeFollows, WorkerNext, StartSet, FinishSet, StartInit, ClearEx, LoadOrigin,
         LoadExtern, ClearFlag, Poll, PollFails, histVars
<1> USE DEF ChangeFollows, Stage, pollVars, workerVars, guiVars, envVars, sharedVars
<1>0. chosen \in Nat
  BY DEF Typed, TypeOK
<1>1. CASE StartSet
  <2>1. worker = <<SET_CP(chosen)>> /\ events = <<>> /\ gpc = "idle"
    BY <1>1 DEF StartSet, SET_EXPRO, Quiet
  <2>2. Head(worker) = SET_CP(chosen) /\ Tail(worker) = <<>>
    BY <2>1
  <2>3. setting' = chosen /\ protocal_ver' = Pro(chosen)
    BY <1>1, <2>2 DEF StartSet, SET_CP
  <2> QED BY <1>1, <2>1, <2>2, <2>3 DEF StartSet
<1>2. CASE FinishSet
  <2>1. /\ worker = <<>> /\ events = <<>> /\ gpc = "idle"
        /\ setting = chosen /\ protocal_ver = Pro(chosen)
    BY <1>2 DEF FinishSet, Quiet
  <2>2. events' = <<chosen>>
    BY <1>2, <2>1 DEF FinishSet
  <2>3. protocal_ver \in Nat
    BY DEF Typed, TypeOK
  <2>4. ex_ver' = chosen - 1000 * Pro(chosen)
    BY <1>0, <1>2, <2>1, <2>3, ExAfterTyped DEF FinishSet
  <2>5. compound_protocol_ver' = chosen
    BY <1>0, <1>2, <2>1, <2>4, VersionParts DEF FinishSet, compound_protocol_ver
  <2> QED BY <1>2, <2>1, <2>2, <2>5 DEF FinishSet, FlagAfterSet
<1>3. CASE StartInit
  <2>1. /\ worker = <<SET_EXPRO>> /\ events = <<>> /\ gpc = "idle"
        /\ compound_protocol_ver = chosen /\ exVerChangedFlag
    BY <1>3 DEF StartInit, SET_CP, Quiet
  <2>2. worker' = <<>>
    BY <1>3, <2>1 DEF StartInit
  <2> QED BY <1>3, <2>1, <2>2 DEF StartInit, compound_protocol_ver
<1>4. CASE ClearEx
  <2>1. /\ Stage(<<>>, <<>>, "origin", "idle")
        /\ compound_protocol_ver = chosen /\ chosen \notin cproVerList
    BY <1>4 DEF ClearEx, Quiet
  <2>2. protocal_ver = Pro(chosen)
    <3>1. protocal_ver \in Nat /\ ex_ver \in 0 .. 999
      BY DEF Typed, TypeOK
    <3> QED BY <1>0, <2>1, <3>1 DEF compound_protocol_ver, Pro
  <2>3. compound_protocol_ver' = SettledVersion(chosen)
    BY <1>4, <2>1, <2>2
       DEF ClearEx, ClearedEx, compound_protocol_ver, SettledVersion, Typed, TypeOK
  <2> QED BY <1>4, <2>1, <2>3 DEF ClearEx
<1>8. CASE LoadOrigin
  <2>1. /\ Stage(<<>>, <<>>, "getOrigin", "idle")
        /\ compound_protocol_ver = SettledVersion(chosen)
    BY <1>8 DEF LoadOrigin, Quiet
  <2>2. compound_protocol_ver' = SettledVersion(chosen)
    BY <1>8, <2>1 DEF LoadOrigin, compound_protocol_ver
  <2> QED BY <1>8, <2>1, <2>2 DEF LoadOrigin
<1>5. CASE LoadExtern
  <2>1. /\ Stage(<<>>, <<>>, "extern", "idle")
        /\ compound_protocol_ver = chosen /\ chosen \in cproVerList
    BY <1>5 DEF LoadExtern, Quiet
  <2>2. compound_protocol_ver' = SettledVersion(chosen)
    BY <1>5, <2>1 DEF LoadExtern, compound_protocol_ver, SettledVersion
  <2> QED BY <1>5, <2>1, <2>2 DEF LoadExtern
<1>6. CASE ClearFlag
  <2>1. /\ Stage(<<>>, <<>>, "clear", "idle")
        /\ compound_protocol_ver = SettledVersion(chosen)
    BY <1>6 DEF ClearFlag, Quiet
  <2>2. compound_protocol_ver' = SettledVersion(chosen)
    BY <1>6, <2>1 DEF ClearFlag, compound_protocol_ver
  <2> QED BY <1>6, <2>1, <2>2 DEF ClearFlag, Quiet
<1>7. CASE Poll \/ PollFails
  BY <1>7 DEF Poll, PollFails, Quiet, Recommending, compound_protocol_ver
<1> QED BY <1>1, <1>2, <1>3, <1>4, <1>5, <1>6, <1>7, <1>8 DEF WorkerNext

LEMMA ChangeGuiStep ==
  ASSUME Typed, ChangeFollows, GuiNext \/ EnvNext \/ UNCHANGED vars
  PROVE  ChangeFollows'
<1> SUFFICES ASSUME ~overlapped', chosen' # NoTable
             PROVE  ChangeFollows'
  BY DEF ChangeFollows
<1> USE DEF ChangeFollows, Stage, pollVars, workerVars, guiVars, envVars, sharedVars,
            histVars
<1>1. CASE \E p \in BMS_PROTOCOL : ChangeProtocol(p)
  BY <1>1 DEF ChangeProtocol
<1>2. ASSUME NEW v \in Picked, RunChange(v)
      PROVE  ChangeFollows'
  <2>1. Quiet
    BY <1>2 DEF RunChange
  <2>2. worker' = <<SET_CP(v)>>
    BY <1>2, <2>1 DEF RunChange, Post, Quiet
  <2> QED BY <1>2, <2>1, <2>2 DEF RunChange, Quiet
<1>3. CASE CpVerChanged
  <2>1. /\ Stage(<<>>, <<chosen>>, "idle", "idle")
        /\ compound_protocol_ver = chosen /\ exVerChangedFlag
    BY <1>3 DEF CpVerChanged, Quiet
  <2>2. events' = <<>> /\ worker' = <<SET_EXPRO>>
    BY <1>3, <2>1 DEF CpVerChanged, Reload
  <2> QED BY <1>3, <2>1, <2>2 DEF CpVerChanged, compound_protocol_ver
<1>4. CASE LookUpFails
  BY <1>4 DEF LookUpFails, Detects, Quiet, compound_protocol_ver
<1>5. CASE LookUp
  BY <1>5 DEF LookUp, Detects, Quiet, Recommending
<1>6. CASE SetEx
  <2>1. /\ Stage(<<>>, <<>>, "idle", "setEx")
        /\ Recommending = chosen /\ protocal_ver = Pro(chosen)
    BY <1>6 DEF SetEx, Quiet
  <2>2. chosen \in Nat /\ protocal_ver \in Nat
    BY <2>1 DEF Typed, TypeOK, Version
  <2>3. ex_ver' = chosen - 1000 * Pro(chosen)
    BY <1>6, <2>1, <2>2, ExAfterTyped DEF SetEx, Recommending
  <2>4. compound_protocol_ver' = chosen
    BY <1>6, <2>1, <2>2, <2>3, VersionParts DEF SetEx, compound_protocol_ver
  <2> QED BY <1>6, <2>1, <2>4 DEF SetEx
<1>7. CASE EmitChanged
  <2>1. Stage(<<>>, <<>>, "idle", "emit") /\ compound_protocol_ver = chosen
    BY <1>7 DEF EmitChanged, Quiet
  <2>2. worker' = <<SET_EXPRO>>
    BY <1>7, <2>1 DEF EmitChanged, Reload
  <2> QED BY <1>7, <2>1, <2>2 DEF EmitChanged, compound_protocol_ver, FlagAfterSet
<1>8. CASE EnvNext \/ UNCHANGED vars
  BY <1>8 DEF EnvNext, Unplug, Plug, vars, Quiet, Recommending, compound_protocol_ver
<1> QED BY <1>1, <1>2, <1>3, <1>4, <1>5, <1>6, <1>7, <1>8 DEF GuiNext

-----------------------------------------------------------------------------
(* The theorems.                                                             *)

\* The invariant is inductive: however the handlers of the two threads interleave,
\* each step keeps its five parts.
THEOREM Invariance == Spec => []IInv
<1>1. Init => IInv
  <2> SUFFICES ASSUME Init PROVE IInv
    OBVIOUS
  <2>1. DetectionAlone /\ ChangeFollows
    BY DEF Init, DetectionAlone, ChangeFollows
  <2>2. ReloadFollows /\ BoxFollows
    BY DEF Init, ReloadFollows, TableFits, BoxFollows
  <2> QED BY <2>1, <2>2, InitTyped DEF IInv
<1>2. IInv /\ [Next]_vars => IInv'
  <2> SUFFICES ASSUME IInv, [Next]_vars PROVE IInv'
    OBVIOUS
  <2>1. Typed' /\ DetectionAlone' /\ ReloadFollows'
    BY TypedStep, DetectionAloneStep, ReloadStep DEF IInv
  <2>2. BoxFollows' /\ ChangeFollows'
    BY BoxWorkerStep, BoxGuiStep, ChangeWorkerStep, ChangeGuiStep DEF IInv, Next
  <2> QED BY <2>1, <2>2 DEF IInv
<1> QED BY <1>1, <1>2, PTL DEF Spec

\* Every variable keeps its type; the extended version stays below 1000 unless a detection
\* began while a change was under way.
THEOREM TypeCorrect == Spec => []TypeOK
<1>1. IInv => TypeOK
  BY DEF IInv, Typed
<1> QED BY <1>1, Invariance, PTL

\* When setCompoundProtocolVer, cpVerChanged and Init() have come to rest, the node table
\* is the one of the version in use, whatever overlapped.
THEOREM TableRestsOnVersion == Spec => []TableFollowsVersion
<1>1. IInv => TableFollowsVersion
  <2> SUFFICES ASSUME IInv, Quiet PROVE TableFits
    BY DEF TableFollowsVersion, TableFits
  <2>1. ~ReloadPending
    BY EmptyQueue DEF Quiet, ReloadPending
  <2> QED BY <2>1 DEF IInv, ReloadFollows, Quiet
<1> QED BY <1>1, Invariance, PTL

\* The protocol box rests on the protocol in use, for any number of overlapping changes
\* of the user.
THEOREM BoxRestsOnVersion == Spec => []BoxShowsVersion
<1>1. IInv => BoxShowsVersion
  BY EmptyQueue DEF IInv, BoxFollows, BoxShowsVersion, Quiet
<1> QED BY <1>1, Invariance, PTL

\* A change that no other overlaps takes effect.
THEOREM ChangeSucceeds == Spec => []ChangeTakesEffect
<1>1. IInv => ChangeTakesEffect
  BY DEF IInv, ChangeFollows, ChangeTakesEffect, Quiet, Stage
<1> QED BY <1>1, Invariance, PTL

\* The file and the list in the code are kept apart.  What they must agree on: a
\* recommended table is recorded for its program, and is an extended table that exists
\* or the baseline of its protocol.  RecommendedTableExists proves it of VersionTable.
TablesKept ==
  \A v \in CmuVers :
    Recommended[v] # NoTable =>
      /\ Recommended[v] \in Recorded[v]
      /\ Recommended[v] \in cproVerList \/ Recommended[v] = Pro(Recommended[v]) * 1000

\* If they agree, a detection that nothing overlaps ends with a node table recorded for
\* the program of the CMU, for any programs, tables and protocols.
THEOREM DetectionFindsItsTable ==
  ASSUME TablesKept
  PROVE  Spec => []DetectedTableFits
<1>1. IInv => DetectedTableFits
  <2> SUFFICES ASSUME IInv, Quiet, ~overlapped, chosen # NoTable,
                      chosen = Recommended[verCache]
               PROVE  table.pro * 1000 + table.ex \in Recorded[verCache]
    BY DEF DetectedTableFits
  <2>1. compound_protocol_ver = SettledVersion(chosen)
    BY DEF IInv, ChangeFollows, Quiet, Stage
  <2>2. ~ReloadPending
    BY EmptyQueue DEF Quiet, ReloadPending
  <2>3. TableFits
    BY <2>2 DEF IInv, ReloadFollows, Quiet
  <2>4. verCache \in CmuVers
    BY DEF IInv, Typed, TypeOK
  <2>5. SettledVersion(chosen) = chosen /\ chosen \in Recorded[verCache]
    BY <2>4 DEF TablesKept, SettledVersion
  <2> QED BY <2>1, <2>3, <2>5 DEF TableFits, compound_protocol_ver
<1> QED BY <1>1, Invariance, PTL
=============================================================================
