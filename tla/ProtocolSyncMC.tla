---------------------------- MODULE ProtocolSyncMC ----------------------------
(* An instance of ProtocolSync for TLC: the protocols 0 and 1 with the tables *)
(* of VersionTable, and two programs: 00.00.02.FF, for which CMUver.txt has a *)
(* single table, and 02.00.04.E0, for which it has two.                       *)
EXTENDS ProtocolSync, TLC

VT == INSTANCE VersionTable

MCNoTable == -1
MCSingle  == 767
MCTwofold == 33555680
MCCmuVers == {MCSingle, MCTwofold}
MCcproVerList == {v \in VT!ShippedTables : Pro(v) \in BMS_PROTOCOL}
MCVersions == {0, 1000, 1003} \cup MCcproVerList
MCPicked == {4, 1003} \cap MCcproVerList

\* What VersionTable computes, written out so that TLC computes it once.
MCRecommended == (MCSingle :> 4) @@ (MCTwofold :> 1003) @@ (Unread :> MCNoTable)
MCRecorded == (MCSingle :> {4}) @@ (MCTwofold :> {1003, 1004}) @@ (Unread :> {})

ASSUME FromVersionTable ==
  /\ MCNoTable = VT!Unrecorded
  /\ MCSingle = VT!verToUint(0, 0, 2, 255) /\ MCTwofold = VT!verToUint(2, 0, 4, 224)
  /\ MCRecommended = [v \in CmuVers \cup {Unread} |-> VT!findPreVer(v)]
  /\ MCRecorded = [v \in CmuVers \cup {Unread} |-> VT!Candidates(v)]
=============================================================================
