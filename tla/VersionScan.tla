----------------------------- MODULE VersionScan -----------------------------
(***************************************************************************)
(* BMSView::findPreVer step by step: the ranges of CMUver.txt are looked   *)
(* at in turn, and the first that holds the version of the CMU decides.    *)
(***************************************************************************)
EXTENDS VersionTable

CONSTANT Versions    \* the versions a CMU may report: numbers of 32 bits

VARIABLES cmu_ver,     \* the version the CMU reports
          itor,        \* the entry the scan looks at
          table        \* the recommended table, or Unrecorded

vars == <<cmu_ver, itor, table>>

Init == cmu_ver \in Versions /\ itor = 1 /\ table = Unrecorded

Step ==
  /\ table = Unrecorded /\ itor <= Len(CMUver)
  /\ IF Holds(CMUver[itor], cmu_ver)
     THEN table' = CMUver[itor].table /\ itor' = itor
     ELSE itor' = itor + 1 /\ table' = table
  /\ UNCHANGED cmu_ver

Done == table # Unrecorded \/ itor > Len(CMUver)

Next == Step \/ (Done /\ UNCHANGED vars)

Spec == Init /\ [][Next]_vars

-----------------------------------------------------------------------------
\* "如有交叉，按照点表版本更高适配" (other/verHelp.txt:24, where ranges overlap the
\* higher version of the node table is taken): of the tables whose ranges hold the
\* version, findPreVer takes the highest.
HigherTableOnOverlap ==
  Done => \A t \in Candidates(cmu_ver) : t <= table
=============================================================================
