-------------------------- MODULE VersionScan_proofs --------------------------
(***************************************************************************)
(* Proofs about VersionScan, for every version a CMU can report and not    *)
(* only for those at the ends of the ranges: what the scan computes, and   *)
(* that the tables it names are tables the program has.                    *)
(***************************************************************************)
EXTENDS VersionScan, TLAPS

\* The scan stands at an entry of the file or behind them all, has passed only
\* ranges that do not hold the version, and takes its table from one that does.
Position ==
  /\ cmu_ver \in Int /\ itor \in 1 .. Len(CMUver) + 1
  /\ \A j \in 1 .. itor - 1 : ~Holds(CMUver[j], cmu_ver)
Taken ==
  table # Unrecorded => First(cmu_ver, itor) /\ table = CMUver[itor].table
IInv == Position /\ Taken

\* The scan that has ended has found what findPreVer stands for in the other modules.
FindsPreVer == Done => table = findPreVer(cmu_ver)

-----------------------------------------------------------------------------
(* The file.                                                                 *)

LEMMA Length == Len(CMUver) = 27 /\ DOMAIN CMUver = 1 .. 27
BY DEF CMUver

LEMMA Entries ==
  \A i \in DOMAIN CMUver :
    /\ CMUver[i].min \in Int /\ CMUver[i].max \in Int
    /\ CMUver[i].table \in ShippedTables \cup {0}
BY DEF CMUver, Entry, verToUint, ShippedTables

\* At most one range is the first that holds a version.
LEMMA FirstUnique ==
  ASSUME NEW v \in Int, NEW i, NEW j, First(v, i), First(v, j)
  PROVE  i = j
<1>1. i \in 1 .. 27 /\ j \in 1 .. 27
  BY Length DEF First
<1>2. i < j \/ j < i \/ i = j
  BY <1>1
<1>3. CASE i < j
  <2>1. i \in 1 .. j - 1
    BY <1>1, <1>3
  <2> QED BY <2>1 DEF First
<1>4. CASE j < i
  <2>1. j \in 1 .. i - 1
    BY <1>1, <1>4
  <2> QED BY <2>1 DEF First
<1> QED BY <1>2, <1>3, <1>4

LEMMA FirstFound ==
  ASSUME NEW v \in Int, NEW i, First(v, i)
  PROVE  CMUver[i].table \in Candidates(v) /\ findPreVer(v) = CMUver[i].table
<1>1. i \in DOMAIN CMUver /\ Holds(CMUver[i], v)
  BY DEF First
<1>2. CMUver[i].table \in Candidates(v)
  BY <1>1 DEF Candidates
<1>3. (CHOOSE k \in DOMAIN CMUver : First(v, k)) = i
  BY <1>1, FirstUnique
<1> QED BY <1>2, <1>3 DEF findPreVer

\* Among the ranges that hold a version there is a first one.
LEMMA FirstExists ==
  ASSUME NEW v \in Int, Candidates(v) # {}
  PROVE  \E i \in DOMAIN CMUver : First(v, i)
<1> DEFINE H(k) == Holds(CMUver[k], v)
<1>1. PICK i \in 1 .. 27 : H(i)
  BY Length DEF Candidates
<1> HIDE DEF H
<1>2. \E k \in 1 .. 27 : H(k) /\ \A j \in 1 .. k - 1 : ~H(j)
  BY <1>1
<1>3. PICK k \in 1 .. 27 : H(k) /\ \A j \in 1 .. k - 1 : ~H(j)
  BY <1>2
<1> QED BY <1>3, Length DEF First, H
-----------------------------------------------------------------------------
(* The scan.                                                                 *)

LEMMA InitHolds == ASSUME Versions \subseteq Int PROVE Init => IInv
BY Length DEF Init, IInv, Position, Taken

LEMMA StepHolds == IInv /\ [Next]_vars => IInv'
<1> SUFFICES ASSUME IInv, [Next]_vars PROVE IInv'
  OBVIOUS
<1> USE DEF IInv, Position, Taken, First
<1>1. CASE Step
  <2>1. CASE Holds(CMUver[itor], cmu_ver)
    BY <1>1, <2>1, Length DEF Step
  <2>2. CASE ~Holds(CMUver[itor], cmu_ver)
    <3>1. /\ itor' = itor + 1 /\ itor <= Len(CMUver)
          /\ table' = Unrecorded /\ cmu_ver' = cmu_ver
      BY <1>1, <2>2 DEF Step
    <3>2. \A j \in 1 .. itor' - 1 : j \in 1 .. itor - 1 \/ j = itor
      BY <3>1, Length
    <3> QED BY <2>2, <3>1, <3>2, Length
  <2> QED BY <2>1, <2>2
<1>2. CASE UNCHANGED vars
  BY <1>2 DEF vars
<1> QED BY <1>1, <1>2 DEF Next

LEMMA EndHolds == IInv => FindsPreVer
<1> SUFFICES ASSUME IInv, Done PROVE table = findPreVer(cmu_ver)
  BY DEF FindsPreVer
<1> USE DEF IInv, Position, Taken
<1>1. CASE table # Unrecorded
  BY <1>1, FirstFound
<1>2. CASE table = Unrecorded
  <2>1. itor > Len(CMUver)
    BY <1>2 DEF Done
  <2>2. \A j \in DOMAIN CMUver : ~Holds(CMUver[j], cmu_ver)
    BY <2>1, Length
  <2>3. Candidates(cmu_ver) = {}
    BY <2>2 DEF Candidates
  <2> QED BY <1>2, <2>3 DEF findPreVer
<1> QED BY <1>1, <1>2
-----------------------------------------------------------------------------
(* The theorems.                                                             *)

\* For every version a CMU reports the scan of findPreVer ends with the table of the
\* first range that holds the version, or with none if there is no such range.
THEOREM ScanIsRight ==
  ASSUME Versions \subseteq Int
  PROVE  Spec => []FindsPreVer
BY InitHolds, StepHolds, EndHolds, PTL DEF Spec

\* The file findPreVer reads and ShippedTables are kept apart and must agree: whatever
\* a CMU reports, a table is recommended exactly if a range of CMUver.txt holds the
\* version; it is the table of such a range, and one that Init() loads as it is,
\* extended or baseline 0.
THEOREM RecommendedTableExists ==
  \A v \in Int :
    IF Candidates(v) = {} THEN findPreVer(v) = Unrecorded
    ELSE findPreVer(v) \in Candidates(v) /\ findPreVer(v) \in ShippedTables \cup {0}
<1> SUFFICES ASSUME NEW v \in Int, Candidates(v) # {}
             PROVE  findPreVer(v) \in Candidates(v) \cap (ShippedTables \cup {0})
  BY DEF findPreVer
<1>1. PICK i \in DOMAIN CMUver : First(v, i)
  BY FirstExists
<1> QED BY <1>1, FirstFound, Entries
=============================================================================
