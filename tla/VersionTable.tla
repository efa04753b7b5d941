----------------------------- MODULE VersionTable -----------------------------
(***************************************************************************)
(* Which node table belongs to which CMU: the resource CMUver.txt as       *)
(* BMSView::findPreVer uses it, and the tables the program has.            *)
(*                                                                         *)
(* A table (protocol version) is a number, 1000 times the protocol plus    *)
(* the extended version, as in the code.  The file is modelled as the      *)
(* sequence in which the scan meets its ranges: by key, since the code     *)
(* puts the lines into a QMap, and then in the order of the line.          *)
(***************************************************************************)
EXTENDS Integers, Sequences

\* Four bytes of a version, most significant first.
verToUint(a, b, c, d) == ((a * 256 + b) * 256 + c) * 256 + d

Entry(t, a, b, c, lo, hi) ==
  [table |-> t, min |-> verToUint(a, b, c, lo), max |-> verToUint(a, b, c, hi)]

CMUver == <<
  Entry(   0,  0,  0, 1,   0, 255), Entry(   0,  4,  1, 0,   0, 255),
  Entry(   0,  5,  1, 0,   0, 255), Entry(   0,  3,  1, 0,   0, 255),
  Entry(   1,  0,  0, 4,   1,   4),
  Entry(   2,  0,  0, 4,   5, 255), Entry(   2, 96,  3, 1,   0,   5),
  Entry(   3, 96,  3, 1,   6, 255),
  Entry(   4,  0,  0, 2,   0, 255), Entry(   4, 67,  0, 4,   0, 255),
  Entry(1001,  2,  0, 4,   0,  41), Entry(1001,  2,  0, 8,   0, 255),
  Entry(1002,  2,  0, 4,  48,  52),
  Entry(1003,  2,  0, 4,  53,  96), Entry(1003,  2,  0, 4, 224, 255),
  Entry(1003,  2, 96, 4,   0, 255),
  Entry(1004,  2,  0, 4,  97, 255),
  Entry(1300,  2,  0, 6,   0, 255), Entry(1300,  2,  1, 6,   0, 255),
  Entry(2000,  3,  0, 4,   0, 255),
  Entry(3001,  2,  2, 5,   0, 255), Entry(3001,  6,  0, 4,   0, 255),
  Entry(3001,  2,  1, 4,   0, 255), Entry(3001,  8,  0, 0,   0,   1),
  Entry(3002,  8,  0, 0,   2, 255),
  Entry(3300,  8,  1, 0,   0, 255), Entry(3300,  8,  5, 0,   0, 255) >>

\* The tables that exist, besides the baseline of each protocol (cproVerList).
ShippedTables_Short ==
  {1, 2, 3, 4, 1000, 1001, 1002, 1004, 1300, 2000, 3001, 3002, 3300}
ShippedTables ==
  {1, 2, 3, 4, 1000, 1001, 1002, 1003, 1004, 1300, 2000, 3001, 3002, 3300}

\* No range holds the version.
Unrecorded == -1

Holds(e, ver) == ver >= e.min /\ ver <= e.max

\* The tables the file gives for a version: more than one where ranges overlap.
Candidates(ver) ==
  {CMUver[i].table : i \in {j \in DOMAIN CMUver : Holds(CMUver[j], ver)}}

\* The table the scan takes: that of the first range that holds the version.
First(ver, i) ==
  i \in DOMAIN CMUver /\ Holds(CMUver[i], ver)
    /\ \A j \in 1 .. i - 1 : ~Holds(CMUver[j], ver)
findPreVer(ver) ==
  IF Candidates(ver) = {} THEN Unrecorded
  ELSE CMUver[CHOOSE i \in DOMAIN CMUver : First(ver, i)].table
=============================================================================
