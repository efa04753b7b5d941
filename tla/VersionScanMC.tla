---------------------------- MODULE VersionScanMC ----------------------------
(* The versions where an answer can change: the ends of the ranges and the   *)
(* versions next to them.                                                    *)
EXTENDS VersionScan

MCVersions ==
  UNION {{e.min - 1, e.min, e.max, e.max + 1} :
           e \in {CMUver[i] : i \in DOMAIN CMUver}}
=============================================================================
