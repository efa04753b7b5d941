----------------------------- MODULE ScanBatchMC -----------------------------
(* Address fields that list up to three CMUs, none of them twice; the empty   *)
(* list stands for a field that holds no valid address.                      *)
EXTENDS ScanBatch

CONSTANTS a, b, c, CMU, BMU

MCHosts    == {a, b, c}
MCSome     == {<<>>, <<a>>, <<a, b>>, <<a, b, c>>}
MCTwo      == {<<a, b>>}
MCFirmware == <<CMU, BMU>>
==============================================================================
