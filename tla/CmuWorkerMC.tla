----------------------------- MODULE CmuWorkerMC -----------------------------
(* An instance of CmuWorker for TLC: two addresses with two ports each, a CMU *)
(* behind two of the four.  No symmetry: it checks liveness.                  *)
EXTENDS CmuWorker

CONSTANTS ip1, ip2, p1, p2

MCIps   == {ip1, ip2}
MCPorts == {p1, p2}
MCCmus  == {<<ip1, p1>>, <<ip2, p2>>}
=============================================================================
