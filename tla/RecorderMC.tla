------------------------------ MODULE RecorderMC ------------------------------
(* An instance of Recorder for TLC: a passive protocol with the table whose   *)
(* titles and rows disagree, and an active one; sizes that fit, that do not   *)
(* fit and without a BMU; counts on both sides of the width of a counter.     *)
EXTENDS Recorder

MCVersions == {0, 4, 3001}
MCSizes == {[bmu |-> 1, vol |-> 1], [bmu |-> 1, vol |-> 3], [bmu |-> 0, vol |-> 1]}
MCMaxSizes == [bmu |-> 1, vol |-> 2]
=============================================================================
