------------------------------ MODULE RegPlanMC ------------------------------
(* Small tables with addresses on both sides of the two limits of JudgeReg:  *)
(* 10 registers to the neighbour, 110 or 120 registers a message.            *)
EXTENDS RegPlan

CONSTANTS MCAddrs, MCLength

Reg(type, addr, len) == [type |-> type, addr |-> addr, len |-> len]

\* Ascending tables of any nodes at these addresses.
MCNodes == {Reg(4, addr, len) : addr \in MCAddrs, len \in {1, 2}}
           \cup {Reg(3, 9, 1), Reg(3, 108, 1), Reg(NONE_REG, 0, 1)}
MCSorted == {t \in UNION {[1 .. n -> MCNodes] : n \in 0 .. MCLength} : Sorted(t)}

\* A baseline table in ascending order, in which a second message begins at 109,
\* and behind it one row of an extended table (getExternNode sorts nothing).
MCBase == [i \in 1 .. 14 |-> Reg(4, IF i <= 12 THEN 9 * (i - 1)
                                    ELSE IF i = 13 THEN 107 ELSE 109, 1)]
MCExtended == {Append(MCBase, Reg(4, addr, 1)) : addr \in MCAddrs}
=============================================================================
