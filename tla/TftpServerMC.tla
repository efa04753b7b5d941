---------------------------- MODULE TftpServerMC ----------------------------
(* Requests for small files: an empty one, those of one and two blocks of    *)
(* each shape, the largest one served and one block more; with and without   *)
(* options; one that is refused; uploads of each shape, one that is refused  *)
(* and one whose block numbers do not fit a datagram.                        *)
EXTENDS TftpServer

MCRead(full, rest, opt) ==
  [op |-> "read", valid |-> TRUE, opt |-> opt, full |-> full, rest |-> rest]
MCWrite(full, rest, valid) ==
  [op |-> "write", valid |-> valid, opt |-> FALSE, full |-> full, rest |-> rest]

MCRequests ==
  {MCRead(full, rest, opt) : full \in 0 .. MaxFull + 1, rest \in BOOLEAN,
                             opt \in BOOLEAN}
  \cup {[MCRead(1, TRUE, FALSE) EXCEPT !.valid = FALSE]}
  \cup {MCWrite(full, rest, TRUE) : full \in 0 .. 2, rest \in BOOLEAN}
  \cup {MCWrite(1, TRUE, FALSE), MCWrite(Wrap - 1, FALSE, TRUE)}
=============================================================================
