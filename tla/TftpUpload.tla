----------------------------- MODULE TftpUpload -----------------------------
(***************************************************************************)
(* The tool uploading a firmware file to the TFTP server of another        *)
(* computer that runs the tool (scan_settings, "upload"): the client       *)
(* Qtftp::client_put (3rdParty/qtftp/Qtftp.cpp) composed with the server   *)
(* of module TftpServer.                                                   *)
(*                                                                         *)
(* client_put runs in a thread of its own and blocks: it sends a datagram  *)
(* and looks up to RETRIES times, a second each, for the ACK it awaits; it *)
(* does so up to RETRIES times.                                            *)
(***************************************************************************)
EXTENDS Integers, Sequences

\* Of TftpServer.
CONSTANTS
  Clients, Requests, Retries, MaxFull, Wrap, RetryBound, ChangeBound, NoSession

Upload == [op: {"write"}, valid: BOOLEAN, opt: BOOLEAN, full: Nat, rest: BOOLEAN]

\* client_put divides by the full blocks of the file.  The ACK awaited after the last
\* try of the last block must not wrap: it would be one sent for an early block.
ASSUME UploadsAssumption ==
  /\ ChangeBound = 0
  /\ Retries \in Nat \ {0} /\ Wrap \in Nat \ {0}
  /\ Requests \subseteq Upload
  /\ \A r \in Requests : r.full > 0 /\ r.full + Retries < Wrap

VARIABLES
  sess, wrote, told, resent, toServer, toClient, faulty, asked, \* of TftpServer
  \* client_put: where it is, the block number in its buffer, the one whose ACK
  \* it awaits, the datagrams sent and the looks taken for this block
  step, header, awaited, attempt, looks

putVars == <<step, header, awaited, attempt, looks>>
vars == <<sess, wrote, told, resent, toServer, toClient, faulty, asked, putVars>>

\* The client of RFC 1350 that client_put implements: expect is the block sent
\* last.  The server stays the one it is.
Phase == [c \in Clients |->
            CASE step[c] = "start"   -> "idle"
              [] step[c] = "waiting" -> "active"
              [] step[c] = "ok"      -> "done"
              [] step[c] = "failed"  -> "gone"]
Tftp == INSTANCE TftpServer
          WITH phase <- Phase, expect <- header, got <- [c \in Clients |-> <<>>],
               serving <- ChangeBound = 0, changes <- 0, cut <- [c \in Clients |-> FALSE]

Init ==
  /\ step = [c \in Clients |-> "start"]
  /\ header = [c \in Clients |-> 0]
  /\ awaited = [c \in Clients |-> 0]
  /\ attempt = [c \in Clients |-> 0]
  /\ looks = [c \in Clients |-> 0]
  /\ Tftp!Init

-----------------------------------------------------------------------------
\* The datagram in the buffer: the WRQ, then the block read last.
Buffer(c) ==
  IF header[c] = 0 THEN Tftp!Pkt("WRQ", 0) ELSE Tftp!FileBlock(c, header[c])

serverVars == <<sess, wrote, told, resent, toClient, faulty, asked>>

Put(c) ==
  /\ step[c] = "start"
  /\ step' = [step EXCEPT ![c] = "waiting"]
  /\ Tftp!Send(c, Buffer(c))
  /\ UNCHANGED <<serverVars, header, awaited, attempt, looks>>

\* while (readed == SEGSIZE): a file of full blocks ends with an empty one.
LastSent_AtEnd(c) ==
  header[c] = IF asked[c].rest THEN asked[c].full + 1 ELSE asked[c].full
LastSent(c) == header[c] = asked[c].full + 1

\* waitForAck returns true: the next block is read and sent, or that was all.
IsAwaited_Any(c, p) == p.kind = "ACK"
IsAwaited_Next(c, p) == p = Tftp!Pkt("ACK", awaited[c] + 1)
IsAwaited(c, p) == p = Tftp!Pkt("ACK", awaited[c])

AckArrives(c) ==
  /\ step[c] = "waiting"
  /\ \E p \in toClient[c] : IsAwaited(c, p)
  /\ attempt' = [attempt EXCEPT ![c] = 0]
  /\ looks' = [looks EXCEPT ![c] = 0]
  /\ toClient' = [toClient EXCEPT ![c] =
                    IF faulty THEN @ ELSE @ \ {Tftp!Pkt("ACK", awaited[c])}]
  /\ IF LastSent(c)
     THEN /\ step' = [step EXCEPT ![c] = "ok"]
          /\ UNCHANGED <<header, awaited, toServer>>
     ELSE LET next == awaited[c] + 1 IN
          /\ header' = [header EXCEPT ![c] = next]
          /\ awaited' = [awaited EXCEPT ![c] = next]
          /\ Tftp!Send(c, Tftp!FileBlock(c, next))
          /\ UNCHANGED step
  /\ UNCHANGED <<sess, wrote, told, resent, faulty, asked>>

\* A look finds nothing, or a datagram that is not the one awaited: on a good
\* network only after the server has refused.
Unanswered(c) == faulty \/ Tftp!Err \in toClient[c]

LooksLeft_OneMore(c) == looks[c] < Retries
LooksLeft(c) == looks[c] + 1 < Retries

Looked_Uncounted(c) == looks[c]
Looked(c) == looks[c] + 1

LookFails(c) ==
  /\ Unanswered(c)
  /\ step[c] = "waiting"
  /\ LooksLeft(c)
  /\ looks' = [looks EXCEPT ![c] = Looked(c)]
  /\ UNCHANGED <<serverVars, toServer, step, header, awaited, attempt>>

\* The last look fails: the buffer is sent again, but waitForAck(block++) has
\* moved the ACK it awaits on by one, also when the block was not acknowledged.
AwaitedNext(c) == IF header[c] = 0 THEN 0 ELSE (awaited[c] + 1) % Wrap

SendAgain(c) ==
  /\ Unanswered(c)
  /\ step[c] = "waiting"
  /\ ~LooksLeft(c)
  /\ attempt[c] + 1 < Retries
  /\ looks' = [looks EXCEPT ![c] = 0]
  /\ attempt' = [attempt EXCEPT ![c] = @ + 1]
  /\ awaited' = [awaited EXCEPT ![c] = AwaitedNext(c)]
  /\ Tftp!Send(c, Buffer(c))
  /\ UNCHANGED <<serverVars, step, header>>

\* fileSent(Timeout, ...).  The client leaves without an ERROR datagram.
Abandon(c) ==
  /\ Unanswered(c)
  /\ step[c] = "waiting"
  /\ ~LooksLeft(c)
  /\ attempt[c] + 1 >= Retries
  /\ step' = [step EXCEPT ![c] = "failed"]
  /\ UNCHANGED <<serverVars, toServer, header, awaited, attempt, looks>>

ClientPut(c) ==
  Put(c) \/ AckArrives(c) \/ LookFails(c) \/ SendAgain(c) \/ Abandon(c)

ServerStep(c) == UNCHANGED putVars /\ (Tftp!ReadyRead(c) \/ Tftp!Timeout(c))

Next == \E c \in Clients : ClientPut(c) \/ ServerStep(c)

Spec == Init /\ [][Next]_vars

\* The thread of the client runs, its socket waits a second at most; the server
\* handles what arrives.
FairSpec == Spec /\ \A c \in Clients : WF_vars(ClientPut(c)) /\ WF_vars(ServerStep(c))

-----------------------------------------------------------------------------
\* client_put and the server together behave as a client of RFC 1350 and the
\* server do: resending, and awaiting the wrong ACK, never makes it accept or
\* send a block out of turn.
RefinesTftp == Tftp!Spec

\* When the uploading side reports success the receiving side has reported it
\* too, so the file was complete.
OkOnBothSides == \A c \in Clients : step[c] = "ok" => told[c] = "OK"

\* An upload ends, with success or with a timeout, whatever the network does.
PutEnds == \A c \in Clients : <>(step[c] \in {"ok", "failed"})

\* On a network that loses nothing an upload the server accepts ends in success
\* on both sides, and the file is complete.
PutSucceeds ==
  \A c \in Clients : ~faulty /\ asked[c].valid =>
    <>(step[c] = "ok" /\ told[c] = "OK" /\ Len(wrote[c]) = asked[c].full + 1)
=============================================================================
