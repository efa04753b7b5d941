----------------------------- MODULE TftpServer -----------------------------
(***************************************************************************)
(* The TFTP server from which CMUs take firmware and to which they send    *)
(* their files: class TFTPServer (3rdParty/qtftp/tftpserver.cpp).          *)
(*                                                                         *)
(* One thread serves all clients; a session belongs to one address and     *)
(* port.  On a faulty network datagrams may be lost, repeated and overtake *)
(* one another: the network is the set of the datagrams sent, and any of   *)
(* them may arrive any number of times, at any time, or never.  A good     *)
(* network delivers each of them once, and before a timeout.  A client     *)
(* (CMU firmware, not in this repository) takes a port of its own for each *)
(* transfer and follows RFC 1350.                                          *)
(*                                                                         *)
(* A file is its number of full blocks and whether a shorter rest follows; *)
(* the block after the full ones is the rest, or empty.  A DATA datagram   *)
(* carries the number of the block of the file whose bytes are in it       *)
(* (chunk) beside the block number of its header (block).                  *)
(*                                                                         *)
(* The main window replaces the server by one with another address when a  *)
(* view shows a CMU that asks for it (MainUI::changeTftpServerIp).  It     *)
(* stops the old one from its own thread, without waiting for the handler  *)
(* that may be running in the server's.                                    *)
(***************************************************************************)
EXTENDS Integers, Sequences

CONSTANTS
  Clients,
  Requests,       \* what a client may ask for
  Retries,        \* TFTP_RETRIES
  MaxFull,        \* largest size / blksize served, 65533
  Wrap,           \* numbers a block number of a datagram can have, 2^16
  RetryBound,     \* bound: DATA out of turn counted in a session
  ChangeBound,    \* bound: changes of the server's address
  NoSession

Request == [op: {"read", "write"},
            valid: BOOLEAN,      \* well formed, mode octet, file can be opened
            opt: BOOLEAN,        \* with a blksize or tsize option
            full: Nat, rest: BOOLEAN]

ASSUME ConstantsAssumption ==
  /\ Requests \subseteq Request
  /\ Retries \in Nat \ {0}
  /\ MaxFull \in Nat
  /\ Wrap \in Nat
  /\ MaxFull + 2 < Wrap
  /\ RetryBound \in Nat /\ ChangeBound \in Nat
  /\ NoSession \notin [file: {"closed", "reading", "writing"}, block: Int,
                       retry: Nat, timer: BOOLEAN, pos: Nat, full: Nat,
                       rest: BOOLEAN]

VARIABLES
  \* the server: a session per client, the files it received, the outcome it
  \* notified last
  sess, wrote, told,
  \* the network, and whether it loses, repeats or delays datagrams
  toServer, toClient, faulty,
  \* the clients: the request of each, its progress, the next block it awaits
  \* (of a writer: the block it sent last), what it received
  asked, phase, expect, got,
  \* the server is bound to its address; changes of the address
  serving, changes,
  \* history: a data block was sent again on a timeout; a stop of the server fell
  \* into an upload, or into the handling of a datagram or a timeout of the client
  resent, cut

serverVars  == <<sess, wrote, told, resent>>
networkVars == <<toServer, toClient>>
clientVars  == <<phase, expect, got>>
lifeVars    == <<serving, changes, cut>>
vars == <<serverVars, networkVars, clientVars, asked, faulty, lifeVars>>

Session == [file: {"closed", "reading", "writing"}, block: Int, retry: Nat,
            timer: BOOLEAN, pos: Nat, full: Nat, rest: BOOLEAN]

Datagram == [kind: {"RRQ", "WRQ", "DATA", "ACK", "ERR", "OACK"},
             block: Nat, chunk: Nat, last: BOOLEAN]
Pkt(kind, block) ==
  [kind |-> kind, block |-> block % Wrap, chunk |-> 0, last |-> FALSE]
Data(block, chunk, last) ==
  [kind |-> "DATA", block |-> block % Wrap, chunk |-> chunk, last |-> last]
Err == Pkt("ERR", 0)

Init ==
  /\ asked \in [Clients -> Requests]
  /\ sess = [c \in Clients |-> NoSession]
  /\ wrote = [c \in Clients |-> <<>>]
  /\ told = [c \in Clients |-> "nothing"]
  /\ toServer = [c \in Clients |-> {}]
  /\ toClient = [c \in Clients |-> {}]
  /\ phase = [c \in Clients |-> "idle"]
  /\ expect = [c \in Clients |-> 0]
  /\ got = [c \in Clients |-> <<>>]
  /\ resent = [c \in Clients |-> FALSE]
  /\ faulty \in BOOLEAN
  /\ serving \in IF faulty THEN BOOLEAN ELSE {TRUE}
  /\ changes = 0
  /\ cut = [c \in Clients |-> FALSE]

-----------------------------------------------------------------------------
\* What a handler does with a session: the session it leaves, the datagrams
\* it sends, the outcome it notifies (fileTransferFinished).

Result(s, sent, outcome) == [sess |-> s, sent |-> sent, told |-> outcome]
Keeps(s)  == Result(s, {}, "nothing")
Fails(s)  == Result(s, {Err}, "FAILED")              \* reportError

\* The session of a datagram from an address the server does not know.
Fresh == [file |-> "closed", block |-> -1, retry |-> 0, timer |-> FALSE,
          pos |-> 0, full |-> 0, rest |-> FALSE]

\* offset > requestedFileSize.  The offset is computed in 32 bits without a
\* sign, so that of block -1 (an error was sent) is past every file.
Past(s) == s.block = -1 \/ s.block - 1 > s.full

\* read() returns as many bytes as block s.block has.
CanRead(s) ==
  IF s.block - 1 < s.full THEN s.pos < s.full ELSE s.pos = s.full \/ ~s.rest

\* The file position after it: read() goes on where the last one stopped.
Advanced_FromBlock(s) == s.block - 2
Advanced_Kept(s) == s.pos
Advanced(s) ==
  IF s.block - 1 < s.full \/ s.rest THEN s.pos + 1 ELSE s.pos

SendCurrentBlock(s) ==
  CASE s.block = 0 ->
         Result([s EXCEPT !.timer = TRUE], {Pkt("OACK", 0)}, "nothing")
    [] s.block # 0 /\ Past(s) -> Result(NoSession, {}, "OK")
    [] s.block # 0 /\ ~Past(s) /\ ~CanRead(s) -> Fails(NoSession)
    [] s.block # 0 /\ ~Past(s) /\ CanRead(s) ->
         Result([s EXCEPT !.timer = TRUE, !.pos = Advanced(s)],
                {Data(s.block, s.pos + 1, s.block - 1 = s.full)}, "nothing")

TooLarge(r) == r.full > MaxFull

\* A request resets the session, whatever it was doing.
ReadRequest(s, r) ==
  LET asks   == [Fresh EXCEPT !.timer = TRUE, !.full = s.full, !.rest = s.rest]
      opened == [asks EXCEPT !.file = "reading",
                             !.full = r.full, !.rest = r.rest]
  IN CASE ~r.valid -> Fails(asks)
       [] r.valid /\ (TooLarge(r) \/ (r.full = 0 /\ ~r.rest)) -> Fails(opened)
       [] r.valid /\ ~TooLarge(r) /\ (r.full # 0 \/ r.rest) ->
            SendCurrentBlock([opened EXCEPT !.block = IF r.opt THEN 0 ELSE 1])

\* No timer guards a write session.
WriteRequest(s, r) ==
  LET asks == [Fresh EXCEPT !.full = s.full, !.rest = s.rest]
  IN IF r.valid
     THEN Result([asks EXCEPT !.file = "writing", !.block = 1],
                 {Pkt("ACK", 0)}, "nothing")
     ELSE Fails(asks)

\* DATA is written when it is the block the session awaits.
InTurn_Any(s, p) == s.file = "writing"
InTurn(s, p) == p.block = s.block
Writes(s, p) == InTurn(s, p) /\ s.retry <= Retries

EndsUpload(p) == p.last

DataBlock(s, p) ==
  CASE ~InTurn(s, p) -> Keeps([s EXCEPT !.retry = s.retry + 1])
    [] InTurn(s, p) /\ s.retry > Retries -> Keeps(s)
    [] Writes(s, p) ->
         Result(IF EndsUpload(p) THEN NoSession
                ELSE [s EXCEPT !.block = s.block + 1],
                {Pkt("ACK", s.block)},
                IF EndsUpload(p) THEN "OK" ELSE "nothing")

Acknowledges_Any(s, p) == s.block # -1
Acknowledges_DataOnly(s, p) == s.block > 0 /\ p.block = s.block
Acknowledges(s, p) == s.block # -1 /\ p.block = s.block

Ack(s, p) ==
  IF Acknowledges(s, p)
  THEN SendCurrentBlock([s EXCEPT !.retry = 0, !.block = s.block + 1])
  ELSE Keeps(s)

Retried_Uncounted(s) == s
Retried(s) == [s EXCEPT !.retry = s.retry + 1]

-----------------------------------------------------------------------------
SessionOf(c) == IF sess[c] = NoSession THEN Fresh ELSE sess[c]

Apply(c, result) ==
  /\ sess' = [sess EXCEPT ![c] = result.sess]
  /\ told' = [told EXCEPT ![c] =
                IF result.told = "nothing" THEN told[c] ELSE result.told]
  /\ toClient' = [toClient EXCEPT ![c] = @ \cup result.sent]

\* A datagram arrives.  On a good network it does so once.
Arrives(c, p) ==
  /\ serving /\ p \in toServer[c]
  /\ toServer' = [toServer EXCEPT ![c] = IF faulty THEN @ ELSE @ \ {p}]
  /\ UNCHANGED <<clientVars, asked, faulty, resent, lifeVars>>

ReceiveRRQ(c, p) ==
  /\ p.kind = "RRQ" /\ Arrives(c, p)
  /\ Apply(c, ReadRequest(SessionOf(c), asked[c]))
  /\ UNCHANGED wrote

\* Opening the file for writing empties it.
ReceiveWRQ(c, p) ==
  /\ p.kind = "WRQ" /\ Arrives(c, p)
  /\ Apply(c, WriteRequest(SessionOf(c), asked[c]))
  /\ wrote' = [wrote EXCEPT ![c] = IF asked[c].valid THEN <<>> ELSE @]

ReceiveData(c, p) ==
  LET s == SessionOf(c) IN
  /\ p.kind = "DATA" /\ Arrives(c, p)
  /\ s.retry < RetryBound
  /\ Apply(c, DataBlock(s, p))
  /\ wrote' = [wrote EXCEPT ![c] =
                 IF Writes(s, p) THEN Append(@, p.chunk) ELSE @]

ReceiveAck(c, p) ==
  /\ p.kind = "ACK" /\ Arrives(c, p)
  /\ Apply(c, Ack(SessionOf(c), p))
  /\ UNCHANGED wrote

\* Anything else, the ERROR of a client that gives up too.
ReceiveOther(c, p) ==
  /\ p.kind = "ERR" /\ Arrives(c, p)
  /\ Apply(c, Fails(NoSession))
  /\ UNCHANGED wrote

ReadyRead(c) ==
  \E p \in toServer[c] :
    \/ ReceiveRRQ(c, p) \/ ReceiveWRQ(c, p) \/ ReceiveData(c, p)
    \/ ReceiveAck(c, p) \/ ReceiveOther(c, p)

\* On a good network the answer is there before the timeout, unless none will come:
\* the client is done, or was refused.
Unanswered(c) ==
  \/ faulty
  \/ toServer[c] = {} /\ (phase[c] # "active" \/ Err \in toClient[c])

\* The session timer (5 s).
Timeout(c) ==
  /\ Unanswered(c)
  /\ sess[c] # NoSession
  /\ sess[c].timer
  /\ LET s == Retried(sess[c]) IN
     IF s.retry < Retries
     THEN /\ Apply(c, SendCurrentBlock(s))
          /\ resent' = [resent EXCEPT ![c] = @ \/ s.block > 0]
     ELSE /\ Apply(c, Result(NoSession, {}, "FAILED"))
          /\ UNCHANGED resent
  /\ UNCHANGED <<wrote, toServer, clientVars, asked, faulty, lifeVars>>

-----------------------------------------------------------------------------
\* The server stops (stopServer) while the handler of a client's session runs.
\* reset closes the file of the session and sets its currentBlock to -1: the
\* handler has ended before, does nothing more, or goes on with what it finds, a
\* closed file and a block number that is past every file or, counted on, that of
\* an OACK.

Stopped(sent, outcome) == Result(NoSession, sent, outcome)
Ended(r) == Stopped(r.sent, r.told)

CutRequest(r) ==
  {Ended(r), Fails(NoSession), Stopped({Pkt("OACK", 0)}, "nothing"), Stopped({}, "OK")}

\* The end of an upload is notified whether its last block was written or not.
CutData(r, p) ==
  {Ended(r), Stopped({Pkt("ACK", Wrap - 1)}, IF EndsUpload(p) THEN "OK" ELSE "nothing")}

CutResults(c, p) ==
  LET s == SessionOf(c) IN
  CASE p.kind = "RRQ" -> CutRequest(ReadRequest(s, asked[c]))
    [] p.kind = "WRQ" -> {Ended(WriteRequest(s, asked[c]))}
    [] p.kind = "ACK" /\ Acknowledges(s, p) -> CutRequest(Ack(s, p))
    [] p.kind = "DATA" /\ Writes(s, p) -> CutData(DataBlock(s, p), p)
    [] OTHER -> {}

CutTimeout(c) ==
  IF sess[c] # NoSession /\ sess[c].timer
  THEN {Stopped({}, outcome) : outcome \in {"OK", "FAILED"}} \cup {Fails(NoSession)}
  ELSE {}

\* What the file of an upload holds after such a handler.
CutWrote(c, p) ==
  {wrote[c]} \cup
  CASE p.kind = "WRQ" /\ asked[c].valid -> {<<>>}
    [] p.kind = "DATA" /\ Writes(SessionOf(c), p) -> {Append(wrote[c], p.chunk)}
    [] OTHER -> {}

\* Its outcome is told, its datagrams are sent; every session is gone.
Uploading(c) == sess[c] # NoSession /\ sess[c].file = "writing"
CutShort(c, r) ==
  /\ told' = [told EXCEPT ![c] = IF r.told = "nothing" THEN @ ELSE r.told]
  /\ toClient' = [toClient EXCEPT ![c] = @ \cup r.sent]
  /\ cut' = [d \in Clients |-> cut[d] \/ d = c \/ Uploading(d)]

StopServer ==
  \/ /\ cut' = [c \in Clients |-> cut[c] \/ Uploading(c)]
     /\ UNCHANGED <<told, toClient, wrote>>
  \/ /\ serving
     /\ \E c \in Clients :
          \/ \E p \in toServer[c] :
               /\ \E r \in CutResults(c, p) : CutShort(c, r)
               /\ \E w \in CutWrote(c, p) : wrote' = [wrote EXCEPT ![c] = w]
          \/ /\ \E r \in CutTimeout(c) : CutShort(c, r)
             /\ UNCHANGED wrote

\* changeTftpServerIp: the new server may fail to bind its address.
ChangeServerIp ==
  /\ faulty /\ changes < ChangeBound
  /\ changes' = changes + 1
  /\ StopServer
  /\ sess' = [c \in Clients |-> NoSession]
  /\ serving' \in BOOLEAN
  /\ UNCHANGED <<toServer, clientVars, asked, faulty, resent>>

-----------------------------------------------------------------------------
\* The client.  Sending a datagram again adds nothing to the network.

Send(c, p) == toServer' = [toServer EXCEPT ![c] = @ \cup {p}]

\* A writer's block: the full ones, then the rest.
FileBlock(c, b) == Data(b, b, b - 1 = asked[c].full)

Ask(c) ==
  /\ phase[c] = "idle"
  /\ phase' = [phase EXCEPT ![c] = "active"]
  /\ IF asked[c].op = "read"
     THEN Send(c, Pkt("RRQ", 0)) /\ expect' = [expect EXCEPT ![c] = 1]
     ELSE Send(c, Pkt("WRQ", 0)) /\ UNCHANGED expect
  /\ UNCHANGED <<serverVars, toClient, got, asked, faulty, lifeVars>>

TakeOack(c) ==
  /\ phase[c] = "active" /\ asked[c].op = "read"
  /\ expect[c] = 1 /\ Pkt("OACK", 0) \in toClient[c]
  /\ Pkt("ACK", 0) \notin toServer[c]
  /\ Send(c, Pkt("ACK", 0))
  /\ toClient' = [toClient EXCEPT ![c] =
                    IF faulty THEN @ ELSE @ \ {Pkt("OACK", 0)}]
  /\ UNCHANGED <<serverVars, clientVars, asked, faulty, lifeVars>>

TakeData(c) ==
  \E p \in toClient[c] :
    /\ phase[c] = "active" /\ asked[c].op = "read"
    /\ p.kind = "DATA" /\ p.block = expect[c] % Wrap
    /\ got' = [got EXCEPT ![c] = Append(@, p.chunk)]
    /\ expect' = [expect EXCEPT ![c] = @ + 1]
    /\ phase' = [phase EXCEPT ![c] = IF p.last THEN "done" ELSE @]
    /\ Send(c, Pkt("ACK", p.block))
    /\ UNCHANGED <<serverVars, toClient, asked, faulty, lifeVars>>

TakeAck(c) ==
  /\ phase[c] = "active" /\ asked[c].op = "write"
  /\ Pkt("ACK", expect[c]) \in toClient[c]
  /\ toClient' = [toClient EXCEPT ![c] =
                    IF faulty THEN @ ELSE @ \ {Pkt("ACK", expect[c])}]
  /\ IF expect[c] = asked[c].full + 1
     THEN /\ phase' = [phase EXCEPT ![c] = "done"]
          /\ UNCHANGED <<expect, toServer>>
     ELSE /\ Send(c, FileBlock(c, expect[c] + 1))
          /\ expect' = [expect EXCEPT ![c] = @ + 1]
          /\ UNCHANGED phase
  /\ UNCHANGED <<serverVars, got, asked, faulty, lifeVars>>

\* The server refused, or the client gives up; it may say so.
GiveUp(c) ==
  /\ phase[c] = "active"
  /\ faulty \/ Err \in toClient[c]
  /\ phase' = [phase EXCEPT ![c] = "gone"]
  /\ Send(c, Err) \/ UNCHANGED toServer
  /\ UNCHANGED <<serverVars, toClient, expect, got, asked, faulty, lifeVars>>

\* A client may also take no notice of the refusal, and ask again.
AskAgain(c) ==
  /\ phase[c] = "active"
  /\ Err \in toClient[c]
  /\ Send(c, Pkt(IF asked[c].op = "read" THEN "RRQ" ELSE "WRQ", 0))
  /\ UNCHANGED <<serverVars, toClient, clientVars, asked, faulty, lifeVars>>

ClientStep(c) ==
  \/ Ask(c) \/ TakeOack(c) \/ TakeData(c) \/ TakeAck(c)
  \/ GiveUp(c) \/ AskAgain(c)

Next ==
  \/ \E c \in Clients : ReadyRead(c) \/ Timeout(c) \/ ClientStep(c)
  \/ ChangeServerIp

Spec == Init /\ [][Next]_vars

\* The server's event loop fires the timers that are due.  On a good network it
\* handles what arrives too, and the client answers what it receives; on a faulty
\* one nothing need ever arrive.
FairSpec ==
  /\ Spec
  /\ \A c \in Clients :
       /\ WF_vars(Timeout(c))
       /\ WF_vars(~faulty /\ ReadyRead(c))
       /\ WF_vars(~faulty /\ (Ask(c) \/ TakeOack(c) \/ TakeData(c) \/ TakeAck(c)))

-----------------------------------------------------------------------------
TypeOK ==
  /\ asked \in [Clients -> Requests]
  /\ sess \in [Clients -> Session \cup {NoSession}]
  /\ wrote \in [Clients -> Seq(Nat)]
  /\ told \in [Clients -> {"nothing", "OK", "FAILED"}]
  /\ toServer \in [Clients -> SUBSET Datagram]
  /\ toClient \in [Clients -> SUBSET Datagram]
  /\ phase \in [Clients -> {"idle", "active", "done", "gone"}]
  /\ expect \in [Clients -> Nat]
  /\ got \in [Clients -> Seq(Nat)]
  /\ resent \in [Clients -> BOOLEAN]
  /\ {faulty, serving} \subseteq BOOLEAN
  /\ changes \in 0 .. ChangeBound
  /\ cut \in [Clients -> BOOLEAN]

\* A request the server can serve.  The size of an upload is not checked: from
\* block Wrap on its blocks are never in turn.
Servable(r) ==
  /\ r.valid
  /\ IF r.op = "read" THEN r.full <= MaxFull /\ (r.full # 0 \/ r.rest)
                      ELSE r.full + 1 < Wrap

InOrder(chunks) == \A i \in 1 .. Len(chunks) : chunks[i] = i

\* What a client receives are the blocks of the file in their order, whatever
\* the network loses, repeats or delays and whenever the request itself comes
\* again, as long as no timeout made the server send a block again: the server
\* reads the file from its position, never by block number.
CleanCopy == \A c \in Clients : ~resent[c] => InOrder(got[c])

\* When the server notifies that a file it agreed to send was transferred, the
\* client has received every block of it, the empty or short last one included,
\* also when the server was replaced in the middle of the transfer; but not when
\* its handler was running just then: that may notify success at any block.
SuccessMeansReceived ==
  \A c \in Clients :
    told[c] = "OK" /\ asked[c].op = "read" /\ Servable(asked[c]) /\ ~cut[c]
      => phase[c] = "done" /\ Len(got[c]) = asked[c].full + 1

\* A file a client sends is written block by block in its order, whenever the server
\* is replaced; when the server notifies its transfer it is complete, and stays so
\* while no WRQ of the same client asks to write it again (a late one empties it); but
\* not when the server was replaced in the middle of it.  It has at most as many blocks
\* as there are numbers: else, after a late WRQ, a block takes another's place.
UploadComplete ==
  \A c \in Clients :
    asked[c].op = "write" /\ asked[c].full < Wrap =>
      /\ InOrder(wrote[c])
      /\ told[c] = "OK" /\ ~cut[c] /\ ~Uploading(c)
           => Len(wrote[c]) = asked[c].full + 1

\* The server never forgets a transfer it agreed to send half way: once its
\* client and the network fall silent, every session that has a timer ends.
SessionEnds ==
  \A c \in Clients :
    <>[][~ReadyRead(c)]_vars
      => [](sess[c] # NoSession /\ sess[c].timer => <>(sess[c] = NoSession))

\* On a network that delivers every datagram once, in any order, and within the
\* session timeout, a servable request ends in success on both sides, and the
\* copy is the file.
Completes ==
  \A c \in Clients :
    ~faulty /\ Servable(asked[c]) =>
      <>(/\ phase[c] = "done" /\ told[c] = "OK" /\ sess[c] = NoSession
         /\ LET copy == IF asked[c].op = "read" THEN got[c] ELSE wrote[c]
            IN InOrder(copy) /\ Len(copy) = asked[c].full + 1)

\* "timed out; resending the block" (tftpserver.cpp:488): what goes out on a
\* timeout is the block the session waits for.
ResendsTheBlock ==
  \A c \in Clients : \A p \in toClient[c] :
    p.kind = "DATA" => p.chunk = p.block
=============================================================================
