-------------------------- MODULE TftpServer_proofs --------------------------
(***************************************************************************)
(* Proofs about TftpServer, for any clients, requests and sizes of files,  *)
(* and for any number of retries and of replacements of the server.        *)
(***************************************************************************)
EXTENDS TftpServer, SequenceTheorems, TLAPS

USE ConstantsAssumption

Kinds == {"RRQ", "WRQ", "DATA", "ACK", "ERR", "OACK"}
Outcomes == {"nothing", "OK", "FAILED"}
Results == [sess: Session \cup {NoSession}, sent: SUBSET Datagram, told: Outcomes]

Reading(c) == asked[c].op = "read"

\* A block on its way to a client that asked for r, after rs: a block was sent again.
\* Its number and whether it is the last are right in any case.
BlockFits(p, r, rs) ==
  p.kind = "DATA" =>
    /\ Servable(r) /\ p.block \in 1 .. r.full + 1
    /\ p.last <=> p.block = r.full + 1
    /\ ~rs => p.chunk = p.block

\* A session that sends: the file has been read up to the block sent last.
SessionFits(s, r, rs) ==
  /\ s.block = -1 => (s.timer => ~Servable(r))
  /\ s.block # -1 =>
       /\ Servable(r) /\ s.block \in 0 .. r.full + 1 /\ s.timer
       /\ s.full = r.full /\ s.rest = r.rest
       /\ ~rs => s.pos = IF s.block <= r.full \/ r.rest THEN s.block ELSE r.full

\* A reader has what it took, block by block, and acknowledged no more.
ReaderFits(c) ==
  Reading(c) =>
    /\ phase[c] = "idle" => got[c] = <<>>
    /\ phase[c] # "idle" => expect[c] = Len(got[c]) + 1
    /\ Len(got[c]) <= asked[c].full + 1
    /\ phase[c] = "done" <=> Len(got[c]) = asked[c].full + 1
    /\ ~resent[c] => InOrder(got[c])
    /\ \A p \in toServer[c] :
         p.kind \in {"RRQ", "ERR"} \/ (p.kind = "ACK" /\ p.block <= Len(got[c]))
BlocksFit(c) ==
  Reading(c) => \A p \in toClient[c] : BlockFits(p, asked[c], resent[c])
SendingFits(c) ==
  Reading(c) /\ sess[c] # NoSession => SessionFits(sess[c], asked[c], resent[c])
SuccessFits(c) ==
  Reading(c) /\ told[c] = "OK" /\ Servable(asked[c]) /\ ~cut[c] => phase[c] = "done"

\* A writer's block under way, and what an upload has written.
PartFits(p, r) ==
  /\ p.kind \in {"WRQ", "DATA", "ERR"}
  /\ p.kind = "DATA" =>
       /\ p.chunk \in 1 .. r.full + 1 /\ p.block = p.chunk % Wrap
       /\ p.last <=> p.chunk = r.full + 1
WriterFits(c) ==
  ~Reading(c) =>
    /\ got[c] = <<>> /\ expect[c] <= asked[c].full + 1
    /\ \A p \in toServer[c] : PartFits(p, asked[c])
UploadFits(s, w) ==
  /\ ~s.timer
  /\ s.file = "writing" => s.block = Len(w) + 1
  /\ s.file # "writing" => s.block = -1
WritingFits(c) ==
  ~Reading(c) =>
    /\ sess[c] # NoSession => UploadFits(sess[c], wrote[c])
    /\ asked[c].full < Wrap =>
         /\ InOrder(wrote[c])
         /\ told[c] = "OK" /\ ~cut[c] /\ ~Uploading(c) => Len(wrote[c]) = asked[c].full + 1

Fits(c) ==
  /\ ReaderFits(c) /\ BlocksFit(c) /\ SendingFits(c) /\ SuccessFits(c)
  /\ WriterFits(c) /\ WritingFits(c)
IInv == TypeOK /\ \A c \in Clients : Fits(c)
-----------------------------------------------------------------------------
(* Datagrams, and what the handlers make of a session.                       *)

LEMMA Numbers ==
  ASSUME NEW n \in Int
  PROVE  n % Wrap \in 0 .. Wrap - 1 /\ (n \in 0 .. Wrap - 1 => n % Wrap = n)
<1>1. n % Wrap \in 0 .. Wrap - 1
  OBVIOUS
<1>2. ASSUME n \in 0 .. Wrap - 1 PROVE n % Wrap = n
  BY <1>2
<1> QED BY <1>1, <1>2

LEMMA Packets ==
  ASSUME NEW kind \in Kinds, NEW n \in Int
  PROVE  /\ Pkt(kind, n) \in Datagram /\ Pkt(kind, n).kind = kind
         /\ Pkt(kind, n).block = n % Wrap
BY Numbers DEF Pkt, Datagram, Kinds

LEMMA Blocks ==
  ASSUME NEW n \in Int, NEW k \in Nat, NEW b \in BOOLEAN
  PROVE  /\ Data(n, k, b) \in Datagram /\ Data(n, k, b).kind = "DATA"
         /\ Data(n, k, b).block = n % Wrap /\ Data(n, k, b).chunk = k
         /\ Data(n, k, b).last = b
BY Numbers DEF Data, Datagram

LEMMA ErrPacket == Err \in Datagram /\ Err.kind = "ERR"
BY Packets DEF Err, Kinds

LEMMA Sessions ==
  /\ Fresh \in Session /\ Fresh.file = "closed" /\ Fresh.block = -1 /\ Fresh.retry = 0
  /\ Fresh.timer = FALSE /\ Fresh.pos = 0
  /\ \A s \in Session : s # NoSession
BY DEF Session, Fresh

LEMMA Sends ==
  ASSUME NEW s \in Session
  PROVE  LET r == SendCurrentBlock(s) IN
         /\ r \in Results
         /\ s.block = 0 =>
              r = Result([s EXCEPT !.timer = TRUE], {Pkt("OACK", 0)}, "nothing")
         /\ s.block # 0 /\ Past(s) => r = Result(NoSession, {}, "OK")
         /\ s.block # 0 /\ ~Past(s) =>
              \/ r = Fails(NoSession)
              \/ /\ CanRead(s)
                 /\ r = Result([s EXCEPT !.timer = TRUE, !.pos = Advanced(s)],
                               {Data(s.block, s.pos + 1, s.block - 1 = s.full)}, "nothing")
<1>1. /\ s.block \in Int /\ s.pos \in Nat /\ s.full \in Nat /\ s.rest \in BOOLEAN
      /\ [s EXCEPT !.timer = TRUE] \in Session
  BY DEF Session
<1>2. Advanced(s) \in Nat
  BY <1>1 DEF Advanced
<1>3. [s EXCEPT !.timer = TRUE, !.pos = Advanced(s)] \in Session
  BY <1>2 DEF Session
<1>4. /\ Pkt("OACK", 0) \in Datagram
      /\ Data(s.block, s.pos + 1, s.block - 1 = s.full) \in Datagram
  <2>1. (s.block - 1 = s.full) \in BOOLEAN /\ s.pos + 1 \in Nat
    BY <1>1
  <2>2. Data(s.block, s.pos + 1, s.block - 1 = s.full) \in Datagram
    BY <1>1, <2>1, Blocks
  <2> QED BY <2>2, Packets DEF Kinds
<1>5. Fails(NoSession) \in Results
  BY ErrPacket DEF Fails, Result, Results, Outcomes
<1>6. Result(NoSession, {}, "OK") \in Results
  BY DEF Result, Results, Outcomes
<1>7. Result([s EXCEPT !.timer = TRUE], {Pkt("OACK", 0)}, "nothing") \in Results
  BY <1>1, <1>4 DEF Result, Results, Outcomes
<1>8. Result([s EXCEPT !.timer = TRUE, !.pos = Advanced(s)],
             {Data(s.block, s.pos + 1, s.block - 1 = s.full)}, "nothing") \in Results
  BY <1>3, <1>4 DEF Result, Results, Outcomes
<1>9. CASE s.block = 0
  BY <1>7, <1>9 DEF SendCurrentBlock
<1>10. CASE s.block # 0 /\ Past(s)
  BY <1>6, <1>10 DEF SendCurrentBlock
<1>11. CASE s.block # 0 /\ ~Past(s) /\ ~CanRead(s)
  BY <1>5, <1>11 DEF SendCurrentBlock
<1>12. CASE s.block # 0 /\ ~Past(s) /\ CanRead(s)
  BY <1>8, <1>12 DEF SendCurrentBlock
<1> QED BY <1>9, <1>10, <1>11, <1>12
LEMMA ResultTyped ==
  ASSUME NEW s \in Session \cup {NoSession}, NEW sent \in SUBSET Datagram,
         NEW told_ \in Outcomes
  PROVE  Result(s, sent, told_) \in Results
BY DEF Result, Results

LEMMA ReadRequestTyped ==
  ASSUME NEW s \in Session, NEW r \in Requests
  PROVE  ReadRequest(s, r) \in Results
<1> DEFINE asks == [Fresh EXCEPT !.timer = TRUE, !.full = s.full, !.rest = s.rest]
           opened == [asks EXCEPT !.file = "reading", !.full = r.full, !.rest = r.rest]
           starts == [opened EXCEPT !.block = IF r.opt THEN 0 ELSE 1]
<1>1. r.full \in Nat /\ r.rest \in BOOLEAN /\ r.valid \in BOOLEAN
  BY DEF Request
<1>2. asks \in Session
  BY Sessions DEF Session
<1>3. opened \in Session
  BY <1>1, <1>2 DEF Session
<1>4. starts \in Session
  <2> HIDE DEF opened
  <2>1. (IF r.opt THEN 0 ELSE 1) \in Int
    OBVIOUS
  <2> QED BY <1>3, <2>1 DEF Session
<1>5. Fails(asks) \in Results /\ Fails(opened) \in Results
  BY <1>2, <1>3, ErrPacket DEF Fails, Result, Results, Outcomes
<1>6. SendCurrentBlock(starts) \in Results
  BY <1>4, Sends
<1>7. ReadRequest(s, r) \in {Fails(asks), Fails(opened), SendCurrentBlock(starts)}
  BY <1>1 DEF ReadRequest
<1> HIDE DEF asks, opened, starts
<1> QED BY <1>5, <1>6, <1>7

LEMMA WriteRequestTyped ==
  ASSUME NEW s \in Session, NEW r \in Requests
  PROVE  WriteRequest(s, r) \in Results
<1> DEFINE asks == [Fresh EXCEPT !.full = s.full, !.rest = s.rest]
<1>1. asks \in Session /\ [asks EXCEPT !.file = "writing", !.block = 1] \in Session
  <2>1. asks \in Session
    BY Sessions DEF Session
  <2> HIDE DEF asks
  <2>2. ASSUME NEW f \in {"closed", "reading", "writing"}, NEW b \in Int
        PROVE  [asks EXCEPT !.file = f, !.block = b] \in Session
    BY <2>1 DEF Session
  <2>3. "writing" \in {"closed", "reading", "writing"} /\ 1 \in Int
    OBVIOUS
  <2> QED BY <2>1, <2>2, <2>3, Zenon
<1>2. Pkt("ACK", 0) \in Datagram /\ Err \in Datagram
  BY Packets, ErrPacket DEF Kinds
<1>3. /\ Result([asks EXCEPT !.file = "writing", !.block = 1], {Pkt("ACK", 0)}, "nothing")
           \in Results
      /\ Fails(asks) \in Results
  BY <1>1, <1>2 DEF Fails, Result, Results, Outcomes
<1> HIDE DEF asks
<1> QED BY <1>3 DEF WriteRequest, asks

LEMMA DataBlockTyped ==
  ASSUME NEW s \in Session, NEW p \in Datagram
  PROVE  DataBlock(s, p) \in Results
<1>1. /\ [s EXCEPT !.retry = s.retry + 1] \in Session
      /\ [s EXCEPT !.block = s.block + 1] \in Session
      /\ s.block \in Int
  BY DEF Session
<1>2. Pkt("ACK", s.block) \in Datagram
  BY <1>1, Packets DEF Kinds
<1>3. CASE ~InTurn(s, p)
  <2>1. DataBlock(s, p) = Keeps([s EXCEPT !.retry = s.retry + 1])
    BY <1>3 DEF DataBlock, Writes
  <2> QED BY <1>1, <2>1, ResultTyped DEF Keeps, Outcomes
<1>4. CASE InTurn(s, p) /\ s.retry > Retries
  <2>1. ~Writes(s, p)
    BY <1>4 DEF Writes, Session
  <2>2. DataBlock(s, p) = Keeps(s)
    BY <1>4, <2>1 DEF DataBlock
  <2> QED BY <2>2, ResultTyped DEF Keeps, Outcomes
<1>5. CASE InTurn(s, p) /\ ~(s.retry > Retries)
  <2>1. Writes(s, p)
    BY <1>5 DEF Writes, Session
  <2>2. DataBlock(s, p) =
          Result(IF EndsUpload(p) THEN NoSession ELSE [s EXCEPT !.block = s.block + 1],
                 {Pkt("ACK", s.block)}, IF EndsUpload(p) THEN "OK" ELSE "nothing")
    BY <1>5, <2>1 DEF DataBlock
  <2> QED BY <1>1, <1>2, <2>2, ResultTyped DEF Outcomes
<1> QED BY <1>3, <1>4, <1>5

LEMMA AckTyped ==
  ASSUME NEW s \in Session, NEW p \in Datagram
  PROVE  Ack(s, p) \in Results
<1>1. [s EXCEPT !.retry = 0, !.block = s.block + 1] \in Session
  <2>1. s.block + 1 \in Int
    BY DEF Session
  <2> QED BY <2>1 DEF Session
<1>2. SendCurrentBlock([s EXCEPT !.retry = 0, !.block = s.block + 1]) \in Results
  BY <1>1, Sends
<1>3. Keeps(s) \in Results
  BY ResultTyped DEF Keeps, Outcomes
<1> QED BY <1>2, <1>3 DEF Ack
-----------------------------------------------------------------------------
(* Types.                                                                    *)

LEMMA ClientTyped ==
  ASSUME TypeOK, NEW c \in Clients
  PROVE  /\ asked[c] \in Requests /\ asked[c] \in Request
         /\ SessionOf(c) \in Session /\ (sess[c] # NoSession => sess[c] \in Session)
         /\ wrote[c] \in Seq(Nat) /\ told[c] \in Outcomes
         /\ toServer[c] \subseteq Datagram /\ toClient[c] \subseteq Datagram
         /\ phase[c] \in {"idle", "active", "done", "gone"}
         /\ expect[c] \in Nat /\ got[c] \in Seq(Nat)
         /\ resent[c] \in BOOLEAN /\ cut[c] \in BOOLEAN
<1>1. SessionOf(c) \in Session /\ (sess[c] # NoSession => sess[c] \in Session)
  BY Sessions DEF TypeOK, SessionOf
<1> QED BY <1>1 DEF TypeOK, Outcomes

\* What Apply changes is of one client.
LEMMA Applied ==
  ASSUME TypeOK, NEW c \in Clients, NEW r \in Results, Apply(c, r)
  PROVE  /\ sess' \in [Clients -> Session \cup {NoSession}]
         /\ told' \in [Clients -> {"nothing", "OK", "FAILED"}]
         /\ toClient' \in [Clients -> SUBSET Datagram]
         /\ sess'[c] = r.sess /\ toClient'[c] = toClient[c] \cup r.sent
         /\ told'[c] = "OK" => told[c] = "OK" \/ r.told = "OK"
         /\ r.told = "nothing" => told'[c] = told[c]
         /\ r.told # "nothing" => told'[c] = r.told
         /\ \A d \in Clients \ {c} :
              sess'[d] = sess[d] /\ told'[d] = told[d] /\ toClient'[d] = toClient[d]
<1>1. /\ r.sess \in Session \cup {NoSession} /\ r.sent \subseteq Datagram
      /\ r.told \in Outcomes
  BY DEF Results
<1>2. /\ sess' \in [Clients -> Session \cup {NoSession}]
      /\ sess'[c] = r.sess /\ \A d \in Clients \ {c} : sess'[d] = sess[d]
  BY <1>1 DEF Apply, TypeOK
<1>3. /\ toClient' \in [Clients -> SUBSET Datagram]
      /\ toClient'[c] = toClient[c] \cup r.sent
      /\ \A d \in Clients \ {c} : toClient'[d] = toClient[d]
  BY <1>1 DEF Apply, TypeOK
<1>4. /\ told' \in [Clients -> {"nothing", "OK", "FAILED"}]
      /\ told'[c] = IF r.told = "nothing" THEN told[c] ELSE r.told
      /\ \A d \in Clients \ {c} : told'[d] = told[d]
  BY <1>1 DEF Apply, TypeOK, Outcomes
<1> QED BY <1>2, <1>3, <1>4

\* The handler of a datagram has one of these results.
LEMMA Received ==
  ASSUME TypeOK, NEW c \in Clients, ReadyRead(c)
  PROVE  \E p \in toServer[c] : \E r \in Results :
           /\ Arrives(c, p) /\ Apply(c, r) /\ p \in Datagram
           /\ \/ /\ p.kind = "RRQ" /\ r = ReadRequest(SessionOf(c), asked[c])
                 /\ wrote' = wrote
              \/ /\ p.kind = "WRQ" /\ r = WriteRequest(SessionOf(c), asked[c])
                 /\ wrote' = [wrote EXCEPT ![c] = IF asked[c].valid THEN <<>> ELSE @]
              \/ /\ p.kind = "DATA" /\ r = DataBlock(SessionOf(c), p)
                 /\ wrote' = [wrote EXCEPT ![c] = IF Writes(SessionOf(c), p)
                                                  THEN Append(@, p.chunk) ELSE @]
              \/ p.kind = "ACK" /\ r = Ack(SessionOf(c), p) /\ wrote' = wrote
              \/ p.kind = "ERR" /\ r = Fails(NoSession) /\ wrote' = wrote
<1> DEFINE s == SessionOf(c)
<1>1. s \in Session /\ asked[c] \in Requests /\ toServer[c] \subseteq Datagram
  BY ClientTyped
<1> HIDE DEF s
<1>2. /\ ReadRequest(s, asked[c]) \in Results /\ WriteRequest(s, asked[c]) \in Results
      /\ Fails(NoSession) \in Results
  BY <1>1, ReadRequestTyped, WriteRequestTyped, ResultTyped, ErrPacket DEF Fails, Outcomes
<1>3. \A p \in toServer[c] : DataBlock(s, p) \in Results /\ Ack(s, p) \in Results
  BY <1>1, DataBlockTyped, AckTyped
<1>4. PICK p \in toServer[c] :
        \/ ReceiveRRQ(c, p) \/ ReceiveWRQ(c, p) \/ ReceiveData(c, p)
        \/ ReceiveAck(c, p) \/ ReceiveOther(c, p)
  BY DEF ReadyRead
<1>5. CASE ReceiveRRQ(c, p)
  BY <1>1, <1>2, <1>5 DEF ReceiveRRQ, s
<1>6. CASE ReceiveWRQ(c, p)
  BY <1>1, <1>2, <1>6 DEF ReceiveWRQ, s
<1>7. CASE ReceiveData(c, p)
  BY <1>1, <1>3, <1>7 DEF ReceiveData, s
<1>8. CASE ReceiveAck(c, p)
  BY <1>1, <1>3, <1>8 DEF ReceiveAck, s
<1>9. CASE ReceiveOther(c, p)
  BY <1>1, <1>2, <1>9 DEF ReceiveOther
<1> QED BY <1>4, <1>5, <1>6, <1>7, <1>8, <1>9

LEMMA ReadyReadTyped ==
  ASSUME TypeOK, NEW c \in Clients, ReadyRead(c)
  PROVE  TypeOK'
<1>1. PICK p \in toServer[c], r \in Results :
        /\ Arrives(c, p) /\ Apply(c, r) /\ p \in Datagram
        /\ \/ wrote' = wrote
           \/ wrote' = [wrote EXCEPT ![c] = IF asked[c].valid THEN <<>> ELSE @]
           \/ wrote' = [wrote EXCEPT ![c] = IF Writes(SessionOf(c), p)
                                            THEN Append(@, p.chunk) ELSE @]
  BY Received
<1>2. wrote' \in [Clients -> Seq(Nat)]
  <2>1. wrote \in [Clients -> Seq(Nat)] /\ wrote[c] \in Seq(Nat) /\ p.chunk \in Nat
    BY <1>1 DEF TypeOK, Datagram
  <2>2. <<>> \in Seq(Nat) /\ Append(wrote[c], p.chunk) \in Seq(Nat)
    BY <2>1, EmptySeq, AppendProperties
  <2>3. CASE wrote' = wrote
    BY <2>1, <2>3
  <2>4. CASE wrote' = [wrote EXCEPT ![c] = IF asked[c].valid THEN <<>> ELSE @]
    BY <2>1, <2>2, <2>4
  <2>5. CASE wrote' = [wrote EXCEPT ![c] = IF Writes(SessionOf(c), p)
                                           THEN Append(@, p.chunk) ELSE @]
    BY <2>1, <2>2, <2>5
  <2> QED BY <1>1, <2>3, <2>4, <2>5
<1>3. toServer' \in [Clients -> SUBSET Datagram]
  BY <1>1 DEF Arrives, TypeOK
<1>4. /\ sess' \in [Clients -> Session \cup {NoSession}]
      /\ told' \in [Clients -> {"nothing", "OK", "FAILED"}]
      /\ toClient' \in [Clients -> SUBSET Datagram]
  BY <1>1, Applied
<1> QED BY <1>1, <1>2, <1>3, <1>4 DEF Arrives, TypeOK, clientVars, lifeVars
LEMMA TimeoutTyped ==
  ASSUME TypeOK, NEW c \in Clients, Timeout(c)
  PROVE  /\ TypeOK' /\ sess[c] \in Session /\ sess[c].timer /\ sess[c] # NoSession
         /\ \E r \in Results :
              /\ Apply(c, r)
              /\ \/ /\ Retried(sess[c]) \in Session
                    /\ r = SendCurrentBlock(Retried(sess[c]))
                    /\ resent' = [resent EXCEPT ![c] = @ \/ Retried(sess[c]).block > 0]
                 \/ r = Result(NoSession, {}, "FAILED") /\ resent' = resent
<1> DEFINE s == Retried(sess[c])
<1>1. sess[c] # NoSession /\ sess[c].timer /\ sess[c] \in Session
  BY ClientTyped DEF Timeout
<1>2. s \in Session
  BY <1>1 DEF Retried, Session
<1>3. SendCurrentBlock(s) \in Results /\ Result(NoSession, {}, "FAILED") \in Results
  BY <1>2, Sends, ResultTyped DEF Outcomes
<1>4. \E r \in Results :
        /\ Apply(c, r)
        /\ \/ /\ r = SendCurrentBlock(s)
              /\ resent' = [resent EXCEPT ![c] = @ \/ s.block > 0]
           \/ r = Result(NoSession, {}, "FAILED") /\ resent' = resent
  <2> HIDE DEF s
  <2>1. \/ /\ Apply(c, SendCurrentBlock(s))
           /\ resent' = [resent EXCEPT ![c] = @ \/ s.block > 0]
        \/ Apply(c, Result(NoSession, {}, "FAILED")) /\ resent' = resent
    BY DEF Timeout, s
  <2> QED BY <1>3, <2>1
<1>5. PICK r \in Results : Apply(c, r)
  BY <1>4
<1>6. /\ sess' \in [Clients -> Session \cup {NoSession}]
      /\ told' \in [Clients -> {"nothing", "OK", "FAILED"}]
      /\ toClient' \in [Clients -> SUBSET Datagram]
  BY <1>5, Applied
<1>7. resent' \in [Clients -> BOOLEAN]
  BY <1>4 DEF TypeOK
<1>8. TypeOK'
  BY <1>6, <1>7 DEF TypeOK, Timeout, clientVars, lifeVars
<1> QED BY <1>1, <1>2, <1>4, <1>8

\* What a stop of the server leaves behind in the handling of a client's datagram.
LEMMA CutTyped ==
  ASSUME TypeOK, NEW c \in Clients
  PROVE  /\ \A p \in toServer[c] :
              CutResults(c, p) \subseteq Results /\ CutWrote(c, p) \subseteq Seq(Nat)
         /\ CutTimeout(c) \subseteq Results
<1> DEFINE s == SessionOf(c)
<1>1. s \in Session /\ asked[c] \in Requests /\ toServer[c] \subseteq Datagram
      /\ wrote[c] \in Seq(Nat)
  BY ClientTyped
<1>2. ASSUME NEW r \in Results PROVE Ended(r) \in Results
  BY <1>2 DEF Ended, Stopped, Result, Results
<1>3. /\ Fails(NoSession) \in Results
      /\ Stopped({Pkt("OACK", 0)}, "nothing") \in Results
      /\ Stopped({}, "OK") \in Results /\ Stopped({}, "FAILED") \in Results
  <2>1. Pkt("OACK", 0) \in Datagram /\ Err \in Datagram
    BY ErrPacket, Packets DEF Kinds
  <2>2. Fails(NoSession) \in Results
    BY <2>1, ResultTyped DEF Fails, Outcomes
  <2>3. Stopped({Pkt("OACK", 0)}, "nothing") \in Results
    BY <2>1, ResultTyped DEF Stopped, Outcomes
  <2>4. Stopped({}, "OK") \in Results /\ Stopped({}, "FAILED") \in Results
    BY ResultTyped DEF Stopped, Outcomes
  <2> QED BY <2>2, <2>3, <2>4
<1>4. ASSUME NEW r \in Results PROVE CutRequest(r) \subseteq Results
  BY <1>2, <1>3 DEF CutRequest
<1>5. ASSUME NEW p \in toServer[c], NEW r \in Results PROVE CutData(r, p) \subseteq Results
  <2>1. Pkt("ACK", Wrap - 1) \in Datagram
    BY Packets DEF Kinds
  <2>2. Stopped({Pkt("ACK", Wrap - 1)}, IF EndsUpload(p) THEN "OK" ELSE "nothing")
          \in Results
    BY <2>1, ResultTyped DEF Stopped, Outcomes
  <2> QED BY <1>2, <2>2 DEF CutData
<1>6. ASSUME NEW p \in toServer[c]
      PROVE  CutResults(c, p) \subseteq Results /\ CutWrote(c, p) \subseteq Seq(Nat)
  <2> HIDE DEF s
  <2>1. /\ CutRequest(ReadRequest(s, asked[c])) \subseteq Results
        /\ Ended(WriteRequest(s, asked[c])) \in Results
        /\ CutRequest(Ack(s, p)) \subseteq Results
        /\ CutData(DataBlock(s, p), p) \subseteq Results
    BY <1>1, <1>2, <1>4, <1>5, ReadRequestTyped, WriteRequestTyped, AckTyped, DataBlockTyped
  <2>2. CutResults(c, p) \in {CutRequest(ReadRequest(s, asked[c])),
           {Ended(WriteRequest(s, asked[c]))},
           CutRequest(Ack(s, p)), CutData(DataBlock(s, p), p), {}}
    <3>1. p.kind \in {"RRQ", "WRQ", "DATA", "ACK"} \/ CutResults(c, p) = {}
      BY DEF CutResults
    <3>2. CASE p.kind = "RRQ"
      BY <3>2 DEF CutResults, s
    <3>3. CASE p.kind = "WRQ"
      BY <3>3 DEF CutResults, s
    <3>4. CASE p.kind = "ACK"
      BY <3>4 DEF CutResults, s
    <3>5. CASE p.kind = "DATA"
      BY <3>5 DEF CutResults, s
    <3> QED BY <3>1, <3>2, <3>3, <3>4, <3>5
  <2>3. CutWrote(c, p) \subseteq {wrote[c], <<>>, Append(wrote[c], p.chunk)}
    BY DEF CutWrote
  <2>4. <<>> \in Seq(Nat) /\ Append(wrote[c], p.chunk) \in Seq(Nat)
    BY <1>1, EmptySeq, AppendProperties DEF Datagram
  <2>5. CutResults(c, p) \subseteq Results
    BY <1>3, <2>1, <2>2
  <2> QED BY <1>1, <2>3, <2>4, <2>5
<1>7. CutTimeout(c) \subseteq Results
  BY <1>3 DEF CutTimeout
<1> QED BY <1>6, <1>7
\* A replacement ends all sessions. It may cut the handler of one client short; what it
\* tells and sends of the others stays.
LEMMA Replaced ==
  ASSUME TypeOK, ChangeServerIp
  PROVE  /\ TypeOK' /\ sess' = [c \in Clients |-> NoSession]
         /\ UNCHANGED <<toServer, clientVars, asked, resent>>
         /\ \A d \in Clients : cut'[d] \/ (~cut[d] /\ ~Uploading(d))
         /\ \A d \in Clients :
              \/ UNCHANGED <<told[d], toClient[d], wrote[d]>>
              \/ \E p \in toServer[d] :
                 \E r \in CutResults(d, p) : \E w \in CutWrote(d, p) :
                   cut'[d] /\ toClient'[d] = toClient[d] \cup r.sent /\ wrote'[d] = w
              \/ \E r \in CutTimeout(d) :
                   cut'[d] /\ toClient'[d] = toClient[d] \cup r.sent /\ wrote'[d] = wrote[d]
<1> DEFINE
     Effect(d) ==
      \/ UNCHANGED <<told[d], toClient[d], wrote[d]>>
      \/ \E p \in toServer[d] : \E r \in CutResults(d, p) : \E w \in CutWrote(d, p) :
           cut'[d] /\ toClient'[d] = toClient[d] \cup r.sent /\ wrote'[d] = w
      \/ \E r \in CutTimeout(d) :
           cut'[d] /\ toClient'[d] = toClient[d] \cup r.sent /\ wrote'[d] = wrote[d]
     Left ==
       /\ told' \in [Clients -> {"nothing", "OK", "FAILED"}]
       /\ toClient' \in [Clients -> SUBSET Datagram]
       /\ wrote' \in [Clients -> Seq(Nat)]
       /\ \/ cut' = [d \in Clients |-> cut[d] \/ Uploading(d)]
          \/ \E c \in Clients : cut' = [d \in Clients |-> cut[d] \/ d = c \/ Uploading(d)]
       /\ \A d \in Clients : Effect(d)
<1>1. /\ sess' = [c \in Clients |-> NoSession] /\ StopServer
      /\ UNCHANGED <<toServer, clientVars, asked, resent, faulty>>
      /\ serving' \in BOOLEAN /\ changes' \in 0 .. ChangeBound
  BY DEF ChangeServerIp, TypeOK
<1>2. ASSUME NEW c \in Clients, NEW r \in Results, CutShort(c, r)
      PROVE  /\ told' \in [Clients -> {"nothing", "OK", "FAILED"}]
             /\ toClient' \in [Clients -> SUBSET Datagram]
             /\ cut' = [d \in Clients |-> cut[d] \/ d = c \/ Uploading(d)] /\ cut'[c]
             /\ toClient'[c] = toClient[c] \cup r.sent
             /\ \A d \in Clients \ {c} : told'[d] = told[d] /\ toClient'[d] = toClient[d]
  <2>1. r.sent \subseteq Datagram /\ r.told \in Outcomes
    BY DEF Results
  <2>2. told' \in [Clients -> {"nothing", "OK", "FAILED"}]
    BY <1>2, <2>1 DEF CutShort, TypeOK, Outcomes
  <2>3. toClient' \in [Clients -> SUBSET Datagram] /\ toClient'[c] = toClient[c] \cup r.sent
    BY <1>2, <2>1 DEF CutShort, TypeOK
  <2>4. \A d \in Clients \ {c} : told'[d] = told[d] /\ toClient'[d] = toClient[d]
    BY <1>2 DEF CutShort, TypeOK
  <2>5. cut' = [d \in Clients |-> cut[d] \/ d = c \/ Uploading(d)] /\ cut'[c]
    BY <1>2 DEF CutShort
  <2> QED BY <2>2, <2>3, <2>4, <2>5
<1>3. Left
  <2>1. CASE UNCHANGED <<told, toClient, wrote>>
             /\ cut' = [c \in Clients |-> cut[c] \/ Uploading(c)]
    BY <2>1 DEF TypeOK
  <2>2. ASSUME NEW c \in Clients, NEW p \in toServer[c], NEW r \in CutResults(c, p),
               CutShort(c, r),
               NEW w \in CutWrote(c, p), wrote' = [wrote EXCEPT ![c] = w]
        PROVE  Left
    <3>1. r \in Results /\ w \in Seq(Nat)
      BY CutTyped
    <3>2. /\ wrote' \in [Clients -> Seq(Nat)] /\ wrote'[c] = w
          /\ \A d \in Clients \ {c} : wrote'[d] = wrote[d]
      BY <2>2, <3>1 DEF TypeOK
    <3>3. Effect(c)
      BY <1>2, <2>2, <3>1, <3>2
    <3>4. ASSUME NEW d \in Clients \ {c} PROVE Effect(d)
      BY <1>2, <2>2, <3>1, <3>2
    <3> HIDE DEF Effect
    <3> QED BY <1>2, <2>2, <3>1, <3>2, <3>3, <3>4
  <2>3. ASSUME NEW c \in Clients, NEW r \in CutTimeout(c), CutShort(c, r), wrote' = wrote
        PROVE  Left
    <3>1. r \in Results
      BY CutTyped
    <3>2. Effect(c)
      BY <1>2, <2>3, <3>1
    <3>3. ASSUME NEW d \in Clients \ {c} PROVE Effect(d)
      BY <1>2, <2>3, <3>1
    <3> HIDE DEF Effect
    <3> QED BY <1>2, <2>3, <3>1, <3>2, <3>3 DEF TypeOK
  <2> HIDE DEF Effect
  <2> QED BY <1>1, <2>1, <2>2, <2>3 DEF StopServer
<1>4. \A d \in Clients : cut'[d] \/ (~cut[d] /\ ~Uploading(d))
  BY <1>3
<1>5. cut' \in [Clients -> BOOLEAN]
  BY <1>3 DEF TypeOK, Uploading
<1>6. TypeOK'
  BY <1>1, <1>3, <1>5 DEF TypeOK, clientVars
<1> QED BY <1>1, <1>3, <1>4, <1>6
\* A step of a client changes what it sent and took and how far it is.
LEMMA ClientStepTyped ==
  ASSUME TypeOK, NEW c \in Clients, ClientStep(c)
  PROVE  /\ TypeOK' /\ UNCHANGED <<sess, wrote, told, resent, asked, cut>>
         /\ toClient'[c] \subseteq toClient[c]
         /\ \A d \in Clients \ {c} :
              UNCHANGED <<toServer[d], toClient[d], phase[d], expect[d], got[d]>>
<1> USE DEF serverVars, clientVars, lifeVars
<1>0. /\ expect[c] \in Nat /\ got[c] \in Seq(Nat) /\ toClient[c] \subseteq Datagram
      /\ asked[c] \in Request
      /\ \A p \in toClient[c] : p.chunk \in Nat /\ p.block \in Nat
  BY ClientTyped DEF Datagram
<1>1. UNCHANGED <<sess, wrote, told, resent, asked, cut, faulty, serving, changes>>
  BY DEF ClientStep, Ask, TakeOack, TakeData, TakeAck, GiveUp, AskAgain
<1>2. ASSUME NEW p \in Datagram, Send(c, p)
      PROVE  /\ toServer' \in [Clients -> SUBSET Datagram]
             /\ \A d \in Clients \ {c} : toServer'[d] = toServer[d]
  BY <1>2 DEF Send, TypeOK
<1>3. CASE Ask(c)
  <2>1. Pkt("RRQ", 0) \in Datagram /\ Pkt("WRQ", 0) \in Datagram
    BY Packets DEF Kinds
  <2>2. /\ toServer' \in [Clients -> SUBSET Datagram]
        /\ \A d \in Clients \ {c} : toServer'[d] = toServer[d]
    BY <1>2, <1>3, <2>1 DEF Ask
  <2>3. expect' \in [Clients -> Nat] /\ \A d \in Clients \ {c} : expect'[d] = expect[d]
    <3>1. expect' = [expect EXCEPT ![c] = 1] \/ expect' = expect
      BY <1>3 DEF Ask
    <3> QED BY <3>1 DEF TypeOK
  <2> QED BY <1>1, <1>3, <2>2, <2>3 DEF Ask, TypeOK
<1>4. CASE TakeOack(c)
  <2>1. Pkt("ACK", 0) \in Datagram
    BY Packets DEF Kinds
  <2>2. /\ toServer' \in [Clients -> SUBSET Datagram]
        /\ \A d \in Clients \ {c} : toServer'[d] = toServer[d]
    BY <1>2, <1>4, <2>1 DEF TakeOack
  <2>3. /\ toClient' \in [Clients -> SUBSET Datagram] /\ toClient'[c] \subseteq toClient[c]
        /\ \A d \in Clients \ {c} : toClient'[d] = toClient[d]
    BY <1>4 DEF TakeOack, TypeOK
  <2> QED BY <1>1, <1>4, <2>2, <2>3 DEF TakeOack, TypeOK
<1>5. CASE TakeData(c)
  <2>1. PICK p \in toClient[c] :
          /\ got' = [got EXCEPT ![c] = Append(@, p.chunk)]
          /\ Send(c, Pkt("ACK", p.block))
    BY <1>5 DEF TakeData
  <2>2. Pkt("ACK", p.block) \in Datagram
    BY <1>0, Packets DEF Kinds
  <2>3. /\ toServer' \in [Clients -> SUBSET Datagram]
        /\ \A d \in Clients \ {c} : toServer'[d] = toServer[d]
    BY <1>2, <2>1, <2>2
  <2>4. /\ got' \in [Clients -> Seq(Nat)] /\ \A d \in Clients \ {c} : got'[d] = got[d]
    <3>1. Append(got[c], p.chunk) \in Seq(Nat)
      BY <1>0, AppendProperties
    <3> QED BY <2>1, <3>1 DEF TypeOK
  <2>5. /\ expect' \in [Clients -> Nat] /\ \A d \in Clients \ {c} : expect'[d] = expect[d]
        /\ phase' \in [Clients -> {"idle", "active", "done", "gone"}]
        /\ \A d \in Clients \ {c} : phase'[d] = phase[d]
    BY <1>0, <1>5 DEF TakeData, TypeOK
  <2>6. toClient' = toClient
    BY <1>5 DEF TakeData
  <2> QED BY <1>1, <2>3, <2>4, <2>5, <2>6 DEF TypeOK
<1>6. CASE TakeAck(c)
  <2>1. FileBlock(c, expect[c] + 1) \in Datagram
    <3>1. ASSUME NEW b \in Nat PROVE FileBlock(c, b) \in Datagram
      <4> DEFINE last == b - 1 = asked[c].full
      <4>1. FileBlock(c, b) = Data(b, b, last) /\ last \in BOOLEAN /\ b \in Int
        BY DEF FileBlock
      <4> HIDE DEF last
      <4> QED BY <4>1, Blocks
    <3>2. expect[c] + 1 \in Nat
      BY <1>0
    <3> QED BY <3>1, <3>2, Zenon
  <2>2. /\ toServer' \in [Clients -> SUBSET Datagram]
        /\ \A d \in Clients \ {c} : toServer'[d] = toServer[d]
    BY <1>2, <1>6, <2>1 DEF TakeAck, TypeOK
  <2>3. /\ toClient' \in [Clients -> SUBSET Datagram] /\ toClient'[c] \subseteq toClient[c]
        /\ \A d \in Clients \ {c} : toClient'[d] = toClient[d]
    BY <1>6 DEF TakeAck, TypeOK
  <2>4. /\ expect' \in [Clients -> Nat] /\ \A d \in Clients \ {c} : expect'[d] = expect[d]
        /\ phase' \in [Clients -> {"idle", "active", "done", "gone"}]
        /\ \A d \in Clients \ {c} : phase'[d] = phase[d]
        /\ got' = got
    <3>1. /\ expect' = [expect EXCEPT ![c] = @ + 1] \/ expect' = expect
          /\ phase' = [phase EXCEPT ![c] = "done"] \/ phase' = phase
          /\ got' = got
      BY <1>6 DEF TakeAck
    <3>2. expect' \in [Clients -> Nat] /\ \A d \in Clients \ {c} : expect'[d] = expect[d]
      <4>1. expect \in [Clients -> Nat] /\ expect[c] + 1 \in Nat
        BY <1>0 DEF TypeOK
      <4>2. CASE expect' = [expect EXCEPT ![c] = @ + 1]
        BY <4>1, <4>2
      <4> QED BY <3>1, <4>1, <4>2
    <3> QED BY <3>1, <3>2 DEF TypeOK
  <2> QED BY <1>1, <2>2, <2>3, <2>4 DEF TypeOK
<1>7. CASE GiveUp(c) \/ AskAgain(c)
  <2>1. /\ Err \in Datagram
        /\ Pkt(IF asked[c].op = "read" THEN "RRQ" ELSE "WRQ", 0) \in Datagram
    BY ErrPacket, Packets DEF Kinds
  <2>2. /\ toServer' \in [Clients -> SUBSET Datagram]
        /\ \A d \in Clients \ {c} : toServer'[d] = toServer[d]
    BY <1>2, <1>7, <2>1 DEF GiveUp, AskAgain, TypeOK
  <2>3. /\ phase' \in [Clients -> {"idle", "active", "done", "gone"}]
        /\ \A d \in Clients \ {c} : phase'[d] = phase[d]
        /\ toClient' = toClient /\ expect' = expect /\ got' = got
    BY <1>7 DEF GiveUp, AskAgain, TypeOK
  <2> QED BY <1>1, <2>2, <2>3 DEF TypeOK
<1> QED BY <1>3, <1>4, <1>5, <1>6, <1>7 DEF ClientStep

LEMMA TypedStep == TypeOK /\ [Next]_vars => TypeOK'
<1> SUFFICES ASSUME TypeOK, [Next]_vars PROVE TypeOK'
  OBVIOUS
<1>1. ASSUME NEW c \in Clients, ReadyRead(c) \/ Timeout(c) \/ ClientStep(c) PROVE TypeOK'
  BY <1>1, ReadyReadTyped, TimeoutTyped, ClientStepTyped
<1>2. CASE ChangeServerIp
  BY <1>2, Replaced
<1>3. CASE UNCHANGED vars
  BY <1>3 DEF vars, serverVars, networkVars, clientVars, lifeVars, TypeOK
<1> QED BY <1>1, <1>2, <1>3 DEF Next
-----------------------------------------------------------------------------
(* A session that sends.                                                     *)

LEMMA FreshFits ==
  ASSUME NEW r \in Requests, NEW rs \in BOOLEAN, NEW w \in Seq(Nat)
  PROVE  SessionFits(Fresh, r, rs) /\ UploadFits(Fresh, w)
BY Sessions DEF SessionFits, UploadFits

\* What is not DATA fits.
LEMMA OthersFit ==
  ASSUME NEW r \in Requests, NEW rs \in BOOLEAN
  PROVE  /\ BlockFits(Err, r, rs) /\ \A n \in Int : BlockFits(Pkt("OACK", n), r, rs)
BY Packets, ErrPacket DEF BlockFits, Kinds

\* From the end of the block before, sendCurrentBlock sends the block and no other, and
\* ends in success only past the last one.
LEMMA SendFits ==
  ASSUME NEW r \in Requests, Servable(r), r.op = "read", NEW rs \in BOOLEAN,
         NEW s \in Session, s.full = r.full, s.rest = r.rest, s.block \in 0 .. r.full + 2,
         ~rs /\ s.block <= r.full + 1 => s.pos = IF s.block = 0 THEN 0 ELSE s.block - 1
  PROVE  LET q == SendCurrentBlock(s) IN
         /\ q.sess # NoSession => SessionFits(q.sess, r, rs)
         /\ \A p \in q.sent : BlockFits(p, r, rs)
         /\ q.told = "OK" => s.block = r.full + 2
<1> DEFINE q == SendCurrentBlock(s)
<1>1. /\ s.block \in Int /\ s.pos \in Nat /\ r.full \in Nat /\ r.rest \in BOOLEAN
      /\ r.full + 1 < Wrap /\ s.block >= 0
  BY DEF Session, Request, Servable
<1>2. CASE s.block = 0
  <2> DEFINE t == [s EXCEPT !.timer = TRUE]
  <2>1. q = Result(t, {Pkt("OACK", 0)}, "nothing")
    BY <1>2, Sends
  <2>2. t.block = 0 /\ t.timer /\ t.full = r.full /\ t.rest = r.rest /\ t.pos = s.pos
    BY <1>2 DEF Session
  <2> HIDE DEF t, q
  <2>3. SessionFits(t, r, rs)
    BY <1>1, <1>2, <2>2 DEF SessionFits
  <2> QED BY <2>1, <2>3, OthersFit DEF Result, q
<1>3. CASE s.block # 0 /\ Past(s)
  <2>1. q = Result(NoSession, {}, "OK")
    BY <1>3, Sends
  <2>2. s.block = r.full + 2
    BY <1>1, <1>3 DEF Past
  <2> QED BY <2>1, <2>2 DEF Result
<1>4. CASE s.block # 0 /\ ~Past(s)
  <2> DEFINE t == [s EXCEPT !.timer = TRUE, !.pos = Advanced(s)]
             last == s.block - 1 = s.full
             d == Data(s.block, s.pos + 1, last)
  <2>1. q = Fails(NoSession) \/ (CanRead(s) /\ q = Result(t, {d}, "nothing"))
    BY <1>4, Sends
  <2>2. CASE q = Fails(NoSession)
    BY <2>2, OthersFit DEF Fails, Result
  <2>3. CASE CanRead(s) /\ q = Result(t, {d}, "nothing")
    <3>1. s.block \in 1 .. r.full + 1
      BY <1>1, <1>4 DEF Past
    <3>2. t.block = s.block /\ t.timer /\ t.full = r.full /\ t.rest = r.rest
          /\ t.pos = Advanced(s)
      BY DEF Session
    <3>3. ~rs => Advanced(s) = IF s.block <= r.full \/ r.rest THEN s.block ELSE r.full
      BY <1>1, <3>1 DEF Advanced
    <3>4. SessionFits(t, r, rs)
      <4> HIDE DEF t
      <4> QED BY <1>1, <3>1, <3>2, <3>3 DEF SessionFits
    <3>5. BlockFits(d, r, rs)
      <4>0. last \in BOOLEAN /\ s.pos + 1 \in Nat
        BY <1>1
      <4>1. last <=> s.block = r.full + 1
        BY <1>1
      <4>2. d.block = s.block % Wrap /\ d.last = last /\ d.chunk = s.pos + 1
        <5> HIDE DEF last
        <5>1. \A k \in Nat, l \in BOOLEAN :
                 LET e == Data(s.block, k, l)
                 IN  e.block = s.block % Wrap /\ e.last = l /\ e.chunk = k
          BY <1>1, Blocks
        <5> QED BY <4>0, <5>1, Zenon
      <4>3. d.block = s.block
        BY <1>1, <3>1, <4>2, Numbers
      <4>4. ~rs => d.chunk = s.block
        BY <1>1, <3>1, <4>2
      <4> HIDE DEF d, last
      <4> QED BY <3>1, <4>1, <4>2, <4>3, <4>4 DEF BlockFits
    <3> HIDE DEF t, d, q
    <3> QED BY <2>3, <3>4, <3>5 DEF Result, q
  <2> QED BY <2>1, <2>2, <2>3
<1> QED BY <1>2, <1>3, <1>4

LEMMA RequestFits ==
  ASSUME NEW r \in Requests, r.op = "read", NEW rs \in BOOLEAN, NEW s \in Session
  PROVE  LET q == ReadRequest(s, r) IN
         /\ q.sess # NoSession => SessionFits(q.sess, r, rs)
         /\ \A p \in q.sent : BlockFits(p, r, rs)
         /\ q.told # "OK"
<1> DEFINE asks == [Fresh EXCEPT !.timer = TRUE, !.full = s.full, !.rest = s.rest]
           opened == [asks EXCEPT !.file = "reading", !.full = r.full, !.rest = r.rest]
           b == IF r.opt THEN 0 ELSE 1
           starts == [opened EXCEPT !.block = b]
<1>1. r.full \in Nat /\ r.rest \in BOOLEAN /\ r.valid \in BOOLEAN
  BY DEF Request
<1>2. asks \in Session /\ asks.block = -1 /\ asks.pos = 0
  BY Sessions DEF Session
<1> HIDE DEF asks
<1>3. /\ opened \in Session /\ opened.block = -1 /\ opened.pos = 0
      /\ opened.full = r.full /\ opened.rest = r.rest
  BY <1>1, <1>2 DEF Session
<1> HIDE DEF opened
<1>4. ASSUME NEW t \in {asks, opened}, ~Servable(r)
      PROVE  LET q == Fails(t)
             IN  SessionFits(q.sess, r, rs) /\ (\A p \in q.sent : BlockFits(p, r, rs))
                 /\ q.told # "OK"
  BY <1>2, <1>3, <1>4, OthersFit DEF Fails, Result, SessionFits
<1>5. CASE Servable(r)
  <2>1. ReadRequest(s, r) = SendCurrentBlock(starts)
    BY <1>1, <1>5 DEF ReadRequest, Servable, TooLarge, asks, opened
  <2>2. /\ starts \in Session /\ starts.block = b /\ b \in {0, 1} /\ starts.pos = 0
        /\ starts.full = r.full /\ starts.rest = r.rest
    BY <1>3 DEF Session
  <2> HIDE DEF starts, b
  <2>3. starts.block \in 0 .. r.full + 2 /\ starts.block # r.full + 2
    BY <1>1, <2>2
  <2>4. starts.pos = IF starts.block = 0 THEN 0 ELSE starts.block - 1
    BY <2>2
  <2> QED BY <1>5, <2>1, <2>2, <2>3, <2>4, SendFits
<1>6. CASE ~Servable(r)
  <2>1. ReadRequest(s, r) \in {Fails(asks), Fails(opened)}
    BY <1>1, <1>6 DEF ReadRequest, Servable, TooLarge, asks, opened
  <2> QED BY <1>4, <1>6, <2>1
<1> QED BY <1>5, <1>6

LEMMA AckFits ==
  ASSUME NEW r \in Requests, r.op = "read", NEW rs \in BOOLEAN, NEW s \in Session,
         SessionFits(s, r, rs), NEW p \in Datagram
  PROVE  LET q == Ack(s, p) IN
         /\ q.sess # NoSession => SessionFits(q.sess, r, rs)
         /\ \A d \in q.sent : BlockFits(d, r, rs)
         /\ q.told = "OK" => p.block = r.full + 1
<1> DEFINE t == [s EXCEPT !.retry = 0, !.block = s.block + 1]
<1>1. s.block \in Int /\ r.full \in Nat /\ r.rest \in BOOLEAN
  BY DEF Session, Request
<1>2. CASE Acknowledges(s, p)
  <2>1. s.block # -1 /\ p.block = s.block
    BY <1>2 DEF Acknowledges
  <2>2. /\ Servable(r) /\ s.block \in 0 .. r.full + 1
        /\ s.full = r.full /\ s.rest = r.rest
        /\ ~rs => s.pos = IF s.block <= r.full \/ r.rest THEN s.block ELSE r.full
    BY <2>1 DEF SessionFits
  <2>3. t \in Session /\ t.block = s.block + 1 /\ t.pos = s.pos /\ t.full = s.full
        /\ t.rest = s.rest
    <3>1. s.block + 1 \in Int
      BY <1>1
    <3> QED BY <3>1 DEF Session
  <2> HIDE DEF t
  <2>4. t.block \in 0 .. r.full + 2
        /\ (~rs /\ t.block <= r.full + 1 => t.pos = IF t.block = 0 THEN 0 ELSE t.block - 1)
    BY <1>1, <2>2, <2>3
  <2>5. Ack(s, p) = SendCurrentBlock(t)
    BY <1>2 DEF Ack, t
  <2>6. t.block = r.full + 2 => p.block = r.full + 1
    BY <1>1, <2>1, <2>3
  <2> QED BY <2>2, <2>3, <2>4, <2>5, <2>6, SendFits
<1>3. CASE ~Acknowledges(s, p)
  BY <1>3 DEF Ack, Keeps, Result
<1> QED BY <1>2, <1>3
-----------------------------------------------------------------------------
(* A session that receives.                                                  *)

\* What a block leaves: a session q of a file v, of s and w before.
PartDone(q, s, w, v, r) ==
  /\ q.sess # NoSession => UploadFits(q.sess, v)
  /\ r.full < Wrap /\ InOrder(w) => InOrder(v)
  /\ r.full < Wrap /\ q.told = "OK" => Len(v) = r.full + 1
  /\ q.told # "OK" => q.told = "nothing" /\ q.sess # NoSession /\ q.sess.file = s.file
  /\ s.file # "writing" => v = w

LEMMA PartWritten ==
  ASSUME NEW r \in Requests, NEW w \in Seq(Nat), NEW s \in Session, UploadFits(s, w),
         NEW p \in Datagram, p.kind = "DATA", PartFits(p, r),
         NEW v \in Seq(Nat), v = IF Writes(s, p) THEN Append(w, p.chunk) ELSE w
  PROVE  PartDone(DataBlock(s, p), s, w, v, r)
<1> DEFINE q == DataBlock(s, p)
<1> USE DEF PartDone
<1>1. /\ s.block \in Int /\ s.retry \in Nat /\ r.full \in Nat /\ Len(w) \in Nat
      /\ p.block \in Nat /\ p.chunk \in Nat /\ p.last \in BOOLEAN
  BY DEF Session, Request, Datagram
<1>2. CASE Writes(s, p)
  <2>1. s.file = "writing" /\ s.block = Len(w) + 1 /\ p.block = s.block /\ ~s.timer
    BY <1>1, <1>2 DEF Writes, InTurn, UploadFits
  <2>2. Len(v) = Len(w) + 1 /\ v[Len(w) + 1] = p.chunk
        /\ \A i \in 1 .. Len(w) : v[i] = w[i]
    BY <1>1, <1>2, AppendProperties
  <2>3. r.full < Wrap => p.chunk = Len(w) + 1
    <3>1. p.chunk \in 1 .. r.full + 1 /\ p.block = p.chunk % Wrap
      BY DEF PartFits
    <3>2. ASSUME NEW n \in 1 .. Wrap, n % Wrap > 0 PROVE n % Wrap = n
      BY <3>2
    <3> QED BY <1>1, <2>1, <3>1, <3>2
  <2>4. r.full < Wrap /\ InOrder(w) => InOrder(v)
    BY <1>1, <2>2, <2>3 DEF InOrder
  <2>5. q = Result(IF EndsUpload(p) THEN NoSession ELSE [s EXCEPT !.block = s.block + 1],
                   {Pkt("ACK", s.block)}, IF EndsUpload(p) THEN "OK" ELSE "nothing")
    BY <1>1, <1>2 DEF DataBlock, Writes
  <2>6. r.full < Wrap /\ p.last => Len(v) = r.full + 1
    BY <2>2, <2>3 DEF PartFits
  <2>7. CASE p.last
    <3>1. q.sess = NoSession /\ q.told = "OK"
      BY <2>5, <2>7 DEF EndsUpload, Result
    <3> HIDE DEF q
    <3> QED BY <2>1, <2>4, <2>6, <2>7, <3>1 DEF q
  <2>8. CASE ~p.last
    <3> DEFINE t == [s EXCEPT !.block = s.block + 1]
    <3>1. q.sess = t /\ q.told = "nothing"
      BY <2>5, <2>8 DEF EndsUpload, Result
    <3>2. t \in Session /\ t.block = s.block + 1 /\ t.file = s.file /\ t.timer = s.timer
      <4>1. s.block + 1 \in Int
        BY <1>1
      <4> QED BY <4>1 DEF Session
    <3> HIDE DEF t, q
    <3>3. UploadFits(t, v)
      BY <1>1, <2>1, <2>2, <3>2 DEF UploadFits
    <3> QED BY <2>1, <2>4, <3>1, <3>2, <3>3, Sessions DEF q
  <2> QED BY <1>1, <2>7, <2>8
<1>3. CASE ~Writes(s, p)
  <2>1. v = w
    BY <1>3
  <2>2. q = Keeps(s) \/ q = Keeps([s EXCEPT !.retry = s.retry + 1])
    BY <1>1, <1>3 DEF DataBlock, Writes
  <2>3. ASSUME NEW t \in {s, [s EXCEPT !.retry = s.retry + 1]}
        PROVE  t \in Session /\ t.block = s.block /\ t.file = s.file /\ t.timer = s.timer
    <3>1. CASE t = s
      BY <3>1
    <3>2. CASE t = [s EXCEPT !.retry = s.retry + 1]
      <4>1. s.retry + 1 \in Nat
        BY <1>1
      <4> QED BY <3>2, <4>1 DEF Session
    <3> QED BY <3>1, <3>2
  <2>4. \E t \in {s, [s EXCEPT !.retry = s.retry + 1]} : q.sess = t /\ q.told = "nothing"
    BY <2>2 DEF Keeps, Result
  <2> HIDE DEF q
  <2>5. q.told = "nothing" /\ q.sess # NoSession /\ q.sess.file = s.file
        /\ UploadFits(q.sess, v)
    BY <2>1, <2>3, <2>4, Sessions DEF UploadFits
  <2> QED BY <2>1, <2>5 DEF q
<1> QED BY <1>2, <1>3
-----------------------------------------------------------------------------
(* Steps of the server.                                                      *)

LEMMA Unmoved ==
  ASSUME NEW d \in Clients, Fits(d), asked' = asked,
         UNCHANGED <<sess[d], wrote[d], told[d], toServer[d], toClient[d], phase[d]>>,
         UNCHANGED <<expect[d], got[d], resent[d], cut[d]>>
  PROVE  Fits(d)'
<1> USE DEF Reading
<1>1. ReaderFits(d)' /\ WriterFits(d)'
  BY DEF Fits, ReaderFits, WriterFits
<1>2. BlocksFit(d)' /\ SendingFits(d)' /\ SuccessFits(d)'
  BY DEF Fits, BlocksFit, SendingFits, SuccessFits
<1>3. WritingFits(d)'
  BY DEF Fits, WritingFits, Uploading
<1> QED BY <1>1, <1>2, <1>3 DEF Fits

\* What is left of a result for a reader to fit.
LEMMA ServedReader ==
  ASSUME TypeOK, NEW c \in Clients, Fits(c), Reading(c), NEW q \in Results, Apply(c, q),
         q.sess # NoSession => SessionFits(q.sess, asked[c], resent'[c]),
         \A p \in q.sent : BlockFits(p, asked[c], resent'[c]),
         q.told = "OK" /\ Servable(asked[c]) => phase[c] = "done",
         toServer'[c] \subseteq toServer[c], resent[c] => resent'[c],
         UNCHANGED <<phase, expect, got, asked, cut>>
  PROVE  Fits(c)'
<1> USE DEF Reading
<1>1. /\ sess'[c] = q.sess /\ toClient'[c] = toClient[c] \cup q.sent
      /\ told'[c] = "OK" => told[c] = "OK" \/ q.told = "OK"
  BY Applied
<1>2. Reading(c)'
  OBVIOUS
<1>3. ReaderFits(c)'
  BY DEF Fits, ReaderFits
<1>4. BlocksFit(c)'
  <2>1. ASSUME NEW p \in toClient'[c] PROVE BlockFits(p, asked[c], resent'[c])
    <3>1. CASE p \in q.sent
      BY <3>1
    <3>2. CASE p \in toClient[c]
      <4>1. BlockFits(p, asked[c], resent[c])
        BY <3>2 DEF Fits, BlocksFit
      <4> QED BY <4>1 DEF BlockFits
    <3> QED BY <1>1, <2>1, <3>1, <3>2
  <2> QED BY <2>1 DEF BlocksFit
<1>5. SendingFits(c)'
  BY <1>1 DEF SendingFits
<1>6. SuccessFits(c)'
  BY <1>1 DEF Fits, SuccessFits
<1>7. WriterFits(c)' /\ WritingFits(c)'
  BY <1>2 DEF WriterFits, WritingFits
<1> QED BY <1>3, <1>4, <1>5, <1>6, <1>7 DEF Fits

\* Likewise for a writer.
LEMMA ServedWriter ==
  ASSUME TypeOK, NEW c \in Clients, Fits(c), ~Reading(c), NEW q \in Results, Apply(c, q),
         q.sess # NoSession => UploadFits(q.sess, wrote'[c]),
         asked[c].full < Wrap /\ InOrder(wrote[c]) => InOrder(wrote'[c]),
         q.told = "OK" /\ asked[c].full < Wrap => Len(wrote'[c]) = asked[c].full + 1,
         q.told = "nothing" =>
           /\ q.sess # NoSession
           /\ q.sess.file = "writing" \/ (~Uploading(c) /\ wrote'[c] = wrote[c]),
         toServer'[c] \subseteq toServer[c], UNCHANGED <<expect, got, asked, cut>>
  PROVE  Fits(c)'
<1> USE DEF Reading
<1>1. /\ sess'[c] = q.sess /\ q.told \in Outcomes
      /\ q.told = "nothing" => told'[c] = told[c]
      /\ q.told # "nothing" => told'[c] = q.told
  BY Applied DEF Results
<1>2. ~Reading(c)'
  OBVIOUS
<1>3. ReaderFits(c)' /\ BlocksFit(c)' /\ SendingFits(c)' /\ SuccessFits(c)'
  BY <1>2 DEF ReaderFits, BlocksFit, SendingFits, SuccessFits
<1>4. WriterFits(c)'
  BY DEF Fits, WriterFits
<1>5. WritingFits(c)'
  <2>1. sess'[c] # NoSession => UploadFits(sess'[c], wrote'[c])
    BY <1>1
  <2>2. asked[c].full < Wrap => InOrder(wrote'[c])
    BY DEF Fits, WritingFits
  <2>3. ASSUME asked[c].full < Wrap, told'[c] = "OK", ~cut[c], ~Uploading(c)'
        PROVE  Len(wrote'[c]) = asked[c].full + 1
    <3>1. CASE q.told = "nothing"
      <4>1. told[c] = "OK" /\ ~Uploading(c) /\ wrote'[c] = wrote[c]
        BY <1>1, <2>3, <3>1 DEF Uploading
      <4> QED BY <2>3, <4>1 DEF Fits, WritingFits
    <3>2. CASE q.told # "nothing"
      BY <1>1, <2>3, <3>2
    <3> QED BY <3>1, <3>2
  <2> QED BY <2>1, <2>2, <2>3 DEF WritingFits
<1> QED BY <1>3, <1>4, <1>5 DEF Fits

LEMMA ReadyReadFits ==
  ASSUME TypeOK, NEW c \in Clients, Fits(c), ReadyRead(c)
  PROVE  Fits(c)'
<1> DEFINE s == SessionOf(c)
           r == asked[c]
<1>1. PICK p \in toServer[c], q \in Results :
        /\ Arrives(c, p) /\ Apply(c, q) /\ p \in Datagram
        /\ \/ /\ p.kind = "RRQ" /\ q = ReadRequest(SessionOf(c), asked[c])
              /\ wrote' = wrote
           \/ /\ p.kind = "WRQ" /\ q = WriteRequest(SessionOf(c), asked[c])
              /\ wrote' = [wrote EXCEPT ![c] = IF asked[c].valid THEN <<>> ELSE @]
           \/ /\ p.kind = "DATA" /\ q = DataBlock(SessionOf(c), p)
              /\ wrote' = [wrote EXCEPT ![c] = IF Writes(SessionOf(c), p)
                                               THEN Append(@, p.chunk) ELSE @]
           \/ p.kind = "ACK" /\ q = Ack(SessionOf(c), p) /\ wrote' = wrote
           \/ p.kind = "ERR" /\ q = Fails(NoSession) /\ wrote' = wrote
  BY Received
<1>2. /\ toServer'[c] \subseteq toServer[c]
      /\ UNCHANGED <<phase, expect, got, asked, resent, cut>>
  BY <1>1 DEF Arrives, TypeOK, clientVars, lifeVars
<1>3. /\ s \in Session /\ r \in Requests /\ r \in Request /\ wrote[c] \in Seq(Nat)
      /\ got[c] \in Seq(Nat) /\ resent[c] \in BOOLEAN
  BY ClientTyped
<1>4. CASE Reading(c)
  <2>1. SessionFits(s, r, resent[c])
    BY <1>3, <1>4, FreshFits DEF Fits, SendingFits, SessionOf
  <2>2. p.kind \in {"RRQ", "ERR"} \/ (p.kind = "ACK" /\ p.block <= Len(got[c]))
    BY <1>4 DEF Fits, ReaderFits
  <2> SUFFICES /\ q.sess # NoSession => SessionFits(q.sess, r, resent[c])
               /\ \A b \in q.sent : BlockFits(b, r, resent[c])
               /\ q.told = "OK" /\ Servable(r) => phase[c] = "done"
    BY <1>1, <1>2, <1>4, ServedReader
  <2> HIDE DEF s
  <2>3. CASE p.kind = "RRQ"
    BY <1>1, <1>3, <1>4, <2>3, RequestFits DEF Reading, s
  <2>4. CASE p.kind = "ACK"
    <3>1. q = Ack(s, p)
      BY <1>1, <2>4 DEF s
    <3>2. /\ q.sess # NoSession => SessionFits(q.sess, r, resent[c])
          /\ \A b \in q.sent : BlockFits(b, r, resent[c])
          /\ q.told = "OK" => p.block = r.full + 1
      BY <1>1, <1>3, <1>4, <2>1, <3>1, AckFits DEF Reading
    <3>3. p.block = r.full + 1 => phase[c] = "done"
      <4>1. Len(got[c]) <= r.full + 1 /\ p.block <= Len(got[c]) /\ Len(got[c]) \in Nat
        BY <1>3, <1>4, <2>2, <2>4 DEF Fits, ReaderFits
      <4>2. p.block = r.full + 1 => Len(got[c]) = r.full + 1
        BY <1>3, <4>1 DEF Request
      <4> QED BY <1>4, <4>2 DEF Fits, ReaderFits
    <3> QED BY <3>2, <3>3
  <2>5. CASE p.kind = "ERR"
    <3>1. q = Fails(NoSession)
      BY <1>1, <2>5
    <3> QED BY <1>3, <3>1, OthersFit DEF Fails, Result
  <2> QED BY <2>2, <2>3, <2>4, <2>5
<1>5. CASE ~Reading(c)
  <2>1. UploadFits(s, wrote[c]) /\ (Uploading(c) => s.file = "writing")
    BY <1>3, <1>5, FreshFits DEF Fits, WritingFits, SessionOf, Uploading
  <2>2. PartFits(p, r)
    BY <1>5 DEF Fits, WriterFits
  <2>3. p.kind \in {"WRQ", "DATA", "ERR"}
    BY <2>2 DEF PartFits
  <2> SUFFICES /\ q.sess # NoSession => UploadFits(q.sess, wrote'[c])
               /\ r.full < Wrap /\ InOrder(wrote[c]) => InOrder(wrote'[c])
               /\ q.told = "OK" /\ r.full < Wrap => Len(wrote'[c]) = r.full + 1
               /\ q.told = "nothing" =>
                    /\ q.sess # NoSession
                    /\ q.sess.file = "writing" \/ (~Uploading(c) /\ wrote'[c] = wrote[c])
    BY <1>1, <1>2, <1>5, ServedWriter
  <2> HIDE DEF s
  <2>4. CASE p.kind = "WRQ"
    <3>1. q = WriteRequest(s, r) /\ wrote'[c] = IF r.valid THEN <<>> ELSE wrote[c]
      BY <1>1, <2>4 DEF s, TypeOK
    <3> DEFINE asks == [Fresh EXCEPT !.full = s.full, !.rest = s.rest]
               opened == [asks EXCEPT !.file = "writing", !.block = 1]
    <3>2. asks \in Session /\ asks.file = "closed" /\ asks.block = -1 /\ ~asks.timer
      BY <1>3, Sessions DEF Session
    <3>3. CASE r.valid
      <4>1. q = Result(opened, {Pkt("ACK", 0)}, "nothing")
        BY <3>1, <3>3 DEF WriteRequest
      <4> HIDE DEF asks
      <4>2. opened.file = "writing" /\ opened.block = 1 /\ opened.timer = asks.timer
            /\ opened # NoSession
        <5>1. ASSUME NEW f \in {"closed", "reading", "writing"}, NEW b \in Int
              PROVE  LET o == [asks EXCEPT !.file = f, !.block = b]
                     IN  o \in Session /\ o.file = f /\ o.block = b /\ o.timer = asks.timer
          BY <3>2 DEF Session
        <5>2. "writing" \in {"closed", "reading", "writing"} /\ 1 \in Int
          OBVIOUS
        <5> QED BY <5>1, <5>2, Sessions, Zenon
      <4> HIDE DEF opened
      <4>3. wrote'[c] = <<>> /\ Len(wrote'[c]) = 0
        BY <3>1, <3>3, EmptySeq
      <4>4. UploadFits(opened, wrote'[c]) /\ InOrder(wrote'[c])
        BY <3>2, <4>2, <4>3 DEF UploadFits, InOrder
      <4> QED BY <4>1, <4>2, <4>4 DEF Result
    <3>4. CASE ~r.valid
      <4>1. q = Fails(asks) /\ wrote'[c] = wrote[c]
        BY <3>1, <3>4 DEF WriteRequest
      <4> HIDE DEF asks
      <4> QED BY <3>2, <4>1 DEF Fails, Result, UploadFits
    <3> QED BY <3>3, <3>4
  <2>5. CASE p.kind = "DATA"
    <3>1. q = DataBlock(s, p)
      BY <1>1, <2>5 DEF s
    <3>2. PICK v \in Seq(Nat) :
            /\ v = wrote'[c]
            /\ v = IF Writes(s, p) THEN Append(wrote[c], p.chunk) ELSE wrote[c]
      <4>1. wrote'[c] = IF Writes(s, p) THEN Append(wrote[c], p.chunk) ELSE wrote[c]
        BY <1>1, <2>5 DEF s, TypeOK
      <4>2. wrote'[c] \in Seq(Nat)
        BY <1>1, <1>3, <4>1, AppendProperties DEF Datagram
      <4> QED BY <4>1, <4>2
    <3> HIDE DEF r
    <3>3. p \in Datagram /\ s \in Session /\ r \in Requests /\ wrote[c] \in Seq(Nat)
      BY <1>1, <1>3
    <3>4. PartDone(DataBlock(s, p), s, wrote[c], v, r)
      BY ONLY <2>1, <2>2, <2>5, <3>2, <3>3, PartWritten, Zenon
    <3> QED BY <2>1, <3>1, <3>2, <3>4 DEF PartDone, r
  <2>6. CASE p.kind = "ERR"
    <3>1. q = Fails(NoSession) /\ wrote'[c] = wrote[c]
      BY <1>1, <2>6
    <3> QED BY <3>1 DEF Fails, Result
  <2> QED BY <2>3, <2>4, <2>5, <2>6
<1> QED BY <1>4, <1>5

\* A block that goes out again may not hold what its number says; an OACK may go out again.
LEMMA TimeoutFits ==
  ASSUME TypeOK, NEW c \in Clients, Fits(c), Timeout(c)
  PROVE  Fits(c)'
<1> DEFINE r == asked[c]
           s == Retried(sess[c])
<1>1. /\ sess[c] \in Session /\ sess[c].timer /\ sess[c] # NoSession
      /\ \E q \in Results :
           /\ Apply(c, q)
           /\ \/ /\ s \in Session /\ q = SendCurrentBlock(s)
                 /\ resent' = [resent EXCEPT ![c] = @ \/ s.block > 0]
              \/ q = Result(NoSession, {}, "FAILED") /\ resent' = resent
  BY TimeoutTyped
<1>2. r \in Requests /\ r \in Request /\ resent[c] \in BOOLEAN
  BY ClientTyped
<1>3. toServer' = toServer /\ UNCHANGED <<phase, expect, got, asked, cut>>
  BY DEF Timeout, clientVars, lifeVars
<1>4. Reading(c) /\ r.op = "read"
  BY <1>1 DEF Fits, WritingFits, UploadFits, Reading
<1>5. PICK q \in Results :
        /\ Apply(c, q)
        /\ \/ /\ s \in Session /\ q = SendCurrentBlock(s)
              /\ resent' = [resent EXCEPT ![c] = @ \/ s.block > 0]
           \/ q = Result(NoSession, {}, "FAILED") /\ resent' = resent
  BY <1>1
<1>6. SessionFits(sess[c], r, resent[c])
  BY <1>1, <1>4 DEF Fits, SendingFits
<1>7. resent'[c] \in BOOLEAN /\ (resent[c] => resent'[c])
  BY <1>2, <1>5 DEF TypeOK
<1> SUFFICES /\ q.sess # NoSession => SessionFits(q.sess, r, resent'[c])
             /\ \A p \in q.sent : BlockFits(p, r, resent'[c])
             /\ q.told = "OK" /\ Servable(r) => phase[c] = "done"
  BY <1>3, <1>4, <1>5, <1>7, ServedReader
<1>8. CASE q = Result(NoSession, {}, "FAILED")
  BY <1>8 DEF Result
<1>9. CASE /\ s \in Session /\ q = SendCurrentBlock(s)
           /\ resent' = [resent EXCEPT ![c] = @ \/ s.block > 0]
  <2>1. /\ s.block = sess[c].block /\ s.pos = sess[c].pos /\ s.full = sess[c].full
        /\ s.rest = sess[c].rest /\ s.block \in Int /\ s.pos \in Nat
        /\ r.full \in Nat /\ r.rest \in BOOLEAN
    BY <1>1, <1>2 DEF Retried, Session, Request
  <2>2. resent'[c] = (resent[c] \/ s.block > 0)
    BY <1>9 DEF TypeOK
  <2> HIDE DEF s, r
  <2>3. CASE s.block = -1
    <3>1. ~Servable(r)
      BY <1>1, <1>6, <2>1, <2>3 DEF SessionFits
    <3>2. s \in Session /\ s.block # 0 /\ Past(s)
      BY <1>9, <2>3 DEF Past
    <3>3. q = Result(NoSession, {}, "OK")
      BY <1>9, <3>2, Sends
    <3> QED BY <3>1, <3>3 DEF Result
  <2>4. CASE s.block # -1
    <3>1. /\ Servable(r) /\ s.full = r.full /\ s.rest = r.rest
          /\ s.block \in 0 .. r.full + 1
          /\ ~resent[c] => s.pos = IF s.block <= r.full \/ r.rest THEN s.block ELSE r.full
      BY <1>6, <2>1, <2>4 DEF SessionFits
    <3>2. s.block \in 0 .. r.full + 2 /\ s.block # r.full + 2
      BY <2>1, <3>1
    <3>3. ~resent'[c] /\ s.block <= r.full + 1
            => s.pos = IF s.block = 0 THEN 0 ELSE s.block - 1
      <4>1. ASSUME ~resent'[c] PROVE ~resent[c] /\ ~(s.block > 0)
        BY <2>2, <4>1
      <4>2. s.block = 0 /\ ~resent[c] => s.pos = 0
        BY <2>1, <3>1
      <4> QED BY <2>1, <3>1, <4>1, <4>2
    <3> QED BY <1>2, <1>4, <1>7, <1>9, <3>1, <3>2, <3>3, SendFits
  <2> QED BY <2>3, <2>4
<1> QED BY <1>5, <1>8, <1>9

\* What a handler cut short has sent fits as what it would have sent.
LEMMA CutSent ==
  ASSUME TypeOK, NEW c \in Clients, Fits(c), Reading(c)
  PROVE  /\ \A p \in toServer[c] : \A q \in CutResults(c, p) : \A b \in q.sent :
              BlockFits(b, asked[c], resent[c])
         /\ \A q \in CutTimeout(c) : \A b \in q.sent : BlockFits(b, asked[c], resent[c])
<1> DEFINE s == SessionOf(c)
           r == asked[c]
           Sound(q) == \A b \in q.sent : BlockFits(b, r, resent[c])
<1>1. /\ s \in Session /\ r \in Requests /\ resent[c] \in BOOLEAN
      /\ toServer[c] \subseteq Datagram /\ wrote[c] \in Seq(Nat)
  BY ClientTyped
<1>2. SessionFits(s, r, resent[c])
  BY <1>1, FreshFits DEF Fits, SendingFits, SessionOf
<1>3. r.op = "read"
  BY DEF Reading
<1> HIDE DEF s, r
<1>4. /\ Sound(Fails(NoSession)) /\ Sound(Stopped({Pkt("OACK", 0)}, "nothing"))
      /\ Sound(Stopped({}, "OK")) /\ Sound(Stopped({}, "FAILED"))
  BY <1>1, OthersFit DEF Fails, Stopped, Result
<1>5. ASSUME NEW q, Sound(q) PROVE \A z \in CutRequest(q) : Sound(z)
  <2>1. Sound(Ended(q))
    BY <1>5 DEF Ended, Stopped, Result
  <2> HIDE DEF Sound
  <2> QED BY <1>4, <2>1 DEF CutRequest
<1>6. ASSUME NEW p \in toServer[c], NEW q \in CutResults(c, p) PROVE Sound(q)
  <2>1. p.kind \in {"RRQ", "ERR", "ACK"}
    BY DEF Fits, ReaderFits
  <2>2. CASE p.kind = "RRQ"
    <3>1. q \in CutRequest(ReadRequest(s, r))
      BY <1>6, <2>2 DEF CutResults, s, r
    <3>2. Sound(ReadRequest(s, r))
      BY <1>1, <1>3, RequestFits
    <3> HIDE DEF Sound
    <3> QED BY <1>5, <3>1, <3>2
  <2>3. CASE p.kind = "ACK"
    <3>1. q \in CutRequest(Ack(s, p))
      BY <1>6, <2>3 DEF CutResults, s, r
    <3>2. Sound(Ack(s, p))
      BY <1>1, <1>2, <1>3, AckFits
    <3> HIDE DEF Sound
    <3> QED BY <1>5, <3>1, <3>2
  <2>4. CASE p.kind = "ERR"
    BY <1>6, <2>4 DEF CutResults
  <2> QED BY <2>1, <2>2, <2>3, <2>4
<1>7. ASSUME NEW q \in CutTimeout(c) PROVE Sound(q)
  <2> HIDE DEF Sound
  <2> QED BY <1>4, <1>7 DEF CutTimeout
<1> QED BY <1>6, <1>7 DEF r

LEMMA CutWritten ==
  ASSUME TypeOK, NEW c \in Clients, Fits(c), ~Reading(c), asked[c].full < Wrap,
         NEW p \in toServer[c], NEW w \in CutWrote(c, p)
  PROVE  InOrder(w)
<1> DEFINE s == SessionOf(c)
           r == asked[c]
<1>1. /\ s \in Session /\ r \in Requests /\ wrote[c] \in Seq(Nat) /\ p \in Datagram
  BY ClientTyped
<1>2. UploadFits(s, wrote[c]) /\ PartFits(p, r) /\ InOrder(wrote[c])
  BY <1>1, FreshFits DEF Fits, WritingFits, WriterFits, SessionOf
<1>3. \/ w = wrote[c] \/ w = <<>>
      \/ p.kind = "DATA" /\ Writes(s, p) /\ w = Append(wrote[c], p.chunk)
  BY DEF CutWrote
<1>4. CASE w = <<>>
  BY <1>4, EmptySeq DEF InOrder
<1>5. CASE p.kind = "DATA" /\ Writes(s, p) /\ w = Append(wrote[c], p.chunk)
  <2> HIDE DEF s, r
  <2>1. w \in Seq(Nat) /\ w = IF Writes(s, p) THEN Append(wrote[c], p.chunk) ELSE wrote[c]
    BY <1>1, <1>5, AppendProperties DEF Datagram
  <2>2. PartDone(DataBlock(s, p), s, wrote[c], w, r)
    BY ONLY <1>1, <1>2, <1>5, <2>1, PartWritten, Zenon
  <2> QED BY <1>2, <2>2 DEF PartDone, r
<1> QED BY <1>2, <1>3, <1>4, <1>5

LEMMA ChangeFits ==
  ASSUME TypeOK, \A c \in Clients : Fits(c), ChangeServerIp, NEW c \in Clients
  PROVE  Fits(c)'
<1> USE DEF Reading
<1>1. /\ sess'[c] = NoSession
      /\ UNCHANGED <<toServer, phase, expect, got, asked, resent>>
      /\ cut'[c] \/ (~cut[c] /\ ~Uploading(c))
  BY Replaced DEF clientVars
<1>2. \/ UNCHANGED <<told[c], toClient[c], wrote[c]>>
      \/ \E p \in toServer[c] : \E r \in CutResults(c, p) : \E w \in CutWrote(c, p) :
           cut'[c] /\ toClient'[c] = toClient[c] \cup r.sent /\ wrote'[c] = w
      \/ \E r \in CutTimeout(c) :
           cut'[c] /\ toClient'[c] = toClient[c] \cup r.sent /\ wrote'[c] = wrote[c]
  BY Replaced
<1>3. ~cut'[c] => ~cut[c] /\ ~Uploading(c) /\ UNCHANGED <<told[c], wrote[c]>>
  BY <1>1, <1>2
<1>4. ReaderFits(c)' /\ WriterFits(c)'
  BY <1>1 DEF Fits, ReaderFits, WriterFits
<1>5. BlocksFit(c)'
  <2> SUFFICES ASSUME Reading(c), NEW b \in toClient'[c]
               PROVE  BlockFits(b, asked[c], resent[c])
    BY <1>1 DEF BlocksFit
  <2>1. \A q \in toClient[c] : BlockFits(q, asked[c], resent[c])
    BY DEF Fits, BlocksFit
  <2>2. CASE UNCHANGED toClient[c]
    BY <2>1, <2>2
  <2>3. CASE ~UNCHANGED toClient[c]
    BY <1>2, <2>1, <2>3, CutSent
  <2> QED BY <2>2, <2>3
<1>6. SendingFits(c)' /\ SuccessFits(c)'
  BY <1>1, <1>3 DEF Fits, SendingFits, SuccessFits
<1>7. WritingFits(c)'
  <2> SUFFICES ASSUME ~Reading(c), asked[c].full < Wrap
               PROVE  /\ InOrder(wrote'[c])
                      /\ told'[c] = "OK" /\ ~cut'[c] => Len(wrote'[c]) = asked[c].full + 1
    BY <1>1 DEF WritingFits
  <2>1. InOrder(wrote[c])
    BY DEF Fits, WritingFits
  <2>2. InOrder(wrote'[c])
    BY <1>2, <2>1, CutWritten
  <2>3. told'[c] = "OK" /\ ~cut'[c] => Len(wrote'[c]) = asked[c].full + 1
    BY <1>3 DEF Fits, WritingFits
  <2> QED BY <2>2, <2>3
<1> QED BY <1>4, <1>5, <1>6, <1>7 DEF Fits
-----------------------------------------------------------------------------
(* Steps of the clients.                                                     *)

\* A reader's client moves itself and what it sends.
LEMMA ReaderMoved ==
  ASSUME NEW c \in Clients, Fits(c), Reading(c),
         UNCHANGED <<sess, wrote, told, resent, asked, cut>>,
         toClient'[c] \subseteq toClient[c],
         phase[c] = "done" => phase'[c] = "done", ReaderFits(c)'
  PROVE  Fits(c)'
<1> USE DEF Reading
<1>1. BlocksFit(c)'
  BY DEF Fits, BlocksFit
<1>2. SendingFits(c)' /\ SuccessFits(c)'
  BY DEF Fits, SendingFits, SuccessFits
<1>3. WriterFits(c)' /\ WritingFits(c)'
  BY DEF WriterFits, WritingFits
<1> QED BY <1>1, <1>2, <1>3 DEF Fits

\* Likewise a writer's.
LEMMA WriterMoved ==
  ASSUME NEW c \in Clients, Fits(c), ~Reading(c),
         UNCHANGED <<sess, wrote, told, resent, asked, cut>>, WriterFits(c)'
  PROVE  Fits(c)'
<1> USE DEF Reading
<1>1. ReaderFits(c)' /\ BlocksFit(c)' /\ SendingFits(c)' /\ SuccessFits(c)'
  BY DEF ReaderFits, BlocksFit, SendingFits, SuccessFits
<1>2. WritingFits(c)'
  BY DEF Fits, WritingFits, Uploading
<1> QED BY <1>1, <1>2 DEF Fits

LEMMA TakeDataFits ==
  ASSUME TypeOK, NEW c \in Clients, Fits(c), TakeData(c)
  PROVE  ReaderFits(c)'
<1> DEFINE r == asked[c]
           n == Len(got[c])
<1>1. PICK p \in toClient[c] :
        /\ phase[c] = "active" /\ r.op = "read"
        /\ p.kind = "DATA" /\ p.block = expect[c] % Wrap
        /\ got' = [got EXCEPT ![c] = Append(@, p.chunk)]
        /\ expect' = [expect EXCEPT ![c] = @ + 1]
        /\ phase' = [phase EXCEPT ![c] = IF p.last THEN "done" ELSE @]
        /\ Send(c, Pkt("ACK", p.block))
        /\ UNCHANGED <<resent, asked>>
  BY DEF TakeData, serverVars
<1>2. /\ expect[c] \in Nat /\ got[c] \in Seq(Nat) /\ p \in Datagram /\ r \in Request
      /\ n \in Nat
  BY ClientTyped
<1>3. /\ expect[c] = n + 1 /\ n <= r.full + 1 /\ n # r.full + 1
      /\ ~resent[c] => InOrder(got[c])
      /\ \A q \in toServer[c] :
           q.kind \in {"RRQ", "ERR"} \/ (q.kind = "ACK" /\ q.block <= n)
  BY <1>1 DEF Fits, ReaderFits, Reading
<1>4. /\ Servable(r) /\ p.block \in 1 .. r.full + 1
      /\ p.last <=> p.block = r.full + 1
      /\ ~resent[c] => p.chunk = p.block
  BY <1>1 DEF Fits, BlocksFit, BlockFits, Reading
<1>5. /\ r.full \in Nat /\ r.full + 1 < Wrap /\ p.chunk \in Nat /\ p.block \in Nat
      /\ p.last \in BOOLEAN
  BY <1>1, <1>2, <1>4 DEF Request, Servable, Datagram
<1>6. p.block = n + 1
  <2> HIDE DEF n, r
  <2>1. p.block = (n + 1) % Wrap
    BY <1>1, <1>3
  <2>2. n + 1 \in Int /\ n + 1 \in 0 .. Wrap - 1
    <3>1. n \in Nat /\ r.full \in Nat /\ n <= r.full + 1 /\ n # r.full + 1
      BY <1>2, <1>3, <1>5
    <3>2. r.full + 1 < Wrap
      BY <1>5
    <3> QED BY <3>1, <3>2
  <2> QED BY <2>1, <2>2, Numbers
<1>7. /\ got'[c] = Append(got[c], p.chunk) /\ expect'[c] = n + 2
      /\ phase'[c] = IF p.last THEN "done" ELSE "active"
      /\ toServer'[c] = toServer[c] \cup {Pkt("ACK", p.block)}
      /\ asked'[c] = r /\ resent'[c] = resent[c]
  <2>1. got'[c] = Append(got[c], p.chunk) /\ phase'[c] = IF p.last THEN "done" ELSE "active"
    BY <1>1 DEF TypeOK
  <2>2. expect'[c] = expect[c] + 1 /\ toServer'[c] = toServer[c] \cup {Pkt("ACK", p.block)}
    BY <1>1 DEF TypeOK, Send
  <2>3. asked'[c] = r /\ resent'[c] = resent[c] /\ phase[c] = "active"
    BY <1>1
  <2> HIDE DEF n, r
  <2>4. n \in Nat /\ expect[c] = n + 1
    BY <1>2, <1>3
  <2>5. expect'[c] = n + 2
    BY <2>2, <2>4
  <2> QED BY <2>1, <2>2, <2>3, <2>5
<1>8. /\ Len(got'[c]) = n + 1
      /\ got'[c][n + 1] = p.chunk /\ \A i \in 1 .. n : got'[c][i] = got[c][i]
  <2>1. /\ Len(Append(got[c], p.chunk)) = n + 1 /\ Append(got[c], p.chunk)[n + 1] = p.chunk
        /\ \A i \in 1 .. n : Append(got[c], p.chunk)[i] = got[c][i]
    BY <1>2, <1>5, AppendProperties
  <2> QED BY <1>7, <2>1
<1>9. ~resent[c] => InOrder(got'[c])
  <2> SUFFICES ASSUME ~resent[c], NEW i \in 1 .. n + 1 PROVE got'[c][i] = i
    BY <1>8 DEF InOrder
  <2>1. got'[c][n + 1] = n + 1
    BY <1>4, <1>6, <1>8
  <2>2. \A j \in 1 .. n : got'[c][j] = j
    BY <1>3, <1>8 DEF InOrder
  <2> HIDE DEF n
  <2> QED BY <1>2, <2>1, <2>2
<1>10. Pkt("ACK", p.block).kind = "ACK" /\ Pkt("ACK", p.block).block = n + 1
  <2>1. Pkt("ACK", p.block).block = p.block % Wrap /\ Pkt("ACK", p.block).kind = "ACK"
    BY <1>5, Packets DEF Kinds
  <2>2. p.block \in Int /\ p.block \in 0 .. Wrap - 1
    BY <1>4, <1>5
  <2>3. p.block % Wrap = p.block
    BY <2>2, Numbers
  <2> QED BY <1>6, <2>1, <2>3
<1>11. \A q \in toServer'[c] :
         q.kind \in {"RRQ", "ERR"} \/ (q.kind = "ACK" /\ q.block <= n + 1)
  <2> SUFFICES ASSUME NEW q \in toServer[c]
               PROVE  q.kind \in {"RRQ", "ERR"} \/ (q.kind = "ACK" /\ q.block <= n + 1)
    BY <1>2, <1>7, <1>10
  <2>1. q.block \in Nat
    BY ClientTyped DEF Datagram
  <2> QED BY <1>2, <1>3, <2>1
<1> HIDE DEF r, n
<1>12. phase'[c] = "done" <=> Len(got'[c]) = r.full + 1
  BY <1>4, <1>6, <1>7, <1>8
<1>13. Len(got'[c]) <= r.full + 1 /\ expect'[c] = Len(got'[c]) + 1
  BY <1>2, <1>3, <1>5, <1>7, <1>8
<1>14. phase'[c] # "idle"
  BY <1>7
<1> QED BY <1>7, <1>8, <1>9, <1>11, <1>12, <1>13, <1>14 DEF ReaderFits

\* A reader that asks, acknowledges the OACK or gives up has taken nothing.
LEMMA ReaderWaits ==
  ASSUME TypeOK, NEW c \in Clients, Fits(c), Reading(c),
         Ask(c) \/ TakeOack(c) \/ GiveUp(c) \/ AskAgain(c)
  PROVE  ReaderFits(c)'
<1> USE DEF Reading
<1>1. asked[c].op = "read" /\ got' = got /\ asked' = asked /\ resent' = resent
  BY DEF Ask, TakeOack, GiveUp, AskAgain, clientVars, serverVars
<1>2. /\ got[c] \in Seq(Nat) /\ expect[c] \in Nat /\ asked[c] \in Request
      /\ Len(got[c]) \in Nat /\ asked[c].full \in Nat
  BY ClientTyped DEF Request
<1>3. /\ phase[c] = "idle" => got[c] = <<>>
      /\ phase[c] # "idle" => expect[c] = Len(got[c]) + 1
      /\ Len(got[c]) <= asked[c].full + 1
      /\ phase[c] = "done" <=> Len(got[c]) = asked[c].full + 1
      /\ ~resent[c] => InOrder(got[c])
      /\ \A p \in toServer[c] :
           p.kind \in {"RRQ", "ERR"} \/ (p.kind = "ACK" /\ p.block <= Len(got[c]))
  BY DEF Fits, ReaderFits
<1>4. /\ Pkt("RRQ", 0).kind = "RRQ" /\ Err.kind = "ERR"
      /\ Pkt("ACK", 0).kind = "ACK" /\ Pkt("ACK", 0).block = 0
  BY Packets, Numbers, ErrPacket DEF Kinds
<1>5. \A p \in toServer'[c] :
        p.kind \in {"RRQ", "ERR"} \/ (p.kind = "ACK" /\ p.block <= Len(got[c]))
  <2>1. toServer'[c] \subseteq toServer[c] \cup {Pkt("RRQ", 0), Pkt("ACK", 0), Err}
    <3>1. \/ Send(c, Pkt("RRQ", 0)) \/ Send(c, Pkt("ACK", 0)) \/ Send(c, Err)
          \/ toServer' = toServer
      BY <1>1 DEF Ask, TakeOack, GiveUp, AskAgain
    <3> QED BY <3>1 DEF Send, TypeOK
  <2> QED BY <1>2, <1>3, <1>4, <2>1
<1>6. CASE Ask(c)
  <2>1. phase[c] = "idle" /\ phase'[c] = "active" /\ expect'[c] = 1
    BY <1>1, <1>6 DEF Ask, TypeOK
  <2>2. Len(got[c]) = 0
    BY <1>3, <2>1, EmptySeq
  <2> QED BY <1>1, <1>2, <1>3, <1>5, <2>1, <2>2 DEF ReaderFits
<1>7. CASE TakeOack(c) \/ AskAgain(c)
  <2>1. phase' = phase /\ expect' = expect
    BY <1>7 DEF TakeOack, AskAgain, clientVars
  <2> QED BY <1>1, <1>3, <1>5, <2>1 DEF ReaderFits
<1>8. CASE GiveUp(c)
  <2>1. phase[c] = "active" /\ phase'[c] = "gone" /\ expect' = expect
    BY <1>8 DEF GiveUp, TypeOK
  <2> QED BY <1>1, <1>3, <1>5, <2>1 DEF ReaderFits
<1> QED BY <1>6, <1>7, <1>8

LEMMA WriterSends ==
  ASSUME TypeOK, NEW c \in Clients, Fits(c), ~Reading(c), ClientStep(c)
  PROVE  WriterFits(c)'
<1> USE DEF Reading
<1>1. asked' = asked /\ got' = got /\ (Ask(c) \/ TakeAck(c) \/ GiveUp(c) \/ AskAgain(c))
  BY DEF ClientStep, Ask, TakeOack, TakeData, TakeAck, GiveUp, AskAgain, clientVars
<1>2. /\ expect[c] \in Nat /\ asked[c] \in Request /\ asked[c].full \in Nat
  BY ClientTyped DEF Request
<1>3. /\ got[c] = <<>> /\ expect[c] <= asked[c].full + 1
      /\ \A p \in toServer[c] : PartFits(p, asked[c])
  BY DEF Fits, WriterFits
<1>4. PartFits(Pkt("WRQ", 0), asked[c]) /\ PartFits(Err, asked[c])
  BY Packets, ErrPacket DEF PartFits, Kinds
<1>5. CASE Ask(c) \/ GiveUp(c) \/ AskAgain(c)
  <2>1. \/ Send(c, Pkt("WRQ", 0)) \/ Send(c, Err) \/ toServer' = toServer
    BY <1>5 DEF Ask, GiveUp, AskAgain
  <2>2. toServer'[c] \subseteq toServer[c] \cup {Pkt("WRQ", 0), Err} /\ expect' = expect
    BY <1>5, <2>1 DEF Ask, GiveUp, AskAgain, Send, TypeOK, clientVars
  <2> QED BY <1>1, <1>3, <1>4, <2>2 DEF WriterFits
<1>6. CASE TakeAck(c)
  <2> DEFINE b == expect[c] + 1
  <2>1. CASE expect[c] = asked[c].full + 1
    BY <1>1, <1>3, <1>6, <2>1 DEF TakeAck, WriterFits
  <2>2. CASE expect[c] # asked[c].full + 1
    <3>1. b \in 1 .. asked[c].full + 1 /\ b \in Nat
      BY <1>2, <1>3, <2>2
    <3>2. toServer'[c] = toServer[c] \cup {FileBlock(c, b)} /\ expect'[c] = b
      BY <1>6, <2>2 DEF TakeAck, Send, TypeOK
    <3> DEFINE last == b - 1 = asked[c].full
    <3>3. last \in BOOLEAN /\ (last <=> b = asked[c].full + 1)
      BY <1>2, <3>1
    <3>4. FileBlock(c, b) = Data(b, b, last)
      BY DEF FileBlock
    <3> HIDE DEF b, last
    <3>5. PartFits(FileBlock(c, b), asked[c])
      <4>1. \A k \in Nat, l \in BOOLEAN :
              LET e == Data(k, k, l)
              IN  e.kind = "DATA" /\ e.block = k % Wrap /\ e.last = l /\ e.chunk = k
        BY Blocks
      <4>2. LET e == Data(b, b, last)
            IN  e.kind = "DATA" /\ e.block = b % Wrap /\ e.last = last /\ e.chunk = b
        BY <3>1, <3>3, <4>1, Zenon
      <4> QED BY <3>1, <3>3, <3>4, <4>2 DEF PartFits
    <3>6. expect'[c] <= asked[c].full + 1
      BY <1>2, <3>1, <3>2
    <3> QED BY <1>1, <1>3, <3>2, <3>5, <3>6 DEF WriterFits
  <2> QED BY <2>1, <2>2
<1> QED BY <1>1, <1>5, <1>6

LEMMA ClientStepFits ==
  ASSUME TypeOK, NEW c \in Clients, Fits(c), ClientStep(c)
  PROVE  Fits(c)'
<1>1. /\ UNCHANGED <<sess, wrote, told, resent, asked, cut>>
      /\ toClient'[c] \subseteq toClient[c]
  BY ClientStepTyped
<1>2. CASE Reading(c)
  <2>1. Ask(c) \/ TakeOack(c) \/ TakeData(c) \/ GiveUp(c) \/ AskAgain(c)
    BY <1>2 DEF ClientStep, TakeAck, Reading
  <2>2. ReaderFits(c)'
    BY <1>2, <2>1, ReaderWaits, TakeDataFits
  <2>3. phase[c] = "done" => phase'[c] = "done"
    BY <2>1 DEF Ask, TakeOack, TakeData, GiveUp, AskAgain, clientVars
  <2> QED BY <1>1, <1>2, <2>2, <2>3, ReaderMoved
<1>3. CASE ~Reading(c)
  BY <1>1, <1>3, WriterSends, WriterMoved
<1> QED BY <1>2, <1>3
-----------------------------------------------------------------------------
(* The invariant.                                                            *)

\* A step that serves a client, or that a client takes, leaves the others alone.
LEMMA OthersUnmoved ==
  ASSUME TypeOK, NEW c \in Clients, ReadyRead(c) \/ Timeout(c) \/ ClientStep(c),
         NEW d \in Clients \ {c}, Fits(d)
  PROVE  Fits(d)'
<1>1. CASE ReadyRead(c)
  <2>1. PICK p \in toServer[c], r \in Results :
          /\ Arrives(c, p) /\ Apply(c, r)
          /\ \/ wrote' = wrote
             \/ wrote' = [wrote EXCEPT ![c] = IF asked[c].valid THEN <<>> ELSE @]
             \/ wrote' = [wrote EXCEPT ![c] = IF Writes(SessionOf(c), p)
                                              THEN Append(@, p.chunk) ELSE @]
    BY <1>1, Received
  <2>2. sess'[d] = sess[d] /\ told'[d] = told[d] /\ toClient'[d] = toClient[d]
    BY <2>1, Applied
  <2>3. wrote'[d] = wrote[d] /\ toServer'[d] = toServer[d]
    BY <2>1 DEF Arrives, TypeOK
  <2>4. UNCHANGED <<phase, expect, got, asked, resent, cut>>
    BY <2>1 DEF Arrives, clientVars, lifeVars
  <2> QED BY <2>2, <2>3, <2>4, Unmoved
<1>2. CASE Timeout(c)
  <2>1. PICK r \in Results :
          /\ Apply(c, r)
          /\ \/ resent' = [resent EXCEPT ![c] = @ \/ Retried(sess[c]).block > 0]
             \/ resent' = resent
    BY <1>2, TimeoutTyped
  <2>2. sess'[d] = sess[d] /\ told'[d] = told[d] /\ toClient'[d] = toClient[d]
    BY <2>1, Applied
  <2>3. resent'[d] = resent[d]
    BY <2>1 DEF TypeOK
  <2>4. UNCHANGED <<wrote, toServer, phase, expect, got, asked, cut>>
    BY <1>2 DEF Timeout, clientVars, lifeVars
  <2> QED BY <2>2, <2>3, <2>4, Unmoved
<1>3. CASE ClientStep(c)
  BY <1>3, ClientStepTyped, Unmoved
<1> QED BY <1>1, <1>2, <1>3

LEMMA Initially == Init => IInv
<1> SUFFICES ASSUME Init PROVE IInv
  OBVIOUS
<1>1. <<>> \in Seq(Nat) /\ Len(<<>>) = 0
  BY EmptySeq
<1>2. TypeOK
  <2>1. /\ wrote \in [Clients -> Seq(Nat)] /\ got \in [Clients -> Seq(Nat)]
        /\ sess \in [Clients -> Session \cup {NoSession}]
    BY <1>1 DEF Init
  <2>2. /\ toServer \in [Clients -> SUBSET Datagram]
        /\ toClient \in [Clients -> SUBSET Datagram] /\ expect \in [Clients -> Nat]
        /\ told \in [Clients -> {"nothing", "OK", "FAILED"}]
        /\ phase \in [Clients -> {"idle", "active", "done", "gone"}]
    BY DEF Init
  <2>3. /\ asked \in [Clients -> Requests] /\ resent \in [Clients -> BOOLEAN]
        /\ cut \in [Clients -> BOOLEAN] /\ changes \in 0 .. ChangeBound
    BY DEF Init
  <2>4. faulty \in BOOLEAN /\ serving \in IF faulty THEN BOOLEAN ELSE {TRUE}
    BY DEF Init
  <2>5. {faulty, serving} \subseteq BOOLEAN
    BY <2>4, Zenon
  <2> QED BY <2>1, <2>2, <2>3, <2>5 DEF TypeOK
<1>3. ASSUME NEW c \in Clients PROVE Fits(c)
  <2>1. /\ sess[c] = NoSession /\ wrote[c] = <<>> /\ told[c] = "nothing"
        /\ toServer[c] = {} /\ toClient[c] = {} /\ phase[c] = "idle"
        /\ expect[c] = 0 /\ got[c] = <<>> /\ asked[c] \in Request
    BY DEF Init
  <2>2. asked[c].full \in Nat
    BY <2>1 DEF Request
  <2>3. InOrder(<<>>)
    BY <1>1 DEF InOrder
  <2>4. ReaderFits(c) /\ WriterFits(c)
    BY <1>1, <2>1, <2>2, <2>3 DEF ReaderFits, WriterFits
  <2>5. BlocksFit(c) /\ SendingFits(c) /\ SuccessFits(c)
    BY <2>1 DEF BlocksFit, SendingFits, SuccessFits
  <2>6. WritingFits(c)
    BY <2>1, <2>3 DEF WritingFits
  <2> QED BY <2>4, <2>5, <2>6 DEF Fits
<1> QED BY <1>2, <1>3 DEF IInv

LEMMA Inductive == IInv /\ [Next]_vars => IInv'
<1> SUFFICES ASSUME IInv, [Next]_vars PROVE IInv'
  OBVIOUS
<1>1. TypeOK /\ \A c \in Clients : Fits(c)
  BY DEF IInv
<1>2. TypeOK'
  BY <1>1, TypedStep
<1>3. ASSUME NEW c \in Clients, ReadyRead(c) \/ Timeout(c) \/ ClientStep(c),
             NEW d \in Clients
      PROVE  Fits(d)'
  <2>1. CASE d = c
    BY <1>1, <1>3, <2>1, ReadyReadFits, TimeoutFits, ClientStepFits
  <2>2. CASE d # c
    BY <1>1, <1>3, <2>2, OthersUnmoved
  <2> QED BY <2>1, <2>2
<1>4. CASE ChangeServerIp
  BY <1>1, <1>2, <1>4, ChangeFits DEF IInv
<1>5. CASE UNCHANGED vars
  <2>1. \A d \in Clients : Fits(d)'
    BY <1>1, <1>5, Unmoved DEF vars, serverVars, networkVars, clientVars, lifeVars
  <2> QED BY <1>2, <2>1 DEF IInv
<1> QED BY <1>2, <1>3, <1>4, <1>5 DEF Next, IInv

\* What both ends know of a transfer fits: the position the server reads a file from
\* the block it sent, what a client acknowledged what it has, and the block an upload
\* awaits what is written.
THEOREM Invariance == Spec => []IInv
BY Initially, Inductive, PTL DEF Spec

\* Every variable keeps its type: block numbers are those a datagram can have, and the
\* copies are sequences of blocks.
THEOREM TypeCorrect == Spec => []TypeOK
<1>1. IInv => TypeOK
  BY DEF IInv
<1> QED BY <1>1, Invariance, PTL

\* Whatever the network does to the datagrams and whenever the server is replaced, a
\* client receives the blocks of the file in their order, unless sendCurrentBlock sent
\* one again on a timeout.
THEOREM CopyIsClean == Spec => []CleanCopy
<1>1. ASSUME IInv PROVE CleanCopy
  <2> SUFFICES ASSUME NEW c \in Clients, ~resent[c] PROVE InOrder(got[c])
    BY DEF CleanCopy
  <2>1. CASE Reading(c)
    BY <1>1, <2>1 DEF IInv, Fits, ReaderFits
  <2>2. CASE ~Reading(c)
    <3>1. got[c] = <<>> /\ Len(<<>>) = 0
      BY <1>1, <2>2, EmptySeq DEF IInv, Fits, WriterFits
    <3> QED BY <3>1 DEF InOrder
  <2> QED BY <2>1, <2>2
<1> QED BY <1>1, Invariance, PTL

\* fileTransferFinished with success means that the client has every block: the last
\* ACK, the one past the file, comes from a client that has them all.
THEOREM SuccessIsReceived == Spec => []SuccessMeansReceived
<1>1. ASSUME IInv PROVE SuccessMeansReceived
  BY <1>1 DEF IInv, Fits, ReaderFits, SuccessFits, Reading, SuccessMeansReceived
<1> QED BY <1>1, Invariance, PTL

\* A file that a client sends is written in order, and is complete when the server
\* notifies its transfer and until a WRQ empties it.
THEOREM UploadIsComplete == Spec => []UploadComplete
<1>1. ASSUME IInv PROVE UploadComplete
  <2> SUFFICES ASSUME NEW c \in Clients, asked[c].op = "write", asked[c].full < Wrap
               PROVE  /\ InOrder(wrote[c])
                      /\ told[c] = "OK" /\ ~cut[c] /\ ~Uploading(c)
                           => Len(wrote[c]) = asked[c].full + 1
    BY DEF UploadComplete
  <2>1. ~Reading(c)
    BY DEF Reading
  <2> QED BY <1>1, <2>1 DEF IInv, Fits, WritingFits
<1> QED BY <1>1, Invariance, PTL
=============================================================================
