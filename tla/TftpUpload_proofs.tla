-------------------------- MODULE TftpUpload_proofs --------------------------
(***************************************************************************)
(* Proofs about TftpUpload: client_put with the server is a TFTP client    *)
(* with the server, and both sides agree on success, for any uploads and   *)
(* any number of retries whose block numbers do not wrap.                  *)
(***************************************************************************)
EXTENDS TftpUpload, TLAPS

USE UploadsAssumption

AckOf(n) == Tftp!Pkt("ACK", n)
WriteRequest == Tftp!Pkt("WRQ", 0)

\* What the client has sent, and what the server has answered.
Question(c, p) ==
  p = WriteRequest \/ \E n \in 1 .. header[c] : p = Tftp!FileBlock(c, n)
Answer(c, p) ==
  \/ asked[c].valid /\ \E n \in 0 .. header[c] : p = AckOf(n)
  \/ ~asked[c].valid /\ p = Tftp!Err

Types ==
  /\ asked \in [Clients -> Requests] /\ faulty \in BOOLEAN
  /\ sess \in [Clients -> Tftp!Session \cup {NoSession}]
  /\ told \in [Clients -> {"nothing", "OK", "FAILED"}]
  /\ toServer \in [Clients -> SUBSET Tftp!Datagram]
  /\ toClient \in [Clients -> SUBSET Tftp!Datagram]
  /\ step \in [Clients -> {"start", "waiting", "ok", "failed"}]
  /\ header \in [Clients -> Nat] /\ awaited \in [Clients -> Nat]
  /\ attempt \in [Clients -> Nat] /\ looks \in [Clients -> Nat]

\* The ACK awaited is that of the block in the buffer, moved on by the tries made
\* for it, and no further than the block numbers go.
Position(c) ==
  /\ header[c] <= asked[c].full + 1 /\ attempt[c] < Retries
  /\ header[c] > 0 => asked[c].valid
  /\ step[c] = "start" => header[c] = 0
  /\ awaited[c] = IF header[c] = 0 THEN 0 ELSE header[c] + attempt[c]

\* On a faulty network the datagram in the buffer is on its way for good.
Asking(c) ==
  /\ \A p \in toServer[c] : Question(c, p)
  /\ faulty /\ step[c] = "waiting" => Buffer(c) \in toServer[c]

\* The server acknowledges what was sent, and the last block when it has notified
\* success; the session of an upload has no timer.
Answered(c) ==
  /\ \A p \in toClient[c] : Answer(c, p)
  /\ sess[c] # NoSession => ~sess[c].timer
Agreed(c) ==
  /\ asked[c].valid => told[c] # "FAILED"
  /\ AckOf(asked[c].full + 1) \in toClient[c] => told[c] = "OK"
  /\ step[c] = "ok" => asked[c].valid /\ told[c] = "OK"

Fits(c) == Position(c) /\ Asking(c) /\ Answered(c) /\ Agreed(c)
IInv == Types /\ \A c \in Clients : Fits(c)

-----------------------------------------------------------------------------
(* Datagrams.                                                                *)

LEMMA Numbers ==
  ASSUME NEW n \in Int
  PROVE  n % Wrap \in 0 .. Wrap - 1 /\ (n \in 0 .. Wrap - 1 => n % Wrap = n)
<1>1. n % Wrap \in 0 .. Wrap - 1
  OBVIOUS
<1>2. ASSUME n \in 0 .. Wrap - 1 PROVE n % Wrap = n
  BY <1>2
<1> QED BY <1>1, <1>2

LEMMA Packets ==
  ASSUME NEW kind \in {"WRQ", "ACK", "ERR"}, NEW n \in Int
  PROVE  /\ Tftp!Pkt(kind, n) \in Tftp!Datagram /\ Tftp!Pkt(kind, n).kind = kind
         /\ Tftp!Pkt(kind, n).block = n % Wrap
BY Numbers DEF Tftp!Pkt, Tftp!Datagram

LEMMA FileBlocks ==
  ASSUME Types, NEW c \in Clients, NEW n \in Nat
  PROVE  LET p == Tftp!FileBlock(c, n) IN
         /\ p \in Tftp!Datagram /\ p.kind = "DATA" /\ p.block = n % Wrap
         /\ p.last <=> n = asked[c].full + 1
<1>1. asked[c].full \in Nat
  BY DEF Types, Upload
<1>2. /\ (n - 1 = asked[c].full) \in BOOLEAN
      /\ n - 1 = asked[c].full <=> n = asked[c].full + 1
  BY <1>1
<1> DEFINE last == n - 1 = asked[c].full
<1>3. Tftp!FileBlock(c, n) =
        [kind |-> "DATA", block |-> n % Wrap, chunk |-> n, last |-> last]
  BY DEF Tftp!FileBlock, Tftp!Data
<1> HIDE DEF last
<1>4. last \in BOOLEAN /\ (last <=> n = asked[c].full + 1)
  BY <1>2 DEF last
<1>5. n % Wrap \in Nat
  BY Numbers
<1>6. \A b \in BOOLEAN : \A k \in Nat :
        [kind |-> "DATA", block |-> k, chunk |-> n, last |-> b] \in Tftp!Datagram
  BY DEF Tftp!Datagram
<1> QED BY <1>3, <1>4, <1>5, <1>6

\* Numbers below Wrap tell ACKs apart.
LEMMA AcksDiffer ==
  ASSUME NEW m \in 0 .. Wrap - 1, NEW n \in 0 .. Wrap - 1, AckOf(m) = AckOf(n)
  PROVE  m = n
BY Numbers, Packets DEF AckOf

LEMMA NotAnAck ==
  ASSUME NEW n \in Int
  PROVE  AckOf(n) # Tftp!Err
BY Packets DEF AckOf, Tftp!Err

LEMMA ClientTyped ==
  ASSUME Types, NEW c \in Clients
  PROVE  /\ asked[c] \in Requests /\ asked[c] \in Upload /\ asked[c].op = "write"
         /\ asked[c].full \in Nat /\ asked[c].valid \in BOOLEAN
         /\ asked[c].full + Retries < Wrap
         /\ header[c] \in Nat /\ awaited[c] \in Nat /\ attempt[c] \in Nat
         /\ looks[c] \in Nat /\ step[c] \in {"start", "waiting", "ok", "failed"}
BY DEF Types, Upload
-----------------------------------------------------------------------------
(* What the server does with what an uploading client sends.                 *)

LEMMA Sessions ==
  ASSUME Types, NEW c \in Clients
  PROVE  Tftp!SessionOf(c) \in Tftp!Session
BY DEF Types, Tftp!SessionOf, Tftp!Fresh, Tftp!Session

\* A handler's result with the session it may leave and the datagrams it may send.
Allowed(c, r) ==
  /\ r.sess \in Tftp!Session \cup {NoSession} /\ (r.sess # NoSession => ~r.sess.timer)
  /\ r.told \in {"nothing", "OK", "FAILED"} /\ (asked[c].valid => r.told # "FAILED")
  /\ r.sent \subseteq Tftp!Datagram /\ \A p \in r.sent : Answer(c, p)
  /\ AckOf(asked[c].full + 1) \in r.sent => r.told = "OK"

LEMMA Asked ==
  ASSUME IInv, NEW c \in Clients
  PROVE  Allowed(c, Tftp!WriteRequest(Tftp!SessionOf(c), asked[c]))
<1> DEFINE s == Tftp!SessionOf(c)
           asks == [Tftp!Fresh EXCEPT !.full = s.full, !.rest = s.rest]
           opened == [asks EXCEPT !.file = "writing", !.block = 1]
<1>1. s \in Tftp!Session
  BY Sessions DEF IInv
<1>2. asks \in Tftp!Session /\ asks.timer = FALSE
  <2> HIDE DEF s
  <2>1. Tftp!Fresh \in Tftp!Session /\ Tftp!Fresh.timer = FALSE
    BY DEF Tftp!Fresh, Tftp!Session
  <2>2. s.full \in Nat /\ s.rest \in BOOLEAN
    BY <1>1 DEF Tftp!Session
  <2> QED BY <2>1, <2>2 DEF Tftp!Session
<1> HIDE DEF s, asks
<1>3. opened \in Tftp!Session /\ opened.timer = FALSE
  <2>1. ASSUME NEW f \in {"closed", "reading", "writing"}, NEW b \in Int
        PROVE  /\ [asks EXCEPT !.file = f, !.block = b] \in Tftp!Session
               /\ [asks EXCEPT !.file = f, !.block = b].timer = FALSE
    BY <1>2 DEF Tftp!Session
  <2>2. "writing" \in {"closed", "reading", "writing"} /\ 1 \in Int
    OBVIOUS
  <2> QED BY <2>1, <2>2, Zenon
<1>4. CASE asked[c].valid
  <2>1. Tftp!WriteRequest(s, asked[c]) =
          [sess |-> opened, sent |-> {AckOf(0)}, told |-> "nothing"]
    BY <1>4 DEF Tftp!WriteRequest, Tftp!Result, AckOf, asks
  <2>2. AckOf(0) \in Tftp!Datagram /\ Answer(c, AckOf(0))
    BY <1>4, Packets, ClientTyped DEF Answer, AckOf, IInv
  <2>3. AckOf(asked[c].full + 1) # AckOf(0)
    BY ClientTyped, AcksDiffer DEF IInv
  <2> HIDE DEF opened
  <2> QED BY <1>3, <2>1, <2>2, <2>3 DEF s, Allowed
<1>5. CASE ~asked[c].valid
  <2>1. Tftp!WriteRequest(s, asked[c]) =
          [sess |-> asks, sent |-> {Tftp!Err}, told |-> "FAILED"]
    BY <1>5 DEF Tftp!WriteRequest, Tftp!Fails, Tftp!Result, asks
  <2>2. Tftp!Err \in Tftp!Datagram /\ Answer(c, Tftp!Err)
    BY <1>5, Packets DEF Answer, Tftp!Err
  <2>3. AckOf(asked[c].full + 1) # Tftp!Err
    BY ClientTyped, NotAnAck DEF IInv
  <2> QED BY <1>2, <1>5, <2>1, <2>2, <2>3 DEF s, Allowed
<1> QED BY <1>4, <1>5

LEMMA Written ==
  ASSUME IInv, NEW c \in Clients, NEW p \in toServer[c], p.kind = "DATA"
  PROVE  Allowed(c, Tftp!DataBlock(Tftp!SessionOf(c), p))
<1> DEFINE s == Tftp!SessionOf(c)
           final == p.last
<1>1. s \in Tftp!Session /\ s.timer = FALSE
  <2>1. s \in Tftp!Session
    BY Sessions DEF IInv
  <2>2. s.timer = FALSE
    BY <2>1 DEF IInv, Fits, Answered, Tftp!SessionOf, Tftp!Fresh, Tftp!Session
  <2> QED BY <2>1, <2>2
<1>2. PICK n \in 1 .. header[c] : p = Tftp!FileBlock(c, n)
  BY Packets DEF IInv, Fits, Asking, Question, WriteRequest
<1>3. /\ n \in 0 .. Wrap - 1 /\ n \in 0 .. header[c] /\ n <= asked[c].full + 1
      /\ asked[c].valid /\ asked[c].full + 1 \in 0 .. Wrap - 1
  BY <1>2, ClientTyped DEF IInv, Fits, Position
<1>4. p.block = n /\ final \in BOOLEAN /\ (final <=> n = asked[c].full + 1)
  <2> DEFINE b == Tftp!FileBlock(c, n)
  <2>1. n \in Nat
    BY <1>3, ClientTyped DEF IInv
  <2>2. /\ b \in Tftp!Datagram /\ b.block = n % Wrap
        /\ b.last <=> n = asked[c].full + 1
    BY <2>1, FileBlocks DEF IInv
  <2>3. n % Wrap = n
    BY <1>3, <2>1, Numbers
  <2>4. b.last \in BOOLEAN
    BY <2>2 DEF Tftp!Datagram
  <2> HIDE DEF b
  <2> QED BY <1>2, <2>2, <2>3, <2>4 DEF b
<1> HIDE DEF s, final
<1>5. ASSUME NEW t \in Tftp!Session, ~t.timer
      PROVE  Allowed(c, Tftp!Keeps(t))
  BY <1>5 DEF Allowed, Tftp!Keeps, Tftp!Result
<1>6. /\ [s EXCEPT !.retry = s.retry + 1] \in Tftp!Session
      /\ ~[s EXCEPT !.retry = s.retry + 1].timer
  <2>1. s.retry + 1 \in Nat
    BY <1>1 DEF Tftp!Session
  <2> QED BY <1>1, <2>1 DEF Tftp!Session
<1>7. /\ [s EXCEPT !.block = s.block + 1] \in Tftp!Session
      /\ ~[s EXCEPT !.block = s.block + 1].timer
  <2>1. s.block + 1 \in Int
    BY <1>1 DEF Tftp!Session
  <2> QED BY <1>1, <2>1 DEF Tftp!Session
<1>8. s.retry \in Nat /\ Retries \in Nat
  BY <1>1 DEF Tftp!Session
<1>9. CASE ~Tftp!InTurn(s, p)
  <2>1. Tftp!DataBlock(s, p) = Tftp!Keeps([s EXCEPT !.retry = s.retry + 1])
    BY <1>9 DEF Tftp!DataBlock, Tftp!Writes
  <2> QED BY <1>5, <1>6, <2>1 DEF s
<1>10. CASE Tftp!InTurn(s, p) /\ s.retry > Retries
  <2>1. ~Tftp!Writes(s, p)
    BY <1>8, <1>10 DEF Tftp!Writes
  <2>2. Tftp!DataBlock(s, p) = Tftp!Keeps(s)
    BY <1>10, <2>1 DEF Tftp!DataBlock
  <2> QED BY <1>1, <1>5, <2>2 DEF s
<1>11. CASE Tftp!InTurn(s, p) /\ ~(s.retry > Retries)
  <2>1. Tftp!Writes(s, p) /\ s.block = n
    BY <1>4, <1>8, <1>11 DEF Tftp!Writes, Tftp!InTurn
  <2>2. Tftp!DataBlock(s, p) =
          [sess |-> IF final THEN NoSession ELSE [s EXCEPT !.block = s.block + 1],
           sent |-> {AckOf(n)}, told |-> IF final THEN "OK" ELSE "nothing"]
    BY <1>11, <2>1 DEF Tftp!DataBlock, Tftp!Result, Tftp!EndsUpload, AckOf, final
  <2>3. AckOf(n) \in Tftp!Datagram /\ Answer(c, AckOf(n))
    BY <1>3, Packets DEF Answer, AckOf
  <2>4. AckOf(asked[c].full + 1) = AckOf(n) => final
    BY <1>3, <1>4, AcksDiffer
  <2> QED BY <1>3, <1>4, <1>7, <2>2, <2>3, <2>4 DEF s, Allowed
<1> QED BY <1>9, <1>10, <1>11

\* The server handles a datagram of an uploading client.
LEMMA Handled ==
  ASSUME IInv, NEW c \in Clients, Tftp!ReadyRead(c)
  PROVE  \E p \in toServer[c] : \E r :
           Tftp!Arrives(c, p) /\ Tftp!Apply(c, r) /\ Allowed(c, r)
<1> DEFINE s == Tftp!SessionOf(c)
<1>1. PICK p \in toServer[c] :
        \/ Tftp!ReceiveRRQ(c, p) \/ Tftp!ReceiveWRQ(c, p) \/ Tftp!ReceiveData(c, p)
        \/ Tftp!ReceiveAck(c, p) \/ Tftp!ReceiveOther(c, p)
  BY DEF Tftp!ReadyRead
<1>2. Question(c, p)
  BY DEF IInv, Fits, Asking
<1>3. header[c] \in Nat
  BY ClientTyped DEF IInv
<1>4. p.kind = "WRQ" \/ p.kind = "DATA"
  BY <1>2, <1>3, Packets, FileBlocks DEF Question, WriteRequest, IInv
<1>5. CASE Tftp!ReceiveWRQ(c, p)
  <2>1. Tftp!Arrives(c, p) /\ Tftp!Apply(c, Tftp!WriteRequest(s, asked[c]))
    BY <1>5 DEF Tftp!ReceiveWRQ
  <2> QED BY <2>1, Asked
<1>6. CASE Tftp!ReceiveData(c, p)
  <2>1. Tftp!Arrives(c, p) /\ Tftp!Apply(c, Tftp!DataBlock(s, p)) /\ p.kind = "DATA"
    BY <1>6 DEF Tftp!ReceiveData
  <2> QED BY <2>1, Written
<1>7. ~Tftp!ReceiveRRQ(c, p) /\ ~Tftp!ReceiveAck(c, p) /\ ~Tftp!ReceiveOther(c, p)
  BY <1>4 DEF Tftp!ReceiveRRQ, Tftp!ReceiveAck, Tftp!ReceiveOther
<1> QED BY <1>1, <1>5, <1>6, <1>7
-----------------------------------------------------------------------------
(* Steps of the server keep the invariant.                                   *)

LEMMA ServerKeeps ==
  ASSUME IInv, NEW c \in Clients, ServerStep(c)
  PROVE  IInv'
<1>1. ~Tftp!Timeout(c)
  BY DEF IInv, Fits, Answered, Tftp!Timeout
<1>2. UNCHANGED putVars /\ Tftp!ReadyRead(c)
  BY <1>1 DEF ServerStep
<1>3. PICK p \in toServer[c] : \E r :
        Tftp!Arrives(c, p) /\ Tftp!Apply(c, r) /\ Allowed(c, r)
  BY <1>2, Handled
<1>4. PICK r : Tftp!Arrives(c, p) /\ Tftp!Apply(c, r) /\ Allowed(c, r)
  BY <1>3
<1>5. /\ step' = step /\ header' = header /\ awaited' = awaited
      /\ attempt' = attempt /\ looks' = looks /\ asked' = asked /\ faulty' = faulty
  BY <1>2, <1>4 DEF putVars, Tftp!Arrives
<1>6. /\ toServer' \in [Clients -> SUBSET Tftp!Datagram]
      /\ \A d \in Clients : toServer'[d] \subseteq toServer[d]
      /\ faulty => \A d \in Clients : toServer'[d] = toServer[d]
  BY <1>4 DEF Tftp!Arrives, IInv, Types
<1>7. /\ sess' \in [Clients -> Tftp!Session \cup {NoSession}]
      /\ sess'[c] = r.sess /\ \A d \in Clients \ {c} : sess'[d] = sess[d]
  BY <1>4 DEF Tftp!Apply, Allowed, IInv, Types
<1>8. /\ toClient' \in [Clients -> SUBSET Tftp!Datagram]
      /\ toClient'[c] = toClient[c] \cup r.sent
      /\ \A d \in Clients \ {c} : toClient'[d] = toClient[d]
  BY <1>4 DEF Tftp!Apply, Allowed, IInv, Types
<1>9. /\ told' \in [Clients -> {"nothing", "OK", "FAILED"}]
      /\ told'[c] = IF r.told = "nothing" THEN told[c] ELSE r.told
      /\ \A d \in Clients \ {c} : told'[d] = told[d]
  BY <1>4 DEF Tftp!Apply, Allowed, IInv, Types
<1>10. Types'
  BY <1>5, <1>6, <1>7, <1>8, <1>9 DEF IInv, Types
<1>11. ASSUME NEW d \in Clients PROVE Fits(d)'
  <2>1. Fits(d)
    BY DEF IInv
  <2>2. Position(d)'
    BY <1>5, <2>1 DEF Fits, Position
  <2>3. Asking(d)'
    <3>1. \A q \in toServer'[d] : Question(d, q)'
      BY <1>5, <1>6, <2>1 DEF Fits, Asking, Question, Tftp!FileBlock
    <3>2. ASSUME faulty', step'[d] = "waiting" PROVE Buffer(d)' \in toServer'[d]
      BY <1>5, <1>6, <2>1, <3>2 DEF Fits, Asking, Buffer, Tftp!FileBlock
    <3> QED BY <3>1, <3>2 DEF Asking
  <2>4. Answered(d)' /\ Agreed(d)'
    <3>1. CASE d # c
      BY <1>5, <1>7, <1>8, <1>9, <2>1, <3>1 DEF Fits, Answered, Agreed, Answer
    <3>2. CASE d = c
      <4>1. \A q \in toClient'[c] : Answer(c, q)'
        BY <1>4, <1>5, <1>8, <2>1, <3>2 DEF Fits, Answered, Answer, Allowed
      <4>2. sess'[c] # NoSession => ~sess'[c].timer
        BY <1>4, <1>7 DEF Allowed
      <4>3. Agreed(c)'
        <5> DEFINE final == AckOf(asked[c].full + 1)
        <5>1. final \in toClient[c] => asked[c].valid
          BY <2>1, <3>2, ClientTyped, NotAnAck DEF Fits, Answered, Answer, IInv
        <5>2. final' = final
          BY <1>5 DEF AckOf, Tftp!Pkt
        <5> HIDE DEF final
        <5>3. asked[c].valid => told[c] # "FAILED"
          BY <2>1, <3>2 DEF Fits, Agreed
        <5>4. told[c] = "OK" /\ asked[c].valid => told'[c] = "OK"
          BY <1>4, <1>9 DEF Allowed
        <5>5. final \in toClient'[c] => told'[c] = "OK"
          <6>1. final \in toClient[c] => told[c] = "OK"
            BY <2>1, <3>2 DEF Fits, Agreed, final
          <6>2. final \in r.sent => r.told = "OK"
            BY <1>4 DEF Allowed, final
          <6> QED BY <1>8, <1>9, <5>1, <5>4, <6>1, <6>2
        <5>6. step'[c] = "ok" => asked'[c].valid /\ told'[c] = "OK"
          BY <1>5, <2>1, <3>2, <5>4 DEF Fits, Agreed
        <5>7. asked'[c].valid => told'[c] # "FAILED"
          BY <1>4, <1>5, <1>9, <5>3 DEF Allowed
        <5> QED BY <5>2, <5>5, <5>6, <5>7 DEF Agreed, final
      <4> QED BY <3>2, <4>1, <4>2, <4>3 DEF Answered
    <3> QED BY <3>1, <3>2
  <2> QED BY <2>2, <2>3, <2>4 DEF Fits
<1> QED BY <1>10, <1>11 DEF IInv
-----------------------------------------------------------------------------
(* Steps of client_put keep it too.                                          *)

\* A client that sends the datagram that is, or now comes to be, in its buffer.
LEMMA SendKeeps ==
  ASSUME IInv, NEW c \in Clients, NEW p \in Tftp!Datagram, Tftp!Send(c, p),
         asked' = asked, faulty' = faulty, p = Buffer(c)',
         header' \in [Clients -> Nat], header[c] <= header'[c],
         \A d \in Clients \ {c} : header'[d] = header[d] /\ step'[d] = step[d]
  PROVE  /\ toServer' \in [Clients -> SUBSET Tftp!Datagram]
         /\ \A d \in Clients : Asking(d)'
<1>1. /\ toServer' \in [Clients -> SUBSET Tftp!Datagram]
      /\ toServer'[c] = toServer[c] \cup {p}
      /\ \A d \in Clients \ {c} : toServer'[d] = toServer[d]
  BY DEF Tftp!Send, IInv, Types
<1>2. ASSUME NEW d \in Clients \ {c} PROVE Asking(d)'
  BY <1>1, <1>2 DEF IInv, Fits, Asking, Question, Buffer, Tftp!FileBlock
<1>3. header[c] \in Nat /\ header'[c] \in Nat
  BY DEF IInv, Types
<1>4. Question(c, p)'
  BY <1>3 DEF Question, Buffer, WriteRequest
<1>5. ASSUME NEW q \in toServer[c] PROVE Question(c, q)'
  <2>1. Question(c, q)
    BY DEF IInv, Fits, Asking
  <2> QED BY <1>3, <2>1 DEF Question, Tftp!FileBlock
<1>6. Asking(c)'
  BY <1>1, <1>4, <1>5 DEF Asking
<1> QED BY <1>1, <1>2, <1>6

\* The ACK that client_put accepts is that of the block in its buffer.
LEMMA AckIsOfBuffer ==
  ASSUME IInv, NEW c \in Clients, AckArrives(c)
  PROVE  /\ awaited[c] = header[c] /\ asked[c].valid /\ header[c] <= asked[c].full + 1
         /\ AckOf(header[c]) \in toClient[c]
         /\ toClient' = [toClient EXCEPT ![c] =
                           IF faulty THEN @ ELSE @ \ {AckOf(header[c])}]
<1>1. step[c] = "waiting" /\ AckOf(awaited[c]) \in toClient[c]
  BY DEF AckArrives, IsAwaited, AckOf
<1>2. /\ asked[c].full + Retries < Wrap /\ asked[c].full \in Nat
      /\ header[c] \in Nat /\ attempt[c] \in Nat /\ awaited[c] \in Nat
  BY ClientTyped DEF IInv
<1>3. /\ header[c] <= asked[c].full + 1 /\ attempt[c] < Retries
      /\ awaited[c] = IF header[c] = 0 THEN 0 ELSE header[c] + attempt[c]
  BY <1>1 DEF IInv, Fits, Position
<1>4. awaited[c] \in 0 .. Wrap - 1 /\ header[c] <= awaited[c]
  BY <1>2, <1>3
<1>5. asked[c].valid /\ \E n \in 0 .. header[c] : AckOf(awaited[c]) = AckOf(n)
  BY <1>1, <1>2, NotAnAck DEF IInv, Fits, Answered, Answer
<1>6. awaited[c] = header[c]
  <2>1. PICK n \in 0 .. header[c] : AckOf(awaited[c]) = AckOf(n)
    BY <1>5
  <2>2. n \in 0 .. Wrap - 1
    BY <1>2, <1>3, <1>4, <2>1
  <2>3. awaited[c] = n
    BY <1>4, <2>1, <2>2, AcksDiffer
  <2> QED BY <1>2, <1>4, <2>1, <2>3
<1> QED BY <1>1, <1>3, <1>5, <1>6 DEF AckArrives, AckOf

\* What a step of one client leaves to the others.
LEMMA OthersKeep ==
  ASSUME IInv, NEW c \in Clients, NEW d \in Clients \ {c},
         UNCHANGED <<sess, told, asked, faulty>>,
         step'[d] = step[d], header'[d] = header[d], awaited'[d] = awaited[d],
         attempt'[d] = attempt[d], toClient'[d] = toClient[d]
  PROVE  Position(d)' /\ Answered(d)' /\ Agreed(d)'
BY DEF IInv, Fits, Position, Answered, Answer, Agreed, AckOf, Tftp!Pkt, Tftp!Err

LEMMA PutKeeps ==
  ASSUME IInv, NEW c \in Clients, Put(c)
  PROVE  IInv'
<1>1. /\ step[c] = "start" /\ step' = [step EXCEPT ![c] = "waiting"]
      /\ Tftp!Send(c, Buffer(c))
      /\ UNCHANGED <<sess, told, toClient, faulty, asked>>
      /\ UNCHANGED <<header, awaited, attempt, looks>>
  BY DEF Put, serverVars
<1>2. header[c] = 0 /\ Buffer(c) = WriteRequest /\ Buffer(c)' = WriteRequest
  BY <1>1 DEF IInv, Fits, Position, Buffer, WriteRequest
<1>3. /\ step' \in [Clients -> {"start", "waiting", "ok", "failed"}]
      /\ step'[c] = "waiting" /\ \A d \in Clients \ {c} : step'[d] = step[d]
  BY <1>1 DEF IInv, Types
<1>4. /\ toServer' \in [Clients -> SUBSET Tftp!Datagram]
      /\ \A d \in Clients : Asking(d)'
  <2>1. WriteRequest \in Tftp!Datagram
    BY Packets DEF WriteRequest
  <2>2. header' \in [Clients -> Nat] /\ header[c] <= header'[c]
    BY <1>1 DEF IInv, Types
  <2>3. \A d \in Clients \ {c} : header'[d] = header[d] /\ step'[d] = step[d]
    BY <1>1, <1>3
  <2>4. Tftp!Send(c, WriteRequest)
    BY <1>1, <1>2
  <2> QED BY <1>1, <1>2, <2>1, <2>2, <2>3, <2>4, SendKeeps
<1>5. Types'
  BY <1>1, <1>3, <1>4 DEF IInv, Types
<1>6. ASSUME NEW d \in Clients PROVE Position(d)' /\ Answered(d)' /\ Agreed(d)'
  <2>1. CASE d # c
    BY <1>1, <1>3, <2>1, OthersKeep
  <2>2. CASE d = c
    BY <1>1, <1>3, <2>2 DEF IInv, Fits, Position, Answered, Answer, Agreed, AckOf,
       Tftp!Pkt, Tftp!Err
  <2> QED BY <2>1, <2>2
<1> QED BY <1>4, <1>5, <1>6 DEF IInv, Fits

LEMMA AckKeeps ==
  ASSUME IInv, NEW c \in Clients, AckArrives(c)
  PROVE  IInv'
<1> DEFINE next == awaited[c] + 1
<1>1. /\ awaited[c] = header[c] /\ asked[c].valid /\ header[c] <= asked[c].full + 1
      /\ AckOf(header[c]) \in toClient[c]
  BY AckIsOfBuffer
<1>2. /\ step[c] = "waiting"
      /\ attempt' = [attempt EXCEPT ![c] = 0] /\ looks' = [looks EXCEPT ![c] = 0]
      /\ UNCHANGED <<sess, told, faulty, asked>>
  BY DEF AckArrives
<1>3. /\ toClient' \in [Clients -> SUBSET Tftp!Datagram]
      /\ toClient'[c] \subseteq toClient[c]
      /\ \A d \in Clients \ {c} : toClient'[d] = toClient[d]
  BY AckIsOfBuffer DEF IInv, Types
<1>4. /\ attempt' \in [Clients -> Nat] /\ looks' \in [Clients -> Nat]
      /\ attempt'[c] = 0 /\ \A d \in Clients \ {c} : attempt'[d] = attempt[d]
  BY <1>2 DEF IInv, Types
<1>5. /\ header[c] \in Nat /\ awaited[c] \in Nat /\ next \in Nat
      /\ asked[c].full \in Nat /\ Retries \in Nat \ {0}
  BY ClientTyped DEF IInv
<1>6. ASSUME LastSent(c)
      PROVE  /\ step' \in [Clients -> {"start", "waiting", "ok", "failed"}]
             /\ step'[c] = "ok" /\ \A d \in Clients \ {c} : step'[d] = step[d]
             /\ header' = header /\ awaited' = awaited /\ toServer' = toServer
  BY <1>6 DEF AckArrives, IInv, Types
<1>7. ASSUME ~LastSent(c)
      PROVE  /\ step' = step /\ Tftp!Send(c, Tftp!FileBlock(c, next))
             /\ header' \in [Clients -> Nat] /\ awaited' \in [Clients -> Nat]
             /\ header'[c] = next /\ awaited'[c] = next
             /\ \A d \in Clients \ {c} : header'[d] = header[d] /\ awaited'[d] = awaited[d]
  <2>1. /\ header' = [header EXCEPT ![c] = next] /\ awaited' = [awaited EXCEPT ![c] = next]
        /\ step' = step /\ Tftp!Send(c, Tftp!FileBlock(c, next))
    BY <1>7 DEF AckArrives
  <2> HIDE DEF next
  <2> QED BY <1>5, <2>1 DEF IInv, Types
<1>8. toServer' \in [Clients -> SUBSET Tftp!Datagram] /\ \A d \in Clients : Asking(d)'
  <2>1. CASE LastSent(c)
    <3>1. toServer' \in [Clients -> SUBSET Tftp!Datagram]
      BY <1>6, <2>1 DEF IInv, Types
    <3>2. ASSUME NEW d \in Clients PROVE Asking(d)'
      BY <1>2, <1>6, <2>1 DEF IInv, Fits, Asking, Question, Buffer, Tftp!FileBlock
    <3> QED BY <3>1, <3>2
  <2>2. CASE ~LastSent(c)
    <3>1. Tftp!FileBlock(c, next) \in Tftp!Datagram
      BY <1>5, FileBlocks DEF IInv
    <3>2. Buffer(c)' = Tftp!FileBlock(c, next)
      <4>1. header'[c] # 0
        BY <1>5, <1>7, <2>2
      <4>2. Buffer(c)' = Tftp!FileBlock(c, header[c])'
        BY <4>1 DEF Buffer
      <4> HIDE DEF next
      <4> QED BY <1>2, <1>7, <2>2, <4>2 DEF Tftp!FileBlock
    <3>3. header[c] <= header'[c]
      BY <1>1, <1>5, <1>7, <2>2
    <3> HIDE DEF next
    <3> QED BY <1>2, <1>7, <2>2, <3>1, <3>2, <3>3, SendKeeps
  <2> QED BY <2>1, <2>2
<1>9. Types'
  BY <1>2, <1>3, <1>4, <1>6, <1>7, <1>8 DEF IInv, Types
<1>10. ASSUME NEW d \in Clients \ {c} PROVE Position(d)' /\ Answered(d)' /\ Agreed(d)'
  <2>1. step'[d] = step[d] /\ header'[d] = header[d] /\ awaited'[d] = awaited[d]
    BY <1>6, <1>7
  <2> QED BY <1>2, <1>3, <1>4, <2>1, OthersKeep
<1>11. Position(c)'
  <2>1. CASE LastSent(c)
    BY <1>1, <1>2, <1>4, <1>5, <1>6, <2>1 DEF Position, LastSent
  <2>2. CASE ~LastSent(c)
    BY <1>1, <1>2, <1>4, <1>5, <1>7, <2>2 DEF Position, LastSent
  <2> QED BY <2>1, <2>2
<1>12. Answered(c)'
  <2>1. ASSUME NEW q \in toClient'[c] PROVE Answer(c, q)'
    <3>1. Answer(c, q)
      BY <1>3 DEF IInv, Fits, Answered
    <3>2. header'[c] \in Nat /\ header[c] <= header'[c]
      BY <1>1, <1>5, <1>6, <1>7
    <3> QED BY <1>1, <1>2, <1>5, <3>1, <3>2 DEF Answer, AckOf, Tftp!Pkt
  <2> QED BY <1>2, <2>1 DEF IInv, Fits, Answered
<1>13. Agreed(c)'
  <2>1. Agreed(c)
    BY DEF IInv, Fits
  <2>2. CASE LastSent(c)
    <3>1. told[c] = "OK"
      BY <1>1, <2>1, <2>2 DEF Agreed, LastSent
    <3> QED BY <1>1, <1>2, <3>1 DEF Agreed
  <2>3. CASE ~LastSent(c)
    BY <1>2, <1>3, <1>7, <2>1, <2>3 DEF Agreed, AckOf, Tftp!Pkt
  <2> QED BY <2>2, <2>3
<1> QED BY <1>8, <1>9, <1>10, <1>11, <1>12, <1>13 DEF IInv, Fits

LEMMA LookKeeps ==
  ASSUME IInv, NEW c \in Clients, LookFails(c)
  PROVE  IInv'
<1>1. /\ UNCHANGED <<sess, told, toClient, faulty, asked>> /\ toServer' = toServer
      /\ step' = step /\ header' = header /\ awaited' = awaited /\ attempt' = attempt
      /\ looks' = [looks EXCEPT ![c] = looks[c] + 1]
  BY DEF LookFails, Looked, serverVars
<1>2. Types'
  BY <1>1 DEF IInv, Types
<1>3. ASSUME NEW d \in Clients PROVE Fits(d)'
  <2>1. Position(d)'
    BY <1>1 DEF IInv, Fits, Position
  <2>2. Asking(d)'
    BY <1>1 DEF IInv, Fits, Asking, Question, Buffer, Tftp!FileBlock
  <2>3. Answered(d)' /\ Agreed(d)'
    BY <1>1 DEF IInv, Fits, Answered, Answer, Agreed
  <2> QED BY <2>1, <2>2, <2>3 DEF Fits
<1> QED BY <1>2, <1>3 DEF IInv

LEMMA SendAgainKeeps ==
  ASSUME IInv, NEW c \in Clients, SendAgain(c)
  PROVE  IInv'
<1>1. /\ UNCHANGED <<sess, told, toClient, faulty, asked>>
      /\ step' = step /\ header' = header /\ step[c] = "waiting"
      /\ looks' = [looks EXCEPT ![c] = 0] /\ attempt' = [attempt EXCEPT ![c] = @ + 1]
      /\ awaited' = [awaited EXCEPT ![c] = AwaitedNext(c)]
      /\ attempt[c] + 1 < Retries /\ Tftp!Send(c, Buffer(c))
  BY DEF SendAgain, serverVars
<1>2. /\ asked[c].full + Retries < Wrap /\ asked[c].full \in Nat
      /\ header[c] \in Nat /\ attempt[c] \in Nat /\ awaited[c] \in Nat
  BY ClientTyped DEF IInv
<1>3. /\ header[c] <= asked[c].full + 1
      /\ awaited[c] = IF header[c] = 0 THEN 0 ELSE header[c] + attempt[c]
  BY DEF IInv, Fits, Position
\* A try is left, so the number moved on has not wrapped.
<1>4. AwaitedNext(c) = IF header[c] = 0 THEN 0 ELSE header[c] + (attempt[c] + 1)
  <2>1. CASE header[c] = 0
    BY <2>1 DEF AwaitedNext
  <2>2. CASE header[c] # 0
    <3>1. awaited[c] + 1 \in 0 .. Wrap - 1
      BY <1>1, <1>2, <1>3, <2>2
    <3>2. AwaitedNext(c) = awaited[c] + 1
      BY <2>2, <3>1, Numbers DEF AwaitedNext
    <3> QED BY <1>2, <1>3, <2>2, <3>2
  <2> QED BY <2>1, <2>2
<1>5. AwaitedNext(c) \in Nat /\ attempt[c] + 1 \in Nat
  BY <1>2, <1>4
<1>6. /\ looks' \in [Clients -> Nat] /\ attempt' \in [Clients -> Nat]
      /\ awaited' \in [Clients -> Nat]
      /\ attempt'[c] = attempt[c] + 1 /\ awaited'[c] = AwaitedNext(c)
      /\ \A d \in Clients \ {c} : attempt'[d] = attempt[d] /\ awaited'[d] = awaited[d]
  BY <1>1, <1>5 DEF IInv, Types
<1>7. /\ toServer' \in [Clients -> SUBSET Tftp!Datagram]
      /\ \A d \in Clients : Asking(d)'
  <2>1. Buffer(c) \in Tftp!Datagram
    BY <1>2, Packets, FileBlocks DEF Buffer, IInv
  <2>2. Buffer(c)' = Buffer(c)
    BY <1>1 DEF Buffer, Tftp!FileBlock
  <2>3. header' \in [Clients -> Nat] /\ header[c] <= header'[c]
    BY <1>1, <1>2 DEF IInv, Types
  <2> QED BY <1>1, <2>1, <2>2, <2>3, SendKeeps
<1>8. Types'
  BY <1>1, <1>6, <1>7 DEF IInv, Types
<1>9. ASSUME NEW d \in Clients \ {c} PROVE Position(d)' /\ Answered(d)' /\ Agreed(d)'
  BY <1>1, <1>6, OthersKeep
<1>10. Position(c)'
  BY <1>1, <1>3, <1>4, <1>6 DEF IInv, Fits, Position
<1>11. Answered(c)' /\ Agreed(c)'
  BY <1>1 DEF IInv, Fits, Answered, Answer, Agreed
<1> QED BY <1>7, <1>8, <1>9, <1>10, <1>11 DEF IInv, Fits

LEMMA AbandonKeeps ==
  ASSUME IInv, NEW c \in Clients, Abandon(c)
  PROVE  IInv'
<1>1. /\ UNCHANGED <<sess, told, toClient, faulty, asked>> /\ toServer' = toServer
      /\ header' = header /\ awaited' = awaited /\ attempt' = attempt /\ looks' = looks
      /\ step' = [step EXCEPT ![c] = "failed"]
  BY DEF Abandon, serverVars
<1>2. /\ step' \in [Clients -> {"start", "waiting", "ok", "failed"}]
      /\ step'[c] = "failed" /\ \A d \in Clients \ {c} : step'[d] = step[d]
  BY <1>1 DEF IInv, Types
<1>3. Types'
  BY <1>1, <1>2 DEF IInv, Types
<1>4. ASSUME NEW d \in Clients PROVE Fits(d)'
  <2>1. step'[d] = step[d] \/ step'[d] = "failed"
    BY <1>2
  <2>2. Position(d)'
    BY <1>1, <2>1 DEF IInv, Fits, Position
  <2>3. Asking(d)'
    BY <1>1, <2>1 DEF IInv, Fits, Asking, Question, Buffer, Tftp!FileBlock
  <2>4. Answered(d)' /\ Agreed(d)'
    BY <1>1, <2>1 DEF IInv, Fits, Answered, Answer, Agreed
  <2> QED BY <2>2, <2>3, <2>4 DEF Fits
<1> QED BY <1>3, <1>4 DEF IInv
-----------------------------------------------------------------------------
LEMMA InitHolds == Init => IInv
<1> SUFFICES ASSUME Init PROVE IInv
  OBVIOUS
<1>1. /\ asked \in [Clients -> Requests] /\ faulty \in BOOLEAN
      /\ sess = [c \in Clients |-> NoSession] /\ told = [c \in Clients |-> "nothing"]
      /\ toServer = [c \in Clients |-> {}] /\ toClient = [c \in Clients |-> {}]
  BY DEF Init, Tftp!Init
<1>2. Types
  BY <1>1 DEF Init, Types
<1>3. ASSUME NEW c \in Clients PROVE Fits(c)
  <2>1. Position(c)
    BY <1>2, ClientTyped DEF Init, Position
  <2>2. Asking(c) /\ Answered(c) /\ Agreed(c)
    BY <1>1 DEF Init, Asking, Answered, Agreed
  <2> QED BY <2>1, <2>2 DEF Fits
<1> QED BY <1>2, <1>3 DEF IInv

LEMMA StutterKeeps == IInv /\ UNCHANGED vars => IInv'
<1> SUFFICES ASSUME IInv, UNCHANGED vars PROVE IInv'
  OBVIOUS
<1>1. /\ UNCHANGED <<sess, told, toClient, faulty, asked, toServer>>
      /\ UNCHANGED <<step, header, awaited, attempt, looks>>
  BY DEF vars, putVars
<1>2. Types'
  BY <1>1 DEF IInv, Types
<1>3. ASSUME NEW d \in Clients PROVE Fits(d)'
  <2>1. Position(d)'
    BY <1>1 DEF IInv, Fits, Position
  <2>2. Asking(d)'
    BY <1>1 DEF IInv, Fits, Asking, Question, Buffer, Tftp!FileBlock
  <2>3. Answered(d)' /\ Agreed(d)'
    BY <1>1 DEF IInv, Fits, Answered, Answer, Agreed
  <2> QED BY <2>1, <2>2, <2>3 DEF Fits
<1> QED BY <1>2, <1>3 DEF IInv

LEMMA NextKeeps == IInv /\ [Next]_vars => IInv'
<1> SUFFICES ASSUME IInv, [Next]_vars PROVE IInv'
  OBVIOUS
<1>1. CASE Next
  <2>1. PICK c \in Clients : ClientPut(c) \/ ServerStep(c)
    BY <1>1 DEF Next
  <2>2. CASE ClientPut(c)
    BY <2>2, PutKeeps, AckKeeps, LookKeeps, SendAgainKeeps, AbandonKeeps DEF ClientPut
  <2> QED BY <2>1, <2>2, ServerKeeps
<1>2. CASE UNCHANGED vars
  BY <1>2, StutterKeeps
<1> QED BY <1>1, <1>2

\* The inductive invariant holds in every reachable state, for any uploads whose block
\* numbers do not wrap and any number of retries: the ACK awaited has moved on by the
\* tries made, and the server acknowledges only what client_put has sent.
THEOREM Invariance == Spec => []IInv
BY InitHolds, NextKeeps, PTL DEF Spec

\* When client_put reports success the server has notified it as well.
THEOREM BothReportSuccess == Spec => []OkOnBothSides
<1>1. IInv => OkOnBothSides
  BY DEF IInv, Fits, Agreed, OkOnBothSides
<1> QED BY <1>1, Invariance, PTL
-----------------------------------------------------------------------------
(* client_put is a TFTP client: each of its steps is one of the client of    *)
(* TftpServer, or none, and the server's steps are the server's.             *)

\* Where client_put is, as the client's phase.
PhaseOf(s) ==
  CASE s = "start"   -> "idle"
    [] s = "waiting" -> "active"
    [] s = "ok"      -> "done"
    [] s = "failed"  -> "gone"

Places == {"start", "waiting", "ok", "failed"}
LEMMA PhaseMoves ==
  ASSUME NEW c \in Clients, NEW s, step \in [Clients -> Places],
         step' = [step EXCEPT ![c] = s]
  PROVE  Phase' = [Phase EXCEPT ![c] = PhaseOf(s)]
<1>1. Phase = [d \in Clients |-> PhaseOf(step[d])]
  BY DEF Phase, PhaseOf
<1>2. Phase' = [d \in Clients |-> PhaseOf(step'[d])]
  BY DEF Phase, PhaseOf
<1>3. \A d \in Clients : step'[d] = IF d = c THEN s ELSE step[d]
  OBVIOUS
<1> QED BY <1>1, <1>2, <1>3

LEMMA PhaseKept == step' = step => Phase' = Phase
BY DEF Phase

LEMMA PutAsks ==
  ASSUME IInv, NEW c \in Clients, Put(c)
  PROVE  Tftp!Ask(c)
<1>1. /\ step[c] = "start" /\ step' = [step EXCEPT ![c] = "waiting"]
      /\ Tftp!Send(c, Buffer(c))
      /\ UNCHANGED <<sess, wrote, told, resent, toClient, faulty, asked, header>>
  BY DEF Put, serverVars
<1>2. Buffer(c) = Tftp!Pkt("WRQ", 0) /\ asked[c].op = "write"
  BY <1>1, ClientTyped DEF IInv, Fits, Position, Buffer
<1>3. Phase[c] = "idle" /\ Phase' = [Phase EXCEPT ![c] = "active"]
  BY <1>1, PhaseMoves DEF Phase, PhaseOf, IInv, Types, Places
<1> QED BY <1>1, <1>2, <1>3 DEF Tftp!Ask, Tftp!serverVars, Tftp!lifeVars

LEMMA AckTaken ==
  ASSUME IInv, NEW c \in Clients, AckArrives(c)
  PROVE  Tftp!TakeAck(c)
<1>1. /\ awaited[c] = header[c] /\ header[c] \in Nat /\ asked[c].op = "write"
      /\ Tftp!Pkt("ACK", header[c]) \in toClient[c]
      /\ toClient' = [toClient EXCEPT ![c] =
                        IF faulty THEN @ ELSE @ \ {Tftp!Pkt("ACK", header[c])}]
  BY AckIsOfBuffer, ClientTyped DEF IInv, AckOf
<1>2. step[c] = "waiting" /\ UNCHANGED <<sess, wrote, told, resent, faulty, asked>>
  BY DEF AckArrives
<1>3. Phase[c] = "active"
  BY <1>2 DEF Phase
<1>4. CASE LastSent(c)
  <2>1. /\ step' = [step EXCEPT ![c] = "ok"]
        /\ UNCHANGED <<header, awaited, toServer>>
    BY <1>4 DEF AckArrives
  <2>2. Phase' = [Phase EXCEPT ![c] = "done"]
    BY <2>1, PhaseMoves DEF PhaseOf, IInv, Types, Places
  <2>3. header[c] = asked[c].full + 1
    BY <1>4 DEF LastSent
  <2> QED BY <1>1, <1>2, <1>3, <2>1, <2>2, <2>3
       DEF Tftp!TakeAck, Tftp!serverVars, Tftp!lifeVars
<1>5. CASE ~LastSent(c)
  <2>1. /\ header' = [header EXCEPT ![c] = header[c] + 1] /\ step' = step
        /\ Tftp!Send(c, Tftp!FileBlock(c, header[c] + 1))
    BY <1>1, <1>5 DEF AckArrives
  <2>2. Phase' = Phase
    BY <2>1, PhaseKept
  <2>3. header[c] # asked[c].full + 1
    BY <1>5 DEF LastSent
  <2> QED BY <1>1, <1>2, <1>3, <2>1, <2>2, <2>3
       DEF Tftp!TakeAck, Tftp!serverVars, Tftp!lifeVars
<1> QED BY <1>4, <1>5

LEMMA LookStutters ==
  ASSUME NEW c \in Clients, LookFails(c)
  PROVE  UNCHANGED Tftp!vars
<1>1. /\ UNCHANGED <<sess, wrote, told, resent, toClient, faulty, asked, toServer>>
      /\ step' = step /\ header' = header
  BY DEF LookFails, serverVars
<1> QED BY <1>1, PhaseKept DEF Tftp!vars, Tftp!serverVars, Tftp!networkVars,
     Tftp!clientVars, Tftp!lifeVars

\* A datagram sent again is on its way already, or asks anew after a refusal.
LEMMA AgainAsks ==
  ASSUME IInv, NEW c \in Clients, SendAgain(c)
  PROVE  Tftp!AskAgain(c) \/ UNCHANGED Tftp!vars
<1>1. /\ UNCHANGED <<sess, wrote, told, resent, toClient, faulty, asked>>
      /\ step' = step /\ header' = header /\ step[c] = "waiting"
      /\ Unanswered(c) /\ Tftp!Send(c, Buffer(c))
  BY DEF SendAgain, serverVars
<1>2. Phase' = Phase /\ Phase[c] = "active"
  BY <1>1, PhaseKept DEF Phase
<1>3. CASE faulty
  <2>1. Buffer(c) \in toServer[c]
    BY <1>1, <1>3 DEF IInv, Fits, Asking
  <2>2. toServer' = toServer
    BY <1>1, <2>1 DEF Tftp!Send, IInv, Types
  <2> QED BY <1>1, <1>2, <2>2 DEF Tftp!vars, Tftp!serverVars, Tftp!networkVars,
       Tftp!clientVars, Tftp!lifeVars
<1>4. CASE ~faulty
  <2>1. Tftp!Err \in toClient[c]
    BY <1>1, <1>4 DEF Unanswered
  <2>2. ~asked[c].valid
    BY <2>1, ClientTyped, NotAnAck DEF IInv, Fits, Answered, Answer
  <2>3. Buffer(c) = Tftp!Pkt("WRQ", 0)
    BY <2>2, ClientTyped DEF IInv, Fits, Position, Buffer
  <2>4. asked[c].op = "write"
    BY ClientTyped DEF IInv
  <2> QED BY <1>1, <1>2, <2>1, <2>3, <2>4 DEF Tftp!AskAgain, Tftp!serverVars,
       Tftp!clientVars, Tftp!lifeVars
<1> QED BY <1>3, <1>4

LEMMA AbandonGivesUp ==
  ASSUME IInv, NEW c \in Clients, Abandon(c)
  PROVE  Tftp!GiveUp(c)
<1>1. /\ UNCHANGED <<sess, wrote, told, resent, toClient, faulty, asked, toServer, header>>
      /\ step' = [step EXCEPT ![c] = "failed"] /\ step[c] = "waiting" /\ Unanswered(c)
  BY DEF Abandon, serverVars
<1>2. Phase[c] = "active" /\ Phase' = [Phase EXCEPT ![c] = "gone"]
  BY <1>1, PhaseMoves DEF Phase, PhaseOf, IInv, Types, Places
<1> QED BY <1>1, <1>2 DEF Unanswered, Tftp!GiveUp, Tftp!serverVars, Tftp!lifeVars

LEMMA StepRefines == IInv /\ [Next]_vars => [Tftp!Next]_Tftp!vars
<1> SUFFICES ASSUME IInv, [Next]_vars PROVE Tftp!Next \/ UNCHANGED Tftp!vars
  OBVIOUS
<1>1. CASE Next
  <2>1. PICK c \in Clients : ClientPut(c) \/ ServerStep(c)
    BY <1>1 DEF Next
  <2>2. CASE ClientPut(c)
    <3>1. CASE Put(c)
      BY <3>1, PutAsks DEF Tftp!Next, Tftp!ClientStep
    <3>2. CASE AckArrives(c)
      BY <3>2, AckTaken DEF Tftp!Next, Tftp!ClientStep
    <3>3. CASE LookFails(c)
      BY <3>3, LookStutters
    <3>4. CASE SendAgain(c)
      BY <3>4, AgainAsks DEF Tftp!Next, Tftp!ClientStep
    <3>5. CASE Abandon(c)
      BY <3>5, AbandonGivesUp DEF Tftp!Next, Tftp!ClientStep
    <3> QED BY <2>2, <3>1, <3>2, <3>3, <3>4, <3>5 DEF ClientPut
  <2>3. CASE ServerStep(c)
    BY <2>3 DEF ServerStep, Tftp!Next
  <2> QED BY <2>1, <2>2, <2>3
<1>2. CASE UNCHANGED vars
  <2>1. /\ UNCHANGED <<sess, wrote, told, resent, toClient, faulty, asked, toServer>>
        /\ step' = step /\ header' = header
    BY <1>2 DEF vars, putVars
  <2> QED BY <2>1, PhaseKept DEF Tftp!vars, Tftp!serverVars, Tftp!networkVars,
       Tftp!clientVars, Tftp!lifeVars
<1> QED BY <1>1, <1>2

\* client_put with the server is a client of RFC 1350 with the server: sending again
\* and awaiting a number moved on never makes it send or accept a block out of turn, as
\* long as the numbers do not wrap.  So it is such clients that module TftpServer is
\* about, the tool's own among them.
THEOREM UploadRefinesTftp == Spec => RefinesTftp
<1>1. Init => Tftp!Init
  BY DEF Init
<1> QED BY <1>1, StepRefines, Invariance, PTL DEF Spec, RefinesTftp, Tftp!Spec
=============================================================================
