--------------------------- MODULE CmuWorker_proofs ---------------------------
(***************************************************************************)
(* Proofs about CmuWorker, for every value of its constants.               *)
(***************************************************************************)
EXTENDS CmuWorker, SequenceTheorems, TLAPS

USE ConstantsAssumption

(***************************************************************************)
(* The queue.                                                              *)
(***************************************************************************)

\* What a slot of the view appends keeps every CONFIG_PORT followed by its
\* CONFIG_INIT, and leaves the head of a queue that has one.
LEMMA PostKeepsOrder ==
  ASSUME NEW msgs \in Seq(Msg), InboxOrder, inbox \in Seq(Msg),
         inbox' = inbox \o msgs,
         \A i \in 1..Len(msgs) :
            msgs[i].type = "CONFIG_PORT" =>
               i < Len(msgs) /\ msgs[i+1].type = "CONFIG_INIT"
  PROVE  /\ InboxOrder'
         /\ inbox' \in Seq(Msg)
         /\ inbox # <<>> => inbox' # <<>> /\ Head(inbox') = Head(inbox)
<1>1. /\ inbox' \in Seq(Msg)
      /\ Len(inbox') = Len(inbox) + Len(msgs)
      /\ \A i \in 1..Len(inbox') :
            inbox'[i] = IF i <= Len(inbox) THEN inbox[i] ELSE msgs[i - Len(inbox)]
  OBVIOUS
<1>2. InboxOrder'
  <2> SUFFICES ASSUME NEW i \in 1..Len(inbox'), inbox'[i].type = "CONFIG_PORT"
               PROVE  i < Len(inbox') /\ inbox'[i+1].type = "CONFIG_INIT"
    BY DEF InboxOrder
  <2>1. CASE i <= Len(inbox)
    <3>1. i \in 1..Len(inbox) /\ inbox[i].type = "CONFIG_PORT"
      BY <1>1, <2>1
    <3>2. i < Len(inbox) /\ inbox[i+1].type = "CONFIG_INIT"
      BY <3>1 DEF InboxOrder
    <3> QED BY <1>1, <3>1, <3>2
  <2>2. CASE i > Len(inbox)
    <3> DEFINE j == i - Len(inbox)
    <3>1. j \in 1..Len(msgs) /\ msgs[j].type = "CONFIG_PORT"
      BY <1>1, <2>2
    <3>2. j < Len(msgs) /\ msgs[j+1].type = "CONFIG_INIT"
      BY <3>1
    <3>3. i + 1 \in 1..Len(inbox') /\ ~(i + 1 <= Len(inbox)) /\ (i + 1) - Len(inbox) = j + 1
      BY <1>1, <2>2, <3>1, <3>2
    <3> QED BY <1>1, <3>2, <3>3
  <2> QED BY <2>1, <2>2
<1>3. inbox # <<>> => inbox' # <<>> /\ Head(inbox') = Head(inbox)
  <2> SUFFICES ASSUME inbox # <<>>
               PROVE  inbox' # <<>> /\ Head(inbox') = Head(inbox)
    OBVIOUS
  <2>1. Len(inbox) > 0
    OBVIOUS
  <2>2. inbox' # <<>> /\ Head(inbox') = inbox'[1] /\ Head(inbox) = inbox[1]
    BY <1>1, <2>1
  <2> QED BY <1>1, <2>1, <2>2
<1> QED BY <1>1, <1>2, <1>3

\* Dealing with the head keeps the order; if the head was a CONFIG_PORT the next
\* command is the CONFIG_INIT posted with it.
LEMMA TakeKeepsOrder ==
  ASSUME InboxOrder, inbox \in Seq(Msg), inbox # <<>>, inbox' = Tail(inbox)
  PROVE  /\ InboxOrder'
         /\ inbox' \in Seq(Msg)
         /\ Head(inbox) \in Msg
         /\ Head(inbox).type = "CONFIG_PORT" =>
               inbox' # <<>> /\ Head(inbox').type = "CONFIG_INIT"
<1>1. /\ Len(inbox) \in Nat /\ Len(inbox) > 0
      /\ inbox' \in Seq(Msg)
      /\ Len(inbox') = Len(inbox) - 1
      /\ \A i \in 1..Len(inbox') : inbox'[i] = inbox[i+1]
      /\ Head(inbox) = inbox[1] /\ inbox[1] \in Msg
  OBVIOUS
<1>2. InboxOrder'
  <2> SUFFICES ASSUME NEW i \in 1..Len(inbox'), inbox'[i].type = "CONFIG_PORT"
               PROVE  i < Len(inbox') /\ inbox'[i+1].type = "CONFIG_INIT"
    BY DEF InboxOrder
  <2>1. i + 1 \in 1..Len(inbox) /\ inbox[i+1].type = "CONFIG_PORT"
    BY <1>1
  <2>2. i + 1 < Len(inbox) /\ inbox[i+1+1].type = "CONFIG_INIT"
    BY <2>1 DEF InboxOrder
  <2> QED BY <1>1, <2>2
<1>3. ASSUME Head(inbox).type = "CONFIG_PORT"
      PROVE  inbox' # <<>> /\ Head(inbox').type = "CONFIG_INIT"
  <2>1. 1 < Len(inbox) /\ inbox[2].type = "CONFIG_INIT"
    BY <1>1, <1>3 DEF InboxOrder
  <2>2. Len(inbox') > 0 /\ inbox' \in Seq(Msg)
    BY <1>1, <2>1
  <2>3. inbox' # <<>> /\ Head(inbox') = inbox'[1]
    BY ONLY <2>2
  <2>4. inbox'[1] = inbox[2]
    BY <1>1, <2>2
  <2> QED BY <2>1, <2>3, <2>4
<1> QED BY <1>1, <1>2, <1>3

(***************************************************************************)
(* The inductive invariant.                                                *)
(***************************************************************************)

LEMMA InitIInv == Init => IInv
<1> SUFFICES ASSUME Init PROVE IInv
  OBVIOUS
<1>1. /\ inbox \in Seq(Msg) /\ Len(inbox) = 1 /\ inbox # <<>>
      /\ inbox[1] = Cmd("CONFIG_INIT") /\ Head(inbox) = Cmd("CONFIG_INIT")
  BY DEF Init, Cmd, Msg, Plain
<1>2. Cmd("CONFIG_INIT").type = "CONFIG_INIT"
  BY DEF Cmd
<1>3. TypeOK
  <2>2. conn \in Endpoints \cup {NoEndpoint} /\ paraFrom \in Endpoints \cup {NoEndpoint}
    BY DEF Init
  <2>3. /\ err_counter \in Nat /\ silent \in Nat /\ timers \in Nat
        /\ config \in 0..MaxDim /\ currentReadGroup \in {1, 2}
    BY DEF Init
  <2>4. /\ viewOpen \in BOOLEAN /\ online \in BOOLEAN /\ outOfDate \in BOOLEAN
        /\ stop \in BOOLEAN /\ healthy \in BOOLEAN /\ lossy \in BOOLEAN
        /\ expired \in BOOLEAN
    BY DEF Init
  <2>5. mb_ip \in Ips /\ mb_port \in Ports /\ state \in States
    BY DEF Init, States
  <2> QED BY <1>1, <2>2, <2>3, <2>4, <2>5 DEF TypeOK
<1>4. InboxOrder
  BY <1>1, <1>2 DEF InboxOrder
<1>5. FirstInit /\ SilentCounted /\ DeadLinkAbandoned
  BY <1>1, <1>2 DEF Init, FirstInit, SilentCounted, DeadLinkAbandoned
<1>6. PollsConfiguredCmu /\ OnlineIsConnected /\ ParametersOfThisCmu /\ PollingAlive
  BY DEF Init, PollsConfiguredCmu, OnlineIsConnected, ParametersOfThisCmu, PollingAlive
<1> QED BY <1>3, <1>4, <1>5, <1>6 DEF IInv

(***************************************************************************)
(* One lemma per group of actions; each says what the step does to the     *)
(* parts of the invariant it can disturb.                                  *)
(***************************************************************************)

LEMMA PostIInv ==
  ASSUME IInv, NEW msgs \in Seq(Msg), Post(msgs),
         \A i \in 1..Len(msgs) :
            msgs[i].type = "CONFIG_PORT" =>
               i < Len(msgs) /\ msgs[i+1].type = "CONFIG_INIT"
  PROVE  IInv'
<1> USE DEF Post, viewVars, linkVars, pollVars, paraVars, lifeVars, envVars, addrVars
<1>1. /\ InboxOrder' /\ inbox' \in Seq(Msg)
      /\ inbox # <<>> => inbox' # <<>> /\ Head(inbox') = Head(inbox)
  BY PostKeepsOrder DEF IInv, TypeOK
<1>2. TypeOK'
  BY <1>1 DEF IInv, TypeOK
<1>3. FirstInit' /\ SilentCounted' /\ DeadLinkAbandoned' /\ PollingAlive'
  BY <1>1 DEF IInv, FirstInit, SilentCounted, DeadLinkAbandoned, PollingAlive
<1>4. PollsConfiguredCmu' /\ OnlineIsConnected' /\ ParametersOfThisCmu'
  BY <1>1 DEF IInv, PollsConfiguredCmu, PortPending, OnlineIsConnected,
              ParametersOfThisCmu
<1> QED BY <1>1, <1>2, <1>3, <1>4 DEF IInv

LEMMA ViewIInv == ASSUME IInv, ViewNext PROVE IInv'
<1>1. ASSUME NEW ip \in Ips, NEW port \in Ports, ClickConnect(ip, port)
      PROVE  IInv'
  <2> DEFINE msgs == <<[type |-> "CONFIG_IP", arg |-> ip],
                       [type |-> "CONFIG_PORT", arg |-> port],
                       Cmd("CONFIG_INIT")>>
  <2>1. msgs \in Seq(Msg) /\ Len(msgs) = 3
    BY DEF Msg, Plain, Cmd
  <2>2. /\ msgs[1].type = "CONFIG_IP" /\ msgs[2].type = "CONFIG_PORT"
        /\ msgs[3].type = "CONFIG_INIT"
    BY DEF Cmd
  <2>3. \A i \in 1..Len(msgs) :
            msgs[i].type = "CONFIG_PORT" =>
               i < Len(msgs) /\ msgs[i+1].type = "CONFIG_INIT"
    BY <2>1, <2>2
  <2>4. Post(msgs)
    BY <1>1 DEF ClickConnect
  <2> HIDE DEF msgs
  <2> QED BY <2>1, <2>3, <2>4, PostIInv
<1>2. ASSUME NEW m \in Msg, m.type # "CONFIG_PORT", Post(<<m>>)
      PROVE  IInv'
  <2> DEFINE msgs == <<m>>
  <2>1. msgs \in Seq(Msg) /\ Len(msgs) = 1 /\ msgs[1] = m
    OBVIOUS
  <2>2. \A i \in 1..Len(msgs) :
            msgs[i].type = "CONFIG_PORT" =>
               i < Len(msgs) /\ msgs[i+1].type = "CONFIG_INIT"
    BY <2>1, <1>2
  <2>3. Post(msgs)
    BY <1>2
  <2> HIDE DEF msgs
  <2> QED BY <2>1, <2>2, <2>3, PostIInv
<1>3. ASSUME NEW ip \in Ips, IpChange(ip)
      PROVE  IInv'
  <2> DEFINE m == [type |-> "CONFIG_IP", arg |-> ip]
  <2>1. m \in Msg /\ m.type # "CONFIG_PORT"
    BY DEF Msg, Plain
  <2>2. Post(<<m>>)
    BY <1>3 DEF IpChange
  <2> QED BY <2>1, <2>2, <1>2
<1>4. ASSUME NEW t \in {"CTRL_AO", "CERT_CMD_READ_SOE", "CTRL_SET_EXPRO"},
             SendCommand(t)
      PROVE  IInv'
  <2>1. Cmd(t) \in Msg /\ Cmd(t).type # "CONFIG_PORT"
    BY DEF Msg, Plain, Cmd
  <2>2. Post(<<Cmd(t)>>)
    BY <1>4 DEF SendCommand
  <2> QED BY <2>1, <2>2, <1>2
<1>5. ASSUME CloseView
      PROVE  IInv'
  <2> DEFINE msgs == <<Cmd("THREAD_EXIT")>>
  <2>1. /\ msgs \in Seq(Msg) /\ Len(msgs) = 1
        /\ msgs[1].type = "THREAD_EXIT"
    BY DEF Msg, Plain, Cmd
  <2>2. inbox' = inbox \o msgs
    BY <1>5 DEF CloseView, IInv, TypeOK, Cmd, Msg, Plain
  <2>3. \A i \in 1..Len(msgs) :
            msgs[i].type = "CONFIG_PORT" =>
               i < Len(msgs) /\ msgs[i+1].type = "CONFIG_INIT"
    BY <2>1
  <2> HIDE DEF msgs
  <2>4. /\ InboxOrder' /\ inbox' \in Seq(Msg)
        /\ inbox # <<>> => inbox' # <<>> /\ Head(inbox') = Head(inbox)
    BY <2>1, <2>2, <2>3, PostKeepsOrder DEF IInv, TypeOK
  <2> USE <1>5, <2>4 DEF CloseView, IInv, linkVars, pollVars, paraVars, lifeVars,
                         envVars, addrVars
  <2>5. TypeOK'
    BY DEF TypeOK
  <2>6. FirstInit' /\ SilentCounted' /\ DeadLinkAbandoned' /\ PollingAlive'
    BY DEF FirstInit, SilentCounted, DeadLinkAbandoned, PollingAlive
  <2>7. PollsConfiguredCmu' /\ OnlineIsConnected' /\ ParametersOfThisCmu'
    BY DEF PollsConfiguredCmu, PortPending, OnlineIsConnected, ParametersOfThisCmu
  <2> QED BY <2>5, <2>6, <2>7
<1> QED BY <1>1, <1>3, <1>4, <1>5 DEF ViewNext

\* A timer event leaves the queue alone.  It reads only with err_counter below
\* the limit, so a poll without an answer, which adds to err_counter at least as
\* much as to silent, keeps silent within the limit.
LEMMA TimerIInv == ASSUME IInv, TimerEvent PROVE IInv'
<1> USE DEF viewVars, linkVars, pollVars, paraVars, lifeVars, envVars, addrVars
<1>0. TickErr \in Nat /\ (TickState # "CONNECT" => /\ err_counter < ErrLimit
                                                /\ TickErr = err_counter + 1
                                                /\ TickState = state)
  BY DEF IInv, TypeOK, TickErr, TickState
<1>1. CASE TickExpired
  <2> USE <1>1 DEF TickExpired, IInv
  <2>1. TypeOK'
    BY DEF TypeOK
  <2>2. InboxOrder' /\ SilentCounted' /\ DeadLinkAbandoned' /\ PollingAlive'
    BY DEF InboxOrder, SilentCounted, DeadLinkAbandoned, PollingAlive
  <2>3. FirstInit'
    BY DEF FirstInit, TypeOK
  <2>4. PollsConfiguredCmu' /\ OnlineIsConnected' /\ ParametersOfThisCmu'
    BY DEF PollsConfiguredCmu, PortPending, OnlineIsConnected, ParametersOfThisCmu
  <2> QED BY <2>1, <2>2, <2>3, <2>4
<1>2. CASE TickConnect
  <2> USE <1>0, <1>2 DEF TickConnect, Polling, Connected, OnlineAfterConnect
  <2>1. TypeOK'
    BY DEF IInv, TypeOK, States, Target, Endpoints
  <2>2. InboxOrder' /\ SilentCounted' /\ DeadLinkAbandoned' /\ PollingAlive'
    BY DEF IInv, InboxOrder, SilentCounted, DeadLinkAbandoned, PollingAlive
  <2>3. FirstInit'
    BY DEF IInv, FirstInit
  <2>4. PollsConfiguredCmu' /\ OnlineIsConnected' /\ ParametersOfThisCmu'
    BY DEF PollsConfiguredCmu, PortPending, Target, OnlineIsConnected, ParametersOfThisCmu
  <2> QED BY <2>1, <2>2, <2>3, <2>4 DEF IInv
<1>3. CASE TickInit
  <2>0. PICK trail \in TrailsOf(1) :
          /\ err_counter' = ErrAfter(TickErr, 1, trail)
          /\ online' = (trail = 0)
          /\ LinkAfter(trail)
          /\ silent' = IF trail = 0 THEN 0 ELSE silent + 1
          /\ IF trail = 0
             THEN /\ state' = "READ" /\ currentReadGroup' = 1
                  /\ \E d \in Dims : config' = Clamp(d)
                  /\ paraFrom' = conn
             ELSE /\ state' = "INIT"
                  /\ UNCHANGED <<currentReadGroup, paraVars>>
    BY <1>3 DEF TickInit
  <2>a. /\ trail \in 0..1 /\ (trail < 1 => CanAnswer)
        /\ TickState = "INIT" /\ Polling
        /\ UNCHANGED <<viewVars, lifeVars, envVars, addrVars>>
    BY <1>3 DEF TickInit, TrailsOf
  <2>b. conn' = conn /\ (healthy \in BOOLEAN => healthy' \in BOOLEAN)
    BY <2>0, <2>a DEF LinkAfter
  <2>c. err_counter' \in Nat /\ (trail = 1 => err_counter' = err_counter + 2)
    BY <1>0, <2>0, <2>a DEF ErrAfter, IInv, TypeOK
  <2>d. trail = 0 => conn \in Endpoints /\ conn # NoEndpoint
    BY <2>a DEF CanAnswer, IInv, TypeOK
  <2>1. TypeOK'
    <3>1. ASSUME trail = 0 PROVE config' \in 0..MaxDim
      BY <2>0, <3>1 DEF Clamp
    <3> QED BY <2>0, <2>a, <2>b, <2>c, <2>d, <3>1 DEF IInv, TypeOK, States
  <2>2. InboxOrder' /\ PollingAlive'
    BY <2>0, <2>a DEF IInv, InboxOrder, PollingAlive, Polling
  <2>3. SilentCounted' /\ DeadLinkAbandoned'
    BY <1>0, <2>0, <2>a, <2>c DEF IInv, TypeOK, SilentCounted, DeadLinkAbandoned
  <2>4. FirstInit'
    BY <2>0, <2>a DEF FirstInit
  <2>5. PollsConfiguredCmu'
    BY <1>0, <2>0, <2>a, <2>b DEF IInv, PollsConfiguredCmu, PortPending
  <2>6. OnlineIsConnected' /\ ParametersOfThisCmu'
    BY <2>0, <2>a, <2>b, <2>d DEF OnlineIsConnected, ParametersOfThisCmu
  <2> QED BY <2>1, <2>2, <2>3, <2>4, <2>5, <2>6 DEF IInv
<1>4. CASE TickGroup1
  <2>0. PICK trail \in ReadAI :
          /\ err_counter' = ErrAfter(TickErr, AiBlocks, trail)
          /\ online' = IF AiBlocks = 0 THEN online ELSE trail = 0
          /\ LinkAfter(trail)
          /\ silent' = IF trail < AiBlocks THEN 0 ELSE silent + 1
          /\ currentReadGroup' = IF trail = 0 THEN 2 ELSE 1
    BY <1>4 DEF TickGroup1
  <2>a. /\ trail \in 0..AiBlocks /\ (trail < AiBlocks => CanAnswer)
        /\ TickState = "READ" /\ Polling /\ state' = TickState
        /\ UNCHANGED <<viewVars, paraVars, lifeVars, envVars, addrVars>>
    BY <1>4 DEF TickGroup1, ReadAI, TrailsOf
  <2>b. conn' = conn /\ (healthy \in BOOLEAN => healthy' \in BOOLEAN)
    BY <2>0, <2>a DEF LinkAfter
  <2>c. err_counter' \in Nat /\ (trail = AiBlocks => err_counter' >= err_counter + 1)
    BY <1>0, <2>0, <2>a DEF ErrAfter, IInv, TypeOK
  <2>d. /\ online' \in BOOLEAN
        /\ online' => (AiBlocks = 0 /\ online) \/ (AiBlocks # 0 /\ trail = 0)
    BY <2>0, Zenon DEF IInv, TypeOK
  <2>1. TypeOK'
    <3>1. silent' \in Nat /\ currentReadGroup' \in {1, 2}
      BY <2>0 DEF IInv, TypeOK
    <3> QED BY <1>0, <2>a, <2>b, <2>c, <2>d, <3>1 DEF IInv, TypeOK, States
  <2>2. InboxOrder' /\ PollingAlive'
    BY <2>0, <2>a DEF IInv, InboxOrder, PollingAlive, Polling
  <2>3. SilentCounted' /\ DeadLinkAbandoned'
    BY <1>0, <2>0, <2>a, <2>c DEF IInv, TypeOK, SilentCounted, DeadLinkAbandoned
  <2>4. FirstInit'
    BY <2>0, <2>a DEF FirstInit
  <2>5. PollsConfiguredCmu' /\ ParametersOfThisCmu'
    BY <1>0, <2>0, <2>a, <2>b DEF IInv, PollsConfiguredCmu, PortPending,
                                  ParametersOfThisCmu
  <2>6. OnlineIsConnected'
    <3>1. trail = 0 /\ AiBlocks # 0 => conn # NoEndpoint
      BY <2>a DEF CanAnswer
    <3> QED BY <2>a, <2>b, <2>d, <3>1 DEF IInv, OnlineIsConnected
  <2> QED BY <2>1, <2>2, <2>3, <2>4, <2>5, <2>6 DEF IInv
<1>5. CASE TickGroup2
  <2>a. /\ TickState = "READ" /\ Polling
        /\ UNCHANGED <<currentReadGroup, viewVars, paraVars, lifeVars, envVars, addrVars>>
    BY <1>5 DEF TickGroup2
  <2>b. /\ conn' = conn /\ (healthy \in BOOLEAN => healthy' \in BOOLEAN)
        /\ state' \in {"READ", "INIT"}
        /\ err_counter' \in Nat /\ online' \in BOOLEAN
        /\ online' => CanAnswer
        /\ \/ silent' = 0
           \/ silent' = silent + 1 /\ err_counter' >= err_counter + 1
    <3>1. CASE /\ CanAnswer
               /\ \E trail \in 0..BmuReads :
                    /\ trail > 0 => CanFail
                    /\ err_counter' = trail
                    /\ online' = (trail = 0)
                    /\ LinkAfter(trail)
               /\ state' = "INIT" /\ silent' = 0
      <4> PICK trail \in 0..BmuReads :
             err_counter' = trail /\ online' = (trail = 0) /\ LinkAfter(trail)
        BY <3>1
      <4>1. err_counter' \in Nat
        OBVIOUS
      <4>2. online' \in BOOLEAN /\ online' => CanAnswer
        BY <3>1, Zenon
      <4>3. conn' = conn /\ (healthy \in BOOLEAN => healthy' \in BOOLEAN)
        BY DEF LinkAfter
      <4> QED BY <3>1, <4>1, <4>2, <4>3
    <3>2. CASE /\ err_counter' = TickErr + BmuReads
               /\ online' = FALSE
               /\ LinkAfter(BmuReads)
               /\ state' = "READ" /\ silent' = silent + 1
      <4>1. err_counter' \in Nat /\ err_counter' >= err_counter + 1
        BY <1>0, <2>a, <3>2 DEF IInv, TypeOK
      <4>2. conn' = conn /\ (healthy \in BOOLEAN => healthy' \in BOOLEAN)
        BY <3>2 DEF LinkAfter
      <4> QED BY <3>2, <4>1, <4>2
    <3> QED BY <1>5, <3>1, <3>2 DEF TickGroup2
  <2>1. TypeOK'
    BY <2>a, <2>b DEF IInv, TypeOK, States
  <2>2. InboxOrder' /\ PollingAlive'
    BY <2>a, <2>b DEF IInv, InboxOrder, PollingAlive, Polling
  <2>3. SilentCounted' /\ DeadLinkAbandoned'
    BY <1>0, <2>a, <2>b DEF IInv, TypeOK, SilentCounted, DeadLinkAbandoned
  <2>4. FirstInit'
    BY <2>b DEF FirstInit
  <2>5. PollsConfiguredCmu' /\ ParametersOfThisCmu' /\ OnlineIsConnected'
    BY <1>0, <2>a, <2>b DEF IInv, PollsConfiguredCmu, PortPending,
                            ParametersOfThisCmu, OnlineIsConnected, CanAnswer
  <2> QED BY <2>1, <2>2, <2>3, <2>4, <2>5 DEF IInv
<1> QED BY <1>1, <1>2, <1>3, <1>4, <1>5 DEF TimerEvent

\* A command of the queue.  Before the first CONFIG_INIT no other command is at
\* the head; a changed port leaves the CONFIG_INIT posted with it at the head.
LEMMA DealIInv == ASSUME IInv, DealCMD PROVE IInv'
<1> USE DEF viewVars, linkVars, pollVars, paraVars, lifeVars, envVars, addrVars
<1>0. ASSUME NEW t, Take(t)
      PROVE  /\ InboxOrder' /\ inbox' \in Seq(Msg) /\ viewOpen' = viewOpen
             /\ Head(inbox) \in Msg /\ Head(inbox).type = t
             /\ t = "CONFIG_PORT" =>
                   inbox' # <<>> /\ Head(inbox').type = "CONFIG_INIT"
             /\ t # "CONFIG_INIT" =>
                   state # "NONE" /\ ~PortPending
  <2>1. /\ inbox # <<>> /\ Head(inbox).type = t
        /\ inbox' = Tail(inbox) /\ viewOpen' = viewOpen
    BY <1>0 DEF Take
  <2>2. /\ InboxOrder' /\ inbox' \in Seq(Msg) /\ Head(inbox) \in Msg
        /\ Head(inbox).type = "CONFIG_PORT" =>
               inbox' # <<>> /\ Head(inbox').type = "CONFIG_INIT"
    BY <2>1, TakeKeepsOrder DEF IInv, TypeOK
  <2> QED BY <2>1, <2>2 DEF IInv, FirstInit, PortPending
<1>1. CASE DealConfigIp
  <2>1. /\ InboxOrder' /\ inbox' \in Seq(Msg) /\ viewOpen' = viewOpen
        /\ Head(inbox) \in Msg /\ Head(inbox).type = "CONFIG_IP"
        /\ state # "NONE" /\ ~PortPending
    BY <1>0, <1>1 DEF DealConfigIp
  <2> USE <1>1, <2>1 DEF DealConfigIp, IInv, StateAfterIp
  <2>2. TypeOK'
    BY DEF TypeOK, States, Msg, Plain
  <2>3. FirstInit' /\ SilentCounted' /\ DeadLinkAbandoned' /\ PollingAlive'
    BY DEF FirstInit, SilentCounted, DeadLinkAbandoned, PollingAlive, TypeOK
  <2>4. PollsConfiguredCmu' /\ OnlineIsConnected' /\ ParametersOfThisCmu'
    BY DEF PollsConfiguredCmu, PortPending, OnlineIsConnected,
           ParametersOfThisCmu
  <2> QED BY <2>2, <2>3, <2>4
<1>2. CASE DealConfigPort
  <2>1. /\ InboxOrder' /\ inbox' \in Seq(Msg) /\ viewOpen' = viewOpen
        /\ Head(inbox) \in Msg /\ Head(inbox).type = "CONFIG_PORT"
        /\ state # "NONE" /\ ~PortPending
        /\ inbox' # <<>> /\ Head(inbox').type = "CONFIG_INIT"
    BY <1>0, <1>2 DEF DealConfigPort
  <2> USE <1>2, <2>1 DEF DealConfigPort, IInv
  <2>2. TypeOK'
    BY DEF TypeOK, Msg, Plain
  <2>3. FirstInit' /\ SilentCounted' /\ DeadLinkAbandoned' /\ PollingAlive'
    BY DEF FirstInit, SilentCounted, DeadLinkAbandoned, PollingAlive, TypeOK
  <2>4. PollsConfiguredCmu' /\ OnlineIsConnected' /\ ParametersOfThisCmu'
    BY DEF PollsConfiguredCmu, PortPending, OnlineIsConnected,
           ParametersOfThisCmu
  <2> QED BY <2>2, <2>3, <2>4
<1>3. CASE DealConfigInit
  <2>1. /\ InboxOrder' /\ inbox' \in Seq(Msg) /\ viewOpen' = viewOpen
        /\ Head(inbox) \in Msg /\ Head(inbox).type = "CONFIG_INIT"
    BY <1>0, <1>3 DEF DealConfigInit
  <2> USE <1>3, <2>1 DEF DealConfigInit, IInv, StartTimer
  <2>2. TypeOK'
    <3>1. /\ state' \in States /\ timers' \in Nat
      BY DEF TypeOK, States
    <3>2. online' \in BOOLEAN /\ outOfDate' \in BOOLEAN
      BY Zenon
    <3>3. UNCHANGED <<stop, currentReadGroup, err_counter, silent, linkVars,
                      paraVars, envVars, addrVars>>
      OBVIOUS
    <3> QED BY ONLY <3>1, <3>2, <3>3, <2>1, IInv, ConstantsAssumption
            DEF IInv, TypeOK, linkVars, paraVars, envVars, addrVars
  <2>3. FirstInit' /\ SilentCounted' /\ DeadLinkAbandoned' /\ PollingAlive'
    BY DEF FirstInit, SilentCounted, DeadLinkAbandoned, PollingAlive, TypeOK
  <2>4. PollsConfiguredCmu' /\ OnlineIsConnected' /\ ParametersOfThisCmu'
    BY DEF PollsConfiguredCmu, PortPending, OnlineIsConnected,
           ParametersOfThisCmu
  <2> QED BY <2>2, <2>3, <2>4
<1>4. CASE DealThreadExit
  <2>1. /\ InboxOrder' /\ inbox' \in Seq(Msg) /\ viewOpen' = viewOpen
        /\ Head(inbox) \in Msg /\ Head(inbox).type = "THREAD_EXIT"
        /\ state # "NONE" /\ ~PortPending
    BY <1>0, <1>4 DEF DealThreadExit
  <2> USE <1>4, <2>1 DEF DealThreadExit, IInv
  <2>2. TypeOK'
    BY DEF TypeOK
  <2>3. FirstInit' /\ SilentCounted' /\ DeadLinkAbandoned' /\ PollingAlive'
    BY DEF FirstInit, SilentCounted, DeadLinkAbandoned, PollingAlive, TypeOK
  <2>4. PollsConfiguredCmu' /\ OnlineIsConnected' /\ ParametersOfThisCmu'
    BY DEF PollsConfiguredCmu, PortPending, OnlineIsConnected,
           ParametersOfThisCmu
  <2> QED BY <2>2, <2>3, <2>4
<1>5. CASE DealWrite
  <2>1. /\ InboxOrder' /\ inbox' \in Seq(Msg) /\ viewOpen' = viewOpen
        /\ state # "NONE" /\ ~PortPending
    BY <1>0, <1>5 DEF DealWrite
  <2>2. /\ conn' = conn /\ (healthy \in BOOLEAN => healthy' \in BOOLEAN)
        /\ UNCHANGED <<pollVars, paraVars, lifeVars, envVars, addrVars>>
    BY <1>5 DEF DealWrite, LinkAfter
  <2> USE <2>1, <2>2 DEF IInv
  <2>3. TypeOK'
    BY DEF TypeOK
  <2>4. FirstInit' /\ SilentCounted' /\ DeadLinkAbandoned' /\ PollingAlive'
    BY DEF FirstInit, SilentCounted, DeadLinkAbandoned, PollingAlive, TypeOK
  <2>5. PollsConfiguredCmu' /\ OnlineIsConnected' /\ ParametersOfThisCmu'
    BY DEF PollsConfiguredCmu, PortPending, OnlineIsConnected,
           ParametersOfThisCmu, CanAnswer
  <2> QED BY <2>3, <2>4, <2>5
<1>6. CASE DealReadSoe
  <2>1. /\ InboxOrder' /\ inbox' \in Seq(Msg) /\ viewOpen' = viewOpen
        /\ state # "NONE" /\ ~PortPending
    BY <1>0, <1>6 DEF DealReadSoe
  <2>2. /\ conn' = conn /\ (healthy \in BOOLEAN => healthy' \in BOOLEAN)
        /\ online' \in BOOLEAN /\ (online' => CanAnswer)
        /\ err_counter' \in Nat
        /\ silent' = 0 \/ (silent' = silent /\ err_counter' >= err_counter)
        /\ UNCHANGED <<state, currentReadGroup, paraVars, lifeVars, envVars, addrVars>>
    <3> PICK trail \in TrailsOf(1), records \in TrailsOf(1) :
          /\ err_counter' = ErrAfter(err_counter, 1, trail)
          /\ online' = (trail = 0)
          /\ silent' = IF trail = 0 THEN 0 ELSE silent
          /\ LinkAfter(trail + records)
      BY <1>6 DEF DealReadSoe
    <3>1. trail \in 0..1 /\ (trail < 1 => CanAnswer)
      BY DEF TrailsOf
    <3>2. conn' = conn /\ (healthy \in BOOLEAN => healthy' \in BOOLEAN)
      BY DEF LinkAfter
    <3>3. /\ err_counter' \in Nat
          /\ silent' = 0 \/ (silent' = silent /\ err_counter' >= err_counter)
      BY <3>1 DEF ErrAfter, IInv, TypeOK
    <3>4. (trail = 0) => CanAnswer
      BY <3>1
    <3>5. online' \in BOOLEAN /\ (online' => CanAnswer)
      BY <3>4, Zenon
    <3> QED BY <1>6, <3>2, <3>3, <3>5 DEF DealReadSoe
  <2> USE <2>1, <2>2 DEF IInv
  <2>3. TypeOK'
    BY DEF TypeOK
  <2>4. FirstInit' /\ SilentCounted' /\ DeadLinkAbandoned' /\ PollingAlive'
    BY DEF FirstInit, SilentCounted, DeadLinkAbandoned, PollingAlive, TypeOK
  <2>5. PollsConfiguredCmu' /\ OnlineIsConnected' /\ ParametersOfThisCmu'
    BY DEF PollsConfiguredCmu, PortPending, OnlineIsConnected,
           ParametersOfThisCmu, CanAnswer
  <2> QED BY <2>3, <2>4, <2>5
<1>7. CASE DealSetExPro
  <2>1. /\ InboxOrder' /\ inbox' \in Seq(Msg) /\ viewOpen' = viewOpen
        /\ state # "NONE" /\ ~PortPending
    BY <1>0, <1>7 DEF DealSetExPro
  <2>2. /\ config' = 0
        /\ UNCHANGED <<paraFrom, linkVars, pollVars, lifeVars, envVars, addrVars>>
    BY <1>7 DEF DealSetExPro
  <2> USE <2>1, <2>2 DEF IInv
  <2>3. TypeOK'
    BY DEF TypeOK
  <2>4. FirstInit' /\ SilentCounted' /\ DeadLinkAbandoned' /\ PollingAlive'
    BY DEF FirstInit, SilentCounted, DeadLinkAbandoned, PollingAlive, TypeOK
  <2>5. PollsConfiguredCmu' /\ OnlineIsConnected' /\ ParametersOfThisCmu'
    BY DEF PollsConfiguredCmu, PortPending, OnlineIsConnected,
           ParametersOfThisCmu, CanAnswer
  <2> QED BY <2>3, <2>4, <2>5
<1> QED BY <1>1, <1>2, <1>3, <1>4, <1>5, <1>6, <1>7 DEF DealCMD

\* The environment changes no variable the invariant relates except healthy,
\* which may only become FALSE, and its own types.
LEMMA EnvIInv == ASSUME IInv, EnvNext PROVE IInv'
<1> USE DEF viewVars, linkVars, pollVars, paraVars, lifeVars, envVars, addrVars, IInv
<1>1. UNCHANGED <<viewVars, pollVars, paraVars, lifeVars, addrVars>>
  BY DEF EnvNext
<1>2. /\ conn' = conn /\ healthy' \in BOOLEAN
      /\ lossy' \in BOOLEAN /\ expired' \in BOOLEAN
  BY DEF EnvNext, CmuRestarts, Weather, Expire, TypeOK
<1>3. TypeOK'
  BY <1>1, <1>2 DEF TypeOK
<1>4. InboxOrder' /\ FirstInit' /\ SilentCounted' /\ DeadLinkAbandoned' /\ PollingAlive'
  BY <1>1 DEF InboxOrder, FirstInit, SilentCounted, DeadLinkAbandoned, PollingAlive
<1>5. PollsConfiguredCmu' /\ OnlineIsConnected' /\ ParametersOfThisCmu'
  BY <1>1, <1>2 DEF PollsConfiguredCmu, PortPending, OnlineIsConnected,
                    ParametersOfThisCmu
<1> QED BY <1>3, <1>4, <1>5

\* A stuttering step.
LEMMA StutterIInv == ASSUME IInv, UNCHANGED vars PROVE IInv'
  BY DEF IInv, vars, viewVars, linkVars, pollVars, paraVars, lifeVars, envVars,
         addrVars, TypeOK, InboxOrder, FirstInit, SilentCounted, DeadLinkAbandoned,
         PollingAlive, PollsConfiguredCmu, PortPending, OnlineIsConnected,
         ParametersOfThisCmu

(***************************************************************************)
(* The theorems.                                                           *)
(***************************************************************************)

\* IInv holds in every state the worker can reach.
THEOREM Invariance == Spec => []IInv
<1>1. IInv /\ [Next]_vars => IInv'
  BY ViewIInv, TimerIInv, DealIInv, EnvIInv, StutterIInv DEF Next
<1> QED BY InitIInv, <1>1, PTL DEF Spec

\* Every variable keeps its type; in particular the sizes of the cell table stay
\* within MaxDim whatever a CMU reports (SM_INIT clamps them).
THEOREM TypeCorrect == Spec => []TypeOK
<1>1. IInv => TypeOK
  BY DEF IInv
<1> QED BY Invariance, <1>1, PTL

\* In every state in which a timer event reads, the connection leads to the address
\* configured last, and to the port unless its CONFIG_INIT is the next command
\* (CONFIG_IP, CONFIG_PORT and CONFIG_INIT in DealCMD).
THEOREM PollsGoToTheConfiguredCmu == Spec => []PollsConfiguredCmu
<1>1. IInv => PollsConfiguredCmu
  BY DEF IInv
<1> QED BY Invariance, <1>1, PTL

\* The view shows "connected" only while there is a connection.
THEOREM OnlineMeansConnected == Spec => []OnlineIsConnected
<1>1. IInv => OnlineIsConnected
  BY DEF IInv
<1> QED BY Invariance, <1>1, PTL

\* A read cycle uses the system parameters of the CMU it reads, for every number of
\* addresses and every interleaving of reconnects and commands.
THEOREM ParametersMatchCmu == Spec => []ParametersOfThisCmu
<1>1. IInv => ParametersOfThisCmu
  BY DEF IInv
<1> QED BY Invariance, <1>1, PTL

\* A connection without answers is dropped after ErrLimit polls, for every limit and
\* every number of blocks.
THEOREM DeadLinkIsAbandoned == Spec => []DeadLinkAbandoned
<1>1. IInv => DeadLinkAbandoned
  BY DEF IInv
<1> QED BY Invariance, <1>1, PTL

\* A started worker has a timer running until it is stopped.
THEOREM PollingStaysAlive == Spec => []PollingAlive
<1>1. IInv => PollingAlive
  BY DEF IInv
<1> QED BY Invariance, <1>1, PTL

=============================================================================
