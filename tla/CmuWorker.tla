------------------------------ MODULE CmuWorker ------------------------------
(***************************************************************************)
(* The polling worker of one BMS view: class mb_cmu (protocol/cmu).        *)
(*                                                                         *)
(* The object lives in a thread of its own whose event loop runs, one at a *)
(* time, timer events (timerEvent) and the commands the view queues to it  *)
(* (msg_deal -> DealCMD).  The view, the CMUs on the network and the wall  *)
(* clock are the environment.                                              *)
(*                                                                         *)
(* Data are abstracted: an endpoint is an <<ip, port>> pair, the four      *)
(* dimensions of the cell table are one number, a register block is only   *)
(* the outcome of its read, and a command carries what its handler tests.  *)
(***************************************************************************)
EXTENDS Naturals, Sequences

CONSTANTS
  Ips, Ports,       \* addresses and ports a user can configure
  Cmus,             \* the endpoints behind which there is a CMU
  NoEndpoint,       \* "no connection"
  NoArg,            \* argument of a command that carries none
  ErrLimit,         \* failures before a reconnect (10 in timerEvent)
  AiBlocks,         \* register blocks of the node table (reg_list_.size())
  BmuReads,         \* reads of ReadBmuData, at least the version block
  MaxDim,           \* largest table dimension (MAX_BMU, MAX_U, MAX_T)
  Dims,             \* dimensions a CMU can report
  InboxBound,       \* bound: commands waiting when the view queues more
  ErrBound,         \* bound: failures counted when a view asks for the SOE
  TimerBound        \* bound: timer chains

Endpoints == Ips \X Ports

ASSUME ConstantsAssumption ==
  /\ Cmus \subseteq Endpoints
  /\ NoEndpoint \notin Endpoints
  /\ ErrLimit \in Nat \ {0}
  /\ AiBlocks \in Nat
  /\ BmuReads \in Nat \ {0}
  /\ MaxDim \in Nat
  /\ Dims \subseteq Nat
  /\ InboxBound \in Nat
  /\ ErrBound \in Nat
  /\ TimerBound \in Nat

VARIABLES
  \* the view and the queue of its send_msg signal
  viewOpen, inbox,
  \* the worker
  mb_ip, mb_port, state, currentReadGroup, err_counter, online, outOfDate,
  stop, timers, conn, healthy, config,
  \* the environment: whether CMUs and the network may fail (a CMU restarts, a
  \* connection is refused, an answer is lost), whether the build has expired
  lossy, expired,
  \* history: the CMU whose parameters (write lock flag, table sizes) the last
  \* SM_INIT stored; the polls without an answer
  paraFrom, silent

viewVars   == <<viewOpen, inbox>>
linkVars   == <<conn, healthy>>
pollVars   == <<state, currentReadGroup, err_counter, online, silent>>
paraVars   == <<config, paraFrom>>
lifeVars   == <<outOfDate, stop, timers>>
envVars    == <<lossy, expired>>
addrVars   == <<mb_ip, mb_port>>
vars == <<viewVars, linkVars, pollVars, paraVars, lifeVars,
          envVars, addrVars>>

States == {"NONE", "CONNECT", "READ", "INIT"}

\* Commands a view queues.  CTRL_AO stands for every command that writes to the
\* CMU (CTRL_DO, CTRL_AO, CTRL_SEC_AO, CTRL_AO_ADDR, CTRL_CMD_REBOOT,
\* CTRL_CMD_UNLOCK, CTRL_CMD_CLR_ALL_SOE, CERT_CMD_TIME_ADJ): to the worker's
\* state they do the same.
Plain == {"CONFIG_INIT", "THREAD_EXIT", "CTRL_AO", "CERT_CMD_READ_SOE",
          "CTRL_SET_EXPRO"}
Msg == [type: {"CONFIG_IP"}, arg: Ips] \cup [type: {"CONFIG_PORT"}, arg: Ports]
       \cup [type: Plain, arg: {NoArg}]
Cmd(t) == [type |-> t, arg |-> NoArg]

\* A definition Name_Variant, before the definition Name, is a mutant of it: a
\* plausible slip in the code, which the properties must notice.

Target == <<mb_ip, mb_port>>
Clamp_Missing(d) == d
Clamp(d) == IF d > MaxDim THEN MaxDim ELSE d

-----------------------------------------------------------------------------
(* Initial state: the constructor of mb_cmu followed by the CONFIG_INIT the *)
(* constructor of BMSView queues.                                           *)

Init ==
  /\ viewOpen = TRUE
  /\ inbox = <<Cmd("CONFIG_INIT")>>
  /\ mb_ip \in Ips /\ mb_port \in Ports
  /\ state = "NONE" /\ currentReadGroup = 1 /\ err_counter = 0
  /\ online = FALSE /\ outOfDate = FALSE /\ stop = FALSE /\ timers = 0
  /\ conn = NoEndpoint /\ healthy = FALSE
  /\ config = 0
  /\ lossy = FALSE /\ expired = FALSE
  /\ paraFrom = NoEndpoint /\ silent = 0

-----------------------------------------------------------------------------
(* The view (GUI thread).  A slot queues its commands without a pause.      *)

Post(msgs) ==
  /\ viewOpen
  /\ Len(inbox) < InboxBound
  /\ inbox' = inbox \o msgs
  /\ UNCHANGED <<viewOpen, linkVars, pollVars, paraVars, lifeVars,
                 envVars, addrVars>>

ClickConnect_PortLast(ip, port) ==
  /\ timers < TimerBound
  /\ Post(<<[type |-> "CONFIG_IP", arg |-> ip], Cmd("CONFIG_INIT"),
            [type |-> "CONFIG_PORT", arg |-> port]>>)
ClickConnect(ip, port) ==
  /\ timers < TimerBound
  /\ Post(<<[type |-> "CONFIG_IP", arg |-> ip],
            [type |-> "CONFIG_PORT", arg |-> port],
            Cmd("CONFIG_INIT")>>)

IpChange(ip) == Post(<<[type |-> "CONFIG_IP", arg |-> ip]>>)

SendCommand(t) ==
  /\ t = "CERT_CMD_READ_SOE" => err_counter < ErrBound
  /\ Post(<<Cmd(t)>>)

CloseView ==
  /\ viewOpen
  /\ viewOpen' = FALSE
  /\ inbox' = Append(inbox, Cmd("THREAD_EXIT"))
  /\ UNCHANGED <<linkVars, pollVars, paraVars, lifeVars, envVars,
                 addrVars>>

ViewNext ==
  \/ \E ip \in Ips, port \in Ports : ClickConnect(ip, port)
  \/ \E ip \in Ips : IpChange(ip)
  \/ \E t \in {"CTRL_AO", "CERT_CMD_READ_SOE", "CTRL_SET_EXPRO"} : SendCommand(t)
  \/ CloseView

-----------------------------------------------------------------------------
(* Reads.  A request over a healthy connection is answered unless the       *)
(* network loses the answer; over a broken one it never is.  A timed-out    *)
(* request whose answer comes late breaks the connection: every later reply *)
(* carries the transaction number of an earlier request and is refused.     *)

CanAnswer == conn # NoEndpoint /\ healthy
CanFail   == conn = NoEndpoint \/ ~healthy \/ lossy

\* The outcome of n reads in a row, as the number of failures after the last
\* success: 0 if the last one was answered, n if none was.
TrailsOf(n) == { t \in 0..n : (t < n => CanAnswer) /\ (t > 0 => CanFail) }

\* ReadData counts a failure and clears the counter on a success.
ErrAfter(err, n, trail) == IF trail < n THEN trail ELSE err + n

\* ReadAI reads the blocks one by one, whatever became of those before.
ReadAI == TrailsOf(AiBlocks)

\* The link after a batch of reads: a lost answer may still arrive.
LinkAfter(trail) ==
  /\ conn' = conn
  /\ IF trail > 0 THEN healthy' \in {healthy, FALSE} ELSE healthy' = healthy

-----------------------------------------------------------------------------
(* timerEvent                                                               *)

\* The build is out of date: the chain ends here, nothing is polled.
TickExpired_Unshown ==
  /\ timers > 0 /\ expired
  /\ stop' = TRUE
  /\ timers' = timers - 1
  /\ UNCHANGED <<outOfDate, viewVars, linkVars, pollVars, paraVars, envVars,
                 addrVars>>
TickExpired ==
  /\ timers > 0 /\ expired
  /\ stop' = TRUE /\ outOfDate' = TRUE
  /\ timers' = timers - 1
  /\ UNCHANGED <<viewVars, linkVars, pollVars, paraVars, envVars,
                 addrVars>>

\* A timer event that polls; the timer is started again at its end.
Polling_Stopped == timers > 0 /\ ~expired
Polling == timers > 0 /\ ~expired /\ ~stop

TickErr == IF err_counter >= ErrLimit THEN 0 ELSE err_counter + 1

TickState_NeverReconnects == state
TickState == IF err_counter >= ErrLimit THEN "CONNECT" ELSE state

\* A fresh connection starts with the parameters of its CMU.
Connected_SkipsInit == "READ"
Connected == "INIT"

OnlineAfterConnect_Kept == online
OnlineAfterConnect == FALSE

TickConnect ==
  /\ Polling /\ TickState = "CONNECT"
  /\ \/ /\ Target \in Cmus
        /\ conn' = Target /\ healthy' = TRUE
        /\ state' = Connected
     \/ /\ Target \notin Cmus \/ lossy
        /\ conn' = NoEndpoint /\ healthy' = FALSE
        /\ state' = "CONNECT"
  /\ err_counter' = TickErr
  /\ online' = OnlineAfterConnect /\ silent' = 0
  /\ UNCHANGED <<currentReadGroup, viewVars, paraVars, lifeVars,
                 envVars, addrVars>>

\* The eleven system parameters, read before every cycle.
TickInit ==
  /\ Polling /\ TickState = "INIT"
  /\ \E trail \in TrailsOf(1) :
       /\ err_counter' = ErrAfter(TickErr, 1, trail)
       /\ online' = (trail = 0)
       /\ LinkAfter(trail)
       /\ silent' = IF trail = 0 THEN 0 ELSE silent + 1
       /\ IF trail = 0
          THEN /\ state' = "READ" /\ currentReadGroup' = 1
               /\ \E d \in Dims : config' = Clamp(d)
               /\ paraFrom' = conn
          ELSE /\ state' = "INIT"
               /\ UNCHANGED <<currentReadGroup, paraVars>>
  /\ UNCHANGED <<viewVars, lifeVars, envVars, addrVars>>

\* ReadCmuData: the result is that of the last block; -1 without blocks.
TickGroup1 ==
  /\ Polling /\ TickState = "READ" /\ currentReadGroup = 1
  /\ \E trail \in ReadAI :
       /\ err_counter' = ErrAfter(TickErr, AiBlocks, trail)
       /\ online' = IF AiBlocks = 0 THEN online ELSE trail = 0
       /\ LinkAfter(trail)
       /\ silent' = IF trail < AiBlocks THEN 0 ELSE silent + 1
       /\ currentReadGroup' = IF trail = 0 THEN 2 ELSE 1
  /\ state' = TickState
  /\ UNCHANGED <<viewVars, paraVars, lifeVars, envVars, addrVars>>

\* ReadBmuData returns the sum of its reads, so one answer ends the cycle; an
\* active BMS then reads the balance capacities (ReadCapData), one read more.
TickGroup2 ==
  /\ Polling /\ TickState = "READ" /\ currentReadGroup = 2
  /\ \/ /\ CanAnswer
        /\ \E trail \in 0..BmuReads :
             /\ trail > 0 => CanFail
             /\ err_counter' = trail
             /\ online' = (trail = 0)
             /\ LinkAfter(trail)
        /\ state' = "INIT" /\ silent' = 0
     \/ /\ CanFail
        /\ err_counter' = TickErr + BmuReads
        /\ online' = FALSE
        /\ LinkAfter(BmuReads)
        /\ state' = "READ" /\ silent' = silent + 1
  /\ UNCHANGED <<currentReadGroup, viewVars, paraVars, lifeVars,
                 envVars, addrVars>>

TimerEvent == TickExpired \/ TickConnect \/ TickInit \/ TickGroup1 \/ TickGroup2

-----------------------------------------------------------------------------
(* DealCMD: one action per command; the queue is first in, first out.       *)

Take(t) ==
  /\ inbox # <<>> /\ Head(inbox).type = t
  /\ inbox' = Tail(inbox)
  /\ viewOpen' = viewOpen

StateAfterIp_Kept(ip) == state
StateAfterIp(ip) == IF mb_ip # ip THEN "CONNECT" ELSE state

DealConfigIp ==
  /\ Take("CONFIG_IP")
  /\ mb_ip' = Head(inbox).arg
  /\ state' = StateAfterIp(Head(inbox).arg)
  /\ UNCHANGED <<mb_port, currentReadGroup, err_counter, online, silent,
                 linkVars, paraVars, lifeVars, envVars>>

\* The port takes effect at the next connection; nothing asks for one here.
DealConfigPort ==
  /\ Take("CONFIG_PORT")
  /\ mb_port' = Head(inbox).arg
  /\ UNCHANGED <<mb_ip, linkVars, pollVars, paraVars, lifeVars,
                 envVars>>

\* startTimer: one more chain of timer events, beside those that already run.
StartTimer_Missing == timers
StartTimer == timers + 1

DealConfigInit ==
  /\ Take("CONFIG_INIT")
  /\ online' = FALSE /\ outOfDate' = FALSE
  /\ state' = "CONNECT"
  /\ timers' = StartTimer
  /\ UNCHANGED <<stop, currentReadGroup, err_counter, silent, linkVars, paraVars,
                 envVars, addrVars>>

DealThreadExit_Ignored ==
  /\ Take("THREAD_EXIT")
  /\ UNCHANGED <<lifeVars, linkVars, pollVars, paraVars, envVars, addrVars>>
DealThreadExit ==
  /\ Take("THREAD_EXIT")
  /\ stop' = TRUE
  /\ UNCHANGED <<outOfDate, timers, linkVars, pollVars, paraVars,
                 envVars, addrVars>>

\* A write goes out on the open connection, whatever the state.  If its answer
\* is lost the answer may still come late, as for a read.
DealWrite ==
  /\ Take("CTRL_AO")
  /\ \E trail \in TrailsOf(1) : LinkAfter(trail)
  /\ UNCHANGED <<pollVars, paraVars, lifeVars, envVars, addrVars>>

\* The first read of ReadSOE goes through ReadData and so through the counter;
\* the reads of the records do not.
DealReadSoe ==
  /\ Take("CERT_CMD_READ_SOE")
  /\ \E trail \in TrailsOf(1), records \in TrailsOf(1) :
       /\ err_counter' = ErrAfter(err_counter, 1, trail)
       /\ online' = (trail = 0)
       /\ silent' = IF trail = 0 THEN 0 ELSE silent
       /\ LinkAfter(trail + records)
  /\ UNCHANGED <<state, currentReadGroup, paraVars, lifeVars,
                 envVars, addrVars>>

\* A new protocol version: Init() rebuilds the tables and clears the sizes.
DealSetExPro ==
  /\ Take("CTRL_SET_EXPRO")
  /\ config' = 0
  /\ UNCHANGED <<paraFrom, linkVars, pollVars, lifeVars,
                 envVars, addrVars>>

DealCMD ==
  \/ DealConfigIp \/ DealConfigPort \/ DealConfigInit \/ DealThreadExit
  \/ DealWrite \/ DealReadSoe \/ DealSetExPro

-----------------------------------------------------------------------------
(* The environment: a CMU that restarts breaks its connection, faulty times *)
(* begin and end, the build grows out of date.                              *)

CmuRestarts ==
  /\ lossy /\ healthy
  /\ healthy' = FALSE
  /\ UNCHANGED <<conn, lossy, expired>>

Weather ==
  /\ lossy' = ~lossy
  /\ UNCHANGED <<linkVars, expired>>

Expire ==
  /\ ~expired /\ expired' = TRUE
  /\ UNCHANGED <<linkVars, lossy>>

EnvNext ==
  /\ CmuRestarts \/ Weather \/ Expire
  /\ UNCHANGED <<viewVars, pollVars, paraVars, lifeVars, addrVars>>

-----------------------------------------------------------------------------
Next == ViewNext \/ TimerEvent \/ DealCMD \/ EnvNext

\* The thread's event loop serves its timers and its queue.
Fairness == WF_vars(TimerEvent) /\ WF_vars(DealCMD)

Spec == Init /\ [][Next]_vars
FairSpec == Spec /\ Fairness

-----------------------------------------------------------------------------
TypeOK ==
  /\ viewOpen \in BOOLEAN /\ inbox \in Seq(Msg)
  /\ mb_ip \in Ips /\ mb_port \in Ports
  /\ state \in States /\ currentReadGroup \in {1, 2}
  /\ err_counter \in Nat /\ online \in BOOLEAN /\ silent \in Nat
  /\ outOfDate \in BOOLEAN /\ stop \in BOOLEAN /\ timers \in Nat
  /\ conn \in Endpoints \cup {NoEndpoint} /\ healthy \in BOOLEAN
  /\ config \in 0..MaxDim
  /\ paraFrom \in Endpoints \cup {NoEndpoint}
  /\ lossy \in BOOLEAN /\ expired \in BOOLEAN

\* A changed port has been taken, the command that reconnects is the next one.
PortPending == inbox # <<>> /\ Head(inbox).type = "CONFIG_INIT"

\* The polls go to the CMU the user configured last.  A timer event reads in every
\* state but CONNECT: its connection then leads to the present address, whatever
\* was typed, and to the present port, although CONFIG_PORT asks for no
\* reconnection; an old port is read only until the CONFIG_INIT behind it is taken.
\* Commands that write look at no state: in CONNECT they still go to the old CMU.
PollsConfiguredCmu ==
  state # "CONNECT" /\ conn # NoEndpoint =>
    conn[1] = mb_ip /\ (conn[2] = mb_port \/ PortPending)

\* "Connected" is shown only for a connection that exists, never for the one a
\* failed reconnection has closed.
OnlineIsConnected == online => conn # NoEndpoint /\ state # "NONE"

\* The parameters used during a read cycle (the write lock flag) were read from the
\* CMU the cycle reads, never from the CMU connected before.
ParametersOfThisCmu ==
  state = "READ" => conn # NoEndpoint /\ paraFrom = conn

\* A link that no longer answers is abandoned: after ErrLimit polls in a row
\* without one answer the next poll reconnects, whatever commands come between.
DeadLinkAbandoned == silent <= ErrLimit

\* The worker does not fall silent: once told to start it always has a timer
\* running, until its build is out of date or its view is closed.
PollingAlive == (state # "NONE" /\ ~stop) => timers > 0

\* What makes the invariants above inductive: a changed port is followed at once
\* by the command that reconnects, and nothing is dealt with before the first
\* CONFIG_INIT, which starts the first timer.
InboxOrder ==
  \A i \in 1..Len(inbox) :
     inbox[i].type = "CONFIG_PORT" =>
        i < Len(inbox) /\ inbox[i+1].type = "CONFIG_INIT"
FirstInit ==
  state = "NONE" => /\ inbox # <<>> /\ Head(inbox).type = "CONFIG_INIT"
                    /\ timers = 0
SilentCounted == silent <= err_counter

IInv == /\ TypeOK /\ InboxOrder /\ FirstInit /\ SilentCounted
        /\ PollsConfiguredCmu /\ OnlineIsConnected /\ ParametersOfThisCmu
        /\ DeadLinkAbandoned /\ PollingAlive

-----------------------------------------------------------------------------
\* The user has settled on an address with a CMU, and nothing fails any more.
Calm ==
  /\ Target \in Cmus /\ ~lossy /\ ~expired /\ ~stop
  /\ \A i \in 1..Len(inbox) : inbox[i].type = "CONFIG_IP" => inbox[i].arg = mb_ip

\* When the configured CMU stays up and the network loses no more answers, the
\* worker recovers from any dead connection and completes read cycles for ever.
Recovers == <>[]Calm => []<>(state = "READ" /\ currentReadGroup = 2 /\ online)

\* A closed view leaves nothing behind that polls: though several timer chains may
\* run, each starting itself anew for ever, and commands to reconnect are still
\* queued, the worker comes to leave the CMU alone for good (THREAD_EXIT, stop).
ClosedViewFallsSilent ==
  <>~viewOpen => <>[][FALSE]_<<conn, pollVars, paraVars>>

\* An expired build says so, however often the user reconnects.
ExpiryShown == (expired /\ state # "NONE") ~> outOfDate
=============================================================================
