------------------------------- MODULE RegPlan -------------------------------
(***************************************************************************)
(* How the tool plans its Modbus reads: Init() of the polling worker       *)
(* (mb_cmu) and init_config of a batch worker (mb_tcp) walk the node table *)
(* and put each node into a message (a block of registers read at once)    *)
(* that JudgeReg finds usable, or into a new one.  The two planners differ *)
(* in the length of a message, and mb_tcp joins nodes over any gap.        *)
(* ReadAI later takes the value of a node from the answer to its message,  *)
(* at the offset recorded here, in a buffer of Buffer words.               *)
(***************************************************************************)
EXTENDS Integers, Sequences

CONSTANT Tables         \* node tables the database may hold

\* The constants of the code.
REG_DIFF_REFUSE_TO_INSERT == 10
Buffer   == 128         \* tab_buf of ReadAI
Word     == 65536       \* values of a uint16_t
Byte     == 256         \* values of the uint8_t that holds an offset

NONE_REG == 0
Bits     == {1, 2}      \* DO_REG, DI_REG
Words    == {3, 4}      \* AO_REG, AI_REG, the ones ReadData reads

\* A node has a type, an address and a length in registers.
Node == [type: {NONE_REG} \cup Bits \cup Words, addr: 0 .. Word - 1, len: {1, 2}]

ASSUME TablesAssumption ==
  \A t \in Tables : /\ t \in Seq(Node)
                    /\ \A i \in 1 .. Len(t) : t[i].addr + t[i].len < Word

VARIABLES
  planner,              \* whose planner runs
  nodes_table,
  next,                 \* the node Init() handles next
  reg_list              \* messages: type, start, num, what is taken from it

vars == <<planner, nodes_table, next, reg_list>>

Message == [type: Bits \cup Words, start: 0 .. Word - 1, num: Nat,
            data_io: Seq([index: Nat \ {0}, offset: 0 .. Byte - 1])]

\* (max_frame_len - 9) / 2 registers a message, or max_frame_len.
ShortNum == IF planner = "mb_cmu" THEN 110 ELSE 120
BitNum   == 16 * ShortNum

\* A batch reads settings, which all have a register.
Init ==
  /\ planner \in {"mb_cmu", "mb_tcp"}
  /\ nodes_table \in Tables
  /\ planner = "mb_tcp" =>
       \A i \in 1 .. Len(nodes_table) : nodes_table[i].type # NONE_REG
  /\ next = 1
  /\ reg_list = <<>>

\* No register of its type lies in the range below it.
NearBelow_Either(m, n) ==
  m.type = n.type /\ m.addr # n.addr /\ n.addr - m.addr < REG_DIFF_REFUSE_TO_INSERT
NearBelow(m, n) ==
  m.type = n.type /\ n.addr - m.addr \in 1 .. REG_DIFF_REFUSE_TO_INSERT - 1

RefuseToInsert(n) ==
  planner = "mb_cmu" /\ \A i \in 1 .. Len(nodes_table) : ~NearBelow(nodes_table[i], n)

\* The distance is a uint16_t.
Fits(n, m) ==
  /\ m.type = n.type
  /\ IF n.type \in Bits
     THEN (n.addr - m.start) % Word < BitNum
     ELSE (n.addr + n.len - m.start) % Word < ShortNum

Usable(n) ==
  IF RefuseToInsert(n) THEN {} ELSE {k \in 1 .. Len(reg_list) : Fits(n, reg_list[k])}

\* The last usable message.
JudgeReg(n, k) == k \in Usable(n) /\ \A j \in Usable(n) : j <= k

\* What is taken from a message for node i.
Index_Before(i) == i - 1
Index(i) == i
Take(i, offset) == [index |-> Index(i), offset |-> offset]

Pushed_Alone(data_io, e) == <<e>>
Pushed(data_io, e) == Append(data_io, e)

NewReg(n, i) ==
  Append(reg_list, [type |-> n.type, start |-> n.addr, num |-> n.len,
                    data_io |-> <<Take(i, 0)>>])

Grown_NoLength(num, offset, n) == IF num < offset THEN offset ELSE num
Grown(num, offset, n) == IF num < offset + n.len THEN offset + n.len ELSE num

InsertReg(n, i, k) ==
  LET offset == (n.addr - reg_list[k].start) % Byte
  IN [reg_list EXCEPT ![k] =
        [type |-> @.type, start |-> @.start, num |-> Grown(@.num, offset, n),
         data_io |-> Pushed(@.data_io, Take(i, offset))]]

Plan ==
  LET n == nodes_table[next] IN
  /\ next <= Len(nodes_table)
  /\ next' = next + 1
  /\ \/ /\ n.type = NONE_REG
        /\ UNCHANGED reg_list
     \/ /\ n.type # NONE_REG
        /\ \E k \in 1 .. Len(reg_list) :
             JudgeReg(n, k) /\ reg_list' = InsertReg(n, next, k)
     \/ /\ n.type # NONE_REG
        /\ Usable(n) = {}
        /\ reg_list' = NewReg(n, next)
  /\ UNCHANGED <<planner, nodes_table>>

Next == Plan
Spec == Init /\ [][Next]_vars

-----------------------------------------------------------------------------
TypeOK ==
  /\ planner \in {"mb_cmu", "mb_tcp"}
  /\ nodes_table \in Tables
  /\ next \in 1 .. Len(nodes_table) + 1
  /\ reg_list \in Seq(Message)

\* What is taken from a message: data_io entry e of message m reads the
\* registers of its own node, within the answer and the buffer.
TakesItsNode(m, e) ==
  LET n == nodes_table[e.index] IN
  /\ e.index \in 1 .. next - 1
  /\ m.type = n.type
  /\ m.start + e.offset = n.addr
  /\ e.offset + n.len <= m.num

\* "returns the number of a usable message" (mb_cmu.cpp:1424): every node of a
\* word type is read from the registers it has, in one request no longer than
\* what one answer holds, inside the buffer of ReadAI.
Covers(m) ==
  m.type \in Words =>
    /\ m.num <= ShortNum /\ m.num < Buffer
    /\ \A i \in 1 .. Len(m.data_io) : TakesItsNode(m, m.data_io[i])
UsableMessages == \A k \in 1 .. Len(reg_list) : Covers(reg_list[k])

\* "registers with no neighbour within a certain range cannot form a batch"
\* (mb_cmu.cpp:1434): a message of the polling worker never spans a gap of that
\* range, which a CMU would answer with an error.
NoGap ==
  planner = "mb_cmu" => \A k \in 1 .. Len(reg_list) :
    LET m == reg_list[k]
        addrs == {nodes_table[m.data_io[i].index].addr : i \in 1 .. Len(m.data_io)}
    IN \A a \in addrs :
         a # m.start => \E b \in addrs : a - b \in 1 .. REG_DIFF_REFUSE_TO_INSERT - 1

\* Every node handled so far that has a register is taken from one place of one
\* message, none twice and none forgotten.
EachPlannedOnce ==
  \A i \in 1 .. next - 1 :
    LET places == {p \in (1 .. Len(reg_list)) \X (1 .. next) :
                     /\ p[2] <= Len(reg_list[p[1]].data_io)
                     /\ reg_list[p[1]].data_io[p[2]].index = i}
    IN IF nodes_table[i].type = NONE_REG THEN places = {}
       ELSE \E p \in places : places = {p}

\* A table in ascending order of the addresses of each type.
Sorted(t) ==
  \A i, j \in 1 .. Len(t) : i < j /\ t[i].type = t[j].type => t[i].addr <= t[j].addr
=============================================================================
