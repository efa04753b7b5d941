---------------------------- MODULE RegPlan_proofs ----------------------------
(***************************************************************************)
(* Proofs about RegPlan, for every set of node tables: no node is planned  *)
(* twice, none is forgotten, and if the tables are sorted, every node is   *)
(* read from its own registers and the polling worker reads over no gap.   *)
(***************************************************************************)
EXTENDS RegPlan, TLAPS

\* A message starts at the register of a node that has been handled: in a sorted
\* table no later node of its type lies below it.
StartsPlanned ==
  \A k \in 1 .. Len(reg_list) : \E i \in 1 .. next - 1 :
    /\ nodes_table[i].type = reg_list[k].type
    /\ nodes_table[i].addr = reg_list[k].start

\* The inductive invariant.
IInv == TypeOK /\ StartsPlanned /\ UsableMessages

\* Numbers that fit a byte or a word do not wrap.
LEMMA ModByte ==
  ASSUME NEW a \in Int
  PROVE  a % Byte \in 0 .. Byte - 1 /\ (0 <= a /\ a < Byte => a % Byte = a)
BY DEF Byte

LEMMA ByteNat ==
  ASSUME NEW a \in 0 .. Byte - 1
  PROVE  a \in Nat
<1>1. Byte \in Int
  BY DEF Byte
<1> QED BY <1>1

LEMMA ModWord ==
  ASSUME NEW a \in Int, 0 <= a, a < Word
  PROVE  a % Word = a
BY DEF Word

\* A message of either planner is shorter than the buffer, and than a byte counts.
LEMMA ShortFits == 2 <= ShortNum /\ ShortNum < Buffer /\ ShortNum < Byte /\ ShortNum \in Nat
BY DEF ShortNum, Buffer, Byte

\* What next names is a node.
LEMMA NextNode ==
  ASSUME TypeOK, next <= Len(nodes_table)
  PROVE  /\ nodes_table \in Seq(Node)
         /\ next \in 1 .. Len(nodes_table)
         /\ nodes_table[next] \in Node
         /\ nodes_table[next].addr + nodes_table[next].len < Word
<1>1. nodes_table \in Seq(Node) /\ next \in 1 .. Len(nodes_table)
  BY TablesAssumption DEF TypeOK
<1>2. nodes_table[next] \in Node
  BY <1>1
<1>3. nodes_table[next].addr + nodes_table[next].len < Word
  BY <1>1, TablesAssumption DEF TypeOK
<1> QED BY <1>1, <1>2, <1>3

\* The message InsertReg changes: it keeps its type and start, its length covers
\* the new node, and one entry for the node comes behind the ones it has.
LEMMA Inserted ==
  ASSUME NEW n \in Node, NEW i \in Nat \ {0}, NEW k \in 1 .. Len(reg_list),
         reg_list \in Seq(Message)
  PROVE  /\ InsertReg(n, i, k) \in Seq(Message)
         /\ Len(InsertReg(n, i, k)) = Len(reg_list)
         /\ \A j \in 1 .. Len(reg_list) :
              j # k => InsertReg(n, i, k)[j] = reg_list[j]
         /\ InsertReg(n, i, k)[k].type = reg_list[k].type
         /\ InsertReg(n, i, k)[k].start = reg_list[k].start
         /\ InsertReg(n, i, k)[k].num =
              Grown(reg_list[k].num, (n.addr - reg_list[k].start) % Byte, n)
         /\ InsertReg(n, i, k)[k].data_io =
              Append(reg_list[k].data_io,
                     Take(i, (n.addr - reg_list[k].start) % Byte))
<1> DEFINE m == reg_list[k]
           offset == (n.addr - m.start) % Byte
           new == InsertReg(n, i, k)
           changed == [type |-> m.type, start |-> m.start,
                       num |-> Grown(m.num, offset, n),
                       data_io |-> Append(m.data_io, Take(i, offset))]
<1>1. m \in Message
  OBVIOUS
<1>2. n.addr \in Int /\ m.start \in Int /\ n.len \in Nat
  BY <1>1 DEF Node, Message
<1>3. offset \in 0 .. Byte - 1
  <2>1. n.addr - m.start \in Int
    BY <1>2
  <2> QED BY <2>1, ModByte
<1>4. Grown(m.num, offset, n) \in Nat
  <2>1. m.num \in Nat
    BY <1>1 DEF Message
  <2>2. offset \in Nat /\ n.len \in Nat
    BY <1>2, <1>3, ByteNat
  <2> HIDE DEF offset, m
  <2> QED BY <2>1, <2>2 DEF Grown
<1>5. Take(i, offset) \in [index: Nat \ {0}, offset: 0 .. Byte - 1]
  BY <1>3 DEF Take, Index
<1>6. Append(m.data_io, Take(i, offset)) \in Seq([index: Nat \ {0}, offset: 0 .. Byte - 1])
  BY <1>1, <1>5 DEF Message
<1>7. changed \in Message
  BY <1>1, <1>4, <1>6 DEF Message
<1>8. new = [reg_list EXCEPT ![k] = changed]
  BY DEF InsertReg, Pushed
<1> HIDE DEF changed, new
<1>9. new \in Seq(Message) /\ Len(new) = Len(reg_list)
  BY <1>7, <1>8
<1>10. new[k] = changed /\ \A j \in 1 .. Len(reg_list) : j # k => new[j] = reg_list[j]
  BY <1>8
<1>11. /\ changed.type = m.type /\ changed.start = m.start
       /\ changed.num = Grown(m.num, offset, n)
       /\ changed.data_io = Append(m.data_io, Take(i, offset))
  BY DEF changed
<1> QED BY <1>9, <1>10, <1>11 DEF new

LEMMA TypeNext ==
  ASSUME TypeOK, [Next]_vars
  PROVE  TypeOK'
<1>1. CASE UNCHANGED vars
  BY <1>1 DEF vars, TypeOK
<1>2. CASE Plan
  <2> DEFINE n == nodes_table[next]
  <2>1. /\ next <= Len(nodes_table) /\ next' = next + 1
        /\ nodes_table' = nodes_table /\ planner' = planner
    BY <1>2 DEF Plan
  <2>2. n \in Node /\ next \in 1 .. Len(nodes_table) /\ nodes_table \in Seq(Node)
    BY <2>1, NextNode
  <2>3. reg_list \in Seq(Message)
    BY DEF TypeOK
  <2>4. reg_list' \in Seq(Message)
    <3>1. CASE UNCHANGED reg_list
      BY <2>3, <3>1
    <3>2. CASE \E k \in 1 .. Len(reg_list) : reg_list' = InsertReg(n, next, k)
      <4>1. PICK k \in 1 .. Len(reg_list) : reg_list' = InsertReg(n, next, k)
        BY <3>2
      <4>2. next \in Nat \ {0}
        BY <2>2
      <4> QED BY <2>2, <2>3, <4>1, <4>2, Inserted
    <3>3. CASE n.type # NONE_REG /\ reg_list' = NewReg(n, next)
      <4> DEFINE m == [type |-> n.type, start |-> n.addr, num |-> n.len,
                       data_io |-> <<Take(next, 0)>>]
      <4>1. Take(next, 0) \in [index: Nat \ {0}, offset: 0 .. Byte - 1]
        BY <2>2 DEF Take, Index, Byte
      <4>2. <<Take(next, 0)>> \in Seq([index: Nat \ {0}, offset: 0 .. Byte - 1])
        BY <4>1
      <4>3. m \in Message
        BY <2>2, <3>3, <4>2 DEF Node, Message
      <4> QED BY <2>3, <3>3, <4>3 DEF NewReg
    <3> QED BY <1>2, <3>1, <3>2, <3>3 DEF Plan
  <2>5. next' \in 1 .. Len(nodes_table) + 1
    BY <2>1, <2>2
  <2> QED BY <2>1, <2>4, <2>5 DEF TypeOK
<1> QED BY <1>1, <1>2 DEF Next

\* In a sorted table no message of its type starts above the node that is next.
LEMMA StartBelow ==
  ASSUME TypeOK, StartsPlanned, Sorted(nodes_table), next <= Len(nodes_table),
         NEW k \in 1 .. Len(reg_list),
         reg_list[k].type = nodes_table[next].type
  PROVE  reg_list[k].start <= nodes_table[next].addr
<1>1. PICK i \in 1 .. next - 1 : /\ nodes_table[i].type = reg_list[k].type
                                 /\ nodes_table[i].addr = reg_list[k].start
  BY DEF StartsPlanned
<1>2. next \in 1 .. Len(nodes_table)
  BY NextNode
<1>3. i \in 1 .. Len(nodes_table) /\ i < next
  BY <1>2
<1> QED BY <1>1, <1>2, <1>3 DEF Sorted

\* What JudgeReg finds usable for a node of a word type covers it: the distance
\* has not wrapped, and the offset keeps its value.
LEMMA JudgedCovers ==
  ASSUME TypeOK, StartsPlanned, Sorted(nodes_table), next <= Len(nodes_table),
         NEW k \in 1 .. Len(reg_list), JudgeReg(nodes_table[next], k),
         nodes_table[next].type \in Words
  PROVE  LET n == nodes_table[next]
             offset == (n.addr - reg_list[k].start) % Byte
         IN /\ reg_list[k].type = n.type
            /\ reg_list[k].start + offset = n.addr
            /\ offset + n.len < ShortNum
<1> DEFINE n == nodes_table[next]
           m == reg_list[k]
<1>1. n \in Node /\ n.addr + n.len < Word
  BY NextNode
<1>2. m \in Message
  BY DEF TypeOK
<1>3. Fits(n, m)
  BY DEF JudgeReg, Usable
<1>4. m.type = n.type /\ (n.addr + n.len - m.start) % Word < ShortNum
  BY <1>3 DEF Fits, Words, Bits
<1>5. m.start <= n.addr
  BY <1>4, StartBelow
<1>6. n.addr \in Int /\ n.len \in {1, 2} /\ m.start \in Int
  BY <1>1, <1>2 DEF Node, Message
<1> DEFINE d == n.addr - m.start
<1>7. d \in Int /\ 0 <= d /\ d + n.len < Word
  <2>1. m.start \in 0 .. Word - 1
    BY <1>2 DEF Message
  <2>2. Word \in Int
    BY DEF Word
  <2>3. 0 <= m.start
    BY <2>1, <2>2
  <2>4. n.addr + n.len < Word
    BY <1>1
  <2> HIDE DEF n, m
  <2> QED BY <1>5, <1>6, <2>2, <2>3, <2>4
<1>8. n.addr + n.len - m.start = d + n.len
  BY <1>6
<1>9. (d + n.len) % Word = d + n.len
  <2>1. d + n.len \in Int /\ 0 <= d + n.len
    BY <1>6, <1>7
  <2> QED BY <1>7, <2>1, ModWord
<1>10. d + n.len < ShortNum
  BY <1>4, <1>8, <1>9
<1>11. d < Byte
  <2>1. ShortNum \in Nat /\ ShortNum < Byte /\ Byte \in Nat
    BY ShortFits DEF Byte
  <2> HIDE DEF d
  <2> QED BY <1>6, <1>7, <1>10, <2>1
<1>12. d % Byte = d
  BY <1>7, <1>11, ModByte
<1>13. m.start + d = n.addr
  BY <1>6
<1> QED BY <1>4, <1>10, <1>12, <1>13

LEMMA StartsNext ==
  ASSUME TypeOK, StartsPlanned, Plan
  PROVE  StartsPlanned'
<1> DEFINE n == nodes_table[next]
<1>1. /\ next <= Len(nodes_table) /\ next' = next + 1
      /\ nodes_table' = nodes_table /\ planner' = planner
  BY DEF Plan
<1>2. n \in Node /\ next \in 1 .. Len(nodes_table) /\ reg_list \in Seq(Message)
  BY <1>1, NextNode DEF TypeOK
<1>3. \A k \in 1 .. Len(reg_list) : \E i \in 1 .. next' - 1 :
        /\ nodes_table[i].type = reg_list[k].type
        /\ nodes_table[i].addr = reg_list[k].start
  BY <1>1, <1>2 DEF StartsPlanned
<1>4. CASE UNCHANGED reg_list
  BY <1>1, <1>3, <1>4 DEF StartsPlanned
<1>5. CASE \E k \in 1 .. Len(reg_list) : reg_list' = InsertReg(n, next, k)
  <2>1. PICK k \in 1 .. Len(reg_list) : reg_list' = InsertReg(n, next, k)
    BY <1>5
  <2>2. /\ Len(reg_list') = Len(reg_list)
        /\ \A j \in 1 .. Len(reg_list) : /\ reg_list'[j].type = reg_list[j].type
                                         /\ reg_list'[j].start = reg_list[j].start
    <3>1. next \in Nat \ {0}
      BY <1>2
    <3> DEFINE new == InsertReg(n, next, k)
    <3> HIDE DEF n
    <3>2. /\ Len(new) = Len(reg_list)
          /\ new[k].type = reg_list[k].type /\ new[k].start = reg_list[k].start
          /\ \A j \in 1 .. Len(reg_list) : j # k => new[j] = reg_list[j]
      BY <1>2, <3>1, Inserted
    <3> HIDE DEF new
    <3>3. \A j \in 1 .. Len(reg_list) : /\ new[j].type = reg_list[j].type
                                        /\ new[j].start = reg_list[j].start
      BY <3>2
    <3>4. reg_list' = new
      BY <2>1 DEF new
    <3> QED BY <3>2, <3>3, <3>4
  <2> QED BY <1>1, <1>3, <2>2 DEF StartsPlanned
<1>6. CASE reg_list' = NewReg(n, next)
  <2>1. /\ Len(reg_list') = Len(reg_list) + 1
        /\ \A j \in 1 .. Len(reg_list) : reg_list'[j] = reg_list[j]
        /\ reg_list'[Len(reg_list) + 1].type = n.type
        /\ reg_list'[Len(reg_list) + 1].start = n.addr
    BY <1>2, <1>6 DEF NewReg
  <2> SUFFICES ASSUME NEW k \in 1 .. Len(reg_list')
               PROVE  \E i \in 1 .. next' - 1 :
                        /\ nodes_table[i].type = reg_list'[k].type
                        /\ nodes_table[i].addr = reg_list'[k].start
    BY <1>1 DEF StartsPlanned
  <2>2. CASE k \in 1 .. Len(reg_list)
    BY <1>3, <2>1, <2>2
  <2>3. CASE k = Len(reg_list) + 1
    BY <1>1, <1>2, <2>1, <2>3
  <2> QED BY <1>2, <2>1, <2>2, <2>3
<1> QED BY <1>4, <1>5, <1>6 DEF Plan

\* A message that covers its nodes goes on doing so.
LEMMA CoversOn ==
  ASSUME NEW CONSTANT m, Covers(m), next \in Nat, next' = next + 1,
         nodes_table' = nodes_table, planner' = planner
  PROVE  Covers(m)'
<1>1. ASSUME NEW CONSTANT e, TakesItsNode(m, e)
      PROVE  TakesItsNode(m, e)'
  <2>1. e.index \in 1 .. next' - 1
    BY <1>1 DEF TakesItsNode
  <2> QED BY <1>1, <2>1 DEF TakesItsNode
<1>2. ShortNum' = ShortNum
  BY DEF ShortNum
<1> QED BY <1>1, <1>2 DEF Covers

\* So does one that grows by a node JudgeReg found it usable for.
LEMMA CoversInserted ==
  ASSUME IInv, Sorted(nodes_table), Plan,
         NEW k \in 1 .. Len(reg_list), JudgeReg(nodes_table[next], k),
         NEW CONSTANT m, m = InsertReg(nodes_table[next], next, k)[k]
  PROVE  Covers(m)'
<1> DEFINE n == nodes_table[next]
           old == reg_list[k]
           offset == (n.addr - old.start) % Byte
<1>1. /\ next <= Len(nodes_table) /\ next' = next + 1
      /\ nodes_table' = nodes_table /\ planner' = planner
  BY DEF Plan
<1>2. /\ n \in Node /\ next \in 1 .. Len(nodes_table)
      /\ reg_list \in Seq(Message) /\ next \in Nat \ {0}
  BY <1>1, NextNode DEF TypeOK, IInv
<1>3. /\ m.type = old.type /\ m.start = old.start
      /\ m.num = Grown(old.num, offset, n)
      /\ m.data_io = Append(old.data_io, Take(next, offset))
  BY <1>2, Inserted
<1>4. SUFFICES ASSUME m.type \in Words
               PROVE  /\ m.num <= ShortNum /\ m.num < Buffer
                      /\ \A i \in 1 .. Len(m.data_io) : TakesItsNode(m, m.data_io[i])'
  <2>1. ShortNum' = ShortNum
    BY <1>1 DEF ShortNum
  <2> QED BY <2>1 DEF Covers
<1>5. old.type = n.type
  BY DEF JudgeReg, Usable, Fits
<1>6. old.start + offset = n.addr /\ offset + n.len < ShortNum
  BY <1>1, <1>3, <1>4, <1>5, JudgedCovers DEF IInv
<1>7. /\ old.num <= ShortNum /\ old.num < Buffer
      /\ \A i \in 1 .. Len(old.data_io) : TakesItsNode(old, old.data_io[i])
  BY <1>3, <1>4 DEF IInv, UsableMessages, Covers
<1>8. /\ old.num \in Nat /\ old.start \in Int /\ n.len \in Nat /\ n.addr \in Int
      /\ old.data_io \in Seq([index: Nat \ {0}, offset: 0 .. Byte - 1])
  <2>1. old \in Message
    BY <1>2
  <2>2. n.len \in Nat /\ n.addr \in Int
    BY <1>2 DEF Node
  <2> HIDE DEF old
  <2> QED BY <2>1, <2>2 DEF Message
<1>9. offset \in 0 .. Byte - 1 /\ offset \in Nat
  <2>1. n.addr - old.start \in Int
    BY <1>8
  <2>2. offset \in 0 .. Byte - 1
    BY <2>1, ModByte
  <2> QED BY <2>2, ByteNat
<1>10. /\ m.num <= ShortNum /\ m.num < Buffer
       /\ old.num <= m.num /\ offset + n.len <= m.num
       /\ m.num \in Nat
  <2>1. m.num = Grown(old.num, offset, n)
    BY <1>3
  <2>2. old.num <= ShortNum /\ old.num < Buffer
    BY <1>7
  <2>3. old.num \in Nat /\ n.len \in Nat /\ offset \in Nat
    BY <1>8, <1>9
  <2>4. offset + n.len < ShortNum
    BY <1>6
  <2> HIDE DEF offset, old, n
  <2> QED BY <2>1, <2>2, <2>3, <2>4, ShortFits DEF Grown, Buffer
<1>11. ASSUME NEW i \in 1 .. Len(m.data_io)
       PROVE  TakesItsNode(m, m.data_io[i])'
  <2>1. Take(next, offset) \in [index: Nat \ {0}, offset: 0 .. Byte - 1]
    BY <1>2, <1>9 DEF Take, Index
  <2>2. /\ Len(m.data_io) = Len(old.data_io) + 1
        /\ \A j \in 1 .. Len(old.data_io) : m.data_io[j] = old.data_io[j]
        /\ m.data_io[Len(old.data_io) + 1] = Take(next, offset)
    BY <1>3, <1>8, <2>1
  <2>3. CASE i \in 1 .. Len(old.data_io)
    <3> DEFINE e == old.data_io[i]
    <3>1. TakesItsNode(old, e)
      BY <1>7, <2>3
    <3>2. e.index \in 1 .. next' - 1 /\ e.index \in 1 .. Len(nodes_table)
      BY <1>1, <1>2, <3>1 DEF TakesItsNode
    <3>3. e.offset \in Nat
      <4>1. e \in [index: Nat \ {0}, offset: 0 .. Byte - 1]
        <5>1. ASSUME NEW T, NEW io \in Seq(T), NEW j \in 1 .. Len(io)
              PROVE  io[j] \in T
          OBVIOUS
        <5> HIDE DEF old
        <5> QED BY <1>8, <2>3, <5>1
      <4>2. e.offset \in 0 .. Byte - 1
        BY <4>1
      <4> QED BY <4>2, ByteNat
    <3>4. e.offset + nodes_table[e.index].len <= m.num
      <4>1. nodes_table[e.index] \in Node
        BY <1>1, <3>2, NextNode DEF IInv
      <4>2. nodes_table[e.index].len \in Nat
        BY <4>1 DEF Node
      <4>3. e.offset + nodes_table[e.index].len <= old.num
        BY <3>1 DEF TakesItsNode
      <4> HIDE DEF e, old
      <4> QED BY <1>8, <1>10, <3>3, <4>2, <4>3
    <3>5. /\ m.type = nodes_table[e.index].type
          /\ m.start + e.offset = nodes_table[e.index].addr
      BY <1>3, <3>1 DEF TakesItsNode
    <3>6. m.data_io[i] = e
      BY <2>2, <2>3
    <3> HIDE DEF e
    <3> QED BY <1>1, <3>2, <3>4, <3>5, <3>6 DEF TakesItsNode
  <2>4. CASE i = Len(old.data_io) + 1
    <3>1. m.data_io[i].index = next /\ m.data_io[i].offset = offset
      BY <2>2, <2>4 DEF Take, Index
    <3>2. next \in 1 .. next' - 1
      BY <1>1, <1>2
    <3> HIDE DEF offset, old
    <3> QED BY <1>1, <1>3, <1>5, <1>6, <1>10, <3>1, <3>2 DEF TakesItsNode
  <2> QED BY <1>8, <2>2, <2>3, <2>4
<1> QED BY <1>10, <1>11

\* So does a new message.
LEMMA CoversNew ==
  ASSUME IInv, Plan,
         NEW CONSTANT m,
         m = [type |-> nodes_table[next].type, start |-> nodes_table[next].addr,
              num |-> nodes_table[next].len, data_io |-> <<Take(next, 0)>>]
  PROVE  Covers(m)'
<1> DEFINE n == nodes_table[next]
<1>1. /\ next <= Len(nodes_table) /\ next' = next + 1
      /\ nodes_table' = nodes_table /\ planner' = planner
  BY DEF Plan
<1>2. n \in Node /\ next \in Nat \ {0}
  BY <1>1, NextNode DEF TypeOK, IInv
<1>3. n.len \in {1, 2} /\ n.addr \in Int
  BY <1>2 DEF Node
<1>4. m.num <= ShortNum /\ m.num < Buffer
  BY <1>3, ShortFits DEF Buffer
<1>5. ASSUME NEW CONSTANT e, e = Take(next, 0)
      PROVE  TakesItsNode(m, e)'
  <2>1. e.index = next /\ e.offset = 0
    BY <1>5 DEF Take, Index
  <2>2. next \in 1 .. next' - 1
    BY <1>1, <1>2
  <2> QED BY <1>1, <1>3, <2>1, <2>2 DEF TakesItsNode
<1>6. Len(m.data_io) = 1 /\ m.data_io[1] = Take(next, 0)
  OBVIOUS
<1>7. ASSUME NEW CONSTANT i \in 1 .. Len(m.data_io)
      PROVE  TakesItsNode(m, m.data_io[i])'
  BY <1>5, <1>6
<1>8. ShortNum' = ShortNum
  BY <1>1 DEF ShortNum
<1> QED BY <1>4, <1>7, <1>8 DEF Covers

LEMMA UsableNext ==
  ASSUME IInv, Sorted(nodes_table), Plan
  PROVE  UsableMessages'
<1> DEFINE n == nodes_table[next]
<1>1. /\ next <= Len(nodes_table) /\ next' = next + 1
      /\ nodes_table' = nodes_table /\ planner' = planner
  BY DEF Plan
<1>2. n \in Node /\ reg_list \in Seq(Message) /\ next \in Nat \ {0}
  BY <1>1, NextNode DEF TypeOK, IInv
<1>3. ASSUME NEW k \in 1 .. Len(reg_list), NEW CONSTANT m, m = reg_list[k]
      PROVE  Covers(m)'
  BY <1>1, <1>2, <1>3, CoversOn DEF IInv, UsableMessages
<1>4. CASE UNCHANGED reg_list
  BY <1>3, <1>4 DEF UsableMessages
<1>5. CASE \E k \in 1 .. Len(reg_list) :
             JudgeReg(n, k) /\ reg_list' = InsertReg(n, next, k)
  <2>1. PICK k \in 1 .. Len(reg_list) :
          JudgeReg(n, k) /\ reg_list' = InsertReg(n, next, k)
    BY <1>5
  <2>2. /\ Len(reg_list') = Len(reg_list)
        /\ \A j \in 1 .. Len(reg_list) : j # k => reg_list'[j] = reg_list[j]
    BY <1>2, <2>1, Inserted
  <2>3. ASSUME NEW CONSTANT m, m = reg_list'[k]
        PROVE  Covers(m)'
    BY <2>1, <2>3, CoversInserted
  <2>4. ASSUME NEW CONSTANT j \in 1 .. Len(reg_list'), NEW CONSTANT m, m = reg_list'[j]
        PROVE  Covers(m)'
    BY <1>3, <2>2, <2>3, <2>4
  <2> QED BY <2>4 DEF UsableMessages
<1>6. CASE reg_list' = NewReg(n, next)
  <2>1. /\ Len(reg_list') = Len(reg_list) + 1
        /\ \A j \in 1 .. Len(reg_list) : reg_list'[j] = reg_list[j]
        /\ reg_list'[Len(reg_list) + 1] =
             [type |-> n.type, start |-> n.addr, num |-> n.len,
              data_io |-> <<Take(next, 0)>>]
    BY <1>2, <1>6 DEF NewReg
  <2>2. ASSUME NEW CONSTANT m, m = reg_list'[Len(reg_list) + 1]
        PROVE  Covers(m)'
    BY <2>1, <2>2, CoversNew
  <2>3. \A j \in 1 .. Len(reg_list') : j \in 1 .. Len(reg_list) \/ j = Len(reg_list) + 1
    BY <1>2, <2>1
  <2>4. ASSUME NEW CONSTANT j \in 1 .. Len(reg_list'), NEW CONSTANT m, m = reg_list'[j]
        PROVE  Covers(m)'
    BY <1>3, <2>1, <2>2, <2>3, <2>4
  <2> QED BY <2>4 DEF UsableMessages
<1> QED BY <1>4, <1>5, <1>6 DEF Plan

\* Every state of the planner satisfies the inductive invariant, if the database
\* returns its tables in ascending order.
THEOREM Invariance ==
  ASSUME \A t \in Tables : Sorted(t)
  PROVE  Spec => []IInv
<1>1. Init => IInv
  <2> SUFFICES ASSUME Init PROVE IInv
    OBVIOUS
  <2>1. /\ reg_list = <<>> /\ next = 1 /\ nodes_table \in Tables
        /\ planner \in {"mb_cmu", "mb_tcp"}
    BY DEF Init
  <2>2. Len(nodes_table) \in Nat
    BY <2>1, TablesAssumption
  <2> QED BY <2>1, <2>2 DEF IInv, TypeOK, StartsPlanned, UsableMessages
<1>2. IInv /\ [Next]_vars => IInv'
  <2> SUFFICES ASSUME IInv, [Next]_vars PROVE IInv'
    OBVIOUS
  <2>1. TypeOK'
    BY TypeNext DEF IInv
  <2>2. CASE Plan
    <3>1. Sorted(nodes_table)
      BY DEF IInv, TypeOK
    <3> QED BY <2>1, <2>2, <3>1, StartsNext, UsableNext DEF IInv
  <2>3. CASE UNCHANGED vars
    BY <2>1, <2>3 DEF vars, IInv, StartsPlanned, UsableMessages, Covers, TakesItsNode,
                     ShortNum
  <2> QED BY <2>2, <2>3 DEF Next
<1> QED BY <1>1, <1>2, PTL DEF Spec

\* The planner keeps its types, whatever the order of the tables: the offset of
\* a node is a byte, its message one of a type that is read.
THEOREM TypeCorrect == Spec => []TypeOK
<1>1. Init => TypeOK
  <2> SUFFICES ASSUME Init PROVE TypeOK
    OBVIOUS
  <2>1. /\ reg_list = <<>> /\ next = 1 /\ nodes_table \in Tables
        /\ planner \in {"mb_cmu", "mb_tcp"}
    BY DEF Init
  <2>2. Len(nodes_table) \in Nat
    BY <2>1, TablesAssumption
  <2> QED BY <2>1, <2>2 DEF TypeOK
<1>2. TypeOK /\ [Next]_vars => TypeOK'
  BY TypeNext
<1> QED BY <1>1, <1>2, PTL DEF Spec

\* In ascending tables every node is read from the registers it has: JudgeReg
\* returns usable messages only.
THEOREM NodesReadFromTheirRegisters ==
  ASSUME \A t \in Tables : Sorted(t)
  PROVE  Spec => []UsableMessages
<1>1. IInv => UsableMessages
  BY DEF IInv
<1> QED BY <1>1, Invariance, PTL
-----------------------------------------------------------------------------
(* Where a node is taken from.                                               *)

\* Entry j of message k is taken for node i.
Place(k, j, i) ==
  /\ k \in 1 .. Len(reg_list) /\ j \in 1 .. Len(reg_list[k].data_io)
  /\ reg_list[k].data_io[j].index = i

\* The nodes handled have their places, all in messages of their type.
PlacedOnce ==
  /\ \A k, j, i : Place(k, j, i) =>
       j < next /\ i \in 1 .. next - 1 /\ nodes_table[i].type = reg_list[k].type
  /\ \A k, j, l, q, i : Place(k, j, i) /\ Place(l, q, i) => k = l /\ j = q
  /\ \A i \in 1 .. next - 1 :
       nodes_table[i].type # NONE_REG => \E k, j : Place(k, j, i)

\* The planner puts the node that is next into place j of message k, the last one of the
\* message.
PutAt(k, j) ==
  /\ \A a, b, i : Place(a, b, i)' <=> Place(a, b, i) \/ (a = k /\ b = j /\ i = next)
  /\ \A i : ~Place(k, j, i)
  /\ j = 1 \/ \E i : Place(k, j - 1, i)
  /\ Len(reg_list) <= Len(reg_list')
  /\ \A a \in 1 .. Len(reg_list) :
       reg_list'[a].type = reg_list[a].type /\ reg_list'[a].start = reg_list[a].start

LEMMA PlacesOf ==
  ASSUME reg_list \in Seq(Message)
  PROVE  \A k \in 1 .. Len(reg_list) :
           /\ reg_list[k].data_io \in Seq([index: Nat \ {0}, offset: 0 .. Byte - 1])
           /\ Len(reg_list[k].data_io) \in Nat /\ reg_list[k].start \in Nat
<1> SUFFICES ASSUME NEW k \in 1 .. Len(reg_list)
             PROVE  /\ reg_list[k].data_io
                         \in Seq([index: Nat \ {0}, offset: 0 .. Byte - 1])
                    /\ Len(reg_list[k].data_io) \in Nat /\ reg_list[k].start \in Nat
  OBVIOUS
<1>1. reg_list[k] \in Message
  OBVIOUS
<1>2. reg_list[k].data_io \in Seq([index: Nat \ {0}, offset: 0 .. Byte - 1])
  BY <1>1 DEF Message
<1>3. reg_list[k].start \in Nat
  <2>1. reg_list[k].start \in 0 .. Word - 1
    BY <1>1 DEF Message
  <2>2. Word \in Int
    BY DEF Word
  <2> QED BY <2>1, <2>2
<1> HIDE DEF Message
<1> QED BY <1>2, <1>3

LEMMA PutInMessage ==
  ASSUME TypeOK, Plan, NEW k \in 1 .. Len(reg_list),
         reg_list' = InsertReg(nodes_table[next], next, k)
  PROVE  /\ PutAt(k, Len(reg_list[k].data_io) + 1)
         /\ Len(reg_list') = Len(reg_list) /\ Len(reg_list[k].data_io) + 1 \in Nat
<1> DEFINE n == nodes_table[next]
           io == reg_list[k].data_io
           e == Take(next, (n.addr - reg_list[k].start) % Byte)
           j == Len(io) + 1
           new == InsertReg(n, next, k)
<1>1. n \in Node /\ next \in Nat \ {0} /\ reg_list \in Seq(Message)
  BY NextNode DEF Plan, TypeOK
<1>2. /\ Len(new) = Len(reg_list)
      /\ \A a \in 1 .. Len(reg_list) : a # k => new[a] = reg_list[a]
      /\ new[k].type = reg_list[k].type /\ new[k].start = reg_list[k].start
      /\ new[k].data_io = Append(io, e)
  <2> HIDE DEF n
  <2> QED BY <1>1, Inserted
<1>3. /\ io \in Seq([index: Nat \ {0}, offset: 0 .. Byte - 1]) /\ Len(io) \in Nat
  BY <1>1, PlacesOf
<1>4. e.index = next
  BY DEF Take, Index
<1>5. e \in [index: Nat \ {0}, offset: 0 .. Byte - 1]
  <2>1. n.addr - reg_list[k].start \in Int
    <3>1. n.addr \in Int /\ reg_list[k].start \in Nat
      BY <1>1, PlacesOf DEF Node
    <3> QED BY <3>1
  <2>2. (n.addr - reg_list[k].start) % Byte \in 0 .. Byte - 1
    BY <2>1, ModByte
  <2> HIDE DEF n
  <2> QED BY <1>1, <2>2 DEF Take, Index
<1> HIDE DEF n, io, e, new
<1>6. /\ Len(new[k].data_io) = j /\ new[k].data_io[j] = e
      /\ \A b \in 1 .. Len(io) : new[k].data_io[b] = io[b]
  BY <1>2, <1>3, <1>5
<1>7. reg_list' = new
  BY DEF new, n
<1>8. ASSUME NEW a, NEW b, NEW i
      PROVE  Place(a, b, i)' <=> Place(a, b, i) \/ (a = k /\ b = j /\ i = next)
  <2>1. CASE a # k
    BY <1>2, <1>7, <2>1 DEF Place
  <2>2. CASE a = k
    <3>1. Place(a, b, i)' <=> b \in 1 .. j /\ new[k].data_io[b].index = i
      BY <1>2, <1>6, <1>7, <2>2 DEF Place
    <3>2. Place(a, b, i) <=> b \in 1 .. Len(io) /\ io[b].index = i
      BY <2>2 DEF Place, io
    <3>3. b \in 1 .. j <=> b \in 1 .. Len(io) \/ b = j
      BY <1>3
    <3>4. ~(j \in 1 .. Len(io))
      BY <1>3
    <3> HIDE DEF j
    <3>5. CASE b = j
      BY <1>4, <1>6, <2>2, <3>1, <3>2, <3>3, <3>4, <3>5
    <3>6. CASE b # j
      BY <1>6, <2>2, <3>1, <3>2, <3>3, <3>6
    <3> QED BY <3>5, <3>6
  <2> QED BY <2>1, <2>2
<1>9. \A i : ~Place(k, j, i)
  BY <1>3 DEF Place, io
<1>10. j = 1 \/ \E i : Place(k, j - 1, i)
  <2>1. CASE Len(io) # 0
    <3>1. j - 1 \in 1 .. Len(io)
      BY <1>3, <2>1
    <3> HIDE DEF j
    <3> QED BY <3>1 DEF Place, io
  <2> QED BY <2>1
<1>11. \A a \in 1 .. Len(reg_list) :
         reg_list'[a].type = reg_list[a].type /\ reg_list'[a].start = reg_list[a].start
  BY <1>2, <1>7
<1>12. Len(reg_list) \in Nat /\ Len(reg_list') = Len(reg_list)
  BY <1>1, <1>2, <1>7
<1> QED BY <1>3, <1>8, <1>9, <1>10, <1>11, <1>12 DEF PutAt, io

LEMMA PutInNewMessage ==
  ASSUME TypeOK, Plan, reg_list' = NewReg(nodes_table[next], next)
  PROVE  LET k == Len(reg_list) + 1 IN
         /\ PutAt(k, 1) /\ Len(reg_list') = k
         /\ reg_list'[k].type = nodes_table[next].type
         /\ reg_list'[k].start = nodes_table[next].addr
<1> DEFINE k == Len(reg_list) + 1
           n == nodes_table[next]
           m == [type |-> n.type, start |-> n.addr, num |-> n.len,
                 data_io |-> <<Take(next, 0)>>]
<1>1. reg_list \in Seq(Message) /\ Len(reg_list) \in Nat
  BY DEF TypeOK
<1>2. reg_list' = Append(reg_list, m)
  BY DEF NewReg
<1>3. /\ m.type = n.type /\ m.start = n.addr /\ Len(m.data_io) = 1
      /\ m.data_io[1].index = next
  BY DEF Take, Index
<1> HIDE DEF m
<1>4. /\ Len(reg_list') = k /\ reg_list'[k] = m
      /\ \A a \in 1 .. Len(reg_list) : reg_list'[a] = reg_list[a]
  BY <1>1, <1>2
<1>5. ASSUME NEW a, NEW b, NEW i
      PROVE  Place(a, b, i)' <=> Place(a, b, i) \/ (a = k /\ b = 1 /\ i = next)
  <2>1. CASE a \in 1 .. Len(reg_list)
    <3>1. a # k /\ a \in 1 .. Len(reg_list')
      BY <1>1, <1>4, <2>1
    <3> QED BY <1>4, <2>1, <3>1 DEF Place
  <2>2. CASE a = k
    <3>1. ~Place(a, b, i) /\ a \in 1 .. Len(reg_list')
      BY <1>1, <1>4, <2>2 DEF Place
    <3>2. Place(a, b, i)' <=> b \in 1 .. 1 /\ m.data_io[b].index = i
      BY <1>3, <1>4, <2>2, <3>1 DEF Place
    <3>3. b \in 1 .. 1 <=> b = 1
      OBVIOUS
    <3> QED BY <1>3, <2>2, <3>1, <3>2, <3>3
  <2>3. CASE a \notin 1 .. Len(reg_list) /\ a # k
    <3>1. a \notin 1 .. Len(reg_list')
      BY <1>1, <1>4, <2>3
    <3> QED BY <2>3, <3>1 DEF Place
  <2> QED BY <2>1, <2>2, <2>3
<1>6. \A i : ~Place(k, 1, i)
  BY <1>1 DEF Place
<1>7. Len(reg_list) <= Len(reg_list')
  BY <1>1, <1>4
<1> HIDE DEF k
<1>8. PutAt(k, 1)
  BY <1>4, <1>5, <1>6, <1>7 DEF PutAt
<1> QED BY <1>3, <1>4, <1>8 DEF k

\* A node that has a register goes into the last usable message, or a new one.
LEMMA Placed ==
  ASSUME TypeOK, Plan, nodes_table[next].type # NONE_REG
  PROVE  \E k, j \in Nat :
           /\ PutAt(k, j)
           /\ \/ /\ k \in 1 .. Len(reg_list) /\ JudgeReg(nodes_table[next], k)
                 /\ Len(reg_list') = Len(reg_list)
              \/ /\ k = Len(reg_list) + 1 /\ j = 1 /\ Len(reg_list') = k
                 /\ Usable(nodes_table[next]) = {}
                 /\ reg_list'[k].type = nodes_table[next].type
                 /\ reg_list'[k].start = nodes_table[next].addr
<1> DEFINE n == nodes_table[next]
<1>1. Len(reg_list) \in Nat
  BY DEF TypeOK
<1>2. CASE \E k \in 1 .. Len(reg_list) :
             JudgeReg(n, k) /\ reg_list' = InsertReg(n, next, k)
  BY <1>1, <1>2, PutInMessage
<1>3. CASE Usable(n) = {} /\ reg_list' = NewReg(n, next)
  BY <1>1, <1>3, PutInNewMessage
<1> QED BY <1>2, <1>3 DEF Plan

LEMMA PlacedOnceNext ==
  ASSUME TypeOK, PlacedOnce, Plan
  PROVE  PlacedOnce'
<1> DEFINE n == nodes_table[next]
<1>1. /\ next \in Nat \ {0} /\ next' = next + 1 /\ nodes_table' = nodes_table
      /\ n \in Node /\ reg_list \in Seq(Message) /\ Len(reg_list) \in Nat
  BY NextNode DEF Plan, TypeOK
<1>2. /\ \A k, j, i : Place(k, j, i) =>
           j < next /\ i \in 1 .. next - 1 /\ nodes_table[i].type = reg_list[k].type
      /\ \A k, j, l, q, i : Place(k, j, i) /\ Place(l, q, i) => k = l /\ j = q
      /\ \A i \in 1 .. next - 1 :
           nodes_table[i].type # NONE_REG => \E k, j : Place(k, j, i)
  BY DEF PlacedOnce
<1>3. \A i : i \in 1 .. next' - 1 <=> i \in 1 .. next - 1 \/ i = next
  BY <1>1
<1>4. ASSUME NEW k, NEW j, NEW i, Place(k, j, i)
      PROVE  j \in Nat \ {0} /\ j < next /\ j < next' /\ k \in 1 .. Len(reg_list)
  <2>1. j \in 1 .. Len(reg_list[k].data_io) /\ k \in 1 .. Len(reg_list)
    BY <1>4 DEF Place
  <2>2. j \in Nat \ {0}
    BY <1>1, <2>1, PlacesOf
  <2> QED BY <1>1, <1>2, <1>4, <2>1, <2>2
<1>5. CASE n.type = NONE_REG
  <2>1. reg_list' = reg_list
    BY <1>5 DEF Plan
  <2>2. \A k, j, i : Place(k, j, i)' <=> Place(k, j, i)
    BY <2>1 DEF Place
  <2>3. \A k, j, i : Place(k, j, i)' =>
          j < next' /\ i \in 1 .. next' - 1 /\ nodes_table'[i].type = reg_list'[k].type
    BY <1>1, <1>2, <1>3, <1>4, <2>1, <2>2
  <2>4. \A i \in 1 .. next' - 1 :
          nodes_table'[i].type # NONE_REG => \E k, j : Place(k, j, i)'
    BY <1>1, <1>2, <1>3, <1>5, <2>2
  <2>5. \A k, j, l, q, i : Place(k, j, i)' /\ Place(l, q, i)' => k = l /\ j = q
    BY <1>2, <2>2
  <2> QED BY <2>3, <2>4, <2>5 DEF PlacedOnce
<1>6. CASE n.type # NONE_REG
  <2>1. PICK k, j \in Nat :
          /\ PutAt(k, j)
          /\ \/ /\ k \in 1 .. Len(reg_list) /\ JudgeReg(n, k)
                /\ Len(reg_list') = Len(reg_list)
             \/ k = Len(reg_list) + 1 /\ reg_list'[k].type = n.type
    BY <1>6, Placed
  <2>2. /\ \A a, b, i : Place(a, b, i)' <=> Place(a, b, i) \/ (a = k /\ b = j /\ i = next)
        /\ j = 1 \/ \E i : Place(k, j - 1, i)
        /\ \A a \in 1 .. Len(reg_list) : reg_list'[a].type = reg_list[a].type
    BY <2>1 DEF PutAt
  <2>3. j < next'
    BY <1>1, <1>4, <2>1, <2>2
  <2>4. reg_list'[k].type = n.type
    BY <2>1, <2>2 DEF JudgeReg, Usable, Fits
  <2> HIDE DEF n
  <2>5. \A a, b, i : Place(a, b, i)' =>
          b < next' /\ i \in 1 .. next' - 1 /\ nodes_table'[i].type = reg_list'[a].type
    <3> SUFFICES ASSUME NEW a, NEW b, NEW i, Place(a, b, i)'
                 PROVE  /\ b < next' /\ i \in 1 .. next' - 1
                        /\ nodes_table'[i].type = reg_list'[a].type
      OBVIOUS
    <3>1. CASE Place(a, b, i)
      BY <1>1, <1>2, <1>3, <1>4, <2>2, <3>1
    <3>2. CASE a = k /\ b = j /\ i = next
      BY <1>1, <1>3, <2>3, <2>4, <3>2 DEF n
    <3> QED BY <2>2, <3>1, <3>2
  <2>6. \A a, b, l, q, i : Place(a, b, i)' /\ Place(l, q, i)' => a = l /\ b = q
    <3>1. \A a, b : ~Place(a, b, next)
      BY <1>1, <1>2
    <3> QED BY <1>2, <2>2, <3>1
  <2>7. \A i \in 1 .. next' - 1 :
          nodes_table'[i].type # NONE_REG => \E a, b : Place(a, b, i)'
    <3> SUFFICES ASSUME NEW i \in 1 .. next' - 1, nodes_table'[i].type # NONE_REG
                 PROVE  \E a, b : Place(a, b, i)'
      OBVIOUS
    <3>1. CASE i = next
      BY <2>2, <3>1
    <3>2. CASE i \in 1 .. next - 1
      BY <1>1, <1>2, <2>2, <3>2
    <3> QED BY <1>3, <3>1, <3>2
  <2> QED BY <2>5, <2>6, <2>7 DEF PlacedOnce
<1> QED BY <1>5, <1>6

\* No node is planned twice and none forgotten, in the order of any table and by either
\* planner: NewReg or InsertReg takes each that has a register once.
THEOREM NodesPlannedOnce == Spec => []EachPlannedOnce
<1>1. Init => PlacedOnce
  <2> SUFFICES ASSUME Init PROVE PlacedOnce
    OBVIOUS
  <2>1. reg_list = <<>> /\ next = 1
    BY DEF Init
  <2>2. \A k, j, i : ~Place(k, j, i)
    BY <2>1 DEF Place
  <2> QED BY <2>1, <2>2 DEF PlacedOnce
<1>2. TypeOK /\ PlacedOnce /\ [Next]_vars => PlacedOnce'
  <2> SUFFICES ASSUME TypeOK, PlacedOnce, [Next]_vars PROVE PlacedOnce'
    OBVIOUS
  <2>1. CASE Plan
    BY <2>1, PlacedOnceNext
  <2>2. CASE UNCHANGED vars
    BY <2>2 DEF vars, PlacedOnce, Place
  <2> QED BY <2>1, <2>2 DEF Next
<1>3. ASSUME TypeOK, PlacedOnce PROVE EachPlannedOnce
  <2> SUFFICES
        ASSUME NEW i \in 1 .. next - 1
        PROVE  LET places == {p \in (1 .. Len(reg_list)) \X (1 .. next) :
                                /\ p[2] <= Len(reg_list[p[1]].data_io)
                                /\ reg_list[p[1]].data_io[p[2]].index = i}
               IN IF nodes_table[i].type = NONE_REG THEN places = {}
                  ELSE \E p \in places : places = {p}
    BY DEF EachPlannedOnce
  <2> DEFINE S == (1 .. Len(reg_list)) \X (1 .. next)
             Here(p) == /\ p[2] <= Len(reg_list[p[1]].data_io)
                        /\ reg_list[p[1]].data_io[p[2]].index = i
             places == {p \in S : Here(p)}
  <2>1. \A p \in S : Here(p) => Place(p[1], p[2], i)
    <3> SUFFICES ASSUME NEW p \in S, Here(p) PROVE Place(p[1], p[2], i)
      OBVIOUS
    <3>1. p[1] \in 1 .. Len(reg_list) /\ p[2] \in 1 .. next
      OBVIOUS
    <3>2. Len(reg_list[p[1]].data_io) \in Nat
      BY <1>3, <3>1, PlacesOf DEF TypeOK
    <3>3. next \in Nat
      BY <1>3 DEF TypeOK
    <3>4. p[2] \in 1 .. Len(reg_list[p[1]].data_io)
      BY <3>1, <3>2, <3>3
    <3> QED BY <3>1, <3>4 DEF Place
  <2>2. \A k, j : Place(k, j, i) => <<k, j>> \in S /\ Here(<<k, j>>)
    <3> SUFFICES ASSUME NEW k, NEW j, Place(k, j, i)
                 PROVE  <<k, j>> \in S /\ Here(<<k, j>>)
      OBVIOUS
    <3>1. k \in 1 .. Len(reg_list) /\ j \in 1 .. Len(reg_list[k].data_io) /\ j < next
          /\ reg_list[k].data_io[j].index = i
      BY <1>3 DEF Place, PlacedOnce
    <3>2. Len(reg_list[k].data_io) \in Nat /\ next \in Nat
      BY <1>3, <3>1, PlacesOf DEF TypeOK
    <3>3. j \in 1 .. next /\ j <= Len(reg_list[k].data_io)
      BY <3>1, <3>2
    <3> QED BY <3>1, <3>3
  <2> HIDE DEF S, Here
  <2>3. CASE nodes_table[i].type = NONE_REG
    <3>1. \A k, j : ~Place(k, j, i)
      <4> SUFFICES ASSUME NEW k, NEW j, Place(k, j, i) PROVE FALSE
        OBVIOUS
      <4>1. nodes_table[i].type = reg_list[k].type /\ k \in 1 .. Len(reg_list)
        BY <1>3 DEF PlacedOnce, Place
      <4>2. reg_list[k] \in Message
        BY <1>3, <4>1 DEF TypeOK
      <4> QED BY <2>3, <4>1, <4>2 DEF Message, Bits, Words, NONE_REG
    <3>2. places = {}
      BY <2>1, <3>1
    <3> QED BY <2>3, <3>2 DEF S, Here
  <2>4. CASE nodes_table[i].type # NONE_REG
    <3>1. PICK k, j : Place(k, j, i)
      BY <1>3, <2>4 DEF PlacedOnce
    <3>2. \A p \in S : Here(p) => p[1] = k /\ p[2] = j
      BY <1>3, <2>1, <3>1 DEF PlacedOnce
    <3>3. \A p \in S : p = <<p[1], p[2]>>
      BY DEF S
    <3>4. <<k, j>> \in places /\ places = {<<k, j>>}
      BY <2>2, <3>1, <3>2, <3>3
    <3> QED BY <2>4, <3>4 DEF S, Here
  <2> QED BY <2>3, <2>4
<1> QED BY <1>1, <1>2, <1>3, TypeCorrect, PTL DEF Spec
-----------------------------------------------------------------------------
(* Gaps, in sorted tables.                                                   *)

\* The messages of a type follow one another: each starts at its first node, above the
\* starts of the ones before and at or above all their nodes.
Chained ==
  /\ \A k \in 1 .. Len(reg_list) : \E i :
       Place(k, 1, i) /\ nodes_table[i].addr = reg_list[k].start
  /\ \A k, l \in 1 .. Len(reg_list) :
       k < l /\ reg_list[k].type = reg_list[l].type
         => reg_list[k].start <= reg_list[l].start
  /\ \A k, j, i : \A l \in 1 .. Len(reg_list) :
       Place(k, j, i) /\ k < l /\ reg_list[k].type = reg_list[l].type
         => nodes_table[i].addr <= reg_list[l].start

\* Every node of a message has a neighbour below it there, or is the first register.
Joined ==
  planner = "mb_cmu" =>
    \A k, j, i : Place(k, j, i) /\ nodes_table[i].addr # reg_list[k].start =>
      \E q, l : /\ Place(k, q, l)
               /\ nodes_table[i].addr - nodes_table[l].addr
                    \in 1 .. REG_DIFF_REFUSE_TO_INSERT - 1

\* A node that fits a message fits every later one that starts below it.
LEMMA FitsOn ==
  ASSUME NEW n \in Node, n.addr + n.len < Word, NEW m \in Message, NEW o \in Message,
         o.type = m.type, m.start <= o.start, o.start <= n.addr, Fits(n, m)
  PROVE  Fits(n, o)
<1> DEFINE d == n.addr - m.start
           e == n.addr - o.start
<1>1. /\ n.addr \in Nat /\ n.len \in Nat /\ m.start \in Nat /\ o.start \in Nat
      /\ Word \in Nat
  <2>1. Word \in Nat
    BY DEF Word
  <2>2. /\ n.addr \in 0 .. Word - 1 /\ n.len \in {1, 2} /\ m.start \in 0 .. Word - 1
        /\ o.start \in 0 .. Word - 1
    BY DEF Node, Message
  <2> QED BY <2>1, <2>2
<1>2. ShortNum \in Nat /\ BitNum \in Nat
  BY DEF ShortNum, BitNum
<1>3. /\ d \in Nat /\ e \in Nat /\ e <= d /\ d + n.len < Word
      /\ n.addr + n.len - m.start = d + n.len /\ n.addr + n.len - o.start = e + n.len
  BY <1>1
<1> HIDE DEF d, e
<1>4. /\ d % Word = d /\ e % Word = e
      /\ (d + n.len) % Word = d + n.len /\ (e + n.len) % Word = e + n.len
  <2>1. /\ d < Word /\ e < Word /\ e + n.len < Word
        /\ d + n.len \in Nat /\ e + n.len \in Nat
    BY <1>1, <1>3
  <2> QED BY <1>3, <2>1, ModWord
<1>5. o.type = n.type
  BY DEF Fits
<1>6. CASE n.type \in Bits
  <2>1. d % Word < BitNum
    BY <1>6 DEF Fits, d
  <2>2. e % Word < BitNum
    BY <1>2, <1>3, <1>4, <2>1
  <2> QED BY <1>5, <1>6, <2>2 DEF Fits, e
<1>7. CASE n.type \notin Bits
  <2>1. (d + n.len) % Word < ShortNum
    BY <1>3, <1>7 DEF Fits
  <2>2. (e + n.len) % Word < ShortNum
    BY <1>1, <1>2, <1>3, <1>4, <2>1
  <2> QED BY <1>3, <1>5, <1>7, <2>2 DEF Fits
<1> QED BY <1>6, <1>7

\* What has been planned of the type of the node that is next lies at or below it.
LEMMA PlannedBelow ==
  ASSUME TypeOK, PlacedOnce, Chained, Sorted(nodes_table), next <= Len(nodes_table)
  PROVE  LET n == nodes_table[next] IN
         /\ \A k \in 1 .. Len(reg_list) :
              reg_list[k].type = n.type => reg_list[k].start <= n.addr
         /\ \A k, j, i :
              Place(k, j, i) /\ reg_list[k].type = n.type => nodes_table[i].addr <= n.addr
<1>1. next \in 1 .. Len(nodes_table)
  BY NextNode
<1>2. \A k, j, i :
        Place(k, j, i) /\ reg_list[k].type = nodes_table[next].type
          => nodes_table[i].addr <= nodes_table[next].addr
  <2> SUFFICES ASSUME NEW k, NEW j, NEW i, Place(k, j, i),
                      reg_list[k].type = nodes_table[next].type
               PROVE  nodes_table[i].addr <= nodes_table[next].addr
    OBVIOUS
  <2>1. i \in 1 .. next - 1 /\ nodes_table[i].type = nodes_table[next].type
    BY DEF PlacedOnce
  <2>2. i \in 1 .. Len(nodes_table) /\ i < next
    BY <1>1, <2>1
  <2> QED BY <1>1, <2>1, <2>2 DEF Sorted
<1> QED BY <1>2 DEF Chained

\* The message that takes a node is the last one of its type that starts below it.
LEMMA LastUsable ==
  ASSUME TypeOK, PlacedOnce, Chained, Sorted(nodes_table), next <= Len(nodes_table),
         NEW k \in 1 .. Len(reg_list), JudgeReg(nodes_table[next], k),
         NEW l \in 1 .. Len(reg_list), k < l, reg_list[l].type = nodes_table[next].type
  PROVE  FALSE
<1> DEFINE n == nodes_table[next]
<1>1. /\ n \in Node /\ n.addr + n.len < Word /\ reg_list[k] \in Message
      /\ reg_list[l] \in Message
  BY NextNode DEF TypeOK
<1>2. Fits(n, reg_list[k]) /\ reg_list[k].type = n.type /\ ~RefuseToInsert(n)
  BY DEF JudgeReg, Usable, Fits
<1>3. reg_list[k].start <= reg_list[l].start /\ reg_list[l].start <= n.addr
  BY <1>2, PlannedBelow DEF Chained
<1>4. Fits(n, reg_list[l])
  <2> HIDE DEF n
  <2>1. reg_list[l].type = reg_list[k].type
    BY <1>2 DEF n
  <2> QED BY <1>1, <1>2, <1>3, <2>1, FitsOn
<1>5. l \in Usable(n)
  BY <1>2, <1>4 DEF Usable
<1>6. l <= k
  BY <1>5 DEF JudgeReg
<1>7. Len(reg_list) \in Nat
  BY DEF TypeOK
<1> QED BY <1>6, <1>7

LEMMA ChainedNext ==
  ASSUME TypeOK, PlacedOnce, Chained, Sorted(nodes_table), Plan
  PROVE  Chained'
<1> DEFINE n == nodes_table[next]
           size == Len(reg_list)
<1>1. /\ next <= Len(nodes_table) /\ nodes_table' = nodes_table /\ size \in Nat
  BY DEF Plan, TypeOK
<1>2. /\ \A k \in 1 .. size : reg_list[k].type = n.type => reg_list[k].start <= n.addr
      /\ \A k, j, i : Place(k, j, i) /\ reg_list[k].type = n.type
                       => nodes_table[i].addr <= n.addr
  BY <1>1, PlannedBelow
<1>3. \A k, j, i : Place(k, j, i) => k \in 1 .. size
  BY DEF Place
<1>4. CASE n.type = NONE_REG
  <2>1. reg_list' = reg_list
    BY <1>4 DEF Plan
  <2> QED BY <1>1, <2>1 DEF Chained, Place
<1>5. CASE n.type # NONE_REG
  <2>1. PICK k, j \in Nat :
          /\ PutAt(k, j)
          /\ \/ k \in 1 .. size /\ JudgeReg(n, k) /\ Len(reg_list') = size
             \/ /\ k = size + 1 /\ j = 1 /\ Len(reg_list') = k
                /\ reg_list'[k].type = n.type /\ reg_list'[k].start = n.addr
    BY <1>5, Placed
  <2>2. /\ \A a, b, i : Place(a, b, i)' <=> Place(a, b, i) \/ (a = k /\ b = j /\ i = next)
        /\ \A a \in 1 .. size :
             reg_list'[a].type = reg_list[a].type /\ reg_list'[a].start = reg_list[a].start
    BY <2>1 DEF PutAt
  <2>3. CASE k \in 1 .. size /\ JudgeReg(n, k) /\ Len(reg_list') = size
    <3>1. \A a \in 1 .. Len(reg_list') : \E i :
            Place(a, 1, i)' /\ nodes_table'[i].addr = reg_list'[a].start
      BY <1>1, <2>2, <2>3 DEF Chained
    <3>2. \A a, l \in 1 .. Len(reg_list') :
            a < l /\ reg_list'[a].type = reg_list'[l].type
              => reg_list'[a].start <= reg_list'[l].start
      BY <2>2, <2>3 DEF Chained
    <3>3. ASSUME NEW a, NEW b, NEW i, NEW l \in 1 .. Len(reg_list'), Place(a, b, i)',
                 a < l, reg_list'[a].type = reg_list'[l].type
          PROVE  nodes_table'[i].addr <= reg_list'[l].start
      <4>1. CASE Place(a, b, i)
        <5>1. a \in 1 .. size /\ l \in 1 .. size
          BY <1>3, <2>3, <4>1
        <5> QED BY <1>1, <2>2, <3>3, <4>1, <5>1 DEF Chained
      <4>2. CASE a = k /\ b = j /\ i = next
        <5>1. reg_list[k].type = n.type
          BY <2>3 DEF JudgeReg, Usable, Fits
        <5>2. l \in 1 .. size /\ k < l /\ reg_list[l].type = n.type
          BY <2>2, <2>3, <3>3, <4>2, <5>1
        <5> QED BY <1>1, <2>3, <5>2, LastUsable
      <4> QED BY <2>2, <3>3, <4>1, <4>2
    <3> QED BY <3>1, <3>2, <3>3 DEF Chained
  <2>4. CASE /\ k = size + 1 /\ j = 1 /\ Len(reg_list') = k
             /\ reg_list'[k].type = n.type /\ reg_list'[k].start = n.addr
    <3>0. \A a \in 1 .. Len(reg_list') : a \in 1 .. size \/ a = k
      BY <1>1, <2>4
    <3>1. \A a \in 1 .. Len(reg_list') : \E i :
            Place(a, 1, i)' /\ nodes_table'[i].addr = reg_list'[a].start
      <4> SUFFICES ASSUME NEW a \in 1 .. Len(reg_list')
                   PROVE  \E i :
                            Place(a, 1, i)' /\ nodes_table'[i].addr = reg_list'[a].start
        OBVIOUS
      <4>1. CASE a \in 1 .. size
        BY <1>1, <2>2, <4>1 DEF Chained
      <4>2. CASE a = k
        BY <1>1, <2>2, <2>4, <4>2
      <4> QED BY <3>0, <4>1, <4>2
    <3>2. ASSUME NEW a \in 1 .. Len(reg_list'), NEW l \in 1 .. Len(reg_list'), a < l,
                 reg_list'[a].type = reg_list'[l].type
          PROVE  reg_list'[a].start <= reg_list'[l].start
      <4>1. a \in 1 .. size
        BY <1>1, <2>4, <3>2
      <4>2. CASE l \in 1 .. size
        BY <2>2, <3>2, <4>1, <4>2 DEF Chained
      <4>3. CASE l = k
        BY <1>2, <2>2, <2>4, <3>2, <4>1, <4>3
      <4> QED BY <3>0, <4>2, <4>3
    <3>3. ASSUME NEW a, NEW b, NEW i, NEW l \in 1 .. Len(reg_list'), Place(a, b, i)',
                 a < l, reg_list'[a].type = reg_list'[l].type
          PROVE  nodes_table'[i].addr <= reg_list'[l].start
      <4>1. a # k
        <5>1. l \in 1 .. k /\ k \in Nat
          BY <2>1, <2>4
        <5> QED BY <3>3, <5>1
      <4>2. Place(a, b, i) /\ a \in 1 .. size
        BY <1>3, <2>2, <3>3, <4>1
      <4>3. CASE l \in 1 .. size
        BY <1>1, <2>2, <3>3, <4>2, <4>3 DEF Chained
      <4>4. CASE l = k
        BY <1>1, <1>2, <2>2, <2>4, <3>3, <4>2, <4>4
      <4> QED BY <3>0, <4>3, <4>4
    <3> QED BY <3>1, <3>2, <3>3 DEF Chained
  <2> QED BY <2>1, <2>3, <2>4
<1> QED BY <1>4, <1>5

\* The neighbour that JudgeReg found for the node lies in the message it chose, or the
\* first node of that message is one.
LEMMA NeighbourThere ==
  ASSUME TypeOK, PlacedOnce, Chained, Sorted(nodes_table), next <= Len(nodes_table),
         planner = "mb_cmu", NEW k \in 1 .. Len(reg_list), JudgeReg(nodes_table[next], k),
         nodes_table[next].type # NONE_REG,
         nodes_table[next].addr # reg_list[k].start
  PROVE  \E q, l : /\ Place(k, q, l)
                   /\ nodes_table[next].addr - nodes_table[l].addr
                        \in 1 .. REG_DIFF_REFUSE_TO_INSERT - 1
<1> DEFINE n == nodes_table[next]
<1>1. next \in 1 .. Len(nodes_table) /\ nodes_table \in Seq(Node) /\ n \in Node
  BY NextNode
<1>2. ~RefuseToInsert(n) /\ reg_list[k].type = n.type
  BY DEF JudgeReg, Usable, Fits
<1>3. PICK x \in 1 .. Len(nodes_table) : NearBelow(nodes_table[x], n)
  BY <1>2 DEF RefuseToInsert
<1>4. /\ nodes_table[x].type = n.type
      /\ n.addr - nodes_table[x].addr \in 1 .. REG_DIFF_REFUSE_TO_INSERT - 1
  BY <1>3 DEF NearBelow
<1>5. \A y \in 1 .. Len(nodes_table) : nodes_table[y].addr \in Nat
  <2> SUFFICES ASSUME NEW y \in 1 .. Len(nodes_table) PROVE nodes_table[y].addr \in Nat
    OBVIOUS
  <2>1. nodes_table[y] \in Node
    BY <1>1
  <2>2. nodes_table[y].addr \in 0 .. Word - 1
    BY <2>1 DEF Node
  <2>3. Word \in Int
    BY DEF Word
  <2> QED BY <2>2, <2>3
<1>6. nodes_table[x].addr < n.addr
  <2>1. n.addr \in Nat /\ nodes_table[x].addr \in Nat
    BY <1>1, <1>5
  <2> HIDE DEF n
  <2> QED BY <1>4, <2>1 DEF REG_DIFF_REFUSE_TO_INSERT
<1>7. x \in 1 .. next - 1
  <2>1. ~(next < x)
    BY <1>1, <1>4, <1>5, <1>6 DEF Sorted
  <2>2. x # next
    BY <1>1, <1>5, <1>6
  <2> QED BY <1>1, <2>1, <2>2
<1>8. PICK a, b : Place(a, b, x)
  BY <1>4, <1>7 DEF PlacedOnce
<1>9. reg_list[a].type = n.type /\ a \in 1 .. Len(reg_list)
  <2>1. nodes_table[x].type = reg_list[a].type
    BY <1>8 DEF PlacedOnce
  <2> QED BY <1>4, <1>8, <2>1 DEF Place
<1>10. CASE a = k
  BY <1>4, <1>8, <1>10
<1>11. CASE k < a
  BY <1>9, <1>11, LastUsable
<1>12. CASE a < k
  <2>1. nodes_table[x].addr <= reg_list[k].start
    BY <1>2, <1>8, <1>9, <1>12 DEF Chained
  <2>2. PICK l : Place(k, 1, l) /\ nodes_table[l].addr = reg_list[k].start
    BY DEF Chained
  <2>3. reg_list[k].start <= n.addr
    BY <1>2, PlannedBelow
  <2>4. n.addr \in Nat /\ nodes_table[x].addr \in Nat /\ reg_list[k].start \in Nat
    BY <1>1, <1>5, PlacesOf DEF TypeOK
  <2>5. n.addr - reg_list[k].start \in 1 .. REG_DIFF_REFUSE_TO_INSERT - 1
    <3>1. n.addr # reg_list[k].start
      OBVIOUS
    <3>2. \A u, v, w \in Nat :
            w - u \in 1 .. REG_DIFF_REFUSE_TO_INSERT - 1 /\ u <= v /\ v <= w /\ w # v
              => w - v \in 1 .. REG_DIFF_REFUSE_TO_INSERT - 1
      BY DEF REG_DIFF_REFUSE_TO_INSERT
    <3> HIDE DEF n
    <3> QED BY <1>4, <2>1, <2>3, <2>4, <3>1, <3>2
  <2> QED BY <2>2, <2>5
<1>13. Len(reg_list) \in Nat
  BY DEF TypeOK
<1> QED BY <1>9, <1>10, <1>11, <1>12, <1>13

LEMMA JoinedNext ==
  ASSUME TypeOK, PlacedOnce, Chained, Joined, Sorted(nodes_table), Plan
  PROVE  Joined'
<1> DEFINE n == nodes_table[next]
           Near(i, k) ==
             \E q, l : /\ Place(k, q, l)
                      /\ nodes_table[i].addr - nodes_table[l].addr
                           \in 1 .. REG_DIFF_REFUSE_TO_INSERT - 1
<1>1. next <= Len(nodes_table) /\ nodes_table' = nodes_table /\ planner' = planner
  BY DEF Plan
<1>2. CASE n.type = NONE_REG
  <2>1. reg_list' = reg_list
    BY <1>2 DEF Plan
  <2>2. \A k, j, i : Place(k, j, i)' <=> Place(k, j, i)
    BY <2>1 DEF Place
  <2> QED BY <1>1, <2>1, <2>2 DEF Joined
<1>3. CASE n.type # NONE_REG
  <2>1. PICK k, j \in Nat :
          /\ PutAt(k, j)
          /\ \/ k \in 1 .. Len(reg_list) /\ JudgeReg(n, k)
             \/ k = Len(reg_list) + 1 /\ reg_list'[k].start = n.addr
    BY <1>3, Placed
  <2>2. /\ \A a, b, i : Place(a, b, i)' <=> Place(a, b, i) \/ (a = k /\ b = j /\ i = next)
        /\ \A a \in 1 .. Len(reg_list) : reg_list'[a].start = reg_list[a].start
    BY <2>1 DEF PutAt
  <2> SUFFICES ASSUME planner = "mb_cmu", NEW a, NEW b, NEW i, Place(a, b, i)',
                      nodes_table[i].addr # reg_list'[a].start
               PROVE  Near(i, a)'
    BY <1>1 DEF Joined
  <2>3. CASE Place(a, b, i)
    <3>1. a \in 1 .. Len(reg_list)
      BY <2>3 DEF Place
    <3>2. Near(i, a)
      BY <2>2, <2>3, <3>1 DEF Joined
    <3> QED BY <1>1, <2>2, <3>2
  <2>4. CASE a = k /\ i = next
    <3>1. k \in 1 .. Len(reg_list) /\ JudgeReg(n, k)
      BY <2>1, <2>4
    <3>2. n.addr # reg_list[k].start
      BY <2>2, <2>4, <3>1
    <3>3. Near(next, k)
      BY <1>1, <1>3, <3>1, <3>2, NeighbourThere
    <3> QED BY <1>1, <2>2, <2>4, <3>3
  <2> QED BY <2>2, <2>3, <2>4
<1> QED BY <1>2, <1>3

\* "registers with no neighbour within a certain range cannot form a batch": in ascending
\* tables a message of the polling worker spans no gap of that range.  The neighbour
\* JudgeReg asks for may lie in any message, but the one it returns has it or starts
\* between it and the node.
THEOREM MessagesHaveNoGap ==
  ASSUME \A t \in Tables : Sorted(t)
  PROVE  Spec => []NoGap
<1> DEFINE Inv == TypeOK /\ PlacedOnce /\ Chained /\ Joined
<1>1. Init => Inv
  <2> SUFFICES ASSUME Init PROVE Inv
    OBVIOUS
  <2>1. reg_list = <<>> /\ next = 1
    BY DEF Init
  <2>2. \A k, j, i : ~Place(k, j, i)
    BY <2>1 DEF Place
  <2>3. TypeOK
    BY <2>1, TablesAssumption DEF Init, TypeOK
  <2>4. PlacedOnce
    BY <2>1, <2>2 DEF PlacedOnce
  <2> QED BY <2>1, <2>2, <2>3, <2>4 DEF Chained, Joined
<1>2. Inv /\ [Next]_vars => Inv'
  <2> SUFFICES ASSUME Inv, [Next]_vars PROVE Inv'
    OBVIOUS
  <2>1. TypeOK'
    BY TypeNext
  <2>2. CASE Plan
    <3>1. Sorted(nodes_table)
      BY DEF TypeOK
    <3> QED BY <2>1, <2>2, <3>1, PlacedOnceNext, ChainedNext, JoinedNext
  <2>3. CASE UNCHANGED vars
    BY <2>1, <2>3 DEF vars, PlacedOnce, Chained, Joined, Place
  <2> QED BY <2>2, <2>3 DEF Next
<1>3. Inv => NoGap
  <2> SUFFICES ASSUME Inv, planner = "mb_cmu", NEW k \in 1 .. Len(reg_list)
               PROVE  LET m == reg_list[k]
                          addrs == {nodes_table[m.data_io[i].index].addr :
                                      i \in 1 .. Len(m.data_io)}
                      IN \A a \in addrs :
                           a # m.start => \E b \in addrs :
                             a - b \in 1 .. REG_DIFF_REFUSE_TO_INSERT - 1
    BY DEF NoGap
  <2> DEFINE io == reg_list[k].data_io
             addrs == {nodes_table[io[i].index].addr : i \in 1 .. Len(io)}
  <2>1. \A j, i : Place(k, j, i) <=> j \in 1 .. Len(io) /\ io[j].index = i
    BY DEF Place
  <2>2. \A j, i : Place(k, j, i) => nodes_table[i].addr \in addrs
    BY <2>1
  <2>3. ASSUME NEW j \in 1 .. Len(io), nodes_table[io[j].index].addr # reg_list[k].start
        PROVE  \E b \in addrs :
                 nodes_table[io[j].index].addr - b \in 1 .. REG_DIFF_REFUSE_TO_INSERT - 1
    <3>1. Place(k, j, io[j].index)
      BY <2>1
    <3>2. \E q, l : /\ Place(k, q, l)
                    /\ nodes_table[io[j].index].addr - nodes_table[l].addr
                         \in 1 .. REG_DIFF_REFUSE_TO_INSERT - 1
      BY <2>3, <3>1 DEF Joined
    <3> HIDE DEF addrs
    <3> QED BY <2>2, <3>2
  <2> QED BY <2>3
<1> QED BY <1>1, <1>2, <1>3, PTL DEF Spec
=============================================================================
