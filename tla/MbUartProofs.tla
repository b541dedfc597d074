---------------------------- MODULE MbUartProofs ----------------------------
(***************************************************************************)
(* The rings of MbUart, for every FIFO length: what the index arithmetic   *)
(* of mb_uart_driver.c computes is a queue, and no index ever leaves its   *)
(* array.                                                                  *)
(***************************************************************************)
EXTENDS MbUart, SequenceTheorems, TLAPS

\* One addition of indices needs one correction only.
LEMMA ModPlus ==
    ASSUME NEW size \in Nat \ {0}, NEW a \in 0..size-1, NEW b \in 0..size-1
    PROVE  /\ (a + b) % size \in 0..size-1
           /\ a + b < size => (a + b) % size = a + b
           /\ a + b >= size => (a + b) % size = a + b - size
  OBVIOUS

\* One subtraction of indices needs one correction only.
LEMMA ModMinus ==
    ASSUME NEW size \in Nat \ {0}, NEW a \in 0..size-1, NEW b \in 0..size-1
    PROVE  /\ (a - b) % size \in 0..size-1
           /\ a >= b => (a - b) % size = a - b
           /\ a < b => (a - b) % size = a - b + size
  OBVIOUS

\* A ring with used bytes has room for len more.
Fits(size, rd, wr, used, len) ==
    /\ size \in Nat \ {0} /\ rd \in 0..size-1 /\ wr \in 0..size-1 /\ used \in 0..size-1
    /\ wr >= rd => used = wr - rd
    /\ wr < rd => used = wr - rd + size
    /\ len \in Nat /\ len <= size - 1 - used

\* Advancing the write index by len, when there is room for len bytes.
LEMMA AdvanceWr ==
    ASSUME NEW size, NEW rd, NEW wr, NEW used, NEW len, Fits(size, rd, wr, used, len)
    PROVE  /\ (wr + len) % size \in 0..size-1
           /\ (((wr + len) % size) - rd) % size = used + len
<1> USE DEF Fits
<1> DEFINE wr2 == (wr + len) % size
<1>1. len \in 0..size-1
  OBVIOUS
<1>2. /\ wr2 \in 0..size-1
      /\ wr + len < size => wr2 = wr + len
      /\ wr + len >= size => wr2 = wr + len - size
  BY <1>1, ModPlus, Zenon
<1> HIDE DEF wr2
<1>3. /\ wr2 >= rd => (wr2 - rd) % size = wr2 - rd
      /\ wr2 < rd => (wr2 - rd) % size = wr2 - rd + size
  BY <1>2, ModMinus, Zenon
<1>4. (wr2 - rd) % size = used + len
  BY <1>2, <1>3
<1> QED
  BY <1>2, <1>4 DEF wr2

\* The place q of the i-th byte of a ring, and the byte k + 1 that Filled stores there.
LEMMA PlaceOf ==
    ASSUME NEW size, NEW rd, NEW wr, NEW used, NEW len, Fits(size, rd, wr, used, len),
           NEW i \in 1..(used + len)
    PROVE  LET q == (rd + i - 1) % size
               k == (q - wr) % size
           IN  /\ q \in 0..size-1 /\ k \in Int
               /\ i <= used => k >= len
               /\ i > used => k < len /\ k + 1 = i - used
<1> USE DEF Fits
<1> DEFINE q == (rd + i - 1) % size
           k == (q - wr) % size
<1>1. i - 1 \in 0..size-1 /\ rd + i - 1 = rd + (i - 1)
  OBVIOUS
<1>2. /\ q \in 0..size-1
      /\ rd + (i - 1) < size => q = rd + (i - 1)
      /\ rd + (i - 1) >= size => q = rd + (i - 1) - size
  BY <1>1, ModPlus, Zenon
<1> HIDE DEF q
<1>3. /\ k \in 0..size-1
      /\ q >= wr => k = q - wr
      /\ q < wr => k = q - wr + size
  BY <1>2, ModMinus, Zenon
<1> HIDE DEF k
<1>4. i <= used => k >= len
  BY <1>2, <1>3
<1>5. i > used => k < len /\ k + 1 = i - used
  BY <1>2, <1>3
<1>6. k \in Int
  BY <1>3
<1> QED
  BY <1>2, <1>4, <1>5, <1>6 DEF q, k

\* The number of bytes in a ring is less than its size.
LEMMA UsedRange ==
    ASSUME NEW size \in Nat \ {0}, NEW r \in Ring(size)
    PROVE  /\ r.rd \in 0..size-1 /\ r.wr \in 0..size-1 /\ r.buf \in [0..size-1 -> Nat]
           /\ Used(r, size) \in 0..size-1
           /\ r.wr >= r.rd => Used(r, size) = r.wr - r.rd
           /\ r.wr < r.rd => Used(r, size) = r.wr - r.rd + size
<1>1. r.wr \in 0..size-1 /\ r.rd \in 0..size-1 /\ r.buf \in [0..size-1 -> Nat]
  BY DEF Ring
<1> QED
  BY <1>1, ModMinus, Zenon DEF Used

\* A function on 1..n is a sequence of length n.
LEMMA IsSequence ==
    ASSUME NEW n \in Nat, NEW f \in [1..n -> Nat]
    PROVE  f \in Seq(Nat) /\ Len(f) = n
  OBVIOUS

\* A sequence is the function of its elements.
LEMMA SequenceIs ==
    ASSUME NEW q \in Seq(Nat), NEW n, Len(q) = n
    PROVE  q = [i \in 1..n |-> q[i]]
  OBVIOUS

\* The bytes in a ring are a sequence of bytes.
LEMMA QueueType ==
    ASSUME NEW size \in Nat \ {0}, NEW r \in Ring(size), NEW len \in Nat
    PROVE  Held(r, size, len) \in Seq(Nat) /\ Len(Held(r, size, len)) = len
<1>1. ASSUME NEW i \in 1..len PROVE r.buf[(r.rd + i - 1) % size] \in Nat
  <2>1. r.rd \in 0..size-1 /\ r.buf \in [0..size-1 -> Nat]
    BY UsedRange, Zenon
  <2>2. r.rd + i - 1 \in Int
    BY <2>1
  <2>3. ASSUME NEW x \in Int PROVE x % size \in 0..size-1
    OBVIOUS
  <2> QED
    BY <2>1, <2>2, <2>3, Zenon
<1>2. Held(r, size, len) \in [1..len -> Nat]
  BY <1>1, Zenon DEF Held
<1> QED
  BY <1>2, IsSequence, Zenon

\* Storing bytes behind the ones in the ring appends them to the queue.
LEMMA Appended ==
    ASSUME NEW size \in Nat \ {0}, NEW r \in Ring(size), NEW data \in Seq(Nat),
           Len(data) <= Free(r, size)
    PROVE  LET s == [buf |-> Filled(r, size, data), rd |-> r.rd,
                     wr |-> (r.wr + Len(data)) % size]
           IN  /\ s \in Ring(size)
               /\ Used(s, size) = Used(r, size) + Len(data)
               /\ Queue(s, size) = Queue(r, size) \o data
<1> DEFINE len == Len(data)
           used == Used(r, size)
           s == [buf |-> Filled(r, size, data), rd |-> r.rd, wr |-> (r.wr + len) % size]
           place(i) == (r.rd + i - 1) % size
<1>1. /\ r.rd \in 0..size-1 /\ r.wr \in 0..size-1 /\ r.buf \in [0..size-1 -> Nat]
      /\ used \in 0..size-1
      /\ r.wr >= r.rd => used = r.wr - r.rd
      /\ r.wr < r.rd => used = r.wr - r.rd + size
  BY UsedRange, Zenon
<1>2. len \in Nat /\ len <= size - 1 - used
  <2>1. len \in Nat /\ used \in Int /\ size \in Int
    BY <1>1
  <2>2. Free(r, size) = size - used - 1 /\ len <= Free(r, size)
    BY Zenon DEF Free
  <2> HIDE DEF len, used
  <2> QED
    BY <2>1, <2>2
<1>2a. Fits(size, r.rd, r.wr, used, len)
  BY <1>1, <1>2, Zenon DEF Fits
<1>3. /\ s.rd = r.rd /\ s.wr = (r.wr + len) % size /\ s.buf = Filled(r, size, data)
  OBVIOUS
<1>4. (r.wr + len) % size \in 0..size-1 /\ (((r.wr + len) % size) - r.rd) % size = used + len
  <2> DEFINE rd == r.rd
             wr == r.wr
  <2>1. Fits(size, rd, wr, used, len)
    BY <1>2a
  <2> HIDE DEF rd, wr, used, len
  <2>2. (wr + len) % size \in 0..size-1 /\ (((wr + len) % size) - rd) % size = used + len
    BY <2>1, AdvanceWr, SMT
  <2> QED
    BY <2>2 DEF rd, wr
<1>5. Used(s, size) = used + len
  BY <1>3, <1>4, Zenon DEF Used
<1>6. Filled(r, size, data) \in [0..size-1 -> Nat]
  <2>1. ASSUME NEW i \in 0..size-1
        PROVE  (i - r.wr) % size < len => data[((i - r.wr) % size) + 1] \in Nat
    <3>1. (i - r.wr) % size \in 0..size-1
      BY <1>1, ModMinus, Zenon
    <3> QED
      BY <3>1, <1>2
  <2>2. ASSUME NEW i \in 0..size-1 PROVE r.buf[i] \in Nat
    BY <1>1
  <2> QED
    BY <2>1, <2>2, Zenon DEF Filled
<1>7. s \in Ring(size)
  BY <1>1, <1>3, <1>4, <1>6, Zenon DEF Ring
<1>8. ASSUME NEW i \in 1..(used + len)
      PROVE  s.buf[place(i)] = IF i <= used THEN r.buf[place(i)] ELSE data[i - used]
  <2> DEFINE k == (place(i) - r.wr) % size
  <2>1. /\ place(i) \in 0..size-1 /\ k \in Int
        /\ i <= used => k >= len
        /\ i > used => k < len /\ k + 1 = i - used
    <3> DEFINE rd == r.rd
               wr == r.wr
    <3>1. Fits(size, rd, wr, used, len) /\ i \in 1..(used + len)
      BY <1>2a
    <3> HIDE DEF rd, wr, used, len
    <3>2. /\ (rd + i - 1) % size \in 0..size-1 /\ (((rd + i - 1) % size) - wr) % size \in Int
          /\ i <= used => (((rd + i - 1) % size) - wr) % size >= len
          /\ i > used => /\ (((rd + i - 1) % size) - wr) % size < len
                        /\ ((((rd + i - 1) % size) - wr) % size) + 1 = i - used
      BY <3>1, PlaceOf, SMT
    <3> QED
      BY <3>2 DEF rd, wr
  <2>2. s.buf[place(i)] = IF k < len THEN data[k + 1] ELSE r.buf[place(i)]
    BY <1>3, <2>1, Zenon DEF Filled
  <2> HIDE DEF place, k
  <2>3. used \in Int /\ i \in Int
    BY <1>1, <1>2
  <2> HIDE DEF s, used, len
  <2>4. len \in Int
    BY <1>2
  <2> QED
    BY <2>1, <2>2, <2>3, <2>4
<1>9. Queue(s, size) = [i \in 1..(used + len) |-> s.buf[place(i)]]
  BY <1>3, <1>5, Zenon DEF Queue, Held
<1>10. Queue(r, size) = [i \in 1..used |-> r.buf[place(i)]]
  BY Zenon DEF Queue, Held
<1>11. used \in Nat
  BY <1>1
<1>12. Queue(r, size) \in Seq(Nat) /\ Len(Queue(r, size)) = used
  BY <1>11, QueueType, Zenon DEF Queue
<1> HIDE DEF place, s, used, len
<1>13. ASSUME NEW i \in 1..(used + len)
       PROVE  (Queue(r, size) \o data)[i] = s.buf[place(i)]
  <2>1. (Queue(r, size) \o data)[i] = IF i <= used THEN Queue(r, size)[i] ELSE data[i - used]
    BY <1>12, ConcatProperties, Zenon DEF len
  <2>2. i <= used => i \in 1..used
    BY <1>2, <1>11
  <2>3. i <= used => Queue(r, size)[i] = r.buf[place(i)]
    BY <1>10, <2>2, Zenon
  <2> QED
    BY <1>8, <2>1, <2>3, Zenon
<1>14. /\ Queue(r, size) \o data \in Seq(Nat)
       /\ Len(Queue(r, size) \o data) = used + len
  BY <1>12, ConcatProperties, Zenon DEF len
<1>15. Queue(r, size) \o data = [i \in 1..(used + len) |-> (Queue(r, size) \o data)[i]]
  BY <1>14, SequenceIs, Zenon
<1>16. Queue(s, size) = Queue(r, size) \o data
  BY <1>9, <1>13, <1>15, Zenon
<1> QED
  BY <1>5, <1>7, <1>16, Zenon DEF s, used, len

\* The sizes of the rings.
LEMMA Sizes == TxSize \in Nat \ {0} /\ RxSize \in Nat \ {0}
  BY UartConstants DEF TxSize, RxSize

\* mb_uart_write_data and mb_uart_send_data treat tx_buf as a queue: bytes for which there
\* is room go to its end, whatever the indices and the length of the FIFO.
THEOREM TxPutQueue ==
    ASSUME NEW r \in Ring(TxSize), NEW data \in Seq(Nat), Len(data) <= Free(r, TxSize)
    PROVE  /\ TxPut(r, data) \in Ring(TxSize)
           /\ Used(TxPut(r, data), TxSize) = Used(r, TxSize) + Len(data)
           /\ Queue(TxPut(r, data), TxSize) = Queue(r, TxSize) \o data
  BY Sizes, Appended, Zenon DEF TxPut

\* The arithmetic of RxPut: the index that rx_isr_data_handler computes, with its byte
\* reserved "at tail of the array", is the sum modulo the size.
LEMMA RxPutIndex ==
    ASSUME NEW size, NEW rd, NEW wr, NEW used, NEW len, Fits(size, rd, wr, used, len),
           rd # 0 \/ len < size - 1 - used
    PROVE  LET rem == size - wr - (IF rd = 0 THEN 1 ELSE 0)
           IN  (IF wr < rd \/ rem > len THEN wr + len ELSE len - rem) = (wr + len) % size
<1> USE DEF Fits
<1> DEFINE wr2 == (wr + len) % size
<1>1. len \in 0..size-1
  OBVIOUS
<1>2. /\ wr + len < size => wr2 = wr + len
      /\ wr + len >= size => wr2 = wr + len - size
  BY <1>1, ModPlus, Zenon
<1> HIDE DEF wr2
<1>3. CASE rd = 0
  BY <1>2, <1>3
<1>4. CASE rd # 0
  BY <1>2, <1>4
<1> QED
  BY <1>3, <1>4 DEF wr2

\* rx_isr_data_handler treats rx_buf as a queue, except that a packet that fills the ring to
\* the last byte must not arrive while rx_rd_idx is 0.
THEOREM RxPutQueue ==
    ASSUME NEW r \in Ring(RxSize), NEW data \in Seq(Nat), Len(data) <= Free(r, RxSize),
           r.rd # 0 \/ Len(data) < Free(r, RxSize)
    PROVE  /\ RxPut(r, data) \in Ring(RxSize)
           /\ Used(RxPut(r, data), RxSize) = Used(r, RxSize) + Len(data)
           /\ Queue(RxPut(r, data), RxSize) = Queue(r, RxSize) \o data
<1> DEFINE len == Len(data)
           used == Used(r, RxSize)
           rd == r.rd
           wr == r.wr
           size == RxSize
<1>1. /\ size \in Nat \ {0} /\ rd \in 0..size-1 /\ wr \in 0..size-1 /\ used \in 0..size-1
      /\ wr >= rd => used = wr - rd
      /\ wr < rd => used = wr - rd + size
  BY Sizes, UsedRange, Zenon
<1>2. /\ len \in Nat /\ len <= size - used - 1
      /\ rd # 0 \/ len < size - used - 1
  BY DEF Free
<1>3. RxPut(r, data) =
        [buf |-> Filled(r, size, data), rd |-> rd,
         wr |-> LET rem == size - wr - (IF rd = 0 THEN 1 ELSE 0)
                IN  IF wr < rd \/ rem > len THEN wr + len ELSE len - rem]
  BY DEF RxPut
<1> HIDE DEF len, used, rd, wr, size
<1>4. len <= size - 1 - used /\ (rd # 0 \/ len < size - 1 - used)
  BY <1>1, <1>2
<1>5. Fits(size, rd, wr, used, len)
  BY <1>1, <1>2, <1>4, Zenon DEF Fits
<1>6. (LET rem == size - wr - (IF rd = 0 THEN 1 ELSE 0)
       IN  IF wr < rd \/ rem > len THEN wr + len ELSE len - rem) = (wr + len) % size
  BY <1>4, <1>5, RxPutIndex, SMT
<1>7. RxPut(r, data) = [buf |-> Filled(r, size, data), rd |-> rd, wr |-> (wr + len) % size]
  BY <1>3, <1>6, Zenon
<1> QED
  BY <1>7, Sizes, Appended, ZenonT(40) DEF len, used, rd, wr, size

\* A ring with used bytes holds len of them.
Holds(size, rd, wr, used, len) ==
    /\ size \in Nat \ {0} /\ rd \in 0..size-1 /\ wr \in 0..size-1 /\ used \in 0..size-1
    /\ wr >= rd => used = wr - rd
    /\ wr < rd => used = wr - rd + size
    /\ len \in 0..used

\* The arithmetic of RxDrop: mb_uart_read_data advances the read index modulo the size, and
\* the bytes behind the ones it has read keep their places.
LEMMA AdvanceRd ==
    ASSUME NEW size, NEW rd, NEW wr, NEW used, NEW len, Holds(size, rd, wr, used, len)
    PROVE  LET rem == size - rd
               rd2 == IF rd < wr \/ rem > len THEN rd + len ELSE len - rem
           IN  /\ rd2 \in 0..size-1
               /\ (wr - rd2) % size = used - len
               /\ \A i \in 1..(used - len) : (rd2 + i - 1) % size = (rd + (len + i) - 1) % size
<1> USE DEF Holds
<1> DEFINE rd2 == IF rd < wr \/ size - rd > len THEN rd + len ELSE len - (size - rd)
<1>1. /\ rd2 \in 0..size-1
      /\ rd + len < size => rd2 = rd + len
      /\ rd + len >= size => rd2 = rd + len - size
  OBVIOUS
<1> HIDE DEF rd2
<1>2. (wr - rd2) % size = used - len
  <2>1. /\ wr >= rd2 => (wr - rd2) % size = wr - rd2
        /\ wr < rd2 => (wr - rd2) % size = wr - rd2 + size
    BY <1>1, ModMinus, Zenon
  <2> QED
    BY <1>1, <2>1
<1>3. ASSUME NEW i \in 1..(used - len)
      PROVE  (rd2 + i - 1) % size = (rd + (len + i) - 1) % size
  <2> DEFINE a == i - 1
             b == len + i - 1
  <2>1. a \in 0..size-1 /\ b \in 0..size-1 /\ b = len + a
    BY <1>1
  <2>2. rd2 + i - 1 = rd2 + a /\ rd + (len + i) - 1 = rd + b
    BY <1>1
  <2> HIDE DEF a, b
  <2>3. /\ rd2 + a < size => (rd2 + a) % size = rd2 + a
        /\ rd2 + a >= size => (rd2 + a) % size = rd2 + a - size
    BY <1>1, <2>1, ModPlus, Zenon
  <2>4. /\ rd + b < size => (rd + b) % size = rd + b
        /\ rd + b >= size => (rd + b) % size = rd + b - size
    BY <2>1, ModPlus, Zenon
  <2>5. (rd2 + a) % size = (rd + b) % size
    BY <1>1, <2>1, <2>3, <2>4
  <2> QED
    BY <2>2, <2>5
<1> QED
  BY <1>1, <1>2, <1>3, Zenon DEF rd2

\* mb_uart_read_data treats rx_buf as a queue: it takes the bytes at the front and leaves
\* the others.
THEOREM RxDropQueue ==
    ASSUME NEW r \in Ring(RxSize), NEW len \in 0..Used(r, RxSize)
    PROVE  /\ RxDrop(r, len) \in Ring(RxSize)
           /\ Used(RxDrop(r, len), RxSize) = Used(r, RxSize) - len
           /\ Queue(RxDrop(r, len), RxSize)
                  = [i \in 1..(Used(r, RxSize) - len) |-> Queue(r, RxSize)[len + i]]
<1> DEFINE used == Used(r, RxSize)
           rd == r.rd
           wr == r.wr
           size == RxSize
           rd2 == LET rem == size - rd IN IF rd < wr \/ rem > len THEN rd + len ELSE len - rem
           s == [buf |-> r.buf, wr |-> wr, rd |-> rd2]
<1>1. /\ size \in Nat \ {0} /\ rd \in 0..size-1 /\ wr \in 0..size-1 /\ used \in 0..size-1
      /\ wr >= rd => used = wr - rd
      /\ wr < rd => used = wr - rd + size
      /\ r.buf \in [0..size-1 -> Nat]
  BY Sizes, UsedRange, Zenon
<1>2. RxDrop(r, len) = s
  BY DEF RxDrop
<1>3. len \in 0..used
  OBVIOUS
<1>4. Queue(r, size) = [i \in 1..used |-> r.buf[(rd + i - 1) % size]]
  BY Zenon DEF Queue, Held
<1> HIDE DEF used, rd, wr, size
<1>5. Holds(size, rd, wr, used, len)
  BY <1>1, <1>3, Zenon DEF Holds
<1>6. /\ rd2 \in 0..size-1
      /\ (wr - rd2) % size = used - len
      /\ \A i \in 1..(used - len) : (rd2 + i - 1) % size = (rd + (len + i) - 1) % size
  BY <1>5, AdvanceRd, SMT
<1> HIDE DEF rd2
<1>7. s \in Ring(size)
  BY <1>1, <1>6, Zenon DEF Ring
<1>8. Used(s, size) = used - len
  BY <1>6, Zenon DEF Used
<1>9. Queue(s, size) = [i \in 1..(used - len) |-> r.buf[(rd2 + i - 1) % size]]
  BY <1>8, Zenon DEF Queue, Held
<1>10. ASSUME NEW i \in 1..(used - len)
       PROVE  r.buf[(rd2 + i - 1) % size] = Queue(r, size)[len + i]
  <2>1. len + i \in 1..used
    BY <1>1, <1>3
  <2> QED
    BY <1>4, <1>6, <2>1, Zenon
<1>11. Queue(s, size) = [i \in 1..(used - len) |-> Queue(r, size)[len + i]]
  BY <1>9, <1>10, Zenon
<1> QED
  BY <1>2, <1>7, <1>8, <1>11, Zenon DEF used, size

\* When mb_uart_read_data lets the peer go on, there is more room than the largest packet.
THEOREM GoAheadRoom ==
    ASSUME NEW r \in Ring(RxSize), Used(r, RxSize) < Low
    PROVE  Free(r, RxSize) > Fifo
<1>1. Used(r, RxSize) \in 0..RxSize-1
  BY Sizes, UsedRange, Zenon
<1> QED
  BY <1>1, UartConstants DEF Free, Low, RxSize
-----------------------------------------------------------------------------
(***************************************************************************)
(* Type correctness: no index leaves its array, whatever the interleaving. *)
(***************************************************************************)
\* A step of a context changes its own program counter only.
LEMMA GotoStep ==
    ASSUME TypeOK, NEW n \in Node, NEW x \in Context, NEW step \in PC, Goto(n, x, step)
    PROVE  /\ pc' \in [Node -> [Context -> PC]]
           /\ pc'[n][x] = step
           /\ \A m \in Node, y \in Context : m # n \/ y # x => pc'[m][y] = pc[m][y]
  BY DEF TypeOK, Goto

\* The step that follows the start of a transmission is one.
LEMMA AfterStep ==
    ASSUME NEW n \in Node, NEW x \in Context
    PROVE  After(n, x) \in PC \ {"sent", "post", "copy", "status"}
  BY DEF After, PC

\* Opening a window takes at most one of the races that are allowed.
LEMMA MeetsType ==
    ASSUME TypeOK, NEW n \in Node, NEW met, NEW w \in Window, Meets(n, met, w)
    PROVE  raced' \in Seq(Node \X Window) /\ Len(raced') <= bound.races
<1>1. bound.races \in Nat
  BY UartConstants DEF TypeOK
<1> QED
  BY <1>1 DEF TypeOK, Meets

\* The message that the handler works on has its type, and its packet was put together.
LEMMA GotType ==
    ASSUME TypeOK, PacketsFit, NEW n \in Node, wire[n] # <<>>
    PROVE  /\ Got(n) \in Msg
           /\ Got(n).pkt \in Packet
           /\ Got(n).pkt.len <= Len(xchg[Peer(n)])
           /\ Tail(wire[n]) \in Seq(Msg)
           /\ \A i \in DOMAIN Tail(wire[n]) : Tail(wire[n])[i] = wire[n][i + 1] /\ i + 1 \in DOMAIN wire[n]
<1>1. wire[n] \in Seq(Msg) /\ Peer(n) \in Node /\ Peer(Peer(n)) = n
  BY DEF TypeOK, Node, Peer
<1>2. Got(n) \in Msg /\ Got(n) = wire[n][1] /\ 1 \in DOMAIN wire[n]
  BY <1>1 DEF Got
<1>3. /\ Tail(wire[n]) \in Seq(Msg)
      /\ \A i \in DOMAIN Tail(wire[n]) : Tail(wire[n])[i] = wire[n][i + 1] /\ i + 1 \in DOMAIN wire[n]
  BY <1>1
<1>4. Got(n).pkt.len <= Len(xchg[Peer(n)])
  BY <1>1, <1>2 DEF PacketsFit
<1>5. Got(n).pkt \in Packet
  BY <1>2 DEF Msg
<1> QED
  BY <1>2, <1>3, <1>4, <1>5 DEF Msg
\* The two ends.
LEMMA Peers == \A n \in Node : Peer(n) \in Node /\ Peer(Peer(n)) = n /\ Peer(n) # n
  BY DEF Node, Peer

\* The initial states satisfy the invariant.
LEMMA UartInitInv == Init => UartInv
<1> SUFFICES ASSUME Init PROVE UartInv
  OBVIOUS
<1> USE DEF Init
<1>1. bound \in Bound /\ bound.open \in BOOLEAN /\ bound.log \in BOOLEAN
      /\ bound.races \in Nat /\ bound.bytes \in [Node -> Nat]
  BY UartConstants
<1>2. EmptyRing(TxSize) \in Ring(TxSize) /\ EmptyRing(RxSize) \in Ring(RxSize)
  BY Sizes DEF EmptyRing, Ring
<1>3. NoPacket \in Packet
  BY UartConstants DEF NoPacket, Packet, Bit
<1>4. /\ cb \in [Node -> Cb]
      /\ tx \in [Node -> Ring(TxSize)] /\ rx \in [Node -> Ring(RxSize)]
      /\ xchg \in [Node -> Seq(Nat)]
      /\ pend \in [Node -> Packet] /\ phy \in [Node -> BOOLEAN]
      /\ wire \in [Node -> Seq(Msg)]
  BY <1>1, <1>2, <1>3 DEF Bit, Cb
<1>5. /\ pc \in [Node -> [Context -> PC]] /\ loc \in [Node -> [Context -> Nat]]
      /\ out \in [Node -> [Context -> Packet]] /\ rsp \in [Node -> Response]
      /\ written \in [Node -> Nat] /\ \A n \in Node : written[n] <= bound.bytes[n]
      /\ got \in [Node -> Seq(Nat)]
      /\ raced \in Seq(Node \X Window) /\ Len(raced) <= bound.races
  BY <1>1, <1>3 DEF PC, Response, Bit
<1>6. TypeOK
  BY <1>1, <1>4, <1>5, SMTT(40) DEF TypeOK
<1>7. PacketsFit
  BY Peers DEF PacketsFit, NoPacket
<1>8. HasMessage /\ LocalsFit
  BY DEF HasMessage, LocalsFit, LocalFits, Context, Task
<1> QED
  BY <1>6, <1>7, <1>8 DEF UartInv

\* What appending does to the elements of a sequence.
LEMMA AppendElements ==
    ASSUME NEW S, NEW q \in Seq(S), NEW e \in S
    PROVE  /\ Append(q, e) \in Seq(S) /\ Append(q, e) # <<>>
           /\ \A i \in DOMAIN Append(q, e) :
                  Append(q, e)[i] = e \/ (i \in DOMAIN q /\ Append(q, e)[i] = q[i])
  OBVIOUS

\* A message of node n is sent, and a message to it may be done with.
LEMMA WireInv ==
    ASSUME UartInv, NEW n \in Node, NEW msg \in Msg, msg.pkt.len <= Len(xchg[n]),
           NEW w, w = wire[n] \/ (wire[n] # <<>> /\ w = Tail(wire[n])),
           wire' = [wire EXCEPT ![n] = w, ![Peer(n)] = Append(@, msg)]
    PROVE  /\ wire' \in [Node -> Seq(Msg)]
           /\ wire'[n] = w
           /\ \A m \in Node : /\ m # n /\ wire[m] # <<>> => wire'[m] # <<>>
                              /\ \A i \in DOMAIN wire'[Peer(m)] :
                                     wire'[Peer(m)][i].pkt.len <= Len(xchg[m])
<1>1. /\ wire \in [Node -> Seq(Msg)]
      /\ \A m \in Node : Peer(m) \in Node /\ Peer(Peer(m)) = m /\ Peer(m) # m
      /\ \A m \in Node : m = n \/ m = Peer(n)
  BY DEF UartInv, TypeOK, Node, Peer, Msg
<1>2. \A m \in Node : \A i \in DOMAIN wire[Peer(m)] : wire[Peer(m)][i].pkt.len <= Len(xchg[m])
  BY DEF UartInv, PacketsFit
<1>3. /\ w \in Seq(Msg)
      /\ \A i \in DOMAIN w : \/ w[i] = wire[n][i] /\ i \in DOMAIN wire[n]
                             \/ w[i] = wire[n][i + 1] /\ i + 1 \in DOMAIN wire[n]
  <2>1. CASE w = wire[n]
    BY <1>1, <2>1, Zenon
  <2>2. CASE wire[n] # <<>> /\ w = Tail(wire[n])
    BY <2>2, GotType, Zenon DEF UartInv, Msg
  <2> QED
    BY <2>1, <2>2
<1> DEFINE q == wire[Peer(n)]
<1>3a. q \in Seq(Msg)
  BY <1>1
<1>4. wire'[n] = w /\ wire'[Peer(n)] = Append(q, msg) /\ wire' \in [Node -> Seq(Msg)]
  <2>1. Append(q, msg) \in Seq(Msg)
    BY <1>1, AppendElements
  <2> QED
    BY <1>1, <1>3, <2>1
<1>5. \A i \in DOMAIN Append(q, msg) :
          Append(q, msg)[i] = msg \/ (i \in DOMAIN q /\ Append(q, msg)[i] = q[i])
  BY <1>3a, AppendElements
<1>6. \A i \in DOMAIN wire'[Peer(n)] : wire'[Peer(n)][i].pkt.len <= Len(xchg[n])
  BY <1>2, <1>4, <1>5, Zenon
<1>7. \A i \in DOMAIN wire'[n] : wire'[n][i].pkt.len <= Len(xchg[Peer(n)])
  BY <1>1, <1>2, <1>3, <1>4
<1>8. wire'[Peer(n)] # <<>>
  BY <1>3a, <1>4, AppendElements
<1> QED
  BY <1>1, <1>4, <1>6, <1>7, <1>8, ZenonT(40)

\* mb_chnl_write of a packet of node n.
LEMMA WriteInv ==
    ASSUME UartInv, NEW n \in Node, NEW p \in Packet, p.len <= Len(xchg[n]),
           mb_chnl_write(n, p)
    PROVE  /\ pend' \in [Node -> Packet] /\ phy' \in [Node -> BOOLEAN]
           /\ wire' \in [Node -> Seq(Msg)]
           /\ \A m \in Node : /\ pend'[m].len <= Len(xchg[m])
                              /\ wire[m] # <<>> => wire'[m] # <<>>
                              /\ \A i \in DOMAIN wire'[Peer(m)] :
                                     wire'[Peer(m)][i].pkt.len <= Len(xchg[m])
<1>1. Cmd(p) \in Msg /\ Cmd(p).pkt = p
  BY DEF Cmd, Bit, Msg
<1>2. pend \in [Node -> Packet] /\ phy \in [Node -> BOOLEAN] /\ wire \in [Node -> Seq(Msg)]
  BY Zenon DEF UartInv, TypeOK, Msg
<1>3. \A m \in Node : /\ pend[m].len <= Len(xchg[m])
                      /\ \A i \in DOMAIN wire[Peer(m)] : wire[Peer(m)][i].pkt.len <= Len(xchg[m])
  BY DEF UartInv, PacketsFit
<1>4. CASE wire' = [wire EXCEPT ![Peer(n)] = Append(@, Cmd(p))]
           /\ phy' = [phy EXCEPT ![n] = TRUE] /\ pend' = pend
  <2>1. wire' = [wire EXCEPT ![n] = wire[n], ![Peer(n)] = Append(@, Cmd(p))]
    BY <1>2, <1>4, Peers, Zenon
  <2>2. /\ wire' \in [Node -> Seq(Msg)] /\ wire'[n] = wire[n]
        /\ \A m \in Node : /\ m # n /\ wire[m] # <<>> => wire'[m] # <<>>
                           /\ \A i \in DOMAIN wire'[Peer(m)] :
                                  wire'[Peer(m)][i].pkt.len <= Len(xchg[m])
    BY <1>1, <2>1, WireInv, Zenon
  <2>3. phy' \in [Node -> BOOLEAN]
    BY <1>2, <1>4
  <2> QED
    BY <1>2, <1>3, <1>4, <2>2, <2>3, Zenon
<1>5. CASE pend' = [pend EXCEPT ![n] = p] /\ phy' = phy /\ wire' = wire
  BY <1>2, <1>3, <1>5
<1>6. CASE UNCHANGED link
  BY <1>2, <1>3, <1>6 DEF link
<1> QED
  BY <1>4, <1>5, <1>6 DEF mb_chnl_write
\* A step to a program counter that LocalsFit says nothing of, in which only the context's
\* own local variable, the flags, the transmit ring and the response may change.
LEMMA StepInv ==
    ASSUME UartInv, NEW n \in Node, NEW x \in Context, NEW step \in PC, Goto(n, x, step),
           step \notin {"copy", "status", "sent", "post"},
           x = "isr" /\ step # "idle" => wire[n] # <<>>,
           cb' \in [Node -> Cb], tx' \in [Node -> Ring(TxSize)], rsp' \in [Node -> Response],
           loc' \in [Node -> [Context -> Nat]],
           \A m \in Node, y \in Context : m # n \/ y # x => loc'[m][y] = loc[m][y],
           raced' \in Seq(Node \X Window), Len(raced') <= bound.races,
           written' \in [Node -> Nat], \A m \in Node : written'[m] <= bound.bytes[m],
           UNCHANGED <<rx, xchg, link, out, bound, got>>
    PROVE  UartInv'
<1>1. /\ pc' \in [Node -> [Context -> PC]]
      /\ pc'[n][x] = step
      /\ \A m \in Node, y \in Context : m # n \/ y # x => pc'[m][y] = pc[m][y]
  BY GotoStep, SMTT(40) DEF UartInv
<1>2. TypeOK'
  BY <1>1, SMTT(40) DEF UartInv, TypeOK, link
<1>3. PacketsFit'
  BY DEF UartInv, PacketsFit, link
<1>4. HasMessage'
  BY <1>1, ZenonT(40) DEF UartInv, HasMessage, link, Context, Task
<1>5. LocalsFit'
  <2> SUFFICES ASSUME NEW m \in Node, NEW y \in Context
               PROVE  LocalFits(m, y)'
    BY DEF LocalsFit
  <2>1. LocalFits(m, y)
    BY DEF UartInv, LocalsFit
  <2>2. rx' = rx /\ out' = out
    OBVIOUS
  <2>3. CASE m = n /\ y = x
    BY <1>1, <2>3, Zenon DEF LocalFits
  <2>4. CASE m # n \/ y # x
    BY <1>1, <2>1, <2>2, <2>4, Zenon DEF LocalFits
  <2> QED
    BY <2>3, <2>4
<1> QED
  BY <1>2, <1>3, <1>4, <1>5, SMTT(40) DEF UartInv
\* The flags keep their types when one is set.
LEMMA CbType ==
    ASSUME TypeOK, NEW n \in Node, NEW b \in Bit
    PROVE  /\ [cb EXCEPT ![n].busy = b] \in [Node -> Cb]
           /\ [cb EXCEPT ![n].req = b] \in [Node -> Cb]
           /\ [cb EXCEPT ![n].rts = b] \in [Node -> Cb]
           /\ [cb EXCEPT ![n].cts = b] \in [Node -> Cb]
           /\ [cb EXCEPT ![n].cmd = "data"] \in [Node -> Cb]
           /\ [cb EXCEPT ![n].cmd = "state"] \in [Node -> Cb]
<1>1. cb \in [Node -> Cb]
  BY DEF TypeOK
<1>2. [cb EXCEPT ![n].busy = b] \in [Node -> Cb]
  BY <1>1 DEF Cb
<1>3. [cb EXCEPT ![n].req = b] \in [Node -> Cb]
  BY <1>1 DEF Cb
<1>4. [cb EXCEPT ![n].rts = b] \in [Node -> Cb]
  BY <1>1 DEF Cb
<1>5. [cb EXCEPT ![n].cts = b] \in [Node -> Cb]
  BY <1>1 DEF Cb
<1>6. [cb EXCEPT ![n].cmd = "data"] \in [Node -> Cb]
  BY <1>1 DEF Cb
<1>7. [cb EXCEPT ![n].cmd = "state"] \in [Node -> Cb]
  BY <1>1 DEF Cb
<1> QED
  BY <1>2, <1>3, <1>4, <1>5, <1>6, <1>7, SMTT(40)

\* A context that is at work in the interrupt handler works on a message.
LEMMA AtWork ==
    ASSUME UartInv, NEW n \in Node, NEW x \in Context, NEW step, At(n, x, step),
           step # "idle", x = "isr"
    PROVE  wire[n] # <<>>
  BY DEF UartInv, HasMessage, At

\* What a step that leaves most of the state alone keeps.
LEMMA Kept ==
    ASSUME UartInv
    PROVE  /\ cb \in [Node -> Cb] /\ tx \in [Node -> Ring(TxSize)] /\ rsp \in [Node -> Response]
           /\ loc \in [Node -> [Context -> Nat]]
           /\ raced \in Seq(Node \X Window) /\ Len(raced) <= bound.races
           /\ written \in [Node -> Nat] /\ \A m \in Node : written[m] <= bound.bytes[m]
  BY DEF UartInv, TypeOK

\* Lengths are natural numbers.
LEMMA Lengths ==
    ASSUME UartInv, NEW m \in Node
    PROVE  /\ Len(xchg[m]) \in Nat /\ pend[m].len \in Int
           /\ \A y \in Context : out[m][y].len \in Int
<1>1. xchg[m] \in Seq(Nat) /\ pend[m] \in Packet /\ \A y \in Context : out[m][y] \in Packet
  BY Zenon DEF UartInv, TypeOK
<1>2. \A q \in Packet : q.len \in Int
  BY UartConstants DEF Packet
<1>3. Len(xchg[m]) \in Nat
  BY <1>1
<1> QED
  BY <1>1, <1>2, <1>3, Zenon

\* The critical sections and the ends of a transmission.
LEMMA TriggerInv ==
    ASSUME UartInv, NEW n \in Node, NEW x \in Context,
           \/ mb_uart_send_data_trigger(n, x) \/ mb_uart_send_state_trigger(n, x)
           \/ Clear(n, x)
    PROVE  UartInv'
<1>1. 0 \in Bit /\ 1 \in Bit
  BY DEF Bit
<1>2. TypeOK
  BY DEF UartInv
<1> DEFINE b == IF cb[n].exc THEN 0 ELSE 1
<1>3. b \in Bit
  BY <1>1
<1> HIDE DEF b
<1>4. CASE mb_uart_send_data_trigger(n, x)
  <2>1. x = "isr" => wire[n] # <<>>
    BY <1>4, AtWork DEF mb_uart_send_data_trigger
  <2>2. UNCHANGED <<tx, rx, xchg, link, loc, rsp, out, bound, written, got>>
    BY <1>4 DEF mb_uart_send_data_trigger
  <2>3. CASE /\ cb' = cb /\ Goto(n, x, After(n, x))
             /\ Meets(n, SomeAt(n, {"fail", "clear"}), "clear")
    <3>1. raced' \in Seq(Node \X Window) /\ Len(raced') <= bound.races
      BY <1>2, <2>3, MeetsType DEF Window
    <3>2. After(n, x) \in PC /\ After(n, x) \notin {"copy", "status", "sent", "post"}
      BY AfterStep
    <3> QED
      BY <2>1, <2>2, <2>3, <3>1, <3>2, Kept, StepInv, Zenon
  <2>4. CASE cb' = [cb EXCEPT ![n].busy = b] /\ Goto(n, x, "send") /\ raced' = raced
    <3>1. cb' \in [Node -> Cb]
      BY <1>2, <1>3, <2>4, CbType, Zenon
    <3>2. "send" \in PC /\ "send" \notin {"copy", "status", "sent", "post"}
      BY DEF PC
    <3> QED
      BY <2>1, <2>2, <2>4, <3>1, <3>2, Kept, StepInv, Zenon
  <2> QED
    BY <1>4, <2>3, <2>4 DEF mb_uart_send_data_trigger, b
<1>5. CASE mb_uart_send_state_trigger(n, x)
  <2>1. x = "isr" => wire[n] # <<>>
    BY <1>5, AtWork DEF mb_uart_send_state_trigger
  <2>2. UNCHANGED <<tx, rx, xchg, link, loc, rsp, out, bound, written, got>>
    BY <1>5 DEF mb_uart_send_state_trigger
  <2>3. CASE /\ cb' = [cb EXCEPT ![n].req = 1] /\ Goto(n, x, "idle")
             /\ Meets(n, SomeAt(n, {"clear"}) \/ DropsReq(n), "clear")
    <3>1. raced' \in Seq(Node \X Window) /\ Len(raced') <= bound.races
      BY <1>2, <2>3, MeetsType DEF Window
    <3>2. "idle" \in PC /\ "idle" \notin {"copy", "status", "sent", "post"}
      BY DEF PC
    <3>3. cb' \in [Node -> Cb]
      BY <1>1, <1>2, <2>3, CbType, Zenon
    <3> QED
      BY <2>1, <2>2, <2>3, <3>1, <3>2, <3>3, Kept, StepInv, Zenon
  <2>4. CASE cb' = [cb EXCEPT ![n].busy = b] /\ Goto(n, x, "state") /\ raced' = raced
    <3>1. cb' \in [Node -> Cb]
      BY <1>2, <1>3, <2>4, CbType, Zenon
    <3>2. "state" \in PC /\ "state" \notin {"copy", "status", "sent", "post"}
      BY DEF PC
    <3> QED
      BY <2>1, <2>2, <2>4, <3>1, <3>2, Kept, StepInv, Zenon
  <2> QED
    BY <1>5, <2>3, <2>4 DEF mb_uart_send_state_trigger, b
<1>6. CASE Clear(n, x)
  <2>1. x = "isr" => wire[n] # <<>>
    BY <1>6, AtWork DEF Clear
  <2>2. After(n, x) \in PC /\ After(n, x) \notin {"copy", "status", "sent", "post"}
    BY AfterStep
  <2>3. cb' \in [Node -> Cb]
    BY <1>1, <1>2, <1>6, CbType, Zenon DEF Clear
  <2> QED
    BY <1>6, <2>1, <2>2, <2>3, Kept, StepInv, Zenon DEF Clear
<1> QED
  BY <1>4, <1>5, <1>6
\* A local variable is set.
LEMMA LocType ==
    ASSUME UartInv, NEW n \in Node, NEW x \in Context, NEW v \in Nat
    PROVE  LET l == [loc EXCEPT ![n][x] = v]
           IN  /\ l \in [Node -> [Context -> Nat]] /\ l[n][x] = v
               /\ \A m \in Node, y \in Context : m # n \/ y # x => l[m][y] = loc[m][y]
  BY DEF UartInv, TypeOK

\* The steps of StepInv.
Plain == PC \ {"copy", "status", "sent", "post"}

\* Names of steps that are plain.
LEMMA PlainSteps ==
    /\ {"idle", "trig", "send", "fail", "clear", "req", "state", "flow", "rts", "ack", "scan"}
           \subseteq Plain
    /\ \A s \in Plain : s \in PC /\ s \notin {"copy", "status", "sent", "post"}
    /\ \A n \in Node, x \in Context : After(n, x) \in Plain
  BY DEF Plain, PC, After

\* mb_uart_send_data and mb_uart_tx_cmpl_isr advance tx_rd_idx.
LEMMA SentInv ==
    ASSUME UartInv, NEW n \in Node, NEW x \in Context, Sent(n, x)
    PROVE  UartInv'
<1>1. loc[n][x] \in 0..TxSize-1
  BY DEF UartInv, LocalsFit, LocalFits, Sent, At
<1>2. tx' \in [Node -> Ring(TxSize)]
  BY <1>1, Kept, Zenon DEF Sent, Ring
<1>3. 0 \in Bit /\ 0 \in Nat
  BY DEF Bit
<1>4. cb' \in [Node -> Cb]
  <2>1. CASE Completes(n, x)
    BY <1>3, <2>1, CbType, Zenon DEF Sent, UartInv
  <2>2. CASE ~Completes(n, x)
    BY <2>2, Kept, Zenon DEF Sent
  <2> QED
    BY <2>1, <2>2
<1>5. /\ loc' \in [Node -> [Context -> Nat]]
      /\ \A m \in Node, y \in Context : m # n \/ y # x => loc'[m][y] = loc[m][y]
  <2> DEFINE l == [loc EXCEPT ![n][x] = 0]
  <2>1. loc' = l
    BY DEF Sent
  <2>2. /\ l \in [Node -> [Context -> Nat]]
        /\ \A m \in Node, y \in Context : m # n \/ y # x => l[m][y] = loc[m][y]
    BY <1>3, LocType
  <2> QED
    BY <2>1, <2>2, Zenon
<1>6. x = "isr" => wire[n] # <<>>
  BY AtWork DEF Sent
<1>7. Goto(n, x, After(n, x)) /\ UNCHANGED <<rx, xchg, link, rsp, out, bound, written, got, raced>>
  BY DEF Sent
<1> QED
  BY <1>2, <1>4, <1>5, <1>6, <1>7, Kept, PlainSteps, StepInv, Zenon

\* The answer to a packet.
LEMMA AnswerInv ==
    ASSUME UartInv, NEW n \in Node, wire[n] # <<>>, NEW req \in Bit, NEW rts \in Bit,
           NEW fail \in Bit, Answer(n, req, rts, fail)
    PROVE  /\ cb' \in [Node -> Cb] /\ rsp' \in [Node -> Response]
           /\ Goto(n, "isr", "trig") \/ Goto(n, "isr", "ack")
<1>1. Got(n).pkt.rts \in Bit
  BY GotType DEF UartInv, Packet
<1>2. cb' \in [Node -> Cb]
  <2> DEFINE c == [cb[n] EXCEPT !.rts = rts, !.cts = Got(n).pkt.rts, !.req = req]
  <2>1. cb' = [cb EXCEPT ![n] = c]
    BY Kept, Zenon DEF Answer
  <2>2. c \in Cb
    BY <1>1, Kept, ZenonT(40) DEF Cb
  <2> QED
    BY <2>1, <2>2, Kept
<1>3. rsp' \in [Node -> Response]
  BY Kept DEF Answer, Response
<1> QED
  BY <1>2, <1>3 DEF Answer

\* The steps of the interrupt handler that store no data.
LEMMA IsrInv ==
    ASSUME UartInv, NEW n \in Node,
           \/ NotOpen(n) \/ rx_isr_state_handler(n) \/ FlowControl(n)
           \/ mb_uart_tx_cmpl_isr(n) \/ TellState(n) \/ Told(n)
    PROVE  UartInv'
<1>1. "isr" \in Context /\ 0 \in Bit /\ 1 \in Bit /\ 0 \in Nat /\ n \in Node /\ Peer(n) \in Node
  BY Peers DEF Context, Bit
<1>2. TypeOK /\ PacketsFit
  BY DEF UartInv
<1>3. wire[n] # <<>>
  BY DEF NotOpen, rx_isr_state_handler, FlowControl, mb_uart_tx_cmpl_isr, TellState, Told,
         UartInv, HasMessage, At
<1>4. cb[n].rts \in Bit /\ cb[n].req \in Bit /\ rsp[n].fail \in Bit /\ Got(n).pkt.rts \in Bit
  BY <1>3, Kept, GotType DEF UartInv, Cb, Response, Packet
<1>5. CASE NotOpen(n)
  <2>1. rsp' \in [Node -> Response]
    BY <1>5, Kept, SMTT(40) DEF NotOpen, Response, Bit
  <2>2. raced' \in Seq(Node \X Window) /\ Len(raced') <= bound.races
    BY <1>1, <1>2, <1>5, MeetsType DEF Window, NotOpen
  <2> QED
    BY <1>1, <1>3, <1>5, <2>1, <2>2, Kept, PlainSteps, StepInv, ZenonT(40) DEF NotOpen
<1>6. CASE rx_isr_state_handler(n)
  <2>1. /\ cb' \in [Node -> Cb] /\ rsp' \in [Node -> Response]
        /\ Goto(n, "isr", "trig") \/ Goto(n, "isr", "ack")
    BY <1>1, <1>3, <1>4, <1>6, AnswerInv, Zenon DEF rx_isr_state_handler
  <2> QED
    BY <1>1, <1>3, <1>6, <2>1, Kept, PlainSteps, StepInv, Zenon DEF rx_isr_state_handler
<1>7. CASE FlowControl(n)
  <2> DEFINE rts == IF loc[n]["isr"] <= Fifo THEN 1 ELSE cb[n].rts
  <2>1. rts \in Bit
    BY <1>1, <1>4
  <2>2. /\ cb' \in [Node -> Cb] /\ rsp' \in [Node -> Response]
        /\ Goto(n, "isr", "trig") \/ Goto(n, "isr", "ack")
    BY <1>3, <1>4, <1>7, <2>1, AnswerInv, Zenon DEF FlowControl
  <2>3. /\ loc' \in [Node -> [Context -> Nat]]
        /\ \A m \in Node, y \in Context : m # n \/ y # "isr" => loc'[m][y] = loc[m][y]
    <3> DEFINE l == [loc EXCEPT ![n]["isr"] = 0]
    <3>1. loc' = l
      BY <1>7 DEF FlowControl
    <3>2. /\ l \in [Node -> [Context -> Nat]]
          /\ \A m \in Node, y \in Context : m # n \/ y # "isr" => l[m][y] = loc[m][y]
      BY <1>1, LocType
    <3> QED
      BY <3>1, <3>2, Zenon
  <2>4. UNCHANGED <<tx, rx, xchg, link, out, bound, written, got, raced>>
    BY <1>7 DEF FlowControl
  <2> QED
    BY <1>1, <1>3, <2>2, <2>3, <2>4, Kept, PlainSteps, StepInv, ZenonT(40)
<1>8. CASE mb_uart_tx_cmpl_isr(n)
  <2>1. cb' \in [Node -> Cb]
    <3>1. [cb EXCEPT ![n].cts = Got(n).pkt.rts] \in [Node -> Cb]
      BY <1>2, <1>4, CbType, Zenon
    <3> QED
      BY <1>8, <3>1, Kept, Zenon DEF mb_uart_tx_cmpl_isr
  <2> QED
    BY <1>1, <1>3, <1>8, <2>1, Kept, PlainSteps, StepInv, Zenon DEF mb_uart_tx_cmpl_isr
<1>9. CASE TellState(n)
  <2>1. Goto(n, "isr", "clear") \/ Goto(n, "isr", "state")
    BY <1>9 DEF TellState
  <2> QED
    BY <1>1, <1>3, <1>9, <2>1, Kept, PlainSteps, StepInv, Zenon DEF TellState
<1>10. CASE Told(n)
  <2>1. cb' \in [Node -> Cb]
    BY <1>1, <1>2, <1>10, CbType, Zenon DEF Told
  <2> QED
    BY <1>1, <1>3, <1>10, <2>1, Kept, PlainSteps, StepInv, Zenon DEF Told
<1> QED
  BY <1>5, <1>6, <1>7, <1>8, <1>9, <1>10
\* mb_uart_write_data.
LEMMA WriteDataInv ==
    ASSUME UartInv, NEW n \in Node, NEW data_len \in bound.write,
           mb_uart_write_data(n, data_len)
    PROVE  UartInv'
<1> DEFINE free == bk_mb_uart_write_ready(n)
           len == Min2(data_len, free)
           data == [i \in 1..len |-> written[n] + i]
<1>1. data_len \in Nat /\ bound.bytes[n] \in Nat
  BY UartConstants DEF UartInv, TypeOK
<1>2. free = Free(tx[n], TxSize) /\ free \in Nat
  <2>1. tx[n] \in Ring(TxSize)
    BY Kept
  <2>2. Used(tx[n], TxSize) \in 0..TxSize-1
    BY <2>1, Sizes, UsedRange, Zenon
  <2> QED
    BY <2>2, Sizes DEF bk_mb_uart_write_ready, Free
<1> HIDE DEF free
<1>3. len \in Nat /\ len <= free /\ len <= data_len
  BY <1>1, <1>2 DEF Min2
<1> HIDE DEF len
<1>4. data \in Seq(Nat) /\ Len(data) = len
  <2>1. data \in [1..len -> Nat]
    BY <1>3, Kept
  <2> QED
    BY <1>3, <2>1, IsSequence, Zenon
<1> HIDE DEF data
<1>5. TxPut(tx[n], data) \in Ring(TxSize)
  <2>1. tx[n] \in Ring(TxSize) /\ Len(data) <= Free(tx[n], TxSize)
    BY <1>2, <1>3, <1>4, Kept, SMTT(40)
  <2> QED
    BY <1>4, <2>1, TxPutQueue, Zenon
<1>6. tx' = [tx EXCEPT ![n] = TxPut(tx[n], data)]
  BY Kept, SMTT(40) DEF mb_uart_write_data, data, len, free
<1>7. tx' \in [Node -> Ring(TxSize)]
  BY <1>5, <1>6, Kept, SMTT(40)
<1>8. written' = [written EXCEPT ![n] = @ + len] /\ written[n] + data_len <= bound.bytes[n]
  BY DEF mb_uart_write_data, len, free
<1>9. written' \in [Node -> Nat] /\ \A m \in Node : written'[m] <= bound.bytes[m]
  BY <1>1, <1>3, <1>8, Kept, SMTT(40)
<1>10. /\ Goto(n, "wr", "trig")
       /\ UNCHANGED <<cb, rx, xchg, link, loc, rsp, out, bound, got, raced>>
  BY DEF mb_uart_write_data
<1>11. "wr" \in Context /\ "wr" # "isr"
  BY DEF Context, Task
<1> QED
  BY <1>7, <1>9, <1>10, <1>11, Kept, PlainSteps, StepInv, ZenonT(40)

\* The steps of the tasks that only set flags.
LEMMA TaskInv ==
    ASSUME UartInv, NEW n \in Node,
           bk_mb_uart_dev_init(n) \/ ReadRts(n) \/ bk_mb_uart_get_status(n)
    PROVE  UartInv'
<1>1. "rd" \in Context /\ "wr" \in Context /\ "rd" # "isr" /\ "wr" # "isr" /\ 0 \in Bit /\ 0 \in Nat
  BY DEF Context, Task, Bit
<1>2. TypeOK
  BY DEF UartInv
<1> DEFINE l == [loc EXCEPT ![n]["rd"] = 0]
<1>3. /\ l \in [Node -> [Context -> Nat]]
      /\ \A m \in Node, y \in Context : m # n \/ y # "rd" => l[m][y] = loc[m][y]
  BY <1>1, LocType
<1> HIDE DEF l
<1>4. CASE bk_mb_uart_dev_init(n)
  <2>1. bound.log \in BOOLEAN
    BY UartConstants DEF UartInv, TypeOK
  <2> DEFINE c == [cb[n] EXCEPT !.up = TRUE, !.exc = (n = "AP" /\ bound.log)]
  <2>2. cb' = [cb EXCEPT ![n] = c]
    BY <1>4, Zenon DEF bk_mb_uart_dev_init
  <2>3. c \in Cb
    BY <2>1, Kept, ZenonT(40) DEF Cb
  <2>4. cb' \in [Node -> Cb]
    BY <2>2, <2>3, Kept
  <2> QED
    BY <1>1, <1>4, <2>4, Kept, PlainSteps, StepInv, ZenonT(40) DEF bk_mb_uart_dev_init
<1>5. CASE ReadRts(n)
  <2>1. [cb EXCEPT ![n].rts = 0] \in [Node -> Cb]
    BY <1>1, <1>2, CbType, Zenon
  <2>2. cb' \in [Node -> Cb]
    BY <1>5, <2>1, Kept DEF ReadRts
  <2>3. /\ loc' \in [Node -> [Context -> Nat]]
        /\ \A m \in Node, y \in Context : m # n \/ y # "rd" => loc'[m][y] = loc[m][y]
    <3>1. loc' = l
      BY <1>5 DEF ReadRts, l
    <3> QED
      BY <1>3, <3>1, Zenon
  <2>4. Goto(n, "rd", "req") \/ Goto(n, "rd", "idle")
    BY <1>5 DEF ReadRts
  <2>5. UNCHANGED <<tx, rx, xchg, link, rsp, out, bound, written, got, raced>>
    BY <1>5 DEF ReadRts
  <2> QED
    BY <1>1, <2>2, <2>3, <2>4, <2>5, Kept, PlainSteps, StepInv, Zenon
<1>6. CASE bk_mb_uart_get_status(n)
  <2>1. loc[n]["rd"] \in Bit
    BY <1>1, <1>6 DEF bk_mb_uart_get_status, At, UartInv, LocalsFit, LocalFits
  <2> DEFINE c == [cb[n] EXCEPT !.ovf = 0, !.cts = loc[n]["rd"]]
  <2>2. cb' = [cb EXCEPT ![n] = c]
    BY <1>6, Kept, Zenon DEF bk_mb_uart_get_status
  <2>3. c \in Cb
    BY <1>1, <2>1, Kept, ZenonT(40) DEF Cb
  <2>4. cb' \in [Node -> Cb]
    BY <2>2, <2>3, Kept
  <2>5. /\ loc' \in [Node -> [Context -> Nat]]
        /\ \A m \in Node, y \in Context : m # n \/ y # "rd" => loc'[m][y] = loc[m][y]
    <3>1. loc' = l
      BY <1>6 DEF bk_mb_uart_get_status, l
    <3> QED
      BY <1>3, <3>1, Zenon
  <2>6. raced' \in Seq(Node \X Window) /\ Len(raced') <= bound.races
    BY <1>2, <1>6, MeetsType DEF Window, bk_mb_uart_get_status
  <2>7. /\ Goto(n, "rd", "idle")
        /\ UNCHANGED <<tx, rx, xchg, link, rsp, out, bound, written, got>>
    BY <1>6 DEF bk_mb_uart_get_status
  <2> QED
    BY <1>1, <2>4, <2>5, <2>6, <2>7, Kept, PlainSteps, StepInv, Zenon
<1> QED
  BY <1>4, <1>5, <1>6
\* The receive ring of node m has not lost bytes, or it begins at index 0 as before.
RxKept(m) ==
    /\ rx'[m].rd = rx[m].rd
    /\ rx[m].rd = 0 \/ Used(rx[m], RxSize) <= Used(rx'[m], RxSize)

\* The receive rings that a step leaves alone.
LEMMA RxSame ==
    ASSUME UartInv, NEW m \in Node, rx'[m] = rx[m]
    PROVE  RxKept(m)
<1>1. rx[m] \in Ring(RxSize)
  BY DEF UartInv, TypeOK
<1>2. Used(rx[m], RxSize) \in 0..RxSize-1
  BY <1>1, Sizes, UsedRange, Zenon
<1>3. Used(rx[m], RxSize) <= Used(rx[m], RxSize)
  BY <1>2, Sizes
<1> QED
  BY <1>3, Zenon DEF RxKept

\* A step of a context leaves the local variables of the other contexts alone.
LEMMA LocalsStep ==
    ASSUME UartInv, NEW n \in Node, NEW x \in Context, NEW step \in PC, Goto(n, x, step),
           \A m \in Node, y \in Context :
               m # n \/ y # x => loc'[m][y] = loc[m][y] /\ out'[m][y] = out[m][y],
           rx' \in [Node -> Ring(RxSize)],
           \A m \in Node : (m = n /\ x = "rd") \/ RxKept(m),
           LocalFits(n, x)'
    PROVE  LocalsFit'
<1> SUFFICES ASSUME NEW m \in Node, NEW y \in Context, m # n \/ y # x
             PROVE  LocalFits(m, y)'
  BY SMTT(40) DEF LocalsFit
<1>1. pc'[m][y] = pc[m][y] /\ loc'[m][y] = loc[m][y] /\ out'[m][y] = out[m][y]
  BY GotoStep, SMTT(40) DEF UartInv
<1>2. LocalFits(m, y) /\ loc[m][y] \in Nat
  BY SMTT(40) DEF UartInv, LocalsFit, TypeOK
<1>3. ASSUME y = "rd", pc[m][y] = "copy"
      PROVE  loc[m][y] <= Used(rx'[m], RxSize) \/ rx'[m].rd = 0
  <2>1. RxKept(m) /\ (loc[m][y] <= Used(rx[m], RxSize) \/ rx[m].rd = 0)
    BY <1>2, <1>3, Zenon DEF LocalFits
  <2>2. rx[m] \in Ring(RxSize) /\ rx'[m] \in Ring(RxSize)
    BY Zenon DEF UartInv, TypeOK
  <2>3. Used(rx[m], RxSize) \in 0..RxSize-1 /\ Used(rx'[m], RxSize) \in 0..RxSize-1
    BY <2>2, Sizes, UsedRange, ZenonT(40)
  <2> DEFINE u == Used(rx[m], RxSize)
             v == Used(rx'[m], RxSize)
  <2> HIDE DEF u, v
  <2>4. u \in Int /\ v \in Int
    <3>1. \A k \in 0..RxSize-1 : k \in Int
      OBVIOUS
    <3> QED
      BY <2>3, <3>1, Zenon DEF u, v
  <2> QED
    BY <1>2, <2>1, <2>4 DEF RxKept, u, v
<1> QED
  BY <1>1, <1>2, <1>3, Zenon DEF LocalFits

\* A step of a context after which the handler it belongs to still has its message.
LEMMA MessageStep ==
    ASSUME UartInv, NEW n \in Node, NEW x \in Context, NEW step \in PC, Goto(n, x, step),
           x = "isr" /\ step # "idle" => wire'[n] # <<>>,
           \A m \in Node : (m = n /\ x = "isr") \/ (wire[m] # <<>> => wire'[m] # <<>>)
    PROVE  HasMessage'
<1> SUFFICES ASSUME NEW m \in Node, pc'[m]["isr"] # "idle"
             PROVE  wire'[m] # <<>>
  BY DEF HasMessage
<1>1. "isr" \in Context
  BY DEF Context
<1>2. CASE m = n /\ x = "isr"
  BY <1>2, GotoStep DEF UartInv
<1>3. CASE ~(m = n /\ x = "isr")
  <2>1. pc[m]["isr"] # "idle"
    <3>1. m # n \/ "isr" # x
      BY <1>3
    <3>2. \A k \in Node, y \in Context : k # n \/ y # x => pc'[k][y] = pc[k][y]
      BY GotoStep, Zenon DEF UartInv
    <3> QED
      BY <1>1, <3>1, <3>2, Zenon
  <2> QED
    BY <1>3, <2>1, Zenon DEF UartInv, HasMessage
<1> QED
  BY <1>2, <1>3

\* The reading task looks at the ring, or at the status.
LEMMA LookInv ==
    ASSUME UartInv, NEW n \in Node, ReadCount(n) \/ StatusRead(n)
    PROVE  UartInv'
<1>1. "rd" \in Context /\ "rd" # "isr" /\ "copy" \in PC /\ "status" \in PC
  BY DEF Context, Task, PC
<1>2. cb[n].cts \in Bit /\ cb[n].cts \in Nat
  BY Kept DEF Cb, Bit
<1>3. Used(rx[n], RxSize) \in 0..RxSize-1 /\ rx \in [Node -> Ring(RxSize)]
  <2>1. rx[n] \in Ring(RxSize) /\ rx \in [Node -> Ring(RxSize)]
    BY DEF UartInv, TypeOK
  <2> QED
    BY <2>1, Sizes, UsedRange, Zenon
<1> DEFINE v == IF ReadCount(n) THEN Used(rx[n], RxSize) ELSE cb[n].cts
           step == IF ReadCount(n) THEN "copy" ELSE "status"
           l == [loc EXCEPT ![n]["rd"] = v]
<1>4. v \in Nat /\ step \in PC
  BY <1>1, <1>2, <1>3, Sizes, SMTT(40)
<1>5. loc' = l /\ Goto(n, "rd", step)
  BY DEF ReadCount, StatusRead
<1>6. UNCHANGED <<cb, tx, rx, xchg, link, rsp, out, bound, written, got, raced>>
  BY DEF ReadCount, StatusRead
<1>7. step = "copy" => v <= RxSize - 1 /\ v <= Used(rx[n], RxSize)
  BY <1>3, Sizes
<1>8. step = "status" => v \in Bit
  BY <1>2
<1>9. step \in {"copy", "status"}
  OBVIOUS
<1> HIDE DEF v, step
<1>10. /\ l \in [Node -> [Context -> Nat]] /\ l[n]["rd"] = v
       /\ \A m \in Node, y \in Context : m # n \/ y # "rd" => l[m][y] = loc[m][y]
  BY <1>1, <1>4, LocType
<1> HIDE DEF l
<1>11. pc' \in [Node -> [Context -> PC]] /\ pc'[n]["rd"] = step
  BY <1>1, <1>4, <1>5, GotoStep, Zenon DEF UartInv
<1>12. TypeOK'
  BY <1>5, <1>6, <1>10, <1>11, Zenon DEF UartInv, TypeOK, link
<1>13. PacketsFit'
  BY <1>6 DEF UartInv, PacketsFit, link
<1>14. HasMessage'
  BY <1>1, <1>4, <1>5, <1>6, MessageStep, Zenon DEF link
<1>15. LocalFits(n, "rd")'
  BY <1>5, <1>6, <1>7, <1>8, <1>9, <1>10, <1>11, Zenon DEF LocalFits
<1>16. \A m \in Node : RxKept(m)
  BY <1>6, RxSame
<1>17. LocalsFit'
  BY <1>1, <1>3, <1>4, <1>5, <1>6, <1>10, <1>15, <1>16, LocalsStep, Zenon
<1> QED
  BY <1>12, <1>13, <1>14, <1>17 DEF UartInv
\* The receive ring keeps its type when a packet is stored for which there is room, the
\* packet that fills the ring to the last byte included.
LEMMA RxPutType ==
    ASSUME NEW r \in Ring(RxSize), NEW data \in Seq(Nat), Len(data) <= Free(r, RxSize)
    PROVE  /\ RxPut(r, data) \in Ring(RxSize) /\ RxPut(r, data).rd = r.rd
           /\ r.rd = 0 \/ Used(r, RxSize) <= Used(RxPut(r, data), RxSize)
<1>1. RxPut(r, data).rd = r.rd
  BY DEF RxPut
<1>2. Used(r, RxSize) \in 0..RxSize-1 /\ r.rd \in 0..RxSize-1 /\ r.wr \in 0..RxSize-1
  BY Sizes, UsedRange, Zenon
<1>3. CASE r.rd # 0 \/ Len(data) < Free(r, RxSize)
  <2>1. /\ RxPut(r, data) \in Ring(RxSize)
        /\ Used(RxPut(r, data), RxSize) = Used(r, RxSize) + Len(data)
    BY <1>3, RxPutQueue
  <2> DEFINE u == Used(r, RxSize)
             v == Used(RxPut(r, data), RxSize)
  <2>2. u \in Nat /\ v = u + Len(data) /\ Len(data) \in Nat
    BY <1>2, <2>1, Sizes
  <2> HIDE DEF u, v
  <2>3. u <= v
    BY <2>2
  <2> QED
    BY <1>1, <2>1, <2>3 DEF u, v
<1>4. CASE r.rd = 0 /\ Len(data) = Free(r, RxSize)
  <2> DEFINE q == (r.wr + Len(data)) % RxSize
             s == [buf |-> Filled(r, RxSize, data), rd |-> r.rd, wr |-> q]
  <2>1. s \in Ring(RxSize)
    BY Sizes, Appended, Zenon
  <2>2. s.buf = Filled(r, RxSize, data)
    OBVIOUS
  <2>3. Filled(r, RxSize, data) \in [0..RxSize-1 -> Nat]
    BY <2>1, <2>2, Sizes, UsedRange, Zenon
  <2>4. Used(r, RxSize) = r.wr
    <3>1. r.wr >= r.rd => Used(r, RxSize) = r.wr - r.rd
      BY Sizes, UsedRange, Zenon
    <3> QED
      BY <1>2, <1>4, <3>1, Sizes
  <2>5. Len(data) = RxSize - r.wr - 1
    BY <1>4, <2>4 DEF Free
  <2>6. RxPut(r, data).wr = 0 /\ RxPut(r, data).buf = Filled(r, RxSize, data)
    BY <1>2, <1>4, <2>5, Sizes, SMTT(40) DEF RxPut
  <2>7. RxPut(r, data) = [buf |-> Filled(r, RxSize, data), rd |-> r.rd, wr |-> 0]
    BY <1>1, <2>6, Zenon DEF RxPut
  <2>8. 0 \in 0..RxSize-1
    BY Sizes
  <2>9. [buf |-> Filled(r, RxSize, data), rd |-> r.rd, wr |-> 0] \in Ring(RxSize)
    BY <1>2, <2>3, <2>8, Zenon DEF Ring
  <2> QED
    BY <1>1, <1>4, <2>7, <2>9
<1>5. Len(data) \in Nat /\ Free(r, RxSize) \in Int
  BY <1>2, Sizes DEF Free
<1> QED
  BY <1>3, <1>4, <1>5

\* The receive ring keeps its type when bytes are taken out.
LEMMA RxDropType ==
    ASSUME NEW r \in Ring(RxSize), NEW len \in Nat, len <= RxSize - 1,
           len <= Used(r, RxSize) \/ r.rd = 0
    PROVE  RxDrop(r, len) \in Ring(RxSize)
<1>1. CASE len <= Used(r, RxSize)
  <2>1. Used(r, RxSize) \in 0..RxSize-1
    BY Sizes, UsedRange, Zenon
  <2>2. len \in 0..Used(r, RxSize)
    BY <1>1, <2>1, Sizes
  <2> QED
    BY <2>2, RxDropQueue, Zenon
<1>2. CASE r.rd = 0
  <2>1. r.rd \in 0..RxSize-1 /\ r.wr \in 0..RxSize-1 /\ r.buf \in [0..RxSize-1 -> Nat]
    BY Sizes, UsedRange, Zenon
  <2>2. len \in 0..RxSize-1 /\ r.rd + len = len /\ RxSize - r.rd > len
    BY <1>2, Sizes
  <2>3. RxDrop(r, len) = [buf |-> r.buf, wr |-> r.wr, rd |-> len]
    BY <2>2, Zenon DEF RxDrop
  <2>4. [buf |-> r.buf, wr |-> r.wr, rd |-> len] \in Ring(RxSize)
    BY <2>1, <2>2, Zenon DEF Ring
  <2> QED
    BY <2>3, <2>4, Zenon
<1> QED
  BY <1>1, <1>2

\* mb_uart_read_data takes bytes out of the ring.
LEMMA ReadDataInv ==
    ASSUME UartInv, NEW n \in Node, NEW buf_len \in bound.read, mb_uart_read_data(n, buf_len)
    PROVE  UartInv'
<1> DEFINE len == Min2(buf_len, loc[n]["rd"])
           v == loc[n]["rd"] - len
           l == [loc EXCEPT ![n]["rd"] = v]
           rest == RxDrop(rx[n], len)
           taken == Held(rx[n], RxSize, len)
<1>1. "rd" \in Context /\ "rd" # "isr" /\ "rts" \in PC
  BY SMTT(40) DEF Context, Task, PC
<1>2. /\ loc[n]["rd"] \in Nat /\ rx[n] \in Ring(RxSize) /\ buf_len \in Nat
      /\ rx \in [Node -> Ring(RxSize)] /\ got \in [Node -> Seq(Nat)]
  BY <1>1, UartConstants DEF UartInv, TypeOK
<1>3. /\ loc[n]["rd"] <= RxSize - 1
      /\ loc[n]["rd"] <= Used(rx[n], RxSize) \/ rx[n].rd = 0
  BY <1>1, Zenon DEF mb_uart_read_data, At, UartInv, LocalsFit, LocalFits
<1>4. Used(rx[n], RxSize) \in 0..RxSize-1
  BY <1>2, Sizes, UsedRange, Zenon
<1>5. len \in Nat /\ len <= RxSize - 1 /\ (len <= Used(rx[n], RxSize) \/ rx[n].rd = 0) /\ v \in Nat
  BY <1>2, <1>3, <1>4, Sizes, SMTT(40) DEF Min2
<1>6. /\ rx' = [rx EXCEPT ![n] = rest] /\ got' = [got EXCEPT ![n] = got[n] \o taken]
      /\ loc' = l /\ Goto(n, "rd", "rts") /\ Meets(n, pc[n]["isr"] = "flow", "read")
      /\ UNCHANGED <<cb, tx, xchg, link, rsp, out, bound, written>>
  BY Zenon DEF mb_uart_read_data
<1> HIDE DEF len, v
<1>7. rest \in Ring(RxSize)
  BY <1>2, <1>5, RxDropType, Zenon
<1>8. taken \in Seq(Nat)
  BY <1>2, <1>5, Sizes, QueueType, Zenon
<1>9. /\ l \in [Node -> [Context -> Nat]]
      /\ \A m \in Node, y \in Context : m # n \/ y # "rd" => l[m][y] = loc[m][y]
  BY <1>1, <1>5, LocType
<1> HIDE DEF l, rest, taken
<1>10. /\ rx' \in [Node -> Ring(RxSize)]
       /\ \A m \in Node : m # n => rx'[m] = rx[m]
  BY <1>2, <1>6, <1>7, Zenon
<1>11. got[n] \o taken \in Seq(Nat)
  BY <1>2, <1>8, SMTT(40)
<1>12. got' \in [Node -> Seq(Nat)]
  BY <1>2, <1>6, <1>11, SMTT(40)
<1>13. raced' \in Seq(Node \X Window) /\ Len(raced') <= bound.races
  BY <1>6, MeetsType DEF Window, UartInv
<1>14. pc' \in [Node -> [Context -> PC]] /\ pc'[n]["rd"] = "rts"
  BY <1>1, <1>6, GotoStep, Zenon DEF UartInv
<1>15. TypeOK'
  BY <1>6, <1>9, <1>10, <1>12, <1>13, <1>14, ZenonT(40) DEF UartInv, TypeOK, link
<1>16. PacketsFit'
  BY <1>6 DEF UartInv, PacketsFit, link
<1>17. HasMessage'
  BY <1>1, <1>6, MessageStep, Zenon DEF link
<1>18. LocalFits(n, "rd")'
  BY <1>14, Zenon DEF LocalFits
<1>19. \A m \in Node : m # n => RxKept(m)
  BY <1>10, RxSame, Zenon
<1>20. LocalsFit'
  BY <1>1, <1>6, <1>9, <1>10, <1>18, <1>19, LocalsStep, ZenonT(40)
<1> QED
  BY <1>15, <1>16, <1>17, <1>20 DEF UartInv
\* rx_isr_data_handler stores a packet.
LEMMA DataHandlerInv ==
    ASSUME UartInv, NEW n \in Node, rx_isr_data_handler(n)
    PROVE  UartInv'
<1> DEFINE len == Got(n).pkt.len
           free == Free(rx[n], RxSize)
           fits == len <= free
           data == SubSeq(xchg[Peer(n)], 1, len)
           put == RxPut(rx[n], data)
           v == IF fits THEN free - len ELSE free
           l == [loc EXCEPT ![n]["isr"] = v]
           c == [cb[n] EXCEPT !.ovf = IF fits THEN cb[n].ovf ELSE 1, !.req = 0]
<1>1. "isr" \in Context /\ "isr" # "rd" /\ "flow" \in PC /\ Peer(n) \in Node
  BY Peers DEF Context, PC
<1>2. wire[n] # <<>>
  BY SMTT(40) DEF rx_isr_data_handler
<1>3. rx[n] \in Ring(RxSize) /\ rx \in [Node -> Ring(RxSize)] /\ xchg[Peer(n)] \in Seq(Nat)
  BY <1>1, SMTT(40) DEF UartInv, TypeOK
<1>4. len \in Nat /\ len <= Len(xchg[Peer(n)])
  <2>1. Got(n).pkt \in Packet /\ len <= Len(xchg[Peer(n)])
    BY <1>2, GotType, Zenon DEF UartInv
  <2> QED
    BY <2>1, UartConstants DEF Packet
<1>5. free \in Nat
  <2>1. Used(rx[n], RxSize) \in 0..RxSize-1
    BY <1>3, Sizes, UsedRange, Zenon
  <2> QED
    BY <2>1, Sizes DEF Free
<1>6. /\ rx' = IF fits THEN [rx EXCEPT ![n] = put] ELSE rx
      /\ cb' = [cb EXCEPT ![n] = c] /\ loc' = l
      /\ rsp' = [rsp EXCEPT ![n].fail = IF fits THEN 0 ELSE 1]
      /\ Goto(n, "isr", "flow") /\ Meets(n, pc[n]["rd"] \in {"copy", "rts"}, "read")
      /\ UNCHANGED <<tx, xchg, link, out, bound, written, got>>
  BY Zenon DEF rx_isr_data_handler
<1>7. data \in Seq(Nat) /\ Len(data) = len
  BY <1>3, <1>4
<1>8. fits => /\ put \in Ring(RxSize) /\ put.rd = rx[n].rd
              /\ rx[n].rd = 0 \/ Used(rx[n], RxSize) <= Used(put, RxSize)
  BY <1>3, <1>7, RxPutType, Zenon
<1>9. v \in Nat
  BY <1>4, <1>5
<1>10. c \in Cb
  <2>1. cb[n] \in Cb
    BY Kept
  <2>2. (IF fits THEN cb[n].ovf ELSE 1) \in Bit /\ 0 \in Bit
    BY <2>1 DEF Cb, Bit
  <2> HIDE DEF fits
  <2> QED
    BY <2>1, <2>2, Zenon DEF Cb
<1>11. rsp' \in [Node -> Response]
  BY <1>6, Kept, Zenon DEF Response, Bit
<1> HIDE DEF len, free, fits, data, put, v, c
<1>12. /\ l \in [Node -> [Context -> Nat]]
       /\ \A m \in Node, y \in Context : m # n \/ y # "isr" => l[m][y] = loc[m][y]
  BY <1>1, <1>9, LocType
<1> HIDE DEF l
<1>13. /\ rx' \in [Node -> Ring(RxSize)]
       /\ \A m \in Node : m # n => rx'[m] = rx[m]
       /\ rx'[n] = rx[n] \/ (fits /\ rx'[n] = put)
  BY <1>3, <1>6, <1>8
<1>14. cb' \in [Node -> Cb]
  BY <1>6, <1>10, Kept
<1>15. raced' \in Seq(Node \X Window) /\ Len(raced') <= bound.races
  BY <1>6, MeetsType DEF Window, UartInv
<1>16. pc' \in [Node -> [Context -> PC]] /\ pc'[n]["isr"] = "flow"
  BY <1>1, <1>6, GotoStep, Zenon DEF UartInv
<1>17. TypeOK'
  BY <1>6, <1>11, <1>12, <1>13, <1>14, <1>15, <1>16, Zenon DEF UartInv, TypeOK, link
<1>18. PacketsFit'
  BY <1>6 DEF UartInv, PacketsFit, link
<1>19. HasMessage'
  BY <1>1, <1>2, <1>6, MessageStep, Zenon DEF link
<1>20. LocalFits(n, "isr")'
  BY <1>1, <1>16 DEF LocalFits
<1>21. \A m \in Node : RxKept(m)
  <2>1. \A m \in Node : rx'[m] = rx[m] => RxKept(m)
    BY RxSame, Zenon
  <2>2. fits /\ rx'[n] = put => RxKept(n)
    BY <1>8, Zenon DEF RxKept
  <2> QED
    BY <1>13, <2>1, <2>2, Zenon
<1>22. LocalsFit'
  <2>1. \A m \in Node, y \in Context :
            m # n \/ y # "isr" => loc'[m][y] = loc[m][y] /\ out'[m][y] = out[m][y]
    BY <1>6, <1>12, ZenonT(40)
  <2> QED
    BY <1>1, <1>6, <1>13, <1>20, <1>21, <2>1, LocalsStep, Zenon
<1> QED
  BY <1>17, <1>18, <1>19, <1>22 DEF UartInv
\* The packet that a context is about to hand to the mailbox is replaced.
LEMMA OutType ==
    ASSUME UartInv, NEW n \in Node, NEW x \in Context, NEW p \in Packet
    PROVE  LET o == [out EXCEPT ![n][x] = p]
           IN  /\ o \in [Node -> [Context -> Packet]] /\ o[n][x] = p
               /\ \A m \in Node, y \in Context : m # n \/ y # x => o[m][y] = out[m][y]
  BY DEF UartInv, TypeOK

\* The shared buffer only grows, and holds what was copied.
LEMMA OverlayLength ==
    ASSUME NEW buf \in Seq(Nat), NEW data \in Seq(Nat)
    PROVE  /\ Overlay(buf, data) \in Seq(Nat)
           /\ Len(Overlay(buf, data)) >= Len(buf) /\ Len(Overlay(buf, data)) >= Len(data)
<1> DEFINE rest == SubSeq(buf, Len(data) + 1, Len(buf))
<1>1. /\ rest \in Seq(Nat)
      /\ Len(rest) = IF Len(data) + 1 <= Len(buf) THEN Len(buf) - Len(data) ELSE 0
  OBVIOUS
<1> HIDE DEF rest
<1>2. data \o rest \in Seq(Nat) /\ Len(data \o rest) = Len(data) + Len(rest)
  BY <1>1, ConcatProperties, Zenon
<1> QED
  BY <1>1, <1>2 DEF Overlay, rest

\* mb_uart_send_data puts a packet together.
LEMMA SendDataInv ==
    ASSUME UartInv, NEW n \in Node, NEW x \in Context, mb_uart_send_data(n, x)
    PROVE  UartInv'
<1> DEFINE len == Used(tx[n], TxSize)
           p == [cmd |-> "data", len |-> len, rts |-> cb[n].rts]
           b == Overlay(xchg[n], Queue(tx[n], TxSize))
           v == (tx[n].rd + len) % TxSize
           l == [loc EXCEPT ![n][x] = v]
           o == [out EXCEPT ![n][x] = p]
<1>1. x = "isr" => wire[n] # <<>>
  BY AtWork DEF mb_uart_send_data
<1>2. UNCHANGED <<tx, rx, link, rsp, bound, written, got>>
  BY DEF mb_uart_send_data
<1>3. CASE Goto(n, x, Failed(n, x)) /\ UNCHANGED <<cb, xchg, loc, out, raced>>
  <2>1. Goto(n, x, "fail") \/ Goto(n, x, "clear")
    BY <1>3 DEF Failed
  <2> QED
    BY <1>1, <1>2, <1>3, <2>1, Kept, PlainSteps, StepInv, Zenon
<1>4. CASE /\ xchg' = [xchg EXCEPT ![n] = b] /\ cb' = [cb EXCEPT ![n].cmd = "data"]
           /\ out' = o /\ loc' = l /\ Goto(n, x, "post")
           /\ Meets(n, SomeAt(n, {"sent"}), "sent")
  <2>1. /\ tx[n] \in Ring(TxSize) /\ xchg[n] \in Seq(Nat) /\ cb[n].rts \in Bit /\ "post" \in PC
        /\ rx \in [Node -> Ring(RxSize)] /\ xchg \in [Node -> Seq(Nat)]
    BY Kept, Zenon DEF UartInv, TypeOK, Cb, PC
  <2>2. len \in 0..TxSize-1 /\ tx[n].rd \in 0..TxSize-1
    BY <2>1, Sizes, UsedRange, Zenon
  <2>3. len \in Nat /\ len \in 0..Fifo
    BY <2>2, UartConstants DEF TxSize
  <2>4. Queue(tx[n], TxSize) \in Seq(Nat) /\ Len(Queue(tx[n], TxSize)) = len
    BY <2>1, <2>3, Sizes, QueueType, Zenon DEF Queue
  <2>5. b \in Seq(Nat) /\ Len(b) >= Len(xchg[n]) /\ Len(b) >= len
    BY <2>1, <2>4, OverlayLength, Zenon
  <2>6. v \in 0..TxSize-1
    BY <2>2, Sizes, ModPlus, Zenon
  <2>7. v \in Nat
    BY <2>6, SMTT(40)
  <2>8. p \in Packet /\ p.len = len
    BY <2>1, <2>3, SMTT(40) DEF Packet
  <2> HIDE DEF len, p, b, v
  <2>9. /\ l \in [Node -> [Context -> Nat]] /\ l[n][x] = v
        /\ \A m \in Node, y \in Context : m # n \/ y # x => l[m][y] = loc[m][y]
    BY <2>7, LocType
  <2>10. /\ o \in [Node -> [Context -> Packet]] /\ o[n][x] = p
         /\ \A m \in Node, y \in Context : m # n \/ y # x => o[m][y] = out[m][y]
    BY <2>8, OutType
  <2> HIDE DEF l, o
  <2>11. cb' \in [Node -> Cb]
    BY <1>4, Kept, ZenonT(40) DEF Cb
  <2>12. raced' \in Seq(Node \X Window) /\ Len(raced') <= bound.races
    BY <1>4, MeetsType DEF Window, UartInv
  <2>13. pc' \in [Node -> [Context -> PC]] /\ pc'[n][x] = "post"
    BY <1>4, <2>1, GotoStep, Zenon DEF UartInv
  <2>14. /\ xchg' \in [Node -> Seq(Nat)] /\ xchg'[n] = b
         /\ \A m \in Node : m # n => xchg'[m] = xchg[m]
    BY <1>4, <2>1, <2>5
  <2>15. TypeOK'
    BY <1>2, <1>4, <2>9, <2>10, <2>11, <2>12, <2>13, <2>14, Zenon DEF UartInv, TypeOK, link
  <2>16. \A m \in Node : Len(xchg'[m]) >= Len(xchg[m]) /\ Len(xchg'[m]) \in Nat /\ Len(xchg[m]) \in Nat
    <3> SUFFICES ASSUME NEW m \in Node
                 PROVE  Len(xchg'[m]) >= Len(xchg[m]) /\ Len(xchg'[m]) \in Nat /\ Len(xchg[m]) \in Nat
      OBVIOUS
    <3>1. Len(xchg'[m]) \in Nat /\ Len(xchg[m]) \in Nat
      BY <2>1, <2>14
    <3>2. CASE m = n
      BY <2>5, <2>14, <3>1, <3>2
    <3>3. CASE m # n
      BY <2>14, <3>1, <3>3, SMTT(40)
    <3> QED
      BY <3>1, <3>2, <3>3
  <2>17. PacketsFit'
    <3> SUFFICES ASSUME NEW m \in Node
                 PROVE  /\ pend[m].len <= Len(xchg'[m])
                        /\ \A y \in Context : out'[m][y].len <= Len(xchg'[m])
                        /\ \A i \in DOMAIN wire[Peer(m)] : wire[Peer(m)][i].pkt.len <= Len(xchg'[m])
      BY <1>2 DEF PacketsFit, link
    <3>1. /\ pend[m].len \in Int /\ pend[m].len <= Len(xchg[m])
      BY Lengths, Zenon DEF UartInv, PacketsFit
    <3>2. \A i \in DOMAIN wire[Peer(m)] : wire[Peer(m)][i].pkt.len \in Int
                                          /\ wire[Peer(m)][i].pkt.len <= Len(xchg[m])
      <4>1. wire[Peer(m)] \in Seq(Msg)
        BY Peers, SMTT(40) DEF UartInv, TypeOK
      <4>2. \A q \in Msg : q.pkt.len \in Int
        BY UartConstants DEF Msg, Packet
      <4> QED
        BY <4>1, <4>2, SMTT(40) DEF UartInv, PacketsFit
    <3>3. \A y \in Context : out[m][y].len \in Int /\ out[m][y].len <= Len(xchg[m])
      BY Lengths, Zenon DEF UartInv, PacketsFit
    <3>4. out'[n][x].len <= Len(xchg'[n])
      BY <1>4, <2>5, <2>8, <2>10, <2>14, SMTT(40)
    <3>5. \A y \in Context : out'[m][y].len <= Len(xchg'[m])
      BY <1>4, <2>10, <2>16, <3>3, <3>4
    <3> QED
      BY <2>16, <3>1, <3>2, <3>5, SMTT(40)
  <2>18. HasMessage'
    BY <1>1, <1>2, <1>4, <2>1, MessageStep, Zenon DEF link
  <2>19. LocalFits(n, x)'
    BY <1>4, <2>6, <2>9, <2>13, Zenon DEF LocalFits
  <2>20. \A m \in Node : RxKept(m)
    BY <1>2, RxSame
  <2>21. \A m \in Node, y \in Context :
             m # n \/ y # x => loc'[m][y] = loc[m][y] /\ out'[m][y] = out[m][y]
    BY <1>4, <2>9, <2>10, Zenon
  <2>22. LocalsFit'
    BY <1>2, <1>4, <2>1, <2>19, <2>20, <2>21, LocalsStep, Zenon
  <2> QED
    BY <2>15, <2>17, <2>18, <2>22, SMTT(40) DEF UartInv
<1> QED
  BY <1>3, <1>4, Zenon DEF mb_uart_send_data
\* mb_uart_send_state puts a packet without data together.
LEMMA SendStateInv ==
    ASSUME UartInv, NEW n \in Node, NEW x \in Context, mb_uart_send_state(n, x)
    PROVE  UartInv'
<1> DEFINE p == [cmd |-> "state", len |-> 0, rts |-> cb[n].rts]
           o == [out EXCEPT ![n][x] = p]
<1>1. x = "isr" => wire[n] # <<>>
  BY AtWork DEF mb_uart_send_state
<1>2. /\ cb' = [cb EXCEPT ![n].cmd = "state"] /\ out' = o /\ Goto(n, x, "post")
      /\ UNCHANGED <<tx, rx, xchg, link, loc, rsp, bound, written, got, raced>>
  BY DEF mb_uart_send_state
<1>3. cb[n].rts \in Bit /\ "post" \in PC /\ rx \in [Node -> Ring(RxSize)]
  BY Kept, Zenon DEF UartInv, TypeOK, Cb, PC
<1>4. p \in Packet /\ p.len = 0 /\ p.cmd # "data"
  BY <1>3, UartConstants DEF Packet
<1> HIDE DEF p
<1>5. /\ o \in [Node -> [Context -> Packet]] /\ o[n][x] = p
      /\ \A m \in Node, y \in Context : m # n \/ y # x => o[m][y] = out[m][y]
  BY <1>4, OutType
<1> HIDE DEF o
<1>6. cb' \in [Node -> Cb]
  BY <1>2, Kept, ZenonT(40) DEF Cb
<1>7. pc' \in [Node -> [Context -> PC]] /\ pc'[n][x] = "post"
  BY <1>2, <1>3, GotoStep, Zenon DEF UartInv
<1>8. TypeOK'
  BY <1>2, <1>5, <1>6, <1>7, Zenon DEF UartInv, TypeOK, link
<1>9. PacketsFit'
  <2>1. Len(xchg[n]) \in Nat
    BY Lengths, Zenon
  <2>2. out'[n][x].len <= Len(xchg[n])
    BY <1>2, <1>4, <1>5, <2>1
  <2>3. \A m \in Node, y \in Context : out'[m][y].len <= Len(xchg[m])
    BY <1>2, <1>5, <2>2, Zenon DEF UartInv, PacketsFit
  <2> QED
    BY <1>2, <2>3 DEF UartInv, PacketsFit, link
<1>10. HasMessage'
  BY <1>1, <1>2, <1>3, MessageStep, Zenon DEF link
<1>11. LocalFits(n, x)'
  BY <1>2, <1>4, <1>5, <1>7, Zenon DEF LocalFits
<1>12. \A m \in Node : RxKept(m)
  BY <1>2, RxSame
<1>13. \A m \in Node, y \in Context :
           m # n \/ y # x => loc'[m][y] = loc[m][y] /\ out'[m][y] = out[m][y]
  BY <1>2, <1>5, Zenon
<1>14. LocalsFit'
  BY <1>2, <1>3, <1>11, <1>12, <1>13, LocalsStep, Zenon
<1> QED
  BY <1>8, <1>9, <1>10, <1>14 DEF UartInv

\* A packet is handed to the mailbox.
LEMMA PostInv ==
    ASSUME UartInv, NEW n \in Node, NEW x \in Context, Post(n, x)
    PROVE  UartInv'
<1> DEFINE p == out[n][x]
           data == p.cmd = "data"
           v == IF Accepts(n) THEN loc[n][x] ELSE 0
           l == [loc EXCEPT ![n][x] = v]
           o == [out EXCEPT ![n][x] = NoPacket]
           step == IF Accepts(n)
                   THEN IF data THEN "sent" ELSE IF x = "isr" THEN "told" ELSE "idle"
                   ELSE IF data THEN Failed(n, x) ELSE "clear"
<1>1. x = "isr" => wire[n] # <<>>
  BY AtWork DEF Post
<1>2. /\ mb_chnl_write(n, p) /\ out' = o /\ loc' = l /\ Goto(n, x, step) /\ pc[n][x] = "post"
      /\ UNCHANGED <<cb, tx, rx, xchg, rsp, bound, written, got, raced>>
  BY ZenonT(40) DEF Post, At
<1>3. p \in Packet /\ p.len <= Len(xchg[n]) /\ loc[n][x] \in Nat /\ rx \in [Node -> Ring(RxSize)]
  BY SMTT(40) DEF UartInv, TypeOK, PacketsFit
<1>4. step \in {"sent", "told", "idle", "fail", "clear"} /\ (step = "sent" => Accepts(n) /\ data)
  BY SMTT(40) DEF Failed
<1>5. step \in PC
  BY <1>4 DEF PC
<1>6. data => loc[n][x] \in 0..TxSize-1
  BY <1>2, Zenon DEF UartInv, LocalsFit, LocalFits
<1>7. v \in Nat
  BY <1>3
<1>8. step = "sent" => v \in 0..TxSize-1
  BY <1>4, <1>6, Zenon
<1>9. NoPacket \in Packet /\ NoPacket.len = 0
  BY UartConstants DEF NoPacket, Packet, Bit
<1> HIDE DEF p, data, v, step
<1>10. /\ l \in [Node -> [Context -> Nat]] /\ l[n][x] = v
       /\ \A m \in Node, y \in Context : m # n \/ y # x => l[m][y] = loc[m][y]
  BY <1>7, LocType
<1>11. /\ o \in [Node -> [Context -> Packet]] /\ o[n][x] = NoPacket
       /\ \A m \in Node, y \in Context : m # n \/ y # x => o[m][y] = out[m][y]
  BY <1>9, OutType
<1> HIDE DEF l, o
<1>12. /\ pend' \in [Node -> Packet] /\ phy' \in [Node -> BOOLEAN]
       /\ wire' \in [Node -> Seq(Msg)]
       /\ \A m \in Node : /\ pend'[m].len <= Len(xchg[m])
                          /\ wire[m] # <<>> => wire'[m] # <<>>
                          /\ \A i \in DOMAIN wire'[Peer(m)] :
                                 wire'[Peer(m)][i].pkt.len <= Len(xchg[m])
  BY <1>2, <1>3, WriteInv, Zenon
<1>13. pc' \in [Node -> [Context -> PC]] /\ pc'[n][x] = step
  BY <1>2, <1>5, GotoStep, Zenon DEF UartInv
<1>14. TypeOK'
  BY <1>2, <1>10, <1>11, <1>12, <1>13, Zenon DEF UartInv, TypeOK
<1>15. PacketsFit'
  <2>1. Len(xchg[n]) \in Nat
    BY Lengths, Zenon
  <2>2. out'[n][x].len <= Len(xchg[n])
    BY <1>2, <1>9, <1>11, <2>1
  <2>3. \A m \in Node, y \in Context : out'[m][y].len <= Len(xchg[m])
    BY <1>2, <1>11, <2>2, Zenon DEF UartInv, PacketsFit
  <2> QED
    BY <1>2, <1>12, <2>3, Zenon DEF PacketsFit
<1>16. HasMessage'
  BY <1>1, <1>2, <1>5, <1>12, MessageStep, Zenon
<1>17. LocalFits(n, x)'
  BY <1>2, <1>4, <1>8, <1>10, <1>13, Zenon DEF LocalFits
<1>18. \A m \in Node : RxKept(m)
  BY <1>2, RxSame
<1>19. \A m \in Node, y \in Context :
           m # n \/ y # x => loc'[m][y] = loc[m][y] /\ out'[m][y] = out[m][y]
  BY <1>2, <1>10, <1>11, Zenon
<1>20. LocalsFit'
  BY <1>2, <1>3, <1>5, <1>17, <1>18, <1>19, LocalsStep, Zenon
<1> QED
  BY <1>14, <1>15, <1>16, <1>20, SMTT(40) DEF UartInv
\* The steps of the mailbox itself leave the contexts but the handler alone.
LEMMA LinkInv ==
    ASSUME UartInv, NEW n \in Node,
           pend' \in [Node -> Packet], phy' \in [Node -> BOOLEAN], wire' \in [Node -> Seq(Msg)],
           \A m \in Node : /\ pend'[m].len <= Len(xchg[m])
                           /\ m # n /\ wire[m] # <<>> => wire'[m] # <<>>
                           /\ \A i \in DOMAIN wire'[Peer(m)] :
                                  wire'[Peer(m)][i].pkt.len <= Len(xchg[m]),
           Goto(n, "isr", "idle"),
           raced' \in Seq(Node \X Window), Len(raced') <= bound.races,
           UNCHANGED <<cb, tx, rx, xchg, loc, rsp, out, bound, written, got>>
    PROVE  UartInv'
<1>1. "isr" \in Context /\ "idle" \in PC
  BY DEF Context, PC
<1>2. pc' \in [Node -> [Context -> PC]] /\ pc'[n]["isr"] = "idle"
  BY <1>1, GotoStep, Zenon DEF UartInv
<1>3. TypeOK'
  BY <1>2, Zenon DEF UartInv, TypeOK
<1>4. PacketsFit'
  BY Zenon DEF UartInv, PacketsFit
<1>5. HasMessage'
  BY <1>1, MessageStep, Zenon
<1>6. LocalFits(n, "isr")'
  BY <1>2 DEF LocalFits
<1>7. rx' \in [Node -> Ring(RxSize)] /\ \A m \in Node : RxKept(m)
  BY RxSame, Zenon DEF UartInv, TypeOK
<1>8. LocalsFit'
  BY <1>1, <1>6, <1>7, LocalsStep, Zenon
<1> QED
  BY <1>3, <1>4, <1>5, <1>8, SMTT(40) DEF UartInv

\* The mailbox sends the packet that waits, or an answer.
LEMMA TransferInv ==
    ASSUME UartInv, NEW n \in Node, Transmit(n) \/ SendAck(n) \/ Scan(n)
    PROVE  UartInv'
<1>1. /\ "isr" \in Context /\ "idle" \in PC /\ Peer(n) \in Node /\ Peer(n) # n
      /\ NoPacket \in Packet /\ NoPacket.len = 0
  <2>1. "isr" \in Context /\ "idle" \in PC
    BY DEF Context, PC
  <2>2. NoPacket \in Packet /\ NoPacket.len = 0
    BY UartConstants DEF NoPacket, Packet, Bit
  <2> QED
    BY <2>1, <2>2, Peers, Zenon
<1>2. /\ pend \in [Node -> Packet] /\ phy \in [Node -> BOOLEAN] /\ wire \in [Node -> Seq(Msg)]
      /\ pc \in [Node -> [Context -> PC]] /\ xchg \in [Node -> Seq(Nat)]
  BY Zenon DEF UartInv, TypeOK
<1>3. /\ Cmd(pend[n]) \in Msg /\ Cmd(pend[n]).pkt.len <= Len(xchg[n])
  BY <1>2, SMTT(40) DEF Cmd, Msg, Bit, UartInv, PacketsFit
<1>4. \A m \in Node : /\ Len(xchg[m]) \in Nat /\ pend[m].len <= Len(xchg[m])
                      /\ \A i \in DOMAIN wire[Peer(m)] : wire[Peer(m)][i].pkt.len <= Len(xchg[m])
  BY <1>2, SMTT(40) DEF UartInv, PacketsFit
<1>5. [pend EXCEPT ![n] = NoPacket] \in [Node -> Packet]
      /\ \A m \in Node : [pend EXCEPT ![n] = NoPacket][m].len <= Len(xchg[m])
  BY <1>1, <1>2, <1>4
<1>6. CASE Transmit(n)
  <2>1. pc' = [pc EXCEPT ![n]["isr"] = "idle"]
    BY <1>2, <1>6 DEF Transmit
  <2>2. wire' = [wire EXCEPT ![n] = wire[n], ![Peer(n)] = Append(@, Cmd(pend[n]))]
    BY <1>1, <1>2, <1>6, Zenon DEF Transmit
  <2>3. /\ wire' \in [Node -> Seq(Msg)]
        /\ \A m \in Node : /\ m # n /\ wire[m] # <<>> => wire'[m] # <<>>
                           /\ \A i \in DOMAIN wire'[Peer(m)] :
                                  wire'[Peer(m)][i].pkt.len <= Len(xchg[m])
    BY <1>3, <2>2, WireInv, Zenon
  <2>4. phy' \in [Node -> BOOLEAN]
    BY <1>2, <1>6, SMTT(40) DEF Transmit
  <2>5. /\ pend' = [pend EXCEPT ![n] = NoPacket]
        /\ UNCHANGED <<cb, tx, rx, xchg, loc, out, rsp, bound, written, got, raced>>
    BY <1>6 DEF Transmit
  <2> QED
    BY <1>5, <2>1, <2>3, <2>4, <2>5, Kept, LinkInv, Zenon DEF Goto
<1>7. CASE SendAck(n)
  <2> DEFINE ack == [ack |-> TRUE, fail |-> rsp[n].fail,
                     pkt |-> [cmd |-> Got(n).pkt.cmd, len |-> 0, rts |-> rsp[n].rts]]
  <2>1. wire[n] # <<>>
    BY <1>7 DEF SendAck, At, UartInv, HasMessage
  <2>2. Got(n).pkt \in Packet
    BY <2>1, GotType, Zenon DEF UartInv
  <2>3. ack \in Msg /\ ack.pkt.len <= Len(xchg[n])
    <3>1. rsp[n].fail \in Bit /\ rsp[n].rts \in Bit /\ Got(n).pkt.cmd \in {"data", "state", "none"}
      BY <2>2, Kept, SMTT(40) DEF Response, Packet
    <3>2. [cmd |-> Got(n).pkt.cmd, len |-> 0, rts |-> rsp[n].rts] \in Packet
      BY <3>1, UartConstants, SMTT(40) DEF Packet
    <3>3. ack \in Msg
      BY <3>1, <3>2, SMTT(40) DEF Msg
    <3>4. ack.pkt.len = 0 /\ Len(xchg[n]) \in Nat
      BY Lengths, SMTT(40)
    <3> HIDE DEF ack
    <3> QED
      BY <3>3, <3>4, SMTT(40)
  <2>4. /\ wire' = [wire EXCEPT ![n] = Tail(wire[n]), ![Peer(n)] = Append(@, ack)]
        /\ Goto(n, "isr", "idle") /\ Meets(n, cb[n].up /\ Outdated(n), "answer")
        /\ UNCHANGED <<cb, tx, rx, xchg, pend, phy, loc, rsp, out, bound, written, got>>
    BY <1>7 DEF SendAck
  <2> HIDE DEF ack
  <2>5. /\ wire' \in [Node -> Seq(Msg)]
        /\ \A m \in Node : /\ m # n /\ wire[m] # <<>> => wire'[m] # <<>>
                           /\ \A i \in DOMAIN wire'[Peer(m)] :
                                  wire'[Peer(m)][i].pkt.len <= Len(xchg[m])
    BY <2>1, <2>3, <2>4, WireInv, Zenon
  <2>6. raced' \in Seq(Node \X Window) /\ Len(raced') <= bound.races
    BY <2>4, MeetsType DEF Window, UartInv
  <2> QED
    BY <1>2, <1>4, <2>4, <2>5, <2>6, LinkInv, ZenonT(40)
<1>8. CASE Scan(n)
  <2>1. wire[n] # <<>>
    BY <1>8, Zenon DEF Scan, At, UartInv, HasMessage
  <2>2. /\ Goto(n, "isr", "idle")
        /\ UNCHANGED <<cb, tx, rx, xchg, loc, rsp, out, bound, written, got, raced>>
    BY <1>8 DEF Scan
  <2>3. CASE /\ pend' = [pend EXCEPT ![n] = NoPacket] /\ phy' = phy
             /\ wire' = [wire EXCEPT ![n] = Tail(@), ![Peer(n)] = Append(@, Cmd(pend[n]))]
    <3>1. wire' = [wire EXCEPT ![n] = Tail(wire[n]), ![Peer(n)] = Append(@, Cmd(pend[n]))]
      BY <2>3
    <3>2. /\ wire' \in [Node -> Seq(Msg)]
          /\ \A m \in Node : /\ m # n /\ wire[m] # <<>> => wire'[m] # <<>>
                             /\ \A i \in DOMAIN wire'[Peer(m)] :
                                    wire'[Peer(m)][i].pkt.len <= Len(xchg[m])
      BY <1>3, <2>1, <3>1, WireInv, Zenon
    <3> QED
      BY <1>2, <1>5, <2>2, <2>3, <3>2, Kept, LinkInv, Zenon
  <2>4. CASE /\ pend' = pend /\ phy' = [phy EXCEPT ![n] = FALSE]
             /\ wire' = [wire EXCEPT ![n] = Tail(@)]
    <3>1. /\ Tail(wire[n]) \in Seq(Msg)
          /\ \A i \in DOMAIN Tail(wire[n]) : Tail(wire[n])[i] = wire[n][i + 1] /\ i + 1 \in DOMAIN wire[n]
      BY <2>1, GotType, Zenon DEF UartInv
    <3>2. /\ wire' \in [Node -> Seq(Msg)] /\ wire'[n] = Tail(wire[n])
          /\ \A m \in Node : m # n => wire'[m] = wire[m]
          /\ phy' \in [Node -> BOOLEAN]
      BY <1>2, <2>4, <3>1, Zenon
    <3>3. \A m \in Node : \A i \in DOMAIN wire'[Peer(m)] : wire'[Peer(m)][i].pkt.len <= Len(xchg[m])
      <4>1. \A i \in DOMAIN wire[n] : wire[n][i].pkt.len <= Len(xchg[Peer(n)])
        BY <1>4, Peers, Zenon
      <4>2. \A i \in DOMAIN wire'[n] : wire'[n][i].pkt.len <= Len(xchg[Peer(n)])
        BY <3>1, <3>2, <4>1, Zenon
      <4>3. \A m \in Node : Peer(m) = n => m = Peer(n)
        BY Peers
      <4>4. \A m \in Node : Peer(m) # n => wire'[Peer(m)] = wire[Peer(m)]
        BY <3>2, Peers
      <4> QED
        BY <1>4, <4>2, <4>3, <4>4, Zenon
    <3> QED
      BY <1>2, <1>4, <2>2, <2>4, <3>2, <3>3, Kept, LinkInv, Zenon
  <2> QED
    BY <1>8, <2>3, <2>4, Zenon DEF Scan
<1> QED
  BY <1>6, <1>7, <1>8

\* Every step preserves the invariant.
LEMMA UartStepInv == UartInv /\ [Next]_vars => UartInv'
<1> SUFFICES ASSUME UartInv, [Next]_vars PROVE UartInv'
  OBVIOUS
<1>1. CASE UNCHANGED vars
  <2>1. TypeOK' /\ PacketsFit' /\ HasMessage'
    BY <1>1, Zenon DEF vars, link, UartInv, TypeOK, PacketsFit, HasMessage
  <2>2. LocalsFit'
    BY <1>1, Zenon DEF vars, UartInv, LocalsFit, LocalFits, Used
  <2> QED
    BY <2>1, <2>2, SMTT(40) DEF UartInv
<1>2. ASSUME NEW n \in Node, NEW x \in Context, Transmission(n, x) PROVE UartInv'
  BY <1>2, TriggerInv, SendDataInv, SentInv, SendStateInv, PostInv, Zenon DEF Transmission
<1>3. "isr" \in Context /\ "wr" \in Context /\ "rd" \in Context
  BY DEF Context, Task
<1>4. ASSUME NEW n \in Node, Isr(n) \/ Transmit(n) PROVE UartInv'
  BY <1>2, <1>3, <1>4, IsrInv, DataHandlerInv, TransferInv, Zenon DEF Isr
<1>5. ASSUME NEW n \in Node, Writer(n) PROVE UartInv'
  BY <1>2, <1>3, <1>5, TaskInv, Zenon DEF Writer
<1>6. ASSUME NEW n \in Node, Reader(n) PROVE UartInv'
  BY <1>2, <1>3, <1>6, TaskInv, LookInv, ReadDataInv, Zenon DEF Reader
<1>7. ASSUME NEW n \in Node, NEW len \in bound.write, mb_uart_write_data(n, len) PROVE UartInv'
  BY <1>7, WriteDataInv, Zenon
<1> QED
  BY <1>1, <1>4, <1>5, <1>6, <1>7, Zenon DEF Next

\* For every FIFO length and every interleaving of the tasks of both ends with their
\* interrupt handlers, exception mode included, no index of mb_uart_driver.c leaves its ring
\* and no packet announces more bytes than the sender has copied.
THEOREM UartTypeCorrect == Spec => []TypeOK
<1>1. UartInv => TypeOK
  BY DEF UartInv
<1> QED
  BY <1>1, UartInitInv, UartStepInv, PTL DEF Spec

\* The interrupt handler works on a message as long as it runs, and the count that
\* mb_uart_read_data works with never exceeds what the ring holds, save in a ring that a
\* packet has filled to the last byte at index 0.
THEOREM UartInvCorrect == Spec => []UartInv
  BY UartInitInv, UartStepInv, PTL DEF Spec
=============================================================================
