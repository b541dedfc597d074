------------------------------- MODULE MbUart -------------------------------
(***************************************************************************)
(* The UART emulated on a mailbox channel, and the log output over it:     *)
(*   chips/drivers/mailbox/mb_uart_driver.c                                *)
(*   chips/component/easy_log/src/easy_log.c                               *)
(* Both ends run the same driver.  A node has a task that writes, a task   *)
(* that reads, and the mailbox interrupt; ctrl_rts = 1 asks the peer to    *)
(* stop, status_cts is what the peer has last said.                        *)
(*                                                                         *)
(* Every store that another context reads is a step of its own.  A task    *)
(* runs between two steps of the interrupt handler only when it is on      *)
(* another core (bound.smp).  Of the mailbox channel this module keeps     *)
(* what MailboxChannel shows: one packet waits in the logical channel      *)
(* while one is under way, messages to a node arrive in order, and         *)
(* acknowledgements do not wait.  The checksum is compiled out, nobody     *)
(* registers callbacks and nobody calls bk_mb_uart_dev_deinit.             *)
(***************************************************************************)
EXTENDS Integers, Sequences

CONSTANTS
    Fifo,       \* MB_UART_TX_FIFO_LEN and MB_UART_RX_FIFO_LEN (128)
    Bound       \* what a behaviour is bounded by: one of these records

Node == {"AP", "CP"}
Peer(n) == IF n = "AP" THEN "CP" ELSE "AP"
Task == {"wr", "rd"}
Context == Task \cup {"isr"}
TxSize == Fifo + 1          \* sizeof(tx_buf)
RxSize == 2 * Fifo + 1      \* sizeof(rx_buf)
Low == ((RxSize - 1 - Fifo) * 8) \div 10
Bit == {0, 1}

ASSUME UartConstants ==
    /\ Fifo \in Nat \ {0}
    /\ \A b \in Bound : /\ b.smp \in BOOLEAN /\ b.shared \in BOOLEAN /\ b.log \in BOOLEAN
                        /\ b.open \in BOOLEAN /\ b.races \in Nat /\ b.bytes \in [Node -> Nat]
                        /\ b.write \subseteq Nat \ {0} /\ b.read \subseteq Nat \ {0}

VARIABLES
    cb,       \* mb_uart_cb: flags of every node
    tx,       \* tx_buf, tx_rd_idx, tx_wr_idx
    rx,       \* rx_buf, rx_rd_idx, rx_wr_idx
    xchg,     \* tx_xchg_buff, in memory that the peer reads
    pend,     \* packet in the buffer of the logical channel
    phy,      \* a packet of the node is under way
    wire,     \* messages to the node, in order
    pc,       \* the next step of every context
    loc,      \* its local variable
    out,      \* the packet that it is about to hand to the mailbox
    rsp,      \* the response that the handler is going to send
    bound,    \* smp: the tasks of the AP run beside its interrupt handler; shared: other
              \* channels use the mailbox too; log: the AP runs easy_log
    written,  \* history: number of bytes accepted; the bytes are 1, 2, 3, ...
    got,      \* history: bytes that the reading task got
    raced     \* history: the windows in which a context met another one

link == <<pend, phy, wire>>
vars == <<cb, tx, rx, xchg, link, pc, loc, out, rsp, bound, written, got, raced>>

Packet == [cmd : {"data", "state", "none"}, len : 0..Fifo, rts : Bit]
NoPacket == [cmd |-> "none", len |-> 0, rts |-> 0]
Ring(size) == [buf : [0..size-1 -> Nat], rd : 0..size-1, wr : 0..size-1]
EmptyRing(size) == [buf |-> [i \in 0..size-1 |-> 0], rd |-> 0, wr |-> 0]
Msg == [ack : BOOLEAN, pkt : Packet, fail : Bit]
Cb == [up : BOOLEAN, exc : BOOLEAN, rts : Bit, cts : Bit, ovf : Bit, busy : Bit, req : Bit,
       cmd : {"data", "state"}]
Response == [rts : Bit, fail : Bit]
PC == {"closed", "idle", "trig", "send", "post", "sent", "fail", "told", "clear", "req",
       "state", "copy", "rts", "status", "flow", "ack", "scan"}
Window == {"closed", "read", "sent", "clear", "status", "answer"}

TypeOK ==
    /\ cb \in [Node -> Cb]
    /\ tx \in [Node -> Ring(TxSize)] /\ rx \in [Node -> Ring(RxSize)]
    /\ xchg \in [Node -> Seq(Nat)]
    /\ pend \in [Node -> Packet] /\ phy \in [Node -> BOOLEAN]
    /\ wire \in [Node -> Seq(Msg)]
    /\ pc \in [Node -> [Context -> PC]] /\ loc \in [Node -> [Context -> Nat]]
    /\ out \in [Node -> [Context -> Packet]] /\ rsp \in [Node -> Response]
    /\ bound \in Bound
    /\ written \in [Node -> Nat] /\ \A n \in Node : written[n] <= bound.bytes[n]
    /\ got \in [Node -> Seq(Nat)]
    /\ raced \in Seq(Node \X Window) /\ Len(raced) <= bound.races

Init ==
    /\ bound \in Bound
    /\ cb = [n \in Node |-> [up |-> bound.open, exc |-> bound.open /\ bound.log /\ n = "AP",
                             rts |-> 0, cts |-> 0, ovf |-> 0, busy |-> 0,
                             req |-> 0, cmd |-> "data"]]
    /\ tx = [n \in Node |-> EmptyRing(TxSize)] /\ rx = [n \in Node |-> EmptyRing(RxSize)]
    /\ xchg = [n \in Node |-> <<>>]
    /\ pend = [n \in Node |-> NoPacket] /\ phy = [n \in Node |-> FALSE]
    /\ wire = [n \in Node |-> <<>>]
    /\ pc = [n \in Node |-> [x \in Context |->
                IF x = "wr" /\ ~bound.open THEN "closed" ELSE "idle"]]
    /\ loc = [n \in Node |-> [x \in Context |-> 0]]
    /\ out = [n \in Node |-> [x \in Context |-> NoPacket]]
    /\ rsp = [n \in Node |-> [rts |-> 0, fail |-> 0]]
    /\ written = [n \in Node |-> 0] /\ got = [n \in Node |-> <<>>]
    /\ raced = <<>>

(***************************************************************************)
(* The rings.  One entry always stays free.                                *)
(***************************************************************************)
Min2(a, b) == IF a < b THEN a ELSE b
Used(r, size) == (r.wr - r.rd) % size
Free(r, size) == size - Used(r, size) - 1
Held(r, size, len) == [i \in 1..len |-> r.buf[(r.rd + i - 1) % size]]
Queue(r, size) == Held(r, size, Used(r, size))
\* mutant of Filled: the part that wraps around is not copied
Filled_flat(r, size, data) ==
    [i \in 0..size-1 |-> IF i - r.wr \in 0..Len(data)-1 THEN data[i - r.wr + 1] ELSE r.buf[i]]
Filled(r, size, data) ==
    [i \in 0..size-1 |-> LET k == (i - r.wr) % size
                         IN  IF k < Len(data) THEN data[k + 1] ELSE r.buf[i]]

\* mutant of TxPut: the write index is not wrapped around
TxPut_nowrap(r, data) ==
    [buf |-> Filled(r, TxSize, data), rd |-> r.rd, wr |-> r.wr + Len(data)]

\* the ring of mb_uart_write_data
TxPut(r, data) ==
    [buf |-> Filled(r, TxSize, data), rd |-> r.rd, wr |-> (r.wr + Len(data)) % TxSize]

\* The ring of rx_isr_data_handler: "if rx_idx == 0, reserved one byte at tail of the
\* array".
RxPut(r, data) ==
    LET len == Len(data)
        rem == RxSize - r.wr - (IF r.rd = 0 THEN 1 ELSE 0)
    IN  [buf |-> Filled(r, RxSize, data), rd |-> r.rd,
         wr |-> IF r.wr < r.rd \/ rem > len THEN r.wr + len ELSE len - rem]

\* the ring of mb_uart_read_data
RxDrop(r, len) ==
    LET rem == RxSize - r.rd
    IN  [buf |-> r.buf, wr |-> r.wr,
         rd |-> IF r.rd < r.wr \/ rem > len THEN r.rd + len ELSE len - rem]

(***************************************************************************)
(* The contexts of a node                                                  *)
(***************************************************************************)
Goto(n, x, step) == pc' = [pc EXCEPT ![n][x] = step]
\* A handler that no task runs beside has its node to itself, and the other node meets it
\* only in the messages: it is not interleaved.
Alone == {n \in Node : pc[n]["isr"] # "idle" /\ ~(n = "AP" /\ bound.smp)}
May(n, x) == Alone \subseteq (IF x = "isr" THEN {n} ELSE {})
At(n, x, step) == pc[n][x] = step /\ May(n, x)
SomeAt(n, steps) == \E x \in Context : pc[n][x] \in steps
\* contexts of node n meet in window w, at most bound.races times in all; nothing is
\* claimed of the windows of the log output, and they are not counted
Meets(n, met, w) ==
    LET counts == met /\ ~bound.log
    IN /\ counts => Len(raced) < bound.races
       /\ raced' = IF counts THEN Append(raced, <<n, w>>) ELSE raced
\* the message that the interrupt handler is dealing with
Got(n) == Head(wire[n])
Completes(n, x) == x = "isr" /\ Got(n).ack
\* where a context goes on when the transmission is started or given up
After(n, x) == IF x # "isr" THEN "idle" ELSE IF Got(n).ack THEN "scan" ELSE "ack"

(***************************************************************************)
(* mb_chnl_write, and the search of the mailbox for a channel with data    *)
(***************************************************************************)
Cmd(p) == [ack |-> FALSE, pkt |-> p, fail |-> 0]

Accepts(n) == pend[n] = NoPacket

mb_chnl_write(n, p) ==
    \/ /\ Accepts(n) /\ ~phy[n]
       /\ phy' = [phy EXCEPT ![n] = TRUE]
       /\ wire' = [wire EXCEPT ![Peer(n)] = Append(@, Cmd(p))]
       /\ UNCHANGED pend
    \/ /\ Accepts(n) /\ (phy[n] \/ bound.shared)
       /\ pend' = [pend EXCEPT ![n] = p]
       /\ UNCHANGED <<phy, wire>>
    \/ ~Accepts(n) /\ UNCHANGED link

\* the acknowledgement of another channel makes the mailbox send the packet
Transmit(n) ==
    /\ bound.shared /\ pc[n]["isr"] = "idle" /\ Alone = {}
    /\ pend[n] # NoPacket /\ ~phy[n]
    /\ pend' = [pend EXCEPT ![n] = NoPacket]
    /\ phy' = [phy EXCEPT ![n] = TRUE]
    /\ wire' = [wire EXCEPT ![Peer(n)] = Append(@, Cmd(pend[n]))]
    /\ UNCHANGED <<cb, tx, rx, xchg, pc, loc, out, rsp, bound, written, got, raced>>

(***************************************************************************)
(* Transmission, by any context                                            *)
(***************************************************************************)
\* the critical section of mb_uart_send_data_trigger
mb_uart_send_data_trigger(n, x) ==
    /\ At(n, x, "trig")
    /\ \/ /\ cb[n].busy = 1
          /\ Goto(n, x, After(n, x))
          /\ Meets(n, SomeAt(n, {"fail", "clear"}), "clear")
          /\ UNCHANGED cb
       \/ /\ cb[n].busy = 0
          /\ cb' = [cb EXCEPT ![n].busy = IF cb[n].exc THEN 0 ELSE 1]
          /\ Goto(n, x, "send")
          /\ UNCHANGED raced
    /\ UNCHANGED <<tx, rx, xchg, link, loc, rsp, out, bound, written, got>>

\* where a context goes on when no data could be sent
Failed(n, x) == IF Completes(n, x) THEN "fail" ELSE "clear"

\* the data go to the front of the buffer that the peer reads
Overlay(buf, data) == data \o SubSeq(buf, Len(data) + 1, Len(buf))

\* the data are copied and the packet is put together
mb_uart_send_data(n, x) ==
    LET len == Used(tx[n], TxSize)
    IN /\ At(n, x, "send")
       /\ \/ /\ cb[n].cts # 0 \/ len = 0
             /\ Goto(n, x, Failed(n, x))
             /\ UNCHANGED <<cb, xchg, loc, out, raced>>
          \/ /\ cb[n].cts = 0 /\ len > 0
             /\ xchg' = [xchg EXCEPT ![n] = Overlay(@, Queue(tx[n], TxSize))]
             /\ cb' = [cb EXCEPT ![n].cmd = "data"]
             /\ out' = [out EXCEPT ![n][x] = [cmd |-> "data", len |-> len, rts |-> cb[n].rts]]
             /\ loc' = [loc EXCEPT ![n][x] = (tx[n].rd + len) % TxSize]
             /\ Goto(n, x, "post")
             /\ Meets(n, SomeAt(n, {"sent"}), "sent")
       /\ UNCHANGED <<tx, rx, link, rsp, bound, written, got>>

\* tx_rd_idx, and in mb_uart_tx_cmpl_isr tx_state_req
Sent(n, x) ==
    /\ At(n, x, "sent")
    /\ tx' = [tx EXCEPT ![n].rd = loc[n][x]]
    /\ loc' = [loc EXCEPT ![n][x] = 0]
    /\ cb' = IF Completes(n, x) THEN [cb EXCEPT ![n].req = 0] ELSE cb
    /\ Goto(n, x, After(n, x))
    /\ UNCHANGED <<rx, xchg, link, rsp, out, bound, written, got, raced>>

\* mutant of mb_uart_send_state_trigger: a request that finds tx_in_process set is dropped
mb_uart_send_state_trigger_drop(n, x) ==
    /\ At(n, x, "req")
    /\ cb' = [cb EXCEPT ![n].busy = 1]
    /\ Goto(n, x, IF cb[n].busy = 1 THEN "idle" ELSE "state")
    /\ UNCHANGED <<tx, rx, xchg, link, loc, rsp, out, bound, written, got, raced>>

\* mb_uart_tx_cmpl_isr has put its packet together and is going to clear tx_state_req
DropsReq(n) == pc[n]["isr"] \in {"post", "sent", "told"} /\ Got(n).ack

\* the critical section of mb_uart_send_state_trigger
mb_uart_send_state_trigger(n, x) ==
    /\ At(n, x, "req")
    /\ \/ /\ cb[n].busy = 1
          /\ cb' = [cb EXCEPT ![n].req = 1]
          /\ Goto(n, x, "idle")
          /\ Meets(n, SomeAt(n, {"clear"}) \/ DropsReq(n), "clear")
       \/ /\ cb[n].busy = 0
          /\ cb' = [cb EXCEPT ![n].busy = IF cb[n].exc THEN 0 ELSE 1]
          /\ Goto(n, x, "state")
          /\ UNCHANGED raced
    /\ UNCHANGED <<tx, rx, xchg, link, loc, rsp, out, bound, written, got>>

mb_uart_send_state(n, x) ==
    /\ At(n, x, "state")
    /\ cb' = [cb EXCEPT ![n].cmd = "state"]
    /\ out' = [out EXCEPT ![n][x] = [cmd |-> "state", len |-> 0, rts |-> cb[n].rts]]
    /\ Goto(n, x, "post")
    /\ UNCHANGED <<tx, rx, xchg, link, loc, rsp, bound, written, got, raced>>

\* their call of mb_chnl_write: the packet is in the channel before tx_rd_idx is advanced
Post(n, x) ==
    LET data == out[n][x].cmd = "data"
        started == IF data THEN "sent" ELSE IF x = "isr" THEN "told" ELSE "idle"
        failed == IF data THEN Failed(n, x) ELSE "clear"
    IN /\ At(n, x, "post")
       /\ mb_chnl_write(n, out[n][x])
       /\ out' = [out EXCEPT ![n][x] = NoPacket]
       /\ loc' = [loc EXCEPT ![n][x] = IF Accepts(n) THEN @ ELSE 0]
       /\ Goto(n, x, IF Accepts(n) THEN started ELSE failed)
       /\ UNCHANGED <<cb, tx, rx, xchg, rsp, bound, written, got, raced>>

\* tx_in_process is cleared "because no tx_cmpl_isr callback!"
Clear(n, x) ==
    /\ At(n, x, "clear")
    /\ cb' = [cb EXCEPT ![n].busy = 0]
    /\ Goto(n, x, After(n, x))
    /\ UNCHANGED <<tx, rx, xchg, link, loc, rsp, out, bound, written, got, raced>>

Transmission(n, x) ==
    \/ mb_uart_send_data_trigger(n, x) \/ mb_uart_send_data(n, x) \/ Sent(n, x)
    \/ mb_uart_send_state_trigger(n, x) \/ mb_uart_send_state(n, x)
    \/ Post(n, x) \/ Clear(n, x)

(***************************************************************************)
(* The mailbox interrupt                                                   *)
(***************************************************************************)
\* an end that is not open has no rx_isr: CHNL_STATE_COM_FAIL
NotOpen(n) ==
    /\ At(n, "isr", "idle") /\ wire[n] # <<>>
    /\ ~cb[n].up
    /\ rsp' = [rsp EXCEPT ![n] = [rts |-> 0, fail |-> 1]]
    /\ Goto(n, "isr", "ack")
    /\ Meets(Peer(n), Got(n).pkt.cmd = "data", "closed")
    /\ UNCHANGED <<cb, tx, rx, xchg, link, loc, out, bound, written, got>>

\* mutant of Answer: no "trigger send!" when the peer has room again
Answer_quiet(n, req, rts, fail) ==
    /\ cb' = [cb EXCEPT ![n].rts = rts, ![n].cts = Got(n).pkt.rts, ![n].req = req]
    /\ rsp' = [rsp EXCEPT ![n] = [rts |-> rts, fail |-> fail]]
    /\ Goto(n, "isr", "ack")

\* the peer's wish is noted and the own one goes into the response
Answer(n, req, rts, fail) ==
    LET cts == Got(n).pkt.rts
    IN /\ cb' = [cb EXCEPT ![n].rts = rts, ![n].cts = cts, ![n].req = req]
       /\ rsp' = [rsp EXCEPT ![n] = [rts |-> rts, fail |-> fail]]
       /\ Goto(n, "isr", IF cts = 0 /\ cb[n].cts = 1 THEN "trig" ELSE "ack")

rx_isr_state_handler(n) ==
    /\ At(n, "isr", "idle") /\ wire[n] # <<>>
    /\ cb[n].up /\ ~Got(n).ack /\ Got(n).pkt.cmd = "state"
    /\ Answer(n, 0, cb[n].rts, 0)
    /\ UNCHANGED <<tx, rx, xchg, link, loc, out, bound, written, got, raced>>

rx_isr_data_handler(n) ==
    LET len == Got(n).pkt.len
        free == Free(rx[n], RxSize)
        fits == len <= free
    IN /\ At(n, "isr", "idle") /\ wire[n] # <<>>
       /\ cb[n].up /\ ~Got(n).ack /\ Got(n).pkt.cmd = "data"
       /\ rx' = IF fits THEN [rx EXCEPT ![n] = RxPut(@, SubSeq(xchg[Peer(n)], 1, len))] ELSE rx
       /\ cb' = [cb EXCEPT ![n].ovf = IF fits THEN @ ELSE 1, ![n].req = 0]
       /\ rsp' = [rsp EXCEPT ![n].fail = IF fits THEN 0 ELSE 1]
       /\ loc' = [loc EXCEPT ![n]["isr"] = IF fits THEN free - len ELSE free]
       /\ Goto(n, "isr", "flow")
       /\ Meets(n, pc[n]["rd"] \in {"copy", "rts"}, "read")
       /\ UNCHANGED <<tx, xchg, link, out, bound, written, got>>

\* mutant of FlowControl: room for exactly one packet counts as room
FlowControl_exact(n) ==
    /\ At(n, "isr", "flow")
    /\ Answer(n, cb[n].req, IF loc[n]["isr"] < Fifo THEN 1 ELSE cb[n].rts, rsp[n].fail)
    /\ loc' = [loc EXCEPT ![n]["isr"] = 0]
    /\ UNCHANGED <<tx, rx, xchg, link, out, bound, written, got, raced>>

\* its second part: no room for another full packet
FlowControl(n) ==
    /\ At(n, "isr", "flow")
    /\ Answer(n, cb[n].req, IF loc[n]["isr"] <= Fifo THEN 1 ELSE cb[n].rts, rsp[n].fail)
    /\ loc' = [loc EXCEPT ![n]["isr"] = 0]
    /\ UNCHANGED <<tx, rx, xchg, link, out, bound, written, got, raced>>

\* ctrl_rts is no longer what the response says, or a packet that was put together before
\* says something else than the response that overtakes it
Outdated(n) ==
    LET waiting == {pend[n]} \cup {out[n][x] : x \in Task}
    IN  \/ rsp[n].rts # cb[n].rts
        \/ \E p \in waiting \ {NoPacket} : p.rts # rsp[n].rts

\* mb_phy_chnl_rx_cmd_isr sends the response
SendAck(n) ==
    LET ack == [ack |-> TRUE, fail |-> rsp[n].fail,
                pkt |-> [cmd |-> Got(n).pkt.cmd, len |-> 0, rts |-> rsp[n].rts]]
    IN /\ At(n, "isr", "ack")
       /\ wire' = [wire EXCEPT ![n] = Tail(@), ![Peer(n)] = Append(@, ack)]
       /\ Goto(n, "isr", "idle")
       /\ Meets(n, cb[n].up /\ Outdated(n), "answer")
       /\ UNCHANGED <<cb, tx, rx, xchg, pend, phy, loc, rsp, out, bound, written, got>>

\* an acknowledgement that is not expected is only reported
mb_uart_tx_cmpl_isr(n) ==
    /\ At(n, "isr", "idle") /\ wire[n] # <<>>
    /\ Got(n).ack
    /\ \/ /\ Got(n).pkt.cmd # cb[n].cmd \/ cb[n].busy = 0
          /\ Goto(n, "isr", "scan")
          /\ UNCHANGED cb
       \/ /\ Got(n).pkt.cmd = cb[n].cmd /\ cb[n].busy = 1
          /\ cb' = [cb EXCEPT ![n].cts = Got(n).pkt.rts]
          /\ Goto(n, "isr", "send")
    /\ UNCHANGED <<tx, rx, xchg, link, loc, rsp, out, bound, written, got, raced>>

\* no data to send, or the peer has no room: is there a state to tell?
TellState(n) ==
    /\ At(n, "isr", "fail")
    /\ Goto(n, "isr", IF cb[n].req = 0 THEN "clear" ELSE "state")
    /\ UNCHANGED <<cb, tx, rx, xchg, link, loc, out, rsp, bound, written, got, raced>>

Told(n) ==
    /\ At(n, "isr", "told")
    /\ cb' = [cb EXCEPT ![n].req = 0]
    /\ Goto(n, "isr", "scan")
    /\ UNCHANGED <<tx, rx, xchg, link, loc, rsp, out, bound, written, got, raced>>

\* mb_phy_chnl_rx_ack_isr looks for a channel with data
Scan(n) ==
    /\ At(n, "isr", "scan")
    /\ \/ /\ pend[n] # NoPacket
          /\ pend' = [pend EXCEPT ![n] = NoPacket]
          /\ wire' = [wire EXCEPT ![n] = Tail(@), ![Peer(n)] = Append(@, Cmd(pend[n]))]
          /\ UNCHANGED phy
       \/ /\ pend[n] = NoPacket \/ bound.shared
          /\ phy' = [phy EXCEPT ![n] = FALSE]
          /\ wire' = [wire EXCEPT ![n] = Tail(@)]
          /\ UNCHANGED pend
    /\ Goto(n, "isr", "idle")
    /\ UNCHANGED <<cb, tx, rx, xchg, loc, rsp, out, bound, written, got, raced>>

Isr(n) ==
    \/ NotOpen(n) \/ rx_isr_state_handler(n) \/ rx_isr_data_handler(n) \/ FlowControl(n)
    \/ SendAck(n) \/ mb_uart_tx_cmpl_isr(n) \/ TellState(n) \/ Told(n) \/ Scan(n)
    \/ Transmission(n, "isr")

(***************************************************************************)
(* The tasks                                                               *)
(***************************************************************************)
bk_mb_uart_dev_init(n) ==
    /\ At(n, "wr", "closed")
    /\ cb' = [cb EXCEPT ![n].up = TRUE, ![n].exc = (n = "AP" /\ bound.log)]
    /\ Goto(n, "wr", "req")
    /\ UNCHANGED <<tx, rx, xchg, link, loc, rsp, out, bound, written, got, raced>>

bk_mb_uart_write_ready(n) == Free(tx[n], TxSize)

\* easy_log_output calls bk_mb_uart_write only while something fits
easy_log_output(n) == cb[n].exc => bk_mb_uart_write_ready(n) > 0

\* mb_uart_write_data stores what fits
mb_uart_write_data(n, data_len) ==
    LET len == Min2(data_len, bk_mb_uart_write_ready(n))
    IN /\ At(n, "wr", "idle")
       /\ written[n] + data_len <= bound.bytes[n]
       /\ easy_log_output(n)
       /\ tx' = [tx EXCEPT ![n] = TxPut(@, [i \in 1..len |-> written[n] + i])]
       /\ written' = [written EXCEPT ![n] = @ + len]
       /\ Goto(n, "wr", "trig")
       /\ UNCHANGED <<cb, rx, xchg, link, loc, rsp, out, bound, got, raced>>

\* mb_uart_read_data: the number of bytes in the ring is read once
ReadCount(n) ==
    /\ At(n, "rd", "idle") /\ cb[n].up
    /\ Used(rx[n], RxSize) > 0
    /\ loc' = [loc EXCEPT ![n]["rd"] = Used(rx[n], RxSize)]
    /\ Goto(n, "rd", "copy")
    /\ UNCHANGED <<cb, tx, rx, xchg, link, rsp, out, bound, written, got, raced>>

mb_uart_read_data(n, buf_len) ==
    LET len == Min2(buf_len, loc[n]["rd"])
    IN /\ At(n, "rd", "copy")
       /\ rx' = [rx EXCEPT ![n] = RxDrop(@, len)]
       /\ got' = [got EXCEPT ![n] = @ \o Held(rx[n], RxSize, len)]
       /\ loc' = [loc EXCEPT ![n]["rd"] = @ - len]
       /\ Goto(n, "rd", "rts")
       /\ Meets(n, pc[n]["isr"] = "flow", "read")
       /\ UNCHANGED <<cb, tx, xchg, link, rsp, out, bound, written>>

\* mutant of ReadRts: any read lets the peer send again
ReadRts_eager(n) ==
    /\ At(n, "rd", "rts")
    /\ cb' = [cb EXCEPT ![n].rts = 0]
    /\ loc' = [loc EXCEPT ![n]["rd"] = 0]
    /\ Goto(n, "rd", IF cb[n].rts # 0 THEN "req" ELSE "idle")
    /\ UNCHANGED <<tx, rx, xchg, link, rsp, out, bound, written, got, raced>>

\* the peer may send again
ReadRts(n) ==
    LET low == loc[n]["rd"] < Low /\ cb[n].rts # 0
    IN /\ At(n, "rd", "rts")
       /\ cb' = IF low THEN [cb EXCEPT ![n].rts = 0] ELSE cb
       /\ loc' = [loc EXCEPT ![n]["rd"] = 0]
       /\ Goto(n, "rd", IF low THEN "req" ELSE "idle")
       /\ UNCHANGED <<tx, rx, xchg, link, rsp, out, bound, written, got, raced>>

\* status_overflow and status_cts are bits of one byte: it is read, changed and stored
StatusRead(n) ==
    /\ At(n, "rd", "idle") /\ cb[n].up /\ cb[n].ovf = 1
    /\ loc' = [loc EXCEPT ![n]["rd"] = cb[n].cts]
    /\ Goto(n, "rd", "status")
    /\ UNCHANGED <<cb, tx, rx, xchg, link, rsp, out, bound, written, got, raced>>

bk_mb_uart_get_status(n) ==
    /\ At(n, "rd", "status")
    /\ cb' = [cb EXCEPT ![n].ovf = 0, ![n].cts = loc[n]["rd"]]
    /\ loc' = [loc EXCEPT ![n]["rd"] = 0]
    /\ Goto(n, "rd", "idle")
    /\ Meets(n, cb[n].cts # loc[n]["rd"], "status")
    /\ UNCHANGED <<tx, rx, xchg, link, rsp, out, bound, written, got>>

\* what a task that has begun goes on with, and the reader's next call
Writer(n) == Transmission(n, "wr") \/ bk_mb_uart_dev_init(n)
Reader(n) ==
    \/ Transmission(n, "rd") \/ ReadCount(n) \/ ReadRts(n)
    \/ \E len \in bound.read : mb_uart_read_data(n, len)
    \/ StatusRead(n) \/ bk_mb_uart_get_status(n)

Next ==
    \E n \in Node :
        \/ Isr(n) \/ Transmit(n) \/ Writer(n) \/ Reader(n)
        \/ \E len \in bound.write : mb_uart_write_data(n, len)

Spec == Init /\ [][Next]_vars

\* Interrupts are served, the mailbox sends what waits, tasks run, and a task reads what
\* has arrived.  Nobody need write.
FairSpec ==
    /\ Spec
    /\ \A n \in Node : /\ WF_vars(Isr(n) \/ Transmit(n))
                       /\ WF_vars(Writer(n)) /\ WF_vars(Reader(n))

-----------------------------------------------------------------------------
(***************************************************************************)
(* Properties                                                              *)
(***************************************************************************)
Raced(n, w) == \E i \in DOMAIN raced : raced[i] = <<n, w>>

\* In exception mode packets are sent without waiting for the answer to the one before.
InTurn(n) == ~cb[n].exc

\* The flow control keeps room for every packet: rx_isr_data_handler never has to discard
\* one.  The exceptions: a packet has arrived while mb_uart_read_data was working with a
\* count of bytes it had read before; a packet that was put together before the response
\* that says stop, and follows it, has said go on; bk_mb_uart_get_status has stored an old
\* status_cts.
NoOverflow ==
    \A n \in Node : InTurn(Peer(n)) /\ cb[n].ovf = 1 =>
        Raced(n, "read") \/ Raced(n, "answer") \/ Raced(Peer(n), "status")

\* The reading task gets the bytes in the order in which they were written, none twice and
\* none left out, through the wrap-around of both rings: unless a packet has arrived while
\* mb_uart_read_data was running or before the end was open, the sender was misled about
\* the room, or a packet was answered before mb_uart_send_data had advanced tx_rd_idx.
InOrder ==
    \A n \in Node :
        LET all == got[n] \o Queue(rx[n], RxSize)
        IN  InTurn(Peer(n)) =>
              \/ all = [i \in 1..Len(all) |-> i]
              \/ Raced(n, "read") \/ Raced(n, "answer")
              \/ \E w \in {"sent", "closed", "status"} : Raced(Peer(n), w)

\* "The mb_uart TX complete ISR will flush the FIFO and bk_mb_uart_write_ready will
\* eventually report free space": a full transmit ring does not stay full.
Drains == \A n \in Node : bk_mb_uart_write_ready(n) = 0 ~> bk_mb_uart_write_ready(n) > 0

\* messages of node n that the peer has not answered, and answers not yet handled
Outstanding(n) ==
    \/ pend[n] # NoPacket
    \/ \E i \in DOMAIN wire[Peer(n)] : ~wire[Peer(n)][i].ack
    \/ \E i \in DOMAIN wire[n] : wire[n][i].ack /\ (i > 1 \/ pc[n]["isr"] = "idle")

\* Data that may be sent is never left behind: a context is going to send it, or an
\* acknowledgement is due whose tx_cmpl_isr does.  The exception is a trigger that finds
\* tx_in_process set by a context that has found nothing to send and is about to clear it.
TxLive ==
    \A n \in Node :
        cb[n].up /\ InTurn(n) /\ Used(tx[n], TxSize) > 0 /\ cb[n].cts = 0 =>
            \/ \E x \in Context : pc[n][x] \in {"trig", "send", "state", "post"}
            \/ Outstanding(n)
            \/ Raced(n, "clear")

\* A node that has been told to stop, and may go on, is going to hear of it.
News(n) ==
    LET p == Peer(n)
    IN  \/ cb[p].req = 1 \/ SomeAt(p, {"req", "state"})
        \/ \E q \in ({pend[p]} \cup {out[p][x] : x \in Context}) \ {NoPacket} : q.rts = 0
        \/ \E i \in DOMAIN wire[n] : wire[n][i].pkt.rts = 0
        \/ /\ pc[p]["isr"] \in {"trig", "send", "post", "sent", "clear", "ack"}
           /\ ~Got(p).ack /\ rsp[p].rts = 0
GoAhead ==
    \A n \in Node :
        cb[n].up /\ InTurn(n) /\ cb[n].cts = 1 /\ cb[Peer(n)].rts = 0 =>
            News(n) \/ Raced(Peer(n), "clear") \/ Raced(Peer(n), "answer") \/ Raced(n, "status")

\* Unless a context meets another one in a window, every byte that was written is read.
Delivered ==
    \A n \in Node :
        InTurn(n) /\ written[n] > Len(got[Peer(n)]) ~>
            (written[n] = Len(got[Peer(n)]) \/ raced # <<>>)

(***************************************************************************)
(* What keeps the indices inside the rings, with TypeOK an inductive       *)
(* invariant                                                               *)
(***************************************************************************)
\* a packet is no longer than what its sender has put into the shared buffer
PacketsFit ==
    \A n \in Node :
        /\ pend[n].len <= Len(xchg[n])
        /\ \A x \in Context : out[n][x].len <= Len(xchg[n])
        /\ \A i \in DOMAIN wire[Peer(n)] : wire[Peer(n)][i].pkt.len <= Len(xchg[n])

\* the interrupt handler works on a message
HasMessage == \A n \in Node : pc[n]["isr"] # "idle" => wire[n] # <<>>

\* the count that mb_uart_read_data works with is not more than the ring holds, save after
\* a packet that has filled the ring to the last byte; the status is a bit; the index that
\* mb_uart_send_data has computed is one
LocalFits(n, x) ==
    /\ x = "rd" /\ pc[n][x] = "copy" =>
           /\ loc[n][x] <= RxSize - 1
           /\ loc[n][x] <= Used(rx[n], RxSize) \/ rx[n].rd = 0
    /\ pc[n][x] = "status" => loc[n][x] \in Bit
    /\ pc[n][x] = "sent" => loc[n][x] \in 0..TxSize-1
    /\ pc[n][x] = "post" /\ out[n][x].cmd = "data" => loc[n][x] \in 0..TxSize-1
LocalsFit == \A n \in Node, x \in Context : LocalFits(n, x)

UartInv == TypeOK /\ PacketsFit /\ HasMessage /\ LocalsFit
=============================================================================
