-------------------------- MODULE WifiDriverProofs --------------------------
(***************************************************************************)
(* TxLive for every set of tasks, packets and frames and every bound: the  *)
(* handshake between wdrv_main and the completion of a write, with         *)
(* sending_flag and tx_list, which both use without a lock.                *)
(***************************************************************************)
EXTENDS WifiDriver, TLAPS

IsSeq(q) == \E S : q \in Seq(S)
HasMsg(c) == \E i \in 1..Len(queue) : ForChnl(queue[i], c)

ThreadOK ==
    /\ thread = [pc |-> thread.pc, chnl |-> thread.chnl, msg |-> thread.msg,
                 ent |-> thread.ent, n |-> thread.n]
    /\ thread.chnl \in Chnl
IsrOK ==
    /\ isr = [pc |-> isr.pc, chnl |-> isr.chnl, todo |-> isr.todo]
    /\ isr.chnl \in Chnl

\* sending_flag is set exactly from the moment wdrv_main takes the list until the completion
\* of the write; while wdrv_main is about to write, the channel is free.
Flags ==
    \A c \in Chnl : /\ sending[c] <=> wire[c].st # "idle" \/ Working({"push"}, c)
                    /\ Working({"push"}, c) => wire[c].st = "idle"

Shape ==
    /\ IsSeq(queue) /\ ThreadOK /\ IsrOK
    /\ sending \in [Chnl -> BOOLEAN]
    /\ tx_list = [c \in Chnl |-> tx_list[c]]
    /\ wire = [c \in Chnl |-> [st |-> wire[c].st, node |-> wire[c].node]]

\* The list of a channel that nobody sends is about to be looked at.
Noticed(c) ==
    \/ Working({"test", "push", "clear"}, c)
    \/ isr.pc = "look" /\ isr.chnl = c
    \/ HasMsg(c)
    \/ lost \cap {"refused", "retry"} # {}
Watched == \A c \in Chnl : tx_list[c] # <<>> /\ ~sending[c] => Noticed(c)

TxInv == Shape /\ Flags /\ Watched

\* TxInv is about what TxLive says.
LEMMA TxInvTxLive == TxInv => TxLive
  BY DEF TxInv, Flags, Watched, Noticed, HasMsg, TxLive

\* No list waits when the driver starts.
LEMMA TxInvInit == Init => TxInv
<1> SUFFICES ASSUME Init PROVE TxInv
  OBVIOUS
<1>0. /\ queue = <<>> /\ thread = Waiting /\ isr = Done
      /\ sending = [c \in Chnl |-> FALSE]
      /\ tx_list = [c \in Chnl |-> <<>>]
      /\ wire = [c \in Chnl |-> [st |-> "idle", node |-> <<>>]]
  BY DEF Init
<1>1. IsSeq(queue)
  <2>1. <<>> \in Seq({})
    OBVIOUS
  <2> QED
    BY <1>0, <2>1 DEF IsSeq
<1>2. Shape
  BY <1>0, <1>1 DEF Shape, ThreadOK, IsrOK, Waiting, Done, Chnl
<1>3. Flags
  BY <1>0 DEF Flags, Working, Waiting, Chnl
<1>4. Watched
  BY <1>0 DEF Watched, Chnl
<1> QED
  BY <1>2, <1>3, <1>4 DEF TxInv

\* wdrv_msg_sender takes no message out of the queue, and puts one in when there is room.
LEMMA Posted ==
    ASSUME NEW m, IsSeq(queue), wdrv_msg_sender(m)
    PROVE  /\ IsSeq(queue')
           /\ \A c \in Chnl : HasMsg(c) => HasMsg(c)'
           /\ \A c \in Chnl : Room /\ ForChnl(m, c) => HasMsg(c)'
<1>1. PICK S : queue \in Seq(S)
  BY DEF IsSeq
<1>2. CASE ~Room
  BY <1>2 DEF wdrv_msg_sender, HasMsg
<1>3. CASE Room
  <2>1. queue' = Append(queue, m)
    BY <1>3 DEF wdrv_msg_sender
  <2>2. queue \in Seq(S \cup {m}) /\ m \in S \cup {m}
    BY <1>1
  <2>3. /\ queue' \in Seq(S \cup {m})
        /\ Len(queue') = Len(queue) + 1 /\ Len(queue) \in Nat
        /\ \A i \in 1..Len(queue) : queue'[i] = queue[i]
        /\ queue'[Len(queue) + 1] = m
    BY <2>1, <2>2
  <2>4. IsSeq(queue')
    BY <2>3 DEF IsSeq
  <2>5. ASSUME NEW c \in Chnl, HasMsg(c) PROVE HasMsg(c)'
    <3>1. PICK i \in 1..Len(queue) : ForChnl(queue[i], c)
      BY <2>5 DEF HasMsg
    <3>2. i \in 1..Len(queue') /\ ForChnl(queue'[i], c)
      BY <2>3, <3>1
    <3> QED
      BY <3>2 DEF HasMsg, ForChnl
  <2>6. ASSUME NEW c \in Chnl, ForChnl(m, c) PROVE HasMsg(c)'
    <3>1. Len(queue) + 1 \in 1..Len(queue') /\ ForChnl(queue'[Len(queue) + 1], c)
      BY <2>3, <2>6
    <3> QED
      BY <3>1 DEF HasMsg, ForChnl
  <2> QED
    BY <2>4, <2>5, <2>6
<1> QED
  BY <1>2, <1>3

\* A step that neither writes nor completes: messages may come into the queue, wdrv_main and
\* the handler may be elsewhere.
Quiet ==
    /\ IsSeq(queue') /\ \A c \in Chnl : HasMsg(c) => HasMsg(c)'
    /\ sending' = sending /\ tx_list' = tx_list /\ wire' = wire /\ lost \subseteq lost'
    /\ \/ thread' = thread
       \/ ThreadOK' /\ {thread.pc, thread.pc'} \cap {"test", "push", "clear"} = {}
    /\ \/ isr' = isr
       \/ IsrOK' /\ isr.pc # "look"

\* A quiet step forgets no list.
LEMMA QuietStep ==
    ASSUME TxInv, Quiet PROVE TxInv'
<1> USE DEF TxInv
<1>1. Shape'
  BY DEF Shape, Quiet, ThreadOK, IsrOK
<1>2. \A c \in Chnl : /\ Working({"push"}, c)' <=> Working({"push"}, c)
                      /\ Working({"test", "push", "clear"}, c)
                            => Working({"test", "push", "clear"}, c)'
  BY DEF Quiet, Working
<1>3. Flags'
  BY <1>2 DEF Flags, Quiet
<1>4. ASSUME NEW c \in Chnl, Noticed(c) PROVE Noticed(c)'
  BY <1>2, <1>4 DEF Noticed, Quiet
<1>5. Watched'
  BY <1>4 DEF Watched, Quiet
<1> QED
  BY <1>1, <1>3, <1>5

\* What leaves the queue, the lists, wdrv_main and the handler alone is quiet.
LEMMA Same ==
    ASSUME TxInv, UNCHANGED <<queue, sending, tx_list, wire, thread, isr, lost>> PROVE TxInv'
<1>1. Quiet
  BY DEF Quiet, TxInv, Shape, HasMsg, IsSeq
<1> QED
  BY <1>1, QuietStep

\* The steps of the tasks: only wdrv_tx_msg_send touches the queue.
LEMMA TaskInv ==
    ASSUME TxInv, NEW t \in Task, wdrv_tx_msg(t) \/ TaskStep(t) \/ TimedOut(t) PROVE TxInv'
<1> USE DEF tx
<1>1. CASE wdrv_tx_msg(t)
  BY <1>1, Same DEF wdrv_tx_msg
<1>2. CASE EnterTask(t)
  BY <1>2, Same DEF EnterTask
<1>3. CASE co_list_push_back(t)
  BY <1>3, Same DEF co_list_push_back
<1>4. CASE wdrv_get_cmd_buffer(t)
  BY <1>4, Same DEF wdrv_get_cmd_buffer
<1>5. CASE MarkBusy(t)
  BY <1>5, Same DEF MarkBusy
<1>6. CASE wdrv_tx_msg_send(t)
  <2>1. /\ wdrv_msg_sender(ToSend("CMD", call[t].buf))
        /\ UNCHANGED <<sending, tx_list, wire, thread, isr, lost>>
    BY <1>6 DEF wdrv_tx_msg_send
  <2>2. Quiet
    BY <2>1, Posted, Zenon DEF Quiet, TxInv, Shape
  <2> QED
    BY <2>2, QuietStep
<1>7. CASE Confirmed(t)
  BY <1>7, Same DEF Confirmed
<1>8. CASE TimedOut(t)
  BY <1>8, Same DEF TimedOut
<1>9. CASE co_list_extract(t)
  BY <1>9, Same DEF co_list_extract
<1> QED
  BY <1>1, <1>2, <1>3, <1>4, <1>5, <1>6, <1>7, <1>8, <1>9 DEF TaskStep

\* The IP stack puts packets into the queue.
LEMMA PacketInv ==
    ASSUME TxInv, NEW p \in Packet, wdrv_txdata_sender(p) PROVE TxInv'
<1>1. /\ wdrv_msg_sender(ToSend("TXDATA", p))
      /\ UNCHANGED <<sending, tx_list, wire, thread, isr, lost>>
  BY DEF wdrv_txdata_sender, wdrv_msg_sender
<1>2. Quiet
  BY <1>1, Posted, Zenon DEF Quiet, TxInv, Shape
<1> QED
  BY <1>2, QuietStep

\* The CP takes lists and acknowledges them; what else it does is quiet.
LEMMA CpInv ==
    ASSUME TxInv,
           CpStep \/ CpEvent \/ (\E f \in Frame, kind \in {"msdu", "special"} : CpFrame(f, kind))
    PROVE  TxInv'
<1> USE DEF ap
<1>1. CASE CpCommand
  BY <1>1, Same DEF CpCommand
<1>2. ASSUME NEW p \in Packet, CpTransmit(p) PROVE TxInv'
  BY <1>2, Same DEF CpTransmit
<1>3. ASSUME NEW f \in Frame, NEW kind, CpFrame(f, kind) PROVE TxInv'
  BY <1>3, Same DEF CpFrame
<1>4. CASE CpEvent
  BY <1>4, Same DEF CpEvent
<1>5. ASSUME NEW c \in Chnl, CpTake(c) PROVE TxInv'
  <2>1. /\ wire[c].st = "sent"
        /\ wire' = [wire EXCEPT ![c] = [st |-> "ack", node |-> <<>>]]
        /\ UNCHANGED <<queue, sending, tx_list, thread, isr, lost>>
    BY <1>5 DEF CpTake
  <2>2. Shape'
    BY <2>1 DEF TxInv, Shape, ThreadOK, IsrOK, IsSeq
  <2>3. Flags'
    BY <2>1 DEF TxInv, Shape, Flags, Working
  <2>4. Watched'
    BY <2>1 DEF TxInv, Watched, Noticed, Working, HasMsg
  <2> QED
    BY <2>2, <2>3, <2>4 DEF TxInv
<1> QED
  BY <1>1, <1>2, <1>3, <1>4, <1>5 DEF CpStep

\* wdrv_main takes a message: one for a channel makes it look at the list of the channel.
LEMMA PopInv ==
    ASSUME TxInv, wdrv_main PROVE TxInv'
<1> DEFINE m == Head(queue)
           c0 == IF m.type = "CMD" THEN "cmd" ELSE "data"
<1>1. /\ thread.pc = "pop" /\ queue # <<>> /\ queue' = Tail(queue)
      /\ UNCHANGED <<sending, wire, isr, lost>>
  BY DEF wdrv_main
<1>2. PICK S : queue \in Seq(S)
  BY DEF TxInv, Shape, IsSeq
<1>3. /\ queue' \in Seq(S)
      /\ Len(queue) \in Nat /\ Len(queue') = Len(queue) - 1 /\ m = queue[1]
      /\ \A i \in 1..Len(queue') : queue'[i] = queue[i + 1]
  BY <1>1, <1>2
<1>4. IsSeq(queue')
  BY <1>3 DEF IsSeq
<1>5. ASSUME NEW c \in Chnl, HasMsg(c), ~ForChnl(m, c) PROVE HasMsg(c)'
  <2>1. PICK i \in 1..Len(queue) : ForChnl(queue[i], c)
    BY <1>5 DEF HasMsg
  <2>2. i # 1
    BY <1>3, <1>5, <2>1
  <2>3. i - 1 \in 1..Len(queue') /\ queue'[i - 1] = queue[i]
    BY <1>3, <2>1, <2>2
  <2> QED
    BY <2>1, <2>3 DEF HasMsg, ForChnl
<1>6. CASE m.type \in {"CMD", "TXDATA"}
  <2>1. /\ tx_list' = IF m.retry THEN tx_list ELSE [tx_list EXCEPT ![c0] = Append(@, m.buf)]
        /\ thread' = [thread EXCEPT !.pc = "test", !.chnl = c0]
    BY <1>6 DEF wdrv_main
  <2>2. c0 \in Chnl /\ \A c \in Chnl : c # c0 => ~ForChnl(m, c)
    BY <1>6 DEF Chnl, ForChnl
  <2> HIDE DEF c0
  <2>3. thread'.pc = "test" /\ thread'.chnl = c0 /\ ThreadOK'
    BY <2>1, <2>2 DEF TxInv, Shape, ThreadOK
  <2>4. Shape'
    BY <1>1, <1>4, <2>1, <2>2, <2>3 DEF TxInv, Shape, IsrOK
  <2>5. Flags'
    BY <1>1, <2>3 DEF TxInv, Flags, Working
  <2>6. ASSUME NEW c \in Chnl, tx_list'[c] # <<>>, ~sending'[c] PROVE Noticed(c)'
    <3>1. CASE c = c0
      BY <2>3, <3>1 DEF Noticed, Working
    <3>2. CASE c # c0
      <4>1. tx_list'[c] = tx_list[c]
        BY <2>1, <2>2, <3>2 DEF TxInv, Shape
      <4>2. Noticed(c) /\ ~Working({"test", "push", "clear"}, c)
        BY <1>1, <2>6, <4>1 DEF TxInv, Watched, Working
      <4>3. HasMsg(c) => HasMsg(c)'
        BY <1>5, <2>2, <3>2
      <4> QED
        BY <1>1, <4>2, <4>3 DEF Noticed
    <3> QED
      BY <3>1, <3>2
  <2> QED
    BY <2>4, <2>5, <2>6 DEF TxInv, Watched
<1>7. CASE m.type \in {"EVENT", "RXDATA"}
  <2>1. /\ tx_list' = tx_list
        /\ \/ thread' = thread
           \/ \E pc \in {"find", "sender", "repost"} :
                 thread' = [thread EXCEPT !.msg = m.ev, !.pc = pc]
    <3>1. /\ tx_list' = tx_list
          /\ \/ m.type = "EVENT" /\
                thread' = CASE m.ev.kind = "cfm" -> [thread EXCEPT !.msg = m.ev, !.pc = "find"]
                            [] m.ev.kind = "special" -> [thread EXCEPT !.msg = m.ev, !.pc = "sender"]
                            [] OTHER -> thread
             \/ m.type = "RXDATA" /\
                thread' = CASE m.ev.kind = "txc" -> thread
                            [] m.ev.kind = "special" -> [thread EXCEPT !.msg = m.ev, !.pc = "repost"]
                            [] OTHER -> [thread EXCEPT !.msg = m.ev, !.pc = "sender"]
      BY <1>7 DEF wdrv_main
    <3> QED
      BY <3>1
  <2>2. thread' = thread \/ (ThreadOK' /\ thread'.pc \notin {"test", "push", "clear"})
    BY <2>1 DEF TxInv, Shape, ThreadOK
  <2>3. \A c \in Chnl : ~ForChnl(m, c)
    BY <1>7 DEF Chnl, ForChnl
  <2>4. Quiet
    BY <1>1, <1>4, <1>5, <2>1, <2>2, <2>3 DEF Quiet
  <2> QED
    BY <2>4, QuietStep
<1> QED
  BY <1>6, <1>7 DEF wdrv_main

\* The list is taken, written and cleared.
LEMMA WriteInv ==
    ASSUME TxInv, TestSending \/ wdrv_txbuf_push \/ co_list_init PROVE TxInv'
<1> DEFINE c0 == thread.chnl
<1>0. c0 \in Chnl /\ ThreadOK /\ Waiting.pc = "pop" /\ Waiting.chnl \in Chnl
  BY DEF TxInv, Shape, ThreadOK, Waiting, Chnl
<1>w. ASSUME thread' = Waiting PROVE ThreadOK' /\ thread'.pc = "pop"
  BY <1>w DEF ThreadOK, Waiting, Chnl
<1>p. ASSUME NEW pc, thread' = [thread EXCEPT !.pc = pc]
      PROVE  ThreadOK' /\ thread'.pc = pc /\ thread'.chnl = c0
  BY <1>0, <1>p DEF ThreadOK
<1>o. ASSUME NEW c \in Chnl, c # c0, Noticed(c), UNCHANGED <<queue, isr>>, lost \subseteq lost'
      PROVE  Noticed(c)'
  BY <1>o DEF Noticed, Working, HasMsg
<1>1. CASE TestSending
  <2>1. /\ thread.pc = "test"
        /\ thread' = IF sending[c0] THEN Waiting ELSE [thread EXCEPT !.pc = "push"]
        /\ sending' = [sending EXCEPT ![c0] = TRUE]
        /\ UNCHANGED <<queue, tx_list, wire, isr, lost>>
    BY <1>1 DEF TestSending
  <2>2. ThreadOK' /\ (sending[c0] => thread'.pc = "pop")
                  /\ (~sending[c0] => thread'.pc = "push" /\ thread'.chnl = c0)
    BY <2>1, <1>w, <1>p
  <2>3. Shape'
    BY <1>0, <2>1, <2>2 DEF TxInv, Shape, IsrOK, IsSeq
  <2>4. Flags'
    BY <1>0, <2>1, <2>2 DEF TxInv, Shape, Flags, Working
  <2>5. Watched'
    BY <1>0, <1>o, <2>1 DEF TxInv, Shape, Watched
  <2> QED
    BY <2>3, <2>4, <2>5 DEF TxInv
<1>2. CASE wdrv_txbuf_push
  <2>1. thread.pc = "push" /\ UNCHANGED <<queue, tx_list, isr>> /\ lost \subseteq lost'
    BY <1>2 DEF wdrv_txbuf_push
  <2>2. wire[c0].st = "idle" /\ sending[c0]
    BY <1>0, <2>1 DEF TxInv, Flags, Working
  <2>3. CASE /\ sending' = [sending EXCEPT ![c0] = FALSE] /\ thread' = Waiting /\ wire' = wire
             /\ tx_list[c0] = <<>> \/ "refused" \in lost'
    <3>1. Shape'
      BY <1>0, <1>w, <2>1, <2>3 DEF TxInv, Shape, IsrOK, IsSeq
    <3>2. Flags'
      BY <1>0, <1>w, <2>1, <2>2, <2>3 DEF TxInv, Shape, Flags, Working
    <3>3. ASSUME NEW c \in Chnl, tx_list'[c] # <<>>, ~sending'[c] PROVE Noticed(c)'
      <4>1. CASE c = c0
        BY <2>1, <2>3, <3>3, <4>1 DEF Noticed
      <4>2. CASE c # c0
        <5>1. Noticed(c)
          BY <1>0, <2>1, <2>3, <3>3, <4>2 DEF TxInv, Shape, Watched
        <5> QED
          BY <1>o, <2>1, <4>2, <5>1
      <4> QED
        BY <4>1, <4>2
    <3> QED
      BY <3>1, <3>2, <3>3 DEF TxInv, Watched
  <2>4. CASE UNCHANGED <<sending, thread, wire, lost>>
    BY <2>1, <2>4, Same
  <2>5. CASE /\ \E node : wire' = [wire EXCEPT ![c0] = [st |-> "sent", node |-> node]]
             /\ thread' = [thread EXCEPT !.pc = "clear"] /\ sending' = sending
    <3>1. /\ wire'[c0].st = "sent" /\ (\A c \in Chnl : c # c0 => wire'[c] = wire[c])
          /\ wire' = [c \in Chnl |-> [st |-> wire'[c].st, node |-> wire'[c].node]]
      <4>1. PICK node : wire' = [wire EXCEPT ![c0] = [st |-> "sent", node |-> node]]
        BY <2>5
      <4>2. /\ wire = [c \in Chnl |-> wire[c]] /\ wire' = [c \in Chnl |-> wire'[c]]
            /\ wire'[c0] = [st |-> "sent", node |-> node]
            /\ \A c \in Chnl : c # c0 => wire'[c] = wire[c]
        BY <1>0, <4>1, Zenon DEF TxInv, Shape
      <4>3. \A c \in Chnl : wire[c] = [st |-> wire[c].st, node |-> wire[c].node]
        BY DEF TxInv, Shape
      <4>4. \A c \in Chnl : wire'[c] = [st |-> wire'[c].st, node |-> wire'[c].node]
        BY <4>2, <4>3
      <4> QED
        BY <4>2, <4>4
    <3>2. Shape'
      BY <1>p, <2>1, <2>5, <3>1 DEF TxInv, Shape, IsrOK, IsSeq
    <3>3. Flags'
      BY <1>0, <1>p, <2>1, <2>2, <2>5, <3>1 DEF TxInv, Flags, Working
    <3>4. Watched'
      BY <1>o, <2>1, <2>2, <2>5 DEF TxInv, Watched
    <3> QED
      BY <3>2, <3>3, <3>4 DEF TxInv
  <2> QED
    BY <1>2, <2>3, <2>4, <2>5 DEF wdrv_txbuf_push
<1>3. CASE co_list_init
  <2>1. /\ thread.pc = "clear" /\ thread' = Waiting
        /\ tx_list' = [tx_list EXCEPT ![c0] = <<>>]
        /\ UNCHANGED <<queue, sending, wire, isr, lost>>
    BY <1>3 DEF co_list_init
  <2>2. Shape'
    BY <1>0, <1>w, <2>1 DEF TxInv, Shape, IsrOK, IsSeq
  <2>3. Flags'
    BY <1>w, <2>1 DEF TxInv, Flags, Working
  <2>4. ASSUME NEW c \in Chnl, tx_list'[c] # <<>>, ~sending'[c] PROVE Noticed(c)'
    <3>1. c # c0 /\ tx_list'[c] = tx_list[c]
      BY <1>0, <2>1, <2>4 DEF TxInv, Shape
    <3>2. Noticed(c)
      BY <2>1, <2>4, <3>1 DEF TxInv, Watched
    <3> QED
      BY <1>o, <2>1, <3>1, <3>2
  <2> QED
    BY <2>2, <2>3, <2>4 DEF TxInv, Watched
<1> QED
  BY <1>1, <1>2, <1>3

\* The other steps of wdrv_main are about confirmations and frames.
LEMMA OtherInv ==
    ASSUME TxInv,
           \/ FindEntry \/ CopyResult \/ EnterMain \/ ExtractEntry \/ SetSemaphore
           \/ ReturnFrame \/ RepostSpecial
    PROVE  TxInv'
<1> USE DEF tx
<1>1. ThreadOK /\ IsSeq(queue)
  BY DEF TxInv, Shape
<1>2. ASSUME thread' = Waiting PROVE ThreadOK' /\ thread'.pc = "pop"
  BY <1>2 DEF ThreadOK, Waiting, Chnl
<1>3. ASSUME NEW pc, thread' = [thread EXCEPT !.pc = pc] PROVE ThreadOK' /\ thread'.pc = pc
  BY <1>1, <1>3 DEF ThreadOK
<1>4. CASE /\ UNCHANGED <<queue, sending, tx_list, wire, isr, lost>>
           /\ thread.pc \notin {"test", "push", "clear"}
           /\ thread' = thread \/ (ThreadOK' /\ thread'.pc \notin {"test", "push", "clear"})
  <2>1. Quiet
    BY <1>1, <1>4 DEF Quiet, HasMsg, IsSeq
  <2> QED
    BY <2>1, QuietStep
<1>5. CASE FindEntry
  <2>1. ASSUME NEW e, NEW n,
               thread' = [thread EXCEPT !.ent = e, !.n = n, !.pc = "copy"]
        PROVE  ThreadOK' /\ thread'.pc = "copy"
    BY <1>1, <2>1 DEF ThreadOK
  <2>2. thread' = Waiting \/ thread' = [thread EXCEPT !.ent = MatchingEntry,
                                        !.n = call[MatchingEntry].n, !.pc = "copy"]
    BY <1>5 DEF FindEntry
  <2>3. ThreadOK' /\ thread'.pc \in {"pop", "copy"}
    BY <1>2, <2>1, <2>2
  <2> QED
    BY <1>4, <1>5, <2>3 DEF FindEntry
<1>6. CASE CopyResult
  BY <1>3, <1>4, <1>6 DEF CopyResult
<1>7. CASE EnterMain
  BY <1>3, <1>4, <1>7 DEF EnterMain
<1>8. CASE ExtractEntry
  BY <1>3, <1>4, <1>8 DEF ExtractEntry
<1>9. CASE SetSemaphore
  BY <1>2, <1>4, <1>9 DEF SetSemaphore
<1>10. CASE ReturnFrame
  <2>1. /\ wdrv_msg_sender(ToSend("TXDATA", thread.msg.buf)) /\ thread.pc = "sender"
        /\ UNCHANGED <<sending, tx_list, wire, isr>> /\ lost \subseteq lost'
        /\ thread' = Waiting
    BY <1>10 DEF ReturnFrame
  <2>2. IsSeq(queue') /\ \A c \in Chnl : HasMsg(c) => HasMsg(c)'
    BY <1>1, <2>1, Posted, Zenon
  <2>3. Quiet
    BY <1>2, <2>1, <2>2 DEF Quiet
  <2> QED
    BY <2>3, QuietStep
<1>11. CASE RepostSpecial
  <2>1. /\ wdrv_msg_sender(Received("EVENT", thread.msg)) /\ thread.pc = "repost"
        /\ UNCHANGED <<sending, tx_list, wire, isr>> /\ lost \subseteq lost'
        /\ thread' = Waiting
    BY <1>11 DEF RepostSpecial
  <2>2. IsSeq(queue') /\ \A c \in Chnl : HasMsg(c) => HasMsg(c)'
    BY <1>1, <2>1, Posted, Zenon
  <2>3. Quiet
    BY <1>2, <2>1, <2>2 DEF Quiet
  <2> QED
    BY <2>3, QuietStep
<1> QED
  BY <1>5, <1>6, <1>7, <1>8, <1>9, <1>10, <1>11

\* The completion clears sending_flag first and looks at the list afterwards.
LEMMA IsrInv ==
    ASSUME TxInv, IsrStep PROVE TxInv'
<1> USE DEF same
<1>1. IsrOK /\ IsSeq(queue)
  BY DEF TxInv, Shape
<1>2. ASSUME isr' = Done PROVE IsrOK'
  BY <1>2 DEF IsrOK, Done, Chnl
<1>3. ASSUME NEW c0 \in Chnl, wdrv_tx_complete(c0) PROVE TxInv'
  <2>1. /\ wire[c0].st = "ack" /\ wire' = [wire EXCEPT ![c0].st = "idle"]
        /\ sending' = [sending EXCEPT ![c0] = FALSE]
        /\ isr.pc = "idle" /\ isr' = [isr EXCEPT !.pc = "look", !.chnl = c0]
        /\ UNCHANGED <<queue, tx_list, thread, lost>>
    BY <1>3 DEF wdrv_tx_complete
  <2>2. IsrOK' /\ isr'.pc = "look" /\ isr'.chnl = c0
    BY <1>1, <2>1 DEF IsrOK
  <2>3. /\ wire' = [c \in Chnl |-> [st |-> wire'[c].st, node |-> wire'[c].node]]
        /\ wire'[c0].st = "idle" /\ \A c \in Chnl : c # c0 => wire'[c] = wire[c]
    <3>1. /\ \A c \in Chnl : wire[c] = [st |-> wire[c].st, node |-> wire[c].node]
          /\ wire = [c \in Chnl |-> wire[c]]
      BY DEF TxInv, Shape
    <3>2. wire' = [wire EXCEPT ![c0] = [wire[c0] EXCEPT !.st = "idle"]]
      BY <2>1
    <3>3. [wire[c0] EXCEPT !.st = "idle"] = [st |-> "idle", node |-> wire[c0].node]
      BY <3>1
    <3>4. /\ wire' = [c \in Chnl |-> wire'[c]]
          /\ wire'[c0] = [st |-> "idle", node |-> wire[c0].node]
          /\ \A c \in Chnl : c # c0 => wire'[c] = wire[c]
      BY <3>1, <3>2, <3>3, Zenon
    <3>5. \A c \in Chnl : wire'[c] = [st |-> wire'[c].st, node |-> wire'[c].node]
      BY <3>1, <3>4
    <3> QED
      BY <3>4, <3>5
  <2>4. Shape'
    BY <2>1, <2>2, <2>3 DEF TxInv, Shape, ThreadOK, IsSeq
  <2>5. Flags'
    BY <2>1, <2>3 DEF TxInv, Shape, Flags, Working
  <2>6. ASSUME NEW c \in Chnl, tx_list'[c] # <<>>, ~sending'[c] PROVE Noticed(c)'
    <3>1. CASE c = c0
      BY <2>2, <3>1 DEF Noticed
    <3>2. CASE c # c0
      <4>1. Noticed(c)
        BY <2>1, <2>6, <3>2 DEF TxInv, Shape, Watched
      <4> QED
        BY <2>1, <4>1 DEF Noticed, Working, HasMsg
    <3> QED
      BY <3>1, <3>2
  <2> QED
    BY <2>4, <2>5, <2>6 DEF TxInv, Watched
<1>4. CASE PostRetry
  <2>0. PICK c0 \in Chnl : c0 = isr.chnl
    BY <1>1 DEF IsrOK
  <2> DEFINE m == Retry(IF c0 = "cmd" THEN "CMD" ELSE "TXDATA")
  <2>1. /\ isr.pc = "look" /\ isr' = Done /\ lost \subseteq lost'
        /\ UNCHANGED <<sending, tx_list, wire, thread>>
        /\ \/ tx_list[c0] = <<>> /\ queue' = queue
           \/ wdrv_msg_sender(m) /\ (Room \/ "retry" \in lost')
    BY <1>4, <2>0 DEF PostRetry
  <2>2. ForChnl(m, c0)
    BY DEF ForChnl, Retry
  <2>3. /\ IsSeq(queue') /\ \A c \in Chnl : HasMsg(c) => HasMsg(c)'
        /\ tx_list[c0] = <<>> \/ HasMsg(c0)' \/ "retry" \in lost'
    <3>1. CASE tx_list[c0] = <<>> /\ queue' = queue
      BY <1>1, <3>1 DEF IsSeq, HasMsg
    <3>2. CASE wdrv_msg_sender(m) /\ (Room \/ "retry" \in lost')
      <4> HIDE DEF m
      <4> QED
        BY <1>1, <2>2, <3>2, Posted, Zenon
    <3> QED
      BY <2>1, <3>1, <3>2
  <2>4. Shape'
    BY <1>2, <2>1, <2>3 DEF TxInv, Shape, ThreadOK
  <2>5. Flags'
    BY <2>1 DEF TxInv, Flags, Working
  <2>6. ASSUME NEW c \in Chnl, tx_list'[c] # <<>>, ~sending'[c] PROVE Noticed(c)'
    <3>1. CASE c = c0
      BY <2>1, <2>3, <2>6, <3>1 DEF Noticed
    <3>2. CASE c # c0
      <4>1. Noticed(c)
        BY <2>1, <2>6 DEF TxInv, Watched
      <4> QED
        BY <2>0, <2>1, <2>3, <3>2, <4>1 DEF Noticed, Working
    <3> QED
      BY <3>1, <3>2
  <2> QED
    BY <2>4, <2>5, <2>6 DEF TxInv, Watched
<1>5. ASSUME NEW c0 \in Chnl, wdrv_recv_buffer(c0) PROVE TxInv'
  <2>1. /\ isr.pc = "idle" /\ isr' = [pc |-> "recv", chnl |-> c0, todo |-> up[c0]]
        /\ UNCHANGED <<queue, sending, tx_list, wire, thread, lost>>
    BY <1>5 DEF wdrv_recv_buffer, tx
  <2>2. IsrOK'
    BY <2>1 DEF IsrOK
  <2>3. Quiet
    BY <1>1, <2>1, <2>2 DEF Quiet, IsSeq, HasMsg
  <2> QED
    BY <2>3, QuietStep
<1>6. CASE PostReceived
  <2> DEFINE m == Received(IF isr.chnl = "cmd" THEN "EVENT" ELSE "RXDATA", Head(isr.todo))
  <2>1. /\ isr.pc = "recv" /\ wdrv_msg_sender(m) /\ lost \subseteq lost'
        /\ isr' = Done \/ isr' = [isr EXCEPT !.todo = Tail(@)]
        /\ UNCHANGED <<sending, tx_list, wire, thread>>
    BY <1>6 DEF PostReceived
  <2>2. IsrOK'
    BY <1>1, <1>2, <2>1 DEF IsrOK
  <2> HIDE DEF m
  <2>3. IsSeq(queue') /\ \A c \in Chnl : HasMsg(c) => HasMsg(c)'
    BY <1>1, <2>1, Posted, Zenon
  <2>4. Quiet
    BY <2>1, <2>2, <2>3 DEF Quiet
  <2> QED
    BY <2>4, QuietStep
<1> QED
  BY <1>3, <1>4, <1>5, <1>6 DEF IsrStep

\* Every step of the driver and of the CP keeps TxInv.
LEMMA TxInvStep == TxInv /\ [Next]_vars => TxInv'
<1> SUFFICES ASSUME TxInv, [Next]_vars PROVE TxInv'
  OBVIOUS
<1>1. CASE UNCHANGED vars
  BY <1>1, Same DEF vars, tx
<1>2. ASSUME NEW t \in Task, wdrv_tx_msg(t) \/ TaskStep(t) \/ TimedOut(t) PROVE TxInv'
  BY <1>2, TaskInv
<1>3. ASSUME NEW p \in Packet, wdrv_txdata_sender(p) PROVE TxInv'
  BY <1>3, PacketInv
<1>4. CASE MainStep
  BY <1>4, PopInv, WriteInv, OtherInv DEF MainStep
<1>5. CASE IsrStep
  BY <1>5, IsrInv
<1>6. CASE CpStep \/ CpEvent \/ (\E f \in Frame, kind \in {"msdu", "special"} : CpFrame(f, kind))
  BY <1>6, CpInv
<1> QED
  BY <1>1, <1>2, <1>3, <1>4, <1>5, <1>6 DEF Next

\* No list is ever forgotten: sending_flag is set only while a write is under way or about
\* to start, and a list that waits while it is clear will be looked at, unless a write was
\* refused or the queue was full for the message of the completion
\* (wdrv_txdata_pre_process, wdrv_tx_complete, wdrv_tx_msg_complete).
THEOREM TxLiveCorrect == Spec => []TxLive
<1>1. Init => TxInv
  BY TxInvInit
<1>2. TxInv /\ [Next]_vars => TxInv'
  BY TxInvStep
<1>3. TxInv => TxLive
  BY TxInvTxLive
<1> QED
  BY <1>1, <1>2, <1>3, PTL DEF Spec
=============================================================================
