# Verification of the BK7258 inter-core software

This directory holds TLA+ specifications of the inter-core software of the
openvela port to the Beken BK7258, the TLC models that check them on small
instances, and TLAPS proofs for every value of the constants. Paths below are
relative to `src/chips` unless a module of this directory is meant.

## 1. The system

The BK7258 has three Cortex-M33 cores. CPU0 runs the communication processor
(CP: Wi-Fi, BLE, flash server, watchdog); its image is a binary that is not in
the repository. CPU1 and CPU2 run NuttX in SMP mode as the application
processor (AP). The repository is the AP side: chip support (`bk7258`),
drivers (`drivers`), components (`component`), board files and tools. AP and CP
share memory and talk through a mailbox unit; almost every service of the AP
(logs, flash, SARADC, resource locks, power votes, Wi-Fi, Bluetooth) is a
client of the CP and rests on that mailbox.

```
   Wi-Fi driver   flash client   easy_log    resource locks
   WifiDriver     FlashClient       |         AmpResLock
        |              |         MbUart           |
        |          IpcSocket        |          IpcCmd
        |              |            |             |
        +--------------+-----+------+-------------+
                             |
                 ChannelLink (what the channels promise)
                             |  implemented by, MailboxLink
                 MailboxChannel (channels, boxes, FIFOs, interrupts)
```

| part | source | state | what makes it hard | modules |
|---|---|---|---|---|
| mailbox unit and SMP interrupts | `drivers/mailbox/mbox0_*.c` | two message boxes per direction, a FIFO of addresses per receiving core (3 entries AP, 2 CP) | an address leaves the FIFO before its box is copied; the other AP core pushes interrupts to the same FIFO without asking | `MailboxChannel` |
| mailbox channels | `drivers/mailbox/mailbox_channel.c` | state of the physical channel, state and one-message buffer per logical channel, callbacks | two cores, interrupt handlers, closing while messages travel, an 8-bit sequence number | `MailboxChannel`, `ChannelLink`, `MailboxLink`, `MailboxInv` |
| inter-core commands | `drivers/mailbox/mb_ipc_cmd.c` | one request record, two semaphores, answer buffer | a 600 ms timeout against a late answer | `IpcCmd` |
| AMP resource locks | `drivers/spinlock/amp_res_lock.c` | request counts of the server, a semaphore per core | timeout against grant; counts and semaphores change separately | `AmpResLock` |
| sockets | `drivers/mailbox/mb_ipc.c` | sockets, connections, the queue of the router | the queue is shared by tasks and handlers, answers come after timeouts | `IpcSocket` |
| flash client | `drivers/flash/flash_client.c` | one socket, one operation at a time | retries and reconnection after a timeout | `FlashClient` |
| virtual UART | `drivers/mailbox/mb_uart_driver.c` | two rings, flags of the flow control | tasks and handler without a lock; flow control in both directions | `MbUart` |
| log output | `component/easy_log` | the transmit ring | busy waiting in exception mode | `MbUart` |
| Wi-Fi driver | `component/bk_wifi_driver` | a queue, two lists with flags, pending confirmations | completions overtake the writer, confirmations come late | `WifiDriver` |

`PROJECT.json` lists every other part of the repository with the reason why it
is not modelled: register programming, thin calls of NuttX (whose code is not
in the repository), third-party code and tools.

Each layer above the channels is specified over what `MailboxChannel` shows of
a channel (one command waits while one is under way, messages to a node arrive
in order, a completion follows the handling), not over its detail. That the
channels keep this promise is the refinement of section 2.

In every module an action is one critical section, or one access to memory that
another context reads or writes outside of a critical section. Names of
variables and actions are those of the code. Definitions whose names end in a
suffix such as `_onebox` or `_wide` and that follow a comment `mutant:` are
deliberate mistakes; they are not part of a specification, and serve to see that
each property notices one.

## 2. Mailbox channels

`MailboxChannel` models the three files of the driver together, for the pair
of ends AP and CP. Both ends run the same code with the roles swapped; this is
the assumption made about the CP image.

| code | specification |
|---|---|
| `phy_chnl_x_cb[peer]` | `phy[n]` |
| `log_chnl_cbX[].tx_state`, `chnnl_tx_buff`, `in_used`, `rx_isr`, `tx_cmpl_isr` | `tx_busy`, `tx_buff`, `in_used`, `rx_isr`, `tx_cmpl_isr` (sets of channels per node) |
| `mailbox_tx_box`, `mailbox_buff` | `tx_box`, `mbuff` |
| receive FIFO of the mailbox unit | `fifo`, with `IPI` for entries of length 0 |
| the running interrupt handler | `isr[n]`: program counter, box or message at hand |
| nothing (history) | `written`, `rcvd`, `done` |

The interrupt of a node is cut where the other core can observe or disturb it:
pop of the FIFO, copy of the box, handler of an acknowledgement up to and
including the `tx_cmpl_isr` callback, the search for the next channel (a
critical section), handler of a command including the `rx_isr` callback, send of
the acknowledgement (a critical section). `mb_chnl_close` stores without
protection and is two actions. A writer that has passed the `in_used` test
before a close (`late`) may still write after it. The three parameter words of
a message are one identity that no guard reads.

`bk_mailbox_send` tests the FIFO and pushes later. The second disjunct of the
push is the race with the other core, whose interrupt takes the last entry in
between: the address is then lost although `BK_OK` is returned.

`ChannelLink` is the promise to the drivers: per direction a wire that carries
one command at a time, most urgent waiting channel first, handled or turned
down once, completion reported afterwards. `MailboxLink` gives the refinement
mapping; the command under way is found wherever it is (box, handler,
acknowledgement).

| run | specification | bounds | shows |
|---|---|---|---|
| `progress` | `FairSpec` | 2 channels, 3 + 1 commands, sequence modulus 2, 1 interrupt | `NoStranded`, `PriorityOrder`, `WriteSent`, and `FairSpec` implements `LinkSpec` |
| `teardown` | `Spec` | 1 channel, 2 + 1 commands, 3 calls of open, close, ctrl | `CompletedAfterHandled`, refinement of the safety part |
| `flood` | `Spec` | 2 channels, 3 + 2 commands, modulus 3, up to 3 interrupts (a full FIFO) | `TypeOK`, `AcksMatch`, `UnreadIntact`, `AtMostOnce` although messages are refused or lost |
| `boot_refused` | `BootSpec` | 2 channels, 2 commands per end, reset notification unread | violation of `WriteSent`, see section 8 |

Bounds. The FIFO depths are those of the SMP build. A modulus of 2 or 3 makes
the sequence number wrap within the run, which 256 would not. Two channels are
the least for priority, and three commands of one end are the least for two
channels to wait while a command is under way; they are also enough for both
boxes to be reused while an older message is unread. One interrupt beside a command and
an acknowledgement fills the FIFO of the AP exactly (`progress`); `flood`
exceeds it. `NoStranded`, `PriorityOrder`, `WriteSent` and the refinement are
not true there: a send or an acknowledgement that a full FIFO refuses is not
repeated, and a command of another channel may then overtake the refused one.
Deadlock is not checked because the drivers may stop writing.

Fairness. `WF(Isr(n))`: a pending mailbox interrupt is served and its handler
runs to its end. Interrupt hardware and the loop of `mbox0_drv_isr_handler`
justify it. Nothing is assumed of the applications.

### Proofs

| theorem | module | statement |
|---|---|---|
| `TypeCorrect` | `MailboxChannelProofs` | `Spec => []TypeOK` |
| `StructCorrect` | `MailboxTokenProofs` | `Spec => []StructInv` |
| `UnreadIntactCorrect` | `MailboxTokenProofs` | `Spec => UnreadIntact` |
| `AcksMatchCorrect` | `MailboxMatchProofs` | `Spec => []AcksMatch` |
| `AtMostOnceCorrect` | `MailboxLinkProofs` | `Spec => []AtMostOnce` |
| `CompletedAfterHandledCorrect` | `MailboxLinkProofs` | `Spec => []CompletedAfterHandled` |
| `NoStrandedCorrect` | `MailboxLinkProofs` | `Roomy` implies `Spec => []NoStranded` |
| `PriorityOrderCorrect` | `MailboxLinkProofs` | `Roomy` implies `Spec => PriorityOrder` |
| `RefinesLinkCorrect` | `MailboxLinkProofs` | `Roomy` implies `Spec => RefinesLink` |

They hold for every number of channels, FIFO depth, number of interrupts,
sequence modulus and set of opened channels that satisfy `ConstantsOK` (the
types of the constants). `Roomy` says that the FIFO of a node holds the
interrupts of its other core beside one command and one acknowledgement. With
the depths of the SMP build it allows one unread interrupt at a time;
`flood` has more, and there the last three theorems would be false.

* `StructInv` (in `MailboxInv`). That no unread box is overwritten is not
  inductive. Every direction has at most one command, which is in exactly one
  place (`OneToken`), an address is referenced once (`OneReference`), the two
  boxes never hold two unread messages of one kind (`TwoKinds`), and the box
  that the next send takes is unread only while the newer one is queued behind
  it, or while the newer one was lost in a full FIFO (`BoxOrder`). In the first
  case both kinds are under way, so neither a command nor an acknowledgement may
  be sent; in the second the physical channel stays BUSY for ever and the only
  kind left cannot be sent either. `CmdSent` and `AckSent` treat the two kinds
  of send.
* `MatchInv`. Every message that travels carries the channel and sequence
  number of the command its direction sent last. The sequence number is thus not
  needed between two correct ends, whatever its width, as long as no synchronous
  write and no reset notification intervene.
* `StepKinds`. From these two the module `MailboxLinkProofs` derives once what a
  step does to `Travelling(n)`, the set of messages of a direction, which has at
  most one element: nothing, a command waits, leaves or is resumed, it is
  handled or turned down, completed, or the channel comes to rest. The
  remaining proofs have one case per kind instead of one per action.
* `IdInv`. The command that travels is newer than what its channel last handled
  at the peer and older than the one that waits in the channel; an
  acknowledgement is newer than what was last completed. `AtMostOnce` and
  `CompletedAfterHandled` follow, also with a full FIFO.
* `RoomInv`. The FIFO of a node holds nothing but interrupts of its other core
  and the queued boxes of its peer. With `Roomy` and the order of the boxes no
  send is refused or dropped (`RoomToSend`), which is what `NoStranded` and each
  step of the refinement need.

Liveness (`WriteSent`, the fair refinement `RefinesFairLink`) is only
model-checked, since it is beyond the prover.

## 3. Inter-core commands

`IpcCmd` models a caller of `mb_ipc_cmd.c`: `ipc_send_cmd` on one side, and
`ipc_cmd_tx_cmpl_isr` and `ipc_cmd_rx_isr` on the other, which run on the other
AP core beside it.

| code | specification |
|---|---|
| `ipc_chnl_cb`: `chnl_sema`, `rsp_sema`, `tx_cmd`, `tx_cmd_in_process`, `tx_cmd_failed`, `rsp_buf` | variables of the same names; `rsp_len` is part of `rsp_buf` |
| `tx_xchg_buff`, which is `rx_xchg_buff` of the peer | `xchg` |
| logical channel, physical channel | `tx` (written, not sent), `fly` (sent or acknowledged) |
| answer to a pending command | `rsps`, commands of the peer with `IPC_RSP_CMD_FLAG` |
| a task in `ipc_send_cmd`, the handler | `pc`, `call`, `ret`; `isr` |

The data of a call is its number, so that an answer can be told from another.
Lengths are abstracted to a choice: too long for the exchange buffer, for
`rsp_buf`, or for the buffer of the caller. A `FAIL` stands for a refused
command and for `CHNL_STATE_COM_FAIL`. The handlers are cut at the test of
`tx_cmd_in_process`, the stores and the post, since the task reads those. The
AP's `ipc_init` runs in `driver_init` before its callers and is the initial
state. A wait may time out at any moment at which `rsp_sema` is zero, at most
`MaxTimeout` times.

| run | specification | bounds | shows |
|---|---|---|---|
| `ipc` | `FairSpec` | 2 tasks, 2 commands, 3 calls, 1 timeout | `TypeOK`; until a wait times out `OwnAnswer`, `CallbackFirst`, `NoLeftover`, `RequestIntact`; and `SendReturns` |
| `ipc_late` | `Spec` | 2 calls, 1 timeout | violation of `CallbackDone`, see section 8 |

Three calls let an overtaken acknowledgement of the first meet the second while
the third waits; two commands tell apart a late message that is dropped by its
number from one that is accepted. Fairness: tasks run, the mailbox sends
(`WriteSent`), the peer answers and interrupts are served. Calls are bounded,
so deadlock is not checked.

Proved (`IpcCmdProofs`), for any tasks, commands, number of calls and of
timeouts: `IpcTypeCorrect`, and, until a wait times out, `OwnAnswerCorrect`,
`CallbackFirstCorrect`, `NoLeftoverCorrect` and `RequestIntactCorrect`. After a
timeout they are false, as `ipc_late` shows for the second. The invariant
`IpcInv` follows a call through its stages (in the channel, sent, acknowledged,
answered, held by the handler, stored, posted) and says that exactly one of
them holds while the task waits; when nobody waits, nothing is under way but the
acknowledgement of a pending command that its answer has overtaken.
`SendReturns` is liveness and model-checked only.

## 4. AMP resource locks

`AmpResLock` models the lock of one resource. The CP is the server
(`req_cnt`), the AP the client; every CPU has a semaphore (`res_sema`). A task
goes through `amp_res_lock_acquire` and `amp_res_lock_release` step by step;
what it reads into `cnt_list` is kept as its next step (`pc`). The functions of
the server are one critical section each and are part of the step that calls
them.

A call of `ipc_send_cmd` has three outcomes. It returns its own answer. Or it
fails: `mb_chnl_write` refuses it, or its wait times out, in which case the
request is lost or served later with nobody waiting for it (`late`). Or, once a
call of the CPU has timed out (`overdue`), it is mixed up with another one
(`mixed`): an answer left in `rsp_buf` and `rsp_sema` ends it at once, with
counts of another moment, with a `cnt_list` that nobody has written, or with a
failure, while its own request is still under way; and since the next call
writes its arguments into the same exchange buffer, a request under way for
something else may become one for this resource, or be counted for the other
CPU. The first outcome is what `OwnAnswer` and `RequestIntact` of `IpcCmd` say
until a wait times out; the third is what `ipc_late` shows. The overdue call may
be about anything, as all calls of a CPU share one channel (`OtherOverdue`).

Semaphores have no upper limit, because `rtos_init_semaphore` ignores
`max_count`. `owner_cpu` is only read by `amp_res_lock_reset_all`.

| run | specification | bounds | shows |
|---|---|---|---|
| `lock` | `FairSpec` | 1 timeout, 1 failed call, 1 mixed up call | `TypeOK`; until calls are mixed up `CountsMatch`; until moreover a wait for the semaphore times out `MutualExclusion`; until a wait times out or a call fails `GrantKept` and `Granted` |
| `lock_timeout_owners` | `Spec` | 1 timeout | violation of `OneHolder`, see section 8 |

After a mixed up call two tasks can own the resource, and the server can forget
a request; nothing in the code prevents it, and the properties claim nothing
there except the types. Calls that fail or are served late without a mix-up are
within `MutualExclusion` and `CountsMatch`.

Both have two tasks on each CPU: one that owns the resource and one that waits
at home are what `amp_res_lock_release` tells apart. A lost grant leaves
everybody waiting, so deadlock is not checked where calls fail; `Granted`
excludes it as long as none does. Fairness: a task that can go on does, and an
owner releases. A particular task may wait for ever, since a CPU serves itself
first; `Granted` therefore says that somebody gets the resource.

Proved (`AmpResLockProofs`), for any tasks and any number of timeouts, failed,
late and mixed up calls, under the conditions of the table: `LockTypeCorrect`,
`CountsMatchCorrect`, `MutualExclusionCorrect` and `GrantKeptCorrect`. With
`BEKEN_WAIT_FOREVER` no wait for the semaphore times out; the condition on mixed
up calls remains. The invariant `LockInv` says that the right to the resource
is in one place: with a task, in one semaphore or in one late call
(`OneRight`), that wherever it is a request is counted (`Counted`), and that
nobody takes a request back (`Patient`). `CountInv` says that the counts equal
the requesting tasks and the late releases, and that nobody asks before the
initialisation. `MixedLate` says that calls are mixed up only after one has
failed. `Granted` is liveness and beyond the prover.

## 5. Sockets and the flash client

`IpcSocket` models the two layers of `mb_ipc.c`. The router queues commands and
responses (`queue`) and writes one at a time to its mailbox channel
(`ipc_router_send`, `ipc_router_tx_cmpl_isr`); the API layer keeps a socket per
client port and per connection of the server port (`sk`) and two semaphores per
port (`tsem`, `rsem`). `FlashClient` composes it with `flash_client.c`: the first
operation opens and connects a socket, every operation is a request and its
reply, a read is ended by a second exchange, and a failed operation discards what
may still come. The server of the flash is in the image of the CP; it takes one
request at a time and replies to each, as the comment in `flash_client.c`
demands ("every send cmd to server must have a recv").

`bound.smp` says whether the tasks of the AP run on another core than its
mailbox interrupt. A task and the handler are then cut at every access to the
queue and to the socket.

Run `flash` (`FairSpec`) checks three instances at once: one client with a
timeout and a close; one client on two cores; two clients on one core. Two
operations per instance let a late answer of the first meet the second; a queue
of two entries can be full, and `full` remembers it; the tag counts modulo 8.

| property | says | where it stops |
|---|---|---|
| `TypeOK` | types of all variables | |
| `SentIsTaken` | a send that reports success was read or discarded by the other end | with two cores and a timeout an answer in flight can be taken for the next one; the server after a reconnection |
| `TakenOnce` | no data is read twice although a command may be written twice | |
| `OwnReply` | the reply accepted belongs to the request | after a timeout, since only the command is compared |
| `RouterLive` | on one core the completed command is the head of the queue, and a queued command is under way or about to be written | on two cores `ipc_router_send` and the completion race for the head; the queue then stays behind |
| `Succeeds` | on one core, without timeouts and full queues, operations succeed | |
| `OpEnds` | on one core, without full queues, operations end without a timeout | the race of the router, and a response dropped by a full queue, hang an operation until its timeout |

The conditions in the last column are part of the properties; each was found by
TLC as a behaviour of the code, not assumed. Fairness: interrupts are served,
tasks and the server run; timeouts need not happen. With a single connection
(`NConn = 1`) a second client is refused, so the run has two.

Nothing is proved here: `SentIsTaken`, `OwnReply` and `RouterLive` speak of the
contents of queues along which messages are filtered and matched, whose
invariants are inductions over sequences.

## 6. Virtual UART and log output

`MbUart` models `mb_uart_driver.c` on both ends, with a writing task, a reading
task and the mailbox interrupt per node. The rings are those of the code, with
their indices and the wrap-around of `mb_uart_write_data`, `mb_uart_read_data`
and `rx_isr_data_handler`; only their lengths are constants (`Fifo` for 128).
The bytes are 1, 2, 3, ... so that order and loss can be seen. `easy_log_output`
is a writer in exception mode that polls `bk_mb_uart_write_ready`.

The driver has no lock. Where one context works with what another one changes,
the model records the window in `raced`:

| window | meeting |
|---|---|
| `closed` | a packet arrives before the peer has opened its end |
| `read` | a packet arrives while `mb_uart_read_data` works with an older count |
| `sent` | the answer comes before `mb_uart_send_data` has advanced `tx_rd_idx` |
| `clear` | a trigger finds `tx_in_process` set by a context about to clear it |
| `status` | `bk_mb_uart_get_status` stores an old `status_cts` |
| `answer` | a packet put together before the response "stop" follows it and says "go" |

The last one happens on one core too, when other channels use the mailbox.

| run | specification | bounds | shows |
|---|---|---|---|
| `uart` | `FairSpec` | `Fifo = 3`; streams one way, both ways, before the peer has opened, on two cores, beside other channels, and the log | `TypeOK`; outside of named windows `NoOverflow`, `InOrder`, `TxLive`, `GoAhead`, `Delivered` |
| `uart_log` | `FairSpec` | `Fifo = 2`, 4 bytes of log | violation of `Drains`, see section 8 |

Eight bytes fill both rings of three and seven places and wrap around them; one
window per behaviour is allowed (`races`), since afterwards nothing is claimed.
Fairness: interrupts are served, the mailbox sends what waits, tasks run and
somebody reads. Nobody need write.

Proved (`MbUartProofs`), for every `Fifo`, any lengths of reads and writes, any
number of bytes and any interleaving: `UartTypeCorrect`, that is that every
index stays inside its ring, every packet within its buffer, and no count
underflows. It needs `UartInv` (`UartInvCorrect`): a packet is no longer than
what its sender has put into the shared buffer, wherever the packet is
(`PacketsFit`); the handler works on a message (`HasMessage`); the count that
`mb_uart_read_data` copied before is not more than the ring holds, except after a
packet that has filled the ring to the last byte (`LocalsFit`). The ring
operations are proved as facts about queues: `TxPutQueue`, `RxPutQueue`,
`RxDropQueue`, and `GoAheadRoom` for the threshold of the flow control. The
other properties are model-checked only. `InOrder` follows the bytes through
sequences of packets on the wire, and `NoOverflow`, `TxLive` and `GoAhead` hold
only up to the windows, whose invariant would have to describe every window at
every step.

## 7. Wi-Fi driver

`WifiDriver` models the path of commands and packets to the CP and of
confirmations, events and frames back. `wdrv_main` (`thread`) takes messages
from one queue, keeps a list per channel (`tx_list`), writes it when
`sending_flag` is clear, and empties it; the completion of the write clears the
flag and posts a message when more has come. Calls that wait for a confirmation
are entries of a pending list on their own stacks. The lists are cut at each
access that another context can see. Command buffers are freed by the CP; its
own buffers for events, which `wdrv_rx_handle_msg` frees, are not modelled.

A behaviour ends (`bad`) where the C code has no defined meaning any more: two
tasks took one command buffer ("clash"), two critical sections of the pending
list overlap on two cores ("torn"), a confirmation is written to the stack of a
call that has returned ("wild"), or `BK_ASSERT` fails ("assert"). `lost`
remembers a refused write, a completion message, an event or a frame that found
the queue full, and a list whose 8-bit count has wrapped.

Run `wifi` (`FairSpec`) checks nine small instances: commands with and without
confirmation beside events, two tasks on one and on two cores, a timeout,
packets with a refused write, a wrapped count, and queues of two and one
entries.

| property | says |
|---|---|
| `Pipeline` | what is queued for a channel is, in order and once, under way, in the list or in the queue, also when a completion overtakes `co_list_init` (not after a wrapped count) |
| `TxLive` | a list that waits is about to be written, unless a write was refused or a completion found the queue full |
| `OwnConfirm` | a call gets its own confirmation; after a timeout, or with the same command twice, one of the same command, since `cmd_sn` is always 0 |
| `EntryAlive` | the pending list holds calls that have not returned, once each; "wild" needs a timeout |
| `Answered` | a queued command is confirmed unless something was lost |
| `GivenBack` | command buffers, packets and frames return to their owners unless something was lost |

Fairness: `wdrv_main`, the interrupt, the CP and the tasks run. In a queue that
is full of its own retries `wdrv_main` waits for itself in vain; the behaviours
with "retry" in `lost` are those.

Proved (`WifiDriverProofs`): `TxLiveCorrect`, for any tasks, packets, frames and
bounds. `TxInv` adds to it which program counters of `wdrv_main` and of the
handler belong to which state of the write (`Shape`), that the flag is set
exactly while a write is under way or about to be (`Flags`), and who notices a
waiting list (`Watched`). `Pipeline`, `OwnConfirm` and `EntryAlive` are
model-checked only: they speak of what `SelectSeq` and the removal of an entry
leave of a sequence, which is induction over data.

## 8. Findings

* `boot_refused`. At boot the FIFO of the CP, which has two entries, may hold the
  reset notification and the acknowledgement of a first command of the CP, both
  unread, when the AP writes. `mb_phy_chnl_start_tx` is then refused
  (`drivers/mailbox/mailbox_channel.c:475`): the physical channel becomes IDLE
  again, the logical channel stays BUSY, and `mb_chnl_write`, which has returned
  `BK_OK`, answers `BK_ERR_BUSY` from then on. No command is under way, so no
  acknowledgement comes whose handler would look for the buffer; it is sent
  only if another channel of the same core is written and acknowledged later.
  In the behaviour TLC prints both channels of the AP are caught. The comment in
  `drivers/mailbox/mailbox_channel.c:766` says that the handler "will get it to
  send".
* `ipc_late`. `ipc_send_cmd` takes `rsp_sema` and says of `tx_cmd_in_process`
  that it "must have been set to 0 by callback"
  (`drivers/mailbox/mb_ipc_cmd.c:383`). The handler tests and clears it first
  and posts later; a call that times out in between leaves a post that the next
  call takes at once, before its own command is answered. Its result is then
  what the earlier call left behind.
* `lock_timeout_owners`. `amp_res_lock_acquire` clears the semaphore after a
  timeout so that two tasks never own the resource
  (`drivers/spinlock/amp_res_lock.c:253`). The clearing comes after the count has
  become zero: a grant set for the task that gave up is still there while the CP
  finds the resource free, and a new task of the AP takes it. Two tasks own the
  resource.
* `uart_log`. In the exception mode that `easy_log_init` selects,
  `mb_uart_send_data_trigger` leaves `tx_in_process` at 0, and
  `mb_uart_tx_cmpl_isr` takes the acknowledgement for a fault and returns
  without sending the rest. A full transmit ring stays full, `easy_log_output`
  polls it in vain, and every later record is cut. The comment in
  `component/easy_log/src/easy_log.c:102` says that "the mb_uart TX complete ISR
  will flush the FIFO".

## 9. What is only model-checked, and what is not modelled

Out of the prover's reach: liveness (`WriteSent`, `RefinesFairLink`,
`SendReturns`, `Granted`, `OpEnds`, `Delivered`, `Drains`, `Answered`,
`GivenBack`), and facts that need induction over sequences (`InOrder`,
`Pipeline`, `OwnConfirm`, `EntryAlive`, and the properties of the flash client).
For these the bounds above are the evidence.

Not modelled: the parts that `PROJECT.json` lists as `not_modelled`, with the
reasons there. Of the mailbox: register layout, init and deinit of the unit,
`mb_chnl_set_exception_mode` (no caller), the synchronous write of the trap
handlers, after which the core stops, statistics and fault counters, the empty
`tx_isr` callbacks, cache maintenance. Of the inter-core commands: the
individual commands of `ipc_cmd_handler`, other than the three of the resource
locks, and the lazy `ipc_init`. Of the locks: `amp_res_lock_reset_all`, which
does nothing on the AP, the 16-bit width of the counts, and the early returns
outside a task. Of the sockets: `CHNL_STATE_COM_FAIL`, the answer of a peer
whose channel is not open yet (both routers are assumed to have opened
theirs), the path for a server on the own CPU, the
asynchronous calls nobody makes and the server API. Of the flash client: two
tasks in the first init at once, and the partition table. Of the UART: the
checksum (compiled out), callbacks and deinit (no caller). Of the Wi-Fi driver:
`wdrv_init` (the initial state), `wdrv_deinit` and the parameters of commands.
