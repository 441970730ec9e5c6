# TLA+ models of the EtherCAT master

A verification project for the IgH EtherCAT master (`master/` of this
repository): TLA+ modules of the parts of the master whose correctness depends on
who does what in which order, TLC configurations that check them on small
instances, and proofs for TLAPS. `PROJECT.json` lists the components, the
runs, the mutations of the models that break each property, the lines of code
every definition stands for, the hazards and the theorems.

## 1. The system

The master is a kernel module. Applications link a library (or call the kernel
interface directly), configure slaves and domains, and exchange process data in a
cycle of their own. Everything else on the bus is done by state machines, which
the master's thread executes, and which talk to the slaves by datagrams.

| part | files | state | operations |
|---|---|---|---|
| datagrams and their queue | `master.c`, `datagram.c`, `domain.c` | `datagram_queue`, `datagram_index`, `state` and `index` of each datagram | queue, send (fill frames), receive (match answers), time out |
| external datagram ring | `master.c` | `ext_datagram_ring`, `ext_ring_idx_fsm`, `ext_ring_idx_rt`, `fsm_exec_list`, `injection_seq_*` | execute slave FSMs, inject |
| slave state machines | `fsm_slave.c` with `fsm_coe.c`, `fsm_foe.c`, `fsm_soe.c`, `fsm_eoe.c` | state, pointer to the request in operation | take a request, transfer, answer, clear |
| master state machine | `fsm_master.c` with `fsm_slave_scan.c`, `fsm_slave_config.c`, `fsm_change.c`, `fsm_sii.c`, `fsm_pdo*.c` | state, `slave`, `rescan_required`, pointers to requests | broadcast, scan, read states, configure, requests |
| blocking requests | `master.c`, `ioctl.c`, `*_request.c` | lists of requests per slave and per master, `request_queue` | schedule, wait, interrupt |
| EoE | `ethernet.c`, `mailbox.c` | `tx_queue`, `tx_frame`, `rx_skb`, `queue_datagram`, `ext_datagram_queue` | transmit, run, queue, send, open, stop |
| phases and threads | `master.c` | `phase`, `active`, `allow_scan`, `scan_busy`, `config_busy` | request, activate, deactivate, release |
| domains | `domain.c`, `fmmu_config.c`, `datagram_pair.c` | FMMUs, datagram pairs, working counters | finish, process, queue |
| slaves, configuration | `slave.c`, `slave_config.c`, `sync*.c`, `pdo*.c`, `sdo*.c` | attached configuration, PDO and SDO lists | create, attach, detach, clear |
| distributed clocks, topology | `master.c`, `slave.c` | ports, delays, reference clock | calculate |
| emergency ring | `coe_emerg_ring.c` | ring indices, overruns | push, pop, clear |
| devices | `device.c`, `devices/` | link state, transmit buffers, statistics | send, poll, set link |
| interfaces | `cdev.c`, `ioctl.c`, `rtdm*.c`, `module.c`, `lib/` | open files, requested flag | one call per function |
| tools | `tool/`, `tty/`, `fake_lib/`, `examples/`, `script/` | | |

How they interact:

- In IDLE phase one kernel thread receives, executes the master FSM and the
  slave FSMs under `master_sem`, queues the FSM datagram and sends, under
  `io_mutex`.
- In OPERATION phase the application receives and sends. The thread executes
  the state machines only, concurrently with it. Master FSM and application
  synchronise with two sequence counters, slave FSMs and application with the
  two indices of the ring.
- The EoE thread receives, runs the EoE state machines and sends, through the
  callbacks of the application, which may deny access.
- User calls put a request into a list under `master_sem` and sleep in
  `request_queue` until the state machine has taken and then answered it.
- The master FSM destroys and recreates the slaves when the bus changes,
  whatever their state machines and requests are doing.

What is hard: the concurrency of the threads and the application without a lock
between the ring's ends, datagrams that are lost or answered late, slaves
that vanish with requests in operation, callers that are interrupted, and every
list that is linked through the object itself. `PROJECT.json` has these
hazards one by one, at their lines, with the properties that cover them.

## 2. The modules

| module | models |
|---|---|
| `DatagramLife` | abstract: what the owner of a datagram may rely on |
| `DatagramQueue`, `MCDatagramQueue`, `DatagramQueue_proof` | the queue, sending and receiving; its constants for TLC; its theorems (as in every `_proof` module) |
| `ExtRing`, `MCExtRing`, `ExtRing_proof` | ring, executing list and injection in OPERATION phase |
| `Eoe`, `Eoe_proof` | one EoE handler, its network device, the EoE thread and the slave's mailbox |
| `SlaveConfig`, `MCSlaveConfig`, `SlaveConfig_proof` | the configuration of one slave: every state of the configuration and of the state change, the slave, the application and others |
| `SdoTransfer` | abstract: what an SDO transfer promises its caller |
| `Coe`, `Coe_proof` | SDO download and upload with segments, over a mailbox that loses, delays and mixes messages |
| `EmergRing`, `EmergRing_proof` | the ring of emergency messages between the CoE state machine and the application; part of `Coe` |
| `Requests`, `Requests_proof` | callers, slave FSM, master FSM, clearing of slaves and configuration |
| `MasterPhase`, `MasterPhase_proof` | phases, the calls that change them, both threads, the master FSM with scan and configuration |

The modules overlap at the datagram: `DatagramQueue` shows that a datagram that
is submitted keeps to `DatagramLife`. The other modules have a datagram's life as a
variable with just these moves (submitted, under way, settled with any
result), and ask what its owner does with it.

### DatagramQueue

`datagram_queue`, `state`, `index`, `datagram_index` and `link_state` are the
variables of the code, `pc` and `dev` say where the thread is in
`ecrt_master_send()` or `ecrt_master_receive()`. Both are split at their loops: one
step is one header of a received frame, one datagram timed out, one datagram put
into a frame, one frame sent. Owners `Prepare` (`ec_datagram_fprd()` and the
like) a datagram that is neither linked nor under way, and `Queue` it between calls; the
datagrams of domains are queued again whatever became of them and recreated with the
configuration. The datagrams of the clocks (`Clocks`) belong to the application, which queues
them, but are prepared by the master FSM at the end of a scan
(`ec_master_find_dc_ref_clock()`, `master.c:2104`). `Reinit` does that at any time: while the
datagram is linked, for which `ec_master_queue_datagram()` looks for it in the queue
(`master.c:961`), while its frame is on the wire, and while its frame is being built, before
or after the index is written into its header. A datagram's
content is two values: whose frame the answer came from, and `lag`, how many
headers were written since. These, with `overrun`, are history variables that
the properties need: they guard no step.

| run | instance | checks |
|---|---|---|
| `queue` (`DatagramQueue.cfg`) | two devices with redundancy, a domain's datagram on the second and a state machine's on the first one, one datagram per frame, indices 0..2, one frame under way | `QueueMembership`, `OwnAnswer`, `UniqueIndex`, `SendDrains`, `ReceiveExpires`, `Completion` |
| `queue_clocks` (`DatagramQueueClocks.cfg`) | a clock's datagram, re-initialised at any time, and a state machine's, which share the frames of the first of two devices | `QueueMembership`, `OwnAnswer`, refinement of `DatagramLife` (`LifeSpec`) |

`IndexModulus` 3 lets the index wrap around within a few cycles, with and
without an outstanding header, the `overrun` that `OwnAnswer` and `UniqueIndex`
exclude. A re-initialisation in the middle of building a frame counts as an overrun as well:
the header then carries an index that the datagram does not have. With one datagram per
frame a call of `queue` sends several frames; with two in `queue_clocks` one
of them is re-initialised while the other is put beside it. `MaxWire` bounds
what the wire keeps for later, everything beyond is lost. `Completion` assumes that the
thread keeps calling receive and send (`while (!kthread_should_stop())`, the
application's cycle) and that time passes.

### ExtRing

The thread's `ec_master_exec_slave_fsms()` and the application's send call are
interleaved, one step per list entry, slave or slot. Slot states are those of the
datagrams in the ring, `age` says how long one is under way. `Lifetime` is the
number of cycles in which a datagram is answered or timed out, `MaxQueue` the
capacity of a cycle (`max_queue_size`), `MaxLoad` what the application fills
of it, `FailsAtOnce` the slaves whose requests fail before they prepare a datagram. For the
slaves in `Segmented` a pass may prepare nothing although it counts as having used the slot
(`ListUnprepared`): `ec_fsm_coe_down_seg_check()` returns early after a timeout
(`fsm_coe.c:1666`), `ec_fsm_coe_exec()` reports the datagram as used all the same, and
`ext_ring_idx_fsm` moves on over a slot in the state it was left in (`master.c:1478`).
`MaxPasses` bounds the passes of the thread per cycle of the application.

| run | instance | shows |
|---|---|---|
| `ring_cycle` | two slaves, ring of four; some datagrams too large, the second slave's requests fail at once, the first one's are aborted, rescans at any time | `ExecListIntact` holds |
| `ring_crowded` | two slaves, ring of four, into which both get datagrams at a time; cycles that may be full, lost datagrams, segmented downloads | `ExecListIntact` and `Served` (every state machine goes on) hold |
| `ring_zero` | two slaves, ring of four, room for all datagrams, requests that fail at once | `NoZeroDatagram` is violated |

At most half a ring of state machines is executed, as in the code
(`EC_EXT_RING_SIZE / 2`), which is two in these instances. `ring_crowded` has one place per
cycle, for which the two machines and the application compete. `Served` is asked
without rescans and without requests that fail at once: with these the ring runs full, and
the machine that is started without datagram is dropped from the list in the next
pass ("FSM has zero datagram"), but keeps its state: it is busy and never executed again.
That takes requests that fail at once, 16 per pass (`ring_zero`).
`ExecListIntact` leaves the dropped machines out.

About the slots themselves no property is stated, as the two indices keep none of what one
would ask of a ring:

- A listed machine need not find a free slot: with three slaves, one of them with
  requests that fail at once, the ring of four is full when its turn comes.
- A slot may be prepared while its datagram is queued or sent, once the thread has gone round
  the ring: with a cycle shorter than `EC_IO_TIMEOUT` (`Lifetime` 2: a lost
  datagram is waited for two cycles), or when passes that prepare nothing have moved
  `ext_ring_idx_fsm` on meanwhile.
- The machine whose pass prepared nothing waits for what the slot it passed over last held,
  which may be an answer to another machine's datagram.

### Eoe

State, retry counter, datagram and both frame buffers are those of `ec_eoe_t`; the
thread's iteration is split at its calls. Frames are numbers of fragments, the
slave's mailbox holds one message (a fragment, something else, or nothing).
The wire loses requests and answers; what the slave has taken (`taken`) and
whether the frames received were whole (`whole`) are history. Another
state machine of the same slave may fetch the EoE message from the mailbox.

| run | instance | shows |
|---|---|---|
| `eoe` | frames of one fragment to the slave, of two from it, a transmit queue of two, one repetition, at most one fragment lost in a row | `SentMeansTaken`, `RxFrameWhole`, `TxWakes` hold |

The callbacks of the application may deny access, as those of
`examples/rtai/rtai_sample.c:242` do (`Denies`). The datagram then stays in
`ext_datagram_queue` with state INIT, which `ec_eoe_run()` does not test for: the state function
works on a datagram that is linked and was never sent, and `ec_eoe_queue()` links it a second
time (`ethernet.c:349`, `list_add_tail()` of a linked entry). TLC finds the first with `Denies`
TRUE within ten states and the second within sixteen, so no property says otherwise. With
`Denies` FALSE nothing stays linked by construction, and a property about the link would say
nothing. The run has `Denies` FALSE; `SentMeansTaken` and `RxFrameWhole` are proved for both.

`RxFrameWhole` holds as long as fewer fragments can be lost in a row (`MaxLost`) than
any frame of more than one has: only fragment numbers are compared, and as many as a
frame has, the end of one and the start of the next, can join two frames (three
fragments with two lost in a row are safe, two with two are not).
`TxWakes` has a thread that runs for ever. It excludes two things that starve transmission and for
which the code has no answer: a second state machine that takes EoE messages away for ever, and
fragments that are lost for ever, as the handler goes back to receiving after every one that
is not the last of its frame.

### Requests

One slave (every slave has a state machine and lists of its own), any kind of
request. A request's `state` is the code's; a caller's request is named by the
caller, as it lies on its stack. `queue` has the lists, by kind. A caller
schedules, waits while the request is queued, possibly interrupted, waits while it is
busy, and returns. A transfer ends with success or failure after any time. The
slave FSM takes requests in the order of `ec_fsm_slave_state_ready()` and aborts those the
slave's state forbids; the master FSM does emergency, SII and application
requests where `fsm_master.c` does. Slaves are cleared by a link that is down, a
rescan, or the end of the IDLE phase, the configuration by a release.

| run | instance | shows |
|---|---|---|
| `requests` | two callers, SDO, register, SII and emergency requests, an application's SDO and register requests, three requests | `CallerWaits`, `QueuedLinked`, `BusyWorkedOn`, `RequestHeld`, `AppRequestThere`, `AnswerStays`, `Answered` hold |
| `requests_eoe` | two callers with EoE requests | `BusyWorkedOn` is violated |

Three requests are enough for a second one to wait behind the first and for a third to
come in when that is answered or discarded. FoE and SoE requests follow the SDO
requests' code word by word and are left out of the instance; the theorems include them. `Answered` assumes that
callers that were woken run, that both state machines are executed, and that
the slave's state can be read from time to time (strong fairness of `MasterRead`:
otherwise the slave FSM is never set ready). It needs the bound on the number of
requests as well: an application that keeps requesting starves everyone else
(`ec_fsm_master_action_process_int_request()` is called again whenever one is done).
Left out: the SDO dictionary (a delay), the steps of a scan and of a
configuration. Leaving IDLE and entering it again are one step.

### MasterPhase

The flags are the code's. `app` says where the application is within
`ecrt_request_master()`, `ecrt_master_activate()`, `ecrt_master_deactivate()` and
`ecrt_release_master()`, whose steps are one assignment each when the other
side reads what is assigned (`allow_scan`, `active`, `config_changed`, the start of
the thread). The master FSM has one datagram; a scan, a configuration or the
writing of system times is one state that lasts for one or more of them and ends well or
badly. An iteration of the idle thread queues and sends what the FSM
prepared, one of the operation thread leaves it to the application's cycle
(`inject`). There is one slave at most, which appears and vanishes, as the
link does, at any time; its configuration is the one the application makes. Its EoE device
(`eoe`) is opened and closed by the network stack at any time after the scan: opening requests
OP and closing PREOP, whatever `active` is (`ethernet.c:795`, `:817`), and both
`ec_master_enter_operation_phase()` and `ecrt_master_deactivate()` go through the EoE handlers and
request OP for those that are open (`master.c:758`, `:2412`). The look at the handler and the
request are steps of their own (`SeeOpen`, `SetEoeStates`; `DeactivateOpen`, `DeactivateEoe`), as the
stack may close the device in between.

| run | instance | shows |
|---|---|---|
| `phase` | all of it; the device is closed only between scans and configurations | `SlaveThere`, `PreopWhenInactive`, `ScansWhenIdle`, `SlaveListLocked`, `RequestReturns`, `Activated` hold |

No bound is needed: every variable is finite. The fairness is that of the threads'
loops, of a call that goes on, of an application that keeps its cycle while the
master is active, and of a datagram that is answered or times out.

Some properties say less than one could wish, as the code does:

- `SlaveListLocked` makes an exception of a lost link, for which
  `ec_fsm_master_state_broadcast()` clears the slaves whether `allow_scan` is set
  or not (`fsm_master.c:312`), while the request may be iterating over them.
- `PreopWhenInactive` makes an exception of the reference clock:
  `ec_master_request_op()` requests OP for it whether configured or not, and the
  idle thread is started before `active` is reset (`master.c:2426`, `:2438`). It also makes one
  of a slave whose EoE device was opened since its scan: while it is open OP is meant to be
  requested, and when it is closed at the wrong moment the request for OP comes last and stays.
- `RequestReturns` holds with `StopsScan` FALSE. `ec_master_leave_idle_phase()`
  resets the FSM but neither `scan_busy` nor `config_busy`; when the device is
  closed in the middle of a scan, opened again, and the master requested before
  its next scan, `allow_scan` forbids the scan the request waits for. For
  a configuration in progress the property says that `config_busy` is reset, not that the
  caller sees it: an FSM that goes from one configuration to the next may
  overtake the waiting caller.

`Activated` shows that the order of the last three assignments of
`ecrt_master_activate()` is right: the thread already runs and may take
`config_changed` at once, so `active` has to be set before it. It assumes that the FSM
comes back to its broadcast again and again, that is that writing the system times of all
slaves ends, and that nobody closes the slave's EoE device: `ec_eoedev_stop()` requests PREOP
without looking at `active`, and nothing requests OP again.

Left out are `ecrt_master_reset()` (`master.c:3290`), which requests OP for all configured slaves
of an active master again, and the tool's request for an AL state, which is in `SlaveConfig`.

### SlaveConfig

`slave`, `config`, `active`, `changed`, `reserved` and `open` (of the EoE device) are the
master's data, `fsm` says in which state `fsm_master.c` and `fsm_slave_config.c` are, `chg` where
`fsm_change.c` is. A step takes the answer to a datagram and prepares the next
one. The slave is its AL state and five registers, each of which
holds the number of the configuration it was written for. Clearing the sync managers
(`fsm_slave_config.c:331`) clears those of the mailboxes with those of the process data
(`Written`); each of the two is written again by a state of its own. An answer may be lost,
come late (the slave has done what it says), be refused, or come from two slaves;
the slave changes its AL state by itself, refuses, sets its error bit, or loses its power and
every register with it. A timeout is a number of answers (`Polls`). Lists
of startup SDOs and IDNs are gone through one by one; each transfer ends well or
badly (`Coe` has its inside).

AL states are requested by whoever does so in the code: reserving the master (PREOP, and in a step
after it OP if the EoE device is open, while the state machine may be on already), deactivating
it, the EoE device (`EoedevOpenStop`), the tool (`RequestByTool`) and the master's state machine
itself. A slave with an EoE device is so brought to OP without an active master, and a
configuration may be attached or detached in the middle of it. `kept` is history: it says
that none was since the going-on configuration began.

| run | instance | shows |
|---|---|---|
| `config` | one slave with all features and one configuration that uses them; either an error or power failure of the slave, or requests, deactivations and an EoE device that is opened and stopped at any time | `TypeOK`, `AskedWhenWritten`, `StopsAfterError`, `BroughtUp`, `BusyEnds` hold |

Two sync managers for the mailbox and one for process data are the least that
tells the branches of `ec_fsm_slave_config_enter_pdo_sync()` apart. `Retries` 0 makes
every loss count at once: a retry sends the same datagram again and changes
nothing else. One configuration is attached again and again; several different ones are left to
the theorems, and so is a configuration with an FMMU whose sync manager the slave does not have
(`fsm_slave_config.c:1306`).

`BusyEnds` assumes that the master's thread runs. It is checked with at most one error or
power failure of the slave (`MaxDrops` 1) and shows nothing about a slave that keeps changing its
state by itself: `ec_fsm_change_state_check()` then checks again without looking at its
timeout (`fsm_change.c:309`), so that such a slave keeps a configuration going for ever.

- With a watchdog divider (`OneDivided`) `StopsAfterError` and `BusyEnds` fail:
  `ec_fsm_slave_config_state_watchdog_divider()` sets `error_flag` on a wrong
  working counter but stays in its state (`fsm_slave_config.c:1096`), and writes the
  divider again as long as the counter is wrong.
- A slave found in OP when OP is requested counts as configured
  (`fsm_master.c:709`), although the configuration attached to it was never
  written, and is reported operational (`slave_config.c:1388`). An EoE slave that was brought
  to OP before the application made its configuration is in that place: attaching does not set
  `force_config` (`slave_config.c:300`). `BroughtUp` is
  about configurations that are made, not about those that are not.
- A configuration attached in the middle of a bring-up, which an EoE slave allows, leaves
  registers that were written without it; `BroughtUp` makes an exception of it (`kept`).

### Coe and EmergRing

`state`, `retries`, `request` and the three fields of `prog` are those of
`ec_fsm_coe_t`; `datagram` is what it sent last and what became of it. A value is
a sequence of parts, one per mailbox message. The slave has one mailbox for
requests (`rx`) and a queue of answers (`tx`); its server is an external definition that
follows from what the state machine expects: an initiate request begins a transfer
anew, a segment has to have the toggle bit that is due. The bus loses a datagram
before or behind the slave, so that a request may be taken and repeated. Other state
machines and the EoE handler take answers that are not for them (`Theft`) or have
theirs in the mailbox (`Others`). The datagram belongs to the master's state
machine or to the external ring; that makes a difference in one place only
(`Retry`): `ec_fsm_coe_down_seg_check()` prepares nothing after a timeout, so a
datagram of its own is sent again, and a slot of the ring, which is not INIT, is
not injected and is looked at with what it last held.

| run | instance | shows |
|---|---|---|
| `coe` | two transfers of one or three parts, two emergency messages, a ring of one, two troubles besides | `TypeOK`, `RingIntact`, `UploadUndisturbed`, `Ends`, and the refinement of `SdoTransfer` (`TransferSpec`) hold |
| `coe_emergency` | one transfer, one emergency message, no trouble | `TransferUndisturbed` is violated |

Three parts are the request, a segment and a last segment, with toggle bits of both
values. `MaxEvents` bounds the transfers and troubles together: two transfers with one
trouble, or one with two. `disturbed` is history: it tells what has happened to the
transfer that the caller could blame. `late` is history as well: a
transfer may begin while answers to an earlier one that timed out are still to come.
The protocol has no transaction number, so it may take them for its own and end
with success; `SdoTransfer` makes an exception of it (`late`). If the slave has room for
several answers (`MaxQueue` above 1; `Torn`), a late download may even write a value that
nobody asked for: in a slot of the ring `ec_fsm_coe_down_seg_check()` does not send its
segment again after a timeout, and the answer that the earlier transfer left in the
slave acknowledges a segment that never arrived. With one answer there is none left by
the time the first segment is due. `Ends` assumes that the
master's thread runs, that datagrams are answered or time out, and that the
response timeout passes. It holds without any fairness of the slave.
The toggle bit of an upload's segment is not looked at by the code and need not be
here: a repeated request for a segment is refused by the slave.

## 3. Findings

Three runs end in a counterexample to what a comment of the code says:

- `ring_zero`: a slave FSM is started with a NULL datagram.
- `requests_eoe`: `ec_fsm_slave_clear()` writes through `soe_request` where it
  means `eoe_request`.
- `coe_emergency`: after an emergency message in place of the response to a download
  segment the state machine waits for the response to the download request
  (`fsm_coe.c:1767`), throws the segment's response away and times out.

Observed and not given a run: after `ecrt_master_deactivate()` the idle thread executes the
master FSM on a datagram that the operation thread prepared and nobody sent
(it is INIT, and `ec_fsm_master_exec()` tests for SENT and QUEUED, though
`fsm_master.c:167` says that it waits): in BROADCAST its working counter of zero
looks like a bus without slaves, and until `allow_scan` is reset a few statements
later the slave list is cleared; a datagram that was not sent because the EoE callback denied
access is worked on, prepared and linked a second time (`Eoe` with `Denies` TRUE); a watchdog divider that is refused
is written for ever; a slave in OP is reported operational without its configuration, an EoE slave among them;
closing an EoE device takes its slave to PREOP though the master is active (`ethernet.c:817`);
`ec_master_leave_idle_phase()` clears the slaves (`master.c:688`) but not the EoE handlers: until the
next scan, or the end of the master, they point to slaves that were freed, and stopping their
network devices requests PREOP of these (`ethernet.c:817`);
`ec_master_get_external_datagram()` gives out a slot
whose datagram is still queued or sent, once the thread has gone round the ring
(`ExtRing` with `Lifetime` 2), and one whose datagram came back before its state
machine has looked at it (three slaves, a ring of six, a pass of the thread that takes two
cycles, the last machine of the list waiting for a lost datagram while the others go round):
both machines take the one answer; with requests that fail at once
`ext_ring_idx_fsm` meets `ext_ring_idx_rt` as if the ring were empty, and a listed machine
whose slot is passed over holds up the list until the next scan; `scan_busy` outlives the IDLE phase
(`MasterPhase` with `StopsScan` TRUE); the master FSM's pointer to an SoE request is not
reset when the configuration is cleared (`master.c:465` resets
`fsm.sdo_request`); a late SDO download may leave a value in the slave that
is made of parts of two segments' data with one missing between them
(`SdoTransfer` with `Torn` FALSE and `MaxQueue` 2); an SII request in operation stays busy when the IDLE
phase is left; an application's register request stays busy after a rescan; a
frame is leaked when EoE tries are used up (`ethernet.c:730`).

## 4. Proofs

`DatagramQueue_proof` holds for any set of datagrams, number of devices, index
width, timeout and frame size that satisfies `QueueAssumption` (every datagram fits
into an empty frame: `EC_MAX_DATA_SIZE`).

- `TypeCorrect`: the type invariant.
- `QueueIntact`, `AnswersMatch`, `IndexesDiffer`: `QueueMembership`, `OwnAnswer`
  and `UniqueIndex`.
- `SendComplete`, `ReceiveComplete`: the action properties.
- `Refinement`: `Spec => LifeSpec`.

`QueueMembership` is not inductive by itself. `IInv` adds: the frame under
construction has linked datagrams, each once, which are queued but for those of clocks that were
re-initialised meanwhile, with the index in the header that they have themselves unless they are
not counted any more; and it exists only while sending
(`FrameInv`); a received frame is processed within the poll that delivered it (`RxInv`); an
outstanding header written `n + 1` headers ago carries the index `Back(datagram_index,
n)`, and a `lag` belongs to one header only (`LagInv`); before the first overrun
no outstanding `lag` has reached the width (`CountInv`); and while sending, nothing
is queued for the devices already served (`SendInv`). `LagInv` is the reason
for matching: two headers with the same index would have the same `lag`, and one
`lag` has one owner. The refinement follows from `TypeOK` and `IInv`, as an
answer is only taken by a datagram that is `SENT`. A clock's datagram that is re-initialised
stays linked with state INIT, and is put back to QUEUED where it is when it is queued again; that
is why `QueueIntact` needs the look into the queue and not only the state.

`MasterPhase_proof` holds for both values of `StopsScan` and whatever stands for an
empty list, as long as it is no slave (`PhaseAssumption`).

- `TypeCorrect`: the type invariant; `NoDangling`: `SlaveThere`;
  `UnlockedWhenIdle`: `ScansWhenIdle`.
- `ListLocked`: `SlaveListLocked`. `LockInv` says at which points of the calls
  `allow_scan` is set, `ScanInv` that a request comes to the slave list only when
  no scan is busy; `NoScanBegins` is the state machine's part.
- `InactiveInPreop`: `PreopWhenInactive`, with its exceptions. That `active` is reset only after
  the thread runs again makes it fail as an induction hypothesis: `QuietInv` says it of the
  last steps of a deactivation too, `ActiveInv` that there is no configuration
  then, `ThreadInv` that the thread stands still while the states are set, `SeenInv` that
  OP is requested through an EoE handler only if the device was open, and `FreshInv` that a
  slave under scan was requested nothing but PREOP and has no such device yet (a scan
  may make it lose its place as reference clock).

`ExtRing_proof` holds for any number of slaves, ring size, sizes of datagrams, load,
lifetime and passes of the thread, whatever requests fail and whatever passes prepare nothing.

- `TypeCorrect`: the type invariant, by which at most half the ring is executed.
- `ListIntact`: `ExecListIntact`. It needs to be known of every point inside a pass of
  `ec_master_exec_slave_fsms()`: `ListInv` (the list is counted and has no machine
  twice), `BusyInv` (a busy machine with a datagram is listed, or is the one just
  started), `TodoInv` (what is left of the list in this pass is still listed) and
  `AdvanceInv` (a machine just started is not listed yet and has room).

`Eoe_proof` holds for any frames, queue size, tries and losses, whether the callbacks deny
access or not.

- `TypeCorrect`: the type invariant; the stack never overfills the queue, as the queue is
  woken only with room in it.
- `SentTaken`: `SentMeansTaken`. `SentInv` says what
  the slave has while a fragment is out: all before it, and it too if the answer left
  in the datagram says so, even when that answer is from before a repetition.
- `FramesWhole`: `RxFrameWhole`, if fewer fragments can be lost in a row than any frame
  of more than one has. The slave's frame number and the fragments lost since the one the
  handler took last say how far the two are apart; a fragment that fits the number expected
  is of the same frame then.

`Requests_proof` holds for any callers, any number of requests and any kinds of them.

- `CallersWait`, `QueuedIsLinked`, `RequestIsHeld`, `AnswersStay`: `CallerWaits`,
  `QueuedLinked`, `RequestHeld` and the action property `AnswerStays`.
- `BusyIsWorkedOn`: `BusyWorkedOn` without EoE requests; `AppRequestIsThere`:
  `AppRequestThere` without SoE requests of the application. Each assumption
  excludes a case in which the code loses a request or a pointer (section 3).

The properties hold together only: `CallerInv` has the caller's side (the request's
state by the point the caller waits at), `QueueInv` that lists and `QUEUED` requests
are the same, each once and by kind, `FsmInv` and `MasterInv` that a state machine points
to a busy request of the kind its state is for, `BusyInv` the converse. That an
interrupted caller leaves nothing behind follows from the first two: it removes the request
from the one list there is.

`EmergRing_proof` shows for a ring of any size that `RingInv` implies `RingIntact` and
that every step of both sides keeps it (`RingNextInv`); `RingInv` has the contents
without remainders (`Place`) and what a push or a pop under way has seen.
`Coe_proof` uses it within `Coe`: the theorems hold for any sizes of values, transfers,
troubles, retries and room for answers in the slave.

- `TypeCorrect` and `RingSafe` (`RingIntact`). The types of all that the slave may
  send are needed first, as the state machine pushes what it finds in its answers.
- `UploadSafe`: `UploadUndisturbed`. `CourseInv` says that the request for the next
  part, or its answer, is in one place only, and what the slave has left to give;
  emergency messages and late answers to other uploads are all that can be found besides.
- `Refinement`: `Spec => TransferSpec`. `AskInv` says what was sent last. For an upload,
  `UpInv` says that the parts the state machine has are the object's first ones, that the
  slave goes on behind them or one further, and that the answers to a segment are the
  part that is due, at most one of them. For a download, `TakenInv` does the same with
  the segment in the mailbox, which may be the one due or the one before it, written
  twice; that one is refused for its toggle bit. `WriteInv` is what it comes to: the
  request in the mailbox completes a value somebody asked for. It holds if
  nothing is late or there is room for one answer only (`Sound`); `Clean` says when the
  answers of an earlier transfer are gone in the second case.

`Answers` is the sequence of what is on its way to the state machine; most steps only
take some of it out (`Fewer`), a few put one at the end (`More`), and the lemmas about
the two are all that is used of it.

`SlaveConfig_proof` holds for any kinds of slaves and configurations, any retries and
timeouts, and any troubles.

- `TypeCorrect`: the type invariant.
- `AskedWritten`: `AskedWhenWritten`. `FlowInv` goes through the state machine: behind
  the state that writes the mailboxes' sync managers (`AfterMbox`), or those of the process
  data (`AfterSync`), they stay written, as long as the slave keeps its power; and
  where they are cleared (`Early`), both together, nothing asked for earlier is left, for
  INIT was asked for and answered. `Leads` says that no state leads past those that
  write them, unless there is nothing to write. A slave that lost its power does not
  answer to its station address (`present`), which is why it cannot be asked for SAFEOP
  with its registers empty.
- `StopsUnlessDivider`: `StopsAfterError`, if no configuration sets the watchdog
  divider.
- `BringsUp`: `BroughtUp`. `Done` goes along with the registers: in the states behind the
  one that writes a register (`AfterSdo`, `AfterSync`, `AfterFmmu`, `AfterDc`) it has the
  number of the configuration attached, unless there is nothing to write. `BringInv` says so
  for as long as no configuration was attached or detached (`kept`), together with the request
  under way and the datagram, which are that configuration's; no more is needed, whatever AL
  states are requested meanwhile and by whom. The slave was not read in OP before OP was
  asked for, so that reading it
  takes an answer, and a slave that answers has kept what was written. `Towards` says
  that every step leads on with the registers in order, whatever it skips.

Only model-checked: liveness (`Completion`, `Served`, `TxWakes`, `Answered`,
`RequestReturns`, `Activated`, `BusyEnds`, `Ends`), which is out of the prover's
reach.

## 5. Mutations

Each property has a mutation of a definition that breaks it: `QueueDatagramTwice`
next to `QueueDatagram`, `InterruptAlways` next to `Interrupt`, and so on. A
mutation is what a plausible slip in the code would be (a test or a reset
forgotten, the wrong order, a wrong comparison). They are not part of any
specification.

## 6. Not modelled

Payloads and their formats, statistics and debugging, the `ioctl` argument
copying, memory allocation failures, the network drivers, the userspace
library, the command-line tool, the TTY driver and the fake library.
`PROJECT.json` has the reasons under `components`.

More than nine tenths of the repository's lines are vendor network drivers for
many kernel versions (`devices/`), each file in an original and a patched copy. A
driver does what `DatagramQueue` has as `TransmitFrame` and `PollFrame`; the rest
is hardware access. What is modelled is the control of `master/`, which the
lines of the map are to be measured against.

Of `master/` the following is left out, in the order of what it would add:

- the transfers of files (`fsm_foe.c`), IDNs (`fsm_soe.c`), EoE parameters
  (`fsm_eoe.c`) and the SDO dictionary: their datagrams and retries are those of `Coe`,
  their answers those of other protocols;
- scan and SII access (`fsm_slave_scan.c`, `fsm_sii.c`, `fsm_pdo*.c`): chains of
  reads without a decision that depends on anybody else, one state of `MasterPhase`;
- the partition of FMMUs over datagram pairs and redundancy (`domain.c`), topology
  and delays (`master.c`, `slave.c`): algorithms on lists and trees of bytes;
- failures within `ecrt_master_activate()`, the restart of the EoE thread,
  and sizing the emergency ring while the master is active.
