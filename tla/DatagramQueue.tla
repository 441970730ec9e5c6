---------------------------- MODULE DatagramQueue ----------------------------
(***************************************************************************)
(* The datagram queue of the master and the frames it puts on the wire:    *)
(* ec_master_queue_datagram(), ecrt_master_send(),                         *)
(* ec_master_send_datagrams(), ecrt_master_receive() and                   *)
(* ec_master_receive_datagrams() of master/master.c.                       *)
(*                                                                         *)
(* One thread at a time executes send and receive (the idle thread holds   *)
(* io_mutex, in operation phase the application serialises its calls), but *)
(* the state machines prepare their datagrams outside that lock.  The two  *)
(* functions are therefore split at their loops: one step takes one        *)
(* datagram of a received frame, times out one datagram, fails one         *)
(* datagram of a device without link, adds one datagram to the frame under *)
(* construction, or hands one frame to the device.                         *)
(*                                                                         *)
(* History variables: lag counts, for every datagram and every datagram    *)
(* header on the wire, the headers written since (saturating at            *)
(* IndexModulus, which also stands for a header no longer counted);        *)
(* overrun records that the 8 bit index wrapped around onto a header still *)
(* outstanding, or that a datagram was re-initialised in the frame being   *)
(* built, so that its index and the one on the wire differ; answer records *)
(* whose frame content a received datagram took over.                      *)
(***************************************************************************)
EXTENDS Integers, Sequences, FiniteSets

CONSTANTS
    Datagrams,      \* datagram objects (domains, master FSM, external ring)
    Cyclic,         \* datagrams the application queues every cycle, whatever
                    \* their state: those of domains and the following ones
    Clocks,         \* ref_sync_datagram and sync_datagram
    NumDevices,     \* ec_master_num_devices()
    DeviceIndex,    \* [Datagrams -> device the datagram is sent through]
    Kind,           \* [Datagrams -> type and data size, the match criteria]
    Size,           \* [Datagrams -> bytes it takes in a frame]
    FrameCapacity,  \* ETH_DATA_LEN - EC_FRAME_HEADER_SIZE
    IndexModulus,   \* 256: datagram_index is a uint8_t
    Timeout,        \* EC_IO_TIMEOUT in ticks
    MaxWire         \* bound: frames on the wire at a time (more are lost)

Devices == 0 .. NumDevices - 1

ASSUME QueueAssumption ==
    /\ Cyclic \subseteq Datagrams
    /\ Clocks \subseteq Cyclic
    /\ NumDevices \in Nat \ {0}
    /\ DeviceIndex \in [Datagrams -> Devices]
    /\ Size \in [Datagrams -> Nat]
    /\ FrameCapacity \in Nat
    /\ \A d \in Datagrams : Size[d] <= FrameCapacity   \* EC_MAX_DATA_SIZE
    /\ IndexModulus \in Nat \ {0}
    /\ Timeout \in Nat
    /\ MaxWire \in Nat

VARIABLES
    datagram_queue, \* master->datagram_queue
    state,          \* datagram->state
    index,          \* datagram->index
    age,            \* ticks since datagram->jiffies_sent, up to Timeout + 1, while
                    \* it is SENT (no one here reads it in another state)
    datagram_index, \* master->datagram_index
    link_state,     \* device->link_state
    pc, dev,        \* where the sending and receiving thread is, and for which device
    frame, fill,    \* sent_datagrams and bytes used of the frame being built
    header,         \* the indexes in the headers of that frame
    rx,             \* headers of the received frame not yet processed
    wire,           \* frames under way
    lag, overrun, answer    \* history

qvars == <<datagram_queue, state, index, age, datagram_index>>
ovars == <<link_state, pc, dev>>
fvars == <<frame, fill, header, rx, wire>>
hvars == <<lag, overrun, answer>>
vars == <<qvars, ovars, fvars, hvars>>

States == {"INIT", "QUEUED", "SENT", "RECEIVED", "TIMED_OUT", "ERROR"}
Items == [dg : Datagrams, index : 0 .. IndexModulus - 1, lag : 0 .. IndexModulus]

-----------------------------------------------------------------------------
(* Sequence helpers, in the form the proofs need. *)

\* q without its i-th element: list_del_init() of the i-th entry.
Without(q, i) ==
    [k \in 1 .. Len(q) - 1 |-> IF k < i THEN q[k] ELSE q[k + 1]]

Elems(q) == {q[i] : i \in 1 .. Len(q)}

\* i is the first position of the queue whose datagram is in S.
IsFirst(i, S) ==
    /\ i \in 1 .. Len(datagram_queue)
    /\ datagram_queue[i] \in S
    /\ \A j \in 1 .. i - 1 : datagram_queue[j] \notin S

InQueue(d) == d \in Elems(datagram_queue)

\* Datagram d enters state s and is not on its way any more.
Enter(d, s) ==
    /\ state' = [state EXCEPT ![d] = s]
    /\ age' = [age EXCEPT ![d] = 0]
    /\ lag' = [lag EXCEPT ![d] = 0]

-----------------------------------------------------------------------------
Init ==
    /\ datagram_queue = <<>>
    /\ state = [d \in Datagrams |-> "INIT"]
    /\ index = [d \in Datagrams |-> 0]
    /\ age = [d \in Datagrams |-> 0]
    /\ datagram_index = 0
    /\ link_state = [v \in Devices |-> FALSE]
    /\ pc = "app"
    /\ dev = 0
    /\ frame = <<>>
    /\ fill = 0
    /\ header = [d \in Datagrams |-> 0]
    /\ rx = <<>>
    /\ wire = {}
    /\ lag = [d \in Datagrams |-> 0]
    /\ overrun = FALSE
    /\ answer = [d \in Datagrams |-> "none"]

-----------------------------------------------------------------------------
(* The owners of datagrams. *)

\* ec_datagram_fprd() and its likes: EC_FUNC_HEADER.  A state machine does
\* so only when its datagram is neither queued nor sent; it runs
\* concurrently with the sending and receiving thread.
Prepare(d) ==
    /\ d \notin Cyclic
    /\ state[d] \notin {"QUEUED", "SENT"}
    /\ Enter(d, "INIT")
    /\ index' = [index EXCEPT ![d] = 0]
    /\ answer' = [answer EXCEPT ![d] = "none"]
    /\ UNCHANGED <<datagram_queue, datagram_index, ovars, fvars, overrun>>

\* ec_datagram_fpwr() and ec_datagram_frmw() of ec_master_find_dc_ref_clock():
\* the master FSM has scanned the bus and re-initialises the datagrams of the
\* clocks, which the application queues, wherever these are: linked, on the
\* wire, or in the frame being built, there perhaps before its index is
\* written into the header.
Reinit(d) ==
    /\ d \in Clocks
    /\ state' = [state EXCEPT ![d] = "INIT"]
    /\ index' = [index EXCEPT ![d] = 0]
    /\ age' = [age EXCEPT ![d] = 0]
    /\ answer' = [answer EXCEPT ![d] = "none"]
    /\ IF d \in Elems(frame)
       THEN /\ lag' = [lag EXCEPT ![d] = IndexModulus]
            /\ overrun' = TRUE
            /\ \/ UNCHANGED header
               \/ d = frame[Len(frame)] /\ header' = [header EXCEPT ![d] = 0]
       ELSE /\ lag' = [lag EXCEPT ![d] = 0]
            /\ UNCHANGED <<overrun, header>>
    /\ UNCHANGED <<datagram_queue, datagram_index, ovars, frame, fill, rx, wire>>

\* Mutation of QueueDatagram: the state is looked at instead of the queue.
QueueDatagramByState(d) ==
    /\ datagram_queue' =
          IF state[d] \in {"QUEUED", "SENT"}
          THEN datagram_queue ELSE Append(datagram_queue, d)
    /\ Enter(d, "QUEUED")

\* ec_master_queue_datagram()
QueueDatagram(d) ==
    /\ datagram_queue' =
          IF InQueue(d) THEN datagram_queue ELSE Append(datagram_queue, d)
    /\ Enter(d, "QUEUED")

\* The application queues its datagrams every cycle, answered or not; everyone
\* else queues one only after preparing it or to repeat one that timed out.
Queue(d) ==
    /\ pc = "app"
    /\ d \in Cyclic \/ state[d] \notin {"QUEUED", "SENT"}
    /\ QueueDatagram(d)
    /\ answer' = [answer EXCEPT ![d] = "none"]
    /\ UNCHANGED <<index, datagram_index, ovars, fvars, overrun>>

\* Mutation of Recreate: the datagram stays linked.
RecreateLinked(d) ==
    /\ pc = "app"
    /\ d \in Cyclic \ Clocks
    /\ Enter(d, "INIT")
    /\ index' = [index EXCEPT ![d] = 0]
    /\ answer' = [answer EXCEPT ![d] = "none"]
    /\ UNCHANGED <<datagram_queue, datagram_index, ovars, fvars, overrun>>

\* ec_datagram_clear() when the configuration is cleared, and the
\* ec_datagram_init() of the datagram that takes its place.
Recreate(d) ==
    /\ pc = "app"
    /\ d \in Cyclic \ Clocks
    /\ datagram_queue' =
          IF InQueue(d)
          THEN Without(datagram_queue,
                       CHOOSE i \in 1 .. Len(datagram_queue) :
                          datagram_queue[i] = d)
          ELSE datagram_queue
    /\ Enter(d, "INIT")
    /\ index' = [index EXCEPT ![d] = 0]
    /\ answer' = [answer EXCEPT ![d] = "none"]
    /\ UNCHANGED <<datagram_index, ovars, fvars, overrun>>

-----------------------------------------------------------------------------
(* ecrt_master_receive() *)

ReceiveBegin ==
    /\ pc = "app"
    /\ pc' = "poll"
    /\ dev' = 0
    /\ UNCHANGED <<qvars, link_state, fvars, hvars>>

Polling == pc \in {"poll", "linkpoll"} /\ rx = <<>>

\* The driver's poll function hands a frame to ecdev_receive().  Frames come
\* back in any order and, with redundancy, on any device.
PollFrame ==
    /\ Polling
    /\ \E f \in wire : rx' = f /\ wire' = wire \ {f}
    /\ UNCHANGED <<qvars, ovars, frame, fill, header, hvars>>

\* The driver's poll function calls ecdev_set_link().
SetLink ==
    /\ Polling
    /\ link_state' = [link_state EXCEPT ![dev] = ~link_state[dev]]
    /\ UNCHANGED <<qvars, pc, dev, fvars, hvars>>

\* Mutations of Matching: one criterion dropped.
MatchingAnyIndex(it) ==
    {d \in Datagrams : state[d] = "SENT" /\ Kind[d] = Kind[it.dg]}

MatchingQueued(it) ==
    {d \in Datagrams : /\ state[d] \in {"QUEUED", "SENT"}
                       /\ index[d] = it.index
                       /\ Kind[d] = Kind[it.dg]}

\* The datagrams that match the header it, see ec_master_receive_datagrams().
Matching(it) ==
    {d \in Datagrams : /\ state[d] = "SENT"
                       /\ index[d] = it.index
                       /\ Kind[d] = Kind[it.dg]}

\* ec_master_receive_datagrams(): the next header has a matching datagram.
ReceiveDatagram ==
    /\ rx # <<>>
    /\ \E i \in 1 .. Len(datagram_queue) :
          /\ IsFirst(i, Matching(Head(rx)))
          /\ LET d == datagram_queue[i] IN
                /\ Enter(d, "RECEIVED")
                /\ answer' = [answer EXCEPT ![d] =
                      IF Head(rx).dg = d /\ Head(rx).lag = lag[d]
                      THEN "own" ELSE "foreign"]
                /\ datagram_queue' = Without(datagram_queue, i)
    /\ rx' = Tail(rx)
    /\ UNCHANGED <<index, datagram_index, ovars, frame, fill, header, wire, overrun>>

\* No matching datagram: stats.unmatched++.
ReceiveUnmatched ==
    /\ rx # <<>>
    /\ \A d \in Matching(Head(rx)) : ~InQueue(d)
    /\ rx' = Tail(rx)
    /\ UNCHANGED <<qvars, ovars, frame, fill, header, wire, hvars>>

\* A size check fails: the rest of the frame is dropped (stats.corrupted++).
ReceiveCorrupted ==
    /\ rx # <<>>
    /\ rx' = <<>>
    /\ UNCHANGED <<qvars, ovars, frame, fill, header, wire, hvars>>

PollDone ==
    /\ pc = "poll"
    /\ rx = <<>>
    /\ IF dev + 1 < NumDevices
       THEN dev' = dev + 1 /\ pc' = pc
       ELSE dev' = 0 /\ pc' = "timeouts"
    /\ UNCHANGED <<qvars, link_state, fvars, hvars>>

Expired == {d \in Datagrams : state[d] = "SENT" /\ age[d] > Timeout}

TimeoutDatagram ==
    /\ pc = "timeouts"
    /\ \E i \in 1 .. Len(datagram_queue) :
          /\ IsFirst(i, Expired)
          /\ datagram_queue' = Without(datagram_queue, i)
          /\ Enter(datagram_queue[i], "TIMED_OUT")
    /\ UNCHANGED <<index, datagram_index, ovars, fvars, overrun, answer>>

\* Mutation of ReceiveEnd: the loop is left before all were looked at.
ReceiveEndEarly ==
    /\ pc = "timeouts"
    /\ pc' = "app"
    /\ UNCHANGED <<qvars, link_state, dev, fvars, hvars>>

ReceiveEnd ==
    /\ pc = "timeouts"
    /\ \A d \in Expired : ~InQueue(d)
    /\ pc' = "app"
    /\ UNCHANGED <<qvars, link_state, dev, fvars, hvars>>

-----------------------------------------------------------------------------
(* ecrt_master_send() *)

\* Mutation of SendBegin: the index starts again with every call.
SendBeginResetsIndex ==
    /\ pc = "app"
    /\ pc' = "send"
    /\ dev' = 0
    /\ datagram_index' = 0
    /\ UNCHANGED <<datagram_queue, state, index, age, link_state, fvars, hvars>>

SendBegin ==
    /\ pc = "app"
    /\ pc' = "send"
    /\ dev' = 0
    /\ UNCHANGED <<qvars, link_state, fvars, hvars>>

NextDevice ==
    IF dev + 1 < NumDevices
    THEN dev' = dev + 1 /\ pc' = "send"
    ELSE dev' = 0 /\ pc' = "app"

OfDevice == {d \in Datagrams : DeviceIndex[d] = dev}

\* Mutation of FailDatagram: unlinked, the state left alone.
FailDatagramSilently ==
    /\ pc = "send"
    /\ ~link_state[dev]
    /\ \E i \in 1 .. Len(datagram_queue) :
          /\ IsFirst(i, OfDevice)
          /\ datagram_queue' = Without(datagram_queue, i)
    /\ UNCHANGED <<state, age, lag, index, datagram_index, ovars, fvars,
                   overrun, answer>>

\* Link is down: the datagrams of the device fail one after the other ...
FailDatagram ==
    /\ pc = "send"
    /\ ~link_state[dev]
    /\ \E i \in 1 .. Len(datagram_queue) :
          /\ IsFirst(i, OfDevice)
          /\ datagram_queue' = Without(datagram_queue, i)
          /\ Enter(datagram_queue[i], "ERROR")
    /\ UNCHANGED <<index, datagram_index, ovars, fvars, overrun, answer>>

\* ... then the device is polled to query the link state.
LinkPoll ==
    /\ pc = "send"
    /\ ~link_state[dev]
    /\ \A d \in OfDevice : ~InQueue(d)
    /\ pc' = "linkpoll"
    /\ UNCHANGED <<qvars, link_state, dev, fvars, hvars>>

LinkPollDone ==
    /\ pc = "linkpoll"
    /\ rx = <<>>
    /\ NextDevice
    /\ UNCHANGED <<qvars, link_state, fvars, hvars>>

\* The datagrams ec_master_send_datagrams() has still to put into a frame.
ToSend == {d \in OfDevice : state[d] = "QUEUED" /\ d \notin Elems(frame)}

SuccIndex(i) == IF i = IndexModulus - 1 THEN 0 ELSE i + 1
Older(n) == IF n < IndexModulus THEN n + 1 ELSE n
OlderFrame(f) == [k \in 1 .. Len(f) |-> [f[k] EXCEPT !.lag = Older(@)]]

\* Headers that can still meet an answer: written and neither answered nor
\* given up.
Live(d) == state[d] = "SENT" \/ d \in Elems(frame)

\* The index about to be used again is still outstanding.
Wraps ==
    \/ \E d \in Datagrams : Live(d) /\ lag[d] + 1 >= IndexModulus
    \/ \E f \in wire : \E k \in 1 .. Len(f) : f[k].lag + 1 >= IndexModulus

\* The next queued datagram of the device fits: write its header.
AddDatagram ==
    /\ pc = "send"
    /\ link_state[dev]
    /\ \E i \in 1 .. Len(datagram_queue) :
          /\ IsFirst(i, ToSend)
          /\ LET d == datagram_queue[i] IN
                /\ fill + Size[d] <= FrameCapacity
                /\ frame' = Append(frame, d)
                /\ fill' = fill + Size[d]
                /\ index' = [index EXCEPT ![d] = datagram_index]
                /\ header' = [header EXCEPT ![d] = datagram_index]
                /\ lag' = [e \in Datagrams |->
                              IF e = d THEN 0
                              ELSE IF Live(e) THEN Older(lag[e]) ELSE lag[e]]
    /\ datagram_index' = SuccIndex(datagram_index)
    /\ wire' = {OlderFrame(f) : f \in wire}
    /\ overrun' = (overrun \/ Wraps)
    /\ UNCHANGED <<datagram_queue, state, age, ovars, rx, answer>>

FrameItems ==
    [k \in 1 .. Len(frame) |->
        [dg |-> frame[k], index |-> header[frame[k]], lag |-> lag[frame[k]]]]

\* The frame is full or there is nothing left to add: ec_device_send().  The
\* datagrams count as sent whether or not the driver or the wire took it, and
\* whether or not they are still the ones put into it.
TransmitFrame ==
    /\ pc = "send"
    /\ link_state[dev]
    /\ frame # <<>>
    /\ \A i \in 1 .. Len(datagram_queue) :
          IsFirst(i, ToSend) => fill + Size[datagram_queue[i]] > FrameCapacity
    /\ \/ Cardinality(wire) < MaxWire /\ wire' = wire \cup {FrameItems}
       \/ wire' = wire                           \* lost at once
    /\ state' = [d \in Datagrams |->
                    IF d \in Elems(frame) THEN "SENT" ELSE state[d]]
    /\ age' = [d \in Datagrams |-> IF d \in Elems(frame) THEN 0 ELSE age[d]]
    /\ frame' = <<>>
    /\ fill' = 0
    /\ header' = [d \in Datagrams |-> 0]
    /\ UNCHANGED <<datagram_queue, index, datagram_index, ovars, rx, hvars>>

\* Mutation of SendDone: one frame per call, the rest is left.
SendDoneAfterFrame ==
    /\ pc = "send"
    /\ link_state[dev]
    /\ frame = <<>>
    /\ NextDevice
    /\ UNCHANGED <<qvars, link_state, fvars, hvars>>

SendDone ==
    /\ pc = "send"
    /\ link_state[dev]
    /\ frame = <<>>
    /\ \A d \in ToSend : ~InQueue(d)
    /\ NextDevice
    /\ UNCHANGED <<qvars, link_state, fvars, hvars>>

-----------------------------------------------------------------------------
(* The environment. *)

LoseFrame ==
    /\ \E f \in wire : wire' = wire \ {f}
    /\ UNCHANGED <<qvars, ovars, frame, fill, header, rx, hvars>>

\* Time passes between the calls of the sending and receiving thread.
Tick ==
    /\ pc = "app"
    /\ age' = [d \in Datagrams |->
                  IF state[d] = "SENT" /\ age[d] <= Timeout
                  THEN age[d] + 1 ELSE age[d]]
    /\ UNCHANGED <<datagram_queue, state, index, datagram_index, ovars,
                   fvars, hvars>>

-----------------------------------------------------------------------------
Owner ==
    \E d \in Datagrams : Prepare(d) \/ Reinit(d) \/ Queue(d) \/ Recreate(d)

\* The steps inside ecrt_master_receive() and ecrt_master_send().
Progress ==
    \/ ReceiveDatagram \/ ReceiveUnmatched \/ ReceiveCorrupted
    \/ PollDone \/ TimeoutDatagram \/ ReceiveEnd
    \/ FailDatagram \/ LinkPoll \/ LinkPollDone
    \/ AddDatagram \/ TransmitFrame \/ SendDone

Next ==
    \/ Owner
    \/ ReceiveBegin \/ SendBegin
    \/ Progress
    \/ PollFrame \/ SetLink \/ LoseFrame \/ Tick

Spec == Init /\ [][Next]_vars

\* The thread that sends and receives calls both functions again and again
\* and returns from them; time passes.
Fairness ==
    /\ WF_vars(Progress)
    /\ SF_vars(ReceiveBegin)
    /\ SF_vars(SendBegin)
    /\ SF_vars(Tick)

FairSpec == Spec /\ Fairness

-----------------------------------------------------------------------------
(* Properties. *)

\* Type invariant.
TypeOK ==
    /\ datagram_queue \in Seq(Datagrams)
    /\ state \in [Datagrams -> States]
    /\ index \in [Datagrams -> 0 .. IndexModulus - 1]
    /\ age \in [Datagrams -> 0 .. Timeout + 1]
    /\ datagram_index \in 0 .. IndexModulus - 1
    /\ link_state \in [Devices -> BOOLEAN]
    /\ pc \in {"app", "poll", "timeouts", "send", "linkpoll"}
    /\ dev \in Devices
    /\ frame \in Seq(Datagrams)
    /\ fill \in 0 .. FrameCapacity
    /\ header \in [Datagrams -> 0 .. IndexModulus - 1]
    /\ rx \in Seq(Items)
    /\ wire \subseteq Seq(Items)
    /\ lag \in [Datagrams -> 0 .. IndexModulus]
    /\ overrun \in BOOLEAN
    /\ answer \in [Datagrams -> {"none", "own", "foreign"}]

\* The queue links every queued or sent datagram, and no datagram twice
\* ("which results in an infinite loop!", comment in ec_master_queue_datagram()),
\* although the master FSM re-initialises datagrams that are linked: only such
\* a one may be found in the queue with nothing to wait for.
QueueMembership ==
    /\ \A i, j \in 1 .. Len(datagram_queue) :
          datagram_queue[i] = datagram_queue[j] => i = j
    /\ \A d \in Datagrams :
          IF state[d] \in {"QUEUED", "SENT"} THEN InQueue(d)
          ELSE InQueue(d) => d \in Clocks /\ state[d] = "INIT"

\* Matching by index never hands a datagram the content of another one's
\* frame, nor of an earlier sending of its own, whatever is lost, delayed or
\* reordered on the wire, as long as the 8 bit index does not wrap around
\* onto an outstanding header and no datagram is re-initialised in the frame
\* being built.
OwnAnswer ==
    ~overrun => \A d \in Datagrams : state[d] = "RECEIVED" => answer[d] = "own"

\* Two datagrams that wait for their answers never carry the same index
\* (under the same proviso): the search in ec_master_receive_datagrams()
\* has at most one hit.
UniqueIndex ==
    ~overrun => \A d, e \in Datagrams :
                   state[d] = "SENT" /\ state[e] = "SENT" /\ index[d] = index[e]
                   => d = e

\* ecrt_master_send() leaves no datagram behind: when it returns, each one
\* that was queued has been put on the wire or has failed for want of a
\* link, however many frames that took.
SendDrains ==
    [][(pc \in {"send", "linkpoll"} /\ pc' = "app")
       => (\A d \in Datagrams : state'[d] # "QUEUED")]_vars

\* ecrt_master_receive() leaves no datagram waiting beyond its timeout.
ReceiveExpires ==
    [][(pc = "timeouts" /\ pc' = "app") => Expired' = {}]_vars

\* Every datagram a state machine submits is settled in the end, whatever
\* the wire loses: the machine is not stuck waiting for it.
Completion ==
    \A d \in Datagrams \ Cyclic :
        state[d] \in {"QUEUED", "SENT"} ~> state[d] \notin {"QUEUED", "SENT"}

\* The queue implements the life cycle promised to the datagrams' owners.
Life == INSTANCE DatagramLife WITH
    Datagrams <- Datagrams, Cyclic <- Cyclic, Clocks <- Clocks, state <- state
LifeSpec == Life!Spec
=============================================================================
