------------------------------- MODULE ExtRing -------------------------------
(***************************************************************************)
(* The external datagram ring, through which the slave state machines of   *)
(* the operation thread hand datagrams to the realtime application:        *)
(* ec_master_exec_slave_fsms(), ec_master_get_external_datagram(),         *)
(* ec_master_inject_external_datagrams() (master/master.c) and             *)
(* ec_fsm_slave_exec() (master/fsm_slave.c).                               *)
(*                                                                         *)
(* The two threads share the ring without a lock: the operation thread     *)
(* prepares the slot at ext_ring_idx_fsm and then moves that index, the    *)
(* application injects the slots from ext_ring_idx_rt on.  A slot that     *)
(* ext_ring_idx_rt has passed counts as free although its datagram may     *)
(* still be in the queue or on the wire.                                   *)
(*                                                                         *)
(* A step of the model is the execution of one state machine, the move of  *)
(* the index behind it, or the injection or settlement of one datagram.    *)
(* Time is counted in cycles of the application.                           *)
(***************************************************************************)
EXTENDS Integers, SequencesExt

CONSTANTS
    NumSlaves,          \* slaves on the bus, when there are any
    RingSize,           \* EC_EXT_RING_SIZE
    Lifetime,           \* cycles after which an unanswered datagram times out
    InjectionTimeout,   \* EC_SDO_INJECTION_TIMEOUT in cycles
    MaxQueue,           \* max_queue_size
    MaxLoad,            \* what the application itself queues at most
    Rescans,            \* the bus is scanned anew, or the link lost, with
                        \* slaves on it
    MaxPasses,          \* passes of the operation thread per cycle: it sleeps
                        \* for send_interval after each (EC_USE_HRTIMER)
    Sizes,              \* [Slaves -> data sizes of the datagrams for a slave]
    FailsAtOnce,        \* slaves whose requests fail before a datagram is
                        \* prepared (an SDO request, but no CoE support)
    Aborting,           \* slaves whose requests may be aborted, because they
                        \* are in INIT or have their error flag set
    Segmented,          \* slaves that get SDO values in several segments
    MaxRetries          \* EC_FSM_RETRIES

Slaves == 0 .. NumSlaves - 1
Slots == 0 .. RingSize - 1
MaxAge == IF Lifetime > InjectionTimeout THEN Lifetime ELSE InjectionTimeout + 1

ASSUME RingAssumption ==
    /\ NumSlaves \in Nat \ {0}
    /\ RingSize \in Nat \ {0}
    /\ Lifetime \in Nat /\ InjectionTimeout \in Nat
    /\ Rescans \in BOOLEAN
    /\ MaxQueue \in Nat /\ MaxLoad \in Nat /\ MaxPasses \in Nat
    /\ Sizes \in [Slaves -> SUBSET Nat \ {{}}]
    /\ FailsAtOnce \subseteq Slaves
    /\ Aborting \subseteq Slaves
    /\ Segmented \subseteq Slaves
    /\ MaxRetries \in Nat

VARIABLES
    slot,               \* state of the ring's datagrams; "settled" stands for
                        \* RECEIVED and ERROR
    data_size,          \* data_size of the ring's datagrams
    age,                \* cycles since jiffies_sent, up to MaxAge
    ext_ring_idx_fsm, ext_ring_idx_rt,
    fsm,                \* state of the slaves' state machines: no slave, idle,
                        \* ready for requests, or busy with one
    datagram,           \* fsm->datagram: a slot, or None
    retries,            \* fsm_coe.retries
    fsm_exec_list, fsm_exec_count,
    fsm_slave,          \* the slave to look at next
    passes,             \* passes of the operation thread in this cycle
    op, todo, count,    \* where the operation thread is in exec_slave_fsms()
    inject,             \* injection_seq_fsm # injection_seq_rt
    fsm_datagram,       \* state of the master FSM's datagram, "settled"
                        \* also when it is prepared and not yet queued
    rt, queue_size      \* where the application is, bytes queued in its cycle

None == -1

ringvars == <<slot, data_size, age>>
opvars == <<fsm, datagram, retries, fsm_exec_list, fsm_exec_count, fsm_slave,
            op, todo, count, ext_ring_idx_fsm>>
rtvars == <<rt, queue_size, ext_ring_idx_rt>>
vars == <<ringvars, opvars, rtvars, inject, fsm_datagram, passes>>

InFlight == {"QUEUED", "SENT"}

\* "Previous datagram was not sent or received yet."
Pending == {"INIT", "QUEUED", "SENT"}

\* The next index of the ring.
Next1(i) == (i + 1) % RingSize

-----------------------------------------------------------------------------
Init ==
    /\ slot = [i \in Slots |-> "INIT"]
    /\ data_size = [i \in Slots |-> 0]
    /\ age = [i \in Slots |-> MaxAge]
    /\ ext_ring_idx_fsm = 0 /\ ext_ring_idx_rt = 0
    /\ fsm = [s \in Slaves |-> "none"]
    /\ datagram = [s \in Slaves |-> None]
    /\ retries = [s \in Slaves |-> 0]
    /\ fsm_exec_list = <<>> /\ fsm_exec_count = 0
    /\ fsm_slave = 0
    /\ op = "sleep" /\ todo = <<>> /\ count = 0
    /\ inject = FALSE
    /\ passes = 0
    /\ fsm_datagram = "settled"
    /\ rt = "receive" /\ queue_size = 0

-----------------------------------------------------------------------------
(* The operation thread: the master state machine. *)

\* ec_master_clear_slaves() and, for a new scan, ec_slave_init() for each
\* slave found: the state machines go, their slots stay as they are.
ReplaceSlaves(state) ==
    /\ Rescans \/ \A s \in Slaves : fsm[s] = "none"
    /\ fsm' = [s \in Slaves |-> state]
    /\ datagram' = [s \in Slaves |-> None]
    /\ retries' = [s \in Slaves |-> 0]
    /\ fsm_exec_list' = <<>>
    /\ fsm_exec_count' = 0
    /\ fsm_slave' = 0

\* ec_fsm_slave_set_ready(), for every slave.
SetReady ==
    /\ fsm' = [s \in Slaves |-> IF fsm[s] = "idle" THEN "ready" ELSE fsm[s]]
    /\ UNCHANGED <<datagram, retries, fsm_exec_list, fsm_exec_count, fsm_slave>>

\* One pass of ec_master_operation_thread() begins with the master state
\* machine, unless its datagram is under way.
OperationThread ==
    /\ op = "sleep"
    /\ passes < MaxPasses /\ passes' = passes + 1
    /\ ~inject
    /\ IF fsm_datagram \in InFlight
       THEN UNCHANGED <<fsm, datagram, retries, fsm_exec_list, fsm_exec_count, fsm_slave,
                        inject, fsm_datagram>>
       ELSE /\ fsm_datagram' = "settled"
            /\ inject' = TRUE
            /\ \/ ReplaceSlaves("none")     \* link down
               \/ ReplaceSlaves("idle")     \* new scan
               \/ SetReady
               \/ UNCHANGED <<fsm, datagram, retries, fsm_exec_list, fsm_exec_count,
                              fsm_slave>>
    /\ op' = "list"
    /\ todo' = fsm_exec_list'
    /\ count' = 0
    /\ UNCHANGED <<ringvars, ext_ring_idx_fsm, rtvars>>

-----------------------------------------------------------------------------
(* The operation thread: ec_master_exec_slave_fsms(). *)

\* ec_master_get_external_datagram() returns a datagram.
FreeDatagram == Next1(ext_ring_idx_fsm) # ext_ring_idx_rt

Unlist(s) ==
    /\ \E i \in 1 .. Len(fsm_exec_list) :
          fsm_exec_list[i] = s /\ fsm_exec_list' = RemoveAt(fsm_exec_list, i)
    /\ fsm_exec_count' = fsm_exec_count - 1

\* EC_FUNC_HEADER on the slot at ext_ring_idx_fsm, in a state that may be
\* retried when the datagram times out.
PrepareSlot(s) ==
    /\ retries' = [retries EXCEPT ![s] = IF s \in Segmented THEN MaxRetries ELSE 0]
    /\ slot' = [slot EXCEPT ![ext_ring_idx_fsm] = "INIT"]
    /\ \E n \in Sizes[s] : data_size' = [data_size EXCEPT ![ext_ring_idx_fsm] = n]
    /\ UNCHANGED age

\* A state machine without datagram is dropped: "This is a bug!"
ListZeroDatagram ==
    /\ op = "list" /\ todo # <<>>
    /\ datagram[Head(todo)] = None
    /\ Unlist(Head(todo))
    /\ op' = "sleep"
    /\ UNCHANGED <<ringvars, fsm, datagram, retries, fsm_slave, todo, count,
                   ext_ring_idx_fsm, rtvars, inject, fsm_datagram, passes>>

\* The previous datagram was not sent or received yet: the pass ends.
ListWait ==
    /\ op = "list" /\ todo # <<>>
    /\ datagram[Head(todo)] # None
    /\ slot[datagram[Head(todo)]] \in Pending
    /\ op' = "sleep"
    /\ UNCHANGED <<ringvars, fsm, datagram, retries, fsm_exec_list, fsm_exec_count,
                   fsm_slave, todo, count, ext_ring_idx_fsm, rtvars, inject,
                   fsm_datagram, passes>>

Settled(s) == datagram[s] # None /\ slot[datagram[s]] \notin Pending

\* ec_fsm_slave_exec(): the state machine prepares its next datagram.  It is
\* passed over when there is none: "This is a bug!"
ListContinue ==
    /\ op = "list" /\ todo # <<>>
    /\ Settled(Head(todo))
    /\ Head(todo) \notin FailsAtOnce \/ ~FreeDatagram
    /\ IF FreeDatagram
       THEN /\ PrepareSlot(Head(todo))
            /\ datagram' = [datagram EXCEPT ![Head(todo)] = ext_ring_idx_fsm]
            /\ op' = "list_advance"
            /\ UNCHANGED todo
       ELSE /\ todo' = Tail(todo)
            /\ UNCHANGED <<ringvars, datagram, retries, op>>
    /\ UNCHANGED <<fsm, fsm_exec_list, fsm_exec_count, fsm_slave, count,
                   ext_ring_idx_fsm, rtvars, inject, fsm_datagram, passes>>

\* ec_fsm_coe_down_seg_check(): the check for a segment's answer timed out and
\* is repeated, but nothing is prepared.  The slot at ext_ring_idx_fsm counts
\* as used all the same, in the state it was left in.
ListUnprepared ==
    /\ op = "list" /\ todo # <<>>
    /\ datagram[Head(todo)] # None
    /\ slot[datagram[Head(todo)]] = "TIMED_OUT"
    /\ retries[Head(todo)] > 0
    /\ FreeDatagram
    /\ retries' = [retries EXCEPT ![Head(todo)] = @ - 1]
    /\ datagram' = [datagram EXCEPT ![Head(todo)] = ext_ring_idx_fsm]
    /\ op' = "list_advance"
    /\ UNCHANGED <<ringvars, fsm, fsm_exec_list, fsm_exec_count, fsm_slave, todo,
                   count, ext_ring_idx_fsm, rtvars, inject, fsm_datagram, passes>>

ListAdvance ==
    /\ op = "list_advance"
    /\ ext_ring_idx_fsm' = Next1(ext_ring_idx_fsm)
    /\ todo' = Tail(todo)
    /\ op' = "list"
    /\ UNCHANGED <<ringvars, fsm, datagram, retries, fsm_exec_list, fsm_exec_count,
                   fsm_slave, count, rtvars, inject, fsm_datagram, passes>>

\* Mutation of ListFinish: the state machine stays in the list.
ListFinishListed ==
    /\ op = "list" /\ todo # <<>>
    /\ Settled(Head(todo))
    /\ FreeDatagram
    /\ fsm' = [fsm EXCEPT ![Head(todo)] = "ready"]
    /\ datagram' = [datagram EXCEPT ![Head(todo)] = None]
    /\ retries' = [retries EXCEPT ![Head(todo)] = 0]
    /\ todo' = Tail(todo)
    /\ UNCHANGED <<ringvars, fsm_exec_list, fsm_exec_count, fsm_slave, op, count,
                   ext_ring_idx_fsm, rtvars, inject, fsm_datagram, passes>>

\* ec_fsm_slave_exec(): the request is finished, or has failed.
ListFinish ==
    /\ op = "list" /\ todo # <<>>
    /\ Settled(Head(todo))
    /\ FreeDatagram
    /\ fsm' = [fsm EXCEPT ![Head(todo)] = "ready"]
    /\ datagram' = [datagram EXCEPT ![Head(todo)] = None]
    /\ retries' = [retries EXCEPT ![Head(todo)] = 0]
    /\ Unlist(Head(todo))
    /\ todo' = Tail(todo)
    /\ UNCHANGED <<ringvars, fsm_slave, op, count, ext_ring_idx_fsm, rtvars,
                   inject, fsm_datagram, passes>>

ListDone ==
    /\ op = "list" /\ todo = <<>>
    /\ op' = "scan"
    /\ UNCHANGED <<ringvars, fsm, datagram, retries, fsm_exec_list, fsm_exec_count,
                   fsm_slave, todo, count, ext_ring_idx_fsm, rtvars, inject,
                   fsm_datagram, passes>>

slave_count == IF \E s \in Slaves : fsm[s] = "none" THEN 0 ELSE NumSlaves

More == fsm_exec_count < RingSize \div 2 /\ count < slave_count

NextSlave ==
    /\ fsm_slave' = (fsm_slave + 1) % NumSlaves
    /\ count' = count + 1

\* Not ready, no request for this slave, or its request is aborted (the FSM
\* goes idle).
ScanNext ==
    /\ op = "scan" /\ More
    /\ \/ UNCHANGED fsm
       \/ /\ fsm[fsm_slave] = "ready" /\ fsm_slave \in Aborting
          /\ fsm' = [fsm EXCEPT ![fsm_slave] = "idle"]
    /\ NextSlave
    /\ UNCHANGED <<ringvars, datagram, retries, fsm_exec_list, fsm_exec_count, op, todo,
                   ext_ring_idx_fsm, rtvars, inject, fsm_datagram, passes>>

\* A request is started, "execute immediately": with the slot at
\* ext_ring_idx_fsm, or with NULL when none is free.
ScanStart ==
    /\ op = "scan" /\ More
    /\ fsm[fsm_slave] = "ready"
    /\ fsm' = [fsm EXCEPT ![fsm_slave] = "busy"]
    /\ datagram' = [datagram EXCEPT ![fsm_slave] =
                       IF FreeDatagram THEN ext_ring_idx_fsm ELSE None]
    /\ IF FreeDatagram /\ fsm_slave \notin FailsAtOnce
       THEN PrepareSlot(fsm_slave)
       ELSE UNCHANGED <<ringvars, retries>>
    /\ op' = "scan_advance"
    /\ UNCHANGED <<fsm_exec_list, fsm_exec_count, fsm_slave, todo, count,
                   ext_ring_idx_fsm, rtvars, inject, fsm_datagram, passes>>

\* The state machine used the datagram: the index moves on.
ScanAdvance ==
    /\ op = "scan_advance"
    /\ ext_ring_idx_fsm' = Next1(ext_ring_idx_fsm)
    /\ fsm_exec_list' = Append(fsm_exec_list, fsm_slave)
    /\ fsm_exec_count' = fsm_exec_count + 1
    /\ NextSlave
    /\ op' = "scan"
    /\ UNCHANGED <<ringvars, fsm, datagram, retries, todo, rtvars, inject, fsm_datagram, passes>>

ScanDone ==
    /\ op = "scan" /\ ~More
    /\ op' = "sleep"
    /\ UNCHANGED <<ringvars, fsm, datagram, retries, fsm_exec_list, fsm_exec_count,
                   fsm_slave, todo, count, ext_ring_idx_fsm, rtvars, inject,
                   fsm_datagram, passes>>

-----------------------------------------------------------------------------
(* The application: ecrt_master_receive(). *)

Older(n) == IF n < MaxAge THEN n + 1 ELSE n

\* A cycle begins.
ReceiveBegin ==
    /\ rt = "receive"
    /\ rt' = "received"
    /\ passes' = 0
    /\ age' = [i \in Slots |-> Older(age[i])]
    /\ UNCHANGED <<slot, data_size, opvars, queue_size, ext_ring_idx_rt, inject,
                   fsm_datagram>>

\* The answer to a datagram came in.
ReceiveSlot(i) ==
    /\ rt = "received"
    /\ slot[i] = "SENT"
    /\ slot' = [slot EXCEPT ![i] = "settled"]
    /\ UNCHANGED <<data_size, age, opvars, rtvars, inject, fsm_datagram, passes>>

ReceiveMaster ==
    /\ rt = "received"
    /\ fsm_datagram = "SENT"
    /\ fsm_datagram' = "settled"
    /\ UNCHANGED <<ringvars, opvars, rtvars, inject, passes>>

Expired(i) == slot[i] = "SENT" /\ age[i] >= Lifetime

\* All datagrams on the wire for too long are dequeued.
ReceiveEnd ==
    /\ rt = "received"
    /\ slot' = [i \in Slots |-> IF Expired(i) THEN "TIMED_OUT" ELSE slot[i]]
    /\ fsm_datagram' =
          IF fsm_datagram = "SENT" THEN "settled" ELSE fsm_datagram
    /\ rt' = "send"
    /\ UNCHANGED <<data_size, age, opvars, queue_size, ext_ring_idx_rt,
                   inject, passes>>

-----------------------------------------------------------------------------
(* The application: ecrt_master_send(). *)

\* The master FSM's datagram is queued; the application's own datagrams
\* take some of the space.
SendBegin ==
    /\ rt = "send"
    /\ fsm_datagram' = IF inject THEN "QUEUED" ELSE fsm_datagram
    /\ inject' = FALSE
    /\ queue_size' \in 0 .. MaxLoad
    /\ rt' = "inject"
    /\ UNCHANGED <<ringvars, opvars, ext_ring_idx_rt, passes>>

AtRt == ext_ring_idx_rt
Injecting == rt = "inject" /\ ext_ring_idx_rt # ext_ring_idx_fsm
Fits == queue_size + data_size[AtRt] <= MaxQueue
TooLarge == data_size[AtRt] > MaxQueue

\* Mutation of TooLate: a datagram is deferred without end.
TooLateNever == FALSE

\* jiffies_sent is too long ago.
TooLate == age[AtRt] > InjectionTimeout

\* Not prepared, or failed before: passed over.
InjectSkip ==
    /\ Injecting
    /\ slot[AtRt] # "INIT"
    /\ ext_ring_idx_rt' = Next1(ext_ring_idx_rt)
    /\ UNCHANGED <<ringvars, opvars, rt, queue_size, inject, fsm_datagram, passes>>

\* jiffies_sent = 0, which is long ago.
InjectQueue ==
    /\ Injecting
    /\ slot[AtRt] = "INIT" /\ Fits
    /\ slot' = [slot EXCEPT ![AtRt] = "QUEUED"]
    /\ age' = [age EXCEPT ![AtRt] = MaxAge]
    /\ queue_size' = queue_size + data_size[AtRt]
    /\ ext_ring_idx_rt' = Next1(ext_ring_idx_rt)
    /\ UNCHANGED <<data_size, opvars, rt, inject, fsm_datagram, passes>>

InjectFails ==
    /\ slot' = [slot EXCEPT ![AtRt] = "settled"]
    /\ ext_ring_idx_rt' = Next1(ext_ring_idx_rt)
    /\ UNCHANGED <<data_size, age, opvars, rt, queue_size, inject,
                   fsm_datagram, passes>>

InjectTooLarge ==
    /\ Injecting
    /\ slot[AtRt] = "INIT" /\ ~Fits /\ TooLarge
    /\ InjectFails

\* It does not fit, and has not for too long.
InjectTimeout ==
    /\ Injecting
    /\ slot[AtRt] = "INIT" /\ ~Fits /\ ~TooLarge
    /\ TooLate
    /\ InjectFails

Deferred ==
    slot[AtRt] = "INIT" /\ ~Fits /\ ~TooLarge /\ ~TooLate

\* The ring is done, or its next datagram is deferred.
InjectDone ==
    /\ rt = "inject"
    /\ ext_ring_idx_rt = ext_ring_idx_fsm \/ Deferred
    /\ rt' = "transmit"
    /\ queue_size' = 0
    /\ UNCHANGED <<ringvars, opvars, ext_ring_idx_rt, inject, fsm_datagram, passes>>

\* ec_master_send_datagrams(): what is queued is sent now ...
Transmit ==
    /\ rt = "transmit"
    /\ slot' = [i \in Slots |-> IF slot[i] = "QUEUED" THEN "SENT" ELSE slot[i]]
    /\ age' = [i \in Slots |-> IF slot[i] = "QUEUED" THEN 0 ELSE age[i]]
    /\ fsm_datagram' = IF fsm_datagram = "QUEUED" THEN "SENT" ELSE fsm_datagram
    /\ rt' = "receive"
    /\ UNCHANGED <<data_size, opvars, queue_size, ext_ring_idx_rt, inject, passes>>

\* ... or fails, with everything else in the queue, if the link is down.
LinkDown ==
    /\ rt = "transmit"
    /\ slot' = [i \in Slots |-> IF slot[i] \in InFlight THEN "settled" ELSE slot[i]]
    /\ fsm_datagram' =
          IF fsm_datagram \in InFlight THEN "settled" ELSE fsm_datagram
    /\ rt' = "receive"
    /\ UNCHANGED <<data_size, age, opvars, queue_size, ext_ring_idx_rt, inject, passes>>

-----------------------------------------------------------------------------
ExecSlaveFsms ==
    \/ ListZeroDatagram \/ ListWait \/ ListContinue \/ ListUnprepared
    \/ ListAdvance \/ ListFinish \/ ListDone
    \/ ScanNext \/ ScanStart \/ ScanAdvance \/ ScanDone

Application ==
    \/ ReceiveBegin \/ ReceiveEnd
    \/ SendBegin
    \/ InjectSkip \/ InjectQueue \/ InjectTooLarge \/ InjectTimeout \/ InjectDone
    \/ Transmit \/ LinkDown

Next ==
    \/ OperationThread \/ ExecSlaveFsms
    \/ Application
    \/ ReceiveMaster \/ \E i \in Slots : ReceiveSlot(i)

Spec == Init /\ [][Next]_vars

\* Both threads run: the operation thread makes its passes, the application
\* its cycles.
FairSpec ==
    /\ Spec
    /\ WF_vars(OperationThread \/ ExecSlaveFsms)
    /\ WF_vars(Application)

-----------------------------------------------------------------------------
(* Properties. *)

\* Type invariant.
TypeOK ==
    /\ slot \in [Slots -> {"INIT", "QUEUED", "SENT", "TIMED_OUT", "settled"}]
    /\ data_size \in [Slots -> {0} \cup UNION {Sizes[s] : s \in Slaves}]
    /\ age \in [Slots -> 0 .. MaxAge]
    /\ ext_ring_idx_fsm \in Slots /\ ext_ring_idx_rt \in Slots
    /\ fsm \in [Slaves -> {"none", "idle", "ready", "busy"}]
    /\ datagram \in [Slaves -> Slots \cup {None}]
    /\ retries \in [Slaves -> 0 .. MaxRetries]
    /\ fsm_exec_list \in Seq(Slaves)
    /\ fsm_exec_count \in 0 .. RingSize \div 2
    /\ fsm_slave \in Slaves
    /\ op \in {"sleep", "list", "list_advance", "scan", "scan_advance"}
    /\ todo \in Seq(Slaves)
    /\ count \in 0 .. NumSlaves
    /\ passes \in 0 .. MaxPasses
    /\ inject \in BOOLEAN
    /\ fsm_datagram \in {"QUEUED", "SENT", "settled"}
    /\ rt \in {"receive", "received", "send", "inject", "transmit"}
    /\ queue_size \in 0 .. MaxLoad + MaxQueue

\* No state machine is started or kept without a datagram.
NoZeroDatagram == \A s \in Slaves : fsm[s] = "busy" => datagram[s] # None

\* The list of the state machines to be executed, whose links are in the
\* state machines themselves, holds none of them twice, only busy ones, as many
\* as fsm_exec_count says, and every one that waits for its datagram: one that
\* is not listed is never executed again, and its request never answered.
ExecListIntact ==
    op # "scan_advance" =>
        /\ Len(fsm_exec_list) = fsm_exec_count
        /\ \A i, j \in 1 .. Len(fsm_exec_list) :
              /\ fsm_exec_list[i] = fsm_exec_list[j] => i = j
              /\ fsm[fsm_exec_list[i]] = "busy"
        /\ \A s \in Slaves :
              fsm[s] = "busy" /\ datagram[s] # None =>
                  \E i \in 1 .. Len(fsm_exec_list) : fsm_exec_list[i] = s

\* The state machine at the head was executed, and used a slot.
Executed(s) == op = "list_advance" /\ Head(todo) = s

\* A state machine that waits for its datagram is executed again, whatever
\* the wire loses, however full the application's cycles are and whoever else
\* is in the list.
Served ==
    \A s \in Slaves : []<>(fsm[s] # "busy" \/ Executed(s))
=============================================================================
