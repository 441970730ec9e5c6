--------------------------------- MODULE Eoe ---------------------------------
(***************************************************************************)
(* Ethernet over EtherCAT (master/ethernet.c): one handler with its        *)
(* virtual network device, the EoE thread that runs it (master/master.c),  *)
(* the queue of non-application datagrams it shares with the application's *)
(* send callback, and the mailbox of the slave.                            *)
(*                                                                         *)
(* The network stack hands frames to the device (ec_eoedev_tx), the EoE    *)
(* thread cuts them into fragments and sends each with the handler's only  *)
(* datagram, and in turn polls the slave's mailbox for fragments of frames *)
(* to receive.  A frame is the number of its fragments; every fragment but *)
(* the last fills the mailbox.                                             *)
(***************************************************************************)
EXTENDS Integers, Sequences, FiniteSets

CONSTANTS
    TxSizes,        \* sizes of the frames to transmit, in fragments
    RxSizes,        \* sizes of the slave's frames
    TxQueueSize,    \* EC_EOE_TX_QUEUE_SIZE
    Tries,          \* EC_EOE_TRIES
    MaxLost,        \* fragments of the slave lost in a row
    Denies          \* TRUE if the application's send callback may return
                    \* without calling ecrt_master_send_ext()

ASSUME EoeAssumption ==
    /\ TxSizes \subseteq Nat \ {0} /\ IsFiniteSet(TxSizes)
    /\ RxSizes \subseteq Nat \ {0} /\ IsFiniteSet(RxSizes) /\ RxSizes # {}
    /\ TxQueueSize \in Nat \ {0, 1}
    /\ Tries \in Nat /\ MaxLost \in Nat
    /\ Denies \in BOOLEAN

VARIABLES
    netdev,             \* the network device: down, opening, up, closing
    opened, tx_queue, tx_queue_active,
    state,              \* eoe->state
    tx_frame, tx_offset, tries,
    rx_skb,             \* the fragments received of a frame
    rx_size,            \* rx_skb_size, in fragments; 0 without rx_skb
    rx_expected_fragment,
    queue_datagram,
    datagram,           \* datagram.state; "FAILED" is TIMED_OUT or ERROR
    request, answer,    \* what the datagram asks the slave, and its answer
    ext_links,          \* how often it was linked into ext_datagram_queue
    thread,             \* where the EoE thread is
    fault,              \* slave->error_flag, or no link
    mailbox,            \* what the slave has for the master
    out,                \* the frame the slave sends: its number, its size and
                        \* the next fragment
    lost, lost_before,  \* fragments lost since the last one fetched, and
                        \* between that one and the one before
    taken,              \* fragments of tx_frame the slave has, in order
    whole               \* history: every frame received was one frame of the
                        \* slave's

\* What may be in the mailbox or in an answer besides a fragment.
Mail(kind) == [kind |-> kind, frame |-> 0, size |-> 0, number |-> 0]
None == Mail("none")

devvars == <<netdev, opened, tx_queue, tx_queue_active>>
txvars == <<tx_frame, tx_offset, tries>>
rxvars == <<rx_skb, rx_size, rx_expected_fragment, whole>>
dgvars == <<datagram, request, answer>>
slavevars == <<mailbox, out, lost, lost_before>>
vars == <<devvars, state, txvars, rxvars, queue_datagram, dgvars, ext_links,
          thread, fault, slavevars, taken>>

\* A fragment in the slave's mailbox.  Frames are numbered modulo three, which
\* tells those apart that MaxLost allows to get mixed up.
Fragments ==
    {f \in [kind : {"fragment"}, frame : 0 .. 2, size : RxSizes, number : Nat] :
        f.number < f.size}

IsFragment(m) == m.kind = "fragment"

Last(f) == f.number = f.size - 1

-----------------------------------------------------------------------------
\* ec_eoe_init()
Init ==
    /\ netdev = "down" /\ opened = FALSE
    /\ tx_queue = <<>> /\ tx_queue_active = FALSE
    /\ state = "rx_start"
    /\ tx_frame = 0 /\ tx_offset = 0 /\ tries = 0
    /\ rx_skb = <<>> /\ rx_size = 0 /\ rx_expected_fragment = 0
    /\ queue_datagram = FALSE
    /\ datagram = "INIT" /\ request = "none" /\ answer = None
    /\ taken = 0
    /\ ext_links = 0
    /\ thread = "receive"
    /\ fault = FALSE
    /\ mailbox = None /\ lost = 0 /\ lost_before = 0
    /\ \E n \in RxSizes :
          out = [kind |-> "fragment", frame |-> 0, size |-> n, number |-> 0]
    /\ whole = TRUE

-----------------------------------------------------------------------------
(* The network stack. *)

\* ec_eoedev_open(): the queue is flushed, then the device is opened.
Open ==
    /\ netdev = "down"
    /\ netdev' = "opening"
    /\ tx_queue' = <<>>
    /\ UNCHANGED <<opened, tx_queue_active, state, txvars, rxvars,
                   queue_datagram, dgvars, ext_links, thread, fault, slavevars,
                   taken>>

OpenDone ==
    /\ netdev = "opening"
    /\ netdev' = "up"
    /\ opened' = TRUE
    /\ tx_queue_active' = TRUE
    /\ UNCHANGED <<tx_queue, state, txvars, rxvars, queue_datagram, dgvars,
                   ext_links, thread, fault, slavevars, taken>>

\* ec_eoedev_stop(), the flush of the queue being a step of its own.
Stop ==
    /\ netdev = "up"
    /\ netdev' = "closing"
    /\ tx_queue_active' = FALSE
    /\ opened' = FALSE
    /\ UNCHANGED <<tx_queue, state, txvars, rxvars, queue_datagram, dgvars,
                   ext_links, thread, fault, slavevars, taken>>

StopDone ==
    /\ netdev = "closing"
    /\ netdev' = "down"
    /\ tx_queue' = <<>>
    /\ UNCHANGED <<opened, tx_queue_active, state, txvars, rxvars,
                   queue_datagram, dgvars, ext_links, thread, fault, slavevars,
                   taken>>

\* The queue is stopped when it is full.
TransmitFrame(f) ==
    /\ tx_queue' = Append(tx_queue, f)
    /\ tx_queue_active' = (Len(tx_queue') # TxQueueSize)

\* ec_eoedev_tx(): the stack calls it while the queue is not stopped.
Transmit ==
    /\ netdev = "up" /\ tx_queue_active
    /\ \E f \in TxSizes : TransmitFrame(f)
    /\ UNCHANGED <<netdev, opened, state, txvars, rxvars, queue_datagram, dgvars,
                   ext_links, thread, fault, slavevars, taken>>

-----------------------------------------------------------------------------
(* The state functions of the handler. *)

Ask(what) ==
    /\ request' = what
    /\ answer' = None
    /\ datagram' = "INIT"
    /\ queue_datagram' = TRUE

Keep == UNCHANGED <<queue_datagram, dgvars>>

\* ec_eoe_state_rx_start()
RxStart ==
    IF fault THEN Keep /\ UNCHANGED state
             ELSE Ask("check") /\ state' = "rx_check"

StateRxStart ==
    /\ state = "rx_start"
    /\ RxStart
    /\ UNCHANGED <<tx_queue, tx_queue_active, txvars, rxvars, taken>>

StateRxCheck ==
    /\ state = "rx_check"
    /\ IF datagram = "RECEIVED" /\ answer = Mail("full")
       THEN Ask("fetch") /\ state' = "rx_fetch"
       ELSE Keep /\ state' = "tx_start"
    /\ UNCHANGED <<tx_queue, tx_queue_active, txvars, rxvars, taken>>

Fetched == datagram = "RECEIVED" /\ IsFragment(answer)

\* Not received, not for this protocol, or no socket buffer.
RxDropped ==
    /\ ~Fetched \/ answer.number = 0
    /\ state' = "tx_start"
    /\ IF Fetched THEN rx_skb' = <<>> /\ rx_size' = 0
                  ELSE UNCHANGED <<rx_skb, rx_size>>
    /\ UNCHANGED <<rx_expected_fragment, whole>>

\* Mutation of Fits: the fragment number is compared only, not the buffer.
FitsExpected(f) == f.number = rx_expected_fragment

\* A fragment that continues the frame in the socket buffer.
Fits(f) ==
    /\ rx_skb # <<>>
    /\ f.number = Len(rx_skb)               \* offset = rx_skb_offset
    /\ Len(rx_skb) + 1 <= rx_size
    /\ f.number = rx_expected_fragment

RxMisfit ==
    /\ Fetched /\ answer.number # 0 /\ ~Fits(answer)
    /\ rx_skb' = <<>> /\ rx_size' = 0
    /\ state' = "tx_start"
    /\ UNCHANGED <<rx_expected_fragment, whole>>

RxAccept ==
    /\ Fetched
    /\ answer.number = 0 \/ Fits(answer)
    /\ LET skb == IF answer.number = 0 THEN <<answer>> ELSE Append(rx_skb, answer)
       IN  IF Last(answer)
           THEN /\ rx_skb' = <<>> /\ rx_size' = 0
                /\ rx_expected_fragment' =
                      IF answer.number = 0 THEN 0 ELSE rx_expected_fragment
                /\ whole' = (whole /\ \A i \in 1 .. Len(skb) :
                                skb[i] = [answer EXCEPT !.number = i - 1])
                /\ state' = "tx_start"
           ELSE /\ rx_skb' = skb
                /\ rx_size' = IF answer.number = 0 THEN answer.size ELSE rx_size
                /\ rx_expected_fragment' =
                      (IF answer.number = 0 THEN 0 ELSE rx_expected_fragment) + 1
                /\ state' = "rx_start"
                /\ UNCHANGED whole

StateRxFetch ==
    /\ state = "rx_fetch"
    /\ RxDropped \/ RxMisfit \/ RxAccept
    /\ Keep
    /\ UNCHANGED <<tx_queue, tx_queue_active, txvars, taken>>

-----------------------------------------------------------------------------
\* ec_eoe_send(): the fragment at this offset of the frame.
SendFragment(offset) ==
    /\ Ask("send")
    /\ tx_offset' = offset + 1

\* ec_eoe_send() fails, because the fragment does not fit into the slave's
\* mailbox: the frame is freed.
SendError ==
    /\ tx_frame' = 0
    /\ state' = "rx_start"
    /\ Keep

\* Mutation of Dequeue: the queue is woken when it is empty.
DequeueLate ==
    /\ tx_queue' = Tail(tx_queue)
    /\ tx_queue_active' = (tx_queue_active \/ Len(tx_queue) = 0)

\* The stack may transmit again when half of the queue is free.
Dequeue ==
    /\ tx_queue' = Tail(tx_queue)
    /\ tx_queue_active' = (tx_queue_active \/ Len(tx_queue) = TxQueueSize \div 2)

\* A frame is taken from the queue, and its first fragment sent.
TxFrame ==
    /\ ~fault /\ tx_queue # <<>>
    /\ Dequeue
    /\ taken' = 0
    /\ \/ /\ SendFragment(0)
          /\ tx_frame' = Head(tx_queue)
          /\ tries' = Tries
          /\ state' = "tx_sent"
       \/ /\ SendError
          /\ tx_offset' = 0
          /\ UNCHANGED tries

StateTxStart ==
    /\ state = "tx_start"
    /\ \/ /\ fault
          /\ Keep
          /\ UNCHANGED <<state, tx_queue, tx_queue_active, txvars, taken>>
       \/ /\ ~fault /\ tx_queue = <<>>
          /\ RxStart
          /\ UNCHANGED <<tx_queue, tx_queue_active, txvars, taken>>
       \/ TxFrame
    /\ UNCHANGED rxvars

\* Mutation of Taken: the working counter is not looked at.
TakenIfReceived == datagram = "RECEIVED"

\* The answer says that the slave took the fragment.
Taken == datagram = "RECEIVED" /\ answer = Mail("taken")

\* Not answered or refused: the datagram is queued once more as it is, or the
\* frame is given up.
TxRetry ==
    /\ ~Taken
    /\ IF tries > 0
       THEN tries' = tries - 1 /\ queue_datagram' = TRUE /\ UNCHANGED state
       ELSE state' = "rx_start" /\ UNCHANGED <<tries, queue_datagram>>
    /\ UNCHANGED <<tx_frame, tx_offset, dgvars>>

\* Frame completely sent.
TxDone ==
    /\ Taken /\ tx_offset >= tx_frame
    /\ tx_frame' = 0
    /\ state' = "rx_start"
    /\ Keep
    /\ UNCHANGED <<tx_offset, tries>>

TxNext ==
    /\ Taken /\ tx_offset < tx_frame
    /\ \/ /\ SendFragment(tx_offset)
          /\ UNCHANGED <<state, tx_frame>>
       \/ SendError /\ UNCHANGED tx_offset
    /\ UNCHANGED tries

StateTxSent ==
    /\ state = "tx_sent"
    /\ TxRetry \/ TxDone \/ TxNext
    /\ UNCHANGED <<tx_queue, tx_queue_active, rxvars, taken>>

-----------------------------------------------------------------------------
(* The EoE thread: ec_master_eoe_thread(). *)

\* The receive callback, which may be denied, or do nothing for this datagram.
ThreadReceive ==
    /\ thread = "receive"
    /\ opened
    /\ thread' = "run"
    /\ UNCHANGED <<devvars, state, txvars, rxvars, queue_datagram, dgvars,
                   ext_links, fault, slavevars, taken>>

\* "If the datagram was not sent, or is not yet received, skip this cycle."
Pending == queue_datagram \/ datagram = "SENT"

\* ec_eoe_run() decides before it calls the state function.
ThreadRun ==
    /\ thread = "run"
    /\ thread' = IF opened /\ ~Pending THEN "state" ELSE "queue"
    /\ UNCHANGED <<devvars, state, txvars, rxvars, queue_datagram, dgvars,
                   ext_links, fault, slavevars, taken>>

ThreadState ==
    /\ thread = "state"
    /\ thread' = "queue"
    /\ \/ StateRxStart \/ StateRxCheck \/ StateRxFetch
       \/ StateTxStart \/ StateTxSent
    /\ UNCHANGED <<netdev, opened, fault, slavevars, ext_links>>

\* ec_eoe_queue()
ThreadQueue ==
    /\ thread = "queue"
    /\ IF queue_datagram
       THEN /\ ext_links' = ext_links + 1
            /\ queue_datagram' = FALSE
            /\ thread' = "send"
       ELSE /\ thread' = "receive"
            /\ UNCHANGED <<ext_links, queue_datagram>>
    /\ UNCHANGED <<devvars, state, txvars, rxvars, dgvars, fault, slavevars, taken>>

\* ecrt_master_send_ext(); a datagram linked twice is a ring of its own, which
\* list_for_each_entry_safe() never leaves.
SendExt ==
    /\ ext_links = 1
    /\ ext_links' = 0
    /\ datagram' = IF fault THEN "FAILED" ELSE "SENT"
    /\ answer' = None
    /\ UNCHANGED request

\* The send callback.
ThreadSend ==
    /\ thread = "send"
    /\ thread' = "receive"
    /\ \/ SendExt
       \/ /\ Denies
          /\ UNCHANGED <<dgvars, ext_links>>
    /\ UNCHANGED <<devvars, state, txvars, rxvars, queue_datagram, fault,
                   slavevars, taken>>

\* ec_master_eoe_stop() and ec_master_clear_eoe_handlers(), and ec_eoe_init()
\* in the scan that follows.  The network stack closes the device before.
Clear ==
    /\ thread = "receive"
    /\ netdev = "down"
    /\ tx_queue' = <<>>
    /\ state' = "rx_start"
    /\ tx_frame' = 0 /\ tx_offset' = 0 /\ tries' = 0
    /\ rx_skb' = <<>> /\ rx_size' = 0 /\ rx_expected_fragment' = 0
    /\ queue_datagram' = FALSE
    /\ datagram' = "INIT" /\ request' = "none" /\ answer' = None
    /\ taken' = 0
    /\ UNCHANGED <<netdev, opened, tx_queue_active, thread, ext_links, fault,
                   slavevars, whole>>

-----------------------------------------------------------------------------
(* The bus, and the application that receives. *)

\* The datagram is received, ...
Receive ==
    /\ datagram = "SENT" /\ answer # None
    /\ datagram' = "RECEIVED"
    /\ UNCHANGED <<devvars, state, txvars, rxvars, queue_datagram, request, answer,
                   ext_links, thread, fault, slavevars, taken>>

\* ... or lost, on its way to the slave or back, and times out.
Lose ==
    /\ datagram = "SENT"
    /\ datagram' = "FAILED"
    /\ IF IsFragment(answer)
       THEN /\ lost' = lost_before + 1 + lost
            /\ lost' <= MaxLost
            /\ lost_before' = 0
       ELSE UNCHANGED <<lost, lost_before>>
    /\ UNCHANGED <<devvars, state, txvars, rxvars, queue_datagram, request, answer,
                   ext_links, thread, fault, mailbox, out, taken>>

\* The link goes down or comes up, or the slave's error flag changes.
Fault ==
    /\ fault' = ~fault
    /\ UNCHANGED <<devvars, state, txvars, rxvars, queue_datagram, dgvars,
                   ext_links, thread, slavevars, taken>>

-----------------------------------------------------------------------------
(* The slave. *)

Answering(what) == datagram = "SENT" /\ answer = None /\ request = what

AnswerCheck ==
    /\ Answering("check")
    /\ answer' = IF mailbox = None THEN Mail("empty") ELSE Mail("full")
    /\ UNCHANGED <<mailbox, lost, lost_before, taken>>

\* The mailbox is read and with it emptied.
AnswerFetch ==
    /\ Answering("fetch")
    /\ answer' = IF mailbox = None THEN Mail("other") ELSE mailbox
    /\ mailbox' = None
    /\ IF IsFragment(mailbox) THEN lost_before' = lost /\ lost' = 0
                              ELSE UNCHANGED <<lost, lost_before>>
    /\ UNCHANGED taken

\* A fragment is taken, which is new to the slave if it is the next one, or
\* refused, because its mailbox is full.
AnswerSend ==
    /\ Answering("send")
    /\ \/ /\ answer' = Mail("taken")
          /\ taken' = IF taken = tx_offset - 1 THEN tx_offset ELSE taken
       \/ answer' = Mail("refused") /\ UNCHANGED taken
    /\ UNCHANGED <<mailbox, lost, lost_before>>

SlaveAnswers ==
    /\ AnswerCheck \/ AnswerFetch \/ AnswerSend
    /\ UNCHANGED <<devvars, state, txvars, rxvars, queue_datagram, datagram,
                   request, ext_links, thread, fault, out>>

\* The slave puts the next fragment of its frame, or something for another
\* protocol, into the mailbox.
SlaveFills ==
    /\ mailbox = None
    /\ \/ mailbox' = Mail("other") /\ UNCHANGED out
       \/ /\ mailbox' = out
          /\ IF Last(out)
             THEN \E n \in RxSizes :
                     out' = [kind |-> "fragment", frame |-> (out.frame + 1) % 3, size |-> n, number |-> 0]
             ELSE out' = [out EXCEPT !.number = @ + 1]
    /\ UNCHANGED <<devvars, state, txvars, rxvars, queue_datagram, dgvars,
                   ext_links, thread, fault, lost, lost_before, taken>>

\* Another state machine of the master fetches what is in the mailbox.
Stolen ==
    /\ mailbox # None
    /\ IsFragment(mailbox) => lost < MaxLost
    /\ mailbox' = None
    /\ lost' = IF IsFragment(mailbox) THEN lost + 1 ELSE lost
    /\ UNCHANGED <<devvars, state, txvars, rxvars, queue_datagram, dgvars,
                   ext_links, thread, fault, out, lost_before, taken>>
-----------------------------------------------------------------------------
Thread == ThreadReceive \/ ThreadRun \/ ThreadState \/ ThreadQueue \/ ThreadSend

Next ==
    \/ Open \/ OpenDone \/ Stop \/ StopDone \/ Transmit
    \/ Thread \/ Clear
    \/ Receive \/ Lose \/ Fault
    \/ SlaveAnswers \/ SlaveFills \/ Stolen

Spec == Init /\ [][Next]_vars

\* The EoE thread runs while the device is open, and a datagram on the wire is
\* answered or times out.
FairSpec == Spec /\ WF_vars(Thread) /\ WF_vars(Receive \/ Lose)

-----------------------------------------------------------------------------
(* Properties. *)

\* Type invariant.
TypeOK ==
    /\ netdev \in {"down", "opening", "up", "closing"}
    /\ opened \in BOOLEAN /\ tx_queue_active \in BOOLEAN
    /\ tx_queue \in Seq(TxSizes) /\ Len(tx_queue) <= TxQueueSize
    /\ state \in {"rx_start", "rx_check", "rx_fetch", "tx_start", "tx_sent"}
    /\ tx_frame \in TxSizes \cup {0} /\ tx_offset \in Nat
    /\ tries \in 0 .. Tries
    /\ rx_skb \in Seq(Fragments) /\ rx_size \in RxSizes \cup {0}
    /\ Len(rx_skb) <= rx_size
    /\ rx_expected_fragment \in Nat
    /\ queue_datagram \in BOOLEAN
    /\ datagram \in {"INIT", "SENT", "RECEIVED", "FAILED"}
    /\ request \in {"none", "check", "fetch", "send"}
    /\ answer \in Fragments \cup
          {Mail(k) : k \in {"none", "empty", "full", "other", "taken", "refused"}}
    /\ ext_links \in Nat
    /\ thread \in {"receive", "run", "state", "queue", "send"}
    /\ fault \in BOOLEAN
    /\ mailbox \in {None, Mail("other")} \cup Fragments
    /\ out \in Fragments
    /\ lost \in 0 .. MaxLost /\ lost_before \in 0 .. MaxLost
    /\ taken \in Nat
    /\ whole \in BOOLEAN

\* A frame is counted as sent only when the slave has every fragment of it,
\* whatever was lost, refused and repeated.
SentMeansTaken ==
    thread = "state" /\ state = "tx_sent" /\ Taken /\ tx_offset >= tx_frame
        => taken = tx_frame

\* A frame handed to the network stack consists of the fragments of one frame
\* of the slave, complete and in order, as long as not too many are lost in a
\* row.
RxFrameWhole == whole

\* The network stack may transmit again and again while the device stays open,
\* the slave reachable and none of its fragments is lost: a queue that was
\* stopped is woken.  (Fragments that go on being lost can keep the handler
\* receiving for ever: it goes back to rx_start after each that is not the
\* last of its frame.)
TxWakes ==
    <>[](opened /\ ~fault /\ lost = 0 /\ lost_before = 0) => []<>tx_queue_active
=============================================================================
