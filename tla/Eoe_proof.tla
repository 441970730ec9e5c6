------------------------------ MODULE Eoe_proof ------------------------------
(***************************************************************************)
(* Theorems about Eoe for any frame sizes, any size of the transmit queue, *)
(* any number of tries and any losses, whether the send callback denies    *)
(* access or not: the types, that a frame counted as sent has been taken   *)
(* by the slave, and that a frame handed to the stack is whole if the      *)
(* losses in a row are fewer than any frame's fragments.                   *)
(***************************************************************************)
EXTENDS Eoe, TLAPS

Mails == {Mail(k) : k \in {"none", "empty", "full", "other", "taken", "refused"}}

\* A stopped queue is woken before it can be written again, so that it never
\* holds more than TxQueueSize frames.
DevType ==
    /\ netdev \in {"down", "opening", "up", "closing"}
    /\ opened \in BOOLEAN
    /\ tx_queue_active \in BOOLEAN
    /\ tx_queue \in Seq(TxSizes)
    /\ Len(tx_queue) <= TxQueueSize
    /\ tx_queue_active => Len(tx_queue) < TxQueueSize
    /\ netdev = "opening" => tx_queue = <<>>

TxType ==
    /\ tx_frame \in TxSizes \cup {0}
    /\ tx_offset \in Nat
    /\ tries \in 0 .. Tries
    /\ taken \in Nat

RxType ==
    /\ rx_skb \in Seq(Fragments)
    /\ rx_size \in RxSizes \cup {0}
    /\ Len(rx_skb) <= rx_size
    /\ rx_expected_fragment \in Nat
    /\ whole \in BOOLEAN

ThreadType ==
    /\ state \in {"rx_start", "rx_check", "rx_fetch", "tx_start", "tx_sent"}
    /\ queue_datagram \in BOOLEAN
    /\ datagram \in {"INIT", "SENT", "RECEIVED", "FAILED"}
    /\ request \in {"none", "check", "fetch", "send"}
    /\ ext_links \in Nat
    /\ thread \in {"receive", "run", "state", "queue", "send"}
    /\ fault \in BOOLEAN

SlaveType ==
    /\ answer \in Fragments \cup Mails
    /\ mailbox \in {None, Mail("other")} \cup Fragments
    /\ out \in Fragments
    /\ lost \in 0 .. MaxLost
    /\ lost_before \in 0 .. MaxLost

TypeInv == DevType /\ TxType /\ RxType /\ ThreadType /\ SlaveType

LEMMA FragmentFacts ==
    ASSUME NEW m \in Fragments \cup Mails, IsFragment(m)
    PROVE  /\ m \in Fragments
           /\ m.size \in RxSizes /\ m.size \in Nat \ {0}
           /\ m.number \in Nat /\ m.number < m.size
<1>1. m \in Fragments
  BY DEF Mails, Mail, IsFragment
<1>2. m.size \in RxSizes /\ m.number \in Nat /\ m.number < m.size
  BY <1>1 DEF Fragments
<1> QED
  BY <1>1, <1>2, EoeAssumption

LEMMA TypeInit == Init => TypeInv
<1> SUFFICES ASSUME Init PROVE TypeInv
  OBVIOUS
<1>1. DevType
  <2>1. TxQueueSize \in Nat \ {0, 1}
    BY EoeAssumption
  <2>2. tx_queue = <<>> /\ netdev = "down"
    BY DEF Init
  <2>3. opened \in BOOLEAN /\ tx_queue_active \in BOOLEAN
    BY DEF Init
  <2> QED
    BY <2>1, <2>2, <2>3 DEF DevType
<1>2. TxType
  BY EoeAssumption DEF Init, TxType
<1>3. RxType
  <2>1. rx_skb = <<>> /\ rx_size = 0 /\ rx_expected_fragment = 0
    BY DEF Init
  <2>2. whole \in BOOLEAN
    BY DEF Init
  <2> QED
    BY <2>1, <2>2 DEF RxType
<1>4. ThreadType
  <2>1. queue_datagram \in BOOLEAN /\ fault \in BOOLEAN
    BY DEF Init
  <2> QED
    BY <2>1 DEF Init, ThreadType
<1>5. SlaveType
  <2>1. PICK n \in RxSizes :
          out = [kind |-> "fragment", frame |-> 0, size |-> n, number |-> 0]
    BY DEF Init
  <2>2. n \in Nat \ {0} /\ MaxLost \in Nat
    BY EoeAssumption
  <2>3. out \in Fragments
    BY <2>1, <2>2 DEF Fragments
  <2> QED
    BY <2>2, <2>3 DEF Init, SlaveType, Mails, None
<1> QED
  BY <1>1, <1>2, <1>3, <1>4, <1>5 DEF TypeInv

-----------------------------------------------------------------------------
(* The network stack. *)

LEMMA StackType ==
    ASSUME TypeInv, Open \/ OpenDone \/ Stop \/ StopDone \/ Transmit
    PROVE  TypeInv'
<1> USE DEF TypeInv
<1>1. UNCHANGED <<state, txvars, rxvars, queue_datagram, dgvars, ext_links,
                  thread, fault, slavevars, taken>>
  BY DEF Open, OpenDone, Stop, StopDone, Transmit
<1>2. TxType' /\ RxType' /\ ThreadType' /\ SlaveType'
  BY <1>1 DEF TxType, RxType, ThreadType, SlaveType, txvars, rxvars, dgvars,
     slavevars
<1>3. TxQueueSize \in Nat \ {0, 1} /\ TxSizes \subseteq Nat
  BY EoeAssumption
<1>4. CASE Open
  <2>1. opened' \in BOOLEAN /\ tx_queue_active' \in BOOLEAN
    BY <1>4 DEF Open, DevType
  <2>2. netdev' = "opening" /\ tx_queue' = <<>>
    BY <1>4 DEF Open
  <2>3. DevType'
    BY <1>3, <2>1, <2>2 DEF DevType
  <2> QED
    BY <1>2, <2>3
<1>5. CASE OpenDone
  <2>1. opened' \in BOOLEAN /\ tx_queue_active' \in BOOLEAN
    BY <1>5 DEF OpenDone
  <2>2. netdev' = "up" /\ tx_queue' = tx_queue /\ tx_queue = <<>>
    BY <1>5 DEF OpenDone, DevType
  <2>3. DevType'
    BY <1>3, <2>1, <2>2 DEF DevType
  <2> QED
    BY <1>2, <2>3
<1>6. CASE Stop
  <2>1. opened' \in BOOLEAN /\ tx_queue_active' = FALSE
    BY <1>6 DEF Stop
  <2>2. netdev' = "closing" /\ tx_queue' = tx_queue
    BY <1>6 DEF Stop
  <2>3. DevType'
    BY <2>1, <2>2 DEF DevType
  <2> QED
    BY <1>2, <2>3
<1>7. CASE StopDone
  <2>1. opened' \in BOOLEAN /\ tx_queue_active' \in BOOLEAN
    BY <1>7 DEF StopDone, DevType
  <2>2. netdev' = "down" /\ tx_queue' = <<>>
    BY <1>7 DEF StopDone
  <2>3. DevType'
    BY <1>3, <2>1, <2>2 DEF DevType
  <2> QED
    BY <1>2, <2>3
<1>8. CASE Transmit
  <2>1. PICK f \in TxSizes : TransmitFrame(f)
    BY <1>8 DEF Transmit
  <2>2. tx_queue' = Append(tx_queue, f) /\ Len(tx_queue) < TxQueueSize
        /\ netdev' = "up" /\ opened' = opened
    BY <1>8, <2>1 DEF Transmit, TransmitFrame, DevType
  <2>3. tx_queue' \in Seq(TxSizes) /\ Len(tx_queue') = Len(tx_queue) + 1
        /\ Len(tx_queue) \in Nat
    BY <2>2 DEF DevType
  <2>4. tx_queue_active' = (Len(tx_queue') # TxQueueSize)
    BY <2>1 DEF TransmitFrame
  <2>5. tx_queue_active' \in BOOLEAN
    BY <2>4
  <2>6. Len(tx_queue') <= TxQueueSize
    BY <1>3, <2>2, <2>3
  <2>7. tx_queue_active' => Len(tx_queue') < TxQueueSize
    <3> SUFFICES ASSUME tx_queue_active' PROVE Len(tx_queue') < TxQueueSize
      OBVIOUS
    <3>1. Len(tx_queue') # TxQueueSize
      BY <2>4
    <3> QED
      BY <1>3, <2>3, <2>6, <3>1
  <2>8. DevType'
    BY <2>2, <2>3, <2>5, <2>6, <2>7 DEF DevType
  <2> QED
    BY <1>2, <2>8
<1> QED
  BY <1>2, <1>4, <1>5, <1>6, <1>7, <1>8

-----------------------------------------------------------------------------
(* The handler. *)

LEMMA AskType ==
    ASSUME TypeInv, NEW what \in {"check", "fetch", "send"}, Ask(what)
    PROVE  /\ queue_datagram' \in BOOLEAN /\ datagram' = "INIT"
           /\ request' = what
           /\ answer' \in Fragments \cup Mails
<1>1. queue_datagram' \in BOOLEAN
  BY DEF Ask
<1> QED
  BY <1>1 DEF Ask, Mails, None

LEMMA KeepType ==
    ASSUME TypeInv, Keep
    PROVE  /\ queue_datagram' \in BOOLEAN
           /\ datagram' \in {"INIT", "SENT", "RECEIVED", "FAILED"}
           /\ request' \in {"none", "check", "fetch", "send"}
           /\ answer' \in Fragments \cup Mails
  BY DEF TypeInv, ThreadType, SlaveType, Keep, dgvars

\* What every state function gives, the queue and the frames apart.
StateFunction ==
    /\ queue_datagram' \in BOOLEAN
    /\ datagram' \in {"INIT", "SENT", "RECEIVED", "FAILED"}
    /\ request' \in {"none", "check", "fetch", "send"}
    /\ answer' \in Fragments \cup Mails
    /\ state' \in {"rx_start", "rx_check", "rx_fetch", "tx_start", "tx_sent"}

LEMMA RxStartType ==
    ASSUME TypeInv, RxStart
    PROVE  StateFunction
<1>1. CASE fault
  BY <1>1, KeepType DEF RxStart, StateFunction, TypeInv, ThreadType
<1>2. CASE ~fault
  BY <1>2, AskType DEF RxStart, StateFunction
<1> QED
  BY <1>1, <1>2

LEMMA RxFetchType ==
    ASSUME TypeInv, StateRxFetch
    PROVE  RxType' /\ state' \in {"rx_start", "tx_start"}
<1> USE DEF TypeInv
<1>1. 0 \in RxSizes \cup {0} /\ Len(<<>>) = 0 /\ <<>> \in Seq(Fragments)
  OBVIOUS
<1>2. CASE RxDropped
  <2>1. state' = "tx_start" /\ UNCHANGED <<rx_expected_fragment, whole>>
    BY <1>2 DEF RxDropped
  <2>2. \/ rx_skb' = <<>> /\ rx_size' = 0
        \/ UNCHANGED <<rx_skb, rx_size>>
    BY <1>2 DEF RxDropped
  <2>3. whole' \in BOOLEAN
    BY <2>1 DEF RxType
  <2> QED
    <3>1. CASE rx_skb' = <<>> /\ rx_size' = 0
      BY <1>1, <2>1, <2>3, <3>1 DEF RxType
    <3>2. CASE UNCHANGED <<rx_skb, rx_size>>
      BY <2>1, <2>3, <3>2 DEF RxType
    <3> QED
      BY <2>2, <3>1, <3>2
<1>3. CASE RxMisfit
  BY <1>1, <1>3 DEF RxMisfit, RxType
<1>4. CASE RxAccept
  <2>1. answer \in Fragments /\ answer.size \in RxSizes /\ answer.size \in Nat \ {0}
        /\ answer.number \in Nat
    BY <1>4, FragmentFacts DEF RxAccept, Fetched, SlaveType
  <2> DEFINE skb == IF answer.number = 0 THEN <<answer>> ELSE Append(rx_skb, answer)
  <2>2. CASE Last(answer)
    <3>1. rx_skb' = <<>> /\ rx_size' = 0 /\ state' = "tx_start"
          /\ rx_expected_fragment' \in {0, rx_expected_fragment}
      BY <1>4, <2>2 DEF RxAccept
    <3>2. whole' = (whole /\ \A i \in 1 .. Len(skb) :
                                skb[i] = [answer EXCEPT !.number = i - 1])
      BY <1>4, <2>2 DEF RxAccept
    <3>3. whole' \in BOOLEAN
      <4> HIDE DEF skb
      <4> QED
        BY <3>2, Zenon
    <3> QED
      BY <1>1, <3>1, <3>3 DEF RxType
  <2>3. CASE ~Last(answer)
    <3>1. rx_skb' = skb
          /\ rx_size' = (IF answer.number = 0 THEN answer.size ELSE rx_size)
          /\ rx_expected_fragment' =
               (IF answer.number = 0 THEN 0 ELSE rx_expected_fragment) + 1
          /\ state' = "rx_start" /\ whole' = whole
      BY <1>4, <2>3 DEF RxAccept
    <3>2. CASE answer.number = 0
      <4>1. skb = <<answer>> /\ <<answer>> \in Seq(Fragments) /\ Len(<<answer>>) = 1
        BY <2>1, <3>2
      <4>2. rx_size' = answer.size /\ rx_expected_fragment' = 1
        BY <3>1, <3>2
      <4> QED
        BY <2>1, <3>1, <4>1, <4>2 DEF RxType
    <3>3. CASE answer.number # 0
      <4>1. Len(rx_skb) + 1 <= rx_size
        BY <1>4, <3>3 DEF RxAccept, Fits
      <4>2. skb = Append(rx_skb, answer) /\ Append(rx_skb, answer) \in Seq(Fragments)
            /\ Len(Append(rx_skb, answer)) = Len(rx_skb) + 1
        BY <2>1, <3>3 DEF RxType
      <4>3. rx_size' = rx_size /\ rx_expected_fragment' = rx_expected_fragment + 1
        BY <3>1, <3>3
      <4> QED
        BY <3>1, <4>1, <4>2, <4>3 DEF RxType
    <3> QED
      BY <3>2, <3>3
  <2> QED
    BY <2>2, <2>3
<1> QED
  BY <1>2, <1>3, <1>4 DEF StateRxFetch

LEMMA TxFrameType ==
    ASSUME TypeInv, TxFrame
    PROVE  /\ StateFunction /\ TxType'
           /\ tx_queue_active' \in BOOLEAN
           /\ tx_queue' \in Seq(TxSizes) /\ Len(tx_queue') <= TxQueueSize
           /\ tx_queue_active' => Len(tx_queue') < TxQueueSize
           /\ netdev # "opening"
<1> USE DEF TypeInv
<1>1. TxQueueSize \in Nat \ {0, 1} /\ TxSizes \subseteq Nat \ {0} /\ Tries \in Nat
  BY EoeAssumption
<1>2. tx_queue # <<>> /\ tx_queue' = Tail(tx_queue)
      /\ tx_queue_active' = (tx_queue_active \/ Len(tx_queue) = TxQueueSize \div 2)
  BY DEF TxFrame, Dequeue
<1>3. tx_queue_active' \in BOOLEAN
  BY <1>2 DEF DevType
<1>4. /\ tx_queue' \in Seq(TxSizes) /\ Len(tx_queue') = Len(tx_queue) - 1
      /\ Len(tx_queue) \in Nat /\ Len(tx_queue) > 0 /\ Head(tx_queue) \in TxSizes
  BY <1>2 DEF DevType
<1>5. Len(tx_queue') < TxQueueSize /\ Len(tx_queue') <= TxQueueSize
  BY <1>1, <1>4 DEF DevType
<1>6. netdev # "opening"
  BY <1>2 DEF DevType
<1>7. CASE SendFragment(0) /\ tx_frame' = Head(tx_queue) /\ tries' = Tries
           /\ state' = "tx_sent"
  <2>1. StateFunction
    BY <1>7, AskType DEF StateFunction, SendFragment
  <2>2. TxType'
    BY <1>1, <1>4, <1>7 DEF TxType, SendFragment, TxFrame
  <2> QED
    BY <1>3, <1>4, <1>5, <1>6, <2>1, <2>2, Zenon
<1>8. CASE SendError /\ tx_offset' = 0 /\ UNCHANGED tries
  <2>1. StateFunction
    BY <1>8, KeepType DEF StateFunction, SendError
  <2>2. TxType'
    BY <1>8 DEF TxType, SendError, TxFrame
  <2> QED
    BY <1>3, <1>4, <1>5, <1>6, <2>1, <2>2, Zenon
<1> QED
  BY <1>7, <1>8 DEF TxFrame

LEMMA TxSentType ==
    ASSUME TypeInv, StateTxSent
    PROVE  StateFunction /\ TxType'
<1> USE DEF TypeInv
<1>1. taken' = taken
  BY DEF StateTxSent
<1>2. CASE TxRetry
  <2>1. queue_datagram' \in BOOLEAN
    BY <1>2 DEF TxRetry, ThreadType
  <2>2. tries' \in 0 .. Tries
    BY <1>2, EoeAssumption DEF TxRetry, TxType
  <2>3. UNCHANGED <<tx_frame, tx_offset, dgvars>> /\ state' \in {state, "rx_start"}
    BY <1>2 DEF TxRetry
  <2>4. TxType'
    BY <1>1, <2>2, <2>3 DEF TxType
  <2>5. StateFunction
    BY <2>1, <2>3 DEF StateFunction, ThreadType, SlaveType, dgvars
  <2> QED
    BY <2>4, <2>5
<1>3. CASE TxDone
  BY <1>1, <1>3, KeepType DEF TxDone, StateFunction, TxType
<1>4. CASE TxNext
  <2>1. CASE SendFragment(tx_offset) /\ UNCHANGED <<state, tx_frame>>
    <3>1. StateFunction
      BY <2>1, AskType DEF StateFunction, SendFragment, ThreadType
    <3>2. TxType'
      BY <1>1, <1>4, <2>1 DEF TxType, SendFragment, TxNext
    <3> QED
      BY <3>1, <3>2
  <2>2. CASE SendError /\ UNCHANGED tx_offset
    <3>1. StateFunction
      BY <2>2, KeepType DEF StateFunction, SendError
    <3>2. TxType'
      BY <1>1, <1>4, <2>2 DEF TxType, SendError, TxNext
    <3> QED
      BY <3>1, <3>2
  <2> QED
    BY <1>4, <2>1, <2>2 DEF TxNext
<1> QED
  BY <1>2, <1>3, <1>4 DEF StateTxSent

LEMMA ThreadStateType ==
    ASSUME TypeInv, ThreadState
    PROVE  TypeInv'
<1>1. UNCHANGED <<netdev, opened, fault, slavevars, ext_links>> /\ thread' = "queue"
  BY DEF ThreadState
<1>2. /\ StateFunction
      /\ TxType' /\ RxType'
      /\ tx_queue_active' \in BOOLEAN
      /\ tx_queue' \in Seq(TxSizes) /\ Len(tx_queue') <= TxQueueSize
      /\ tx_queue_active' => Len(tx_queue') < TxQueueSize
      /\ netdev = "opening" => tx_queue' = <<>>
  <2>1. ASSUME UNCHANGED <<tx_queue, tx_queue_active>>
        PROVE  /\ tx_queue_active' \in BOOLEAN
               /\ tx_queue' \in Seq(TxSizes) /\ Len(tx_queue') <= TxQueueSize
               /\ tx_queue_active' => Len(tx_queue') < TxQueueSize
               /\ netdev = "opening" => tx_queue' = <<>>
    BY <2>1 DEF TypeInv, DevType
  <2>2. ASSUME UNCHANGED <<txvars, taken>> PROVE TxType'
    BY <2>2 DEF TypeInv, TxType, txvars
  <2>3. ASSUME UNCHANGED rxvars PROVE RxType'
    BY <2>3 DEF TypeInv, RxType, rxvars
  <2>4. CASE StateRxStart
    BY <2>1, <2>2, <2>3, <2>4, RxStartType DEF StateRxStart
  <2>5. CASE StateRxCheck
    <3>1. StateFunction
      BY <2>5, AskType, KeepType DEF StateRxCheck, StateFunction
    <3> QED
      BY <2>1, <2>2, <2>3, <2>5, <3>1 DEF StateRxCheck
  <2>6. CASE StateRxFetch
    <3>1. StateFunction
      BY <2>6, RxFetchType, KeepType DEF StateRxFetch, StateFunction
    <3> QED
      BY <2>1, <2>2, <2>6, <3>1, RxFetchType DEF StateRxFetch
  <2>7. CASE StateTxStart
    <3>1. CASE Keep /\ UNCHANGED <<state, tx_queue, tx_queue_active, txvars, taken>>
      BY <2>1, <2>2, <2>3, <2>7, <3>1, KeepType DEF StateTxStart, StateFunction,
         TypeInv, ThreadType
    <3>2. CASE RxStart /\ UNCHANGED <<tx_queue, tx_queue_active, txvars, taken>>
      BY <2>1, <2>2, <2>3, <2>7, <3>2, RxStartType DEF StateTxStart
    <3>3. CASE TxFrame
      BY <2>3, <2>7, <3>3, TxFrameType DEF StateTxStart
    <3> QED
      BY <2>7, <3>1, <3>2, <3>3 DEF StateTxStart
  <2>8. CASE StateTxSent
    BY <2>1, <2>3, <2>8, TxSentType DEF StateTxSent
  <2> QED
    BY <2>4, <2>5, <2>6, <2>7, <2>8 DEF ThreadState
<1>3. DevType'
  BY <1>1, <1>2 DEF DevType, TypeInv
<1>4. ThreadType'
  BY <1>1, <1>2 DEF ThreadType, StateFunction, TypeInv
<1>5. SlaveType'
  BY <1>1, <1>2 DEF SlaveType, StateFunction, TypeInv, slavevars
<1> QED
  BY <1>2, <1>3, <1>4, <1>5 DEF TypeInv

LEMMA ThreadStepType ==
    ASSUME TypeInv, ThreadReceive \/ ThreadRun \/ ThreadQueue \/ ThreadSend
    PROVE  TypeInv'
<1> USE DEF TypeInv
<1>1. UNCHANGED <<devvars, state, txvars, rxvars, fault, slavevars, taken, request>>
  BY DEF ThreadReceive, ThreadRun, ThreadQueue, ThreadSend, SendExt, dgvars
<1>2. DevType' /\ TxType' /\ RxType'
  BY <1>1 DEF DevType, TxType, RxType, devvars, txvars, rxvars
<1>3. /\ queue_datagram' \in BOOLEAN
      /\ datagram' \in {"INIT", "SENT", "RECEIVED", "FAILED"}
      /\ ext_links' \in Nat
      /\ thread' \in {"receive", "run", "state", "queue", "send"}
      /\ answer' \in Fragments \cup Mails
  <2>1. CASE ThreadReceive
    BY <2>1 DEF ThreadReceive, ThreadType, SlaveType, dgvars
  <2>2. CASE ThreadRun
    BY <2>2 DEF ThreadRun, ThreadType, SlaveType, dgvars
  <2>3. CASE ThreadQueue
    <3>1. queue_datagram' \in BOOLEAN
      BY <2>3 DEF ThreadQueue, ThreadType
    <3> QED
      BY <2>3, <3>1 DEF ThreadQueue, ThreadType, SlaveType, dgvars
  <2>4. CASE ThreadSend
    <3>1. queue_datagram' \in BOOLEAN /\ thread' = "receive"
      BY <2>4 DEF ThreadSend, ThreadType
    <3>2. CASE SendExt
      BY <3>1, <3>2 DEF SendExt, Mails, None
    <3>3. CASE UNCHANGED <<dgvars, ext_links>>
      BY <3>1, <3>3 DEF ThreadType, SlaveType, dgvars
    <3> QED
      BY <2>4, <3>2, <3>3 DEF ThreadSend
  <2> QED
    BY <2>1, <2>2, <2>3, <2>4
<1>4. ThreadType'
  BY <1>1, <1>3 DEF ThreadType
<1>5. SlaveType'
  BY <1>1, <1>3 DEF SlaveType, slavevars
<1> QED
  BY <1>2, <1>4, <1>5

LEMMA ClearType ==
    ASSUME TypeInv, Clear
    PROVE  TypeInv'
<1> USE DEF TypeInv
<1>1. UNCHANGED <<netdev, opened, tx_queue_active, thread, ext_links, fault,
                  slavevars, whole>>
  BY DEF Clear
<1>2. DevType'
  <2>1. tx_queue' = <<>> /\ TxQueueSize \in Nat \ {0, 1}
    BY EoeAssumption DEF Clear
  <2> QED
    BY <1>1, <2>1 DEF DevType
<1>3. TxType'
  BY EoeAssumption DEF Clear, TxType
<1>4. RxType'
  <2>1. rx_skb' = <<>> /\ rx_size' = 0 /\ rx_expected_fragment' = 0
    BY DEF Clear
  <2> QED
    BY <1>1, <2>1 DEF RxType
<1>5. ThreadType'
  <2>1. queue_datagram' \in BOOLEAN
    BY DEF Clear
  <2> QED
    BY <1>1, <2>1 DEF ThreadType, Clear
<1>6. SlaveType'
  BY <1>1 DEF Clear, SlaveType, slavevars, Mails, None
<1> QED
  BY <1>2, <1>3, <1>4, <1>5, <1>6

-----------------------------------------------------------------------------
(* The bus and the slave. *)

LEMMA BusType ==
    ASSUME TypeInv, Receive \/ Lose \/ Fault
    PROVE  TypeInv'
<1> USE DEF TypeInv
<1>1. UNCHANGED <<devvars, state, txvars, rxvars, queue_datagram, request,
                  answer, ext_links, thread, mailbox, out, taken>>
  BY DEF Receive, Lose, Fault, dgvars, slavevars
<1>2. DevType' /\ TxType' /\ RxType'
  BY <1>1 DEF DevType, TxType, RxType, devvars, txvars, rxvars
<1>3. datagram' \in {"INIT", "SENT", "RECEIVED", "FAILED"}
  BY DEF Receive, Lose, Fault, dgvars, ThreadType
<1>4. fault' \in BOOLEAN
  BY DEF Receive, Lose, Fault, ThreadType
<1>5. ThreadType'
  BY <1>1, <1>3, <1>4 DEF ThreadType
<1>6. lost' \in 0 .. MaxLost /\ lost_before' \in 0 .. MaxLost
  <2>1. CASE Lose /\ IsFragment(answer)
    BY <2>1, EoeAssumption DEF Lose, SlaveType
  <2>2. CASE ~(Lose /\ IsFragment(answer))
    BY <2>2 DEF Receive, Lose, Fault, SlaveType, slavevars
  <2> QED
    BY <2>1, <2>2
<1>7. SlaveType'
  BY <1>1, <1>6 DEF SlaveType
<1> QED
  BY <1>2, <1>5, <1>7

LEMMA AnswersType ==
    ASSUME TypeInv, SlaveAnswers
    PROVE  TypeInv'
<1> USE DEF TypeInv
<1>1. UNCHANGED <<devvars, state, txvars, rxvars, queue_datagram, datagram,
                  request, ext_links, thread, fault, out>>
  BY DEF SlaveAnswers
<1>2. DevType' /\ RxType' /\ ThreadType'
  BY <1>1 DEF DevType, RxType, ThreadType, devvars, rxvars
<1>3. None \in Mails /\ \A k \in {"empty", "full", "other", "taken", "refused"} :
                            Mail(k) \in Mails
  BY DEF Mails, None
<1>4. taken' \in Nat
  BY DEF SlaveAnswers, AnswerCheck, AnswerFetch, AnswerSend, TxType
<1>5. TxType'
  BY <1>1, <1>4 DEF TxType, txvars
<1>6. SlaveType'
  <2>1. CASE AnswerCheck
    BY <1>1, <1>3, <2>1 DEF AnswerCheck, SlaveType
  <2>2. CASE AnswerFetch
    <3>1. answer' \in Fragments \cup Mails /\ mailbox' = None
      BY <1>3, <2>2 DEF AnswerFetch, SlaveType
    <3>2. lost' \in 0 .. MaxLost /\ lost_before' \in 0 .. MaxLost
      BY <2>2, EoeAssumption DEF AnswerFetch, SlaveType
    <3> QED
      BY <1>1, <3>1, <3>2 DEF SlaveType
  <2>3. CASE AnswerSend
    BY <1>1, <1>3, <2>3 DEF AnswerSend, SlaveType
  <2> QED
    BY <2>1, <2>2, <2>3 DEF SlaveAnswers
<1> QED
  BY <1>2, <1>5, <1>6

LEMMA MailboxType ==
    ASSUME TypeInv, SlaveFills \/ Stolen
    PROVE  TypeInv'
<1> USE DEF TypeInv
<1>1. UNCHANGED <<devvars, state, txvars, rxvars, queue_datagram, dgvars,
                  ext_links, thread, fault, lost_before, taken>>
  BY DEF SlaveFills, Stolen
<1>2. DevType' /\ TxType' /\ RxType' /\ ThreadType'
  BY <1>1 DEF DevType, TxType, RxType, ThreadType, devvars, txvars, rxvars, dgvars
<1>3. answer' = answer /\ lost_before' = lost_before
  BY <1>1 DEF dgvars
<1>4. CASE SlaveFills
  <2>1. out \in Fragments /\ out.number \in Nat /\ out.size \in RxSizes
        /\ out.number < out.size /\ out.frame \in 0 .. 2
    BY DEF SlaveType, Fragments
  <2>2. RxSizes \subseteq Nat \ {0}
    BY EoeAssumption
  <2>3. out' \in Fragments
    <3>1. CASE out' = out
      BY <2>1, <3>1
    <3>2. CASE \E n \in RxSizes : out' = [kind |-> "fragment",
                  frame |-> (out.frame + 1) % 3, size |-> n, number |-> 0]
      <4>1. (out.frame + 1) % 3 \in 0 .. 2
        BY <2>1
      <4> QED
        BY <2>2, <3>2, <4>1 DEF Fragments
    <3>3. CASE ~Last(out) /\ out' = [out EXCEPT !.number = @ + 1]
      <4>1. out.number + 1 \in Nat /\ out.number + 1 < out.size
        BY <2>1, <2>2, <3>3 DEF Last
      <4> QED
        BY <2>1, <3>3, <4>1 DEF Fragments
    <3> QED
      BY <1>4, <3>1, <3>2, <3>3 DEF SlaveFills
  <2>4. mailbox' \in {None, Mail("other")} \cup Fragments
    BY <1>4, <2>1 DEF SlaveFills
  <2>5. lost' = lost
    BY <1>4 DEF SlaveFills
  <2>6. SlaveType'
    BY <1>3, <2>3, <2>4, <2>5 DEF SlaveType
  <2> QED
    BY <1>2, <2>6
<1>5. CASE Stolen
  <2>1. lost' \in 0 .. MaxLost
    BY <1>5, EoeAssumption DEF Stolen, SlaveType
  <2>2. SlaveType'
    BY <1>3, <1>5, <2>1 DEF Stolen, SlaveType
  <2> QED
    BY <1>2, <2>2
<1> QED
  BY <1>4, <1>5

LEMMA TypeNext == TypeInv /\ [Next]_vars => TypeInv'
<1> SUFFICES ASSUME TypeInv, [Next]_vars PROVE TypeInv'
  OBVIOUS
<1>1. CASE UNCHANGED vars
  BY <1>1 DEF TypeInv, DevType, TxType, RxType, ThreadType, SlaveType, vars,
     devvars, txvars, rxvars, dgvars, slavevars
<1> QED
  BY <1>1, StackType, ThreadStateType, ThreadStepType, ClearType, BusType,
     AnswersType, MailboxType DEF Next, Thread

LEMMA TypeInvOK == TypeInv => TypeOK
  BY DEF TypeInv, DevType, TxType, RxType, ThreadType, SlaveType, Mails, TypeOK

\* The types of the handler (ec_eoe_t), its datagram and the slave; the frames
\* queued are at most eoe->tx_queue_size.
THEOREM TypeCorrect == Spec => []TypeOK
<1>1. Spec => []TypeInv
  BY TypeInit, TypeNext, PTL DEF Spec
<1> QED
  BY <1>1, TypeInvOK, PTL

-----------------------------------------------------------------------------
(* The frame being transmitted. *)

\* While a fragment is out, the slave has all before it, and it too if the
\* answer says so.  An answer from before the datagram was repeated may be
\* left in it, but it is true all the same.
SentInv ==
    state = "tx_sent" =>
        /\ tx_offset >= 1 /\ tx_offset <= tx_frame
        /\ taken \in {tx_offset - 1, tx_offset}
        /\ answer = Mail("taken") => taken = tx_offset
        /\ request = "send"

LEMMA MailDiffer ==
    /\ None # Mail("taken")
    /\ Mail("empty") # Mail("taken") /\ Mail("full") # Mail("taken")
    /\ Mail("refused") # Mail("taken")
  BY DEF None, Mail

LEMMA SentThread ==
    ASSUME TypeInv, SentInv, ThreadState
    PROVE  SentInv'
<1> USE DEF TypeInv, TxType
<1>1. CASE StateRxStart \/ StateRxCheck
  BY <1>1 DEF StateRxStart, StateRxCheck, RxStart, SentInv
<1>2. CASE StateRxFetch
  BY <1>2 DEF StateRxFetch, RxDropped, RxMisfit, RxAccept, SentInv
<1>3. CASE StateTxStart
  <2>1. TxSizes \subseteq Nat \ {0}
    BY EoeAssumption
  <2>2. CASE TxFrame
    <3>1. CASE SendFragment(0) /\ tx_frame' = Head(tx_queue)
      <4>1. Head(tx_queue) \in TxSizes
        BY <2>2 DEF TxFrame, DevType
      <4>2. taken' = 0 /\ tx_offset' = 1 /\ tx_frame' \in TxSizes
            /\ request' = "send" /\ answer' = None
        BY <2>2, <3>1, <4>1 DEF TxFrame, SendFragment, Ask
      <4> QED
        BY <2>1, <4>2, MailDiffer DEF SentInv
    <3>2. CASE SendError
      BY <3>2 DEF SendError, SentInv
    <3> QED
      BY <2>2, <3>1, <3>2 DEF TxFrame
  <2>3. CASE ~TxFrame
    BY <1>3, <2>3 DEF StateTxStart, RxStart, SentInv
  <2> QED
    BY <2>2, <2>3
<1>4. CASE StateTxSent
  <2>1. state = "tx_sent" /\ taken' = taken
    BY <1>4 DEF StateTxSent
  <2>2. CASE TxRetry
    BY <2>1, <2>2 DEF TxRetry, SentInv, dgvars
  <2>3. CASE TxDone
    BY <2>3 DEF TxDone, SentInv
  <2>4. CASE TxNext
    <3>1. CASE SendFragment(tx_offset) /\ UNCHANGED <<state, tx_frame>>
      <4>1. taken = tx_offset /\ tx_offset < tx_frame
        BY <2>1, <2>4 DEF TxNext, Taken, SentInv
      <4>2. tx_offset' = tx_offset + 1 /\ tx_frame' = tx_frame
            /\ request' = "send" /\ answer' = None
        BY <3>1 DEF SendFragment, Ask
      <4>3. tx_frame \in Nat
        BY EoeAssumption
      <4> QED
        BY <2>1, <4>1, <4>2, <4>3, MailDiffer DEF SentInv
    <3>2. CASE SendError
      BY <3>2 DEF SendError, SentInv
    <3> QED
      BY <2>4, <3>1, <3>2 DEF TxNext
  <2> QED
    BY <1>4, <2>2, <2>3, <2>4 DEF StateTxSent
<1> QED
  BY <1>1, <1>2, <1>3, <1>4 DEF ThreadState

LEMMA SentNext ==
    ASSUME TypeInv, SentInv, [Next]_vars
    PROVE  SentInv'
<1>1. ASSUME UNCHANGED <<state, txvars, taken, request>>, answer' \in {answer, None}
      PROVE  SentInv'
  BY <1>1, MailDiffer DEF SentInv, txvars
<1>2. CASE ThreadState
  BY <1>2, SentThread
<1>3. CASE ThreadSend
  BY <1>1, <1>3 DEF ThreadSend, SendExt, dgvars
<1>4. CASE Clear
  BY <1>4 DEF Clear, SentInv
<1>5. CASE SlaveAnswers
  <2>1. UNCHANGED <<state, txvars, request>>
    BY <1>5 DEF SlaveAnswers
  <2>2. CASE AnswerCheck
    BY <2>1, <2>2, MailDiffer DEF AnswerCheck, SentInv, Answering, txvars
  <2>3. CASE AnswerFetch
    BY <2>1, <2>3 DEF AnswerFetch, SentInv, Answering
  <2>4. CASE AnswerSend
    BY <2>1, <2>4, MailDiffer DEF AnswerSend, SentInv, txvars, TypeInv, TxType
  <2> QED
    BY <1>5, <2>2, <2>3, <2>4 DEF SlaveAnswers
<1>6. CASE ThreadReceive \/ ThreadRun \/ ThreadQueue
  BY <1>1, <1>6 DEF ThreadReceive, ThreadRun, ThreadQueue, dgvars
<1>7. CASE Open \/ OpenDone \/ Stop \/ StopDone \/ Transmit \/ Fault
  BY <1>1, <1>7 DEF Open, OpenDone, Stop, StopDone, Transmit, Fault, dgvars
<1>8. CASE Receive \/ Lose \/ SlaveFills \/ Stolen \/ UNCHANGED vars
  BY <1>1, <1>8 DEF Receive, Lose, SlaveFills, Stolen, vars, dgvars
<1> QED
  BY <1>2, <1>3, <1>4, <1>5, <1>6, <1>7, <1>8 DEF Next, Thread

\* A frame is counted as sent (ec_eoe_state_tx_sent()) only when the slave has
\* taken every fragment of it, whatever was lost, refused and repeated.
THEOREM SentTaken == Spec => []SentMeansTaken
<1>1. Init => SentInv
  BY DEF Init, SentInv
<1>2. TypeInv /\ SentInv /\ [Next]_vars => (TypeInv /\ SentInv)'
  BY TypeNext, SentNext
<1>3. TypeInv /\ SentInv => SentMeansTaken
  <2> SUFFICES ASSUME TypeInv, SentInv, state = "tx_sent", Taken, tx_offset >= tx_frame
               PROVE  taken = tx_frame
    BY DEF SentMeansTaken
  <2>1. taken = tx_offset /\ tx_offset <= tx_frame
    BY DEF SentInv, Taken
  <2>2. tx_offset \in Nat /\ tx_frame \in Nat
    BY EoeAssumption DEF TypeInv, TxType
  <2> QED
    BY <2>1, <2>2
<1> QED
  BY <1>1, <1>2, <1>3, TypeInit, PTL DEF Spec

-----------------------------------------------------------------------------
(* The frame being received. *)

\* The datagram asks for what the state says, as long as it is to be sent or is
\* under way; what it fetched before is not in it any more then.
AskInv ==
    /\ queue_datagram \/ thread \in {"state", "send"} => datagram # "SENT"
    /\ thread \in {"state", "send"} => ~queue_datagram
    /\ queue_datagram \/ thread = "send" \/ datagram = "SENT" =>
          /\ request = "fetch" => state = "rx_fetch"
          /\ state = "rx_fetch" /\ datagram # "SENT" => ~IsFragment(answer)
    /\ datagram = "SENT" /\ IsFragment(answer) => request = "fetch"
    /\ state = "tx_sent" => request = "send"

LEMMA AskInit == Init => AskInv
  BY DEF Init, AskInv

LEMMA AskNext ==
    ASSUME AskInv, [Next]_vars
    PROVE  AskInv'
<1> USE DEF AskInv
<1>1. CASE UNCHANGED <<state, queue_datagram, thread>> /\ UNCHANGED <<datagram, request>>
           /\ UNCHANGED answer
  BY <1>1
<1>2. CASE ThreadReceive \/ ThreadRun
  BY <1>2 DEF ThreadReceive, ThreadRun, Pending, dgvars
<1>3. CASE ThreadState
  <2>1. thread = "state" /\ thread' = "queue" /\ ~queue_datagram /\ datagram # "SENT"
    BY <1>3 DEF ThreadState
  <2>2. \/ Keep /\ state' \in {state, "rx_start", "rx_check", "rx_fetch", "tx_start"}
        \/ \E what \in {"check", "fetch", "send"} :
              /\ Ask(what)
              /\ what = "fetch" <=> state' = "rx_fetch"
              /\ state' = "tx_sent" => what = "send"
        \/ TxRetry /\ state = "tx_sent"
    <3>1. CASE StateRxStart \/ StateRxCheck
      BY <3>1 DEF StateRxStart, StateRxCheck, RxStart
    <3>2. CASE StateRxFetch
      BY <3>2 DEF StateRxFetch, RxDropped, RxMisfit, RxAccept
    <3>3. CASE StateTxStart
      BY <3>3 DEF StateTxStart, RxStart, TxFrame, SendFragment, SendError
    <3>4. CASE StateTxSent
      BY <3>4 DEF StateTxSent, TxDone, TxNext, SendFragment, SendError
    <3> QED
      BY <1>3, <3>1, <3>2, <3>3, <3>4 DEF ThreadState
  <2>3. CASE TxRetry /\ state = "tx_sent"
    BY <2>1, <2>3 DEF TxRetry, dgvars
  <2>4. CASE \E what \in {"check", "fetch", "send"} :
              /\ Ask(what)
              /\ what = "fetch" <=> state' = "rx_fetch"
              /\ state' = "tx_sent" => what = "send"
    BY <2>1, <2>4 DEF Ask, None, Mail, IsFragment
  <2>5. CASE Keep /\ state' \in {state, "rx_start", "rx_check", "rx_fetch", "tx_start"}
    BY <2>1, <2>5 DEF Keep, dgvars
  <2> QED
    BY <2>2, <2>3, <2>4, <2>5
<1>4. CASE ThreadQueue
  BY <1>4 DEF ThreadQueue, dgvars
<1>5. CASE ThreadSend
  BY <1>5 DEF ThreadSend, SendExt, dgvars, None, Mail, IsFragment
<1>6. CASE Clear
  BY <1>6 DEF Clear
<1>7. CASE Receive \/ Lose
  BY <1>7 DEF Receive, Lose
<1>8. CASE SlaveAnswers
  BY <1>8 DEF SlaveAnswers, AnswerCheck, AnswerFetch, AnswerSend, Answering, Mail,
     IsFragment
<1>9. CASE Open \/ OpenDone \/ Stop \/ StopDone \/ Transmit \/ Fault
           \/ SlaveFills \/ Stolen
  BY <1>1, <1>9 DEF Open, OpenDone, Stop, StopDone, Transmit, Fault, SlaveFills,
     Stolen, dgvars
<1>10. CASE UNCHANGED vars
  BY <1>1, <1>10 DEF vars, dgvars
<1> QED
  BY <1>2, <1>3, <1>4, <1>5, <1>6, <1>7, <1>8, <1>9, <1>10 DEF Next, Thread

\* g is the fragment that the slave sends n fragments after the one after f: of
\* the same frame, or no further into a later one than that.
Follows(f, n, g) ==
    \/ g = [f EXCEPT !.number = @ + n + 1]
    \/ g.number + f.size - f.number <= n + 1

LEMMA FragmentNumbers ==
    ASSUME NEW f \in Fragments
    PROVE  /\ f.number \in Nat /\ f.size \in Nat \ {0} /\ f.number < f.size
           /\ f.size \in RxSizes /\ IsFragment(f)
  BY EoeAssumption DEF Fragments, IsFragment

\* What follows on something that follows.
LEMMA FollowsOn ==
    ASSUME NEW f \in Fragments, NEW g \in Fragments, NEW h \in Fragments,
           NEW m \in Nat, NEW n \in Nat, Follows(f, m, g), Follows(g, n, h)
    PROVE  Follows(f, m + n + 1, h)
<1>1. /\ f.number \in Nat /\ f.size \in Nat /\ f.number < f.size
      /\ g.number \in Nat /\ g.size \in Nat /\ g.number < g.size
      /\ h.number \in Nat
  BY FragmentNumbers
<1>2. CASE g = [f EXCEPT !.number = @ + m + 1] /\ h = [g EXCEPT !.number = @ + n + 1]
  <2>1. g.number = f.number + m + 1
    BY <1>2 DEF Fragments
  <2>2. h = [f EXCEPT !.number = f.number + m + 1 + n + 1]
    BY <1>2, <2>1 DEF Fragments
  <2>3. f.number + m + 1 + n + 1 = f.number + (m + n + 1) + 1
    BY <1>1
  <2> QED
    BY <2>2, <2>3 DEF Follows
<1>3. CASE g = [f EXCEPT !.number = @ + m + 1] /\ h.number + g.size - g.number <= n + 1
  <2>1. g.number = f.number + m + 1 /\ g.size = f.size
    BY <1>3 DEF Fragments
  <2>2. h.number + f.size - f.number <= (m + n + 1) + 1
    BY <1>1, <1>3, <2>1
  <2> QED
    BY <2>2 DEF Follows
<1>4. CASE g.number + f.size - f.number <= m + 1 /\ h = [g EXCEPT !.number = @ + n + 1]
  <2>1. h.number = g.number + n + 1
    BY <1>4 DEF Fragments
  <2>2. h.number + f.size - f.number <= (m + n + 1) + 1
    BY <1>1, <1>4, <2>1
  <2> QED
    BY <2>2 DEF Follows
<1>5. CASE g.number + f.size - f.number <= m + 1
           /\ h.number + g.size - g.number <= n + 1
  <2>2. h.number + f.size - f.number <= (m + n + 1) + 1
    BY <1>1, <1>5
  <2> QED
    BY <2>2 DEF Follows
<1> QED
  BY <1>2, <1>3, <1>4, <1>5 DEF Follows

\* The slave's stream: what was fetched and not looked at yet, and what it will
\* be asked for next.
Coming ==
    state = "rx_fetch" /\ datagram \in {"SENT", "RECEIVED"} /\ IsFragment(answer)
Front == IF IsFragment(mailbox) THEN mailbox ELSE out
LastRx == rx_skb[Len(rx_skb)]

\* The fragments in the socket buffer are the first of one frame, not all of it.
SkbInv ==
    rx_skb # <<>> =>
        /\ Len(rx_skb) < LastRx.size
        /\ \A i \in 1 .. Len(rx_skb) : rx_skb[i] = [LastRx EXCEPT !.number = i - 1]

\* lost and lost_before tell how far what comes next is behind what was before.
StreamInv ==
    /\ IsFragment(mailbox) => Follows(mailbox, 0, out)
    /\ Coming => Follows(answer, lost, Front)
    /\ rx_skb # <<>> =>
          Follows(LastRx, IF Coming THEN lost_before ELSE lost,
                  IF Coming THEN answer ELSE Front)

RxInv == TypeInv /\ AskInv /\ SkbInv /\ StreamInv /\ whole

LEMMA RxInit == Init => RxInv
  BY TypeInit, AskInit DEF Init, RxInv, SkbInv, StreamInv, Coming, None, Mail, IsFragment

\* The types of the fragments the stream is about.
LEMMA StreamTypes ==
    ASSUME TypeInv
    PROVE  /\ Front \in Fragments /\ out \in Fragments
           /\ Coming => answer \in Fragments
           /\ IsFragment(mailbox) => mailbox \in Fragments
           /\ rx_skb # <<>> => LastRx \in Fragments /\ Len(rx_skb) \in Nat \ {0}
           /\ lost \in Nat /\ lost_before \in Nat /\ lost <= MaxLost
           /\ lost_before <= MaxLost
<1>1. out \in Fragments /\ (IsFragment(mailbox) => mailbox \in Fragments)
  BY DEF TypeInv, SlaveType, None, Mail, IsFragment
<1>2. Front \in Fragments
  BY <1>1 DEF Front
<1>3. Coming => answer \in Fragments
  BY FragmentFacts DEF Coming, TypeInv, SlaveType
<1>4. rx_skb # <<>> => LastRx \in Fragments /\ Len(rx_skb) \in Nat \ {0}
  BY DEF TypeInv, RxType, LastRx
<1>5. lost \in Nat /\ lost_before \in Nat /\ lost <= MaxLost /\ lost_before <= MaxLost
  BY EoeAssumption DEF TypeInv, SlaveType
<1> QED
  BY <1>1, <1>2, <1>3, <1>4, <1>5

\* Steps that move nothing in the stream.
LEMMA RxStutter ==
    ASSUME RxInv, TypeInv', AskInv', UNCHANGED <<rxvars, slavevars>>,
           Coming' => Coming /\ answer' = answer, Coming => Coming'
    PROVE  RxInv'
<1>1. UNCHANGED <<rx_skb, whole, mailbox, out, lost, lost_before>>
  BY DEF rxvars, slavevars
<1>2. SkbInv' /\ whole'
  BY <1>1 DEF RxInv, SkbInv, LastRx
<1>3. StreamInv'
  BY <1>1 DEF RxInv, StreamInv, LastRx, Front
<1> QED
  BY <1>2, <1>3 DEF RxInv

\* ec_eoe_state_rx_fetch(): what came in is at the end of the socket buffer now,
\* or the buffer is gone.
LEMMA RxFetchStream ==
    ASSUME \A n \in RxSizes \ {1} : MaxLost < n,
           RxInv, TypeInv', AskInv', StateRxFetch, thread = "state",
           UNCHANGED slavevars
    PROVE  RxInv'
<1>1. UNCHANGED <<mailbox, out, lost, lost_before>> /\ Front' = Front
  BY DEF slavevars, Front
<1>2. ~Coming'
  BY DEF StateRxFetch, RxDropped, RxMisfit, RxAccept, Coming
<1>3. Coming <=> Fetched
  BY DEF StateRxFetch, Coming, Fetched, RxInv, AskInv
<1>4. IsFragment(mailbox') => Follows(mailbox', 0, out')
  BY <1>1 DEF RxInv, StreamInv
<1>5. CASE rx_skb' = <<>> /\ whole'
  BY <1>2, <1>4, <1>5 DEF RxInv, SkbInv, StreamInv
<1>6. CASE ~Fetched /\ UNCHANGED <<rx_skb, whole>>
  BY <1>1, <1>2, <1>3, <1>4, <1>6 DEF RxInv, SkbInv, StreamInv, LastRx
<1>7. CASE RxAccept
  <2>1. /\ answer \in Fragments /\ Follows(answer, lost, Front)
        /\ answer.number \in Nat /\ answer.size \in Nat \ {0}
        /\ answer.number < answer.size
    BY <1>3, <1>7, StreamTypes, FragmentNumbers DEF RxAccept, RxInv, StreamInv
  <2> DEFINE skb == IF answer.number = 0 THEN <<answer>> ELSE Append(rx_skb, answer)
  <2>2. /\ skb \in Seq(Fragments) /\ Len(skb) = answer.number + 1
        /\ skb[Len(skb)] = answer
        /\ \A i \in 1 .. Len(skb) : skb[i] = [answer EXCEPT !.number = i - 1]
    <3>1. CASE answer.number = 0
      <4>1. skb = <<answer>> /\ Len(skb) = 1 /\ skb[1] = answer
        BY <3>1
      <4>2. answer = [answer EXCEPT !.number = 1 - 1]
        BY <2>1, <3>1 DEF Fragments
      <4> QED
        BY <2>1, <3>1, <4>1, <4>2
    <3>2. CASE answer.number # 0
      <4> DEFINE k == Len(rx_skb)
      <4>1. /\ rx_skb # <<>> /\ answer.number = k
            /\ rx_skb \in Seq(Fragments)
        BY <1>7, <3>2 DEF RxAccept, Fits, RxInv, TypeInv, RxType
      <4>2. /\ LastRx \in Fragments /\ k \in Nat \ {0} /\ k < LastRx.size
            /\ \A i \in 1 .. k : rx_skb[i] = [LastRx EXCEPT !.number = i - 1]
            /\ Follows(LastRx, lost_before, answer)
        BY <1>3, <1>7, <4>1, StreamTypes DEF RxAccept, RxInv, SkbInv, StreamInv
      <4>3. LastRx.number = k - 1 /\ LastRx.size \in RxSizes /\ LastRx.size \in Nat
        <5>1. rx_skb[k] = [LastRx EXCEPT !.number = k - 1]
          BY <4>2
        <5> QED
          BY <4>2, <5>1, FragmentNumbers DEF LastRx, Fragments
      <4>4. MaxLost < LastRx.size /\ lost_before \in Nat /\ lost_before <= MaxLost
            /\ MaxLost \in Nat
        BY <4>2, <4>3, StreamTypes, EoeAssumption DEF RxInv
      <4>5. answer = [LastRx EXCEPT !.number = @ + lost_before + 1]
        BY <4>1, <4>2, <4>3, <4>4 DEF Follows
      <4>6. answer = [LastRx EXCEPT !.number = k]
        <5>1. answer.number = LastRx.number + lost_before + 1
          BY <4>2, <4>5 DEF Fragments
        <5>2. LastRx.number + lost_before + 1 = k
          BY <4>1, <5>1
        <5> QED
          BY <4>5, <5>2
      <4>7. skb = Append(rx_skb, answer) /\ Len(skb) = k + 1 /\ skb[k + 1] = answer
            /\ \A i \in 1 .. k : skb[i] = rx_skb[i]
        BY <2>1, <3>2, <4>1
      <4>8. ASSUME NEW i \in 1 .. k + 1
            PROVE  skb[i] = [answer EXCEPT !.number = i - 1]
        <5> HIDE DEF skb, k
        <5>1. CASE i \in 1 .. k
          <6>1. skb[i] = [LastRx EXCEPT !.number = i - 1]
            BY <4>2, <4>7, <5>1
          <6>2. [answer EXCEPT !.number = i - 1] = [LastRx EXCEPT !.number = i - 1]
            BY <4>2, <4>6 DEF Fragments
          <6> QED
            BY <6>1, <6>2
        <5>2. CASE i = k + 1
          <6>1. i - 1 = k
            BY <4>2, <5>2
          <6> QED
            BY <4>2, <4>6, <4>7, <5>2, <6>1 DEF Fragments
        <5> QED
          BY <4>2, <5>1, <5>2
      <4>9. skb \in Seq(Fragments)
        BY <2>1, <4>1, <4>7
      <4> QED
        BY <4>1, <4>7, <4>8, <4>9
    <3> QED
      BY <3>1, <3>2
  <2> HIDE DEF skb
  <2>3. CASE Last(answer)
    <3>1. rx_skb' = <<>> /\ whole'
      BY <1>7, <2>2, <2>3 DEF RxAccept, RxInv, skb
    <3> QED
      BY <1>5, <3>1
  <2>4. CASE ~Last(answer)
    <3>1. rx_skb' = skb /\ whole'
      BY <1>7, <2>4 DEF RxAccept, RxInv, skb
    <3>2. LastRx' = answer
      BY <2>2, <3>1 DEF LastRx
    <3>3. Len(skb) < answer.size
      BY <2>1, <2>2, <2>4 DEF Last
    <3>4. SkbInv'
      BY <2>2, <3>1, <3>2, <3>3 DEF SkbInv
    <3>5. StreamInv'
      BY <1>1, <1>2, <1>4, <2>1, <3>2 DEF StreamInv
    <3> QED
      BY <3>1, <3>4, <3>5 DEF RxInv
  <2> QED
    BY <2>3, <2>4
<1> QED
  <2>1. CASE RxDropped
    BY <1>5, <1>6, <2>1 DEF RxDropped, RxInv
  <2>2. CASE RxMisfit
    BY <1>5, <2>2 DEF RxMisfit, RxInv
  <2> QED
    BY <1>7, <2>1, <2>2 DEF StateRxFetch

\* The bus and the slave: the answer is fetched or lost, the mailbox filled or
\* emptied by somebody else.
LEMMA RxSlave ==
    ASSUME RxInv, TypeInv', AskInv',
           Lose \/ SlaveAnswers \/ SlaveFills \/ Stolen
    PROVE  RxInv'
<1>1. UNCHANGED <<state, rx_skb, whole>> /\ LastRx' = LastRx
  BY DEF Lose, SlaveAnswers, SlaveFills, Stolen, rxvars, LastRx
<1>2. SkbInv' /\ whole'
  BY <1>1 DEF RxInv, SkbInv
<1>3. /\ TypeInv /\ lost \in Nat /\ lost_before \in Nat /\ MaxLost \in Nat
      /\ Front \in Fragments /\ out \in Fragments /\ out' \in Fragments
      /\ rx_skb # <<>> => LastRx \in Fragments
  BY StreamTypes, EoeAssumption DEF RxInv, TypeInv, SlaveType
<1>4. CASE Lose
  <2>1. UNCHANGED <<answer, mailbox, out>> /\ Front' = Front /\ ~Coming'
        /\ datagram = "SENT"
    BY <1>4 DEF Lose, Front, Coming
  <2>2. CASE Coming
    <3>1. lost' = lost_before + 1 + lost /\ answer \in Fragments
      BY <1>3, <1>4, <2>2, StreamTypes DEF Lose, Coming
    <3>2. rx_skb # <<>> => Follows(LastRx, lost_before + lost + 1, Front)
      BY <1>3, <2>2, <3>1, FollowsOn DEF RxInv, StreamInv
    <3>3. lost_before + lost + 1 = lost_before + 1 + lost
      BY <1>3
    <3> QED
      BY <1>1, <1>2, <2>1, <3>1, <3>2, <3>3 DEF RxInv, StreamInv
  <2>3. CASE ~Coming
    <3>1. ~IsFragment(answer)
      BY <2>1, <2>3 DEF Coming, RxInv, AskInv
    <3>2. UNCHANGED <<lost, lost_before>>
      BY <1>4, <3>1 DEF Lose
    <3> QED
      BY <1>1, <1>2, <2>1, <2>3, <3>2 DEF RxInv, StreamInv
  <2> QED
    BY <2>2, <2>3
<1>5. CASE SlaveAnswers
  <2>1. UNCHANGED <<datagram, out>> /\ datagram = "SENT" /\ answer = None
        /\ ~Coming
    BY <1>5 DEF SlaveAnswers, AnswerCheck, AnswerFetch, AnswerSend, Answering,
       Coming, None, Mail, IsFragment
  <2>2. CASE AnswerFetch /\ IsFragment(mailbox)
    <3>1. /\ answer' = mailbox /\ mailbox' = None /\ lost_before' = lost /\ lost' = 0
          /\ request = "fetch"
      BY <2>2 DEF AnswerFetch, Answering, IsFragment, None, Mail
    <3>2. Coming' /\ Front = mailbox /\ Front' = out /\ ~IsFragment(mailbox')
      BY <1>1, <2>1, <2>2, <3>1 DEF RxInv, AskInv, Coming, Front, None, Mail, IsFragment
    <3>3. Follows(answer', lost', Front')
      BY <2>2, <3>1, <3>2 DEF RxInv, StreamInv
    <3>4. rx_skb # <<>> => Follows(LastRx, lost_before', answer')
      BY <2>1, <3>1, <3>2 DEF RxInv, StreamInv
    <3> QED
      BY <1>1, <1>2, <3>2, <3>3, <3>4 DEF RxInv, StreamInv
  <2>3. CASE ~(AnswerFetch /\ IsFragment(mailbox))
    <3>1. UNCHANGED <<lost, lost_before>> /\ ~IsFragment(answer')
          /\ (mailbox' = mailbox \/ (~IsFragment(mailbox) /\ ~IsFragment(mailbox')))
      <4>1. /\ ~IsFragment(Mail("empty")) /\ ~IsFragment(Mail("full"))
            /\ ~IsFragment(Mail("taken")) /\ ~IsFragment(Mail("refused"))
            /\ ~IsFragment(Mail("other")) /\ ~IsFragment(Mail("none"))
        BY DEF Mail, IsFragment
      <4>2. CASE AnswerCheck \/ AnswerSend
        <5>1. UNCHANGED <<lost, lost_before, mailbox>>
          BY <4>2 DEF AnswerCheck, AnswerSend
        <5>2. answer' \in {Mail("empty"), Mail("full"), Mail("taken"), Mail("refused")}
          BY <4>2 DEF AnswerCheck, AnswerSend
        <5> QED
          BY <4>1, <5>1, <5>2
      <4>3. CASE AnswerFetch
        BY <2>3, <4>1, <4>3 DEF AnswerFetch, None
      <4> QED
        BY <1>5, <4>2, <4>3 DEF SlaveAnswers
    <3>2. ~Coming' /\ Front' = Front
      BY <2>1, <3>1 DEF Coming, Front
    <3> QED
      BY <1>1, <1>2, <2>1, <3>1, <3>2 DEF RxInv, StreamInv
  <2> QED
    BY <2>2, <2>3
<1>6. CASE SlaveFills
  <2>1. UNCHANGED <<datagram, answer, lost, lost_before>> /\ Coming' = Coming
        /\ mailbox = None
    BY <1>1, <1>6 DEF SlaveFills, dgvars, Coming
  <2>2. ~IsFragment(mailbox) /\ Front = out /\ IsFragment(out)
    BY <1>3, <2>1, FragmentNumbers DEF None, Mail, IsFragment, Front
  <2>3. Front' = Front
    BY <1>6, <2>2 DEF SlaveFills, Front, IsFragment, Mail
  <2>4. IsFragment(mailbox') => Follows(mailbox', 0, out')
    <3> SUFFICES ASSUME mailbox' = out PROVE Follows(out, 0, out')
      BY <1>6 DEF SlaveFills, IsFragment, Mail
    <3>1. out.number \in Nat /\ out.size \in Nat
      BY <1>3, FragmentNumbers
    <3>2. CASE Last(out)
      <4>1. out'.number = 0
        BY <1>6, <2>2, <3>2 DEF SlaveFills, Mail, IsFragment
      <4> QED
        BY <3>1, <3>2, <4>1 DEF Last, Follows
    <3>3. CASE ~Last(out)
      <4>1. out' = [out EXCEPT !.number = @ + 1]
        BY <1>6, <2>2, <3>3 DEF SlaveFills, Mail, IsFragment
      <4>2. out.number + 0 + 1 = out.number + 1
        BY <3>1
      <4> QED
        BY <4>1, <4>2 DEF Follows
    <3> QED
      BY <3>2, <3>3
  <2> QED
    BY <1>1, <1>2, <2>1, <2>3, <2>4 DEF RxInv, StreamInv
<1>7. CASE Stolen
  <2>1. UNCHANGED <<datagram, answer, lost_before, out>> /\ Coming' = Coming
        /\ mailbox' = None /\ ~IsFragment(mailbox')
    BY <1>1, <1>7 DEF Stolen, dgvars, Coming, None, Mail, IsFragment
  <2>2. CASE IsFragment(mailbox)
    <3>1. lost' = lost + 1 /\ Front = mailbox /\ Front' = out /\ lost + 0 + 1 = lost + 1
      BY <1>3, <1>7, <2>1, <2>2 DEF Stolen, Front
    <3>2. Follows(Front, 0, out)
      BY <2>2, <3>1 DEF RxInv, StreamInv
    <3>3. Coming => Follows(answer, lost', Front')
      BY <1>3, <3>1, <3>2, FollowsOn, StreamTypes DEF RxInv, StreamInv
    <3>4. rx_skb # <<>> /\ ~Coming => Follows(LastRx, lost', Front')
      BY <1>3, <3>1, <3>2, FollowsOn DEF RxInv, StreamInv
    <3> QED
      BY <1>1, <1>2, <2>1, <3>1, <3>3, <3>4 DEF RxInv, StreamInv
  <2>3. CASE ~IsFragment(mailbox)
    <3>1. lost' = lost /\ Front' = Front
      BY <1>7, <2>1, <2>3 DEF Stolen, Front
    <3> QED
      BY <1>1, <1>2, <2>1, <3>1 DEF RxInv, StreamInv
  <2> QED
    BY <2>2, <2>3
<1> QED
  BY <1>4, <1>5, <1>6, <1>7

LEMMA RxNext ==
    ASSUME \A n \in RxSizes \ {1} : MaxLost < n, RxInv, [Next]_vars
    PROVE  RxInv'
<1>1. TypeInv' /\ AskInv'
  BY TypeNext, AskNext DEF RxInv
<1>2. CASE Lose \/ SlaveAnswers \/ SlaveFills \/ Stolen
  BY <1>1, <1>2, RxSlave
<1>3. CASE ThreadState
  <2>1. CASE StateRxFetch
    BY <1>1, <1>3, <2>1, RxFetchStream DEF ThreadState
  <2>2. CASE ~StateRxFetch
    <3>1. UNCHANGED <<rxvars, slavevars>> /\ thread = "state"
      BY <1>3, <2>2 DEF ThreadState, StateRxStart, StateRxCheck, StateTxStart,
         StateTxSent
    <3>2. ~Coming
      BY <1>3, <2>2 DEF ThreadState, StateRxStart, StateRxCheck, StateTxStart,
         StateTxSent, Coming
    <3>3. ~Coming'
      <4>1. state' = "rx_fetch" => answer' = None
        BY <1>3, <2>2 DEF ThreadState, StateRxStart, StateRxCheck, StateTxStart,
           StateTxSent, RxStart, TxFrame, TxRetry, TxDone, TxNext, SendFragment,
           SendError, Ask
      <4> QED
        BY <4>1 DEF Coming, None, Mail, IsFragment
    <3> QED
      BY <1>1, <3>1, <3>2, <3>3, RxStutter
  <2> QED
    BY <2>1, <2>2
<1>4. CASE Clear
  <2>1. rx_skb' = <<>> /\ whole' = whole /\ ~Coming' /\ UNCHANGED slavevars
    BY <1>4 DEF Clear, Coming, None, Mail, IsFragment
  <2> QED
    BY <1>1, <2>1 DEF RxInv, SkbInv, StreamInv, slavevars
<1>5. CASE ThreadSend
  <2>1. UNCHANGED <<rxvars, slavevars, state>> /\ thread = "send"
    BY <1>5 DEF ThreadSend
  <2>2. ~Coming
    BY <2>1 DEF Coming, RxInv, AskInv
  <2>3. ~Coming'
    BY <1>5, <2>1, <2>2 DEF ThreadSend, SendExt, Coming, dgvars, None, Mail, IsFragment
  <2> QED
    BY <1>1, <2>1, <2>2, <2>3, RxStutter
<1>6. CASE Receive
  BY <1>1, <1>6, RxStutter DEF Receive, Coming
<1>7. CASE ThreadReceive \/ ThreadRun \/ ThreadQueue \/ Fault
  BY <1>1, <1>7, RxStutter DEF ThreadReceive, ThreadRun, ThreadQueue, Fault, Coming, dgvars
<1>8. CASE Open \/ OpenDone \/ Stop \/ StopDone \/ Transmit
  BY <1>1, <1>8, RxStutter DEF Open, OpenDone, Stop, StopDone, Transmit, Coming, dgvars
<1>9. CASE UNCHANGED vars
  BY <1>1, <1>9, RxStutter DEF vars, Coming, dgvars
<1> QED
  BY <1>2, <1>3, <1>4, <1>5, <1>6, <1>7, <1>8, <1>9 DEF Next, Thread

\* A frame handed to the network stack (ec_eoe_state_rx_fetch()) consists of the
\* fragments of one frame of the slave, complete and in order, if fewer fragments
\* are lost in a row than any frame of several fragments has.  This bound is
\* sharp: the code compares fragment numbers, not frames.
THEOREM FramesWhole ==
    ASSUME \A n \in RxSizes \ {1} : MaxLost < n
    PROVE  Spec => []RxFrameWhole
<1>1. RxInv /\ [Next]_vars => RxInv'
  BY RxNext
<1>2. RxInv => RxFrameWhole
  BY DEF RxInv, RxFrameWhole
<1> QED
  BY <1>1, <1>2, RxInit, PTL DEF Spec
=============================================================================
