---------------------------- MODULE ExtRing_proof ----------------------------
(***************************************************************************)
(* Theorems about ExtRing for any number of slaves, size of the ring,      *)
(* timeouts, sizes of datagrams and load of the application: the types,    *)
(* among them the bounds of the indices and of fsm_exec_count, and that    *)
(* the list of the state machines to be executed is intact, whether the    *)
(* ring has a free datagram or not.                                        *)
(***************************************************************************)
EXTENDS ExtRing, SequenceTheorems, TLAPS

DataSizes == {0} \cup UNION {Sizes[s] : s \in Slaves}

\* What the application and the ring's datagrams consist of.
RtType ==
    /\ slot \in [Slots -> {"INIT", "QUEUED", "SENT", "TIMED_OUT", "settled"}]
    /\ data_size \in [Slots -> DataSizes]
    /\ age \in [Slots -> 0 .. MaxAge]
    /\ ext_ring_idx_rt \in Slots
    /\ passes \in 0 .. MaxPasses
    /\ inject \in BOOLEAN
    /\ fsm_datagram \in {"QUEUED", "SENT", "settled"}
    /\ rt \in {"receive", "received", "send", "inject", "transmit"}
    /\ queue_size \in 0 .. MaxLoad + MaxQueue

\* What the operation thread consists of.
OpType ==
    /\ ext_ring_idx_fsm \in Slots
    /\ fsm \in [Slaves -> {"none", "idle", "ready", "busy"}]
    /\ datagram \in [Slaves -> Slots \cup {None}]
    /\ retries \in [Slaves -> 0 .. MaxRetries]
    /\ fsm_exec_list \in Seq(Slaves)
    /\ fsm_exec_count \in 0 .. RingSize \div 2
    /\ fsm_slave \in Slaves
    /\ op \in {"sleep", "list", "list_advance", "scan", "scan_advance"}
    /\ todo \in Seq(Slaves)
    /\ count \in 0 .. NumSlaves

Listed(s) == \E i \in 1 .. Len(fsm_exec_list) : fsm_exec_list[i] = s

\* The list is counted, and holds no state machine twice.
ListInv ==
    /\ Len(fsm_exec_list) = fsm_exec_count
    /\ \A i, j \in 1 .. Len(fsm_exec_list) :
          fsm_exec_list[i] = fsm_exec_list[j] => i = j

\* Listed state machines are busy, and those with a datagram are listed, or
\* about to be.
BusyInv ==
    \A s \in Slaves :
        /\ Listed(s) => fsm[s] = "busy"
        /\ fsm[s] = "busy" /\ datagram[s] # None =>
              Listed(s) \/ (op = "scan_advance" /\ s = fsm_slave)

\* What is left of the list to be executed is listed, each once.
TodoInv ==
    op \in {"list", "list_advance"} =>
        /\ op = "list_advance" => todo # <<>>
        /\ \A i \in 1 .. Len(todo) : Listed(todo[i])
        /\ \A i, j \in 1 .. Len(todo) : todo[i] = todo[j] => i = j

\* A state machine was started: it is not listed yet, and there is room.
AdvanceInv ==
    op = "scan_advance" =>
        /\ fsm[fsm_slave] = "busy" /\ ~Listed(fsm_slave)
        /\ fsm_exec_count < RingSize \div 2
        /\ count < NumSlaves

OpInv == OpType /\ ListInv /\ BusyInv /\ TodoInv /\ AdvanceInv

Inv == RtType /\ OpInv

-----------------------------------------------------------------------------
LEMMA RemoveAtProperties ==
    ASSUME NEW S, NEW s \in Seq(S), NEW i \in 1 .. Len(s)
    PROVE  /\ RemoveAt(s, i) \in Seq(S)
           /\ Len(RemoveAt(s, i)) = Len(s) - 1
           /\ \A j \in 1 .. Len(s) - 1 :
                 RemoveAt(s, i)[j] = IF j < i THEN s[j] ELSE s[j + 1]
<1> DEFINE a == SubSeq(s, 1, i - 1)
           b == SubSeq(s, i + 1, Len(s))
<1>1. /\ a \in Seq(S) /\ Len(a) = i - 1
      /\ \A j \in 1 .. i - 1 : a[j] = s[j]
  <2>1. \A j \in 1 .. i - 1 : s[j] \in S
    OBVIOUS
  <2>2. 1 \in Int /\ i - 1 \in Int
    OBVIOUS
  <2> QED
    BY <2>1, <2>2, SubSeqProperties
<1>2. /\ b \in Seq(S) /\ Len(b) = Len(s) - i
      /\ \A j \in 1 .. Len(s) - i : b[j] = s[i + j]
  <2>1. \A j \in i + 1 .. Len(s) : s[j] \in S
    OBVIOUS
  <2>2. i + 1 \in Int /\ Len(s) \in Int
    OBVIOUS
  <2> QED
    BY <2>1, <2>2, SubSeqProperties
<1> HIDE DEF a, b
<1>3. /\ a \o b \in Seq(S)
      /\ Len(a \o b) = Len(s) - 1
      /\ \A j \in 1 .. Len(s) - 1 :
            (a \o b)[j] = IF j <= i - 1 THEN a[j] ELSE b[j - (i - 1)]
  <2>1. a \in Seq(S) /\ b \in Seq(S) /\ Len(a) = i - 1
        /\ Len(a) + Len(b) = Len(s) - 1
    BY <1>1, <1>2
  <2>2. /\ a \o b \in Seq(S)
        /\ Len(a \o b) = Len(a) + Len(b)
        /\ \A j \in 1 .. Len(a) + Len(b) :
              (a \o b)[j] = IF j <= Len(a) THEN a[j] ELSE b[j - Len(a)]
    BY <2>1, ConcatProperties
  <2> QED
    BY <2>1, <2>2
<1>4. ASSUME NEW j \in 1 .. Len(s) - 1
      PROVE  (a \o b)[j] = IF j < i THEN s[j] ELSE s[j + 1]
  <2>1. CASE j < i
    BY <1>1, <1>3, <2>1
  <2>2. CASE ~(j < i)
    <3>1. j - (i - 1) \in 1 .. Len(s) - i /\ i + (j - (i - 1)) = j + 1
      BY <2>2
    <3> QED
      BY <1>2, <1>3, <2>2, <3>1
  <2> QED
    BY <2>1, <2>2
<1> QED
  BY <1>3, <1>4 DEF RemoveAt, a, b

\* The remainder of a number below twice the divisor.
LEMMA Remainder ==
    ASSUME NEW a \in Nat, NEW n \in Nat \ {0}, a < 2 * n
    PROVE  a % n = IF a < n THEN a ELSE a - n
  OBVIOUS

LEMMA NextIndex ==
    ASSUME NEW n \in Nat \ {0}, NEW i \in 0 .. n - 1
    PROVE  (i + 1) % n \in 0 .. n - 1
<1> DEFINE a == i + 1
<1>1. a \in Nat /\ a <= n /\ a < 2 * n
  OBVIOUS
<1> HIDE DEF a
<1>2. a % n = IF a < n THEN a ELSE a - n
  BY <1>1, Remainder
<1>3. a % n \in 0 .. n - 1
  BY <1>1, <1>2
<1> QED
  BY <1>3 DEF a

LEMMA Constants ==
    /\ NumSlaves \in Nat \ {0} /\ 0 \in Slaves
    /\ RingSize \in Nat \ {0} /\ RingSize \div 2 \in Nat
    /\ MaxAge \in Nat /\ MaxQueue \in Nat /\ MaxLoad \in Nat /\ MaxPasses \in Nat
    /\ DataSizes \subseteq Nat /\ 0 \in DataSizes
    /\ \A s \in Slaves : Sizes[s] \subseteq DataSizes
    /\ MaxRetries \in Nat
    /\ None \notin Slots
    /\ \A i \in Slots : Next1(i) \in Slots
    /\ \A s \in Slaves : (s + 1) % NumSlaves \in Slaves
<1>1. /\ NumSlaves \in Nat \ {0} /\ 0 \in Slaves
      /\ RingSize \in Nat \ {0} /\ RingSize \div 2 \in Nat
      /\ MaxAge \in Nat /\ MaxQueue \in Nat /\ MaxLoad \in Nat /\ MaxPasses \in Nat
      /\ MaxRetries \in Nat
      /\ None \notin Slots
  BY RingAssumption DEF Slaves, Slots, None, MaxAge
<1>2. /\ DataSizes \subseteq Nat /\ 0 \in DataSizes
      /\ \A s \in Slaves : Sizes[s] \subseteq DataSizes
  <2>1. \A s \in Slaves : Sizes[s] \subseteq Nat
    BY RingAssumption
  <2>2. ASSUME NEW d \in DataSizes PROVE d \in Nat
    <3>1. CASE d = 0
      BY <3>1
    <3>2. CASE d # 0
      <4>1. PICK s \in Slaves : d \in Sizes[s]
        <5>1. d \in UNION {Sizes[s] : s \in Slaves}
          BY <3>2 DEF DataSizes
        <5> QED
          BY <5>1
      <4> QED
        BY <2>1, <4>1
    <3> QED
      BY <3>1, <3>2
  <2>3. ASSUME NEW s \in Slaves PROVE Sizes[s] \subseteq DataSizes
    BY Zenon DEF DataSizes
  <2>4. 0 \in DataSizes
    BY DEF DataSizes
  <2> QED
    BY <2>2, <2>3, <2>4
<1>3. \A i \in Slots : Next1(i) \in Slots
  BY <1>1, NextIndex DEF Slots, Next1
<1>4. \A s \in Slaves : (s + 1) % NumSlaves \in Slaves
  BY <1>1, NextIndex DEF Slaves
<1> QED
  BY <1>1, <1>2, <1>3, <1>4

LEMMA InitInv == Init => Inv
<1> SUFFICES ASSUME Init PROVE Inv
  OBVIOUS
<1>1. RtType
  <2>1. 0 \in Slots /\ MaxAge \in 0 .. MaxAge
    BY Constants DEF Slots
  <2>2. data_size \in [Slots -> DataSizes] /\ age \in [Slots -> 0 .. MaxAge]
    BY <2>1, Constants DEF Init
  <2>3. queue_size \in 0 .. MaxLoad + MaxQueue /\ passes \in 0 .. MaxPasses
    BY Constants DEF Init
  <2> QED
    BY <2>1, <2>2, <2>3 DEF Init, RtType
<1>2. OpType
  <2>1. 0 \in Slots /\ <<>> \in Seq(Slaves)
    BY Constants DEF Slots
  <2> QED
    BY <2>1, Constants DEF Init, OpType
<1>3. ListInv /\ BusyInv /\ TodoInv /\ AdvanceInv
  BY DEF Init, ListInv, BusyInv, TodoInv, AdvanceInv, Listed
<1> QED
  BY <1>1, <1>2, <1>3 DEF Inv, OpInv

-----------------------------------------------------------------------------
(* The application. *)

\* It leaves the list alone.
LEMMA OpUnchanged ==
    ASSUME OpInv, UNCHANGED opvars
    PROVE  OpInv'
<1>1. OpType' /\ ListInv'
  BY DEF OpInv, OpType, ListInv, opvars
<1>2. BusyInv' /\ TodoInv' /\ AdvanceInv'
  BY DEF OpInv, BusyInv, TodoInv, AdvanceInv, Listed, opvars
<1> QED
  BY <1>1, <1>2 DEF OpInv

LEMMA ApplicationInv ==
    ASSUME Inv, Application \/ ReceiveMaster \/ (\E i \in Slots : ReceiveSlot(i))
    PROVE  Inv'
<1> USE Constants DEF Inv
<1>1. UNCHANGED opvars
  BY DEF Application, ReceiveBegin, ReceiveEnd, SendBegin, InjectSkip, InjectQueue,
         InjectTooLarge, InjectTimeout, InjectFails, InjectDone, Transmit, LinkDown,
         ReceiveMaster, ReceiveSlot
<1>2. OpInv'
  BY <1>1, OpUnchanged
<1>3. RtType'
  <2>1. CASE ReceiveBegin
    <3>1. age' \in [Slots -> 0 .. MaxAge]
      BY <2>1 DEF ReceiveBegin, RtType, Older
    <3> QED
      BY <2>1, <3>1 DEF ReceiveBegin, RtType
  <2>2. CASE ReceiveEnd
    BY <2>2 DEF ReceiveEnd, RtType, ringvars, rtvars
  <2>3. CASE SendBegin
    <3>1. queue_size' \in 0 .. MaxLoad + MaxQueue
      BY <2>3 DEF SendBegin
    <3>2. fsm_datagram' \in {"QUEUED", "SENT", "settled"} /\ inject' \in BOOLEAN
      BY <2>3 DEF SendBegin, RtType
    <3> QED
      BY <2>3, <3>1, <3>2 DEF SendBegin, RtType, ringvars
  <2>4. CASE InjectSkip
    BY <2>4 DEF InjectSkip, RtType, ringvars
  <2>5. CASE InjectQueue
    <3>0. data_size[AtRt] \in DataSizes /\ AtRt \in Slots
      BY DEF RtType, AtRt
    <3>1. data_size[AtRt] \in Nat /\ queue_size \in Nat
      <4>1. DataSizes \subseteq Nat
        BY Constants
      <4>2. data_size[AtRt] \in Nat
        BY ONLY <3>0, <4>1
      <4>3. queue_size \in 0 .. MaxLoad + MaxQueue
        BY DEF RtType
      <4> QED
        BY <4>2, <4>3
    <3>2. queue_size + data_size[AtRt] \in 0 .. MaxLoad + MaxQueue
      BY <2>5, <3>1 DEF InjectQueue, Fits
    <3>3. age' \in [Slots -> 0 .. MaxAge]
      <4>1. MaxAge \in 0 .. MaxAge /\ age \in [Slots -> 0 .. MaxAge]
        BY DEF RtType
      <4>2. age' = [age EXCEPT ![AtRt] = MaxAge]
        BY <2>5 DEF InjectQueue
      <4> QED
        BY ONLY <4>1, <4>2
    <3>4. slot' \in [Slots -> {"INIT", "QUEUED", "SENT", "TIMED_OUT", "settled"}]
      BY <2>5 DEF InjectQueue, RtType
    <3> QED
      BY <2>5, <3>2, <3>3, <3>4 DEF InjectQueue, RtType
  <2>6. CASE InjectTooLarge \/ InjectTimeout
    BY <2>6 DEF InjectTooLarge, InjectTimeout, InjectFails, RtType
  <2>7. CASE InjectDone
    BY <2>7 DEF InjectDone, RtType, ringvars
  <2>8. CASE Transmit
    <3>1. age' \in [Slots -> 0 .. MaxAge]
      BY <2>8 DEF Transmit, RtType
    <3>2. slot' \in [Slots -> {"INIT", "QUEUED", "SENT", "TIMED_OUT", "settled"}]
      BY <2>8 DEF Transmit, RtType
    <3> QED
      BY <2>8, <3>1, <3>2 DEF Transmit, RtType
  <2>9. CASE LinkDown
    BY <2>9 DEF LinkDown, RtType
  <2>10. CASE ReceiveMaster
    BY <2>10 DEF ReceiveMaster, RtType, ringvars, rtvars
  <2>11. ASSUME NEW i \in Slots, ReceiveSlot(i) PROVE RtType'
    BY <2>11 DEF ReceiveSlot, RtType, rtvars
  <2> QED
    BY <2>1, <2>2, <2>3, <2>4, <2>5, <2>6, <2>7, <2>8, <2>9, <2>10, <2>11
       DEF Application
<1> QED
  BY <1>2, <1>3

-----------------------------------------------------------------------------
(* The operation thread. *)

LEMMA PrepareSlotType ==
    ASSUME RtType, ext_ring_idx_fsm \in Slots, NEW s \in Slaves, PrepareSlot(s),
           UNCHANGED <<rtvars, inject, fsm_datagram, passes>>
    PROVE  RtType' /\ (OpType => retries' \in [Slaves -> 0 .. MaxRetries])
<1>1. PICK n \in Sizes[s] : data_size' = [data_size EXCEPT ![ext_ring_idx_fsm] = n]
  BY DEF PrepareSlot
<1>2. n \in DataSizes
  BY Constants
<1>3. data_size' \in [Slots -> DataSizes]
  BY <1>1, <1>2 DEF RtType
<1>4. RtType'
  BY <1>3 DEF PrepareSlot, RtType, rtvars
<1>5. ASSUME OpType PROVE retries' \in [Slaves -> 0 .. MaxRetries]
  <2>1. (IF s \in Segmented THEN MaxRetries ELSE 0) \in 0 .. MaxRetries
    BY Constants
  <2> QED
    BY <1>5, <2>1 DEF PrepareSlot, OpType
<1> QED
  BY <1>4, <1>5

LEMMA RtUnchanged ==
    ASSUME RtType, UNCHANGED <<ringvars, rtvars, inject, fsm_datagram, passes>>
    PROVE  RtType'
  BY DEF RtType, ringvars, rtvars

LEMMA UnlistInv ==
    ASSUME OpType, ListInv, NEW s \in Slaves, Unlist(s)
    PROVE  /\ fsm_exec_list' \in Seq(Slaves)
           /\ fsm_exec_count' \in 0 .. RingSize \div 2
           /\ ListInv'
           /\ \A t \in Slaves : Listed(t)' <=> Listed(t) /\ t # s
<1> DEFINE list == fsm_exec_list
           Gap(n, i) == IF i < n THEN i ELSE i + 1
<1>1. PICK n \in 1 .. Len(list) : list[n] = s /\ list' = RemoveAt(list, n)
  BY DEF Unlist
<1>2. list \in Seq(Slaves) /\ Len(list) \in Nat
  BY DEF OpType
<1>3. /\ list' \in Seq(Slaves) /\ Len(list') = Len(list) - 1
      /\ \A i \in 1 .. Len(list) - 1 : list'[i] = IF i < n THEN list[i] ELSE list[i + 1]
  BY <1>1, <1>2, RemoveAtProperties
<1>4. \A i \in 1 .. Len(list') : /\ list'[i] = list[Gap(n, i)]
                                 /\ Gap(n, i) \in 1 .. Len(list) /\ Gap(n, i) # n
  BY <1>1, <1>2, <1>3
<1>5. \A i, j \in 1 .. Len(list') : Gap(n, i) = Gap(n, j) => i = j
  BY <1>2, <1>3
<1> HIDE DEF Gap, list
<1>6. fsm_exec_count' \in 0 .. RingSize \div 2 /\ Len(list') = fsm_exec_count'
  <2>1. fsm_exec_count' = fsm_exec_count - 1 /\ Len(list) = fsm_exec_count
    BY DEF Unlist, ListInv, list
  <2> QED
    BY <1>1, <1>2, <1>3, <2>1, Constants DEF OpType
<1>7. ListInv'
  <2>1. \A i, j \in 1 .. Len(list) : list[i] = list[j] => i = j
    BY DEF ListInv, list
  <2>2. \A i, j \in 1 .. Len(list') : list'[i] = list'[j] => i = j
    BY <1>4, <1>5, <2>1
  <2> QED
    BY <1>6, <2>2 DEF ListInv, list
<1>8. ASSUME NEW t \in Slaves
      PROVE  Listed(t)' <=> Listed(t) /\ t # s
  <2>1. ASSUME NEW i \in 1 .. Len(list'), list'[i] = t
        PROVE  (\E j \in 1 .. Len(list) : list[j] = t) /\ t # s
    <3>1. list[Gap(n, i)] = t /\ Gap(n, i) \in 1 .. Len(list) /\ Gap(n, i) # n
      BY <1>4, <2>1
    <3>2. t # s
      BY <1>1, <3>1 DEF ListInv, list
    <3> QED
      BY <3>1, <3>2
  <2>2. ASSUME NEW i \in 1 .. Len(list), list[i] = t, t # s
        PROVE  \E j \in 1 .. Len(list') : list'[j] = t
    <3>1. i # n
      BY <1>1, <2>2
    <3>2. CASE i < n
      <4>1. i \in 1 .. Len(list) - 1 /\ list'[i] = list[i]
        BY <1>2, <1>3, <3>2
      <4> QED
        BY <1>3, <2>2, <4>1
    <3>3. CASE i > n
      <4>1. i - 1 \in 1 .. Len(list) - 1 /\ ~(i - 1 < n) /\ (i - 1) + 1 = i
        BY <1>2, <3>3
      <4>2. list'[i - 1] = list[i]
        BY <1>3, <4>1
      <4> QED
        BY <1>3, <2>2, <4>1, <4>2
    <3> QED
      BY <3>1, <3>2, <3>3
  <2> QED
    BY <2>1, <2>2 DEF Listed, list
<1> QED
  BY <1>3, <1>6, <1>7, <1>8 DEF list

\* The state machine at the head is done with.
LEMMA TodoTail ==
    ASSUME OpInv, op \in {"list", "list_advance"}, todo # <<>>
    PROVE  /\ Head(todo) \in Slaves /\ Listed(Head(todo))
           /\ Tail(todo) \in Seq(Slaves)
           /\ \A i \in 1 .. Len(Tail(todo)) :
                 Listed(Tail(todo)[i]) /\ Tail(todo)[i] # Head(todo)
                 /\ Tail(todo)[i] \in Slaves
           /\ \A i, j \in 1 .. Len(Tail(todo)) : Tail(todo)[i] = Tail(todo)[j] => i = j
<1>1. todo \in Seq(Slaves)
  BY DEF OpInv, OpType
<1>2. /\ Head(todo) = todo[1] /\ 1 \in 1 .. Len(todo) /\ Head(todo) \in Slaves
      /\ Tail(todo) \in Seq(Slaves) /\ Len(Tail(todo)) = Len(todo) - 1
      /\ \A i \in 1 .. Len(Tail(todo)) :
            Tail(todo)[i] = todo[i + 1] /\ i + 1 \in 1 .. Len(todo) /\ i + 1 # 1
  BY <1>1, HeadTailProperties
<1>3. /\ \A i \in 1 .. Len(todo) : Listed(todo[i])
      /\ \A i, j \in 1 .. Len(todo) : todo[i] = todo[j] => i = j
  BY DEF OpInv, TodoInv
<1>4. \A i \in 1 .. Len(Tail(todo)) :
         Listed(Tail(todo)[i]) /\ Tail(todo)[i] # Head(todo) /\ Tail(todo)[i] \in Slaves
  BY <1>2, <1>3
<1>5. ASSUME NEW i \in 1 .. Len(Tail(todo)), NEW j \in 1 .. Len(Tail(todo)),
             Tail(todo)[i] = Tail(todo)[j]
      PROVE  i = j
  <2>1. i + 1 = j + 1
    BY <1>2, <1>3, <1>5
  <2>2. i \in Int /\ j \in Int
    OBVIOUS
  <2> QED
    BY <2>1, <2>2
<1> QED
  BY <1>2, <1>3, <1>4, <1>5


\* The list stays, and who is in it.
LEMMA SameList ==
    ASSUME ListInv, UNCHANGED <<fsm_exec_list, fsm_exec_count>>
    PROVE  ListInv' /\ \A s : Listed(s)' <=> Listed(s)
  BY DEF ListInv, Listed

\* The master state machine runs: it may replace or release the slaves' state
\* machines.
LEMMA OperationThreadInv ==
    ASSUME Inv, OperationThread
    PROVE  Inv'
<1> USE DEF Inv
<1>1. /\ op = "sleep" /\ op' = "list" /\ todo' = fsm_exec_list' /\ count' = 0
      /\ passes < MaxPasses /\ passes' = passes + 1
      /\ UNCHANGED <<slot, data_size, age, ext_ring_idx_fsm, rt, queue_size,
                     ext_ring_idx_rt>>
  BY DEF OperationThread, ringvars, rtvars
<1>2. /\ inject' \in BOOLEAN
      /\ fsm_datagram' \in {"QUEUED", "SENT", "settled"}
      /\ \/ ReplaceSlaves("none") \/ ReplaceSlaves("idle") \/ SetReady
         \/ UNCHANGED <<fsm, datagram, retries, fsm_exec_list, fsm_exec_count,
                        fsm_slave>>
  <2>1. CASE fsm_datagram \in InFlight
    BY <2>1 DEF OperationThread, RtType
  <2>2. CASE fsm_datagram \notin InFlight
    BY <2>2 DEF OperationThread
  <2> QED
    BY <2>1, <2>2
<1>3. RtType'
  <2>1. passes' \in 0 .. MaxPasses
    BY <1>1, Constants DEF RtType
  <2> QED
    BY <1>1, <1>2, <2>1 DEF RtType
<1>4. /\ ListInv'
      /\ fsm' \in [Slaves -> {"none", "idle", "ready", "busy"}]
      /\ datagram' \in [Slaves -> Slots \cup {None}]
      /\ retries' \in [Slaves -> 0 .. MaxRetries]
      /\ fsm_exec_list' \in Seq(Slaves)
      /\ fsm_exec_count' \in 0 .. RingSize \div 2
      /\ fsm_slave' \in Slaves
      /\ \A s \in Slaves : /\ Listed(s)' => fsm'[s] = "busy"
                           /\ fsm'[s] = "busy" /\ datagram'[s] # None => Listed(s)'
  <2>1. CASE ReplaceSlaves("none") \/ ReplaceSlaves("idle")
    <3>1. PICK state \in {"none", "idle"} : ReplaceSlaves(state)
      BY <2>1
    <3>2. /\ fsm_exec_list' = <<>> /\ fsm_exec_count' = 0 /\ fsm_slave' = 0
          /\ fsm' = [s \in Slaves |-> state] /\ datagram' = [s \in Slaves |-> None]
          /\ retries' = [s \in Slaves |-> 0]
      BY <3>1 DEF ReplaceSlaves
    <3>3. Len(fsm_exec_list') = 0 /\ fsm_exec_list' \in Seq(Slaves)
      BY <3>2
    <3>4. ListInv' /\ \A s \in Slaves : ~Listed(s)'
      BY <3>2, <3>3 DEF ListInv, Listed
    <3> QED
      BY <3>2, <3>3, <3>4, Constants
  <2>2. CASE SetReady
    <3>1. /\ fsm' = [s \in Slaves |-> IF fsm[s] = "idle" THEN "ready" ELSE fsm[s]]
          /\ UNCHANGED <<datagram, retries, fsm_exec_list, fsm_exec_count, fsm_slave>>
      BY <2>2 DEF SetReady
    <3>2. ListInv' /\ \A s : Listed(s)' <=> Listed(s)
      BY <3>1, SameList DEF OpInv
    <3>3. fsm' \in [Slaves -> {"none", "idle", "ready", "busy"}]
          /\ \A s \in Slaves : fsm'[s] = "busy" <=> fsm[s] = "busy"
      BY <3>1 DEF OpInv, OpType
    <3>4. \A s \in Slaves : /\ Listed(s) => fsm[s] = "busy"
                            /\ fsm[s] = "busy" /\ datagram[s] # None => Listed(s)
      BY <1>1 DEF OpInv, BusyInv
    <3> QED
      BY <3>1, <3>2, <3>3, <3>4 DEF OpInv, OpType
  <2>3. CASE UNCHANGED <<fsm, datagram, retries, fsm_exec_list, fsm_exec_count,
                         fsm_slave>>
    <3>1. ListInv' /\ \A s : Listed(s)' <=> Listed(s)
      BY <2>3, SameList DEF OpInv
    <3>2. \A s \in Slaves : /\ Listed(s) => fsm[s] = "busy"
                            /\ fsm[s] = "busy" /\ datagram[s] # None => Listed(s)
      BY <1>1 DEF OpInv, BusyInv
    <3> QED
      BY <2>3, <3>1, <3>2 DEF OpInv, OpType
  <2> QED
    BY <1>2, <2>1, <2>2, <2>3
<1>5. OpType'
  BY <1>1, <1>4, Constants DEF OpInv, OpType
<1>6. BusyInv'
  BY <1>4 DEF BusyInv
<1>7. TodoInv' /\ AdvanceInv'
  BY <1>1, <1>4 DEF TodoInv, AdvanceInv, ListInv, Listed
<1> QED
  BY <1>3, <1>4, <1>5, <1>6, <1>7 DEF OpInv

\* A state machine is dropped, without a datagram or at the end of its request.
LEMMA ListZeroDatagramInv ==
    ASSUME Inv, ListZeroDatagram
    PROVE  Inv'
<1> USE DEF Inv, OpInv
<1> DEFINE h == Head(todo)
<1>1. /\ op = "list" /\ todo # <<>> /\ datagram[h] = None /\ Unlist(h)
      /\ op' = "sleep"
      /\ UNCHANGED <<slot, data_size, age, fsm, datagram, retries, fsm_slave, todo, count,
                     ext_ring_idx_fsm, rt, queue_size, ext_ring_idx_rt, inject,
                     fsm_datagram, passes>>
  BY DEF ListZeroDatagram, ringvars, rtvars
<1>2. h \in Slaves
  BY <1>1, TodoTail
<1> HIDE DEF h
<1>3. /\ fsm_exec_list' \in Seq(Slaves)
      /\ fsm_exec_count' \in 0 .. RingSize \div 2
      /\ ListInv' /\ \A t \in Slaves : Listed(t)' <=> Listed(t) /\ t # h
  BY <1>1, <1>2, UnlistInv
<1>4. RtType'
  BY <1>1 DEF RtType
<1>5. OpType'
  BY <1>1, <1>3 DEF OpType
<1>6. BusyInv'
  BY <1>1, <1>3 DEF BusyInv
<1>7. TodoInv' /\ AdvanceInv'
  BY <1>1 DEF TodoInv, AdvanceInv
<1> QED
  BY <1>3, <1>4, <1>5, <1>6, <1>7

LEMMA ListFinishInv ==
    ASSUME Inv, ListFinish
    PROVE  Inv'
<1> USE DEF Inv, OpInv
<1> DEFINE h == Head(todo)
<1>1. /\ op = "list" /\ op' = op /\ todo # <<>> /\ Unlist(h) /\ todo' = Tail(todo)
      /\ fsm' = [fsm EXCEPT ![h] = "ready"]
      /\ datagram' = [datagram EXCEPT ![h] = None]
      /\ retries' = [retries EXCEPT ![h] = 0]
      /\ UNCHANGED <<slot, data_size, age, fsm_slave, count,
                     ext_ring_idx_fsm, rt, queue_size, ext_ring_idx_rt, inject,
                     fsm_datagram, passes>>
  BY DEF ListFinish, ringvars, rtvars
<1>2. /\ h \in Slaves /\ todo' \in Seq(Slaves)
      /\ \A i \in 1 .. Len(todo') :
            Listed(todo'[i]) /\ todo'[i] # h /\ todo'[i] \in Slaves
      /\ \A i, j \in 1 .. Len(todo') : todo'[i] = todo'[j] => i = j
  BY <1>1, TodoTail
<1> HIDE DEF h
<1>3. /\ fsm_exec_list' \in Seq(Slaves)
      /\ fsm_exec_count' \in 0 .. RingSize \div 2
      /\ ListInv' /\ \A t \in Slaves : Listed(t)' <=> Listed(t) /\ t # h
  BY <1>1, <1>2, UnlistInv
<1>4. RtType'
  BY <1>1 DEF RtType
<1>5. OpType'
  <2>1. 0 \in 0 .. MaxRetries
    BY Constants
  <2> QED
    BY <1>1, <1>2, <1>3, <2>1 DEF OpType
<1>6. BusyInv'
  <2> SUFFICES ASSUME NEW s \in Slaves
               PROVE  /\ Listed(s)' => fsm'[s] = "busy"
                      /\ fsm'[s] = "busy" /\ datagram'[s] # None => Listed(s)'
    BY DEF BusyInv
  <2>1. CASE s = h
    BY <1>1, <1>2, <1>3, <2>1 DEF OpType
  <2>2. CASE s # h
    <3>1. fsm'[s] = fsm[s] /\ datagram'[s] = datagram[s] /\ (Listed(s)' <=> Listed(s))
      BY <1>1, <1>2, <1>3, <2>2 DEF OpType
    <3> QED
      BY <1>1, <3>1 DEF BusyInv
  <2> QED
    BY <2>1, <2>2
<1>7. TodoInv' /\ AdvanceInv'
  BY <1>1, <1>2, <1>3 DEF TodoInv, AdvanceInv
<1> QED
  BY <1>3, <1>4, <1>5, <1>6, <1>7

\* The pass ends or goes on to the search for new requests.
LEMMA ListEndInv ==
    ASSUME Inv, ListWait \/ ListDone \/ ScanDone
    PROVE  Inv'
<1> USE DEF Inv, OpInv
<1>1. /\ op' \in {"sleep", "scan"} /\ op # "scan_advance"
      /\ UNCHANGED <<slot, data_size, age, fsm, datagram, retries, fsm_exec_list,
                     fsm_exec_count, fsm_slave, todo, count, ext_ring_idx_fsm,
                     rt, queue_size, ext_ring_idx_rt, inject, fsm_datagram, passes>>
  BY DEF ListWait, ListDone, ScanDone, ringvars, rtvars
<1>2. ListInv' /\ \A s : Listed(s)' <=> Listed(s)
  BY <1>1, SameList
<1>3. RtType'
  BY <1>1 DEF RtType
<1>4. OpType'
  BY <1>1 DEF OpType
<1>5. BusyInv'
  BY <1>1, <1>2 DEF BusyInv
<1>6. TodoInv' /\ AdvanceInv'
  BY <1>1 DEF TodoInv, AdvanceInv
<1> QED
  BY <1>2, <1>3, <1>4, <1>5, <1>6

LEMMA ListContinueInv ==
    ASSUME Inv, ListContinue
    PROVE  Inv'
<1> USE DEF Inv, OpInv
<1> DEFINE h == Head(todo)
<1>1. /\ op = "list" /\ todo # <<>>
      /\ UNCHANGED <<fsm, fsm_exec_list, fsm_exec_count, fsm_slave, count,
                     ext_ring_idx_fsm, rt, queue_size, ext_ring_idx_rt, inject,
                     fsm_datagram, passes>>
  BY DEF ListContinue, rtvars
<1>2. h \in Slaves /\ Listed(h)
  BY <1>1, TodoTail
<1>3. ListInv' /\ \A s : Listed(s)' <=> Listed(s)
  BY <1>1, SameList
<1> HIDE DEF h
<1>4. CASE /\ PrepareSlot(h)
           /\ datagram' = [datagram EXCEPT ![h] = ext_ring_idx_fsm]
           /\ op' = "list_advance" /\ UNCHANGED todo
  <2>1. RtType'
    BY <1>1, <1>2, <1>4, PrepareSlotType DEF rtvars, OpType
  <2>2. OpType'
    <3>1. retries' \in [Slaves -> 0 .. MaxRetries]
      BY <1>1, <1>2, <1>4, PrepareSlotType DEF rtvars, OpType
    <3> QED
      BY <1>1, <1>4, <3>1 DEF OpType
  <2>3. BusyInv'
    BY <1>1, <1>2, <1>3, <1>4 DEF BusyInv, OpType
  <2>4. TodoInv' /\ AdvanceInv'
    BY <1>1, <1>3, <1>4 DEF TodoInv, AdvanceInv
  <2> QED
    BY <1>3, <2>1, <2>2, <2>3, <2>4
<1>5. CASE todo' = Tail(todo) /\ UNCHANGED <<ringvars, datagram, retries, op>>
  <2>1. RtType'
    BY <1>1, <1>5, RtUnchanged DEF rtvars
  <2>2. OpType'
    BY <1>1, <1>5, TodoTail DEF OpType
  <2>3. BusyInv'
    BY <1>1, <1>3, <1>5 DEF BusyInv
  <2>4. TodoInv' /\ AdvanceInv'
    BY <1>1, <1>3, <1>5, TodoTail DEF TodoInv, AdvanceInv
  <2> QED
    BY <1>3, <2>1, <2>2, <2>3, <2>4
<1> QED
  BY <1>4, <1>5 DEF ListContinue, h

\* Nothing is prepared, and the slot counts as used all the same.
LEMMA ListUnpreparedInv ==
    ASSUME Inv, ListUnprepared
    PROVE  Inv'
<1> USE DEF Inv, OpInv
<1> DEFINE h == Head(todo)
<1>1. /\ op = "list" /\ op' = "list_advance" /\ todo # <<>>
      /\ datagram[h] # None /\ retries[h] > 0
      /\ datagram' = [datagram EXCEPT ![h] = ext_ring_idx_fsm]
      /\ retries' = [retries EXCEPT ![h] = @ - 1]
      /\ UNCHANGED <<slot, data_size, age, fsm, fsm_exec_list, fsm_exec_count,
                     fsm_slave, todo, count, ext_ring_idx_fsm, rt, queue_size,
                     ext_ring_idx_rt, inject, fsm_datagram, passes>>
  BY DEF ListUnprepared, ringvars, rtvars
<1>2. h \in Slaves /\ Listed(h)
  BY <1>1, TodoTail
<1>3. ListInv' /\ \A s : Listed(s)' <=> Listed(s)
  BY <1>1, SameList
<1> HIDE DEF h
<1>4. RtType'
  BY <1>1 DEF RtType
<1>5. OpType'
  <2>1. retries[h] - 1 \in 0 .. MaxRetries
    BY <1>1, <1>2, Constants DEF OpType
  <2> QED
    BY <1>1, <2>1 DEF OpType
<1>6. BusyInv'
  BY <1>1, <1>2, <1>3 DEF BusyInv, OpType
<1>7. TodoInv' /\ AdvanceInv'
  BY <1>1, <1>3 DEF TodoInv, AdvanceInv
<1> QED
  BY <1>3, <1>4, <1>5, <1>6, <1>7

LEMMA ListAdvanceInv ==
    ASSUME Inv, ListAdvance
    PROVE  Inv'
<1> USE DEF Inv, OpInv
<1>1. /\ op = "list_advance" /\ op' = "list" /\ todo' = Tail(todo)
      /\ ext_ring_idx_fsm' = Next1(ext_ring_idx_fsm)
      /\ UNCHANGED <<slot, data_size, age, fsm, datagram, retries, fsm_exec_list,
                     fsm_exec_count, fsm_slave, count, rt, queue_size,
                     ext_ring_idx_rt, inject, fsm_datagram, passes>>
  BY DEF ListAdvance, ringvars, rtvars
<1>2. todo # <<>>
  BY <1>1 DEF TodoInv
<1>3. ListInv' /\ \A s : Listed(s)' <=> Listed(s)
  BY <1>1, SameList
<1>4. RtType'
  BY <1>1 DEF RtType
<1>5. OpType'
  BY <1>1, <1>2, TodoTail, Constants DEF OpType
<1>6. BusyInv'
  BY <1>1, <1>3 DEF BusyInv
<1>7. TodoInv' /\ AdvanceInv'
  BY <1>1, <1>2, <1>3, TodoTail DEF TodoInv, AdvanceInv
<1> QED
  BY <1>3, <1>4, <1>5, <1>6, <1>7

\* There are more slaves to look at.
LEMMA MoreSlaves ==
    ASSUME Inv, More
    PROVE  fsm_exec_count < RingSize \div 2 /\ count < NumSlaves
  BY Constants DEF More, slave_count, Inv, OpInv, OpType

LEMMA ScanNextInv ==
    ASSUME Inv, ScanNext
    PROVE  Inv'
<1> USE DEF Inv, OpInv
<1>1. /\ op = "scan" /\ op' = op /\ count' = count + 1
      /\ fsm_slave' = (fsm_slave + 1) % NumSlaves
      /\ \/ UNCHANGED fsm
         \/ /\ fsm[fsm_slave] = "ready"
            /\ fsm' = [fsm EXCEPT ![fsm_slave] = "idle"]
      /\ UNCHANGED <<slot, data_size, age, datagram, retries, fsm_exec_list,
                     fsm_exec_count, todo, ext_ring_idx_fsm, rt, queue_size, ext_ring_idx_rt,
                     inject, fsm_datagram, passes>>
  BY DEF ScanNext, NextSlave, ringvars, rtvars
<1>2. count < NumSlaves
  BY MoreSlaves DEF ScanNext
<1>3. ListInv' /\ \A s : Listed(s)' <=> Listed(s)
  BY <1>1, SameList
<1>4. RtType'
  BY <1>1 DEF RtType
<1>5. fsm' \in [Slaves -> {"none", "idle", "ready", "busy"}]
      /\ \A s \in Slaves : fsm'[s] = "busy" <=> fsm[s] = "busy"
  BY <1>1 DEF OpType
<1>6. OpType'
  <2>1. count' \in 0 .. NumSlaves /\ fsm_slave' \in Slaves
    BY <1>1, <1>2, Constants DEF OpType
  <2> QED
    BY <1>1, <1>5, <2>1 DEF OpType
<1>7. BusyInv'
  BY <1>1, <1>3, <1>5 DEF BusyInv
<1>8. TodoInv' /\ AdvanceInv'
  BY <1>1 DEF TodoInv, AdvanceInv
<1> QED
  BY <1>3, <1>4, <1>6, <1>7, <1>8

\* A state machine is started ...
LEMMA ScanStartInv ==
    ASSUME Inv, ScanStart
    PROVE  Inv'
<1> USE DEF Inv, OpInv
<1>1. /\ op = "scan" /\ op' = "scan_advance" /\ fsm[fsm_slave] = "ready"
      /\ fsm' = [fsm EXCEPT ![fsm_slave] = "busy"]
      /\ datagram' = [datagram EXCEPT ![fsm_slave] =
                         IF FreeDatagram THEN ext_ring_idx_fsm ELSE None]
      /\ PrepareSlot(fsm_slave) \/ UNCHANGED <<ringvars, retries>>
      /\ UNCHANGED <<fsm_exec_list, fsm_exec_count, fsm_slave, todo, count,
                     ext_ring_idx_fsm, rt, queue_size, ext_ring_idx_rt,
                     inject, fsm_datagram, passes>>
  BY DEF ScanStart, rtvars
<1>2. fsm_exec_count < RingSize \div 2 /\ count < NumSlaves
  BY MoreSlaves DEF ScanStart
<1>3. fsm_slave \in Slaves /\ ext_ring_idx_fsm \in Slots
  BY DEF OpType
<1>4. ListInv' /\ \A s : Listed(s)' <=> Listed(s)
  BY <1>1, SameList
<1>5. RtType'
  BY <1>1, <1>3, PrepareSlotType, RtUnchanged DEF rtvars
<1>6. OpType'
  <2>1. fsm' \in [Slaves -> {"none", "idle", "ready", "busy"}]
    BY <1>1 DEF OpType
  <2>2. datagram' \in [Slaves -> Slots \cup {None}]
    BY <1>1, <1>3 DEF OpType
  <2>3. retries' \in [Slaves -> 0 .. MaxRetries]
    BY <1>1, <1>3, PrepareSlotType DEF rtvars, OpType
  <2> QED
    BY <1>1, <2>1, <2>2, <2>3 DEF OpType
<1>7. BusyInv'
  <2> SUFFICES ASSUME NEW s \in Slaves
               PROVE  /\ Listed(s)' => fsm'[s] = "busy"
                      /\ fsm'[s] = "busy" /\ datagram'[s] # None =>
                            Listed(s)' \/ s = fsm_slave
    BY <1>1 DEF BusyInv
  <2>1. CASE s = fsm_slave
    BY <1>1, <2>1 DEF OpType
  <2>2. CASE s # fsm_slave
    <3>1. fsm'[s] = fsm[s] /\ datagram'[s] = datagram[s] /\ (Listed(s)' <=> Listed(s))
      BY <1>1, <1>4, <2>2 DEF OpType
    <3> QED
      BY <1>1, <3>1 DEF BusyInv
  <2> QED
    BY <2>1, <2>2
<1>8. AdvanceInv'
  <2>1. fsm'[fsm_slave] = "busy"
    BY <1>1, <1>3 DEF OpType
  <2>2. ~Listed(fsm_slave)
    BY <1>1, <1>3 DEF BusyInv
  <2> QED
    BY <1>1, <1>2, <1>4, <2>1, <2>2 DEF AdvanceInv
<1>9. TodoInv'
  BY <1>1 DEF TodoInv
<1> QED
  BY <1>4, <1>5, <1>6, <1>7, <1>8, <1>9

\* ... and listed.
LEMMA ScanAdvanceInv ==
    ASSUME Inv, ScanAdvance
    PROVE  Inv'
<1> USE DEF Inv, OpInv
<1>1. /\ op = "scan_advance" /\ op' = "scan"
      /\ ext_ring_idx_fsm' = Next1(ext_ring_idx_fsm)
      /\ fsm_exec_list' = Append(fsm_exec_list, fsm_slave)
      /\ fsm_exec_count' = fsm_exec_count + 1
      /\ count' = count + 1 /\ fsm_slave' = (fsm_slave + 1) % NumSlaves
      /\ UNCHANGED <<slot, data_size, age, fsm, datagram, retries, todo, rt, queue_size,
                     ext_ring_idx_rt, inject, fsm_datagram, passes>>
  BY DEF ScanAdvance, NextSlave, ringvars, rtvars
<1>2. /\ fsm[fsm_slave] = "busy" /\ ~Listed(fsm_slave)
      /\ fsm_exec_count < RingSize \div 2 /\ count < NumSlaves
  BY <1>1 DEF AdvanceInv
<1>3. fsm_slave \in Slaves /\ fsm_exec_list \in Seq(Slaves)
  BY DEF OpType
<1>4. /\ fsm_exec_list' \in Seq(Slaves)
      /\ Len(fsm_exec_list') = Len(fsm_exec_list) + 1 /\ Len(fsm_exec_list) \in Nat
      /\ \A i \in 1 .. Len(fsm_exec_list) : fsm_exec_list'[i] = fsm_exec_list[i]
      /\ fsm_exec_list'[Len(fsm_exec_list) + 1] = fsm_slave
  BY <1>1, <1>3
<1>5. \A s \in Slaves : Listed(s)' <=> Listed(s) \/ s = fsm_slave
  BY <1>4 DEF Listed
<1>6. ListInv'
  <2>1. Len(fsm_exec_list') = fsm_exec_count'
    BY <1>1, <1>4 DEF ListInv
  <2>2. \A i, j \in 1 .. Len(fsm_exec_list') :
           fsm_exec_list'[i] = fsm_exec_list'[j] => i = j
    BY <1>2, <1>4 DEF ListInv, Listed
  <2> QED
    BY <2>1, <2>2 DEF ListInv
<1>7. RtType'
  BY <1>1 DEF RtType
<1>8. OpType'
  <2>1. count' \in 0 .. NumSlaves /\ fsm_slave' \in Slaves
    BY <1>1, <1>2, Constants DEF OpType
  <2>2. fsm_exec_count' \in 0 .. RingSize \div 2 /\ ext_ring_idx_fsm' \in Slots
    BY <1>1, <1>2, Constants DEF OpType
  <2> QED
    BY <1>1, <1>4, <2>1, <2>2 DEF OpType
<1>9. BusyInv'
  BY <1>1, <1>2, <1>5 DEF BusyInv
<1>10. TodoInv' /\ AdvanceInv'
  BY <1>1 DEF TodoInv, AdvanceInv
<1> QED
  BY <1>6, <1>7, <1>8, <1>9, <1>10

-----------------------------------------------------------------------------
LEMMA NextInv ==
    ASSUME Inv, [Next]_vars
    PROVE  Inv'
<1>1. CASE OperationThread
  BY <1>1, OperationThreadInv
<1>2. CASE ExecSlaveFsms
  BY <1>2, ListZeroDatagramInv, ListEndInv, ListContinueInv, ListUnpreparedInv,
     ListAdvanceInv, ListFinishInv, ScanNextInv, ScanStartInv, ScanAdvanceInv DEF ExecSlaveFsms
<1>3. CASE Application \/ ReceiveMaster \/ \E i \in Slots : ReceiveSlot(i)
  BY <1>3, ApplicationInv
<1>4. CASE UNCHANGED vars
  <2>1. UNCHANGED opvars /\ UNCHANGED <<ringvars, rtvars, inject, fsm_datagram, passes>>
    BY <1>4 DEF vars
  <2> QED
    BY <2>1, OpUnchanged, RtUnchanged DEF Inv
<1> QED
  BY <1>1, <1>2, <1>3, <1>4 DEF Next

LEMMA Invariant == Spec => []Inv
<1>1. Init => Inv
  BY InitInv
<1>2. Inv /\ [Next]_vars => Inv'
  BY NextInv
<1> QED
  BY <1>1, <1>2, PTL DEF Spec

-----------------------------------------------------------------------------
(* The theorems. *)

\* Every variable has its type: the indices stay in the ring, the count of the
\* executed state machines below half of its size, and the application queues
\* no more than fits beside its own load.
THEOREM TypeCorrect == Spec => []TypeOK
<1>1. Inv => TypeOK
  BY DEF Inv, OpInv, RtType, OpType, TypeOK, DataSizes
<1> QED
  BY <1>1, Invariant, PTL

\* The list of the state machines to be executed holds each busy one with a
\* datagram once and no other, whatever the application does in between and
\* whichever state machines finish, fail or find no free datagram.
THEOREM ListIntact == Spec => []ExecListIntact
<1>1. Inv => ExecListIntact
  <2> SUFFICES ASSUME Inv, op # "scan_advance" PROVE ExecListIntact
    BY DEF ExecListIntact
  <2>1. \A i \in 1 .. Len(fsm_exec_list) : fsm_exec_list[i] \in Slaves
    BY DEF Inv, OpInv, OpType
  <2>2. \A i \in 1 .. Len(fsm_exec_list) : fsm[fsm_exec_list[i]] = "busy"
    BY <2>1 DEF Inv, OpInv, BusyInv, Listed
  <2>3. \A s \in Slaves : fsm[s] = "busy" /\ datagram[s] # None => Listed(s)
    BY DEF Inv, OpInv, BusyInv
  <2> QED
    BY <2>2, <2>3 DEF Inv, OpInv, ListInv, ExecListIntact, Listed
<1> QED
  BY <1>1, Invariant, PTL
=============================================================================
