------------------------- MODULE DatagramQueue_proof -------------------------
(***************************************************************************)
(* Proofs about DatagramQueue, for every set of datagrams, any number of   *)
(* devices and any index width: the type invariant, the integrity of the   *)
(* queue, the matching of answers, and the refinement of DatagramLife.     *)
(***************************************************************************)
EXTENDS DatagramQueue, TLAPS

-----------------------------------------------------------------------------
(* The inductive invariant. *)

NoDuplicates(q) == \A i, j \in 1 .. Len(q) : q[i] = q[j] => i = j

\* The frame under construction holds linked datagrams, each once and queued
\* unless it was re-initialised; it exists only while ecrt_master_send() serves
\* a device with a link, and its headers carry the datagrams' indexes unless
\* these are no longer counted.
FrameInv ==
    /\ NoDuplicates(frame)
    /\ \A d \in Elems(frame) :
          /\ InQueue(d)
          /\ state[d] = "QUEUED" \/ (d \in Clocks /\ state[d] = "INIT")
          /\ lag[d] < IndexModulus => header[d] = index[d]
    /\ frame # <<>> => pc = "send" /\ link_state[dev]

\* A received frame is processed within the poll that delivered it.
RxInv == rx # <<>> => pc \in {"poll", "linkpoll"}

\* The index that was given out n + 1 headers ago, when top is the next one.
Back(top, n) == IF top > n THEN top - n - 1 ELSE top + IndexModulus - n - 1

\* The headers that may still be read: on the wire or being processed.
Outstanding ==
    UNION {{f[k] : k \in 1 .. Len(f)} : f \in wire \cup {rx}}

\* A header carries the index its age says, and one age belongs to one
\* header only, as long as the count is not lost.
LagInv ==
    /\ \A d \in Datagrams :
          Live(d) /\ lag[d] < IndexModulus
          => index[d] = Back(datagram_index, lag[d])
    /\ \A it \in Outstanding :
          it.lag < IndexModulus => it.index = Back(datagram_index, it.lag)
    /\ \A d, e \in Datagrams :
          Live(d) /\ Live(e) /\ lag[d] = lag[e] /\ lag[d] < IndexModulus => d = e
    /\ \A d \in Datagrams : \A it \in Outstanding :
          Live(d) /\ it.lag = lag[d] /\ lag[d] < IndexModulus => it.dg = d

\* Before the first overrun every count is exact.
CountInv ==
    ~overrun => /\ \A d \in Datagrams : Live(d) => lag[d] < IndexModulus
                /\ \A it \in Outstanding : it.lag < IndexModulus

\* ecrt_master_send() has nothing queued for the devices it is done with.
SendInv ==
    /\ pc \in {"send", "linkpoll"} =>
          \A d \in Datagrams : state[d] = "QUEUED" => DeviceIndex[d] >= dev
    /\ pc = "linkpoll" =>
          \A d \in Datagrams : state[d] = "QUEUED" => DeviceIndex[d] # dev

IInv ==
    /\ QueueMembership
    /\ FrameInv
    /\ RxInv
    /\ LagInv
    /\ CountInv
    /\ OwnAnswer
    /\ SendInv

-----------------------------------------------------------------------------
(* Lemmas about the removal of an element from a sequence. *)

\* Removing one entry of a duplicate-free queue removes exactly one datagram.
LEMMA WithoutProperties ==
    ASSUME NEW D, NEW q \in Seq(D), NEW i \in 1 .. Len(q)
    PROVE  /\ Without(q, i) \in Seq(D)
           /\ Len(Without(q, i)) = Len(q) - 1
           /\ NoDuplicates(q)
              => /\ NoDuplicates(Without(q, i))
                 /\ Elems(Without(q, i)) = Elems(q) \ {q[i]}
<1> DEFINE w == Without(q, i)
<1>1. w \in Seq(D) /\ Len(w) = Len(q) - 1
  BY DEF Without
<1>2. \A k \in 1 .. Len(q) - 1 : w[k] = IF k < i THEN q[k] ELSE q[k + 1]
  BY DEF Without
<1>3. ASSUME NoDuplicates(q)
      PROVE  /\ NoDuplicates(w)
             /\ Elems(w) = Elems(q) \ {q[i]}
  <2> USE DEF NoDuplicates
  <2>1. NoDuplicates(w)
    BY <1>1, <1>2, <1>3
  <2>2. ASSUME NEW k \in 1 .. Len(w) PROVE w[k] \in Elems(q) \ {q[i]}
    BY <1>1, <1>2, <1>3 DEF Elems
  <2>3. ASSUME NEW j \in 1 .. Len(q), q[j] # q[i]
        PROVE  \E k \in 1 .. Len(w) : w[k] = q[j]
    <3>1. CASE j < i
      BY <3>1, <1>1, <1>2
    <3>2. CASE j > i
      <4>1. j - 1 \in 1 .. Len(w) /\ w[j - 1] = q[j]
        BY <3>2, <1>1, <1>2
      <4> QED BY <4>1
    <3> QED BY <3>1, <3>2, <2>3
  <2> QED BY <2>1, <2>2, <2>3 DEF Elems
<1> QED BY <1>1, <1>3

\* Appending a datagram that is not in a duplicate-free queue.
LEMMA AppendProperties2 ==
    ASSUME NEW D, NEW q \in Seq(D), NEW d \in D
    PROVE  /\ Append(q, d) \in Seq(D)
           /\ Elems(Append(q, d)) = Elems(q) \cup {d}
           /\ d \notin Elems(q) /\ NoDuplicates(q)
              => NoDuplicates(Append(q, d))
<1>1. Append(q, d) \in Seq(D) /\ Len(Append(q, d)) = Len(q) + 1
  OBVIOUS
<1>2. \A k \in 1 .. Len(q) + 1 :
         Append(q, d)[k] = IF k = Len(q) + 1 THEN d ELSE q[k]
  OBVIOUS
<1> HIDE DEF Elems
<1>3. Elems(Append(q, d)) = Elems(q) \cup {d}
  BY <1>1, <1>2 DEF Elems
<1> QED BY <1>1, <1>2, <1>3 DEF Elems, NoDuplicates

-----------------------------------------------------------------------------
(* Type correctness. *)

LEMMA EnterTyped ==
    ASSUME TypeOK, NEW d \in Datagrams, NEW s \in States, Enter(d, s)
    PROVE  /\ state' \in [Datagrams -> States]
           /\ age' \in [Datagrams -> 0 .. Timeout + 1]
           /\ lag' \in [Datagrams -> 0 .. IndexModulus]
  BY QueueAssumption DEF QueueAssumption, TypeOK, Enter

LEMMA OlderFrameTyped ==
    ASSUME NEW f \in Seq(Items)
    PROVE  /\ OlderFrame(f) \in Seq(Items)
           /\ Len(OlderFrame(f)) = Len(f)
           /\ \A k \in 1 .. Len(f) :
                 OlderFrame(f)[k] = [f[k] EXCEPT !.lag = Older(f[k].lag)]
<1> USE QueueAssumption DEF QueueAssumption
<1>1. ASSUME NEW it \in Items
      PROVE  [it EXCEPT !.lag = Older(it.lag)] \in Items
  <2>1. \A n \in 0 .. IndexModulus : Older(n) \in 0 .. IndexModulus
    BY DEF Older
  <2> HIDE DEF Older
  <2>2. Older(it.lag) \in 0 .. IndexModulus
    BY <2>1 DEF Items
  <2> QED BY <2>2 DEF Items
<1>2. \A k \in 1 .. Len(f) : f[k] \in Items
  OBVIOUS
<1> QED BY <1>1, <1>2 DEF OlderFrame

LEMMA TypeInit == Init => TypeOK
<1> SUFFICES ASSUME Init PROVE TypeOK
  OBVIOUS
<1> USE QueueAssumption DEF QueueAssumption, Init
<1>1. /\ 0 \in 0 .. IndexModulus - 1 /\ 0 \in 0 .. IndexModulus
      /\ 0 \in 0 .. Timeout + 1 /\ 0 \in Devices /\ 0 \in 0 .. FrameCapacity
  BY DEF Devices
<1>2. /\ datagram_queue \in Seq(Datagrams) /\ frame \in Seq(Datagrams)
      /\ rx \in Seq(Items) /\ wire \subseteq Seq(Items)
  OBVIOUS
<1> QED BY <1>1, <1>2 DEF TypeOK, States

LEMMA TypeStep == TypeOK /\ [Next]_vars => TypeOK'
<1> SUFFICES ASSUME TypeOK, [Next]_vars PROVE TypeOK'
  OBVIOUS
<1> USE QueueAssumption DEF QueueAssumption
<1>1. ASSUME NEW d \in Datagrams, Prepare(d) PROVE TypeOK'
  <2>1. Enter(d, "INIT") /\ "INIT" \in States
    BY <1>1 DEF Prepare, States
  <2>2. /\ state' \in [Datagrams -> States]
        /\ age' \in [Datagrams -> 0 .. Timeout + 1]
        /\ lag' \in [Datagrams -> 0 .. IndexModulus]
    BY <2>1, EnterTyped
  <2>3. /\ index' \in [Datagrams -> 0 .. IndexModulus - 1]
        /\ answer' \in [Datagrams -> {"none", "own", "foreign"}]
    BY <1>1 DEF TypeOK, Prepare
  <2> QED BY <1>1, <2>2, <2>3 DEF TypeOK, Prepare, ovars, fvars
<1>1a. ASSUME NEW d \in Datagrams, Reinit(d) PROVE TypeOK'
  <2>1. 0 \in 0 .. IndexModulus - 1 /\ 0 \in 0 .. Timeout + 1
        /\ IndexModulus \in 0 .. IndexModulus /\ 0 \in 0 .. IndexModulus
    OBVIOUS
  <2>2. /\ state' \in [Datagrams -> States]
        /\ age' \in [Datagrams -> 0 .. Timeout + 1]
        /\ index' \in [Datagrams -> 0 .. IndexModulus - 1]
        /\ answer' \in [Datagrams -> {"none", "own", "foreign"}]
    BY <1>1a, <2>1 DEF Reinit, TypeOK, States
  <2>3. /\ lag' \in [Datagrams -> 0 .. IndexModulus]
        /\ header' \in [Datagrams -> 0 .. IndexModulus - 1]
        /\ overrun' \in BOOLEAN
    BY <1>1a, <2>1 DEF Reinit, TypeOK
  <2> QED BY <1>1a, <2>2, <2>3 DEF TypeOK, Reinit, ovars
<1>2. ASSUME NEW d \in Datagrams, Queue(d) PROVE TypeOK'
  <2>1. Enter(d, "QUEUED")
    BY <1>2 DEF Queue, QueueDatagram
  <2>2. /\ state' \in [Datagrams -> States]
        /\ age' \in [Datagrams -> 0 .. Timeout + 1]
        /\ lag' \in [Datagrams -> 0 .. IndexModulus]
    BY <2>1, EnterTyped DEF States
  <2>3. datagram_queue' \in Seq(Datagrams)
    BY <1>2, AppendProperties2 DEF TypeOK, Queue, QueueDatagram
  <2> QED BY <1>2, <2>2, <2>3 DEF TypeOK, Queue, ovars, fvars
<1>3. ASSUME NEW d \in Datagrams, Recreate(d) PROVE TypeOK'
  <2>1. datagram_queue' \in Seq(Datagrams)
    <3>1. CASE InQueue(d)
      <4>1. PICK i \in 1 .. Len(datagram_queue) :
               datagram_queue' = Without(datagram_queue, i)
        BY <3>1, <1>3 DEF Recreate, InQueue, Elems
      <4> QED BY <4>1, WithoutProperties DEF TypeOK
    <3> QED BY <3>1, <1>3 DEF Recreate, TypeOK
  <2>2. Enter(d, "INIT") /\ "INIT" \in States
    BY <1>3 DEF Recreate, States
  <2>3. /\ state' \in [Datagrams -> States]
        /\ age' \in [Datagrams -> 0 .. Timeout + 1]
        /\ lag' \in [Datagrams -> 0 .. IndexModulus]
    BY <2>2, EnterTyped
  <2>4. /\ index' \in [Datagrams -> 0 .. IndexModulus - 1]
        /\ answer' \in [Datagrams -> {"none", "own", "foreign"}]
    BY <1>3 DEF TypeOK, Recreate
  <2> QED BY <1>3, <2>1, <2>3, <2>4 DEF TypeOK, Recreate, ovars, fvars
<1>4. CASE ReceiveBegin
  BY <1>4 DEF TypeOK, ReceiveBegin, qvars, fvars, hvars, Devices
<1>5. CASE SendBegin
  BY <1>5 DEF TypeOK, SendBegin, qvars, fvars, hvars, Devices
<1>6. CASE PollFrame
  BY <1>6 DEF TypeOK, PollFrame, qvars, ovars, hvars
<1>7. CASE SetLink
  BY <1>7 DEF TypeOK, SetLink, qvars, fvars, hvars
<1>8. CASE LoseFrame
  BY <1>8 DEF TypeOK, LoseFrame, qvars, ovars, hvars
<1>9. CASE Tick
  <2>1. age' \in [Datagrams -> 0 .. Timeout + 1]
    BY <1>9 DEF TypeOK, Tick
  <2> QED BY <2>1, <1>9 DEF TypeOK, Tick, ovars, fvars, hvars
<1>10. CASE ReceiveDatagram
  <2>1. PICK i \in 1 .. Len(datagram_queue) :
           /\ Enter(datagram_queue[i], "RECEIVED")
           /\ datagram_queue' = Without(datagram_queue, i)
           /\ answer' = [answer EXCEPT ![datagram_queue[i]] =
                 IF Head(rx).dg = datagram_queue[i]
                    /\ Head(rx).lag = lag[datagram_queue[i]]
                 THEN "own" ELSE "foreign"]
    BY <1>10 DEF ReceiveDatagram
  <2>2. datagram_queue[i] \in Datagrams
    BY DEF TypeOK
  <2>3. datagram_queue' \in Seq(Datagrams)
    BY <2>1, WithoutProperties DEF TypeOK
  <2>4. answer' \in [Datagrams -> {"none", "own", "foreign"}]
    BY <2>1, <2>2 DEF TypeOK
  <2>5. rx' \in Seq(Items)
    BY <1>10 DEF ReceiveDatagram, TypeOK
  <2> QED BY <1>10, <2>1, <2>2, <2>3, <2>4, <2>5, EnterTyped
          DEF TypeOK, ReceiveDatagram, States, ovars
<1>11. CASE ReceiveUnmatched
  BY <1>11 DEF TypeOK, ReceiveUnmatched, qvars, ovars, hvars
<1>12. CASE ReceiveCorrupted
  BY <1>12 DEF TypeOK, ReceiveCorrupted, qvars, ovars, hvars
<1>13. CASE PollDone
  BY <1>13 DEF TypeOK, PollDone, qvars, fvars, hvars, Devices
<1>14. CASE TimeoutDatagram
  <2>1. PICK i \in 1 .. Len(datagram_queue) :
           /\ Enter(datagram_queue[i], "TIMED_OUT")
           /\ datagram_queue' = Without(datagram_queue, i)
    BY <1>14 DEF TimeoutDatagram
  <2>2. datagram_queue[i] \in Datagrams /\ "TIMED_OUT" \in States
    BY DEF TypeOK, States
  <2>3. /\ state' \in [Datagrams -> States]
        /\ age' \in [Datagrams -> 0 .. Timeout + 1]
        /\ lag' \in [Datagrams -> 0 .. IndexModulus]
    BY <2>1, <2>2, EnterTyped
  <2>4. datagram_queue' \in Seq(Datagrams)
    BY <2>1, WithoutProperties DEF TypeOK
  <2> QED BY <1>14, <2>3, <2>4 DEF TypeOK, TimeoutDatagram, ovars, fvars
<1>15. CASE ReceiveEnd
  BY <1>15 DEF TypeOK, ReceiveEnd, qvars, fvars, hvars
<1>16. CASE FailDatagram
  <2>1. PICK i \in 1 .. Len(datagram_queue) :
           /\ Enter(datagram_queue[i], "ERROR")
           /\ datagram_queue' = Without(datagram_queue, i)
    BY <1>16 DEF FailDatagram
  <2>2. datagram_queue[i] \in Datagrams /\ "ERROR" \in States
    BY DEF TypeOK, States
  <2>3. /\ state' \in [Datagrams -> States]
        /\ age' \in [Datagrams -> 0 .. Timeout + 1]
        /\ lag' \in [Datagrams -> 0 .. IndexModulus]
    BY <2>1, <2>2, EnterTyped
  <2>4. datagram_queue' \in Seq(Datagrams)
    BY <2>1, WithoutProperties DEF TypeOK
  <2> QED BY <1>16, <2>3, <2>4 DEF TypeOK, FailDatagram, ovars, fvars
<1>17. CASE LinkPoll
  BY <1>17 DEF TypeOK, LinkPoll, qvars, fvars, hvars
<1>18. CASE LinkPollDone
  BY <1>18 DEF TypeOK, LinkPollDone, NextDevice, qvars, fvars, hvars, Devices
<1>19. CASE AddDatagram
  <2>1. PICK d \in Datagrams :
           /\ fill + Size[d] <= FrameCapacity
           /\ frame' = Append(frame, d)
           /\ fill' = fill + Size[d]
           /\ index' = [index EXCEPT ![d] = datagram_index]
           /\ header' = [header EXCEPT ![d] = datagram_index]
           /\ lag' = [e \in Datagrams |->
                         IF e = d THEN 0
                         ELSE IF Live(e) THEN Older(lag[e]) ELSE lag[e]]
    <3>1. PICK i \in 1 .. Len(datagram_queue) :
             LET d == datagram_queue[i] IN
                /\ fill + Size[d] <= FrameCapacity
                /\ frame' = Append(frame, d)
                /\ fill' = fill + Size[d]
                /\ index' = [index EXCEPT ![d] = datagram_index]
                /\ header' = [header EXCEPT ![d] = datagram_index]
                /\ lag' = [e \in Datagrams |->
                              IF e = d THEN 0
                              ELSE IF Live(e) THEN Older(lag[e]) ELSE lag[e]]
      BY <1>19 DEF AddDatagram
    <3>2. datagram_queue[i] \in Datagrams
      BY DEF TypeOK
    <3> QED BY <3>1, <3>2
  <2>2. \A n \in 0 .. IndexModulus : Older(n) \in 0 .. IndexModulus
    BY DEF Older
  <2>3. lag' \in [Datagrams -> 0 .. IndexModulus]
    <3>1. ASSUME NEW e \in Datagrams
          PROVE  lag'[e] \in 0 .. IndexModulus
      <4>1. lag[e] \in 0 .. IndexModulus /\ Older(lag[e]) \in 0 .. IndexModulus
        BY <2>2 DEF TypeOK
      <4>2. lag'[e] \in {0, lag[e], Older(lag[e])}
        BY <2>1
      <4> QED BY <4>1, <4>2
    <3>2. DOMAIN lag' = Datagrams /\ lag' = [e \in DOMAIN lag' |-> lag'[e]]
      BY <2>1
    <3> QED BY <3>1, <3>2
  <2>4. wire' \subseteq Seq(Items)
    BY <1>19, OlderFrameTyped DEF AddDatagram, TypeOK
  <2>5. frame' \in Seq(Datagrams) /\ fill' \in 0 .. FrameCapacity
    <3>1. frame' = Append(frame, d) /\ fill' = fill + Size[d]
          /\ fill + Size[d] <= FrameCapacity
      BY <2>1
    <3>2. Size[d] \in Nat /\ fill \in 0 .. FrameCapacity /\ frame \in Seq(Datagrams)
      BY DEF TypeOK
    <3> QED BY <3>1, <3>2
  <2>6. datagram_index' \in 0 .. IndexModulus - 1
    BY <1>19 DEF AddDatagram, SuccIndex, TypeOK
  <2>7. /\ index' \in [Datagrams -> 0 .. IndexModulus - 1]
        /\ header' \in [Datagrams -> 0 .. IndexModulus - 1]
    BY <2>1, <2>2 DEF TypeOK
  <2>8. overrun' \in BOOLEAN
    BY <1>19 DEF AddDatagram, TypeOK
  <2> QED BY <1>19, <2>3, <2>4, <2>5, <2>6, <2>7, <2>8
          DEF TypeOK, AddDatagram, ovars
<1>20. CASE TransmitFrame
  <2>1. FrameItems \in Seq(Items)
    BY DEF FrameItems, TypeOK, Items
  <2>2. wire' \subseteq Seq(Items)
    BY <2>1, <1>20 DEF TransmitFrame, TypeOK
  <2>3. /\ state' \in [Datagrams -> States]
        /\ age' \in [Datagrams -> 0 .. Timeout + 1]
    <3>1. state' \in [Datagrams -> States]
      BY <1>20 DEF TransmitFrame, TypeOK, States
    <3>2. 0 \in 0 .. Timeout + 1
      OBVIOUS
    <3>3. age' \in [Datagrams -> 0 .. Timeout + 1]
      BY <1>20, <3>2 DEF TransmitFrame, TypeOK
    <3> QED BY <3>1, <3>3
  <2>4. header' \in [Datagrams -> 0 .. IndexModulus - 1]
    BY <1>20 DEF TransmitFrame
  <2> QED BY <2>2, <2>3, <2>4, <1>20 DEF TypeOK, TransmitFrame, ovars, hvars
<1>21. CASE SendDone
  BY <1>21 DEF TypeOK, SendDone, NextDevice, qvars, fvars, hvars, Devices
<1>22. CASE UNCHANGED vars
  BY <1>22 DEF TypeOK, vars, qvars, ovars, fvars, hvars
<1> QED
  BY <1>1, <1>1a, <1>2, <1>3, <1>4, <1>5, <1>6, <1>7, <1>8, <1>9, <1>10, <1>11,
     <1>12, <1>13, <1>14, <1>15, <1>16, <1>17, <1>18, <1>19, <1>20, <1>21,
     <1>22 DEF Next, Owner, Progress

\* The type invariant of the datagram queue.
THEOREM TypeCorrect == Spec => []TypeOK
  BY TypeInit, TypeStep, PTL DEF Spec

-----------------------------------------------------------------------------
(* The queue holds the queued and sent datagrams, each once. *)

LEMMA QueueMembershipForm ==
    QueueMembership <=>
        /\ NoDuplicates(datagram_queue)
        /\ \A d \in Datagrams :
              IF state[d] \in {"QUEUED", "SENT"} THEN d \in Elems(datagram_queue)
              ELSE d \in Elems(datagram_queue)
                   => d \in Clocks /\ state[d] = "INIT"
  BY DEF QueueMembership, NoDuplicates, InQueue

\* Unlinking a datagram together with its change to a settled state.
LEMMA Unlink ==
    ASSUME TypeOK, QueueMembership,
           NEW i \in 1 .. Len(datagram_queue),
           datagram_queue' = Without(datagram_queue, i),
           NEW s \in States \ {"QUEUED", "SENT"},
           Enter(datagram_queue[i], s)
    PROVE  QueueMembership'
<1>1. datagram_queue[i] \in Datagrams
  BY DEF TypeOK
<1>2. /\ NoDuplicates(datagram_queue')
      /\ Elems(datagram_queue') = Elems(datagram_queue) \ {datagram_queue[i]}
  <2>1. datagram_queue \in Seq(Datagrams) /\ NoDuplicates(datagram_queue)
    BY QueueMembershipForm DEF TypeOK
  <2> QED BY <2>1, WithoutProperties
<1>3. \A d \in Datagrams :
         state'[d] = IF d = datagram_queue[i] THEN s ELSE state[d]
  BY <1>1 DEF Enter, TypeOK
<1> QED BY <1>1, <1>2, <1>3, QueueMembershipForm
        DEF QueueMembership, NoDuplicates, InQueue

LEMMA MembershipStep ==
    TypeOK /\ QueueMembership /\ FrameInv /\ [Next]_vars => QueueMembership'
<1> SUFFICES ASSUME TypeOK, QueueMembership, FrameInv, [Next]_vars
             PROVE  QueueMembership'
  OBVIOUS
<1> USE DEF States
<1>1. ASSUME NEW d \in Datagrams, Prepare(d) PROVE QueueMembership'
  BY <1>1 DEF TypeOK, QueueMembership, InQueue, Prepare, Enter
<1>1a. ASSUME NEW d \in Datagrams, Reinit(d) PROVE QueueMembership'
  <2>1. d \in Clocks /\ UNCHANGED datagram_queue
        /\ \A e \in Datagrams : state'[e] = IF e = d THEN "INIT" ELSE state[e]
    BY <1>1a DEF TypeOK, Reinit
  <2> QED BY <2>1 DEF QueueMembership, InQueue
<1>2. ASSUME NEW d \in Datagrams, Queue(d) PROVE QueueMembership'
  <2>1. \A e \in Datagrams : state'[e] = IF e = d THEN "QUEUED" ELSE state[e]
    BY <1>2 DEF TypeOK, Queue, QueueDatagram, Enter
  <2>2. /\ NoDuplicates(datagram_queue')
        /\ Elems(datagram_queue') = Elems(datagram_queue) \cup {d}
    <3>1. CASE InQueue(d)
      BY <3>1, <1>2 DEF Queue, QueueDatagram, InQueue, QueueMembership, NoDuplicates
    <3>2. CASE ~InQueue(d)
      <4>1. datagram_queue \in Seq(Datagrams) /\ NoDuplicates(datagram_queue)
        BY QueueMembershipForm DEF TypeOK
      <4>2. datagram_queue' = Append(datagram_queue, d)
        BY <3>2, <1>2 DEF Queue, QueueDatagram
      <4> QED BY <4>1, <4>2, <3>2, AppendProperties2 DEF InQueue
    <3> QED BY <3>1, <3>2
  <2> QED BY <2>1, <2>2 DEF QueueMembership, NoDuplicates, InQueue
<1>3. ASSUME NEW d \in Datagrams, Recreate(d) PROVE QueueMembership'
  <2>1. CASE InQueue(d)
    <3>1. PICK i \in 1 .. Len(datagram_queue) :
             datagram_queue' = Without(datagram_queue, i) /\ datagram_queue[i] = d
      BY <2>1, <1>3 DEF Recreate, InQueue, Elems
    <3>2. Enter(datagram_queue[i], "INIT")
      BY <3>1, <1>3 DEF Recreate
    <3> QED BY <3>1, <3>2, Unlink
  <2>2. CASE ~InQueue(d)
    BY <2>2, <1>3 DEF Recreate, Enter, QueueMembership, InQueue, TypeOK
  <2> QED BY <2>1, <2>2
<1>4. CASE ReceiveDatagram
  <2>1. PICK i \in 1 .. Len(datagram_queue) :
           /\ Enter(datagram_queue[i], "RECEIVED")
           /\ datagram_queue' = Without(datagram_queue, i)
    BY <1>4 DEF ReceiveDatagram
  <2> QED BY <2>1, Unlink
<1>5. CASE TimeoutDatagram
  <2>1. PICK i \in 1 .. Len(datagram_queue) :
           /\ Enter(datagram_queue[i], "TIMED_OUT")
           /\ datagram_queue' = Without(datagram_queue, i)
    BY <1>5 DEF TimeoutDatagram
  <2> QED BY <2>1, Unlink
<1>6. CASE FailDatagram
  <2>1. PICK i \in 1 .. Len(datagram_queue) :
           /\ Enter(datagram_queue[i], "ERROR")
           /\ datagram_queue' = Without(datagram_queue, i)
    BY <1>6 DEF FailDatagram
  <2> QED BY <2>1, Unlink
<1>7. CASE TransmitFrame
  <2>1. datagram_queue' = datagram_queue
    BY <1>7 DEF TransmitFrame
  <2>2. \A d \in Datagrams :
           state'[d] = IF d \in Elems(frame) THEN "SENT" ELSE state[d]
    BY <1>7 DEF TransmitFrame
  <2> QED BY <2>1, <2>2 DEF QueueMembership, InQueue, FrameInv
<1>8. CASE UNCHANGED <<datagram_queue, state>>
  BY <1>8 DEF QueueMembership, InQueue
<1> QED
  BY <1>1, <1>1a, <1>2, <1>3, <1>4, <1>5, <1>6, <1>7, <1>8
     DEF Next, Owner, Progress, ReceiveBegin, SendBegin, PollFrame, SetLink,
         LoseFrame, Tick, ReceiveUnmatched, ReceiveCorrupted, PollDone,
         ReceiveEnd, LinkPoll, LinkPollDone, AddDatagram, SendDone,
         vars, qvars, ovars, fvars, hvars

LEMMA FrameTyped ==
    ASSUME TypeOK
    PROVE  \A e \in Elems(frame) : e \in Datagrams
<1>1. frame \in Seq(Datagrams)
  BY DEF TypeOK
<1> QED BY <1>1 DEF Elems

LEMMA FrameStep ==
    TypeOK /\ QueueMembership /\ FrameInv /\ RxInv /\ [Next]_vars
    => FrameInv' /\ RxInv'
<1> SUFFICES ASSUME TypeOK, QueueMembership, FrameInv, RxInv, [Next]_vars
             PROVE  FrameInv' /\ RxInv'
  OBVIOUS
<1>1. ASSUME frame = <<>>, frame' = <<>> PROVE FrameInv'
  BY <1>1 DEF FrameInv, NoDuplicates, Elems
<1>2. pc # "send" => frame = <<>>
  BY DEF FrameInv
<1>3. ASSUME NEW d \in Datagrams, Prepare(d) PROVE FrameInv' /\ RxInv'
  <2>1. \A e \in Elems(frame) : e \in Datagrams
    BY FrameTyped
  <2>2. d \notin Elems(frame)
    BY <1>3, QueueAssumption DEF QueueAssumption, Prepare, FrameInv
  <2>3. /\ UNCHANGED <<datagram_queue, frame, header, rx, pc, dev, link_state>>
        /\ \A e \in Datagrams \ {d} :
              state'[e] = state[e] /\ lag'[e] = lag[e] /\ index'[e] = index[e]
    BY <1>3 DEF TypeOK, Prepare, Enter, fvars, ovars
  <2> QED BY <2>1, <2>2, <2>3 DEF FrameInv, RxInv, NoDuplicates, InQueue
<1>3a. ASSUME NEW d \in Datagrams, Reinit(d) PROVE FrameInv' /\ RxInv'
  <2>1. \A e \in Elems(frame) : e \in Datagrams
    BY FrameTyped
  <2>2. /\ UNCHANGED <<datagram_queue, frame, rx, pc, dev, link_state>>
        /\ \A e \in Datagrams \ {d} :
              /\ state'[e] = state[e] /\ lag'[e] = lag[e]
              /\ index'[e] = index[e] /\ header'[e] = header[e]
        /\ d \in Clocks /\ state'[d] = "INIT"
        /\ d \in Elems(frame) => lag'[d] = IndexModulus
    BY <1>3a DEF TypeOK, Reinit, ovars
  <2>3. ~(IndexModulus < IndexModulus)
    BY QueueAssumption DEF QueueAssumption
  <2> QED BY <2>1, <2>2, <2>3 DEF FrameInv, RxInv, NoDuplicates, InQueue
<1>4. CASE AddDatagram
  <2>1. PICK d \in Datagrams :
           /\ d \in ToSend /\ InQueue(d)
           /\ frame' = Append(frame, d)
           /\ index' = [index EXCEPT ![d] = datagram_index]
           /\ header' = [header EXCEPT ![d] = datagram_index]
           /\ \A e \in Datagrams \ {d} : lag'[e] \in {lag[e], Older(lag[e])}
    <3>1. PICK i \in 1 .. Len(datagram_queue) :
             /\ IsFirst(i, ToSend)
             /\ LET d == datagram_queue[i] IN
                   /\ frame' = Append(frame, d)
                   /\ index' = [index EXCEPT ![d] = datagram_index]
                   /\ header' = [header EXCEPT ![d] = datagram_index]
                   /\ lag' = [e \in Datagrams |->
                                 IF e = d THEN 0
                                 ELSE IF Live(e) THEN Older(lag[e]) ELSE lag[e]]
      BY <1>4 DEF AddDatagram
    <3>2. datagram_queue[i] \in Datagrams
      BY DEF TypeOK
    <3>3. datagram_queue[i] \in ToSend
      BY <3>1 DEF IsFirst
    <3>4. InQueue(datagram_queue[i])
      BY DEF InQueue, Elems
    <3>5. \A e \in Datagrams \ {datagram_queue[i]} :
             lag'[e] \in {lag[e], Older(lag[e])}
      BY <3>1
    <3> QED BY <3>1, <3>2, <3>3, <3>4, <3>5
  <2>2. /\ NoDuplicates(frame')
        /\ Elems(frame') = Elems(frame) \cup {d}
    <3>1. frame \in Seq(Datagrams) /\ NoDuplicates(frame) /\ d \notin Elems(frame)
      BY <2>1 DEF ToSend, FrameInv, TypeOK
    <3> QED BY <2>1, <3>1, AppendProperties2
  <2>3. /\ state[d] = "QUEUED" /\ UNCHANGED <<datagram_queue, state, rx>>
        /\ UNCHANGED <<pc, dev, link_state>> /\ pc = "send" /\ link_state[dev]
    BY <2>1, <1>4 DEF ToSend, AddDatagram, ovars
  <2>4. ASSUME NEW e \in Elems(frame'), lag'[e] < IndexModulus
        PROVE  header'[e] = index'[e]
    <3>1. CASE e = d
      BY <3>1, <2>1 DEF TypeOK
    <3>2. CASE e # d
      <4>1. e \in Elems(frame) /\ e \in Datagrams
        BY <3>2, <2>2, FrameTyped
      <4>2. lag[e] \in 0 .. IndexModulus /\ lag'[e] \in {lag[e], Older(lag[e])}
        BY <4>1, <3>2, <2>1 DEF TypeOK
      <4>3. lag[e] < IndexModulus
        BY <4>2, <2>4, QueueAssumption DEF QueueAssumption, Older
      <4> QED BY <4>1, <4>3, <3>2, <2>1 DEF FrameInv, TypeOK
    <3> QED BY <3>1, <3>2
  <2>5. FrameInv'
    <3>1. \A e \in Elems(frame') :
             InQueue(e)' /\ (state'[e] = "QUEUED" \/ (e \in Clocks /\ state'[e] = "INIT"))
      BY <2>1, <2>2, <2>3 DEF FrameInv, InQueue
    <3> QED BY <2>2, <2>3, <2>4, <3>1 DEF FrameInv
  <2> QED BY <2>3, <2>5 DEF RxInv
<1>5. CASE TransmitFrame
  BY <1>5 DEF TransmitFrame, FrameInv, RxInv, NoDuplicates, Elems, ovars
<1>6. CASE SetLink \/ PollFrame \/ PollDone \/ LinkPollDone
  <2>1. pc # "send" /\ UNCHANGED frame
    BY <1>6 DEF SetLink, PollFrame, PollDone, LinkPollDone, Polling, fvars
  <2>2. RxInv'
    BY <1>6 DEF RxInv, SetLink, PollFrame, PollDone, LinkPollDone, Polling,
                NextDevice, fvars, ovars
  <2> QED BY <2>1, <2>2, <1>1, <1>2
<1>7. CASE ReceiveDatagram \/ ReceiveUnmatched \/ ReceiveCorrupted
  <2>1. pc \in {"poll", "linkpoll"} /\ UNCHANGED <<frame, pc>>
    BY <1>7 DEF RxInv, ReceiveDatagram, ReceiveUnmatched, ReceiveCorrupted, ovars
  <2> QED BY <2>1, <1>1, <1>2 DEF RxInv
<1>8. CASE \/ ReceiveBegin \/ SendBegin \/ TimeoutDatagram \/ ReceiveEnd
           \/ LinkPoll \/ FailDatagram \/ SendDone
           \/ \E d \in Datagrams : Queue(d) \/ Recreate(d)
  <2>1. frame = <<>> /\ rx = <<>> /\ UNCHANGED <<frame, rx>>
    BY <1>8 DEF FrameInv, RxInv, ReceiveBegin, SendBegin, TimeoutDatagram,
                ReceiveEnd, LinkPoll, FailDatagram, SendDone, Queue, Recreate,
                fvars
  <2> QED BY <2>1, <1>1 DEF RxInv
<1>9. CASE LoseFrame \/ Tick \/ UNCHANGED vars
  <2>1. UNCHANGED <<datagram_queue, state, index, lag, frame, header, rx, pc,
                    dev, link_state>>
    BY <1>9 DEF LoseFrame, Tick, vars, qvars, ovars, fvars, hvars
  <2> QED BY <2>1 DEF FrameInv, RxInv, NoDuplicates, InQueue, Elems
<1> QED
  BY <1>3, <1>3a, <1>4, <1>5, <1>6, <1>7, <1>8, <1>9 DEF Next, Owner, Progress

-----------------------------------------------------------------------------
(* The ages of headers and their indexes. *)

LEMMA BackInjective ==
    ASSUME TypeOK, NEW m \in 0 .. IndexModulus - 1,
           NEW n \in 0 .. IndexModulus - 1,
           Back(datagram_index, m) = Back(datagram_index, n)
    PROVE  m = n
<1>1. datagram_index \in 0 .. IndexModulus - 1 /\ IndexModulus \in Nat \ {0}
  BY QueueAssumption DEF QueueAssumption, TypeOK
<1> QED BY <1>1 DEF Back

LEMMA BackSucc ==
    ASSUME TypeOK, datagram_index' = SuccIndex(datagram_index)
    PROVE  /\ Back(datagram_index', 0) = datagram_index
           /\ \A n \in 0 .. IndexModulus - 2 :
                 Back(datagram_index', n + 1) = Back(datagram_index, n)
<1>1. datagram_index \in 0 .. IndexModulus - 1 /\ IndexModulus \in Nat \ {0}
  BY QueueAssumption DEF QueueAssumption, TypeOK
<1> QED BY <1>1 DEF Back, SuccIndex

LEMMA OutstandingTyped == TypeOK => Outstanding \subseteq Items
  BY DEF TypeOK, Outstanding

\* Steps that write no header keep the invariant.
LEMMA Shrink ==
    ASSUME TypeOK, LagInv, CountInv,
           \A d \in Datagrams :
              Live(d)' => Live(d) /\ lag'[d] = lag[d] /\ index'[d] = index[d],
           Outstanding' \subseteq Outstanding,
           UNCHANGED <<datagram_index, overrun>>
    PROVE  LagInv' /\ CountInv'
<1>1. \A n : Back(datagram_index', n) = Back(datagram_index, n)
  BY DEF Back
<1>2. CountInv'
  BY DEF CountInv
<1>3. LagInv'
  BY <1>1 DEF LagInv
<1> QED BY <1>2, <1>3

LEMMA EnterLive ==
    ASSUME TypeOK, FrameInv, NEW d \in Datagrams, NEW s \in States \ {"SENT"},
           Enter(d, s), UNCHANGED frame,
           d \notin Elems(frame),
           \A e \in Datagrams \ {d} : index'[e] = index[e]
    PROVE  \A e \in Datagrams :
              Live(e)' => Live(e) /\ lag'[e] = lag[e] /\ index'[e] = index[e]
<1>1. \A e \in Datagrams :
         /\ state'[e] = IF e = d THEN s ELSE state[e]
         /\ lag'[e] = IF e = d THEN 0 ELSE lag[e]
  BY DEF Enter, TypeOK
<1>2. ~Live(d)'
  BY <1>1 DEF Live
<1> QED BY <1>1, <1>2 DEF Live

LEMMA LagAdd ==
    ASSUME TypeOK, FrameInv, RxInv, LagInv, CountInv, AddDatagram
    PROVE  LagInv' /\ CountInv'
<1> USE QueueAssumption DEF QueueAssumption
<1>1. PICK d \in Datagrams :
         /\ d \in ToSend
         /\ frame' = Append(frame, d)
         /\ index' = [index EXCEPT ![d] = datagram_index]
         /\ lag' = [e \in Datagrams |->
                       IF e = d THEN 0
                       ELSE IF Live(e) THEN Older(lag[e]) ELSE lag[e]]
  <2>1. PICK i \in 1 .. Len(datagram_queue) :
           /\ IsFirst(i, ToSend)
           /\ LET d == datagram_queue[i] IN
                 /\ frame' = Append(frame, d)
                 /\ index' = [index EXCEPT ![d] = datagram_index]
                 /\ lag' = [e \in Datagrams |->
                               IF e = d THEN 0
                               ELSE IF Live(e) THEN Older(lag[e]) ELSE lag[e]]
    BY DEF AddDatagram
  <2>2. datagram_queue[i] \in Datagrams
    BY DEF TypeOK
  <2>3. datagram_queue[i] \in ToSend
    BY <2>1 DEF IsFirst
  <2> QED BY <2>1, <2>2, <2>3
<1>2. /\ ~Live(d)
      /\ \A e \in Datagrams : Live(e)' <=> Live(e) \/ e = d
  <2>1. Elems(frame') = Elems(frame) \cup {d}
    BY <1>1, AppendProperties2 DEF TypeOK
  <2>2. UNCHANGED state /\ state[d] = "QUEUED" /\ d \notin Elems(frame)
    BY <1>1 DEF ToSend, AddDatagram
  <2> QED BY <2>1, <2>2 DEF Live
<1>3. ASSUME NEW it \in Outstanding'
      PROVE  \E old \in Outstanding :
                /\ old \in Items
                /\ it.dg = old.dg /\ it.index = old.index
                /\ it.lag = Older(old.lag)
  <2>1. rx = <<>> /\ rx' = <<>> /\ wire' = {OlderFrame(f) : f \in wire}
    BY DEF RxInv, AddDatagram
  <2>2. PICK f \in wire : \E k \in 1 .. Len(OlderFrame(f)) : it = OlderFrame(f)[k]
    <3>1. PICK g \in wire' \cup {rx'} : \E k \in 1 .. Len(g) : it = g[k]
      BY DEF Outstanding
    <3>2. g # <<>> /\ g \in wire'
      BY <3>1, <2>1
    <3>3. PICK f \in wire : g = OlderFrame(f)
      BY <3>2, <2>1
    <3> QED BY <3>1, <3>3
  <2>3. f \in Seq(Items)
    BY DEF TypeOK
  <2>4. PICK k \in 1 .. Len(f) : it = [f[k] EXCEPT !.lag = Older(f[k].lag)]
    BY <2>2, <2>3, OlderFrameTyped
  <2>5. f[k] \in Outstanding /\ f[k] \in Items
    BY <2>3, <2>4 DEF Outstanding
  <2> QED BY <2>4, <2>5 DEF Items
<1>4. /\ index'[d] = Back(datagram_index', 0) /\ lag'[d] = 0
      /\ \A n \in 0 .. IndexModulus - 2 :
            Back(datagram_index', n + 1) = Back(datagram_index, n)
  BY <1>1, BackSucc DEF AddDatagram, TypeOK
<1>5. \A n \in 0 .. IndexModulus :
         /\ Older(n) > 0
         /\ Older(n) < IndexModulus => Older(n) = n + 1 /\ n \in 0 .. IndexModulus - 2
  BY DEF Older
<1>6. ASSUME NEW e \in Datagrams, Live(e)', e # d
      PROVE  /\ Live(e) /\ lag[e] \in 0 .. IndexModulus
             /\ lag'[e] = Older(lag[e]) /\ index'[e] = index[e]
  BY <1>1, <1>2, <1>6 DEF TypeOK
<1>7. \A it \in Items : it.lag \in 0 .. IndexModulus
  BY DEF Items
<1>8. LagInv'
  <2>1. ASSUME NEW e \in Datagrams, Live(e)', lag'[e] < IndexModulus
        PROVE  index'[e] = Back(datagram_index', lag'[e])
    <3>1. CASE e = d
      BY <3>1, <1>4
    <3>2. CASE e # d
      <4>1. Live(e) /\ lag[e] \in 0 .. IndexModulus - 2 /\ lag'[e] = lag[e] + 1
            /\ index'[e] = index[e]
        BY <3>2, <2>1, <1>5, <1>6
      <4>2. index[e] = Back(datagram_index, lag[e])
        BY <4>1 DEF LagInv
      <4> QED BY <4>1, <4>2, <1>4
    <3> QED BY <3>1, <3>2
  <2>2. ASSUME NEW it \in Outstanding', it.lag < IndexModulus
        PROVE  it.index = Back(datagram_index', it.lag)
    <3>1. PICK old \in Outstanding :
             /\ old \in Items /\ it.index = old.index /\ it.lag = Older(old.lag)
      BY <1>3
    <3>2. old.lag \in 0 .. IndexModulus - 2 /\ it.lag = old.lag + 1
      BY <3>1, <2>2, <1>5, <1>7
    <3>3. old.index = Back(datagram_index, old.lag)
      BY <3>2 DEF LagInv
    <3> QED BY <3>1, <3>2, <3>3, <1>4
  <2>3. ASSUME NEW e1 \in Datagrams, NEW e2 \in Datagrams, Live(e1)', Live(e2)',
               lag'[e1] = lag'[e2], lag'[e1] < IndexModulus
        PROVE  e1 = e2
    <3>1. CASE e1 = d \/ e2 = d
      BY <3>1, <2>3, <1>4, <1>5, <1>6
    <3>2. CASE e1 # d /\ e2 # d
      <4>1. /\ Live(e1) /\ lag[e1] \in 0 .. IndexModulus - 2
            /\ Live(e2) /\ lag[e2] = lag[e1]
        BY <3>2, <2>3, <1>5, <1>6
      <4> QED BY <4>1 DEF LagInv
    <3> QED BY <3>1, <3>2
  <2>4. ASSUME NEW e \in Datagrams, NEW it \in Outstanding', Live(e)',
               it.lag = lag'[e], lag'[e] < IndexModulus
        PROVE  it.dg = e
    <3>1. PICK old \in Outstanding :
             /\ old \in Items /\ it.dg = old.dg /\ it.lag = Older(old.lag)
      BY <1>3
    <3>2. /\ old.lag \in 0 .. IndexModulus - 2
          /\ it.lag = old.lag + 1 /\ lag'[e] = old.lag + 1
      <4>1. old.lag \in 0 .. IndexModulus /\ Older(old.lag) < IndexModulus
        BY <3>1, <2>4, <1>7
      <4> QED BY <4>1, <3>1, <2>4, <1>5
    <3>3. e # d
      BY <3>2, <1>4
    <3>4. Live(e) /\ lag[e] \in 0 .. IndexModulus - 2 /\ old.lag = lag[e]
      <4>1. Live(e) /\ lag[e] \in 0 .. IndexModulus /\ lag'[e] = Older(lag[e])
        BY <3>3, <2>4, <1>6
      <4>2. lag[e] \in 0 .. IndexModulus - 2 /\ lag'[e] = lag[e] + 1
        BY <4>1, <2>4, <1>5
      <4> QED BY <4>1, <4>2, <3>2
    <3>5. old.dg = e
      BY <3>4 DEF LagInv
    <3> QED BY <3>1, <3>5
  <2> QED BY <2>1, <2>2, <2>3, <2>4 DEF LagInv
<1>9. CountInv'
  <2> SUFFICES ASSUME ~overrun'
               PROVE  /\ \A e \in Datagrams : Live(e)' => lag'[e] < IndexModulus
                      /\ \A it \in Outstanding' : it.lag < IndexModulus
    BY DEF CountInv
  <2>1. /\ \A e \in Datagrams : Live(e) => lag[e] + 1 < IndexModulus
        /\ \A f \in wire : \A k \in 1 .. Len(f) : f[k].lag + 1 < IndexModulus
    <3>1. ~Wraps
      BY DEF AddDatagram
    <3>2. \A e \in Datagrams : lag[e] \in 0 .. IndexModulus
      BY DEF TypeOK
    <3>3. \A f \in wire : \A k \in 1 .. Len(f) : f[k].lag \in 0 .. IndexModulus
      BY <1>7 DEF TypeOK
    <3> QED BY <3>1, <3>2, <3>3 DEF Wraps
  <2>2. \A it \in Outstanding : it.lag + 1 < IndexModulus
    BY <2>1 DEF Outstanding, RxInv, AddDatagram
  <2>3. \A e \in Datagrams : Live(e)' => lag'[e] < IndexModulus
    BY <2>1, <1>2, <1>4, <1>6 DEF Older
  <2>4. ASSUME NEW it \in Outstanding' PROVE it.lag < IndexModulus
    <3>1. PICK old \in Outstanding : old \in Items /\ it.lag = Older(old.lag)
      BY <1>3
    <3> QED BY <3>1, <2>2, <1>7 DEF Older
  <2> QED BY <2>3, <2>4
<1> QED BY <1>8, <1>9

LEMMA LagTransmit ==
    ASSUME TypeOK, FrameInv, RxInv, LagInv, CountInv, TransmitFrame
    PROVE  LagInv' /\ CountInv'
<1>1. \A d \in Datagrams : Live(d)' <=> Live(d)
  <2>1. \A d \in Datagrams :
           state'[d] = IF d \in Elems(frame) THEN "SENT" ELSE state[d]
    BY DEF TransmitFrame
  <2>2. frame' = <<>>
    BY DEF TransmitFrame
  <2> QED BY <2>1, <2>2 DEF Live, Elems
<1>2. UNCHANGED <<index, lag, datagram_index, overrun>>
  BY DEF TransmitFrame, hvars
<1>3. \A n : Back(datagram_index', n) = Back(datagram_index, n)
  BY <1>2 DEF Back
<1>4. ASSUME NEW it \in Outstanding'
      PROVE  \/ it \in Outstanding
             \/ \E d \in Datagrams : /\ Live(d) /\ it.dg = d
                                     /\ it.lag = lag[d]
                                     /\ lag[d] < IndexModulus => it.index = index[d]
  <2>1. wire' \subseteq wire \cup {FrameItems} /\ rx' = rx
    BY DEF TransmitFrame
  <2>2. CASE \E k \in 1 .. Len(FrameItems) : it = FrameItems[k]
    <3>1. PICK k \in 1 .. Len(frame) :
             it = [dg |-> frame[k], index |-> header[frame[k]], lag |-> lag[frame[k]]]
      BY <2>2 DEF FrameItems, TypeOK
    <3>2. frame[k] \in Datagrams /\ Live(frame[k])
      BY DEF TypeOK, Live, Elems
    <3>3. lag[frame[k]] < IndexModulus => header[frame[k]] = index[frame[k]]
      BY DEF FrameInv, Elems
    <3> QED BY <3>1, <3>2, <3>3
  <2>3. CASE ~\E k \in 1 .. Len(FrameItems) : it = FrameItems[k]
    BY <2>1, <2>3 DEF Outstanding
  <2> QED BY <2>2, <2>3
<1>5. CountInv'
  BY <1>1, <1>2, <1>4 DEF CountInv
<1>6. LagInv'
  BY <1>1, <1>2, <1>3, <1>4 DEF LagInv
<1> QED BY <1>5, <1>6

\* A received datagram had its own header in the frame.
LEMMA OwnStep ==
    ASSUME TypeOK, LagInv, CountInv, OwnAnswer, ReceiveDatagram
    PROVE  OwnAnswer'
<1> USE QueueAssumption DEF QueueAssumption
<1> DEFINE it == Head(rx)
<1>1. PICK d \in Datagrams :
         /\ d \in Matching(it)
         /\ Enter(d, "RECEIVED")
         /\ answer' = [answer EXCEPT ![d] =
               IF it.dg = d /\ it.lag = lag[d] THEN "own" ELSE "foreign"]
  <2>1. PICK i \in 1 .. Len(datagram_queue) :
           /\ IsFirst(i, Matching(it))
           /\ LET d == datagram_queue[i] IN
                 /\ Enter(d, "RECEIVED")
                 /\ answer' = [answer EXCEPT ![d] =
                       IF it.dg = d /\ it.lag = lag[d] THEN "own" ELSE "foreign"]
    BY DEF ReceiveDatagram
  <2>2. datagram_queue[i] \in Datagrams
    BY DEF TypeOK
  <2>3. datagram_queue[i] \in Matching(it)
    BY <2>1 DEF IsFirst
  <2> QED BY <2>1, <2>2, <2>3
<1>2. it \in Outstanding /\ it \in Items
  <2>1. rx # <<>> /\ rx \in Seq(Items)
    BY DEF ReceiveDatagram, TypeOK
  <2>2. 1 \in 1 .. Len(rx) /\ it = rx[1]
    BY <2>1
  <2> QED BY <2>1, <2>2 DEF Outstanding
<1>3. state[d] = "SENT" /\ index[d] = it.index /\ Live(d)
  BY <1>1 DEF Matching, Live
<1>4. ASSUME ~overrun PROVE it.dg = d /\ it.lag = lag[d]
  <2>1. lag[d] \in 0 .. IndexModulus /\ it.lag \in 0 .. IndexModulus
    BY <1>2 DEF TypeOK, Items
  <2>2. lag[d] \in 0 .. IndexModulus - 1 /\ it.lag \in 0 .. IndexModulus - 1
    BY <1>2, <1>3, <1>4, <2>1 DEF CountInv
  <2>3. Back(datagram_index, lag[d]) = Back(datagram_index, it.lag)
    BY <1>2, <1>3, <2>2 DEF LagInv
  <2>4. lag[d] = it.lag
    BY <2>2, <2>3, BackInjective
  <2> QED BY <2>2, <2>4, <1>2, <1>3 DEF LagInv
<1>5. ASSUME ~overrun', NEW e \in Datagrams, state'[e] = "RECEIVED"
      PROVE  answer'[e] = "own"
  <2>1. ~overrun
    BY <1>5 DEF ReceiveDatagram
  <2>2. CASE e = d
    BY <2>1, <2>2, <1>1, <1>4 DEF TypeOK
  <2>3. CASE e # d
    BY <2>1, <2>3, <1>1, <1>5 DEF TypeOK, Enter, OwnAnswer
  <2> QED BY <2>2, <2>3
<1> QED BY <1>5 DEF OwnAnswer

LEMMA LagStep ==
    TypeOK /\ QueueMembership /\ FrameInv /\ RxInv /\ LagInv /\ CountInv /\ [Next]_vars
    => LagInv' /\ CountInv'
<1> SUFFICES ASSUME TypeOK, QueueMembership, FrameInv, RxInv, LagInv, CountInv,
                    [Next]_vars
             PROVE  LagInv' /\ CountInv'
  OBVIOUS
<1>1. ASSUME NEW d \in Datagrams, Prepare(d) \/ Queue(d) \/ Recreate(d)
      PROVE  LagInv' /\ CountInv'
  <2>1. PICK s \in States \ {"SENT"} : Enter(d, s)
    BY <1>1 DEF Prepare, Queue, QueueDatagram, Recreate, States
  <2>2. d \notin Elems(frame)
    <3>1. CASE Prepare(d)
      BY <3>1, QueueAssumption DEF QueueAssumption, Prepare, FrameInv
    <3>2. CASE pc = "app"
      BY <3>2 DEF FrameInv, Elems
    <3> QED BY <3>1, <3>2, <1>1 DEF Queue, Recreate
  <2>3. /\ UNCHANGED <<frame, wire, rx, datagram_index, overrun>>
        /\ \A e \in Datagrams \ {d} : index'[e] = index[e]
    BY <1>1 DEF Prepare, Queue, Recreate, fvars, TypeOK
  <2>4. Outstanding' \subseteq Outstanding
    BY <2>3 DEF Outstanding
  <2>5. \A e \in Datagrams :
           Live(e)' => Live(e) /\ lag'[e] = lag[e] /\ index'[e] = index[e]
    BY <2>1, <2>2, <2>3, EnterLive
  <2> QED BY <2>3, <2>4, <2>5, Shrink
<1>1a. ASSUME NEW d \in Datagrams, Reinit(d) PROVE LagInv' /\ CountInv'
  <2>1. /\ UNCHANGED <<frame, wire, rx, datagram_index>>
        /\ \A e \in Datagrams \ {d} :
              state'[e] = state[e] /\ lag'[e] = lag[e] /\ index'[e] = index[e]
        /\ state'[d] = "INIT"
        /\ d \in Elems(frame) => lag'[d] = IndexModulus /\ overrun'
        /\ d \notin Elems(frame) => overrun' = overrun
    BY <1>1a DEF Reinit, TypeOK
  <2>2. /\ Outstanding' = Outstanding
        /\ \A n : Back(datagram_index', n) = Back(datagram_index, n)
    BY <2>1 DEF Outstanding, Back
  <2>3. ~(IndexModulus < IndexModulus)
    BY QueueAssumption DEF QueueAssumption
  <2>4. \A e \in Datagrams : Live(e)' /\ lag'[e] < IndexModulus
           => Live(e) /\ lag'[e] = lag[e] /\ index'[e] = index[e]
    BY <2>1, <2>3 DEF Live
  <2>5. LagInv'
    BY <2>2, <2>4 DEF LagInv
  <2>6. CASE d \notin Elems(frame)
    <3>1. \A e \in Datagrams : Live(e)' => Live(e) /\ lag'[e] = lag[e]
      BY <2>1, <2>6 DEF Live
    <3> QED BY <3>1, <2>1, <2>2, <2>5, <2>6 DEF CountInv
  <2>7. CASE d \in Elems(frame)
    BY <2>1, <2>5, <2>7 DEF CountInv
  <2> QED BY <2>6, <2>7
<1>2. CASE AddDatagram
  BY <1>2, LagAdd
<1>3. CASE TransmitFrame
  BY <1>3, LagTransmit
<1>4. CASE ReceiveDatagram \/ TimeoutDatagram \/ FailDatagram
  <2>1. PICK i \in 1 .. Len(datagram_queue), s \in States \ {"SENT"} :
           Enter(datagram_queue[i], s)
    <3>1. {"RECEIVED", "TIMED_OUT", "ERROR"} \subseteq States \ {"SENT"}
      BY DEF States
    <3>2. CASE ReceiveDatagram
      BY <3>1, <3>2 DEF ReceiveDatagram
    <3>3. CASE TimeoutDatagram
      BY <3>1, <3>3 DEF TimeoutDatagram
    <3>4. CASE FailDatagram
      BY <3>1, <3>4 DEF FailDatagram
    <3> QED BY <3>2, <3>3, <3>4, <1>4
  <2> DEFINE d == datagram_queue[i]
  <2>2. d \in Datagrams
    BY DEF TypeOK
  <2>3. frame = <<>> /\ UNCHANGED <<frame, index, wire, datagram_index, overrun>>
    <3>1. CASE ReceiveDatagram
      BY <3>1 DEF ReceiveDatagram, RxInv, FrameInv
    <3>2. CASE TimeoutDatagram
      BY <3>2 DEF TimeoutDatagram, FrameInv, fvars
    <3>3. CASE FailDatagram
      BY <3>3 DEF FailDatagram, FrameInv, fvars
    <3> QED BY <3>1, <3>2, <3>3, <1>4
  <2>4. Outstanding' \subseteq Outstanding
    <3>1. CASE rx' = rx
      BY <3>1, <2>3 DEF Outstanding
    <3>2. CASE rx # <<>> /\ rx' = Tail(rx)
      <4>1. rx \in Seq(Items)
        BY DEF TypeOK
      <4>2. \A k \in 1 .. Len(rx') : k + 1 \in 1 .. Len(rx) /\ rx'[k] = rx[k + 1]
        BY <4>1, <3>2
      <4> QED BY <4>2, <2>3 DEF Outstanding
    <3> QED BY <3>1, <3>2, <1>4
            DEF ReceiveDatagram, TimeoutDatagram, FailDatagram, fvars
  <2>5. \A e \in Datagrams :
           Live(e)' => Live(e) /\ lag'[e] = lag[e] /\ index'[e] = index[e]
    <3>1. d \notin Elems(frame)
      BY <2>3 DEF Elems
    <3> HIDE DEF d
    <3>2. Enter(d, s)
      BY <2>1 DEF d
    <3> QED BY <3>1, <3>2, <2>2, <2>3, EnterLive
  <2> QED BY <2>3, <2>4, <2>5, Shrink
<1>5. CASE \/ ReceiveBegin \/ SendBegin \/ PollFrame \/ SetLink \/ LoseFrame
           \/ Tick \/ ReceiveUnmatched \/ ReceiveCorrupted \/ PollDone
           \/ ReceiveEnd \/ LinkPoll \/ LinkPollDone \/ SendDone
           \/ UNCHANGED vars
  <2>1. UNCHANGED <<state, frame, lag, index, datagram_index, overrun>>
    BY <1>5 DEF ReceiveBegin, SendBegin, PollFrame, SetLink, LoseFrame, Tick,
                ReceiveUnmatched, ReceiveCorrupted, PollDone, ReceiveEnd,
                LinkPoll, LinkPollDone, SendDone, vars, qvars, ovars, fvars, hvars
  <2>2. Outstanding' \subseteq Outstanding
    <3>1. CASE UNCHANGED <<wire, rx>>
      BY <3>1 DEF Outstanding
    <3>2. CASE PollFrame
      <4>1. PICK f \in wire : rx' = f /\ wire' = wire \ {f}
        BY <3>2 DEF PollFrame
      <4> QED BY <4>1 DEF Outstanding
    <3>3. CASE LoseFrame
      <4>1. wire' \subseteq wire /\ rx' = rx
        BY <3>3 DEF LoseFrame
      <4> QED BY <4>1 DEF Outstanding
    <3>4. CASE ReceiveUnmatched \/ ReceiveCorrupted
      <4>1. rx \in Seq(Items) /\ wire' = wire
              /\ (rx' = <<>> \/ (rx # <<>> /\ rx' = Tail(rx)))
        BY <3>4 DEF TypeOK, ReceiveUnmatched, ReceiveCorrupted
      <4>2. \A k \in 1 .. Len(rx') : k + 1 \in 1 .. Len(rx) /\ rx'[k] = rx[k + 1]
        BY <4>1
      <4> QED BY <4>1, <4>2 DEF Outstanding
    <3> QED BY <3>1, <3>2, <3>3, <3>4, <1>5
            DEF ReceiveBegin, SendBegin, SetLink, Tick, PollDone, ReceiveEnd,
                LinkPoll, LinkPollDone, SendDone, vars, fvars
  <2>3. \A e \in Datagrams :
           Live(e)' => Live(e) /\ lag'[e] = lag[e] /\ index'[e] = index[e]
    BY <2>1 DEF Live
  <2> QED BY <2>1, <2>2, <2>3, Shrink
<1> QED
  BY <1>1, <1>1a, <1>2, <1>3, <1>4, <1>5 DEF Next, Owner, Progress

-----------------------------------------------------------------------------
(* ecrt_master_send() works through the devices. *)

\* Steps within one device that queue nothing.
LEMMA SendShrink ==
    ASSUME SendInv, UNCHANGED <<pc, dev>>,
           \A d \in Datagrams : state'[d] = "QUEUED" => state[d] = "QUEUED"
    PROVE  SendInv'
  BY DEF SendInv

LEMMA EnterShrinks ==
    ASSUME TypeOK, NEW d, NEW s \in States \ {"QUEUED"}, Enter(d, s)
    PROVE  \A e \in Datagrams : state'[e] = "QUEUED" => state[e] = "QUEUED"
  BY DEF Enter, TypeOK

\* The end of a device: nothing is queued for it, nor for the ones before.
LEMMA DeviceDone ==
    ASSUME TypeOK, QueueMembership, FrameInv, SendInv, LinkPollDone \/ SendDone
    PROVE  /\ UNCHANGED state
           /\ \A d \in Datagrams : state[d] = "QUEUED" => DeviceIndex[d] >= dev + 1
           /\ NextDevice
<1> USE QueueAssumption DEF QueueAssumption
<1>1. UNCHANGED state /\ NextDevice /\ pc \in {"send", "linkpoll"}
  BY DEF LinkPollDone, SendDone, qvars
<1>2. ASSUME NEW d \in Datagrams, state[d] = "QUEUED"
      PROVE  DeviceIndex[d] >= dev /\ DeviceIndex[d] # dev
  <2>1. DeviceIndex[d] >= dev
    BY <1>1, <1>2 DEF SendInv
  <2>2. CASE LinkPollDone
    BY <2>1, <2>2, <1>2 DEF SendInv, LinkPollDone
  <2>3. CASE SendDone
    <3>1. InQueue(d) /\ d \notin Elems(frame)
      BY <2>3, <1>2 DEF QueueMembership, SendDone, Elems
    <3> QED BY <2>1, <2>3, <3>1, <1>2 DEF SendDone, ToSend, OfDevice
  <2> QED BY <2>2, <2>3
<1>3. dev \in Int /\ \A d \in Datagrams : DeviceIndex[d] \in Int
  BY DEF TypeOK, Devices
<1> QED BY <1>1, <1>2, <1>3

LEMMA SendStep ==
    TypeOK /\ QueueMembership /\ FrameInv /\ SendInv /\ [Next]_vars => SendInv'
<1> SUFFICES ASSUME TypeOK, QueueMembership, FrameInv, SendInv, [Next]_vars
             PROVE  SendInv'
  OBVIOUS
<1> USE QueueAssumption DEF QueueAssumption
<1>1. ASSUME NEW d \in Datagrams, Prepare(d) PROVE SendInv'
  <2>1. Enter(d, "INIT") /\ "INIT" \in States \ {"QUEUED"} /\ UNCHANGED <<pc, dev>>
    BY <1>1 DEF Prepare, ovars, States
  <2>2. \A e \in Datagrams : state'[e] = "QUEUED" => state[e] = "QUEUED"
    BY <2>1, EnterShrinks
  <2> QED BY <2>1, <2>2, SendShrink
<1>1a. ASSUME NEW d \in Datagrams, Reinit(d) PROVE SendInv'
  <2>1. /\ UNCHANGED <<pc, dev>>
        /\ \A e \in Datagrams : state'[e] = "QUEUED" => state[e] = "QUEUED"
    BY <1>1a DEF Reinit, TypeOK, ovars
  <2> QED BY <2>1, SendShrink
<1>2. CASE \/ \E d \in Datagrams : Queue(d) \/ Recreate(d)
           \/ ReceiveBegin \/ PollDone \/ ReceiveEnd \/ Tick
  <2>1. pc' \notin {"send", "linkpoll"} \/ (pc = "linkpoll" /\ PollDone)
    BY <1>2 DEF Queue, Recreate, ReceiveBegin, PollDone, ReceiveEnd, Tick, ovars
  <2> QED BY <2>1 DEF SendInv, PollDone
<1>3. CASE SendBegin
  <2>1. pc' = "send" /\ dev' = 0
    BY <1>3 DEF SendBegin
  <2>2. \A d \in Datagrams : DeviceIndex[d] >= 0
    BY DEF Devices
  <2> QED BY <2>1, <2>2 DEF SendInv
<1>4. CASE LinkPoll
  <2>1. pc' = "linkpoll" /\ pc = "send" /\ UNCHANGED <<state, dev>>
    BY <1>4 DEF LinkPoll, qvars
  <2>2. \A d \in Datagrams : state[d] = "QUEUED" => DeviceIndex[d] # dev
    BY <1>4 DEF LinkPoll, OfDevice, QueueMembership
  <2> QED BY <2>1, <2>2 DEF SendInv
<1>5. CASE LinkPollDone \/ SendDone
  <2>1. /\ UNCHANGED state /\ NextDevice
        /\ \A d \in Datagrams : state[d] = "QUEUED" => DeviceIndex[d] >= dev + 1
    BY <1>5, DeviceDone
  <2> QED BY <2>1 DEF NextDevice, SendInv
<1>6. CASE ReceiveDatagram \/ TimeoutDatagram \/ FailDatagram
  <2>1. PICK i \in 1 .. Len(datagram_queue), s \in States \ {"QUEUED"} :
           Enter(datagram_queue[i], s)
    <3>1. {"RECEIVED", "TIMED_OUT", "ERROR"} \subseteq States \ {"QUEUED"}
      BY DEF States
    <3>2. CASE ReceiveDatagram
      BY <3>1, <3>2 DEF ReceiveDatagram
    <3>3. CASE TimeoutDatagram
      BY <3>1, <3>3 DEF TimeoutDatagram
    <3>4. CASE FailDatagram
      BY <3>1, <3>4 DEF FailDatagram
    <3> QED BY <3>2, <3>3, <3>4, <1>6
  <2>2. UNCHANGED <<pc, dev>>
    BY <1>6 DEF ReceiveDatagram, TimeoutDatagram, FailDatagram, ovars
  <2>3. \A e \in Datagrams : state'[e] = "QUEUED" => state[e] = "QUEUED"
    BY <2>1, EnterShrinks
  <2> QED BY <2>2, <2>3, SendShrink
<1>7. CASE TransmitFrame
  BY <1>7, SendShrink DEF TransmitFrame, ovars
<1>8. CASE \/ PollFrame \/ SetLink \/ LoseFrame \/ ReceiveUnmatched
           \/ ReceiveCorrupted \/ AddDatagram \/ UNCHANGED vars
  <2>1. UNCHANGED <<pc, dev, state>>
    BY <1>8 DEF PollFrame, SetLink, LoseFrame, ReceiveUnmatched,
                ReceiveCorrupted, AddDatagram, vars, qvars, ovars
  <2> QED BY <2>1, SendShrink
<1> QED
  BY <1>1, <1>1a, <1>2, <1>3, <1>4, <1>5, <1>6, <1>7, <1>8
     DEF Next, Owner, Progress

-----------------------------------------------------------------------------
(* The invariant and what follows from it. *)

LEMMA InvInit == Init => IInv
<1> SUFFICES ASSUME Init PROVE IInv
  OBVIOUS
<1>1. Elems(datagram_queue) = {} /\ Elems(frame) = {} /\ Outstanding = {}
  BY DEF Init, Elems, Outstanding
<1>2. \A d \in Datagrams : state[d] = "INIT"
  BY DEF Init
<1>3. QueueMembership
  BY <1>1, <1>2 DEF QueueMembership, InQueue, Init
<1>4. FrameInv /\ RxInv
  BY <1>1 DEF FrameInv, RxInv, NoDuplicates, Init
<1>5. LagInv /\ CountInv
  BY <1>1, <1>2 DEF LagInv, CountInv, Live
<1>6. OwnAnswer /\ SendInv
  BY <1>2 DEF OwnAnswer, SendInv
<1> QED BY <1>3, <1>4, <1>5, <1>6 DEF IInv

LEMMA OwnAnswerStep ==
    TypeOK /\ LagInv /\ CountInv /\ OwnAnswer /\ [Next]_vars => OwnAnswer'
<1> SUFFICES ASSUME TypeOK, LagInv, CountInv, OwnAnswer, [Next]_vars
             PROVE  OwnAnswer'
  OBVIOUS
<1>1. CASE ReceiveDatagram
  BY <1>1, OwnStep
<1>2. CASE \E d \in Datagrams : Prepare(d) \/ Queue(d) \/ Recreate(d)
  <2>1. PICK d \in Datagrams, s \in States \ {"RECEIVED"} :
           /\ Enter(d, s)
           /\ answer' = [answer EXCEPT ![d] = "none"]
           /\ UNCHANGED overrun
    BY <1>2 DEF Prepare, Queue, QueueDatagram, Recreate, States
  <2> QED BY <2>1 DEF Enter, OwnAnswer, TypeOK
<1>2a. CASE \E d \in Datagrams : Reinit(d)
  <2>1. PICK d \in Datagrams : /\ state' = [state EXCEPT ![d] = "INIT"]
                               /\ answer' = [answer EXCEPT ![d] = "none"]
                               /\ overrun => overrun'
    BY <1>2a DEF Reinit
  <2> QED BY <2>1 DEF OwnAnswer, TypeOK
<1>3. CASE TimeoutDatagram \/ FailDatagram
  <2>1. PICK i \in 1 .. Len(datagram_queue), s \in {"TIMED_OUT", "ERROR"} :
           Enter(datagram_queue[i], s)
    BY <1>3 DEF TimeoutDatagram, FailDatagram
  <2>2. UNCHANGED <<answer, overrun>>
    BY <1>3 DEF TimeoutDatagram, FailDatagram
  <2>3. \A e \in Datagrams : state'[e] = "RECEIVED" => state[e] = "RECEIVED"
    BY <2>1 DEF Enter, TypeOK
  <2> QED BY <2>2, <2>3 DEF OwnAnswer
<1>4. CASE TransmitFrame
  BY <1>4 DEF TransmitFrame, hvars, OwnAnswer
<1>5. CASE AddDatagram
  BY <1>5 DEF AddDatagram, OwnAnswer
<1>6. CASE \/ ReceiveBegin \/ SendBegin \/ PollFrame \/ SetLink \/ LoseFrame
           \/ Tick \/ ReceiveUnmatched \/ ReceiveCorrupted \/ PollDone
           \/ ReceiveEnd \/ LinkPoll \/ LinkPollDone \/ SendDone
           \/ UNCHANGED vars
  <2>1. UNCHANGED <<state, answer, overrun>>
    BY <1>6 DEF ReceiveBegin, SendBegin, PollFrame, SetLink, LoseFrame, Tick,
                ReceiveUnmatched, ReceiveCorrupted, PollDone, ReceiveEnd,
                LinkPoll, LinkPollDone, SendDone, vars, qvars, hvars
  <2> QED BY <2>1 DEF OwnAnswer
<1> QED
  BY <1>1, <1>2, <1>2a, <1>3, <1>4, <1>5, <1>6 DEF Next, Owner, Progress

LEMMA InvStep == TypeOK /\ IInv /\ [Next]_vars => IInv'
  BY MembershipStep, FrameStep, LagStep, OwnAnswerStep, SendStep DEF IInv

LEMMA Invariant == Spec => [](TypeOK /\ IInv)
<1>1. Init => TypeOK /\ IInv
  BY TypeInit, InvInit
<1>2. TypeOK /\ IInv /\ [Next]_vars => (TypeOK /\ IInv)'
  BY TypeStep, InvStep
<1> QED BY <1>1, <1>2, PTL DEF Spec

\* The queue links every datagram in flight, and none twice: list_add_tail() and
\* list_del_init() never corrupt it, whenever datagrams of clocks that are
\* linked are re-initialised.
THEOREM QueueIntact == Spec => []QueueMembership
<1>1. IInv => QueueMembership
  BY DEF IInv
<1> QED BY <1>1, Invariant, PTL

\* For any index width, no answer is attributed to another datagram before an
\* outstanding header's index is reused or a datagram is re-initialised in the
\* frame being built.
THEOREM AnswersMatch == Spec => []OwnAnswer
<1>1. IInv => OwnAnswer
  BY DEF IInv
<1> QED BY <1>1, Invariant, PTL

\* Under the same proviso the datagrams on the wire have different indexes.
THEOREM IndexesDiffer == Spec => []UniqueIndex
<1>1. ASSUME TypeOK, IInv PROVE UniqueIndex
  <2> SUFFICES ASSUME ~overrun, NEW d \in Datagrams, NEW e \in Datagrams,
                      state[d] = "SENT", state[e] = "SENT", index[d] = index[e]
               PROVE  d = e
    BY DEF UniqueIndex
  <2>1. Live(d) /\ Live(e)
    BY DEF Live
  <2>2. lag[d] < IndexModulus /\ lag[e] < IndexModulus
    BY <2>1, <1>1 DEF IInv, CountInv
  <2>3. lag[d] \in 0 .. IndexModulus - 1 /\ lag[e] \in 0 .. IndexModulus - 1
    BY <2>2, <1>1, QueueAssumption DEF QueueAssumption, TypeOK
  <2>4. Back(datagram_index, lag[d]) = Back(datagram_index, lag[e])
    BY <2>1, <2>2, <1>1 DEF IInv, LagInv
  <2>5. lag[d] = lag[e]
    BY <2>3, <2>4, <1>1, BackInjective
  <2> QED BY <2>1, <2>2, <2>5, <1>1 DEF IInv, LagInv
<1> QED BY <1>1, Invariant, PTL

\* ecrt_master_send() returns with every queued datagram sent or failed, for
\* any number of devices, datagrams and frames.
THEOREM SendComplete == Spec => SendDrains
<1>1. ASSUME TypeOK, IInv, [Next]_vars
      PROVE  [(pc \in {"send", "linkpoll"} /\ pc' = "app")
              => (\A d \in Datagrams : state'[d] # "QUEUED")]_vars
  <2> SUFFICES ASSUME pc \in {"send", "linkpoll"}, pc' = "app",
                      NEW d \in Datagrams
               PROVE  state'[d] # "QUEUED"
    OBVIOUS
  <2> USE QueueAssumption DEF QueueAssumption
  <2>1. LinkPollDone \/ SendDone
    BY <1>1 DEF Next, Owner, Progress, Prepare, Reinit, Queue, Recreate, ReceiveBegin,
       SendBegin, PollFrame, SetLink, LoseFrame, Tick, ReceiveUnmatched,
       ReceiveCorrupted, PollDone, ReceiveEnd, LinkPoll, FailDatagram,
       TimeoutDatagram, ReceiveDatagram, AddDatagram, TransmitFrame, vars, ovars
  <2>2. /\ UNCHANGED state /\ NextDevice
        /\ state[d] = "QUEUED" => DeviceIndex[d] >= dev + 1
    BY <2>1, <1>1, DeviceDone DEF IInv
  <2>3. dev + 1 >= NumDevices
    BY <2>2, <1>1 DEF NextDevice, TypeOK, Devices
  <2>4. DeviceIndex[d] \in 0 .. NumDevices - 1 /\ dev \in 0 .. NumDevices - 1
    BY <1>1 DEF TypeOK, Devices
  <2> QED BY <2>2, <2>3, <2>4
<1> QED BY <1>1, Invariant, PTL DEF Spec, SendDrains

\* ecrt_master_receive() returns with no datagram beyond its timeout.
THEOREM ReceiveComplete == Spec => ReceiveExpires
<1>1. ASSUME TypeOK, IInv, [Next]_vars
      PROVE  [(pc = "timeouts" /\ pc' = "app") => Expired' = {}]_vars
  <2> SUFFICES ASSUME pc = "timeouts", pc' = "app" PROVE Expired' = {}
    OBVIOUS
  <2>1. ReceiveEnd
    BY <1>1 DEF Next, Owner, Progress, Prepare, Reinit, Queue, Recreate, ReceiveBegin,
       SendBegin, PollFrame, SetLink, LoseFrame, Tick, ReceiveUnmatched,
       ReceiveCorrupted, PollDone, SendDone, LinkPoll, LinkPollDone, NextDevice,
       FailDatagram, TimeoutDatagram, ReceiveDatagram, AddDatagram,
       TransmitFrame, Polling, vars, ovars
  <2>2. Expired = {}
    BY <2>1, <1>1 DEF ReceiveEnd, Expired, IInv, QueueMembership
  <2>3. UNCHANGED <<state, age>>
    BY <2>1 DEF ReceiveEnd, qvars
  <2> QED BY <2>2, <2>3 DEF Expired
<1> QED BY <1>1, Invariant, PTL DEF Spec, ReceiveExpires

\* Every step of the queue is a step of the datagrams' life cycle or leaves
\* it alone: the master keeps its promises to the owners of datagrams.
THEOREM Refinement == Spec => LifeSpec
<1>1. Init => Life!Init
  BY DEF Init, Life!Init
<1>2. ASSUME TypeOK, IInv, [Next]_vars PROVE [Life!Next]_state
  <2> USE <1>2 DEF Life!Next, Life!Settled, Life!Pending, Life!States
  <2>1. ASSUME NEW d \in Datagrams, Prepare(d) PROVE Life!Prepare(d)
    BY <2>1 DEF Prepare, Enter, Life!Prepare, TypeOK, States
  <2>1a. ASSUME NEW d \in Datagrams, Reinit(d) PROVE Life!Prepare(d)
    BY <2>1a, QueueAssumption DEF QueueAssumption, Reinit, Life!Prepare
  <2>2. ASSUME NEW d \in Datagrams, Queue(d) PROVE Life!Submit(d)
    BY <2>2 DEF Queue, QueueDatagram, Enter, Life!Submit, TypeOK, States
  <2>3. ASSUME NEW d \in Datagrams, Recreate(d) PROVE Life!Prepare(d)
    BY <2>3 DEF Recreate, Enter, Life!Prepare
  <2>4. CASE ReceiveDatagram
    <3>1. PICK i \in 1 .. Len(datagram_queue) :
             /\ datagram_queue[i] \in Matching(Head(rx))
             /\ Enter(datagram_queue[i], "RECEIVED")
      BY <2>4 DEF ReceiveDatagram, IsFirst
    <3>2. Life!Answer(datagram_queue[i]) /\ datagram_queue[i] \in Datagrams
      BY <3>1 DEF Matching, Enter, Life!Answer
    <3> QED BY <3>2
  <2>5. CASE TimeoutDatagram
    <3>1. PICK i \in 1 .. Len(datagram_queue) :
             /\ datagram_queue[i] \in Expired
             /\ Enter(datagram_queue[i], "TIMED_OUT")
      BY <2>5 DEF TimeoutDatagram, IsFirst
    <3>2. Life!Expire(datagram_queue[i]) /\ datagram_queue[i] \in Datagrams
      BY <3>1 DEF Expired, Enter, Life!Expire
    <3> QED BY <3>2
  <2>6. CASE FailDatagram
    <3>1. PICK i \in 1 .. Len(datagram_queue) :
             Enter(datagram_queue[i], "ERROR")
      BY <2>6 DEF FailDatagram
    <3>2. datagram_queue[i] \in Datagrams
      BY DEF TypeOK
    <3>3. InQueue(datagram_queue[i])
      BY DEF InQueue, Elems
    <3>4. LET d == datagram_queue[i] IN
          state[d] \in {"QUEUED", "SENT"} \/ (d \in Clocks /\ state[d] = "INIT")
      BY <3>2, <3>3 DEF IInv, QueueMembership
    <3>5. Life!Fail(datagram_queue[i])
      BY <3>1, <3>4 DEF Enter, Life!Fail
    <3> QED BY <3>2, <3>5
  <2>7. CASE TransmitFrame
    <3>1. Elems(frame) \in SUBSET Datagrams
      BY DEF Elems, TypeOK
    <3>2. Life!Transmit(Elems(frame))
      BY <2>7, <3>1 DEF TransmitFrame, Life!Transmit, IInv, FrameInv
    <3> QED BY <3>1, <3>2
  <2>8. CASE \/ ReceiveBegin \/ SendBegin \/ PollFrame \/ SetLink \/ LoseFrame
             \/ Tick \/ ReceiveUnmatched \/ ReceiveCorrupted \/ PollDone
             \/ ReceiveEnd \/ LinkPoll \/ LinkPollDone \/ SendDone
             \/ AddDatagram \/ UNCHANGED vars
    BY <2>8 DEF ReceiveBegin, SendBegin, PollFrame, SetLink, LoseFrame, Tick,
       ReceiveUnmatched, ReceiveCorrupted, PollDone, ReceiveEnd, LinkPoll,
       LinkPollDone, SendDone, AddDatagram, vars, qvars
  <2> QED
    BY <2>1, <2>1a, <2>2, <2>3, <2>4, <2>5, <2>6, <2>7, <2>8
       DEF Next, Owner, Progress
<1> QED BY <1>1, <1>2, Invariant, PTL DEF Spec, LifeSpec, Life!Spec
=============================================================================
