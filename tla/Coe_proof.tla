------------------------------ MODULE Coe_proof ------------------------------
(***************************************************************************)
(* Theorems about Coe for any ring size, any values, any number of         *)
(* transfers and troubles and any length of the slave's queue.             *)
(*                                                                         *)
(* The types, and that the ring of emergency messages stays intact.  The   *)
(* state machine pushes what it finds in the slave's answers, so the       *)
(* ring's theorem needs the types of everything on the way there.          *)
(*                                                                         *)
(* That an upload that nothing disturbs does not fail, and that what a     *)
(* transfer promises its caller (SdoTransfer) is kept.  Both rest on where *)
(* the slave stands with respect to the state machine: how many parts each *)
(* of the two has, which request may still be in the mailbox, and which    *)
(* answers are on their way (Answers).  Steps are told apart by what they  *)
(* do to the answers: some are taken out (Fewer), or one is put at the end *)
(* (More).                                                                 *)
(***************************************************************************)
EXTENDS Coe, EmergRing_proof, SequenceTheorems

Parts == Nat \X Nat
Toggles == {0, 1}
Data == Seq(Parts) \ {<<>>}

Requests ==
    [type : {"down"}, part : Parts, size : Nat \ {0}]
    \cup [type : {"up"}]
    \cup [type : {"down_seg"}, toggle : Toggles, last : BOOLEAN, part : Parts]
    \cup [type : {"up_seg"}, toggle : Toggles]

Responses ==
    [type : {"down"}, own : {TRUE}]
    \cup [type : {"up"}, own : {TRUE}, part : Parts, size : Nat]
    \cup [type : {"eoe", "up"}, own : {FALSE}]
    \cup [type : {"down_seg"}, toggle : Toggles]
    \cup [type : {"up_seg"}, part : Parts, last : BOOLEAN]
    \cup [type : {"abort"}]
    \cup [type : {"emergency"}, msg : Emerg]

Servers ==
    {None} \cup [type : {"down_seg", "up_seg"}, toggle : Toggles, data : Data]

FsmType ==
    /\ state \in Terminal \cup DOMAIN CheckAfter \cup DOMAIN ResponseAfter
                 \cup DOMAIN CheckAgain
    /\ retries \in 0 .. Retries
    /\ expired \in BOOLEAN
    /\ request \in [dir : {"up", "down"}, data : Seq(Parts), n : Nat]
    /\ prog \in [remaining : Nat, complete : Nat, toggle : Toggles]

DatagramType ==
    /\ datagram \in [what : Requests \cup {None, Check, Fetch},
                     state : {"none", "sent", "received", "timed_out", "error"},
                     wc : {0, 1},
                     data : Requests \cup Responses \cup {None}
                            \cup [type : {"empty", "full"}]]
    /\ datagram.what = Fetch => datagram.data \in Responses \cup {None}

SlaveType ==
    /\ rx \in Requests \cup {None}
    /\ tx \in Seq(Responses)
    /\ Len(tx) <= MaxQueue
    /\ server \in Servers
    /\ object \in Data

HistoryType ==
    /\ troubles \in Nat
    /\ emergs \in {0} \cup Emerg
    /\ disturbed \in BOOLEAN
    /\ late \in BOOLEAN

\* The state machine fetches when it waits for a response, and has a part left
\* when it waits for the response to a segment.
FsmInv ==
    /\ state \in DOMAIN CheckAgain => datagram.what = Fetch
    /\ state \in {"down_request", "down_check", "down_response",
                  "down_seg_check", "down_seg_response"}
          => request.dir = "down" /\ prog.remaining < Len(request.data)
    /\ state \in {"down_seg_check", "down_seg_response"} => prog.remaining > 0
    /\ pushing # "none" =>
          Answered /\ state \in DOMAIN CheckAgain /\ datagram.data.type = "emergency"

Inv == FsmType /\ DatagramType /\ SlaveType /\ HistoryType /\ FsmInv /\ RingInv

LEMMA Domains ==
    /\ DOMAIN CheckAfter = {"down_request", "up_request", "up_seg_request"}
    /\ DOMAIN ResponseAfter = {"down_check", "up_check", "down_seg_check", "up_seg_check"}
    /\ DOMAIN CheckAgain = {"down_response", "up_response", "down_seg_response",
                            "up_seg_response"}
    /\ CheckAfter["down_request"] = "down_check"
    /\ CheckAfter["up_request"] = "up_check"
    /\ CheckAfter["up_seg_request"] = "up_seg_check"
    /\ \A s \in DOMAIN ResponseAfter : ResponseAfter[s] \in DOMAIN CheckAgain
    /\ ResponseAfter["down_check"] = "down_response"
    /\ ResponseAfter["down_seg_check"] = "down_seg_response"
    /\ ResponseAfter["up_check"] = "up_response"
    /\ ResponseAfter["up_seg_check"] = "up_seg_response"
    /\ CheckAgain["down_response"] = "down_check"
    /\ CheckAgain["down_seg_response"] = "down_seg_check"
    /\ CheckAgain["up_response"] = "up_check"
    /\ CheckAgain["up_seg_response"] = "up_seg_check"
    /\ CheckAfterEmergency["down_response"] = "down_check"
    /\ CheckAfterEmergency["down_seg_response"] = "down_check"
    /\ CheckAfterEmergency["up_response"] = "up_check"
    /\ CheckAfterEmergency["up_seg_response"] = "up_seg_check"
  BY DEF CheckAfter, ResponseAfter, CheckAgain, CheckAfterEmergency

LEMMA ValueData ==
    ASSUME NEW n \in Nat, NEW size \in Nat \ {0}
    PROVE  /\ Value(n, size) \in Data
           /\ Len(Value(n, size)) = size
           /\ Head(Value(n, size)) \in Parts
<1>1. /\ Value(n, size) \in Seq(Parts) /\ Len(Value(n, size)) = size
  BY DEF Value, Parts
<1> QED
  BY <1>1 DEF Data

\* ec_fsm_coe_init() and an empty ring.
THEOREM InitInv == Init => Inv
<1> SUFFICES ASSUME Init PROVE Inv
  OBVIOUS
<1>1. FsmType
  <2>1. state \in Terminal /\ retries \in 0 .. Retries
    <3>1. Retries \in Nat
      BY CoeAssumption
    <3>2. state = "idle" /\ retries = 0
      BY DEF Init
    <3> QED
      BY <3>1, <3>2 DEF Terminal
  <2>4. expired \in BOOLEAN
    BY DEF Init
  <2>2. request \in [dir : {"up", "down"}, data : Seq(Parts), n : Nat]
    BY DEF Init
  <2>3. prog \in [remaining : Nat, complete : Nat, toggle : Toggles]
    BY DEF Init, Toggles
  <2> QED
    BY <2>1, <2>2, <2>3, <2>4 DEF FsmType
<1>2. DatagramType
  BY DEF Init, DatagramType, Sent, None, Fetch
<1>3. SlaveType
  <2>1. InitialSize \in Nat \ {0} /\ MaxQueue \in Nat \ {0}
    BY CoeAssumption
  <2>2. object \in Data
    BY <2>1, ValueData DEF Init
  <2>3. tx = <<>> /\ rx = None /\ server = None
    BY DEF Init
  <2> QED
    BY <2>1, <2>2, <2>3 DEF SlaveType, Servers
<1>4. HistoryType
  BY DEF Init, HistoryType
<1>5. FsmInv
  BY Domains DEF Init, FsmInv, RingInit
<1> QED
  BY <1>1, <1>2, <1>3, <1>4, <1>5, RingInitInv DEF Init, Inv

LEMMA TroubleType ==
    ASSUME HistoryType, Trouble \/ NoTrouble
    PROVE  troubles' \in Nat /\ disturbed' \in BOOLEAN
<1>1. troubles' \in Nat
  BY DEF HistoryType, Trouble, NoTrouble
<1>2. disturbed' \in BOOLEAN
  <2>1. CASE Trouble
    BY <2>1 DEF Trouble
  <2>2. CASE NoTrouble
    BY <2>2 DEF HistoryType, NoTrouble
  <2> QED
    BY <2>1, <2>2
<1> QED
  BY <1>1, <1>2

LEMMA TailData ==
    ASSUME NEW d \in Data
    PROVE  /\ Head(d) \in Parts /\ Len(d) \in Nat \ {0}
           /\ Len(d) # 1 => Tail(d) \in Data
<1>1. d \in Seq(Parts) /\ d # <<>>
  BY DEF Data
<1>2. Head(d) \in Parts /\ Len(d) \in Nat \ {0}
  BY <1>1
<1>3. ASSUME Len(d) # 1 PROVE Tail(d) \in Data
  <2>1. Tail(d) \in Seq(Parts) /\ Len(Tail(d)) = Len(d) - 1
    BY <1>1
  <2>2. Tail(d) # <<>>
    BY <1>2, <1>3, <2>1
  <2> QED
    BY <2>1, <2>2 DEF Data
<1> QED
  BY <1>2, <1>3

LEMMA AppendData ==
    ASSUME NEW d \in Seq(Parts), NEW x \in Parts
    PROVE  Append(d, x) \in Data
<1>1. Append(d, x) \in Seq(Parts) /\ Len(Append(d, x)) = Len(d) + 1 /\ Len(d) \in Nat
  OBVIOUS
<1>2. Append(d, x) # <<>>
  BY <1>1
<1> QED
  BY <1>1, <1>2 DEF Data

LEMMA OneData ==
    ASSUME NEW x \in Parts
    PROVE  <<x>> \in Data
  BY DEF Data

-----------------------------------------------------------------------------
(* The bus and the slave. *)

LEMMA BusInv ==
    ASSUME Inv, Bus
    PROVE  Inv'
<1> USE DEF Inv
<1>1. UNCHANGED <<state, retries, expired, request, prog, server, object,
                  emergs, late, ringvars>>
  BY DEF Bus
<1>2. FsmType'
  BY <1>1 DEF FsmType
<1>3. RingInv'
  BY <1>1 DEF RingInv, RingType, ringvars
<1>4. ASSUME NEW s \in {"received", "timed_out", "error"}, NEW w \in {0, 1},
             NEW d \in Requests \cup Responses \cup {None} \cup [type : {"empty", "full"}],
             datagram.what = Fetch => d \in Responses \cup {None},
             Back(s, w, d)
      PROVE  DatagramType' /\ datagram'.what = datagram.what
  BY <1>4 DEF DatagramType, Back
<1>5. DatagramType' /\ datagram'.what = datagram.what /\ rx' \in Requests \cup {None}
      /\ tx' \in Seq(Responses) /\ Len(tx') <= MaxQueue
  <2>1. ASSUME NEW s \in {"received", "timed_out", "error"}, Pass(s)
        PROVE  <1>5
    <3>1. CASE datagram.what = Check
      BY <1>4, <2>1, <3>1 DEF Pass, SlaveType, Check, Fetch
    <3>2. CASE datagram.what = Fetch /\ tx = <<>>
      <4>1. Back(s, 0, None) /\ UNCHANGED <<rx, tx>>
        BY <2>1, <3>2 DEF Pass, Check, Fetch
      <4> QED
        BY <1>4, <4>1 DEF SlaveType
    <3>3. CASE datagram.what = Fetch /\ tx # <<>>
      <4>1. Back(s, 1, Head(tx)) /\ tx' = Tail(tx) /\ rx' = rx
        BY <2>1, <3>3 DEF Pass, Check, Fetch
      <4>2. Head(tx) \in Responses /\ Tail(tx) \in Seq(Responses)
            /\ Len(Tail(tx)) <= MaxQueue
        BY <3>3, CoeAssumption DEF SlaveType
      <4> QED
        BY <1>4, <4>1, <4>2 DEF SlaveType
    <3>4. CASE datagram.what \notin {Check, Fetch}
      <4>1. \E w \in {0, 1} : Back(s, w, datagram.what)
        BY <2>1, <3>4 DEF Pass
      <4>2. datagram.what \in Requests \cup {None}
        BY <3>4 DEF DatagramType
      <4>3. rx' \in {rx, datagram.what} /\ tx' = tx
        BY <2>1, <3>4 DEF Pass
      <4> QED
        BY <1>4, <3>4, <4>1, <4>2, <4>3 DEF SlaveType
    <3> QED
      BY <3>1, <3>2, <3>3, <3>4
  <2>2. ASSUME NEW s \in {"timed_out", "error"}, Back(s, 0, None), UNCHANGED <<rx, tx>>
        PROVE  <1>5
    BY <1>4, <2>2 DEF SlaveType
  <2> QED
    BY <2>1, <2>2 DEF Bus
<1>6. HistoryType'
  <2>1. Trouble \/ NoTrouble
    BY DEF Bus
  <2> QED
    BY <1>1, <2>1, TroubleType DEF HistoryType
<1>7. SlaveType'
  BY <1>1, <1>5 DEF SlaveType
<1>8. FsmInv'
  <2>1. pushing = "none"
    BY DEF Bus, FsmInv, Answered, Received
  <2> QED
    BY <1>1, <1>5, <2>1 DEF FsmInv, ringvars
<1> QED
  BY <1>2, <1>3, <1>5, <1>6, <1>7, <1>8

LEMMA AnswerType ==
    ASSUME SlaveType, NEW m \in Responses, Answer(m)
    PROVE  tx' \in Seq(Responses) /\ Len(tx') <= MaxQueue
  BY CoeAssumption DEF SlaveType, Answer

LEMMA ServeInv ==
    ASSUME Inv, Serve
    PROVE  Inv'
<1> USE DEF Inv
<1>1. UNCHANGED <<fsmvars, emergs, late, ringvars>> /\ rx' = None /\ rx # None
  BY DEF Serve
<1>2. tx' \in Seq(Responses) /\ Len(tx') <= MaxQueue /\ server' \in Servers
      /\ object' \in Data
  <2> None \in Servers /\ object \in Data /\ {0, 1} = Toggles
    BY DEF Servers, SlaveType, Toggles
  <2>1. CASE Initiate
    <3>1. CASE rx.type = "down"
      <4>1. rx.part \in Parts
        BY <1>1, <3>1 DEF SlaveType, Requests
      <4>2. <<rx.part>> \in Data
        BY <4>1, OneData
      <4>3. [type |-> "down", own |-> TRUE] \in Responses
        BY DEF Responses
      <4>4. [type |-> "down_seg", toggle |-> 0, data |-> <<rx.part>>] \in Servers
        BY <4>2 DEF Servers, Toggles
      <4> QED
        BY <2>1, <3>1, <4>2, <4>3, <4>4, AnswerType DEF Initiate
    <3>2. CASE rx.type = "up"
      <4>1. Head(object) \in Parts /\ Len(object) \in Nat
        BY TailData
      <4>2. ASSUME Len(object) # 1
            PROVE  [type |-> "up_seg", toggle |-> 0, data |-> Tail(object)] \in Servers
        BY <4>2, TailData DEF Servers, Toggles
      <4>3. [type |-> "up", own |-> TRUE, part |-> Head(object),
             size |-> Len(object)] \in Responses
        BY <4>1 DEF Responses
      <4> QED
        BY <2>1, <3>2, <4>2, <4>3, AnswerType DEF Initiate
    <3> QED
      BY <2>1, <3>1, <3>2 DEF Initiate
  <2>2. CASE Segment
    <3>1. server \in [type : {"down_seg", "up_seg"}, toggle : Toggles, data : Data]
      BY <1>1, <2>2 DEF Segment, InTurn, SlaveType, Servers, None, Requests
    <3>2. ASSUME NEW d \in Data
          PROVE  [server EXCEPT !.toggle = 1 - @, !.data = d] \in Servers
      <4>1. 1 - server.toggle \in Toggles
        BY <3>1 DEF Toggles
      <4> QED
        BY <3>1, <4>1 DEF Servers
    <3>3. CASE rx.type = "down_seg"
      <4>1. rx.part \in Parts /\ rx.toggle \in Toggles
        BY <1>1, <3>3 DEF SlaveType, Requests
      <4>2. Append(server.data, rx.part) \in Data
        BY <3>1, <4>1, AppendData DEF Data
      <4>3. [type |-> "down_seg", toggle |-> rx.toggle] \in Responses
        BY <4>1 DEF Responses
      <4> QED
        BY <2>2, <3>2, <3>3, <4>2, <4>3, AnswerType DEF Segment
    <3>4. CASE rx.type = "up_seg"
      <4>1. server.data \in Data
        BY <3>1
      <4>2. Head(server.data) \in Parts /\ (Len(server.data) # 1 => Tail(server.data) \in Data)
        BY <4>1, TailData
      <4>3. [type |-> "up_seg", part |-> Head(server.data),
             last |-> Len(server.data) = 1] \in Responses
        BY <4>2 DEF Responses
      <4> QED
        BY <2>2, <3>2, <3>4, <4>2, <4>3, AnswerType DEF Segment
    <3> QED
      BY <2>2, <3>3, <3>4 DEF Segment
  <2>3. CASE Abort
    <3>1. [type |-> "abort"] \in Responses
      BY DEF Responses
    <3> QED
      BY <2>3, <3>1, AnswerType DEF Abort
  <2> QED
    BY <2>1, <2>2, <2>3 DEF Serve
<1>3. SlaveType'
  BY <1>1, <1>2 DEF SlaveType
<1>4. HistoryType'
  <2>1. Trouble \/ NoTrouble
    BY DEF Serve
  <2> QED
    BY <1>1, <2>1, TroubleType DEF HistoryType
<1> QED
  BY <1>1, <1>3, <1>4 DEF FsmType, DatagramType, FsmInv, RingInv, RingType, fsmvars,
     ringvars, Answered, Received

LEMMA OutsideInv ==
    ASSUME Inv, UNCHANGED <<fsmvars, ringvars>>, SlaveType', HistoryType'
    PROVE  Inv'
  BY DEF Inv, FsmType, DatagramType, FsmInv, RingInv, RingType, fsmvars, ringvars,
     Answered, Received

LEMMA EmergencyInv ==
    ASSUME Inv, Emergency
    PROVE  Inv'
<1>1. emergs + 1 \in Emerg /\ emergs' = emergs + 1
      /\ UNCHANGED <<rx, server, object, troubles, disturbed, late>>
      /\ UNCHANGED <<fsmvars, ringvars>>
  BY DEF Emergency, fsmvars, ringvars
<1>2. [type |-> "emergency", msg |-> emergs + 1] \in Responses
  BY <1>1 DEF Responses
<1>3. SlaveType'
  BY <1>1, <1>2, AnswerType DEF Emergency, SlaveType, Inv
<1>4. HistoryType'
  BY <1>1 DEF HistoryType, Inv
<1> QED
  BY <1>1, <1>3, <1>4, OutsideInv

LEMMA OtherAnswerInv ==
    ASSUME Inv, OtherAnswer
    PROVE  Inv'
<1>1. troubles' = troubles + 1
      /\ UNCHANGED <<rx, server, object, emergs, late>>
      /\ UNCHANGED <<fsmvars, ringvars>>
  BY DEF OtherAnswer, fsmvars, ringvars
<1>2. PICK o \in Others : /\ Answer([type |-> o, own |-> FALSE])
                          /\ disturbed' = (disturbed \/ o # "up")
  BY DEF OtherAnswer
<1>3. [type |-> o, own |-> FALSE] \in Responses
  BY CoeAssumption DEF Responses
<1>4. SlaveType'
  BY <1>1, <1>2, <1>3, AnswerType DEF SlaveType, Inv
<1>5. disturbed' \in BOOLEAN
  BY <1>2
<1>6. HistoryType'
  BY <1>1, <1>5 DEF HistoryType, Inv
<1> QED
  BY <1>1, <1>4, <1>6, OutsideInv

LEMMA TheftInv ==
    ASSUME Inv, Theft
    PROVE  Inv'
<1>1. UNCHANGED <<rx, server, object, emergs, late>>
      /\ UNCHANGED <<fsmvars, ringvars>> /\ tx # <<>> /\ tx' = Tail(tx)
  BY DEF Theft, fsmvars, ringvars
<1>2. tx' \in Seq(Responses) /\ Len(tx') <= MaxQueue
  BY <1>1, CoeAssumption DEF SlaveType, Inv
<1>3. SlaveType'
  BY <1>1, <1>2 DEF SlaveType, Inv
<1>4. HistoryType'
  BY <1>1, TroubleType DEF Theft, HistoryType, Inv
<1> QED
  BY <1>1, <1>3, <1>4, OutsideInv

LEMMA ExpireInv ==
    ASSUME Inv, Expire
    PROVE  Inv'
<1>1. UNCHANGED <<state, datagram, retries, request, prog, slavevars, troubles,
                  emergs, late, ringvars>> /\ expired' = TRUE
  BY DEF Expire
<1>2. disturbed' \in BOOLEAN
  BY DEF Expire, HistoryType, Inv
<1>3. FsmType'
  BY <1>1 DEF FsmType, Inv
<1>4. DatagramType' /\ SlaveType'
  BY <1>1 DEF DatagramType, SlaveType, slavevars, Inv
<1>5. HistoryType'
  BY <1>1, <1>2 DEF HistoryType, Inv
<1>6. FsmInv' /\ RingInv'
  BY <1>1 DEF FsmInv, RingInv, RingType, ringvars, Answered, Received, Inv
<1> QED
  BY <1>3, <1>4, <1>5, <1>6 DEF Inv

-----------------------------------------------------------------------------
(* The state machine. *)

States == Terminal \cup DOMAIN CheckAfter \cup DOMAIN ResponseAfter
          \cup DOMAIN CheckAgain

Downs == {"down_request", "down_check", "down_response", "down_seg_check",
          "down_seg_response"}

LEMMA SendType ==
    ASSUME NEW what \in Requests \cup {None, Check, Fetch}, Send(what)
    PROVE  DatagramType' /\ datagram'.what = what /\ datagram'.state = "sent"
<1>1. datagram' = [what |-> what, state |-> "sent", wc |-> 0, data |-> None]
  BY DEF Send, Sent
<1> QED
  BY <1>1 DEF DatagramType

\* A step of the state machine that leaves the transfer's data alone, to a
\* state that the invariant allows, with nothing being pushed.
LEMMA EnterInv ==
    ASSUME Inv, NEW s \in States, NEW what \in Requests \cup {None, Check, Fetch},
           Enter(s, what), expired' \in BOOLEAN, UNCHANGED <<request, prog>>,
           s \in DOMAIN CheckAgain => what = Fetch,
           s \in Downs => state \in Downs,
           s \in {"down_seg_check", "down_seg_response"} =>
               state \in {"down_seg_check", "down_seg_response"},
           pushing' = "none"
    PROVE  FsmType' /\ DatagramType' /\ FsmInv'
<1>1. state' = s /\ Send(what) /\ retries' = Retries /\ Retries \in Nat
  BY CoeAssumption DEF Enter
<1>2. DatagramType' /\ datagram'.what = what
  BY <1>1, SendType
<1>3. FsmType'
  BY <1>1 DEF FsmType, Inv, States
<1>4. FsmInv'
  BY <1>1, <1>2, Domains DEF FsmInv, Inv, Downs
<1> QED
  BY <1>2, <1>3, <1>4

LEMMA EndInv ==
    ASSUME Inv, NEW s \in {"end", "error"}, End(s), UNCHANGED expired,
           request' \in [dir : {"up", "down"}, data : Seq(Parts), n : Nat],
           prog' \in [remaining : Nat, complete : Nat, toggle : Toggles],
           pushing' = "none"
    PROVE  FsmType' /\ DatagramType' /\ FsmInv'
<1>1. state' = s /\ UNCHANGED <<datagram, retries>>
  BY DEF End
<1>2. FsmType'
  BY <1>1 DEF FsmType, Inv, Terminal
<1>3. DatagramType'
  BY <1>1 DEF DatagramType, Inv
<1>4. FsmInv'
  BY <1>1, Domains DEF FsmInv
<1> QED
  BY <1>2, <1>3, <1>4

LEMMA StartInv ==
    ASSUME Inv, Start
    PROVE  Inv'
<1>1. state \notin DOMAIN CheckAgain
  BY Domains DEF Start, Busy, Terminal, FsmInv, Inv
<1>2. pushing = "none"
  BY <1>1 DEF FsmInv, Inv
<1>3. UNCHANGED <<slavevars, troubles, emergs, ringvars>> /\ retries' = Retries
      /\ expired' = FALSE /\ Retries \in Nat
  BY CoeAssumption DEF Start
<1>10. expired' \in BOOLEAN /\ retries' \in 0 .. Retries
  <2>1. expired' \in BOOLEAN
    BY <1>3
  <2>2. retries' \in 0 .. Retries
    BY <1>3
  <2> QED
    BY <2>1, <2>2
<1>4. disturbed' \in BOOLEAN
  BY DEF Start
<1>5. late' \in BOOLEAN
  BY DEF Start
<1>6. HistoryType' /\ SlaveType' /\ RingInv'
  BY <1>3, <1>4, <1>5 DEF HistoryType, SlaveType, slavevars, RingInv, RingType,
     ringvars, Inv
<1>7. request.n + 1 \in Nat
  BY DEF FsmType, Inv
<1>8. PICK dir \in {"up", "down"}, size \in Sizes :
        LET data == IF dir = "up" THEN <<>> ELSE Value(request.n + 1, size) IN
          /\ request' = [dir |-> dir, data |-> data, n |-> request.n + 1]
          /\ state' = IF dir = "up" THEN "up_request" ELSE "down_request"
          /\ Send(IF dir = "up" THEN [type |-> "up"]
                  ELSE [type |-> "down", part |-> Head(data), size |-> size])
          /\ IF dir = "up" THEN UNCHANGED <<prog, asked>>
             ELSE /\ prog' = [prog EXCEPT !.remaining = size - 1]
                  /\ asked' = asked \cup {data}
  BY DEF Start
<1>9. FsmType' /\ DatagramType' /\ FsmInv'
  <2>1. CASE dir = "up"
    <3>1. /\ request' = [dir |-> "up", data |-> <<>>, n |-> request.n + 1]
          /\ state' = "up_request" /\ Send([type |-> "up"]) /\ prog' = prog
      BY <1>8, <2>1
    <3>2. [type |-> "up"] \in Requests
      BY DEF Requests
    <3>3. DatagramType'
      BY <3>1, <3>2, SendType
    <3>6. request' \in [dir : {"up", "down"}, data : Seq(Parts), n : Nat]
      BY <1>7, <3>1
    <3>4. FsmType'
      BY <1>10, <3>1, <3>6, Domains DEF FsmType, Inv
    <3>5. FsmInv'
      BY <1>2, <1>3, <3>1, Domains DEF FsmInv, ringvars
    <3> QED
      BY <3>3, <3>4, <3>5
  <2>2. CASE dir = "down"
    <3> DEFINE v == Value(request.n + 1, size)
    <3>1. /\ request' = [dir |-> "down", data |-> v, n |-> request.n + 1]
          /\ state' = "down_request"
          /\ Send([type |-> "down", part |-> Head(v), size |-> size])
          /\ prog' = [prog EXCEPT !.remaining = size - 1]
      BY <1>8, <2>2
    <3>2. size \in Nat \ {0}
      BY CoeAssumption
    <3>3. v \in Data /\ Len(v) = size /\ Head(v) \in Parts
      BY <1>7, <3>2, ValueData
    <3> HIDE DEF v
    <3>4. [type |-> "down", part |-> Head(v), size |-> size] \in Requests
      BY <3>2, <3>3 DEF Requests
    <3>5. DatagramType'
      BY <3>1, <3>4, SendType
    <3>6. prog' \in [remaining : Nat, complete : Nat, toggle : Toggles]
          /\ prog'.remaining = size - 1
      BY <3>1, <3>2 DEF FsmType, Inv
    <3>7. request' \in [dir : {"up", "down"}, data : Seq(Parts), n : Nat]
      BY <1>7, <3>1, <3>3 DEF Data
    <3>8. FsmType'
      BY <1>10, <3>1, <3>6, <3>7, Domains DEF FsmType
    <3>9. FsmInv'
      BY <1>2, <1>3, <3>1, <3>2, <3>3, <3>6, Domains DEF FsmInv, ringvars
    <3> QED
      BY <3>5, <3>8, <3>9
  <2> QED
    BY <2>1, <2>2
<1> QED
  BY <1>6, <1>9 DEF Inv

\* No step but the end of a push is taken while one is begun.
LEMMA NotPushing ==
    ASSUME Inv, \/ TimedOut \/ ~Received \/ datagram.wc = 0
                \/ state \notin DOMAIN CheckAgain
                \/ datagram.data.type # "emergency"
    PROVE  pushing = "none"
  BY DEF Inv, FsmInv, Answered, Received, TimedOut

LEMMA RetryInv ==
    ASSUME Inv, Retry
    PROVE  FsmType' /\ DatagramType' /\ FsmInv' /\ RingInv'
<1>1. UNCHANGED <<state, expired, request, prog, ringvars>> /\ TimedOut
      /\ retries' = retries - 1
  BY DEF Retry
<1>2. pushing = "none"
  BY <1>1, NotPushing
<1>3. retries' \in 0 .. Retries
  BY <1>1, CoeAssumption DEF FsmType, Inv, TimedOut
<1>4. FsmType' /\ RingInv'
  BY <1>1, <1>3 DEF FsmType, RingInv, RingType, ringvars, Inv
<1>5. DatagramType' /\ (state \in DOMAIN CheckAgain => datagram'.what = Fetch)
  <2>1. CASE Send(datagram.what)
    <3>1. datagram.what \in Requests \cup {None, Check, Fetch}
      BY DEF DatagramType, Inv
    <3> QED
      BY <2>1, <3>1, SendType DEF FsmInv, Inv
  <2>2. CASE state = "down_seg_check" /\ datagram' \in SlotContents
    <3>1. CASE datagram' \in [what : {None}, state : {"received"}, wc : {1},
                              data : [type : {"empty", "full"}]]
      <4>1. None # Fetch
        BY DEF None, Fetch
      <4> QED
        BY <2>2, <3>1, <4>1, Domains DEF DatagramType
    <3>2. CASE datagram' \in {[Sent(None) EXCEPT !.state = t] :
                                 t \in {"received", "timed_out", "error"}}
      <4>1. PICK t \in {"received", "timed_out", "error"} :
                 datagram' = [what |-> None, state |-> t, wc |-> 0, data |-> None]
        BY <3>2 DEF Sent
      <4> QED
        BY <2>2, <4>1, Domains DEF DatagramType
    <3> QED
      BY <2>2, <3>1, <3>2 DEF SlotContents
  <2> QED
    BY <2>1, <2>2 DEF Retry
<1>6. FsmInv'
  BY <1>1, <1>2, <1>5 DEF FsmInv, ringvars, Inv
<1> QED
  BY <1>4, <1>5, <1>6

LEMMA NotReceivedInv ==
    ASSUME Inv, NotReceived
    PROVE  FsmType' /\ DatagramType' /\ FsmInv' /\ RingInv'
<1>1. pushing' = "none" /\ RingInv'
  BY NotPushing DEF NotReceived, ringvars, RingInv, RingType, Inv
<1> QED
  BY <1>1, EndInv DEF NotReceived, FsmType, Inv

LEMMA WrongCounterInv ==
    ASSUME Inv, WrongCounter
    PROVE  FsmType' /\ DatagramType' /\ FsmInv' /\ RingInv'
<1>1. pushing' = "none" /\ RingInv'
  BY NotPushing DEF WrongCounter, ringvars, RingInv, RingType, Inv
<1>2. CASE state \in {"down_request", "up_request"} /\ ~expired
  <2>1. datagram.what \in Requests \cup {None, Check, Fetch}
    BY DEF DatagramType, Inv
  <2>2. UNCHANGED <<state, retries, expired, request, prog>> /\ Send(datagram.what)
    BY <1>2 DEF WrongCounter
  <2>3. DatagramType'
    BY <2>1, <2>2, SendType
  <2>4. FsmType'
    BY <2>2 DEF FsmType, Inv
  <2>5. FsmInv'
    BY <1>1, <1>2, <2>2, Domains DEF FsmInv, Inv
  <2> QED
    BY <1>1, <2>3, <2>4, <2>5
<1>3. CASE ~(state \in {"down_request", "up_request"} /\ ~expired)
  <2>1. End("error") /\ UNCHANGED <<expired, request, prog>>
    BY <1>3 DEF WrongCounter
  <2> QED
    BY <1>1, <2>1, EndInv DEF FsmType, Inv
<1> QED
  BY <1>2, <1>3

LEMMA RequestedInv ==
    ASSUME Inv, Requested
    PROVE  FsmType' /\ DatagramType' /\ FsmInv' /\ RingInv'
<1>1. state \in DOMAIN CheckAfter /\ Enter(CheckAfter[state], Check)
      /\ UNCHANGED <<request, prog>>
  BY DEF Requested
<1>2. pushing' = "none" /\ RingInv'
  BY <1>1, NotPushing, Domains DEF Requested, ringvars, RingInv, RingType, Inv
<1>3. expired' \in BOOLEAN
  BY DEF Requested
<1>4. /\ CheckAfter[state] \in States \ DOMAIN CheckAgain
      /\ CheckAfter[state] \in Downs => state \in Downs
      /\ CheckAfter[state] \notin {"down_seg_check", "down_seg_response"}
  BY <1>1, Domains DEF States, Downs
<1> QED
  BY <1>1, <1>2, <1>3, <1>4, EnterInv

LEMMA CheckedInv ==
    ASSUME Inv, Checked
    PROVE  FsmType' /\ DatagramType' /\ FsmInv' /\ RingInv'
<1>1. state \in DOMAIN ResponseAfter /\ UNCHANGED <<expired, request, prog>>
  BY DEF Checked
<1>2. pushing' = "none" /\ RingInv'
  BY <1>1, NotPushing, Domains DEF Checked, ringvars, RingInv, RingType, Inv
<1>3. expired' \in BOOLEAN
  BY <1>1 DEF FsmType, Inv
<1>4. /\ ResponseAfter[state] \in States /\ state \in States \ DOMAIN CheckAgain
      /\ ResponseAfter[state] \in Downs => state \in Downs
      /\ ResponseAfter[state] \in {"down_seg_check", "down_seg_response"} =>
            state \in {"down_seg_check", "down_seg_response"}
  BY <1>1, Domains DEF States, Downs
<1>5. CASE Enter(ResponseAfter[state], Fetch)
  BY <1>1, <1>2, <1>3, <1>4, <1>5, EnterInv
<1>6. CASE Enter(state, Check)
  BY <1>1, <1>2, <1>3, <1>4, <1>6, EnterInv
<1>7. CASE End("error")
  BY <1>1, <1>2, <1>7, EndInv DEF FsmType, Inv
<1> QED
  BY <1>5, <1>6, <1>7 DEF Checked

LEMMA EmergencyMessage ==
    ASSUME NEW m \in Responses \cup {None}, m.type = "emergency"
    PROVE  m.msg \in Emerg
<1>1. m # None
  BY DEF None
<1>2. m \notin [type : {"down"}, own : {TRUE}]
  OBVIOUS
<1>3. m \notin [type : {"up"}, own : {TRUE}, part : Parts, size : Nat]
  OBVIOUS
<1>4. m \notin [type : {"eoe", "up"}, own : {FALSE}]
  OBVIOUS
<1>5. m \notin [type : {"down_seg"}, toggle : Toggles]
  OBVIOUS
<1>6. m \notin [type : {"up_seg"}, part : Parts, last : BOOLEAN]
  OBVIOUS
<1>7. m \notin [type : {"abort"}]
  OBVIOUS
<1>8. m \in [type : {"emergency"}, msg : Emerg]
  BY <1>1, <1>2, <1>3, <1>4, <1>5, <1>6, <1>7, Zenon DEF Responses
<1> QED
  BY <1>8

LEMMA PushEmergencyInv ==
    ASSUME Inv, PushEmergency
    PROVE  FsmType' /\ DatagramType' /\ FsmInv' /\ RingInv'
<1>1. UNCHANGED fsmvars /\ Answered /\ state \in DOMAIN CheckAgain
      /\ datagram.data.type = "emergency" /\ PushBegin(datagram.data.msg)
  BY DEF PushEmergency
<1>2. datagram.data \in Responses \cup {None}
  BY <1>1 DEF DatagramType, FsmInv, Inv
<1>3. datagram.data.msg \in Emerg
  BY <1>1, <1>2, EmergencyMessage
<1>4. RingInv'
  BY <1>1, <1>3, PushBeginInv DEF Inv
<1>5. FsmType' /\ DatagramType'
  BY <1>1 DEF FsmType, DatagramType, fsmvars, Inv
<1>6. FsmInv'
  BY <1>1 DEF FsmInv, fsmvars, Answered, Received, Inv
<1> QED
  BY <1>4, <1>5, <1>6

LEMMA EmergencyDoneInv ==
    ASSUME Inv, EmergencyDone
    PROVE  FsmType' /\ DatagramType' /\ FsmInv' /\ RingInv'
<1>1. UNCHANGED <<expired, request, prog>> /\ Enter(CheckAfterEmergency[state], Check)
      /\ PushEnd
  BY DEF EmergencyDone
<1>2. state \in DOMAIN CheckAgain /\ pushing' = "none"
  BY <1>1 DEF FsmInv, PushEnd, Inv
<1>3. RingInv'
  BY <1>1, PushEndInv DEF Inv
<1>4. /\ CheckAfterEmergency[state] \in States \ DOMAIN CheckAgain
      /\ CheckAfterEmergency[state] \in Downs => state \in Downs
      /\ CheckAfterEmergency[state] \notin {"down_seg_check", "down_seg_response"}
  BY <1>2, Domains DEF States, Downs
<1>5. expired' \in BOOLEAN
  BY <1>1 DEF FsmType, Inv
<1> QED
  BY <1>1, <1>2, <1>3, <1>4, <1>5, EnterInv

LEMMA RefusedInv ==
    ASSUME Inv, Refused
    PROVE  FsmType' /\ DatagramType' /\ FsmInv' /\ RingInv'
<1>1. pushing' = "none" /\ RingInv'
  BY NotPushing DEF Refused, ringvars, RingInv, RingType, Inv
<1> QED
  BY <1>1, EndInv DEF Refused, FsmType, Inv

LEMMA UnexpectedInv ==
    ASSUME Inv, Unexpected
    PROVE  FsmType' /\ DatagramType' /\ FsmInv' /\ RingInv'
<1>1. state \in DOMAIN CheckAgain /\ Enter(CheckAgain[state], Check)
      /\ UNCHANGED <<expired, request, prog>>
  BY DEF Unexpected
<1>2. pushing' = "none" /\ RingInv'
  BY NotPushing DEF Unexpected, ringvars, RingInv, RingType, Inv
<1>3. expired' \in BOOLEAN
  BY <1>1 DEF FsmType, Inv
<1>4. /\ CheckAgain[state] \in States \ DOMAIN CheckAgain
      /\ CheckAgain[state] \in Downs => state \in Downs
      /\ CheckAgain[state] \in {"down_seg_check", "down_seg_response"} =>
            state \in {"down_seg_check", "down_seg_response"}
  BY <1>1, Domains DEF States, Downs
<1> QED
  BY <1>1, <1>2, <1>3, <1>4, EnterInv

LEMMA DownloadInv ==
    ASSUME Inv, NEW remaining \in Nat, NEW toggle \in Toggles,
           Download(remaining, toggle), state \in Downs,
           remaining < Len(request.data), pushing' = "none"
    PROVE  FsmType' /\ DatagramType' /\ FsmInv'
<1>1. prog' = [prog EXCEPT !.remaining = remaining, !.toggle = toggle]
      /\ UNCHANGED <<expired, request>>
  BY DEF Download
<1>2. prog' \in [remaining : Nat, complete : Nat, toggle : Toggles]
      /\ prog'.remaining = remaining
  BY <1>1 DEF FsmType, Inv
<1>3. request.dir = "down" /\ request.data \in Seq(Parts)
      /\ request \in [dir : {"up", "down"}, data : Seq(Parts), n : Nat]
  BY DEF FsmType, FsmInv, Downs, Inv
<1>4. CASE remaining = 0
  <2>1. End("end")
    BY <1>4 DEF Download
  <2> QED
    BY <1>1, <1>2, <1>3, <2>1, EndInv
<1>5. CASE remaining # 0
  <2>1. state' = "down_seg_check" /\ Send(DownSegment(remaining, toggle))
        /\ UNCHANGED retries
    BY <1>5 DEF Download
  <2>2. DownSegment(remaining, toggle) \in Requests
    <3>1. Len(request.data) - remaining + 1 \in 1 .. Len(request.data)
      BY <1>3, <1>5
    <3>2. request.data[Len(request.data) - remaining + 1] \in Parts
      BY <1>3, <3>1
    <3>3. (remaining = 1) \in BOOLEAN
      OBVIOUS
    <3> QED
      BY <3>2, <3>3 DEF DownSegment, Requests
  <2>3. DatagramType'
    BY <2>1, <2>2, SendType
  <2>4. FsmType'
    BY <1>1, <1>2, <2>1, Domains DEF FsmType, Inv
  <2>5. FsmInv'
    BY <1>1, <1>2, <1>3, <1>5, <2>1, Domains DEF FsmInv
  <2> QED
    BY <2>3, <2>4, <2>5
<1> QED
  BY <1>4, <1>5

LEMMA DownResponseInv ==
    ASSUME Inv, DownResponse, UNCHANGED ringvars
    PROVE  FsmType' /\ DatagramType' /\ FsmInv' /\ RingInv'
<1>1. Response("down_response", "down") /\ Download(prog.remaining, 0)
  BY DEF DownResponse
<1>2. pushing' = "none" /\ RingInv'
  BY <1>1, NotPushing DEF Response, ringvars, RingInv, RingType, Inv
<1>3. state \in Downs /\ prog.remaining < Len(request.data)
      /\ prog.remaining \in Nat /\ 0 \in Toggles
  BY <1>1 DEF Response, Downs, FsmInv, FsmType, Toggles, Inv
<1> QED
  BY <1>1, <1>2, <1>3, DownloadInv

LEMMA DownSegResponseInv ==
    ASSUME Inv, DownSegResponse, UNCHANGED ringvars
    PROVE  FsmType' /\ DatagramType' /\ FsmInv' /\ RingInv'
<1>1. Response("down_seg_response", "down_seg")
  BY DEF DownSegResponse
<1>2. pushing' = "none" /\ RingInv'
  BY <1>1, NotPushing DEF Response, ringvars, RingInv, RingType, Inv
<1>3. CASE Download(prog.remaining - 1, 1 - prog.toggle)
  <2>1. prog.remaining \in Nat /\ prog.toggle \in Toggles
        /\ request.data \in Seq(Parts)
    BY DEF FsmType, Inv
  <2>2. state \in Downs /\ prog.remaining < Len(request.data) /\ prog.remaining > 0
    BY <1>1 DEF Response, Downs, FsmInv, Inv
  <2>3. prog.remaining - 1 \in Nat /\ prog.remaining - 1 < Len(request.data)
    BY <2>1, <2>2
  <2>4. 1 - prog.toggle \in Toggles
    BY <2>1 DEF Toggles
  <2> QED
    BY <1>2, <1>3, <2>2, <2>3, <2>4, DownloadInv
<1>4. CASE End("error") /\ UNCHANGED <<expired, request, prog>>
  BY <1>2, <1>4, EndInv DEF FsmType, Inv
<1> QED
  BY <1>3, <1>4 DEF DownSegResponse

LEMMA UpResponseInv ==
    ASSUME Inv, UpResponse, UNCHANGED ringvars
    PROVE  FsmType' /\ DatagramType' /\ FsmInv' /\ RingInv'
<1>1. /\ Response("up_response", "up") /\ datagram.data.own
      /\ request' = [request EXCEPT !.data = <<datagram.data.part>>]
      /\ prog' = [prog EXCEPT !.complete = datagram.data.size, !.toggle = 0]
      /\ UNCHANGED expired
  BY DEF UpResponse
<1>2. pushing' = "none" /\ RingInv'
  BY <1>1, NotPushing DEF Response, ringvars, RingInv, RingType, Inv
<1>3. datagram.data \in Responses
  BY <1>1, Domains DEF Response, FsmInv, DatagramType, None, Inv
<1>4. datagram.data.part \in Parts /\ datagram.data.size \in Nat
  BY <1>1, <1>3 DEF Response, Responses
<1>5. request' \in [dir : {"up", "down"}, data : Seq(Parts), n : Nat]
  <2>1. <<datagram.data.part>> \in Seq(Parts)
    BY <1>4
  <2> QED
    BY <1>1, <2>1 DEF FsmType, Inv
<1>6. prog' \in [remaining : Nat, complete : Nat, toggle : Toggles]
  BY <1>1, <1>4 DEF FsmType, Toggles, Inv
<1>7. CASE End("end")
  BY <1>1, <1>2, <1>5, <1>6, <1>7, EndInv
<1>8. CASE Enter("up_seg_request", UpSegment(0))
  <2>1. UpSegment(0) \in Requests
    BY DEF UpSegment, Requests, Toggles
  <2>2. state' = "up_seg_request" /\ Send(UpSegment(0)) /\ retries' = Retries
        /\ Retries \in Nat
    BY <1>8, CoeAssumption DEF Enter
  <2>3. DatagramType'
    BY <2>1, <2>2, SendType
  <2>4. FsmType'
    BY <1>1, <1>5, <1>6, <2>2, Domains DEF FsmType, Inv
  <2>5. FsmInv'
    BY <1>2, <2>2, Domains DEF FsmInv
  <2> QED
    BY <1>2, <2>3, <2>4, <2>5
<1> QED
  BY <1>7, <1>8 DEF UpResponse

LEMMA UpSegResponseInv ==
    ASSUME Inv, UpSegResponse, UNCHANGED ringvars
    PROVE  FsmType' /\ DatagramType' /\ FsmInv' /\ RingInv'
<1>1. Response("up_seg_response", "up_seg") /\ UNCHANGED expired
  BY DEF UpSegResponse
<1>2. pushing' = "none" /\ RingInv'
  BY <1>1, NotPushing DEF Response, ringvars, RingInv, RingType, Inv
<1>3. datagram.data \in Responses
  BY <1>1, Domains DEF Response, FsmInv, DatagramType, None, Inv
<1>4. datagram.data.part \in Parts
  BY <1>1, <1>3 DEF Response, Responses
<1>5. request.data \in Seq(Parts) /\ prog.toggle \in Toggles
  BY DEF FsmType, Inv
<1>6. CASE End("error") /\ UNCHANGED <<request, prog>>
  BY <1>1, <1>2, <1>6, EndInv DEF FsmType, Inv
<1>7. CASE request' = [request EXCEPT !.data = Append(@, datagram.data.part)]
  <2>1. request' \in [dir : {"up", "down"}, data : Seq(Parts), n : Nat]
    <3>1. Append(request.data, datagram.data.part) \in Seq(Parts)
      BY <1>4, <1>5
    <3> QED
      BY <1>7, <3>1 DEF FsmType, Inv
  <2>2. CASE End("end") /\ UNCHANGED prog
    BY <1>1, <1>2, <2>1, <2>2, EndInv DEF FsmType, Inv
  <2>3. CASE /\ prog' = [prog EXCEPT !.toggle = 1 - @]
             /\ Enter("up_seg_request", UpSegment(1 - prog.toggle))
    <3>1. 1 - prog.toggle \in Toggles
      BY <1>5 DEF Toggles
    <3>2. UpSegment(1 - prog.toggle) \in Requests
      BY <3>1 DEF UpSegment, Requests
    <3>3. prog' \in [remaining : Nat, complete : Nat, toggle : Toggles]
      BY <2>3, <3>1 DEF FsmType, Inv
    <3>4. state' = "up_seg_request" /\ Send(UpSegment(1 - prog.toggle))
          /\ retries' = Retries /\ Retries \in Nat
      BY <2>3, CoeAssumption DEF Enter
    <3>5. DatagramType'
      BY <3>2, <3>4, SendType
    <3>6. FsmType'
      BY <1>1, <2>1, <3>3, <3>4, Domains DEF FsmType, Inv
    <3>7. FsmInv'
      BY <1>2, <3>4, Domains DEF FsmInv
    <3> QED
      BY <1>2, <3>5, <3>6, <3>7
  <2> QED
    BY <1>6, <1>7, <2>2, <2>3 DEF UpSegResponse
<1> QED
  BY <1>6, <1>7 DEF UpSegResponse

LEMMA ExecInv ==
    ASSUME Inv, Exec
    PROVE  Inv'
<1>1. UNCHANGED <<slavevars, troubles, emergs, disturbed, late>>
  BY DEF Exec, Outside
<1>2. SlaveType' /\ HistoryType'
  BY <1>1 DEF SlaveType, HistoryType, slavevars, Inv
<1>3. FsmType' /\ DatagramType' /\ FsmInv' /\ RingInv'
  <2>1. CASE Retry
    BY <2>1, RetryInv
  <2>2. CASE NotReceived
    BY <2>2, NotReceivedInv
  <2>3. CASE WrongCounter
    BY <2>3, WrongCounterInv
  <2>4. CASE Requested
    BY <2>4, RequestedInv
  <2>5. CASE Checked
    BY <2>5, CheckedInv
  <2>6. CASE PushEmergency
    BY <2>6, PushEmergencyInv
  <2>7. CASE EmergencyDone
    BY <2>7, EmergencyDoneInv
  <2>8. CASE Refused
    BY <2>8, RefusedInv
  <2>9. CASE Unexpected
    BY <2>9, UnexpectedInv
  <2>10. CASE DownResponse
    <3>1. UNCHANGED ringvars
      BY <2>10 DEF DownResponse, Download
    <3> QED
      BY <2>10, <3>1, DownResponseInv
  <2>11. CASE DownSegResponse
    <3>1. UNCHANGED ringvars
      BY <2>11 DEF DownSegResponse, Download
    <3> QED
      BY <2>11, <3>1, DownSegResponseInv
  <2>12. CASE UpResponse
    <3>1. UNCHANGED ringvars
      BY <2>12 DEF UpResponse
    <3> QED
      BY <2>12, <3>1, UpResponseInv
  <2>13. CASE UpSegResponse
    <3>1. UNCHANGED ringvars
      BY <2>13 DEF UpSegResponse
    <3> QED
      BY <2>13, <3>1, UpSegResponseInv
  <2> QED
    BY <2>1, <2>2, <2>3, <2>4, <2>5, <2>6, <2>7, <2>8, <2>9, <2>10, <2>11,
       <2>12, <2>13 DEF Exec
<1> QED
  BY <1>2, <1>3 DEF Inv

LEMMA ApplicationInv ==
    ASSUME Inv, Application
    PROVE  Inv'
<1>1. UNCHANGED <<fsmvars, slavevars, troubles, emergs, disturbed, late>>
  BY DEF Application
<1>2. UNCHANGED pushing
  BY DEF Application, PopBegin, PopEnd, ClearRing
<1>3. RingInv'
  BY PopBeginInv, PopEndInv, ClearRingInv DEF Application, Inv
<1>4. FsmType' /\ DatagramType' /\ FsmInv'
  BY <1>1, <1>2 DEF FsmType, DatagramType, FsmInv, fsmvars, Answered, Received, Inv
<1>5. SlaveType' /\ HistoryType'
  BY <1>1 DEF SlaveType, HistoryType, slavevars, Inv
<1> QED
  BY <1>3, <1>4, <1>5 DEF Inv

-----------------------------------------------------------------------------
\* The inductive invariant.
LEMMA NextInv == Inv /\ [Next]_vars => Inv'
<1> SUFFICES ASSUME Inv, [Next]_vars PROVE Inv'
  OBVIOUS
<1>1. CASE UNCHANGED vars
  <2>1. UNCHANGED <<fsmvars, ringvars>> /\ UNCHANGED <<slavevars, troubles,
            emergs, disturbed, late>>
    BY <1>1 DEF vars
  <2>2. SlaveType' /\ HistoryType'
    BY <2>1 DEF SlaveType, HistoryType, slavevars, Inv
  <2> QED
    BY <2>1, <2>2, OutsideInv
<1> QED
  BY <1>1, StartInv, ExecInv, BusInv, ServeInv, EmergencyInv, OtherAnswerInv,
     TheftInv, ExpireInv, ApplicationInv DEF Next

LEMMA InvType == Inv => TypeOK
<1> SUFFICES ASSUME Inv PROVE TypeOK
  OBVIOUS
<1>1. server.type \in {"none", "down_seg", "up_seg"}
  BY DEF SlaveType, Servers, None, Inv
<1>2. datagram.state \in {"none", "sent", "received", "timed_out", "error"}
  BY DEF DatagramType, Inv
<1>3. prog.toggle \in {0, 1} /\ prog.remaining \in Nat /\ prog.complete \in Nat
  BY DEF FsmType, Toggles, Inv
<1>4. state \in States /\ retries \in 0 .. Retries /\ expired \in BOOLEAN
  BY DEF FsmType, States, Inv
<1> QED
  BY <1>1, <1>2, <1>3, <1>4 DEF TypeOK, States, SlaveType, HistoryType, Inv

\* The types of the state machine (ec_fsm_coe_t), its datagram and the slave.
THEOREM TypeCorrect == Spec => []TypeOK
<1>1. Spec => []Inv
  BY InitInv, NextInv, PTL DEF Spec
<1> QED
  BY <1>1, InvType, PTL

\* Whatever the slave answers and whenever: the application is given the
\* emergency messages in the order they came in, each once and whole, and every
\* message fetched since the last clear is kept, being pushed or counted as an
\* overrun (ec_coe_emerg_ring_push(), _pop() and _clear_ring()).
THEOREM RingSafe == Spec => []RingIntact
<1>1. Spec => []Inv
  BY InitInv, NextInv, PTL DEF Spec
<1>2. Inv => RingIntact
  BY RingInvIntact DEF Inv
<1> QED
  BY <1>1, <1>2, PTL

-----------------------------------------------------------------------------
(* The answers on their way to the state machine: the one it has fetched,   *)
(* at 0, and those that wait in the slave.                                 *)

Pending == state \in DOMAIN CheckAgain /\ Answered

Answers == [i \in {j \in 0 .. Len(tx) : j = 0 => Pending} |->
               IF i = 0 THEN datagram.data ELSE tx[i]]

\* The type of an answer, but for one to another user of the mailbox.
Kind(m) == IF m.type = "up" /\ ~m.own THEN "other" ELSE m.type

Some(t) == \E i \in DOMAIN Answers : Kind(Answers[i]) = t
Unique(t) == \A i, j \in DOMAIN Answers :
                 Kind(Answers[i]) = t /\ Kind(Answers[j]) = t => i = j
Before(t, u) == \A i, j \in DOMAIN Answers :
                 Kind(Answers[i]) = t /\ Kind(Answers[j]) = u => i < j
Each(t, m) == \A i \in DOMAIN Answers : Kind(Answers[i]) = t => Answers[i] = m
Only(S) == \A i \in DOMAIN Answers : Kind(Answers[i]) \in S

\* What a step may do to the answers: keep them, take some of them out, or put
\* one more at the end.
Fewer ==
    \E g \in [Nat -> Nat] :
        /\ \A i, j \in Nat : i < j => g[i] < g[j]
        /\ \A i \in DOMAIN Answers' :
               g[i] \in DOMAIN Answers /\ Answers'[i] = Answers[g[i]]

More(m) ==
    \E e \in Nat :
        /\ DOMAIN Answers' = DOMAIN Answers \cup {e} /\ e \notin DOMAIN Answers
        /\ \A i \in DOMAIN Answers : i < e /\ Answers'[i] = Answers[i]
        /\ Answers'[e] = m

LEMMA AnswersDomain ==
    ASSUME Inv
    PROVE  /\ DOMAIN Answers = {j \in 0 .. Len(tx) : j = 0 => Pending}
           /\ DOMAIN Answers \subseteq Nat
           /\ Len(tx) \in Nat
  BY DEF Answers, Inv, SlaveType

LEMMA AnswersDomains ==
    ASSUME Inv, Inv'
    PROVE  /\ DOMAIN Answers \subseteq Nat
           /\ DOMAIN Answers' = {j \in 0 .. Len(tx') : j = 0 => Pending'}
           /\ DOMAIN Answers' \subseteq Nat
           /\ Len(tx') \in Nat
  BY DEF Answers, Inv, SlaveType

LEMMA FewerKeeps ==
    ASSUME Inv, Inv', Fewer
    PROVE  \A t : /\ Some(t)' => Some(t)
                  /\ Unique(t) => Unique(t)'
                  /\ \A u : Before(t, u) => Before(t, u)'
                  /\ \A m : Each(t, m) => Each(t, m)'
                  /\ Only(t) => Only(t)'
<1>1. PICK g \in [Nat -> Nat] :
        /\ \A i, j \in Nat : i < j => g[i] < g[j]
        /\ \A i \in DOMAIN Answers' :
               g[i] \in DOMAIN Answers /\ Answers'[i] = Answers[g[i]]
  BY DEF Fewer
<1>2. DOMAIN Answers' \subseteq Nat /\ DOMAIN Answers \subseteq Nat
  BY AnswersDomains
<1>3. \A i, j \in Nat : g[i] = g[j] => i = j
  BY <1>1
<1>4. \A i, j \in Nat : g[i] < g[j] => i < j
  BY <1>1
<1> QED
  BY <1>1, <1>2, <1>3, <1>4 DEF Some, Unique, Before, Each, Only

LEMMA MoreKeeps ==
    ASSUME Inv, Inv', NEW m, More(m)
    PROVE  \A t : /\ Some(t)' <=> Some(t) \/ Kind(m) = t
                  /\ Unique(t) /\ (Kind(m) = t => ~Some(t)) => Unique(t)'
                  /\ \A u : Before(t, u) /\ (Kind(m) = t => ~Some(u) /\ Kind(m) # u)
                               => Before(t, u)'
                  /\ \A x : Each(t, x) /\ (Kind(m) = t => m = x) => Each(t, x)'
                  /\ Only(t) /\ Kind(m) \in t => Only(t)'
<1>1. PICK e \in Nat :
        /\ DOMAIN Answers' = DOMAIN Answers \cup {e} /\ e \notin DOMAIN Answers
        /\ \A i \in DOMAIN Answers : i < e /\ Answers'[i] = Answers[i]
        /\ Answers'[e] = m
  BY DEF More
<1>2. DOMAIN Answers' \subseteq Nat /\ DOMAIN Answers \subseteq Nat
  BY AnswersDomains
<1> TAKE t
<1>3. Some(t)' <=> Some(t) \/ Kind(m) = t
  BY <1>1 DEF Some
<1>4. Unique(t) /\ (Kind(m) = t => ~Some(t)) => Unique(t)'
  BY <1>1 DEF Unique, Some
<1>5. ASSUME NEW u, Before(t, u), Kind(m) = t => ~Some(u) /\ Kind(m) # u
      PROVE  Before(t, u)'
  BY <1>1, <1>2, <1>5 DEF Before, Some
<1>6. ASSUME NEW x, Each(t, x), Kind(m) = t => m = x
      PROVE  Each(t, x)'
  BY <1>1, <1>6 DEF Each
<1>7. Only(t) /\ Kind(m) \in t => Only(t)'
  BY <1>1 DEF Only
<1> QED
  BY <1>3, <1>4, <1>5, <1>6, <1>7

LEMMA SameFewer ==
    ASSUME Inv, tx' = tx, Pending' => Pending /\ datagram' = datagram
    PROVE  Fewer
<1> DEFINE g == [i \in Nat |-> i]
<1>1. g \in [Nat -> Nat] /\ \A i, j \in Nat : i < j => g[i] < g[j]
  OBVIOUS
<1>2. Len(tx) \in Nat
  BY DEF Inv, SlaveType
<1>3. \A i \in DOMAIN Answers' : g[i] \in DOMAIN Answers /\ Answers'[i] = Answers[g[i]]
  BY <1>2 DEF Answers
<1> QED
  BY <1>1, <1>3 DEF Fewer

\* The first answer that waits leaves the slave.
LEMMA TailFewer ==
    ASSUME Inv, tx # <<>>, tx' = Tail(tx),
           \/ ~Pending /\ (Pending' => datagram'.data = Head(tx))
           \/ UNCHANGED <<state, datagram>>
    PROVE  Fewer
<1>1. tx \in Seq(Responses) /\ Len(tx) \in Nat \ {0}
  BY DEF Inv, SlaveType
<1>2. Len(tx') = Len(tx) - 1 /\ \A i \in 1 .. Len(tx) - 1 : tx'[i] = tx[i + 1]
  BY <1>1
<1>3. CASE ~Pending /\ (Pending' => datagram'.data = Head(tx))
  <2> DEFINE g == [i \in Nat |-> i + 1]
  <2>1. g \in [Nat -> Nat] /\ \A i, j \in Nat : i < j => g[i] < g[j]
    OBVIOUS
  <2>2. \A i \in DOMAIN Answers' : g[i] \in DOMAIN Answers /\ Answers'[i] = Answers[g[i]]
    BY <1>1, <1>2, <1>3 DEF Answers
  <2> QED
    BY <2>1, <2>2 DEF Fewer
<1>4. CASE UNCHANGED <<state, datagram>>
  <2> DEFINE g == [i \in Nat |-> IF i = 0 THEN 0 ELSE i + 1]
  <2>1. g \in [Nat -> Nat] /\ \A i, j \in Nat : i < j => g[i] < g[j]
    OBVIOUS
  <2>2. Pending' = Pending
    BY <1>4 DEF Pending, Answered, Received
  <2>3. \A i \in DOMAIN Answers' : g[i] \in DOMAIN Answers /\ Answers'[i] = Answers[g[i]]
    BY <1>1, <1>2, <1>4, <2>2 DEF Answers
  <2> QED
    BY <2>1, <2>3 DEF Fewer
<1> QED
  BY <1>3, <1>4

LEMMA AnswerMore ==
    ASSUME Inv, NEW m, Answer(m), UNCHANGED <<state, datagram>>
    PROVE  More(m)
<1>1. tx \in Seq(Responses) /\ Len(tx) \in Nat /\ tx' = Append(tx, m)
  BY DEF Inv, SlaveType, Answer
<1>2. Len(tx') = Len(tx) + 1 /\ tx'[Len(tx) + 1] = m
      /\ \A i \in 1 .. Len(tx) : tx'[i] = tx[i]
  BY <1>1
<1>3. Pending' = Pending
  BY DEF Pending, Answered, Received
<1> DEFINE e == Len(tx) + 1
<1>4. /\ e \in Nat /\ DOMAIN Answers' = DOMAIN Answers \cup {e} /\ e \notin DOMAIN Answers
      /\ \A i \in DOMAIN Answers : i < e /\ Answers'[i] = Answers[i]
      /\ Answers'[e] = m
  BY <1>1, <1>2, <1>3 DEF Answers
<1> QED
  BY <1>4 DEF More

-----------------------------------------------------------------------------
(* What the steps do to the answers and to the request in the mailbox. *)

LEMMA BackState ==
    ASSUME Inv, NEW s \in {"received", "timed_out", "error"}, NEW wc, NEW d, Back(s, wc, d)
    PROVE  /\ datagram'.what = datagram.what /\ datagram'.state = s
           /\ s = "received" => datagram'.wc = wc /\ datagram'.data = d
           /\ Received' <=> s = "received"
           /\ Answered' <=> s = "received" /\ wc = 1
  BY DEF Inv, DatagramType, Back, Answered, Received

BusAlone ==
    /\ UNCHANGED <<rx, tx>>
    /\ Answered' => datagram.what = Check
    /\ Answered' /\ datagram'.data.type = "full" => tx # <<>>

BusFetch ==
    /\ datagram.what = Fetch /\ tx # <<>> /\ tx' = Tail(tx) /\ rx' = rx
    /\ Answered' => datagram'.data = Head(tx)

BusRequest ==
    /\ datagram.what \notin {Check, Fetch} /\ rx = None
    /\ rx' = datagram.what /\ tx' = tx

LEMMA BusSteps ==
    ASSUME Inv, Bus
    PROVE  /\ UNCHANGED <<state, retries, expired, request, prog, server, object,
                          emergs, late, asked, ringvars>>
           /\ datagram.state = "sent" /\ ~Pending
           /\ datagram'.what = datagram.what
           /\ datagram'.state \in {"received", "timed_out", "error"}
           /\ BusAlone \/ BusFetch \/ BusRequest
           /\ \/ Trouble
              \/ /\ NoTrouble /\ datagram'.state = "received"
                 /\ datagram.what \notin {Check, Fetch} /\ rx = None => Answered' /\ BusRequest
                 /\ datagram.what = Fetch /\ tx # <<>> => Answered' /\ BusFetch
                 /\ datagram.what = Check => Answered' /\ BusAlone
<1>1. /\ UNCHANGED <<state, retries, expired, request, prog, server, object,
                     emergs, late, asked, ringvars>>
      /\ datagram.state = "sent" /\ ~Pending
  BY DEF Bus, Pending, Answered, Received
<1>2. Check # Fetch /\ Check # None
  BY DEF Check, Fetch, None
<1>3. ASSUME NEW s \in {"received", "timed_out"}, Pass(s)
      PROVE  /\ datagram'.what = datagram.what /\ datagram'.state = s
             /\ BusAlone \/ BusFetch \/ BusRequest
             /\ s = "received" =>
                 /\ datagram.what \notin {Check, Fetch} /\ rx = None => Answered' /\ BusRequest
                 /\ datagram.what = Fetch /\ tx # <<>> => Answered' /\ BusFetch
                 /\ datagram.what = Check => Answered' /\ BusAlone
  <2>1. CASE datagram.what = Check
    <3>1. Back(s, 1, [type |-> IF tx = <<>> THEN "empty" ELSE "full"]) /\ UNCHANGED <<rx, tx>>
      BY <1>2, <1>3, <2>1 DEF Pass
    <3> QED
      BY <1>2, <2>1, <3>1, BackState DEF BusAlone
  <2>2. CASE datagram.what = Fetch /\ tx = <<>>
    <3>1. Back(s, 0, None) /\ UNCHANGED <<rx, tx>>
      BY <1>2, <1>3, <2>2 DEF Pass
    <3> QED
      BY <1>2, <2>2, <3>1, BackState DEF BusAlone
  <2>3. CASE datagram.what = Fetch /\ tx # <<>>
    <3>1. Back(s, 1, Head(tx)) /\ tx' = Tail(tx) /\ rx' = rx
      BY <1>2, <1>3, <2>3 DEF Pass
    <3> QED
      BY <1>2, <2>3, <3>1, BackState DEF BusFetch
  <2>4. CASE datagram.what \notin {Check, Fetch} /\ rx = None
    <3>1. Back(s, 1, datagram.what) /\ rx' = datagram.what /\ tx' = tx
      BY <1>3, <2>4 DEF Pass
    <3> QED
      BY <2>4, <3>1, BackState DEF BusRequest
  <2>5. CASE datagram.what \notin {Check, Fetch} /\ rx # None
    <3>1. Back(s, 0, datagram.what) /\ UNCHANGED <<rx, tx>>
      BY <1>3, <2>5 DEF Pass
    <3> QED
      BY <2>5, <3>1, BackState DEF BusAlone
  <2> QED
    BY <2>1, <2>2, <2>3, <2>4, <2>5
<1>4. ASSUME NEW s \in {"timed_out", "error"}, Back(s, 0, None), UNCHANGED <<rx, tx>>
      PROVE  datagram'.what = datagram.what /\ datagram'.state = s /\ BusAlone
  BY <1>4, BackState DEF BusAlone
<1>5. CASE Pass("received") /\ NoTrouble
  BY <1>1, <1>3, <1>5
<1>6. CASE Pass("timed_out") /\ Trouble
  BY <1>1, <1>3, <1>6
<1>7. CASE (\E s \in {"timed_out", "error"} : Back(s, 0, None)) /\ Trouble /\ UNCHANGED <<rx, tx>>
  BY <1>1, <1>4, <1>7
<1> QED
  BY <1>5, <1>6, <1>7 DEF Bus

LEMMA BusFewer ==
    ASSUME Inv, Bus
    PROVE  Fewer
<1>1. ~Pending /\ (BusAlone \/ BusFetch \/ BusRequest) /\ datagram'.what = datagram.what
      /\ state' = state
  BY BusSteps
<1>2. state \in DOMAIN CheckAgain => datagram.what = Fetch
  BY DEF Inv, FsmInv
<1>3. Fetch # Check
  BY DEF Fetch, Check
<1>4. CASE BusFetch
  BY <1>1, <1>4, TailFewer DEF BusFetch, Pending
<1>5. CASE BusAlone
  BY <1>1, <1>2, <1>3, <1>5, SameFewer DEF BusAlone, Pending
<1>6. CASE BusRequest
  BY <1>1, <1>2, <1>6, SameFewer DEF BusRequest, Pending
<1> QED
  BY <1>1, <1>4, <1>5, <1>6

\* Every other step of the state machine takes the fetched answer, if it does
\* not begin to push it.
LEMMA ExecFewer ==
    ASSUME Inv, Exec
    PROVE  /\ Fewer
           /\ UNCHANGED <<slavevars, troubles, emergs, disturbed, late, asked>>
           /\ ~Pending' \/ PushEmergency
<1>1. UNCHANGED <<slavevars, troubles, emergs, disturbed, late, asked>> /\ tx' = tx
  BY DEF Exec, Outside, slavevars
<1>2. ASSUME NEW s, NEW what, Enter(s, what) PROVE ~Pending'
  BY <1>2 DEF Enter, Send, Sent, Pending, Answered, Received
<1>3. ASSUME NEW what, Send(what) PROVE ~Pending'
  BY <1>3 DEF Send, Sent, Pending, Answered, Received
<1>4. ASSUME NEW s \in {"end", "error"}, End(s) PROVE ~Pending'
  BY <1>4, Domains DEF End, Pending
<1>5. ASSUME Retry PROVE ~Pending'
  <2>1. CASE Send(datagram.what)
    BY <1>3, <2>1
  <2>2. CASE state = "down_seg_check"
    BY <1>5, <2>2, Domains DEF Retry, Pending
  <2> QED
    BY <1>5, <2>1, <2>2 DEF Retry
<1>6. ASSUME NotReceived \/ Refused PROVE ~Pending'
  BY <1>4, <1>6 DEF NotReceived, Refused
<1>7. ASSUME WrongCounter PROVE ~Pending'
  BY <1>3, <1>4, <1>7 DEF WrongCounter
<1>8. ASSUME Requested \/ Checked \/ EmergencyDone \/ Unexpected PROVE ~Pending'
  BY <1>2, <1>4, <1>8 DEF Requested, Checked, EmergencyDone, Unexpected
<1>9. ASSUME DownResponse \/ DownSegResponse PROVE ~Pending'
  BY <1>3, <1>4, <1>9 DEF DownResponse, DownSegResponse, Download
<1>10. ASSUME UpResponse \/ UpSegResponse PROVE ~Pending'
  BY <1>2, <1>4, <1>10 DEF UpResponse, UpSegResponse
<1>11. ~Pending' \/ PushEmergency
  BY <1>5, <1>6, <1>7, <1>8, <1>9, <1>10 DEF Exec
<1>12. CASE PushEmergency
  <2>1. UNCHANGED <<state, datagram>>
    BY <1>12 DEF PushEmergency, fsmvars
  <2>2. Pending' = Pending
    BY <2>1 DEF Pending, Answered, Received
  <2> QED
    BY <1>1, <1>12, <2>1, <2>2, SameFewer
<1>13. CASE ~Pending'
  BY <1>1, <1>11, <1>13, SameFewer
<1> QED
  BY <1>1, <1>11, <1>12, <1>13

\* What a step that leaves the state machine and its datagram alone keeps.
LEMMA TheftFewer ==
    ASSUME Inv, Theft
    PROVE  Fewer
<1>1. UNCHANGED <<state, datagram>> /\ tx # <<>> /\ tx' = Tail(tx)
  BY DEF Theft, fsmvars
<1> QED
  BY <1>1, TailFewer

LEMMA StartFewer ==
    ASSUME Inv, Start
    PROVE  Fewer /\ ~Pending /\ ~Pending'
<1>1. tx' = tx
  BY DEF Start, slavevars
<1>2. state \in Terminal /\ ~Pending
  BY Domains DEF Start, Busy, Terminal, Pending
<1>3. state' \in {"up_request", "down_request"}
  BY DEF Start
<1>4. ~Pending'
  BY <1>3, Domains DEF Pending
<1> QED
  BY <1>1, <1>2, <1>4, SameFewer

Downed == [type |-> "down", own |-> TRUE]
Acked(t) == [type |-> "down_seg", toggle |-> t]
Refusal == [type |-> "abort"]

ServeDown ==
    /\ rx.type = "down" /\ More(Downed)
    /\ object' = IF rx.size = 1 THEN <<rx.part>> ELSE object
    /\ server' = IF rx.size = 1 THEN None
                 ELSE [type |-> "down_seg", toggle |-> 0, data |-> <<rx.part>>]

ServeUp ==
    /\ rx.type = "up"
    /\ More([type |-> "up", own |-> TRUE, part |-> Head(object), size |-> Len(object)])
    /\ server' = IF Len(object) = 1 THEN None
                 ELSE [type |-> "up_seg", toggle |-> 0, data |-> Tail(object)]
    /\ UNCHANGED object

ServeDownSeg ==
    /\ rx.type = "down_seg" /\ InTurn /\ More(Acked(rx.toggle))
    /\ object' = IF rx.last THEN Append(server.data, rx.part) ELSE object
    /\ server' = IF rx.last THEN None
                 ELSE [server EXCEPT !.toggle = 1 - @, !.data = Append(server.data, rx.part)]

ServeUpSeg ==
    /\ rx.type = "up_seg" /\ InTurn
    /\ More([type |-> "up_seg", part |-> Head(server.data), last |-> (Len(server.data) = 1)])
    /\ server' = IF Len(server.data) = 1 THEN None
                 ELSE [server EXCEPT !.toggle = 1 - @, !.data = Tail(@)]
    /\ UNCHANGED object

ServeAbort ==
    /\ More(Refusal) /\ server' = None /\ UNCHANGED object
    /\ Trouble \/ (rx.type \in {"down_seg", "up_seg"} /\ ~InTurn)

LEMMA ServeSteps ==
    ASSUME Inv, Serve
    PROVE  /\ UNCHANGED <<fsmvars, emergs, late, asked, ringvars>>
           /\ UNCHANGED <<state, datagram, request, prog, expired>>
           /\ rx # None /\ rx' = None
           /\ ServeDown \/ ServeUp \/ ServeDownSeg \/ ServeUpSeg \/ ServeAbort
           /\ Trouble \/ NoTrouble
<1>1. UNCHANGED <<fsmvars, emergs, late, asked, ringvars>> /\ rx # None /\ rx' = None
      /\ UNCHANGED <<state, datagram, request, prog, expired>>
  BY DEF Serve, fsmvars
<1>2. \A m : Answer(m) => More(m)
  BY <1>1, AnswerMore
<1>3. Initiate => ServeDown \/ ServeUp
  BY <1>2 DEF Initiate, ServeDown, ServeUp, Downed
<1>4. Segment => ServeDownSeg \/ ServeUpSeg
  BY <1>2 DEF Segment, ServeDownSeg, ServeUpSeg, Acked
<1>5. Abort => More(Refusal) /\ server' = None /\ UNCHANGED object
  BY <1>2 DEF Abort, Refusal
<1>6. CASE Initiate \/ Segment
  <2>1. Trouble \/ NoTrouble
    BY DEF Serve
  <2> QED
    BY <1>1, <1>3, <1>4, <1>6, <2>1
<1>7. CASE rx.type \in {"down_seg", "up_seg"} /\ ~InTurn /\ Abort /\ NoTrouble
  BY <1>1, <1>5, <1>7 DEF ServeAbort
<1>8. CASE Abort /\ Trouble
  BY <1>1, <1>5, <1>8 DEF ServeAbort
<1> QED
  BY <1>1, <1>6, <1>7, <1>8 DEF Serve

-----------------------------------------------------------------------------
(* The steps of the state machine, by what they do to the transfer. *)

Up1 == {"up_request", "up_check", "up_response"}
Up2 == {"up_seg_request", "up_seg_check", "up_seg_response"}
SegStates == {"down_seg_check", "down_seg_response"}

Again ==
    /\ UNCHANGED <<state, request, prog>> /\ ~Answered
    /\ Send(datagram.what) \/ (state = "down_seg_check" /\ datagram' \in SlotContents)

\* It goes on without anything of the transfer done.
Move ==
    /\ UNCHANGED <<request, prog>> /\ Answered
    /\ expired' => expired
    /\ datagram'.state = "sent"
    /\ \/ /\ state' \in {"down_check", "up_check", "down_seg_check", "up_seg_check"}
          /\ datagram'.what = Check
       \/ /\ state' \in DOMAIN CheckAgain /\ datagram'.what = Fetch
          /\ state \in DOMAIN ResponseAfter /\ datagram.data.type = "full"
    /\ state \in Downs => state' \in Downs \ {"down_request"}
    /\ state \in Up1 => state' \in Up1 \ {"up_request"}
    /\ state \in Up2 => state' \in Up2 \ {"up_seg_request"}
    /\ state' \in SegStates => state \in SegStates
    /\ Pending => ~Expected

Fails == End("error") /\ UNCHANGED <<request, prog>>

DownFirst ==
    /\ Response("down_response", "down") /\ Download(prog.remaining, 0)

DownNext ==
    /\ Response("down_seg_response", "down_seg")
    /\ datagram.data.toggle = prog.toggle
    /\ Download(prog.remaining - 1, 1 - prog.toggle)

UpNext ==
    /\ Response("up_seg_response", "up_seg")
    /\ Len(request.data) < prog.complete /\ expired' = expired
    /\ request' = [request EXCEPT !.data = Append(@, datagram.data.part)]
    /\ \/ datagram.data.last /\ End("end") /\ UNCHANGED prog
       \/ /\ ~datagram.data.last
          /\ prog' = [prog EXCEPT !.toggle = 1 - @]
          /\ Enter("up_seg_request", UpSegment(1 - prog.toggle))

LEMMA SendState ==
    ASSUME NEW what, Send(what)
    PROVE  datagram'.what = what /\ datagram'.state = "sent" /\ ~Answered'
  BY DEF Send, Sent, Answered, Received

LEMMA BusyStates ==
    ASSUME Inv, Busy
    PROVE  state \in Downs \cup Up1 \cup Up2
  BY Domains DEF Inv, FsmType, Busy, Terminal, Downs, Up1, Up2

LEMMA ExecSteps ==
    ASSUME Inv, Exec
    PROVE  PushEmergency \/ Again \/ Move \/ Fails \/ DownFirst \/ DownNext
           \/ UpResponse \/ UpNext
<1>1. ASSUME Retry PROVE Again
  BY <1>1 DEF Retry, Again, TimedOut, Answered, Received
<1>2. ASSUME NotReceived \/ Refused PROVE Fails
  BY <1>2 DEF NotReceived, Refused, Fails
<1>3. ASSUME WrongCounter PROVE Again \/ Fails
  BY <1>3 DEF WrongCounter, Again, Fails, Answered
<1>4. ASSUME Requested PROVE Move
  <2>1. state \in DOMAIN CheckAfter /\ Answered /\ Enter(CheckAfter[state], Check)
        /\ UNCHANGED <<request, prog>> /\ expired' = FALSE
    BY <1>4 DEF Requested
  <2>2. state' = CheckAfter[state] /\ datagram'.what = Check /\ datagram'.state = "sent"
    BY <2>1, SendState DEF Enter
  <2>3. ~Pending
    BY <2>1, Domains DEF Pending
  <2> QED
    BY <2>1, <2>2, <2>3, Domains DEF Move, Downs, Up1, Up2, SegStates
<1>5. ASSUME Checked PROVE Move \/ Fails
  <2>1. state \in DOMAIN ResponseAfter /\ Answered /\ UNCHANGED <<expired, request, prog>>
    BY <1>5 DEF Checked
  <2>2. ~Pending
    BY <2>1, Domains DEF Pending
  <2>3. ASSUME Enter(ResponseAfter[state], Fetch), datagram.data.type = "full" PROVE Move
    <3>1. state' = ResponseAfter[state] /\ datagram'.what = Fetch /\ datagram'.state = "sent"
      BY <2>3, SendState DEF Enter
    <3> QED
      BY <2>1, <2>2, <2>3, <3>1, Domains DEF Move, Downs, Up1, Up2, SegStates
  <2>4. ASSUME Enter(state, Check) PROVE Move
    <3>1. state' = state /\ datagram'.what = Check /\ datagram'.state = "sent"
      BY <2>4, SendState DEF Enter
    <3> QED
      BY <2>1, <2>2, <3>1, Domains DEF Move, Downs, Up1, Up2, SegStates
  <2> QED
    BY <1>5, <2>1, <2>3, <2>4 DEF Checked, Fails
<1>6. ASSUME EmergencyDone PROVE Move
  <2>1. Enter(CheckAfterEmergency[state], Check) /\ UNCHANGED <<expired, request, prog>>
    BY <1>6 DEF EmergencyDone
  <2>2. state \in DOMAIN CheckAgain /\ Answered /\ datagram.data.type = "emergency"
    BY <1>6 DEF EmergencyDone, PushEnd, Inv, FsmInv
  <2>3. state' = CheckAfterEmergency[state] /\ datagram'.what = Check /\ datagram'.state = "sent"
    BY <2>1, SendState DEF Enter
  <2>4. ~Expected
    BY <2>2 DEF Expected, Response
  <2> QED
    BY <2>1, <2>2, <2>3, <2>4, Domains DEF Move, Downs, Up1, Up2, SegStates
<1>7. ASSUME Unexpected PROVE Move
  <2>1. state \in DOMAIN CheckAgain /\ Answered /\ ~Expected
        /\ Enter(CheckAgain[state], Check) /\ UNCHANGED <<expired, request, prog>>
    BY <1>7 DEF Unexpected
  <2>3. state' = CheckAgain[state] /\ datagram'.what = Check /\ datagram'.state = "sent"
    BY <2>1, SendState DEF Enter
  <2> QED
    BY <2>1, <2>3, Domains DEF Move, Downs, Up1, Up2, SegStates
<1>8. ASSUME DownResponse PROVE DownFirst
  BY <1>8 DEF DownResponse, DownFirst
<1>9. ASSUME DownSegResponse PROVE DownNext \/ Fails
  BY <1>9 DEF DownSegResponse, DownNext, Fails
<1>10. ASSUME UpSegResponse PROVE UpNext \/ Fails
  BY <1>10 DEF UpSegResponse, UpNext, Fails
<1> QED
  BY <1>1, <1>2, <1>3, <1>4, <1>5, <1>6, <1>7, <1>8, <1>9, <1>10 DEF Exec

-----------------------------------------------------------------------------
(* What the state machine has sent last. *)

\* Parts of the data, those the slave has acknowledged (with the one in the
\* request), and the toggle bit of the segment that follows.
Total == Len(request.data)
Done == Total - prog.remaining
Bit == IF Done = 1 THEN 0 ELSE prog.toggle

DownRequest == [type |-> "down", part |-> Head(request.data), size |-> Total]
SegRequest(j, t) == [type |-> "down_seg", toggle |-> t, last |-> (j + 1 = Total),
                     part |-> request.data[j + 1]]
UpRequest == [type |-> "up"]

AskInv ==
    /\ state \in {"down_check", "up_check", "up_seg_check"} => datagram.what = Check
    /\ state = "down_request" => datagram.what = DownRequest /\ Done = 1
    /\ state = "down_seg_check" =>
          datagram.what \in {SegRequest(Done, prog.toggle), Check, None}
    /\ state \in SegStates => Bit = prog.toggle
    /\ state = "up_request" => datagram.what = UpRequest
    /\ state = "up_seg_request" => datagram.what = UpSegment(prog.toggle)
    /\ state \in Up1 \cup Up2 => request.dir = "up"
    /\ state \in Downs => request.data \in asked
    /\ datagram.state = "sent" => Busy

LEMMA Counts ==
    ASSUME Inv
    PROVE  /\ Total \in Nat /\ Done \in Int /\ prog.remaining \in Nat
           /\ Bit \in Toggles /\ prog.toggle \in Toggles
           /\ state \in Downs => Done >= 1 /\ Done <= Total
           /\ state \in SegStates => Done < Total
           /\ request.data \in Seq(Parts)
  BY DEF Inv, FsmType, FsmInv, Total, Done, Bit, Toggles, Downs, SegStates

LEMMA Segment0 ==
    ASSUME Inv, NEW r \in Nat, NEW t
    PROVE  DownSegment(r, t) = SegRequest(Total - r, t)
<1>1. Total \in Nat
  BY Counts
<1>2. (Total - r) + 1 = Total <=> r = 1
  BY <1>1
<1> QED
  BY <1>1, <1>2 DEF DownSegment, SegRequest, Total

LEMMA AskSame ==
    ASSUME AskInv, UNCHANGED <<state, request, prog>>, datagram'.what = datagram.what,
           datagram'.state = "sent" => Busy, asked \subseteq asked'
    PROVE  AskInv'
<1>1. UNCHANGED <<Total, Done, Bit, DownRequest, UpRequest>>
  BY DEF Total, Done, Bit, DownRequest, UpRequest
<1>2. SegRequest(Done, prog.toggle)' = SegRequest(Done, prog.toggle)
  BY <1>1 DEF SegRequest
<1>3. UpSegment(prog.toggle)' = UpSegment(prog.toggle)
  BY DEF UpSegment
<1>4. Busy' <=> Busy
  BY DEF Busy
<1> QED
  BY <1>1, <1>2, <1>3, <1>4 DEF AskInv

LEMMA AskInit == Init => AskInv
  BY Domains DEF Init, AskInv, Sent, SegStates, Up1, Up2, Downs

LEMMA AskDownload ==
    ASSUME Inv, AskInv, NEW remaining \in Nat, NEW toggle \in Toggles,
           Download(remaining, toggle), state \in Downs, UNCHANGED asked,
           remaining < Total, Total - remaining = 1 => toggle = 0, Answered
    PROVE  /\ AskInv'
           /\ UNCHANGED request
           /\ Total' = Total /\ Done' = Total - remaining /\ Bit' = toggle
           /\ remaining = 0 => state' = "end" /\ UNCHANGED datagram
           /\ remaining # 0 => state' = "down_seg_check" /\ datagram'.state = "sent"
<1>1. prog' = [prog EXCEPT !.remaining = remaining, !.toggle = toggle] /\ request' = request
      /\ prog \in [remaining : Nat, complete : Nat, toggle : Toggles]
  BY DEF Download, Inv, FsmType
<1>2. prog'.remaining = remaining /\ prog'.toggle = toggle
  BY <1>1
<1>3. Total' = Total /\ Done' = Total - remaining /\ Total \in Nat
  BY <1>1, <1>2, Counts DEF Total, Done
<1>4. Bit' = toggle
  BY <1>2, <1>3 DEF Bit
<1>5. CASE remaining = 0
  <2>1. state' = "end" /\ UNCHANGED datagram
    BY <1>5 DEF Download, End
  <2>2. state # "end"
    BY DEF Downs
  <2>3. datagram'.state # "sent"
    BY <2>1 DEF Answered, Received
  <2> QED
    BY <1>1, <1>3, <1>4, <1>5, <2>1, <2>3 DEF AskInv, SegStates, Up1, Up2, Downs
<1>6. CASE remaining # 0
  <2>1. state' = "down_seg_check" /\ Send(DownSegment(remaining, toggle))
    BY <1>6 DEF Download
  <2>2. datagram'.what = SegRequest(Total - remaining, toggle) /\ datagram'.state = "sent"
    BY <2>1, SendState, Segment0
  <2>3. SegRequest(Done, prog.toggle)' = SegRequest(Total - remaining, toggle)
    BY <1>1, <1>2, <1>3 DEF SegRequest
  <2>4. Busy'
    BY <2>1 DEF Busy, Terminal
  <2>5. request.data \in asked
    BY DEF AskInv
  <2> QED
    BY <1>1, <1>2, <1>3, <1>4, <1>6, <2>1, <2>2, <2>3, <2>4, <2>5
    DEF AskInv, SegStates, Up1, Up2, Downs
<1> QED
  BY <1>5, <1>6

LEMMA AskStart ==
    ASSUME Inv, Start
    PROVE  /\ AskInv'
           /\ datagram'.state = "sent" /\ asked \subseteq asked'
           /\ state' \in {"up_request", "down_request"}
           /\ UNCHANGED <<slavevars, troubles, emergs, ringvars>>
<1>1. PICK dir \in {"up", "down"}, size \in Sizes :
        LET data == IF dir = "up" THEN <<>> ELSE Value(request.n + 1, size) IN
          /\ request' = [dir |-> dir, data |-> data, n |-> request.n + 1]
          /\ state' = IF dir = "up" THEN "up_request" ELSE "down_request"
          /\ Send(IF dir = "up" THEN [type |-> "up"]
                  ELSE [type |-> "down", part |-> Head(data), size |-> size])
          /\ IF dir = "up" THEN UNCHANGED <<prog, asked>>
             ELSE /\ prog' = [prog EXCEPT !.remaining = size - 1]
                  /\ asked' = asked \cup {data}
  BY DEF Start
<1>2. UNCHANGED <<slavevars, troubles, emergs, ringvars>>
  BY DEF Start
<1>3. CASE dir = "up"
  <2>1. /\ request' = [dir |-> "up", data |-> <<>>, n |-> request.n + 1]
        /\ state' = "up_request" /\ Send([type |-> "up"]) /\ asked' = asked
    BY <1>1, <1>3
  <2>2. datagram'.what = UpRequest /\ datagram'.state = "sent"
    BY <2>1, SendState DEF UpRequest
  <2>3. Busy'
    BY <2>1 DEF Busy, Terminal
  <2> QED
    BY <1>2, <2>1, <2>2, <2>3 DEF AskInv, SegStates, Up1, Up2, Downs, UpRequest
<1>4. CASE dir = "down"
  <2> DEFINE v == Value(request.n + 1, size)
  <2>1. /\ request' = [dir |-> "down", data |-> v, n |-> request.n + 1]
        /\ state' = "down_request"
        /\ Send([type |-> "down", part |-> Head(v), size |-> size])
        /\ prog' = [prog EXCEPT !.remaining = size - 1]
        /\ asked' = asked \cup {v}
    BY <1>1, <1>4
  <2>2. size \in Nat \ {0} /\ request.n + 1 \in Nat
    BY CoeAssumption DEF Inv, FsmType
  <2>3. Len(v) = size
    BY <2>2, ValueData
  <2> HIDE DEF v
  <2>4. prog'.remaining = size - 1
    BY <2>1 DEF Inv, FsmType
  <2>5. request'.data = v
    BY <2>1
  <2>6. Total' = size /\ Done' = 1
    BY <2>2, <2>3, <2>4, <2>5 DEF Total, Done
  <2>7. DownRequest' = [type |-> "down", part |-> Head(v), size |-> size]
    BY <2>5, <2>6 DEF DownRequest
  <2>8. datagram'.what = DownRequest' /\ datagram'.state = "sent"
    BY <2>1, <2>7, SendState
  <2>9. Busy'
    BY <2>1 DEF Busy, Terminal
  <2> QED
    BY <1>2, <2>1, <2>5, <2>6, <2>8, <2>9 DEF AskInv, SegStates, Up1, Up2, Downs
<1> QED
  BY <1>3, <1>4

LEMMA AskAgain ==
    ASSUME Inv, AskInv, Again, UNCHANGED asked, Busy
    PROVE  AskInv'
<1>1. UNCHANGED <<state, request, prog>>
  BY DEF Again
<1>2. CASE Send(datagram.what)
  <2>1. datagram'.what = datagram.what
    BY <1>2, SendState
  <2> QED
    BY <1>1, <2>1, AskSame
<1>3. CASE state = "down_seg_check" /\ datagram' \in SlotContents
  <2>1. datagram'.what = None
    BY <1>3 DEF SlotContents, Sent
  <2>2. Busy' /\ UNCHANGED <<Done, Bit>>
    BY <1>1 DEF Busy, Done, Bit, Total
  <2> QED
    BY <1>1, <1>3, <2>1, <2>2 DEF AskInv, SegStates, Up1, Up2, Downs
<1> QED
  BY <1>2, <1>3 DEF Again

LEMMA AskMove ==
    ASSUME Inv, AskInv, Move, UNCHANGED asked, Busy
    PROVE  AskInv'
<1>1. state \in Downs \cup Up1 \cup Up2
  BY BusyStates
<1>2. UNCHANGED <<Done, Bit, request, prog>>
  BY DEF Move, Done, Bit, Total
<1>3. state' \notin {"down_request", "up_request", "up_seg_request"}
  BY <1>1, Domains DEF Move, Downs, Up1, Up2
<1>4. state' \in {"down_check", "up_check", "up_seg_check", "down_seg_check"} => datagram'.what = Check
  BY Domains DEF Move
<1>5. state' \in SegStates => Bit' = prog'.toggle
  BY <1>2 DEF Move, AskInv
<1>6. state' \in Up1 \cup Up2 => request'.dir = "up"
  BY <1>1, <1>2 DEF Move, AskInv, Downs, Up1, Up2
<1>7. state' \in Downs => request'.data \in asked
  BY <1>1, <1>2 DEF Move, AskInv, Downs, Up1, Up2
<1>8. Busy'
  BY Domains DEF Move, Busy, Terminal
<1> QED
  BY <1>3, <1>4, <1>5, <1>6, <1>7, <1>8 DEF AskInv

LEMMA AskEnd ==
    ASSUME Inv, AskInv, NEW s \in {"end", "error"}, End(s), datagram.state # "sent"
    PROVE  AskInv'
  BY DEF End, AskInv, SegStates, Up1, Up2, Downs

LEMMA AskExec ==
    ASSUME Inv, AskInv, Exec
    PROVE  AskInv'
<1>0. Busy /\ asked' = asked /\ datagram.state # "sent"
  BY DEF Exec, Outside
<1>1. CASE PushEmergency
  BY <1>0, <1>1, AskSame DEF PushEmergency, fsmvars
<1>2. CASE Again
  BY <1>0, <1>2, AskAgain
<1>3. CASE Move
  BY <1>0, <1>3, AskMove
<1>4. CASE Fails
  BY <1>0, <1>4, AskEnd DEF Fails
<1>5. CASE DownFirst
  <2>1. state = "down_response" /\ Answered /\ Download(prog.remaining, 0)
    BY <1>5 DEF DownFirst, Response
  <2>2. state \in Downs /\ prog.remaining \in Nat /\ 0 \in Toggles
    BY <2>1, Counts DEF Downs, Toggles
  <2>3. prog.remaining < Total
    BY <2>2 DEF Inv, FsmInv, Total, Downs
  <2> QED
    BY <1>0, <2>1, <2>2, <2>3, AskDownload
<1>6. CASE DownNext
  <2>1. state = "down_seg_response" /\ Answered
        /\ Download(prog.remaining - 1, 1 - prog.toggle)
    BY <1>6 DEF DownNext, Response
  <2>2. state \in Downs /\ state \in SegStates
    BY <2>1 DEF Downs, SegStates
  <2>3. prog.remaining \in Nat /\ prog.remaining > 0 /\ prog.remaining < Total /\ Total \in Nat
    BY <2>2, Counts DEF Inv, FsmInv, Total, Downs, SegStates
  <2>4. 1 - prog.toggle \in Toggles
    BY Counts DEF Toggles
  <2>5. prog.remaining - 1 \in Nat /\ prog.remaining - 1 < Total
        /\ Total - (prog.remaining - 1) # 1
    BY <2>3
  <2> QED
    BY <1>0, <2>1, <2>2, <2>4, <2>5, AskDownload
<1>7. CASE UpResponse
  <2>1. /\ state = "up_response"
        /\ datagram.data.size = 1 => End("end")
        /\ datagram.data.size # 1 => Enter("up_seg_request", UpSegment(0))
        /\ request' = [request EXCEPT !.data = <<datagram.data.part>>]
        /\ prog' = [prog EXCEPT !.complete = datagram.data.size, !.toggle = 0]
    BY <1>7 DEF UpResponse, Response
  <2>2. CASE datagram.data.size = 1
    BY <1>0, <2>1, <2>2, AskEnd
  <2>3. CASE datagram.data.size # 1
    <3>1. state' = "up_seg_request" /\ datagram'.what = UpSegment(0) /\ datagram'.state = "sent"
      BY <2>1, <2>3, SendState DEF Enter
    <3>2. request'.dir = "up" /\ prog'.toggle = 0
      BY <2>1 DEF AskInv, Up1, Inv, FsmType
    <3>3. UpSegment(prog.toggle)' = UpSegment(0)
      BY <3>2 DEF UpSegment
    <3>4. Busy'
      BY <3>1 DEF Busy, Terminal
    <3> QED
      BY <3>1, <3>2, <3>3, <3>4 DEF AskInv, SegStates, Up1, Up2, Downs
  <2> QED
    BY <2>2, <2>3
<1>8. CASE UpNext
  <2>1. /\ state = "up_seg_response"
        /\ request' = [request EXCEPT !.data = Append(@, datagram.data.part)]
    BY <1>8 DEF UpNext, Response
  <2>2. CASE End("end")
    BY <1>0, <2>2, AskEnd
  <2>3. CASE /\ prog' = [prog EXCEPT !.toggle = 1 - @]
             /\ Enter("up_seg_request", UpSegment(1 - prog.toggle))
    <3>1. state' = "up_seg_request" /\ datagram'.what = UpSegment(1 - prog.toggle)
          /\ datagram'.state = "sent"
      BY <2>3, SendState DEF Enter
    <3>2. request'.dir = "up" /\ prog'.toggle = 1 - prog.toggle
      BY <2>1, <2>3 DEF AskInv, Up2, Inv, FsmType
    <3>3. UpSegment(prog.toggle)' = UpSegment(1 - prog.toggle)
      BY <3>2 DEF UpSegment
    <3>4. Busy'
      BY <3>1 DEF Busy, Terminal
    <3> QED
      BY <3>1, <3>2, <3>3, <3>4 DEF AskInv, SegStates, Up1, Up2, Downs
  <2> QED
    BY <1>8, <2>2, <2>3 DEF UpNext
<1> QED
  BY <1>1, <1>2, <1>3, <1>4, <1>5, <1>6, <1>7, <1>8, ExecSteps

\* Every other step leaves the state machine and what it sent alone.
LEMMA AskNext ==
    ASSUME Inv, AskInv, [Next]_vars
    PROVE  AskInv'
<1>1. CASE Bus
  <2>1. UNCHANGED <<state, request, prog, asked>> /\ datagram'.what = datagram.what
        /\ datagram'.state # "sent"
    BY <1>1, BusSteps
  <2> QED
    BY <2>1, AskSame
<1>2. ASSUME UNCHANGED <<state, datagram, request, prog, asked>> PROVE AskInv'
  BY <1>2, AskSame DEF AskInv
<1>3. CASE Serve \/ Emergency \/ OtherAnswer \/ Theft \/ Expire \/ Application \/ UNCHANGED vars
  BY <1>2, <1>3 DEF Serve, Emergency, OtherAnswer, Theft, Expire, Application, fsmvars, vars
<1> QED
  BY <1>1, <1>3, AskStart, AskExec DEF Next

-----------------------------------------------------------------------------
(* Uploads. *)

\* Parts of the value, those the state machine has, and the answers it waits for.
Size == Len(object)
Got == Len(request.data)
UpFirst == [type |-> "up", own |-> TRUE, part |-> object[1], size |-> Size]
UpPart == [type |-> "up_seg", part |-> object[Got + 1], last |-> (Got + 1 = Size)]

Prefix(s, v, j) == Len(s) = j /\ j <= Len(v) /\ \A i \in 1 .. j : s[i] = v[i]
Suffix(s, v, j) == Len(s) = Len(v) - j /\ \A i \in 1 .. Len(s) : s[i] = v[j + i]

\* The slave is in an upload and has still to give what follows the j-th part.
HasRest(t, j) ==
    /\ server.type = "up_seg" /\ server.toggle = t
    /\ j < Size /\ Suffix(server.data, object, j)

\* An upload that is not late has the slave at its first part ...
Up1Inv ==
    state \in Up1 /\ ~late =>
        /\ rx \in {None, UpRequest}
        /\ ~Some("up_seg") /\ Each("up", UpFirst)
        /\ Some("up") => server = None \/ HasRest(0, 1)

\* ... or at the part that follows those the state machine has, or at the next
\* one, if the answer with this one is on its way.
Given == server = None \/ HasRest(1 - prog.toggle, Got + 1)
Up2Inv ==
    state \in Up2 /\ ~late =>
        /\ prog.complete = Size /\ Prefix(request.data, object, Got)
        /\ Got >= 1 /\ Got < Size
        /\ Got = 1 => prog.toggle = 0
        /\ \/ rx = None
           \/ rx = UpRequest /\ Got = 1
           \/ rx = UpSegment(prog.toggle)
           \/ rx = UpSegment(1 - prog.toggle) /\ Got > 1
        /\ \/ HasRest(prog.toggle, Got)
           \/ server = None
           \/ HasRest(1 - prog.toggle, Got + 1) /\ rx \in {None, UpSegment(prog.toggle)}
        /\ Unique("up_seg") /\ Each("up_seg", UpPart)
        /\ Some("up_seg") => Given /\ rx \in {None, UpSegment(prog.toggle)}

UpInv == Up1Inv /\ Up2Inv

UpFrame ==
    /\ UNCHANGED <<rx, server, object, request, prog, late>>
    /\ state' \in Up1 => state \in Up1
    /\ state' \in Up2 => state \in Up2

LEMMA UpFrameSame ==
    ASSUME UNCHANGED <<server, object, request, prog>>
    PROVE  /\ UNCHANGED <<Size, Got, UpFirst, UpPart, Given>>
           /\ \A t, j : HasRest(t, j)' <=> HasRest(t, j)
           /\ \A t : UpSegment(t)' = UpSegment(t)
           /\ UpRequest' = UpRequest
           /\ Prefix(request.data, object, Got)' <=> Prefix(request.data, object, Got)
  BY DEF Size, Got, UpFirst, UpPart, Given, HasRest, UpSegment, UpRequest, Prefix, Suffix

LEMMA UpFewer ==
    ASSUME Inv, Inv', UpInv, UpFrame, Fewer
    PROVE  UpInv'
<1>1. UNCHANGED <<rx, server, object, request, prog, late>>
  BY DEF UpFrame
<1>2. \A t : /\ Some(t)' => Some(t)
             /\ Unique(t) => Unique(t)'
             /\ \A m : Each(t, m) => Each(t, m)'
  BY FewerKeeps
<1>3. Up1Inv'
  BY <1>1, <1>2, UpFrameSame DEF UpFrame, UpInv, Up1Inv
<1>4. Up2Inv'
  BY <1>1, <1>2, UpFrameSame DEF UpFrame, UpInv, Up2Inv
<1> QED
  BY <1>3, <1>4 DEF UpInv

LEMMA UpMore ==
    ASSUME Inv, Inv', UpInv, UpFrame, NEW m, More(m), Kind(m) \notin {"up", "up_seg"}
    PROVE  UpInv'
<1>1. UNCHANGED <<rx, server, object, request, prog, late>>
  BY DEF UpFrame
<1>2. \A t \in {"up", "up_seg"} :
          /\ Some(t)' => Some(t)
          /\ Unique(t) => Unique(t)'
          /\ \A x : Each(t, x) => Each(t, x)'
  BY MoreKeeps
<1>3. Up1Inv'
  BY <1>1, <1>2, UpFrameSame DEF UpFrame, UpInv, Up1Inv
<1>4. Up2Inv'
  BY <1>1, <1>2, UpFrameSame DEF UpFrame, UpInv, Up2Inv
<1> QED
  BY <1>3, <1>4 DEF UpInv

LEMMA UpElse ==
    ASSUME state' \notin Up1 \cup Up2
    PROVE  UpInv'
  BY DEF UpInv, Up1Inv, Up2Inv

LEMMA Requests0 ==
    /\ None # UpRequest /\ Check # Fetch /\ Check # None /\ Fetch # None
    /\ UpRequest \notin {Check, Fetch}
    /\ \A t : /\ UpSegment(t) \notin {Check, Fetch, None, UpRequest}
              /\ UpSegment(t).type = "up_seg" /\ UpSegment(t).toggle = t
    /\ \A t, u : UpSegment(t) = UpSegment(u) => t = u
    /\ UpRequest.type = "up"
  BY DEF None, Check, Fetch, UpRequest, UpSegment

LEMMA HasRestToggle ==
    ASSUME NEW t, NEW j, HasRest(t, j)
    PROVE  server # None /\ server.type = "up_seg" /\ server.toggle = t
  BY DEF HasRest, None

\* The server goes on to the next part (an initiate request, a segment).
LEMMA SuffixTail ==
    ASSUME NEW v \in Data
    PROVE  /\ Head(v) = v[1]
           /\ Len(v) # 1 => Len(v) > 1 /\ Suffix(Tail(v), v, 1)
           /\ \A s \in Data, j \in Nat : Suffix(s, v, j) /\ j < Len(v) =>
                 /\ Head(s) = v[j + 1]
                 /\ Len(s) = 1 <=> j + 1 = Len(v)
                 /\ Len(s) # 1 => j + 1 < Len(v) /\ Suffix(Tail(s), v, j + 1)
<1>1. v \in Seq(Parts) /\ Len(v) \in Nat \ {0} /\ Head(v) = v[1]
  BY DEF Data
<1>2. ASSUME NEW s \in Data, NEW j \in Nat, Suffix(s, v, j), j < Len(v)
      PROVE  /\ Head(s) = v[j + 1]
             /\ Len(s) = 1 <=> j + 1 = Len(v)
             /\ Len(s) # 1 => j + 1 < Len(v) /\ Suffix(Tail(s), v, j + 1)
  <2>1. s \in Seq(Parts) /\ Len(s) \in Nat \ {0} /\ Head(s) = s[1]
    BY DEF Data
  <2>2. Len(s) = Len(v) - j /\ \A i \in 1 .. Len(s) : s[i] = v[j + i]
    BY <1>2 DEF Suffix
  <2>3. Head(s) = v[j + 1] /\ (Len(s) = 1 <=> j + 1 = Len(v))
    BY <1>1, <2>1, <2>2
  <2>4. ASSUME Len(s) # 1
        PROVE  j + 1 < Len(v) /\ Suffix(Tail(s), v, j + 1)
    <3>1. Len(Tail(s)) = Len(s) - 1 /\ \A i \in 1 .. Len(s) - 1 : Tail(s)[i] = s[i + 1]
      BY <2>1
    <3>2. Len(Tail(s)) = Len(v) - (j + 1)
      BY <1>1, <2>1, <2>2, <3>1
    <3>3. ASSUME NEW i \in 1 .. Len(Tail(s)) PROVE Tail(s)[i] = v[(j + 1) + i]
      <4>1. i + 1 \in 1 .. Len(s) /\ i \in 1 .. Len(s) - 1 /\ i \in Nat
        BY <2>1, <3>1
      <4>2. Tail(s)[i] = v[j + (i + 1)]
        BY <2>2, <3>1, <4>1
      <4>3. j + (i + 1) = (j + 1) + i
        BY <4>1
      <4> QED
        BY <4>2, <4>3
    <3>4. j + 1 < Len(v)
      BY <1>1, <2>1, <2>2, <2>4
    <3> QED
      BY <3>2, <3>3, <3>4 DEF Suffix
  <2> QED
    BY <2>3, <2>4
<1>3. Suffix(v, v, 0) /\ 0 < Len(v)
  BY <1>1 DEF Suffix
<1>4. Len(v) # 1 => Len(v) > 1 /\ Suffix(Tail(v), v, 1)
  BY <1>1, <1>2, <1>3
<1> QED
  BY <1>1, <1>2, <1>4

LEMMA UpBus ==
    ASSUME Inv, Inv', AskInv, UpInv, Bus
    PROVE  UpInv'
<1>1. UNCHANGED <<state, request, prog, server, object, late>> /\ Fewer
  BY BusSteps, BusFewer
<1>2. CASE UNCHANGED rx
  BY <1>1, <1>2, UpFewer DEF UpFrame
<1>3. CASE BusRequest
  <2>1. datagram.what \notin {Check, Fetch} /\ rx' = datagram.what
    BY <1>3 DEF BusRequest
  <2>2. \A t : /\ Some(t)' => Some(t)
               /\ Unique(t) => Unique(t)'
               /\ \A m : Each(t, m) => Each(t, m)'
    BY <1>1, FewerKeeps
  <2>3. state \in Up1 \cup Up2 => state \in {"up_request", "up_seg_request"}
    BY <2>1, Domains DEF AskInv, Inv, FsmInv, Up1, Up2
  <2>4. Up1Inv'
    <3> SUFFICES ASSUME state \in Up1, ~late PROVE Up1Inv'
      BY <1>1 DEF Up1Inv
    <3>1. rx' = UpRequest
      BY <2>1, <2>3 DEF AskInv, Up1
    <3> QED
      BY <1>1, <2>2, <3>1, UpFrameSame DEF UpInv, Up1Inv
  <2>5. Up2Inv'
    <3> SUFFICES ASSUME state \in Up2, ~late PROVE Up2Inv'
      BY <1>1 DEF Up2Inv
    <3>1. rx' = UpSegment(prog.toggle)
      BY <2>1, <2>3 DEF AskInv, Up2
    <3> QED
      BY <1>1, <2>2, <3>1, UpFrameSame DEF UpInv, Up2Inv
  <2> QED
    BY <2>4, <2>5 DEF UpInv
<1> QED
  BY <1>2, <1>3, BusSteps DEF BusAlone, BusFetch

LEMMA Kinds ==
    /\ Kind(Downed) = "down" /\ Kind(Refusal) = "abort"
    /\ \A t : Kind(Acked(t)) = "down_seg"
    /\ \A p, z : Kind([type |-> "up", own |-> TRUE, part |-> p, size |-> z]) = "up"
    /\ \A p, z : Kind([type |-> "up_seg", part |-> p, last |-> z]) = "up_seg"
    /\ \A m : Kind([type |-> "emergency", msg |-> m]) = "emergency"
    /\ \A o \in Others : /\ Kind([type |-> o, own |-> FALSE]) \in {"eoe", "other"}
                         /\ o = "up" => Kind([type |-> o, own |-> FALSE]) = "other"
                         /\ o # "up" => Kind([type |-> o, own |-> FALSE]) = "eoe"
    /\ Kind(None) = "none"
  BY CoeAssumption DEF Kind, Downed, Refusal, Acked, None

\* The slave's answer to an initiate request is the upload's first one.
LEMMA ServeUpRest ==
    ASSUME Inv, ServeUp
    PROVE  /\ UNCHANGED object /\ More(UpFirst)
           /\ (Size = 1 /\ server' = None) \/ (Size > 1 /\ HasRest(0, 1)')
           /\ Size \in Nat
<1>1. object \in Data /\ Len(object) \in Nat
  BY DEF Inv, SlaveType, Data
<1>2. Head(object) = object[1] /\ (Len(object) # 1 => Len(object) > 1 /\ Suffix(Tail(object), object, 1))
  BY <1>1, SuffixTail
<1>3. More(UpFirst) /\ UNCHANGED object
  BY <1>2 DEF ServeUp, UpFirst, Size
<1>4. CASE Len(object) = 1
  BY <1>1, <1>3, <1>4 DEF ServeUp, Size
<1>5. CASE Len(object) # 1
  <2>1. server' = [type |-> "up_seg", toggle |-> 0, data |-> Tail(object)]
    BY <1>5 DEF ServeUp
  <2>2. server'.data = Tail(object) /\ server'.type = "up_seg" /\ server'.toggle = 0
    BY <2>1
  <2>3. Suffix(server'.data, object', 1)
    BY <1>2, <1>3, <1>5, <2>2
  <2> QED
    BY <1>1, <1>2, <1>3, <1>5, <2>2, <2>3 DEF HasRest, Size
<1> QED
  BY <1>4, <1>5

\* The answer to a segment in turn is the part that follows.
LEMMA ServeUpSegRest ==
    ASSUME Inv, ServeUpSeg, NEW t \in Toggles, NEW j \in Nat, HasRest(t, j)
    PROVE  /\ UNCHANGED object /\ rx.toggle = t
           /\ More([type |-> "up_seg", part |-> object[j + 1], last |-> (j + 1 = Size)])
           /\ (j + 1 = Size /\ server' = None) \/ HasRest(1 - t, j + 1)'
<1>1. server.type = "up_seg" /\ server.toggle = t /\ j < Size /\ Suffix(server.data, object, j)
  BY DEF HasRest
<1>2. server \in [type : {"down_seg", "up_seg"}, toggle : Toggles, data : Data] /\ object \in Data
  BY <1>1 DEF Inv, SlaveType, Servers, None
<1>3. server.data \in Data
  BY <1>2
<1>4. /\ Head(server.data) = object[j + 1]
      /\ Len(server.data) = 1 <=> j + 1 = Size
      /\ Len(server.data) # 1 => j + 1 < Size /\ Suffix(Tail(server.data), object, j + 1)
  BY <1>1, <1>2, <1>3, SuffixTail DEF Size
<1>5. More([type |-> "up_seg", part |-> object[j + 1], last |-> (j + 1 = Size)])
  <2>1. (Len(server.data) = 1) = (j + 1 = Size)
    BY <1>4
  <2> QED
    BY <1>4, <2>1 DEF ServeUpSeg
<1>6. UNCHANGED object /\ rx.toggle = t
  BY <1>1 DEF ServeUpSeg, InTurn
<1>7. CASE Len(server.data) = 1
  BY <1>4, <1>5, <1>6, <1>7 DEF ServeUpSeg
<1>8. CASE Len(server.data) # 1
  <2>1. server' = [server EXCEPT !.toggle = 1 - @, !.data = Tail(@)]
    BY <1>8 DEF ServeUpSeg
  <2>2. server'.type = "up_seg" /\ server'.toggle = 1 - t /\ server'.data = Tail(server.data)
    BY <1>1, <1>2, <2>1
  <2>3. Suffix(server'.data, object', j + 1) /\ j + 1 < Size'
    BY <1>4, <1>6, <1>8, <2>2 DEF Size
  <2> QED
    BY <1>5, <1>6, <2>2, <2>3 DEF HasRest
<1> QED
  BY <1>7, <1>8

LEMMA UpServe ==
    ASSUME Inv, Inv', AskInv, UpInv, Serve
    PROVE  UpInv'
<1>1. UNCHANGED <<state, request, prog, late>> /\ rx # None /\ rx' = None
      /\ (ServeDown \/ ServeUp \/ ServeDownSeg \/ ServeUpSeg \/ ServeAbort)
  BY ServeSteps
<1>2. prog.toggle \in Toggles /\ 1 - prog.toggle \in Toggles /\ 1 - (1 - prog.toggle) = prog.toggle
      /\ prog.toggle # 1 - prog.toggle
      /\ Got \in Nat /\ Got' = Got /\ 0 \in Toggles
  BY <1>1, Counts DEF Toggles, Got, Total
<1>3. Up1Inv'
  <2> SUFFICES ASSUME state \in Up1, ~late PROVE Up1Inv'
    BY <1>1 DEF Up1Inv
  <2>1. rx = UpRequest /\ ~Some("up_seg") /\ Each("up", UpFirst)
    BY <1>1 DEF UpInv, Up1Inv
  <2>2. ServeUp \/ ServeAbort
    BY <1>1, <2>1, Requests0 DEF ServeDown, ServeDownSeg, ServeUpSeg
  <2>3. CASE ServeUp
    <3>1. UNCHANGED object /\ More(UpFirst) /\ (server' = None \/ HasRest(0, 1)')
      BY <2>3, ServeUpRest
    <3>2. Kind(UpFirst) = "up" /\ UpFirst' = UpFirst
      BY <3>1, Kinds DEF UpFirst, Size
    <3>3. ~Some("up_seg")' /\ Each("up", UpFirst)'
      BY <2>1, <3>1, <3>2, MoreKeeps
    <3> QED
      BY <1>1, <3>1, <3>2, <3>3 DEF Up1Inv, UpFirst
  <2>4. CASE ServeAbort
    <3>1. UNCHANGED object /\ More(Refusal) /\ server' = None
      BY <2>4 DEF ServeAbort
    <3>2. UpFirst' = UpFirst
      BY <3>1 DEF UpFirst, Size
    <3>3. ~Some("up_seg")' /\ Each("up", UpFirst)'
      BY <2>1, <3>1, <3>2, MoreKeeps, Kinds
    <3> QED
      BY <1>1, <3>1, <3>2, <3>3 DEF Up1Inv, UpFirst
  <2> QED
    BY <2>2, <2>3, <2>4
<1>4. Up2Inv'
  <2> SUFFICES ASSUME state \in Up2, ~late PROVE Up2Inv'
    BY <1>1 DEF Up2Inv
  <2>1. /\ prog.complete = Size /\ Prefix(request.data, object, Got)
        /\ Got >= 1 /\ Got < Size
        /\ Got = 1 => prog.toggle = 0
        /\ Unique("up_seg") /\ Each("up_seg", UpPart)
        /\ Some("up_seg") => Given /\ rx \in {None, UpSegment(prog.toggle)}
    BY DEF UpInv, Up2Inv
  <2>2. \/ rx = UpRequest /\ Got = 1
        \/ rx = UpSegment(prog.toggle)
        \/ rx = UpSegment(1 - prog.toggle) /\ Got > 1
    BY <1>1 DEF UpInv, Up2Inv
  <2>3. \/ HasRest(prog.toggle, Got)
        \/ server = None
        \/ HasRest(1 - prog.toggle, Got + 1) /\ rx \in {None, UpSegment(prog.toggle)}
    BY DEF UpInv, Up2Inv
  <2>4. rx.type \in {"up", "up_seg"}
    BY <2>2, Requests0
  <2>5. ServeUp \/ ServeUpSeg \/ ServeAbort
    BY <1>1, <2>4 DEF ServeDown, ServeDownSeg
  <2>6. UNCHANGED object
    BY <2>5 DEF ServeUp, ServeUpSeg, ServeAbort
  <2>7. UNCHANGED <<UpPart, Size, Got>> /\ Prefix(request.data, object, Got)'
    BY <1>1, <2>1, <2>6 DEF UpPart, Size, Got, Prefix
  <2>8. CASE ServeUp
    <3>1. More(UpFirst) /\ (server' = None \/ HasRest(0, 1)')
      BY <2>8, ServeUpRest
    <3>2. rx = UpRequest /\ Got = 1
      BY <2>2, <2>8, Requests0 DEF ServeUp
    <3>3. ~Some("up_seg")
      BY <2>1, <3>2, Requests0
    <3>4. Kind(UpFirst) = "up"
      BY Kinds DEF UpFirst
    <3>5. ~Some("up_seg")' /\ Unique("up_seg")' /\ Each("up_seg", UpPart)'
      BY <2>1, <2>7, <3>1, <3>3, <3>4, MoreKeeps
    <3>6. prog.toggle = 0 /\ (server' = None \/ HasRest(prog.toggle, Got)')
      BY <1>1, <2>1, <2>7, <3>1, <3>2 DEF HasRest
    <3> QED
      BY <1>1, <2>1, <2>7, <3>5, <3>6 DEF Up2Inv
  <2>9. CASE ServeUpSeg
    <3>1. rx = UpSegment(prog.toggle) \/ (rx = UpSegment(1 - prog.toggle) /\ Got > 1)
      BY <2>2, <2>9, Requests0 DEF ServeUpSeg
    <3>2. server # None /\ server.toggle = rx.toggle /\ server.type = "up_seg"
      BY <2>9, <2>4 DEF ServeUpSeg, InTurn, None
    <3>3. rx = UpSegment(prog.toggle) /\ HasRest(prog.toggle, Got)
      BY <1>2, <2>3, <3>1, <3>2, Requests0, HasRestToggle
    <3>4. /\ More(UpPart)
          /\ server' = None \/ HasRest(1 - prog.toggle, Got + 1)'
      <4>1. \A t \in Toggles, j \in Nat : HasRest(t, j) =>
                /\ More([type |-> "up_seg", part |-> object[j + 1], last |-> (j + 1 = Size)])
                /\ (j + 1 = Size /\ server' = None) \/ HasRest(1 - t, j + 1)'
        BY <2>9, ServeUpSegRest
      <4>2. More(UpPart)
        BY <1>2, <3>3, <4>1 DEF UpPart
      <4>3. server' = None \/ HasRest(1 - prog.toggle, Got + 1)'
        BY <1>1, <1>2, <2>7, <3>3, <4>1 DEF HasRest
      <4> QED
        BY <4>2, <4>3
    <3>5. ~Some("up_seg")
      BY <1>2, <2>1, <3>2, <3>3, HasRestToggle DEF Given
    <3>6. Kind(UpPart) = "up_seg"
      BY Kinds DEF UpPart
    <3>7. Unique("up_seg")' /\ Each("up_seg", UpPart)'
      BY <2>1, <2>7, <3>4, <3>5, <3>6, MoreKeeps
    <3>8. Given'
      BY <1>1, <2>7, <3>4 DEF Given
    <3> QED
      BY <1>1, <2>1, <2>7, <3>4, <3>7, <3>8 DEF Up2Inv
  <2>10. CASE ServeAbort
    <3>1. More(Refusal) /\ server' = None
      BY <2>10 DEF ServeAbort
    <3>2. Unique("up_seg")' /\ Each("up_seg", UpPart)'
      BY <2>1, <2>7, <3>1, MoreKeeps, Kinds
    <3> QED
      BY <1>1, <2>1, <2>7, <3>1, <3>2 DEF Up2Inv, Given
  <2> QED
    BY <2>5, <2>8, <2>9, <2>10
<1> QED
  BY <1>3, <1>4 DEF UpInv

LEMMA ResponseTypes ==
    ASSUME NEW m \in Responses \cup {None}
    PROVE  /\ m.type \in {"down", "up", "eoe", "down_seg", "up_seg", "abort", "emergency", "none"}
           /\ m.type = "down" => m = Downed
           /\ m.type = "down_seg" => m.toggle \in Toggles /\ m = Acked(m.toggle)
<1>1. CASE m \in [type : {"down"}, own : {TRUE}]
  BY <1>1 DEF Downed
<1>2. CASE m \in [type : {"up"}, own : {TRUE}, part : Parts, size : Nat]
  BY <1>2
<1>3. CASE m \in [type : {"eoe", "up"}, own : {FALSE}]
  BY <1>3
<1>4. CASE m \in [type : {"down_seg"}, toggle : Toggles]
  BY <1>4 DEF Acked
<1>5. CASE m \in [type : {"up_seg"}, part : Parts, last : BOOLEAN]
  BY <1>5
<1>6. CASE m \in [type : {"abort"}]
  BY <1>6
<1>7. CASE m \in [type : {"emergency"}, msg : Emerg]
  BY <1>7
<1>8. CASE m = None
  BY <1>8 DEF None
<1> QED
  BY <1>1, <1>2, <1>3, <1>4, <1>5, <1>6, <1>7, <1>8, Zenon DEF Responses

LEMMA Fetched ==
    ASSUME Inv, Pending
    PROVE  /\ 0 \in DOMAIN Answers /\ Answers[0] = datagram.data
           /\ Some(Kind(datagram.data))
           /\ \A m : Each(Kind(datagram.data), m) => datagram.data = m
           /\ \A S : Only(S) => Kind(datagram.data) \in S
           /\ datagram.data \in Responses \cup {None}
<1>1. 0 \in DOMAIN Answers /\ Answers[0] = datagram.data
  BY DEF Answers, Inv, SlaveType
<1>2. datagram.data \in Responses \cup {None}
  BY DEF Inv, FsmInv, DatagramType, Pending
<1> QED
  BY <1>1, <1>2 DEF Some, Each, Only

\* The state machine takes the answer it has fetched.
LEMMA Consumed ==
    ASSUME Inv, Inv', Pending, ~Pending', tx' = tx, NEW k, k = Kind(datagram.data)
    PROVE  /\ Unique(k) => ~Some(k)'
           /\ \A t : Before(t, k) => ~Some(t)'
           /\ \A t : Some(t) /\ t # k => Some(t)'
<1>1. 0 \in DOMAIN Answers /\ Kind(Answers[0]) = k
  BY Fetched
<1>2. DOMAIN Answers' = DOMAIN Answers \ {0}
  BY DEF Answers, Inv, SlaveType
<1>3. \A i \in DOMAIN Answers' : i \in Nat \ {0} /\ Answers'[i] = Answers[i]
  BY DEF Answers, Inv, SlaveType
<1>4. Unique(k) => ~Some(k)'
  BY <1>1, <1>2, <1>3 DEF Unique, Some
<1>5. \A t : Before(t, k) => ~Some(t)'
  BY <1>1, <1>2, <1>3 DEF Before, Some
<1>6. \A t : Some(t) /\ t # k => Some(t)'
  BY <1>1, <1>2, <1>3 DEF Some
<1> QED
  BY <1>4, <1>5, <1>6

\* A transfer that is not late finds no answer to another one.
LEMMA StartAnswers ==
    ASSUME Inv, Inv', Start
    PROVE  /\ ~late' => rx' = None
                         /\ \A t \in {"down", "down_seg", "up", "up_seg"} : ~Some(t)'
           /\ ~disturbed' => ~late' /\ Only({"emergency"})'
<1>1. ~Pending' /\ tx' = tx /\ rx' = rx
  BY StartFewer DEF Start, slavevars
<1>2. \A i \in DOMAIN Answers' : i \in DOMAIN tx /\ Answers'[i] = tx[i] /\ tx[i] \in Responses
  BY <1>1 DEF Answers, Inv, SlaveType
<1>3. late' <=> (rx # None \/ \E i \in DOMAIN tx : Own(tx[i]))
  BY DEF Start
<1>4. disturbed' <=> (rx # None \/ \E i \in DOMAIN tx : tx[i].type # "emergency")
  BY DEF Start
<1>5. ASSUME NEW m \in Responses, Kind(m) \in {"down", "down_seg", "up", "up_seg"}
      PROVE  Own(m)
  BY <1>5 DEF Responses, Kind, Own
<1>6. ASSUME NEW m, m.type = "emergency" PROVE Kind(m) = "emergency" /\ ~Own(m)
  BY <1>6 DEF Kind, Own
<1>7. ~late' => \A t \in {"down", "down_seg", "up", "up_seg"} : ~Some(t)'
  BY <1>2, <1>3, <1>5 DEF Some
<1>8. ~disturbed' => ~late' /\ Only({"emergency"})'
  BY <1>2, <1>3, <1>4, <1>6 DEF Only
<1> QED
  BY <1>1, <1>3, <1>7, <1>8

LEMMA UpInit == Init => UpInv
  BY DEF Init, UpInv, Up1Inv, Up2Inv, Up1, Up2

LEMMA UpStart ==
    ASSUME Inv, Inv', Start
    PROVE  UpInv'
<1>1. state' \in {"up_request", "down_request"}
  BY DEF Start
<1>2. Up2Inv'
  BY <1>1 DEF Up2Inv, Up2
<1>3. ASSUME ~late' PROVE rx' = None /\ ~Some("up_seg")' /\ ~Some("up")'
  BY <1>3, StartAnswers
<1>4. ~Some("up")' => Each("up", UpFirst)'
  BY DEF Some, Each
<1> QED
  BY <1>2, <1>3, <1>4 DEF UpInv, Up1Inv

\* The first part is there.
LEMMA UpFirstTaken ==
    ASSUME Inv, Inv', AskInv, UpInv, UpResponse, ~late, ~Pending', tx' = tx,
           UNCHANGED slavevars
    PROVE  /\ datagram.data = UpFirst /\ request'.data = <<object[1]>>
           /\ Size = 1 => state' = "end"
           /\ Size # 1 => state' = "up_seg_request" /\ datagram'.what = UpSegment(0)
                          /\ datagram'.state = "sent"
           /\ prog'.complete = Size /\ prog'.toggle = 0
           /\ ~Some("up_seg")'
           /\ server = None \/ HasRest(0, 1)
           /\ Size \in Nat \ {0}
<1>1. /\ state = "up_response" /\ Answered /\ datagram.data.type = "up" /\ datagram.data.own
      /\ request' = [request EXCEPT !.data = <<datagram.data.part>>]
      /\ prog' = [prog EXCEPT !.complete = datagram.data.size, !.toggle = 0]
      /\ datagram.data.size = 1 => End("end")
      /\ datagram.data.size # 1 => Enter("up_seg_request", UpSegment(0))
  BY DEF UpResponse, Response
<1>2. Pending /\ Kind(datagram.data) = "up" /\ state \in Up1
  BY <1>1, Domains DEF Pending, Kind, Up1
<1>3. /\ ~Some("up_seg") /\ Each("up", UpFirst)
      /\ Some("up") => server = None \/ HasRest(0, 1)
  BY <1>2 DEF UpInv, Up1Inv
<1>4. datagram.data = UpFirst /\ Some("up")
  BY <1>2, <1>3, Fetched
<1>5. datagram.data.part = object[1] /\ datagram.data.size = Size
  BY <1>4 DEF UpFirst
<1>6. ~Some("up_seg")'
  BY <1>3, SameFewer, FewerKeeps
<1>7. request'.data = <<object[1]>> /\ prog'.complete = Size /\ prog'.toggle = 0
  BY <1>1, <1>5 DEF Inv, FsmType
<1>8. Size \in Nat \ {0}
  BY DEF Size, Inv, SlaveType, Data
<1> QED
  BY <1>1, <1>3, <1>4, <1>5, <1>6, <1>7, <1>8, SendState DEF End, Enter

LEMMA UpResponseStep ==
    ASSUME Inv, Inv', AskInv, UpInv, UpResponse, ~Pending', tx' = tx,
           UNCHANGED <<slavevars, late>>
    PROVE  UpInv'
<1>0. state' \in {"end", "up_seg_request"}
  BY DEF UpResponse, End, Enter
<1> SUFFICES ASSUME ~late, state' = "up_seg_request" PROVE Up2Inv'
  BY <1>0 DEF UpInv, Up1Inv, Up2Inv, Up1, Up2
<1>1. /\ request'.data = <<object[1]>> /\ Size # 1
      /\ prog'.complete = Size /\ prog'.toggle = 0
      /\ ~Some("up_seg")'
      /\ server = None \/ HasRest(0, 1)
      /\ Size \in Nat \ {0}
  BY UpFirstTaken
<1>2. UNCHANGED <<rx, server, object, Size>>
  BY DEF slavevars, Size
<1>3. Got' = 1 /\ Prefix(request'.data, object, 1)
  BY <1>1 DEF Got, Prefix, Size
<1>4. Prefix(request.data, object, Got)'
  BY <1>2, <1>3
<1>5. state \in Up1
  BY DEF UpResponse, Response, Up1
<1>6. rx' \in {None, UpRequest}
  BY <1>2, <1>5 DEF UpInv, Up1Inv
<1>7. UpRequest' = UpRequest
  BY DEF UpRequest
<1>8. server' = None \/ HasRest(prog.toggle, Got)'
  BY <1>1, <1>2, <1>3 DEF HasRest
<1>9. Unique("up_seg")' /\ Each("up_seg", UpPart)'
  BY <1>1 DEF Some, Unique, Each
<1> QED
  BY <1>1, <1>2, <1>3, <1>4, <1>6, <1>7, <1>8, <1>9 DEF Up2Inv

LEMMA PrefixAppend ==
    ASSUME NEW v \in Data, NEW s \in Seq(Parts), NEW j \in Nat, Prefix(s, v, j), j < Len(v)
    PROVE  /\ Prefix(Append(s, v[j + 1]), v, j + 1)
           /\ j + 1 = Len(v) => Append(s, v[j + 1]) = v
<1>1. v \in Seq(Parts) /\ Len(v) \in Nat /\ j + 1 \in 1 .. Len(v) /\ v[j + 1] \in Parts
  BY DEF Data
<1>2. Len(s) = j /\ \A i \in 1 .. j : s[i] = v[i]
  BY DEF Prefix
<1> DEFINE a == Append(s, v[j + 1])
<1>3. a \in Seq(Parts) /\ Len(a) = j + 1 /\ a[j + 1] = v[j + 1] /\ \A i \in 1 .. j : a[i] = s[i]
  BY <1>1, <1>2
<1> HIDE DEF a
<1>4. \A i \in 1 .. j + 1 : a[i] = v[i]
  BY <1>1, <1>2, <1>3
<1>5. Prefix(a, v, j + 1)
  BY <1>1, <1>3, <1>4 DEF Prefix
<1>6. j + 1 = Len(v) => a = v
  BY <1>1, <1>3, <1>4, SeqEqual
<1> QED
  BY <1>5, <1>6 DEF a

\* Another part is there.
LEMMA UpPartTaken ==
    ASSUME Inv, Inv', AskInv, UpInv, UpNext, ~late, ~Pending', tx' = tx,
           UNCHANGED slavevars
    PROVE  /\ datagram.data = UpPart
           /\ request'.data = Append(request.data, object[Got + 1]) /\ Got' = Got + 1
           /\ Prefix(request'.data, object, Got + 1)
           /\ Got + 1 = Size => state' = "end" /\ request'.data = object
           /\ Got + 1 # Size => /\ state' = "up_seg_request" /\ prog'.toggle = 1 - prog.toggle
                                /\ datagram'.what = UpSegment(1 - prog.toggle)
                                /\ datagram'.state = "sent"
           /\ prog'.complete = Size
           /\ ~Some("up_seg")'
           /\ Given /\ rx \in {None, UpSegment(prog.toggle)}
           /\ Got \in Nat \ {0} /\ Size \in Nat \ {0} /\ Got < Size
<1>1. /\ state = "up_seg_response" /\ Answered /\ datagram.data.type = "up_seg"
      /\ request' = [request EXCEPT !.data = Append(@, datagram.data.part)]
      /\ \/ datagram.data.last /\ End("end") /\ UNCHANGED prog
         \/ /\ ~datagram.data.last
            /\ prog' = [prog EXCEPT !.toggle = 1 - @]
            /\ Enter("up_seg_request", UpSegment(1 - prog.toggle))
  BY DEF UpNext, Response
<1>2. Pending /\ Kind(datagram.data) = "up_seg" /\ state \in Up2
  BY <1>1, Domains DEF Pending, Kind, Up2
<1>3. /\ prog.complete = Size /\ Prefix(request.data, object, Got)
      /\ Got >= 1 /\ Got < Size
      /\ Unique("up_seg") /\ Each("up_seg", UpPart)
      /\ Some("up_seg") => Given /\ rx \in {None, UpSegment(prog.toggle)}
  BY <1>2 DEF UpInv, Up2Inv
<1>4. datagram.data = UpPart /\ Some("up_seg")
  BY <1>2, <1>3, Fetched
<1>5. datagram.data.part = object[Got + 1] /\ (datagram.data.last <=> Got + 1 = Size)
  <2>1. datagram.data.part = object[Got + 1]
    BY <1>4 DEF UpPart
  <2>2. UpPart.last = (Got + 1 = Size)
    BY Zenon DEF UpPart
  <2>3. datagram.data.last = UpPart.last
    BY <1>4
  <2> QED
    BY <2>1, <2>2, <2>3, Zenon
<1>6. ~Some("up_seg")'
  BY <1>2, <1>3, Consumed
<1>7. object \in Data /\ request.data \in Seq(Parts) /\ Got \in Nat /\ Size \in Nat \ {0}
  BY DEF Inv, FsmType, SlaveType, Got, Size, Data
<1>8. request'.data = Append(request.data, object[Got + 1])
  BY <1>1, <1>5 DEF Inv, FsmType
<1>9. Prefix(request'.data, object, Got + 1) /\ (Got + 1 = Size => request'.data = object)
  BY <1>3, <1>7, <1>8, PrefixAppend DEF Size
<1>10. Got' = Got + 1
  BY <1>9 DEF Got, Prefix
<1>11. CASE Got + 1 = Size
  BY <1>1, <1>3, <1>4, <1>5, <1>6, <1>7, <1>8, <1>9, <1>10, <1>11 DEF End
<1>12. CASE Got + 1 # Size
  <2>1. prog'.toggle = 1 - prog.toggle /\ prog'.complete = prog.complete
    BY <1>1, <1>5, <1>12 DEF Inv, FsmType
  <2>2. state' = "up_seg_request" /\ Send(UpSegment(1 - prog.toggle))
    BY <1>1, <1>5, <1>12 DEF Enter
  <2> QED
    BY <1>3, <1>4, <1>6, <1>7, <1>8, <1>9, <1>10, <1>12, <2>1, <2>2, SendState
<1> QED
  BY <1>11, <1>12

LEMMA UpNextStep ==
    ASSUME Inv, Inv', AskInv, UpInv, UpNext, ~Pending', tx' = tx,
           UNCHANGED <<slavevars, late>>
    PROVE  UpInv'
<1>0. state' \in {"end", "up_seg_request"}
  BY DEF UpNext, End, Enter
<1> SUFFICES ASSUME ~late, state' = "up_seg_request" PROVE Up2Inv'
  BY <1>0 DEF UpInv, Up1Inv, Up2Inv, Up1, Up2
<1>1. /\ Got' = Got + 1 /\ Prefix(request'.data, object, Got + 1)
      /\ Got + 1 # Size /\ prog'.toggle = 1 - prog.toggle
      /\ prog'.complete = Size
      /\ ~Some("up_seg")'
      /\ Given /\ rx \in {None, UpSegment(prog.toggle)}
      /\ Got \in Nat \ {0} /\ Size \in Nat \ {0} /\ Got < Size
  BY UpPartTaken
<1>2. UNCHANGED <<rx, server, object, Size>>
  BY DEF slavevars, Size
<1>3. 1 - (1 - prog.toggle) = prog.toggle
  BY Counts DEF Toggles
<1>4. Prefix(request.data, object, Got)'
  BY <1>1, <1>2
<1>5. rx' = None \/ rx' = UpSegment(1 - prog.toggle)'
  BY <1>1, <1>2, <1>3 DEF UpSegment
<1>6. server' = None \/ HasRest(prog.toggle, Got)'
  BY <1>1, <1>2 DEF HasRest, Given
<1>7. Unique("up_seg")' /\ Each("up_seg", UpPart)'
  BY <1>1 DEF Some, Unique, Each
<1>8. Got' > 1 /\ Got' < Size'
  BY <1>1, <1>2
<1> QED
  BY <1>1, <1>2, <1>4, <1>5, <1>6, <1>7, <1>8 DEF Up2Inv

LEMMA UpExec ==
    ASSUME Inv, Inv', AskInv, UpInv, Exec
    PROVE  UpInv'
<1>1. Fewer /\ UNCHANGED <<slavevars, late>> /\ (~Pending' \/ PushEmergency) /\ Busy
      /\ tx' = tx /\ UNCHANGED <<rx, server, object>>
  BY ExecFewer DEF Exec, slavevars
<1>2. state \in Downs \cup Up1 \cup Up2
  BY <1>1, BusyStates
<1>3. CASE PushEmergency \/ Again
  BY <1>1, <1>3, UpFewer DEF UpFrame, PushEmergency, Again, fsmvars
<1>4. CASE Move
  <2>1. UpFrame
    BY <1>1, <1>2, <1>4 DEF Move, UpFrame, Downs, Up1, Up2
  <2> QED
    BY <1>1, <2>1, UpFewer
<1>5. CASE Fails \/ DownFirst \/ DownNext
  <2>1. state' \in {"error", "end", "down_seg_check"}
    BY <1>5 DEF Fails, DownFirst, DownNext, Download, End
  <2> QED
    BY <2>1, UpElse DEF Up1, Up2
<1>6. CASE UpResponse
  <2>1. ~PushEmergency
    BY <1>6 DEF UpResponse, PushEmergency, Response
  <2> QED
    BY <1>1, <1>6, <2>1, UpResponseStep
<1>7. CASE UpNext
  <2>1. ~PushEmergency
    BY <1>7 DEF UpNext, PushEmergency, Response
  <2> QED
    BY <1>1, <1>7, <2>1, UpNextStep
<1> QED
  BY <1>3, <1>4, <1>5, <1>6, <1>7, ExecSteps

\* A step of the slave, of another user, of time or of the application that
\* leaves the mailbox's request and the server alone.
LEMMA UpOther ==
    ASSUME Inv, Inv', UpInv,
           Emergency \/ OtherAnswer \/ Theft \/ Expire \/ Application \/ UNCHANGED vars
    PROVE  UpInv'
<1>1. UpFrame /\ UNCHANGED <<state, datagram>>
  BY DEF UpFrame, Emergency, OtherAnswer, Theft, Expire, Application, vars, fsmvars, slavevars
<1>2. CASE Emergency
  <2>1. More([type |-> "emergency", msg |-> emergs + 1])
    BY <1>1, <1>2, AnswerMore DEF Emergency
  <2> QED
    BY <1>1, <2>1, Kinds, UpMore
<1>3. CASE OtherAnswer
  <2>1. PICK o \in Others : Answer([type |-> o, own |-> FALSE])
    BY <1>3 DEF OtherAnswer
  <2>2. More([type |-> o, own |-> FALSE])
    BY <1>1, <2>1, AnswerMore
  <2> QED
    BY <1>1, <2>2, Kinds, UpMore
<1>4. CASE Theft
  BY <1>1, <1>4, TheftFewer, UpFewer
<1>5. CASE Expire \/ Application \/ UNCHANGED vars
  <2>1. tx' = tx
    BY <1>5 DEF Expire, Application, vars, slavevars
  <2>2. Pending' = Pending
    BY <1>1 DEF Pending, Answered, Received
  <2> QED
    BY <1>1, <2>1, <2>2, SameFewer, UpFewer
<1> QED
  BY <1>2, <1>3, <1>4, <1>5

LEMMA UpNextInv ==
    ASSUME Inv, Inv', AskInv, UpInv, [Next]_vars
    PROVE  UpInv'
  BY UpStart, UpExec, UpBus, UpServe, UpOther DEF Next

-----------------------------------------------------------------------------
(* An upload that nothing disturbs. *)

\* The answer that the state machine needs next, the request for it, and what
\* the slave has left before and after it has given it.
Token == IF state \in Up1 THEN "up" ELSE "up_seg"
UpAsk == IF state \in Up1 THEN UpRequest ELSE UpSegment(prog.toggle)
Ready == state \in Up2 => HasRest(prog.toggle, Got)
Handed == IF state \in Up1 THEN Size > 1 => HasRest(0, 1)
          ELSE Got + 1 < Size => HasRest(1 - prog.toggle, Got + 1)
Asking == state \in {"up_request", "up_seg_request"}

\* The request is on its way, or in the mailbox, or its answer has been given:
\* in one place only.
Unasked == rx = None /\ Asking /\ datagram.state = "sent" /\ ~Some(Token) /\ Ready
Owed == rx = UpAsk /\ ~Some(Token) /\ Ready
Come == rx = None /\ Some(Token) /\ Unique(Token) /\ Handed

Course == Unasked \/ ((Owed \/ Come) /\ (Asking => Answered))

\* Every datagram comes back with an answer.
NoneLost ==
    /\ ~late /\ ~expired
    /\ datagram.state = "sent" \/ Answered
    /\ datagram.what = Fetch /\ datagram.state = "sent" => tx # <<>>
    /\ datagram.what = Check /\ Answered /\ datagram.data.type = "full" => tx # <<>>

CourseInv ==
    /\ ~disturbed /\ state \in Up1 \cup Up2 =>
          NoneLost /\ Course /\ Only({"emergency", "other", Token})
    /\ UploadUndisturbed

LEMMA UpTypes ==
    ASSUME Inv
    PROVE  /\ Size \in Nat \ {0} /\ Got \in Nat
           /\ prog.toggle \in Toggles /\ 1 - prog.toggle \in Toggles
  BY Counts DEF Inv, SlaveType, Data, Size, Got, Total, Toggles

LEMMA Same ==
    ASSUME Inv, tx' = tx, Pending' <=> Pending, Pending => datagram'.data = datagram.data
    PROVE  /\ \A t : /\ Some(t)' = Some(t) /\ Unique(t)' = Unique(t)
                     /\ Only(t)' = Only(t) /\ (\A u : Before(t, u)' = Before(t, u))
                     /\ (\A m : Each(t, m)' = Each(t, m))
<1>1. Answers' = Answers
  <2>1. DOMAIN Answers' = DOMAIN Answers /\ \A i \in DOMAIN Answers : Answers'[i] = Answers[i]
    BY DEF Answers, Inv, SlaveType
  <2>2. Answers = [i \in DOMAIN Answers |-> Answers[i]]
    BY DEF Answers
  <2>3. Answers' = [i \in DOMAIN Answers' |-> Answers'[i]]
    BY DEF Answers
  <2> QED
    BY <2>1, <2>2, <2>3
<1> QED
  BY <1>1 DEF Some, Unique, Only, Before, Each

LEMMA CourseFrame ==
    ASSUME UNCHANGED <<server, object, request, prog>>,
           state \in Up1 \cup Up2,
           state \in Up1 <=> state' \in Up1, state \in Up2 <=> state' \in Up2
    PROVE  UNCHANGED <<Token, UpAsk, Ready, Handed>>
<1>1. state \in Up1 => state \notin Up2
  BY DEF Up1, Up2
<1> QED
  BY <1>1, UpFrameSame DEF Token, UpAsk, Ready, Handed

\* Every disturbance is noted.
LEMMA CourseDisturbed ==
    ASSUME disturbed'
    PROVE  CourseInv'
  BY DEF CourseInv, UploadUndisturbed

LEMMA CourseElse ==
    ASSUME state' \notin Up1 \cup Up2 \cup {"error"}
    PROVE  CourseInv'
  BY DEF CourseInv, UploadUndisturbed

LEMMA CourseInit == Init => CourseInv
  BY DEF Init, CourseInv, UploadUndisturbed, Up1, Up2

LEMMA CourseStart ==
    ASSUME Inv, Inv', Start
    PROVE  CourseInv'
<1>1. CASE disturbed' \/ state' = "down_request"
  BY <1>1, CourseDisturbed, CourseElse DEF Up1, Up2
<1>2. CASE ~disturbed' /\ state' = "up_request"
  <2>1. ~late' /\ rx' = None /\ ~Some("up")' /\ Only({"emergency"})' /\ expired' = FALSE
    BY <1>2, StartAnswers DEF Start
  <2>2. datagram'.what = UpRequest /\ datagram'.state = "sent"
    BY <1>2, AskStart DEF AskInv
  <2>3. Token' = "up" /\ Ready' /\ Asking' /\ state' \in Up1
    BY <1>2 DEF Token, Ready, Asking, Up1, Up2
  <2>4. Only({"emergency", "other", Token})'
    BY <2>1, <2>3 DEF Only
  <2>5. ~Answered'
    BY <2>2 DEF Answered, Received
  <2>6. NoneLost'
    BY <2>1, <2>2, <2>5, Requests0 DEF NoneLost
  <2>7. Course'
    BY <2>1, <2>2, <2>3 DEF Course, Unasked
  <2> QED
    BY <1>2, <2>4, <2>6, <2>7 DEF CourseInv, UploadUndisturbed
<1>3. state' \in {"up_request", "down_request"}
  BY DEF Start
<1> QED
  BY <1>1, <1>2, <1>3

\* While it waits, the state machine's datagram is a check or a fetch.
LEMMA UpWhat ==
    ASSUME Inv, AskInv, state \in Up1 \cup Up2
    PROVE  /\ Asking => datagram.what = UpAsk /\ UpAsk \notin {Check, Fetch, None}
           /\ datagram.what = Fetch <=> state \in DOMAIN CheckAgain
           /\ datagram.what = Check <=> state \in DOMAIN ResponseAfter
           /\ ~Asking => datagram.what \in {Check, Fetch}
  BY Requests0, Domains DEF AskInv, Inv, FsmInv, Asking, UpAsk, Up1, Up2

LEMMA CourseBus ==
    ASSUME Inv, Inv', AskInv, CourseInv, Bus
    PROVE  CourseInv'
<1>1. /\ UNCHANGED <<state, request, prog, server, object, late, expired>> /\ Fewer
      /\ datagram.state = "sent" /\ ~Pending /\ datagram'.what = datagram.what
  BY BusSteps, BusFewer
<1>2. CASE Trouble
  BY <1>2, CourseDisturbed DEF Trouble
<1>3. CASE NoTrouble /\ state \notin Up1 \cup Up2
  BY <1>1, <1>3 DEF CourseInv, UploadUndisturbed, NoTrouble
<1>4. CASE NoTrouble /\ disturbed
  BY <1>4, CourseDisturbed DEF NoTrouble
<1>5. CASE NoTrouble /\ state \in Up1 \cup Up2 /\ ~disturbed
  <2>0. state' \in Up1 \cup Up2 /\ ~disturbed' /\ state' # "error"
    BY <1>1, <1>5 DEF NoTrouble, Up1, Up2
  <2>1. NoneLost /\ Course /\ Only({"emergency", "other", Token})
    BY <1>5 DEF CourseInv
  <2>2. UNCHANGED <<Token, UpAsk, Ready, Handed>> /\ (Asking' <=> Asking)
    BY <1>1, <1>5, CourseFrame DEF Asking
  <2>3. ~Answered
    BY <1>1 DEF Answered, Received
  <2>4. Asking => rx = None /\ ~Some(Token) /\ Ready
    BY <2>1, <2>3 DEF Course, Unasked
  <2>5. ~Asking => Owed \/ Come
    BY <2>1 DEF Course, Unasked
  <2>6. datagram'.state = "received" /\ Answered' /\ (BusAlone \/ BusFetch \/ BusRequest)
    BY <1>1, <1>5, <2>1, <2>4, UpWhat, BusSteps DEF NoneLost, Trouble, NoTrouble
  <2>7. \A t : (Some(t)' => Some(t)) /\ (Unique(t) => Unique(t)') /\ (Only(t) => Only(t)')
    BY <1>1, FewerKeeps
  <2>8. Only({"emergency", "other", Token})'
    BY <2>1, <2>2, <2>7
  <2>9. CASE Asking
    <3>1. rx' = UpAsk'
      BY <1>1, <1>5, <2>2, <2>4, <2>6, <2>9, UpWhat, BusSteps
      DEF BusRequest, BusAlone, BusFetch, Trouble, NoTrouble
    <3>2. ~Some(Token)' /\ Ready'
      BY <2>2, <2>4, <2>7, <2>9
    <3>3. Course'
      BY <2>6, <3>1, <3>2 DEF Course, Owed
    <3>4. NoneLost'
      BY <1>1, <1>5, <2>1, <2>2, <2>6, <2>9, UpWhat DEF NoneLost
    <3> QED
      BY <2>0, <2>8, <3>3, <3>4 DEF CourseInv, UploadUndisturbed
  <2>10. CASE ~Asking /\ BusFetch
    <3>1. datagram.what = Fetch /\ tx # <<>> /\ tx' = Tail(tx) /\ rx' = rx
          /\ datagram'.data = Head(tx) /\ tx \in Seq(Responses)
      BY <2>6, <2>10 DEF BusFetch, Inv, SlaveType
    <3>2. Pending'
      BY <1>1, <1>5, <2>6, <3>1, UpWhat DEF Pending
    <3>3. \A i \in DOMAIN Answers : i - 1 \in DOMAIN Answers' /\ Answers'[i - 1] = Answers[i]
      <4>1. Len(tx) \in Nat \ {0} /\ Len(Tail(tx)) = Len(tx) - 1 /\ Head(tx) = tx[1]
            /\ \A i \in 1 .. Len(tx) - 1 : Tail(tx)[i] = tx[i + 1]
        BY <3>1
      <4> QED
        BY <1>1, <3>1, <3>2, <4>1 DEF Answers
    <3>4. Some(Token) => Some(Token)'
      BY <2>2, <3>3 DEF Some
    <3>5. Owed' \/ Come'
      BY <2>2, <2>5, <2>7, <2>10, <3>1, <3>4 DEF Owed, Come
    <3>6. NoneLost'
      BY <1>1, <2>1, <2>6, <3>1, Requests0 DEF NoneLost
    <3> QED
      BY <2>0, <2>2, <2>6, <2>8, <2>10, <3>5, <3>6 DEF CourseInv, UploadUndisturbed, Course
  <2>11. CASE ~Asking /\ BusAlone
    <3>1. datagram.what = Check /\ UNCHANGED <<rx, tx>>
          /\ (datagram'.data.type = "full" => tx # <<>>)
      BY <2>6, <2>11 DEF BusAlone
    <3>2. ~Pending'
      BY <1>1, <1>5, <3>1, UpWhat, Requests0 DEF Pending
    <3>3. \A t : Some(t)' = Some(t)
      BY <1>1, <3>1, <3>2, Same
    <3>4. Owed' \/ Come'
      BY <2>2, <2>5, <2>7, <2>11, <3>1, <3>3 DEF Owed, Come
    <3>5. NoneLost'
      BY <1>1, <2>1, <2>6, <3>1, Requests0 DEF NoneLost
    <3> QED
      BY <2>0, <2>2, <2>6, <2>8, <2>11, <3>4, <3>5 DEF CourseInv, UploadUndisturbed, Course
  <2>12. ~Asking => ~BusRequest
    BY <1>5, UpWhat DEF BusRequest
  <2> QED
    BY <2>6, <2>9, <2>10, <2>11, <2>12
<1> QED
  BY <1>2, <1>3, <1>4, <1>5, BusSteps

\* What the slave does when it has the request.
LEMMA CourseServe ==
    ASSUME Inv, Inv', CourseInv, Serve
    PROVE  CourseInv'
<1>1. /\ UNCHANGED <<state, datagram, request, prog, expired, late>>
      /\ rx # None /\ rx' = None
      /\ ServeDown \/ ServeUp \/ ServeDownSeg \/ ServeUpSeg \/ ServeAbort
      /\ Trouble \/ NoTrouble
  BY ServeSteps
<1>2. CASE Trouble
  BY <1>2, CourseDisturbed DEF Trouble
<1>3. CASE NoTrouble /\ state \notin Up1 \cup Up2
  BY <1>1, <1>3 DEF CourseInv, UploadUndisturbed, NoTrouble
<1>4. CASE NoTrouble /\ disturbed
  BY <1>4, CourseDisturbed DEF NoTrouble
<1>5. CASE NoTrouble /\ state \in Up1 \cup Up2 /\ ~disturbed /\ ~Trouble
  <2>0. state' \in Up1 \cup Up2 /\ ~disturbed' /\ state' # "error"
    BY <1>1, <1>5 DEF NoTrouble, Up1, Up2
  <2>1. NoneLost /\ Course /\ Only({"emergency", "other", Token})
    BY <1>5 DEF CourseInv
  <2>2. Owed /\ (Asking => Answered)
    BY <1>1, <2>1 DEF Course, Unasked, Come
  <2>3. rx = UpAsk /\ ~Some(Token) /\ Ready
    BY <2>2 DEF Owed
  <2>4. (Asking' <=> Asking) /\ (Answered' <=> Answered) /\ Token' = Token
    BY <1>1 DEF Asking, Answered, Received, Token
  <2>5. tx' # <<>>
    <3>1. ASSUME NEW m, Answer(m) PROVE tx' # <<>>
      <4>1. tx \in Seq(Responses) /\ Len(tx) \in Nat /\ tx' = Append(tx, m)
        BY <3>1 DEF Inv, SlaveType, Answer
      <4>2. Len(tx') = Len(tx) + 1
        BY <4>1
      <4> QED
        BY <4>1, <4>2
    <3> QED
      BY <3>1 DEF Serve, Initiate, Segment, Abort
  <2>6. NoneLost'
    BY <1>1, <2>1, <2>4, <2>5 DEF NoneLost
  <2>7. SUFFICES Come' /\ Only({"emergency", "other", Token})'
    BY <2>0, <2>2, <2>4, <2>6 DEF CourseInv, UploadUndisturbed, Course
  <2>8. CASE state \in Up1
    <3>1. rx.type = "up" /\ Token = "up" /\ state' \in Up1
      BY <1>1, <2>3, <2>8, Requests0 DEF UpAsk, Token
    <3>2. ServeUp
      BY <1>1, <1>5, <3>1 DEF ServeDown, ServeDownSeg, ServeUpSeg, ServeAbort
    <3>3. More(UpFirst) /\ UNCHANGED object /\ (Size = 1 \/ HasRest(0, 1)')
      BY <3>2, ServeUpRest
    <3>4. Kind(UpFirst) = "up"
      BY Kinds DEF UpFirst
    <3>5. Handed'
      <4>1. Size' = Size
        BY <3>3 DEF Size
      <4> QED
        BY <3>1, <3>3, <4>1, UpTypes DEF Handed
    <3>6. Some("up")' /\ (~Some("up") => Unique("up")')
      <4>1. Unique("up") \/ Some("up")
        BY DEF Some, Unique
      <4> QED
        BY <3>3, <3>4, <4>1, MoreKeeps
    <3>7. Only({"emergency", "other", Token})'
      BY <2>1, <2>4, <3>1, <3>3, <3>4, MoreKeeps
    <3> QED
      BY <1>1, <2>3, <2>4, <3>1, <3>5, <3>6, <3>7 DEF Come
  <2>9. CASE state \in Up2
    <3>0. state' \in Up2 /\ state' \notin Up1 /\ state \notin Up1
      BY <1>1, <2>9 DEF Up1, Up2
    <3>1. rx.type = "up_seg" /\ rx.toggle = prog.toggle /\ Token = "up_seg"
      BY <2>3, <3>0, Requests0 DEF UpAsk, Token
    <3>2. HasRest(prog.toggle, Got) /\ InTurn
      BY <2>3, <2>9, <3>1 DEF Ready, HasRest, InTurn
    <3>3. ServeUpSeg
      BY <1>1, <1>5, <3>1, <3>2 DEF ServeDown, ServeUp, ServeDownSeg, ServeAbort
    <3>4. \A t \in Toggles, j \in Nat : HasRest(t, j) =>
              /\ UNCHANGED object
              /\ More([type |-> "up_seg", part |-> object[j + 1], last |-> (j + 1 = Size)])
              /\ (j + 1 = Size /\ server' = None) \/ HasRest(1 - t, j + 1)'
      BY <3>3, ServeUpSegRest
    <3>5. More(UpPart) /\ UNCHANGED object
      BY <3>2, <3>4, UpTypes DEF UpPart
    <3>6. Got' = Got /\ Size' = Size
      BY <1>1, <3>5 DEF Got, Size
    <3>7. Handed'
      <4>1. Got + 1 < Size => HasRest(1 - prog.toggle, Got + 1)'
        <5>1. PICK t \in Toggles, j \in Nat : t = prog.toggle /\ j = Got
          BY UpTypes
        <5>2. (j + 1 = Size /\ server' = None) \/ HasRest(1 - t, j + 1)'
          BY <3>2, <3>4, <5>1
        <5>3. j + 1 = Size => ~(Got + 1 < Size)
          BY <5>1, UpTypes
        <5>4. HasRest(1 - t, j + 1)' => HasRest(1 - prog.toggle, Got + 1)'
          BY <1>1, <3>6, <5>1 DEF HasRest
        <5> QED
          BY <5>2, <5>3, <5>4
      <4> QED
        BY <3>0, <3>6, <4>1 DEF Handed
    <3>8. Kind(UpPart) = "up_seg"
      BY Kinds DEF UpPart
    <3>9. Some("up_seg")' /\ (~Some("up_seg") => Unique("up_seg")')
      <4>1. Unique("up_seg") \/ Some("up_seg")
        BY DEF Some, Unique
      <4> QED
        BY <3>5, <3>8, <4>1, MoreKeeps
    <3>10. Only({"emergency", "other", Token})'
      BY <2>1, <2>4, <3>1, <3>5, <3>8, MoreKeeps
    <3> QED
      BY <1>1, <2>3, <2>4, <3>1, <3>7, <3>9, <3>10 DEF Come
  <2> QED
    BY <1>5, <2>8, <2>9
<1> QED
  BY <1>1, <1>2, <1>3, <1>4, <1>5

\* Emergency messages and late answers to other uploads are not in the way, and
\* the time is over only if something was lost.
LEMMA CourseOther ==
    ASSUME Inv, Inv', AskInv, CourseInv,
           Emergency \/ OtherAnswer \/ Theft \/ Expire \/ Application \/ UNCHANGED vars
    PROVE  CourseInv'
<1>1. /\ UNCHANGED <<state, datagram, request, prog, late, rx, server, object>>
      /\ disturbed => disturbed'
  <2>1. UNCHANGED <<state, datagram, request, prog, late, rx, server, object>>
    BY DEF Emergency, OtherAnswer, Theft, Expire, Application, vars, fsmvars, slavevars
  <2>2. CASE Emergency \/ Application \/ UNCHANGED vars
    BY <2>1, <2>2 DEF Emergency, Application, vars
  <2>3. CASE OtherAnswer
    BY <2>1, <2>3 DEF OtherAnswer
  <2>4. CASE Theft \/ Expire
    BY <2>1, <2>4 DEF Theft, Expire, Trouble
  <2> QED
    BY <2>2, <2>3, <2>4
<1>2. CASE disturbed'
  BY <1>2, CourseDisturbed
<1>3. CASE ~disturbed' /\ state \notin Up1 \cup Up2
  BY <1>1, <1>3 DEF CourseInv, UploadUndisturbed
<1>4. CASE ~disturbed' /\ state \in Up1 \cup Up2
  <2>0. state' \in Up1 \cup Up2 /\ ~disturbed' /\ state' # "error" /\ ~disturbed
    BY <1>1, <1>4 DEF Up1, Up2
  <2>1. NoneLost /\ Course /\ Only({"emergency", "other", Token})
    BY <1>4, <2>0 DEF CourseInv
  <2>2. UNCHANGED <<Token, UpAsk, Ready, Handed>> /\ (Asking' <=> Asking)
        /\ (Answered' <=> Answered) /\ (Pending' <=> Pending)
    BY <1>1, <1>4, CourseFrame DEF Asking, Answered, Received, Pending
  <2>3. ASSUME NEW m, More(m), Kind(m) \in {"emergency", "other"}, tx' # <<>>, expired' = expired
        PROVE  CourseInv'
    <3>1. Kind(m) # Token
      BY <2>3 DEF Token
    <3>2. /\ Some(Token)' <=> Some(Token)
          /\ Unique(Token) => Unique(Token)'
          /\ Only({"emergency", "other", Token})'
      BY <2>1, <2>2, <2>3, <3>1, MoreKeeps
    <3>3. NoneLost'
      BY <1>1, <2>1, <2>2, <2>3 DEF NoneLost
    <3>4. Course'
      BY <1>1, <2>1, <2>2, <3>2 DEF Course, Unasked, Owed, Come
    <3> QED
      BY <3>2, <3>3, <3>4, <2>0 DEF CourseInv, UploadUndisturbed
  <2>4. ASSUME NEW m, Answer(m) PROVE More(m) /\ tx' # <<>>
    <3>1. tx \in Seq(Responses) /\ Len(tx) \in Nat /\ tx' = Append(tx, m)
      BY <2>4 DEF Inv, SlaveType, Answer
    <3>2. Len(tx') = Len(tx) + 1
      BY <3>1
    <3> QED
      BY <1>1, <2>4, <3>1, <3>2, AnswerMore
  <2>5. CASE Emergency
    <3>1. Answer([type |-> "emergency", msg |-> emergs + 1]) /\ expired' = expired
      BY <2>5 DEF Emergency, fsmvars
    <3> QED
      BY <2>3, <2>4, <3>1, Kinds
  <2>6. CASE OtherAnswer
    <3>1. PICK o \in Others : Answer([type |-> o, own |-> FALSE]) /\ o = "up"
      BY <2>0, <2>6 DEF OtherAnswer
    <3>2. expired' = expired
      BY <2>6 DEF OtherAnswer, fsmvars
    <3> QED
      BY <2>3, <2>4, <3>1, <3>2, Kinds
  <2>7. CASE Theft
    BY <2>0, <2>7 DEF Theft, Trouble
  <2>8. CASE Expire
    <3>1. rx = None /\ tx = <<>> /\ datagram.what = Check
      BY <2>0, <2>8 DEF Expire, Quiet
    <3>2. ~Asking /\ ~Pending
      BY <1>4, <3>1, UpWhat, Requests0 DEF Pending
    <3>3. UpAsk # None
      BY Requests0 DEF UpAsk
    <3>4. Some(Token)
      BY <2>1, <3>1, <3>2, <3>3 DEF Course, Unasked, Owed, Come
    <3>5. ~Some(Token)
      <4>1. DOMAIN Answers = {j \in 0 .. Len(tx) : j = 0 => Pending} /\ Len(tx) = 0
        BY <3>1, AnswersDomain
      <4>2. DOMAIN Answers = {}
        BY <3>2, <4>1
      <4> QED
        BY <4>2 DEF Some
    <3> QED
      BY <3>4, <3>5
  <2>9. CASE Application \/ UNCHANGED vars
    <3>1. tx' = tx /\ expired' = expired
      BY <2>9 DEF Application, vars, slavevars, fsmvars
    <3>2. \A t : Some(t)' = Some(t) /\ Unique(t)' = Unique(t) /\ Only(t)' = Only(t)
      BY <1>1, <2>2, <3>1, Same
    <3>3. NoneLost'
      BY <1>1, <2>1, <2>2, <3>1 DEF NoneLost
    <3>4. Course'
      BY <1>1, <2>1, <2>2, <3>2 DEF Course, Unasked, Owed, Come
    <3> QED
      BY <2>0, <2>1, <2>2, <3>2, <3>3, <3>4 DEF CourseInv, UploadUndisturbed
  <2> QED
    BY <2>5, <2>6, <2>7, <2>8, <2>9
<1> QED
  BY <1>2, <1>3, <1>4

\* Nothing the state machine finds ends the upload with an error.
LEMMA CourseNoFail ==
    ASSUME Inv, AskInv, UpInv, CourseInv, Exec, ~disturbed, state \in Up1 \cup Up2
    PROVE  state' # "error" /\ Answered
<1>1. NoneLost /\ Course /\ Only({"emergency", "other", Token})
  BY DEF CourseInv
<1>2. Answered /\ ~late /\ ~expired
  BY <1>1 DEF NoneLost, Exec
<1>3. state # "error"
  BY DEF Up1, Up2
<1>4. Pending => Kind(datagram.data) \in {"emergency", "other", Token}
  BY <1>1, Fetched
<1>5. ~Retry /\ ~NotReceived /\ ~WrongCounter
  BY <1>2 DEF Retry, NotReceived, WrongCounter, TimedOut, Answered, Received
<1>6. Requested => state' # "error"
  BY Domains DEF Requested, Enter
<1>7. Checked => state' # "error"
  BY <1>2, <1>3, Domains DEF Checked, Enter
<1>8. PushEmergency => state' # "error"
  BY <1>3 DEF PushEmergency, fsmvars
<1>9. EmergencyDone => state' # "error"
  <2>1. EmergencyDone => state \in DOMAIN CheckAgain
    BY DEF EmergencyDone, PushEnd, Inv, FsmInv
  <2> QED
    BY <2>1, Domains DEF EmergencyDone, Enter
<1>10. ~Refused
  <2> SUFFICES ASSUME Refused PROVE FALSE
    OBVIOUS
  <2>1. Pending /\ (\/ datagram.data.type \in {"abort", "eoe"}
                    \/ state = "up_response" /\ datagram.data.type \notin {"emergency", "up"})
    BY DEF Refused, Pending
  <2>2. Kind(datagram.data) \in {"emergency", "other", Token}
    BY <1>4, <2>1
  <2>3. datagram.data.type # "up"
    BY <2>1
  <2>4. Kind(datagram.data) = datagram.data.type
    BY <2>3 DEF Kind
  <2>5. datagram.data.type # "other"
    BY <2>1, Fetched, ResponseTypes
  <2>6. Token \in {"up", "up_seg"} /\ (state = "up_response" => Token = "up")
    BY DEF Token, Up1
  <2> QED
    BY <2>1, <2>2, <2>3, <2>4, <2>5, <2>6
<1>11. Unexpected => state' # "error"
  BY Domains DEF Unexpected, Enter
<1>12. ~DownResponse /\ ~DownSegResponse
  BY DEF DownResponse, DownSegResponse, Response, Up1, Up2
<1>13. UpResponse => state' # "error"
  BY DEF UpResponse, End, Enter
<1>14. UpSegResponse => state' # "error"
  <2> SUFFICES ASSUME UpSegResponse PROVE state' # "error"
    OBVIOUS
  <2>1. state = "up_seg_response"
    BY DEF UpSegResponse, Response
  <2>2. prog.complete = Size /\ Got < Size
    BY <1>2, <2>1 DEF UpInv, Up2Inv, Up2
  <2>3. Len(request.data) # prog.complete
    BY <2>2, UpTypes DEF Got
  <2> QED
    BY <2>3 DEF UpSegResponse, End, Enter
<1> QED
  BY <1>2, <1>5, <1>6, <1>7, <1>8, <1>9, <1>10, <1>11, <1>12, <1>13, <1>14 DEF Exec

\* The fetched answer is the next one, or nothing the upload waits for.
LEMMA CourseMove ==
    ASSUME Inv, Inv', AskInv, UpInv, CourseInv, Move, tx' = tx, ~Pending',
           UNCHANGED <<slavevars, late, disturbed>>, Fewer,
           state \in Up1 \cup Up2, ~disturbed, Busy, datagram.state # "sent"
    PROVE  CourseInv'
<1>0. NoneLost /\ Course /\ Only({"emergency", "other", Token}) /\ ~disturbed'
  BY DEF CourseInv
<1>1. UNCHANGED <<request, prog, rx, server, object, late>> /\ datagram'.state = "sent"
      /\ (expired' => expired)
  BY DEF Move, slavevars
<1>2. /\ state \in Up1 <=> state' \in Up1
      /\ state \in Up2 <=> state' \in Up2
      /\ state' \in Up1 \cup Up2
      /\ ~Asking'
  BY DEF Move, Up1, Up2, Asking
<1>3. UNCHANGED <<Token, UpAsk, Ready, Handed>>
  BY <1>1, <1>2, CourseFrame
<1>4. Owed \/ Come
  BY <1>0 DEF Course, Unasked
<1>5. /\ Some(Token)' => Some(Token)
      /\ Unique(Token) => Unique(Token)'
      /\ Only({"emergency", "other", Token})'
  BY <1>0, <1>3, FewerKeeps
<1>6. Some(Token) => Some(Token)'
  <2>1. CASE Pending
    <3>1. ~Expected /\ state \in DOMAIN CheckAgain /\ Answered
      BY <2>1 DEF Move, Pending
    <3>2. Kind(datagram.data) # Token
      BY <3>1, Domains DEF Expected, Response, Kind, Token, Up1, Up2
    <3> QED
      BY <1>3, <2>1, <3>2, Consumed
  <2>2. CASE ~Pending
    <3>1. \A t : Some(t)' = Some(t)
      BY <2>2, Same
    <3> QED
      BY <1>3, <3>1
  <2> QED
    BY <2>1, <2>2
<1>7. Owed' \/ Come'
  BY <1>1, <1>3, <1>4, <1>5, <1>6 DEF Owed, Come
<1>8. NoneLost'
  <2>1. ~Answered'
    BY <1>1 DEF Answered, Received
  <2>2. ASSUME datagram'.what = Fetch PROVE tx # <<>>
    <3>1. state \in DOMAIN ResponseAfter /\ datagram.data.type = "full" /\ Answered
      BY <2>2, Requests0 DEF Move
    <3>2. datagram.what = Check
      BY <3>1, UpWhat
    <3> QED
      BY <1>0, <3>1, <3>2 DEF NoneLost
  <2> QED
    BY <1>0, <1>1, <2>1, <2>2 DEF NoneLost
<1> QED
  BY <1>0, <1>2, <1>5, <1>7, <1>8 DEF CourseInv, Course, UploadUndisturbed, Up1, Up2

LEMMA CourseFirst ==
    ASSUME Inv, Inv', AskInv, AskInv', UpInv, CourseInv, UpResponse, tx' = tx, ~Pending',
           UNCHANGED <<slavevars, late, disturbed>>, Fewer, ~disturbed
    PROVE  CourseInv'
<1>1. state = "up_response" /\ Answered /\ datagram.data.type = "up" /\ datagram.data.own
      /\ expired' = expired
  BY DEF UpResponse, Response
<1>2. state \in Up1 /\ Pending /\ Kind(datagram.data) = "up" /\ Token = "up" /\ ~Asking
  BY <1>1, Domains DEF Up1, Pending, Kind, Token, Asking
<1>3. NoneLost /\ Course /\ Only({"emergency", "other", "up"}) /\ ~disturbed'
  BY <1>2 DEF CourseInv
<1>4. rx = None /\ Unique("up") /\ Handed
  BY <1>2, <1>3, Fetched DEF Course, Unasked, Owed, Come
<1>5. Size > 1 => HasRest(0, 1)
  BY <1>2, <1>4 DEF Handed
<1>6. ~late /\ ~expired
  BY <1>3 DEF NoneLost
<1>7. /\ request'.data = <<object[1]>>
      /\ Size = 1 => state' = "end"
      /\ Size # 1 => state' = "up_seg_request" /\ datagram'.what = UpSegment(0)
                     /\ datagram'.state = "sent"
      /\ prog'.toggle = 0 /\ ~Some("up_seg")' /\ Size \in Nat \ {0}
  BY <1>6, UpFirstTaken
<1>8. CASE Size = 1
  BY <1>7, <1>8, CourseElse DEF Up1, Up2
<1>9. CASE Size # 1
  <2>1. state' \in Up2 /\ state' \notin Up1 /\ Asking' /\ Token' = "up_seg"
    BY <1>7, <1>9 DEF Up1, Up2, Asking, Token
  <2>2. UNCHANGED <<rx, server, object, Size>> /\ Got' = 1
    BY <1>7 DEF slavevars, Size, Got
  <2>3. Ready'
    BY <1>5, <1>7, <1>9, <2>2 DEF Ready, HasRest
  <2>4. ~Some("up")' /\ Only({"emergency", "other", "up"})'
    BY <1>2, <1>3, <1>4, Consumed, FewerKeeps
  <2>5. Only({"emergency", "other", Token})'
    BY <2>1, <2>4 DEF Only, Some
  <2>6. NoneLost'
    BY <1>1, <1>6, <1>7, <1>9, Requests0 DEF NoneLost, Answered, Received
  <2>7. Course'
    BY <1>4, <1>7, <1>9, <2>1, <2>2, <2>3 DEF Course, Unasked
  <2> QED
    BY <1>3, <1>7, <1>9, <2>5, <2>6, <2>7 DEF CourseInv, UploadUndisturbed
<1> QED
  BY <1>8, <1>9

LEMMA CoursePart ==
    ASSUME Inv, Inv', AskInv, AskInv', UpInv, CourseInv, UpNext, tx' = tx, ~Pending',
           UNCHANGED <<slavevars, late, disturbed, expired>>, Fewer, ~disturbed
    PROVE  CourseInv'
<1>1. state = "up_seg_response" /\ Answered /\ datagram.data.type = "up_seg"
  BY DEF UpNext, Response
<1>2. /\ state \in Up2 /\ state \notin Up1 /\ Pending /\ Kind(datagram.data) = "up_seg"
      /\ Token = "up_seg" /\ ~Asking
  BY <1>1, Domains DEF Up1, Up2, Pending, Kind, Token, Asking
<1>3. NoneLost /\ Course /\ Only({"emergency", "other", "up_seg"}) /\ ~disturbed'
  BY <1>2 DEF CourseInv
<1>4. rx = None /\ Handed
  BY <1>2, <1>3, Fetched DEF Course, Unasked, Owed, Come
<1>5. Got + 1 < Size => HasRest(1 - prog.toggle, Got + 1)
  BY <1>2, <1>4 DEF Handed
<1>6. ~late /\ ~expired
  BY <1>3 DEF NoneLost
<1>7. /\ Got + 1 = Size => state' = "end"
      /\ Got + 1 # Size => /\ state' = "up_seg_request" /\ prog'.toggle = 1 - prog.toggle
                           /\ datagram'.what = UpSegment(1 - prog.toggle)
                           /\ datagram'.state = "sent"
      /\ Got' = Got + 1 /\ ~Some("up_seg")'
      /\ Got \in Nat \ {0} /\ Size \in Nat \ {0} /\ Got < Size
  BY <1>6, UpPartTaken
<1>8. CASE Got + 1 = Size
  BY <1>7, <1>8, CourseElse DEF Up1, Up2
<1>9. CASE Got + 1 # Size
  <2>1. state' \in Up2 /\ state' \notin Up1 /\ Asking' /\ Token' = "up_seg"
    BY <1>7, <1>9 DEF Up1, Up2, Asking, Token
  <2>2. UNCHANGED <<rx, server, object, Size>>
    BY DEF slavevars, Size
  <2>3. Ready'
    BY <1>5, <1>7, <1>9, <2>2 DEF Ready, HasRest
  <2>4. Only({"emergency", "other", "up_seg"})'
    BY <1>3, FewerKeeps
  <2>5. NoneLost'
    BY <1>6, <1>7, <1>9, Requests0 DEF NoneLost, Answered, Received
  <2>6. Course'
    BY <1>4, <1>7, <1>9, <2>1, <2>2, <2>3 DEF Course, Unasked
  <2> QED
    BY <1>3, <1>7, <1>9, <2>1, <2>4, <2>5, <2>6 DEF CourseInv, UploadUndisturbed
<1> QED
  BY <1>8, <1>9

LEMMA CourseExec ==
    ASSUME Inv, Inv', AskInv, AskInv', UpInv, CourseInv, Exec
    PROVE  CourseInv'
<1>1. /\ Fewer /\ UNCHANGED <<slavevars, late, disturbed>> /\ Busy /\ tx' = tx
      /\ ~Pending' \/ PushEmergency
      /\ datagram.state # "sent"
  BY ExecFewer DEF Exec, slavevars
<1>2. CASE disturbed
  BY <1>1, <1>2, CourseDisturbed
<1>3. CASE state \notin Up1 \cup Up2
  <2>1. state \in Downs /\ request.dir = "down"
    BY <1>1, <1>3, BusyStates DEF Inv, FsmInv, Downs
  <2>2. state' \in Downs \cup {"end"} \/ (state' = "error" /\ UNCHANGED request)
    BY <2>1, ExecSteps DEF PushEmergency, Again, Move, Fails, DownFirst, DownNext, UpResponse,
       UpNext, Response, Download, End, fsmvars, Downs
  <2> QED
    BY <2>1, <2>2, CourseElse DEF CourseInv, UploadUndisturbed, Downs, Up1, Up2
<1>4. CASE ~disturbed /\ state \in Up1 \cup Up2
  <2>1. state' # "error" /\ Answered
    BY <1>4, CourseNoFail
  <2>2. CASE PushEmergency
    <3>1. UNCHANGED <<state, datagram, request, prog, expired, late, disturbed, rx, tx, server, object>>
      BY <1>1, <2>2 DEF PushEmergency, fsmvars, slavevars
    <3>2. UNCHANGED <<Token, UpAsk, Ready, Handed>> /\ (Asking' <=> Asking)
          /\ (Answered' <=> Answered) /\ (Pending' <=> Pending)
      BY <1>4, <3>1, CourseFrame DEF Asking, Answered, Received, Pending
    <3>3. \A t : Some(t)' = Some(t) /\ Unique(t)' = Unique(t) /\ Only(t)' = Only(t)
      BY <3>1, <3>2, Same
    <3>4. NoneLost' = NoneLost /\ Course' = Course
      BY <3>1, <3>2, <3>3 DEF NoneLost, Course, Unasked, Owed, Come
    <3> QED
      BY <1>4, <2>1, <3>1, <3>2, <3>3, <3>4 DEF CourseInv, UploadUndisturbed
  <2>3. CASE ~PushEmergency /\ Move
    BY <1>1, <1>4, <2>3, CourseMove
  <2>4. CASE ~PushEmergency /\ UpResponse
    BY <1>1, <1>4, <2>4, CourseFirst
  <2>5. CASE ~PushEmergency /\ UpNext
    <3>1. expired' = expired
      BY <2>5 DEF UpNext
    <3> QED
      BY <1>1, <1>4, <2>5, <3>1, CoursePart
  <2>6. ~Again /\ ~Fails /\ ~DownFirst /\ ~DownNext
    BY <1>4, <2>1 DEF Again, Fails, End, DownFirst, DownNext, Response, Up1, Up2
  <2> QED
    BY <2>2, <2>3, <2>4, <2>5, <2>6, ExecSteps
<1> QED
  BY <1>2, <1>3, <1>4

LEMMA CourseNext ==
    ASSUME Inv, Inv', AskInv, AskInv', UpInv, CourseInv, [Next]_vars
    PROVE  CourseInv'
  BY CourseStart, CourseExec, CourseBus, CourseServe, CourseOther DEF Next

Uploads == Inv /\ AskInv /\ UpInv /\ CourseInv

\* An upload that nothing has disturbed does not fail, whatever emergency
\* messages and late answers to other uploads it finds in the mailbox
\* (ec_fsm_coe_up_response() and ec_fsm_coe_up_seg_response()).
THEOREM UploadSafe == Spec => []UploadUndisturbed
<1>1. Init => Uploads
  BY InitInv, AskInit, UpInit, CourseInit DEF Uploads
<1>2. Uploads /\ [Next]_vars => Uploads'
  <2> SUFFICES ASSUME Uploads, [Next]_vars PROVE Uploads'
    OBVIOUS
  <2>1. Inv /\ AskInv /\ UpInv /\ CourseInv
    BY DEF Uploads
  <2>2. Inv'
    BY <2>1, NextInv
  <2>3. AskInv'
    BY <2>1, AskNext
  <2>4. UpInv'
    BY <2>1, <2>2, UpNextInv
  <2>5. CourseInv'
    BY <2>1, <2>2, <2>3, CourseNext
  <2> QED
    BY <2>2, <2>3, <2>4, <2>5 DEF Uploads
<1>3. Uploads => UploadUndisturbed
  BY DEF Uploads, CourseInv
<1> QED
  BY <1>1, <1>2, <1>3, PTL DEF Spec

-----------------------------------------------------------------------------
(* Downloads. *)

\* What the protocol can tell apart: nothing is late, or the slave has room for
\* one answer only, so that the late one is the only one.
Sound == ~late \/ MaxQueue = 1

\* The slave has the first j parts of the value.
HasParts(t, j) ==
    /\ server.type = "down_seg" /\ server.toggle = t
    /\ Prefix(server.data, request.data, j)

\* A request in the mailbox never makes the slave write a mixture of values.
WriteInv ==
    Sound /\ rx # None =>
        /\ rx.type = "down" /\ rx.size = 1 => <<rx.part>> \in asked
        /\ rx.type = "down_seg" /\ InTurn /\ rx.last
              => Append(server.data, rx.part) \in asked

\* Before the slave has the request of a download that is not late, it owes no
\* answer to a segment; its first answer means that a value of one part is there.
BeginInv ==
    state \in Downs /\ ~late =>
        /\ state = "down_request" => rx \in {None, DownRequest} /\ ~Some("down_seg")
        /\ Some("down") /\ Total = 1 => object = request.data

\* Once the slave's mailbox has taken the request ...
Taken == state \in Downs /\ (state = "down_request" => Answered)

\* ... the mailbox holds the request, the segment that is due, or the one before
\* it, which was written twice, ...
TakenRequest ==
    \/ rx = None
    \/ rx = DownRequest /\ Done = 1
    \/ rx = SegRequest(Done, Bit) /\ Done < Total
    \/ rx = SegRequest(Done - 1, 1 - Bit) /\ Done > 1

\* ... and the slave has given up, or has the parts that the state machine takes
\* for acknowledged, or one more.
TakenParts ==
    \/ rx = DownRequest
    \/ server = None
    \/ HasParts(Bit, Done) /\ Done < Total
    \/ HasParts(1 - Bit, Done + 1) /\ Done + 1 < Total
       /\ rx \in {None, SegRequest(Done, Bit)}

\* The answer to a segment is for the one that is due, and the slave has that.
SegDone ==
    /\ Each("down_seg", Acked(Bit)) /\ Unique("down_seg") /\ Before("down", "down_seg")
    /\ Some("down_seg") =>
          /\ server = None \/ (Done + 1 < Total /\ HasParts(1 - Bit, Done + 1))
          /\ rx \in {None, SegRequest(Done, Bit)} /\ Done < Total
          /\ Done + 1 = Total => object = request.data

\* The answers of an earlier transfer are gone when the first one of this one
\* has been fetched, if there is room for one only.
Clean == ~late \/ state \in SegStates \/ (Pending /\ datagram.data.type = "down")

TakenInv ==
    Sound /\ Taken =>
        /\ TakenRequest /\ TakenParts
        /\ Some("down") => Done = 1
        /\ Clean => SegDone

DownInv == WriteInv /\ BeginInv /\ TakenInv

\* What a step keeps that adds no answer to a download.
Keeps ==
    /\ \A t \in {"down", "down_seg"} : Some(t)' => Some(t)
    /\ Unique("down_seg") => Unique("down_seg")'
    /\ Before("down", "down_seg") => Before("down", "down_seg")'
    /\ \A m : Each("down_seg", m) => Each("down_seg", m)'

LEMMA FewerDown == ASSUME Inv, Inv', Fewer PROVE Keeps
  BY FewerKeeps DEF Keeps

LEMMA MoreDown ==
    ASSUME Inv, Inv', NEW m, More(m), Kind(m) \notin {"down", "down_seg"}
    PROVE  Keeps
<1>1. \A t \in {"down", "down_seg"} : Some(t)' => Some(t)
  BY MoreKeeps
<1>2. Unique("down_seg") => Unique("down_seg")'
  BY MoreKeeps
<1>3. Before("down", "down_seg") => Before("down", "down_seg")'
  BY MoreKeeps
<1>4. \A x : Each("down_seg", x) => Each("down_seg", x)'
  BY MoreKeeps
<1> QED
  BY <1>1, <1>2, <1>3, <1>4 DEF Keeps

LEMMA DownRequests ==
    /\ None # DownRequest /\ DownRequest \notin {Check, Fetch}
    /\ DownRequest.type = "down" /\ DownRequest.size = Total
    /\ DownRequest.part = Head(request.data)
    /\ \A j, t : /\ SegRequest(j, t) \notin {Check, Fetch, None, DownRequest}
                 /\ SegRequest(j, t).type = "down_seg" /\ SegRequest(j, t).toggle = t
                 /\ SegRequest(j, t).part = request.data[j + 1]
                 /\ SegRequest(j, t).last <=> j + 1 = Total
    /\ None.type = "none"
<1>1. ASSUME NEW j, NEW t
      PROVE  /\ SegRequest(j, t) \notin {Check, Fetch, None, DownRequest}
             /\ SegRequest(j, t).type = "down_seg" /\ SegRequest(j, t).toggle = t
             /\ SegRequest(j, t).part = request.data[j + 1]
  BY DEF SegRequest, Check, Fetch, None, DownRequest
<1>2. ASSUME NEW j, NEW t PROVE SegRequest(j, t).last <=> j + 1 = Total
  <2>1. SegRequest(j, t).last = (j + 1 = Total)
    BY Zenon DEF SegRequest
  <2> QED
    BY <2>1
<1>3. /\ None # DownRequest /\ DownRequest \notin {Check, Fetch}
      /\ DownRequest.type = "down" /\ DownRequest.size = Total
      /\ DownRequest.part = Head(request.data) /\ None.type = "none"
  BY DEF Check, Fetch, None, DownRequest
<1> QED
  BY <1>1, <1>2, <1>3

LEMMA DownSame ==
    ASSUME UNCHANGED <<server, object, request, Done, Bit>>
    PROVE  /\ UNCHANGED <<Total, DownRequest>>
           /\ \A j, t : SegRequest(j, t)' = SegRequest(j, t)
           /\ SegRequest(Done, Bit)' = SegRequest(Done, Bit)
           /\ SegRequest(Done - 1, 1 - Bit)' = SegRequest(Done - 1, 1 - Bit)
           /\ \A j, t : HasParts(t, j)' <=> HasParts(t, j)
           /\ HasParts(Bit, Done)' <=> HasParts(Bit, Done)
           /\ HasParts(1 - Bit, Done + 1)' <=> HasParts(1 - Bit, Done + 1)
  BY DEF Total, DownRequest, SegRequest, HasParts, Prefix

LEMMA WriteFrame ==
    ASSUME WriteInv, UNCHANGED <<rx, server>>, asked \subseteq asked', Sound' => Sound
    PROVE  WriteInv'
  BY DEF WriteInv, InTurn

\* Most steps change nothing that a download's invariant is about.
LEMMA DownFrame ==
    ASSUME Inv, Inv', DownInv, Keeps,
           UNCHANGED <<rx, server, object, request, late>>, asked \subseteq asked',
           Sound => UNCHANGED <<Done, Bit>>,
           state' \in Downs => state \in Downs,
           state' = "down_request" => state = "down_request",
           Taken' => Taken,
           Sound /\ Taken' /\ Clean' => Clean \/ ~Some("down_seg")'
    PROVE  DownInv'
<1>1. Sound' <=> Sound
  BY DEF Sound
<1>2. WriteInv'
  BY <1>1, WriteFrame DEF DownInv
<1>3. Total' = Total /\ DownRequest' = DownRequest
  BY DEF Total, DownRequest
<1>4. BeginInv'
  BY <1>3 DEF DownInv, BeginInv, Keeps
<1>5. TakenInv'
  <2> SUFFICES ASSUME Sound, Taken'
               PROVE  /\ TakenRequest' /\ TakenParts'
                      /\ Some("down")' => Done' = 1
                      /\ Clean' => SegDone'
    BY <1>1 DEF TakenInv
  <2>1. /\ TakenRequest /\ TakenParts
        /\ Some("down") => Done = 1
        /\ Clean => SegDone
    BY DEF DownInv, TakenInv
  <2>2. TakenRequest' /\ TakenParts'
    BY <2>1, DownSame DEF TakenRequest, TakenParts
  <2>3. Some("down")' => Done' = 1
    BY <2>1 DEF Keeps
  <2>4. ASSUME ~Some("down_seg")' PROVE SegDone'
    BY <2>4 DEF SegDone, Some, Each, Unique, Before
  <2>5. ASSUME Clean PROVE SegDone'
    <3>1. SegDone
      BY <2>1, <2>5
    <3>2. Acked(Bit)' = Acked(Bit)
      BY DEF Acked
    <3>3. Each("down_seg", Acked(Bit))' /\ Unique("down_seg")' /\ Before("down", "down_seg")'
      <4>1. PICK m : m = Acked(Bit)
        OBVIOUS
      <4>2. Each("down_seg", m)'
        BY <3>1, <4>1 DEF SegDone, Keeps
      <4>3. Each("down_seg", Acked(Bit))'
        BY <3>2, <4>1, <4>2 DEF Each
      <4> QED
        BY <3>1, <4>3 DEF SegDone, Keeps
    <3> QED
      BY <1>3, <3>1, <3>3, DownSame DEF SegDone, Keeps
  <2> QED
    BY <2>2, <2>3, <2>4, <2>5
<1> QED
  BY <1>2, <1>4, <1>5 DEF DownInv

LEMMA DownInit == Init => DownInv
  BY DEF Init, DownInv, WriteInv, BeginInv, TakenInv, Taken, Downs

\* No download is under way after the step.
LEMMA DownElse ==
    ASSUME WriteInv, UNCHANGED <<rx, server>>, asked \subseteq asked', Sound' => Sound,
           state' \notin Downs
    PROVE  DownInv'
  BY WriteFrame DEF DownInv, BeginInv, TakenInv, Taken

LEMMA DownStart ==
    ASSUME Inv, Inv', DownInv, Start
    PROVE  DownInv'
<1>1. /\ datagram'.state = "sent" /\ asked \subseteq asked'
      /\ state' \in {"up_request", "down_request"}
      /\ UNCHANGED <<rx, tx, server, object>>
  BY AskStart DEF slavevars
<1>2. ~late' => rx' = None /\ ~Some("down")' /\ ~Some("down_seg")'
  BY StartAnswers
<1>3. WriteInv'
  <2>1. CASE ~late'
    BY <1>2, <2>1 DEF WriteInv
  <2>2. CASE MaxQueue = 1
    BY <1>1, <2>2, WriteFrame DEF DownInv, Sound
  <2> QED
    BY <2>1, <2>2 DEF WriteInv, Sound
<1>4. ~Taken'
  BY <1>1 DEF Taken, Downs, Answered, Received
<1> QED
  BY <1>2, <1>3, <1>4 DEF DownInv, BeginInv, TakenInv

LEMMA DownOther ==
    ASSUME Inv, Inv', DownInv,
           Emergency \/ OtherAnswer \/ Theft \/ Expire \/ Application \/ UNCHANGED vars
    PROVE  DownInv'
<1>1. UNCHANGED <<state, datagram, rx, server, object, request, prog, late, asked>>
  BY DEF Emergency, OtherAnswer, Theft, Expire, Application, vars, fsmvars, slavevars
<1>2. Pending' = Pending /\ Answered' = Answered
  BY <1>1 DEF Pending, Answered, Received
<1>3. CASE Emergency
  <2>1. More([type |-> "emergency", msg |-> emergs + 1])
    BY <1>1, <1>3, AnswerMore DEF Emergency
  <2>2. Keeps
    BY <2>1, Kinds, MoreDown
  <2> QED
    BY <1>1, <1>2, <2>2, DownFrame DEF Done, Bit, Total, Taken, Clean
<1>4. CASE OtherAnswer
  <2>1. PICK o \in Others : Answer([type |-> o, own |-> FALSE])
    BY <1>4 DEF OtherAnswer
  <2>2. More([type |-> o, own |-> FALSE])
    BY <1>1, <2>1, AnswerMore
  <2>3. Keeps
    BY <2>2, Kinds, MoreDown
  <2> QED
    BY <1>1, <1>2, <2>3, DownFrame DEF Done, Bit, Total, Taken, Clean
<1>5. CASE Theft \/ Expire \/ Application \/ UNCHANGED vars
  <2>1. ASSUME Theft PROVE Fewer
    BY <2>1, TheftFewer
  <2>2. ASSUME Expire \/ Application \/ UNCHANGED vars PROVE Fewer
    <3>1. tx' = tx
      BY <2>2 DEF Expire, Application, vars, slavevars
    <3> QED
      BY <1>1, <1>2, <3>1, SameFewer
  <2>3. Fewer
    BY <1>5, <2>1, <2>2
  <2>4. Keeps
    BY <2>3, FewerDown
  <2> QED
    BY <1>1, <1>2, <2>4, DownFrame DEF Done, Bit, Total, Taken, Clean
<1> QED
  BY <1>3, <1>4, <1>5

\* A download waits for an answer with a check or a fetch, but for a segment,
\* whose datagram is none of the two.
LEMMA DownWhat ==
    ASSUME Inv, AskInv, state \in Downs
    PROVE  /\ state = "down_request" => datagram.what = DownRequest /\ Done = 1 /\ Bit = 0
           /\ state = "down_seg_check" =>
                 /\ datagram.what \in {SegRequest(Done, Bit), Check, None}
                 /\ Done < Total
           /\ state \notin {"down_request", "down_seg_check"} => datagram.what \in {Check, Fetch}
           /\ request.data \in asked
           /\ Done \in Nat /\ Done >= 1 /\ Done <= Total /\ Total \in Nat
<1>1. state = "down_request" => datagram.what = DownRequest /\ Done = 1 /\ Bit = 0
  BY DEF AskInv, Bit
<1>2. state = "down_seg_check" => state \in SegStates
  BY DEF SegStates
<1>3. state = "down_seg_check" => datagram.what \in {SegRequest(Done, Bit), Check, None}
                                  /\ Done < Total
  <2> SUFFICES ASSUME state = "down_seg_check"
               PROVE  datagram.what \in {SegRequest(Done, Bit), Check, None} /\ Done < Total
    OBVIOUS
  <2>1. Bit = prog.toggle
    BY <1>2 DEF AskInv
  <2>2. SegRequest(Done, Bit) = SegRequest(Done, prog.toggle)
    BY <2>1 DEF SegRequest
  <2> QED
    BY <1>2, <2>2, Counts DEF AskInv
<1>4. state \notin {"down_request", "down_seg_check"} => datagram.what \in {Check, Fetch}
  BY Domains DEF Downs, AskInv, Inv, FsmInv
<1> QED
  BY <1>1, <1>3, <1>4, Counts DEF AskInv

LEMMA DownBusAlone ==
    ASSUME Inv, Inv', AskInv, DownInv, Bus, UNCHANGED rx
    PROVE  DownInv'
<1>1. /\ UNCHANGED <<state, request, prog, server, object, late, asked>>
      /\ ~Pending /\ datagram.state = "sent" /\ datagram'.what = datagram.what
      /\ BusAlone \/ BusFetch \/ BusRequest
  BY BusSteps
<1>2. Keeps
  BY BusFewer, FewerDown
<1>3. Taken' => Taken
  <2> SUFFICES ASSUME state = "down_request", Answered' PROVE FALSE
    BY <1>1 DEF Taken
  <2>1. datagram.what = DownRequest
    BY DEF AskInv
  <2>2. BusRequest
    BY <1>1, <2>1, DownRequests DEF BusAlone, BusFetch
  <2>3. rx' = DownRequest /\ rx = None
    BY <2>1, <2>2 DEF BusRequest
  <2> QED
    BY <2>3, DownRequests
\* The only answer that the slave can have is fetched.
<1>4. ASSUME Sound, Clean', ~Clean PROVE ~Some("down_seg")'
  <2>1. late /\ MaxQueue = 1 /\ Pending' /\ datagram'.data.type = "down"
    BY <1>1, <1>4 DEF Sound, Clean
  <2>2. BusFetch
    BY <1>1, <2>1, Requests0 DEF BusAlone, BusRequest, Pending, Inv, FsmInv
  <2>3. tx \in Seq(Responses) /\ tx # <<>> /\ Len(tx) <= 1 /\ tx' = Tail(tx)
    BY <2>1, <2>2 DEF BusFetch, Inv, SlaveType
  <2>4. Len(tx') = 0
    <3>1. Len(tx) \in Nat \ {0}
      BY <2>3
    <3>2. Len(Tail(tx)) = Len(tx) - 1
      BY <2>3
    <3> QED
      BY <2>3, <3>1, <3>2
  <2>5. \A i \in DOMAIN Answers' : Answers'[i] = datagram'.data
    BY <2>4 DEF Answers
  <2> QED
    BY <2>1, <2>5 DEF Some, Kind
<1> QED
  BY <1>1, <1>2, <1>3, <1>4, DownFrame DEF Done, Bit, Total

LEMMA NoSegment ==
    ASSUME ~Some("down_seg")'
    PROVE  SegDone'
  BY DEF SegDone, Some, Each, Unique, Before

\* The slave's mailbox takes the request, which the state machine has sent once
\* or twice.
LEMMA DownBusBegin ==
    ASSUME Inv, Inv', AskInv, DownInv, Bus, BusRequest, state = "down_request"
    PROVE  DownInv'
<1>1. /\ UNCHANGED <<state, request, prog, server, object, late, asked>>
      /\ ~Pending /\ datagram.state = "sent" /\ datagram'.what = datagram.what
  BY BusSteps
<1>2. Keeps
  BY BusFewer, FewerDown
<1>3. /\ datagram.what = DownRequest /\ Done = 1 /\ Bit = 0 /\ request.data \in asked
      /\ state \in Downs
  BY DownWhat DEF Downs
<1>4. rx = None /\ rx' = DownRequest
  BY <1>3 DEF BusRequest
<1>5. UNCHANGED <<Done, Bit, Total, DownRequest>>
  BY <1>1 DEF Done, Bit, Total, DownRequest
<1>6. WriteInv'
  <2>1. Total = 1 => <<Head(request.data)>> = request.data
    BY Counts DEF Total
  <2>2. rx'.type = "down" /\ rx'.size = Total /\ rx'.part = Head(request.data)
    BY <1>4, DownRequests
  <2> QED
    BY <1>1, <1>3, <2>1, <2>2 DEF WriteInv
<1>7. BeginInv'
  BY <1>1, <1>2, <1>4, <1>5 DEF DownInv, BeginInv, Keeps
<1>8. TakenInv'
  <2> SUFFICES ASSUME Clean' PROVE SegDone'
    BY <1>3, <1>4, <1>5 DEF TakenInv, TakenRequest, TakenParts
  <2>1. ~Pending'
    BY <1>1, Domains DEF Pending
  <2>2. ~late
    BY <1>1, <2>1 DEF Clean, SegStates
  <2>3. ~Some("down_seg")'
    BY <1>2, <1>3, <2>2 DEF DownInv, BeginInv, Keeps
  <2> QED
    BY <2>3, NoSegment
<1> QED
  BY <1>6, <1>7, <1>8 DEF DownInv

LEMMA ToggleTwo ==
    ASSUME Inv
    PROVE  Bit # 1 - Bit /\ 1 - (1 - Bit) = Bit /\ 1 - Bit \in Toggles
  BY Counts DEF Toggles

\* The slave is in turn for a segment only if it has the parts before it.
LEMMA InTurnParts ==
    ASSUME Inv, AskInv, TakenParts, NEW m, m = SegRequest(Done, Bit),
           server.type = "down_seg", server.toggle = Bit, rx # DownRequest,
           state \in Downs
    PROVE  /\ HasParts(Bit, Done) /\ Done < Total
           /\ Prefix(Append(server.data, m.part), request.data, Done + 1)
           /\ server.data \in Data /\ Append(server.data, m.part) \in Seq(Parts)
           /\ Done + 1 = Total => Append(server.data, m.part) = request.data
<1>1. server # None
  BY DEF None
<1>2. ~HasParts(1 - Bit, Done + 1)
  BY ToggleTwo DEF HasParts
<1>3. HasParts(Bit, Done) /\ Done < Total
  BY <1>1, <1>2 DEF TakenParts
<1>4. server.data \in Data
  BY <1>1 DEF Inv, SlaveType, Servers
<1>5. request.data \in Data /\ Total = Len(request.data) /\ Done \in Nat /\ Total \in Nat
  <2>1. request.data \in Seq(Parts) /\ Done >= 1 /\ Done <= Total /\ Done \in Int /\ Total \in Nat
    BY Counts
  <2>2. Total = Len(request.data)
    BY DEF Total
  <2>3. request.data # <<>>
    BY <2>1, <2>2
  <2> QED
    BY <2>1, <2>2, <2>3 DEF Data
<1>6. Prefix(server.data, request.data, Done)
  BY <1>3 DEF HasParts
<1>7. m.part = request.data[Done + 1]
  BY DownRequests
<1>8. server.data \in Seq(Parts) /\ request.data[Done + 1] \in Parts
  BY <1>3, <1>4, <1>5 DEF Data
<1> QED
  BY <1>3, <1>4, <1>5, <1>6, <1>7, <1>8, PrefixAppend

LEMMA DownBusSegment ==
    ASSUME Inv, Inv', AskInv, DownInv, Bus, BusRequest, state = "down_seg_check", rx' # rx
    PROVE  DownInv'
<1>1. /\ UNCHANGED <<state, request, prog, server, object, late, asked>>
      /\ ~Pending /\ datagram.state = "sent" /\ datagram'.what = datagram.what
  BY BusSteps
<1>2. Keeps
  BY BusFewer, FewerDown
<1>3. /\ datagram.what \in {SegRequest(Done, Bit), Check, None} /\ Done < Total
      /\ request.data \in asked /\ state \in Downs /\ state \in SegStates
  BY DownWhat DEF Downs, SegStates
<1>4. rx = None /\ rx' = SegRequest(Done, Bit)
  BY <1>3 DEF BusRequest
<1>5. UNCHANGED <<Done, Bit, Total, DownRequest>>
  BY <1>1 DEF Done, Bit, Total, DownRequest
<1>6. SegRequest(Done, Bit)' = SegRequest(Done, Bit)
  BY <1>1, <1>5 DEF SegRequest
<1>7. Taken /\ Sound' = Sound
  BY <1>1, <1>3 DEF Taken, Sound
<1>8. Sound => /\ TakenParts /\ (Some("down") => Done = 1) /\ SegDone
  BY <1>3, <1>7 DEF DownInv, TakenInv, Clean
<1>9. WriteInv'
  <2> SUFFICES ASSUME Sound, rx'.type = "down_seg", InTurn', rx'.last
               PROVE  Append(server.data, rx'.part) \in asked
    BY <1>1, <1>4, <1>7, DownRequests DEF WriteInv
  <2>1. server.type = "down_seg" /\ server.toggle = Bit
    BY <1>1, <1>4, DownRequests DEF InTurn
  <2>2. Done + 1 = Total
    BY <1>4, DownRequests
  <2>3. Append(server.data, rx'.part) = request.data
    BY <1>3, <1>4, <1>8, <2>1, <2>2, DownRequests, InTurnParts
  <2> QED
    BY <1>3, <2>3
<1>10. BeginInv'
  BY <1>1, <1>2, <1>3, <1>5 DEF DownInv, BeginInv, Keeps
<1>11. TakenInv'
  <2> SUFFICES ASSUME Sound PROVE TakenRequest' /\ TakenParts' /\ (Some("down")' => Done' = 1) /\ SegDone'
    BY <1>7 DEF TakenInv
  <2>1. TakenRequest'
    BY <1>3, <1>4, <1>5, <1>6 DEF TakenRequest
  <2>2. TakenParts'
    BY <1>1, <1>4, <1>5, <1>6, <1>8, DownRequests, DownSame DEF TakenParts
  <2>3. Some("down")' => Done' = 1
    BY <1>2, <1>5, <1>8 DEF Keeps
  <2>4. SegDone'
    <3>1. Each("down_seg", Acked(Bit))'
      <4>1. PICK m : m = Acked(Bit)
        OBVIOUS
      <4>2. Each("down_seg", m)'
        BY <1>2, <1>8, <4>1 DEF SegDone, Keeps
      <4> QED
        BY <1>5, <4>1, <4>2 DEF Each, Acked
    <3>2. Unique("down_seg")' /\ Before("down", "down_seg")'
      BY <1>2, <1>8 DEF SegDone, Keeps
    <3>3. Some("down_seg")' => Some("down_seg")
      BY <1>2 DEF Keeps
    <3> QED
      BY <1>1, <1>4, <1>5, <1>6, <1>8, <3>1, <3>2, <3>3, DownSame DEF SegDone
  <2> QED
    BY <2>1, <2>2, <2>3, <2>4
<1> QED
  BY <1>9, <1>10, <1>11 DEF DownInv

LEMMA DownBus ==
    ASSUME Inv, Inv', AskInv, DownInv, Bus
    PROVE  DownInv'
<1>1. /\ UNCHANGED <<state, late, asked, server>> /\ datagram.state = "sent"
      /\ BusAlone \/ BusFetch \/ BusRequest
  BY BusSteps
<1>2. CASE rx' = rx
  BY <1>2, DownBusAlone
<1>3. CASE BusRequest /\ rx' # rx /\ state \in Downs
  <2>1. datagram.what \notin {Check, Fetch}
    BY <1>3 DEF BusRequest
  <2>2. state \in {"down_request", "down_seg_check"}
    BY <1>3, <2>1, DownWhat
  <2> QED
    BY <1>3, <2>2, DownBusBegin, DownBusSegment
<1>4. CASE BusRequest /\ state \notin Downs
  <2>1. Busy
    BY <1>1 DEF AskInv
  <2>2. state \in Up1 \cup Up2
    BY <1>4, <2>1, BusyStates
  <2>3. rx' = UpAsk
    BY <1>4, <2>2, UpWhat DEF BusRequest
  <2>4. rx'.type \in {"up", "up_seg"}
    BY <2>3, Requests0 DEF UpAsk
  <2> QED
    BY <1>1, <1>4, <2>4 DEF DownInv, WriteInv, BeginInv, TakenInv, Taken
<1> QED
  BY <1>1, <1>2, <1>3, <1>4 DEF BusAlone, BusFetch

LEMMA ServeDownParts ==
    ASSUME Inv, AskInv, ServeDown, rx = DownRequest, state \in Downs,
           UNCHANGED <<request, prog>>
    PROVE  /\ Total = 1 => object' = request.data
           /\ \/ Total = 1 /\ server' = None
              \/ Total > 1 /\ HasParts(0, 1)' /\ UNCHANGED object
<1>1. request.data \in Seq(Parts) /\ Total \in Nat /\ Total >= 1 /\ Total = Len(request.data)
  BY Counts DEF Total
<1>2. rx.size = Total /\ rx.part = Head(request.data)
  BY DownRequests
<1>3. CASE Total = 1
  <2>1. <<Head(request.data)>> = request.data
    BY <1>3, Counts DEF Total
  <2> QED
    BY <1>2, <1>3, <2>1 DEF ServeDown
<1>4. CASE Total # 1
  <2>1. server' = [type |-> "down_seg", toggle |-> 0, data |-> <<Head(request.data)>>]
        /\ UNCHANGED object
    BY <1>2, <1>4 DEF ServeDown
  <2>2. server'.type = "down_seg" /\ server'.toggle = 0
        /\ server'.data = <<Head(request.data)>>
    BY <2>1
  <2>3. Prefix(server'.data, request'.data, 1)
    BY <1>1, <2>2 DEF Prefix
  <2> QED
    BY <1>1, <1>4, <2>1, <2>2, <2>3 DEF HasParts
<1> QED
  BY <1>3, <1>4

LEMMA ServeDownSegParts ==
    ASSUME Inv, AskInv, ServeDownSeg, rx = SegRequest(Done, Bit), TakenParts,
           state \in Downs, UNCHANGED <<request, prog>>
    PROVE  /\ HasParts(Bit, Done) /\ More(Acked(Bit))
           /\ \/ Done + 1 = Total /\ server' = None /\ object' = request.data
              \/ Done + 1 < Total /\ HasParts(1 - Bit, Done + 1)' /\ UNCHANGED object
<1>1. rx.toggle = Bit /\ rx.type = "down_seg" /\ (rx.last <=> Done + 1 = Total)
      /\ rx # DownRequest
  BY DownRequests
<1>2. server.type = "down_seg" /\ server.toggle = Bit
  BY <1>1 DEF ServeDownSeg, InTurn
<1> DEFINE all == Append(server.data, rx.part)
<1>3. /\ HasParts(Bit, Done) /\ Done < Total
      /\ Prefix(all, request.data, Done + 1)
      /\ Done + 1 = Total => all = request.data
  BY <1>1, <1>2, InTurnParts
<1>4. More(Acked(Bit))
  BY <1>1 DEF ServeDownSeg
<1>5. /\ object' = IF rx.last THEN all ELSE object
      /\ server' = IF rx.last THEN None ELSE [server EXCEPT !.toggle = 1 - @, !.data = all]
  BY DEF ServeDownSeg
<1>6. server \in [type : {"down_seg", "up_seg"}, toggle : Toggles, data : Data]
  BY <1>2 DEF Inv, SlaveType, Servers, None
<1> HIDE DEF all
<1>7. CASE Done + 1 = Total
  BY <1>1, <1>3, <1>4, <1>5, <1>7
<1>8. CASE Done + 1 # Total
  <2>1. server' = [server EXCEPT !.toggle = 1 - @, !.data = all] /\ UNCHANGED object
    BY <1>1, <1>5, <1>8
  <2>2. server'.type = "down_seg" /\ server'.toggle = 1 - Bit /\ server'.data = all
    BY <1>2, <1>6, <2>1
  <2>3. HasParts(1 - Bit, Done + 1)'
    <3>1. Done' = Done /\ Bit' = Bit
      BY DEF Done, Bit, Total
    <3> QED
      BY <1>3, <2>2, <3>1 DEF HasParts
  <2>4. Done + 1 < Total
    BY <1>3, <1>8, Counts
  <2> QED
    BY <1>3, <1>4, <2>1, <2>3, <2>4
<1> QED
  BY <1>7, <1>8

LEMMA DownServeTaken ==
    ASSUME Inv, Inv', AskInv, DownInv, Serve, Sound, Taken
    PROVE  TakenInv' /\ (rx # DownRequest /\ Total = 1 => ServeAbort)
<1>0. /\ UNCHANGED <<state, datagram, request, prog, late, asked>> /\ rx # None /\ rx' = None
      /\ ServeDown \/ ServeUp \/ ServeDownSeg \/ ServeUpSeg \/ ServeAbort
  BY ServeSteps
<1>1. /\ TakenRequest /\ TakenParts
      /\ Some("down") => Done = 1
      /\ Clean => SegDone
  BY DEF DownInv, TakenInv
<1>2. UNCHANGED <<Total, Done, Bit, DownRequest, Clean, Taken, Sound>>
  BY <1>0 DEF Total, Done, Bit, DownRequest, Clean, Taken, Sound, Pending, Answered, Received
<1>3. state \in Downs /\ Done \in Nat /\ Done >= 1 /\ Done <= Total /\ Total \in Nat
  BY DownWhat DEF Taken
<1>4. TakenRequest'
  BY <1>0 DEF TakenRequest
<1>5. SUFFICES /\ TakenParts' /\ (Some("down")' => Done = 1)
               /\ Clean => SegDone'
               /\ rx # DownRequest /\ Total = 1 => ServeAbort
  BY <1>2, <1>4 DEF TakenInv
<1>6. CASE ServeAbort
  <2>1. More(Refusal) /\ server' = None /\ UNCHANGED object
    BY <1>6 DEF ServeAbort
  <2>2. Keeps
    BY <2>1, Kinds, MoreDown
  <2>3. TakenParts'
    BY <2>1 DEF TakenParts
  <2>4. ASSUME Clean PROVE SegDone'
    <3>1. SegDone
      BY <1>1, <2>4
    <3>2. Each("down_seg", Acked(Bit))'
      <4>1. PICK m : m = Acked(Bit)
        OBVIOUS
      <4>2. Each("down_seg", m)'
        BY <2>2, <3>1, <4>1 DEF SegDone, Keeps
      <4> QED
        BY <1>2, <4>1, <4>2 DEF Each, Acked
    <3> QED
      BY <1>0, <1>2, <2>1, <2>2, <3>1, <3>2 DEF SegDone, Keeps
  <2> QED
    BY <1>1, <1>6, <2>2, <2>3, <2>4 DEF Keeps
<1>7. CASE rx = DownRequest /\ Done = 1 /\ ~ServeAbort
  <2>1. ServeDown
    BY <1>0, <1>7, DownRequests DEF ServeUp, ServeDownSeg, ServeUpSeg
  <2>2. /\ Total = 1 => object' = request.data
        /\ \/ Total = 1 /\ server' = None
           \/ Total > 1 /\ HasParts(0, 1)' /\ UNCHANGED object
    BY <1>0, <1>3, <1>7, <2>1, ServeDownParts
  <2>3. Bit = 0 /\ Done' = 1 /\ Bit' = 0 /\ Total' = Total
    BY <1>2, <1>7 DEF Bit
  <2>4. HasParts(0, 1)' => HasParts(Bit, Done)'
    BY <2>3 DEF HasParts
  <2>5. TakenParts'
    BY <2>2, <2>3, <2>4 DEF TakenParts
  <2>6. ASSUME Clean PROVE ~Some("down_seg")'
    <3>1. ~Some("down_seg")
      BY <1>0, <1>1, <1>7, <2>6, DownRequests DEF SegDone
    <3> QED
      BY <2>1, <3>1, Kinds, MoreKeeps DEF ServeDown
  <2> QED
    BY <1>7, <2>5, <2>6, NoSegment
<1>8. CASE rx = SegRequest(Done, Bit) /\ Done < Total /\ ~ServeAbort
  <2>1. rx.type = "down_seg" /\ rx # DownRequest
    BY <1>8, DownRequests
  <2>2. ServeDownSeg
    BY <1>0, <1>8, <2>1 DEF ServeDown, ServeUp, ServeUpSeg
  <2>3. /\ HasParts(Bit, Done) /\ More(Acked(Bit))
        /\ \/ Done + 1 = Total /\ server' = None /\ object' = request.data
           \/ Done + 1 < Total /\ HasParts(1 - Bit, Done + 1)' /\ UNCHANGED object
    BY <1>0, <1>1, <1>3, <1>8, <2>2, ServeDownSegParts
  <2>4. Done + 1 < Total <=> Done' + 1 < Total'
    BY <1>2
  <2>5. TakenParts'
    BY <1>0, <2>3, <2>4 DEF TakenParts
  <2>6. Some("down")' => Some("down")
    BY <2>3, Kinds, MoreKeeps
  <2>7. ASSUME Clean PROVE SegDone'
    <3>1. SegDone
      BY <1>1, <2>7
    <3>2. ~Some("down_seg")
      <4>1. server # None /\ ~HasParts(1 - Bit, Done + 1)
        BY <2>3, ToggleTwo DEF HasParts, None
      <4> QED
        BY <3>1, <4>1 DEF SegDone
    <3>3. Unique("down_seg")' /\ Before("down", "down_seg")'
      <4>1. Unique("down_seg") /\ Before("down", "down_seg")
        BY <3>1 DEF SegDone
      <4>2. Kind(Acked(Bit)) = "down_seg"
        BY Kinds
      <4>3. Unique("down_seg")'
        BY <2>3, <3>2, <4>1, MoreKeeps
      <4>4. Before("down", "down_seg")'
        BY <2>3, <4>1, <4>2, MoreKeeps
      <4> QED
        BY <4>3, <4>4
    <3>4. Each("down_seg", Acked(Bit))'
      <4>1. PICK m : m = Acked(Bit)
        OBVIOUS
      <4>2. Each("down_seg", m)
        BY <3>2 DEF Each, Some
      <4>3. Each("down_seg", m)'
        BY <2>3, <4>1, <4>2, MoreKeeps
      <4> QED
        BY <1>2, <4>1, <4>3 DEF Each, Acked
    <3>5. server' = None \/ (Done' + 1 < Total' /\ HasParts(1 - Bit, Done + 1)')
      BY <2>3, <2>4
    <3>6. Done' + 1 = Total' => object' = request'.data
      BY <1>0, <1>2, <1>3, <2>3
    <3> QED
      BY <1>0, <1>2, <1>8, <3>3, <3>4, <3>5, <3>6 DEF SegDone
  <2> QED
    BY <1>1, <1>3, <1>8, <2>5, <2>6, <2>7
<1>9. CASE rx = SegRequest(Done - 1, 1 - Bit) /\ Done > 1 /\ ~ServeAbort
  <2>1. rx.type = "down_seg" /\ rx # DownRequest /\ rx.toggle = 1 - Bit
        /\ rx # SegRequest(Done, Bit)
    BY <1>9, DownRequests, ToggleTwo
  <2>2. ServeDownSeg
    BY <1>0, <1>9, <2>1 DEF ServeDown, ServeUp, ServeUpSeg
  <2>3. server.type = "down_seg" /\ server.toggle = 1 - Bit
    BY <2>1, <2>2 DEF ServeDownSeg, InTurn
  <2>4. server # None /\ ~HasParts(Bit, Done)
    BY <2>3, ToggleTwo DEF HasParts, None
  <2> QED
    BY <1>0, <1>1, <2>1, <2>4 DEF TakenParts
<1> QED
  BY <1>0, <1>1, <1>6, <1>7, <1>8, <1>9 DEF TakenRequest

LEMMA DownServe ==
    ASSUME Inv, Inv', AskInv, DownInv, Serve
    PROVE  DownInv'
<1>0. /\ UNCHANGED <<state, datagram, request, prog, late, asked>> /\ rx # None /\ rx' = None
      /\ ServeDown \/ ServeUp \/ ServeDownSeg \/ ServeUpSeg \/ ServeAbort
  BY ServeSteps
<1>1. UNCHANGED <<Total, DownRequest, Taken, Sound>>
  BY <1>0 DEF Total, DownRequest, Taken, Sound, Answered, Received
<1>2. TakenInv'
  BY <1>1, DownServeTaken DEF TakenInv
<1>3. BeginInv'
  <2> SUFFICES ASSUME state \in Downs, ~late
               PROVE  /\ state = "down_request" => ~Some("down_seg")'
                      /\ Some("down")' /\ Total = 1 => object' = request.data
    BY <1>0, <1>1 DEF BeginInv
  <2>1. /\ state = "down_request" => rx = DownRequest /\ ~Some("down_seg")
        /\ Some("down") /\ Total = 1 => object = request.data
    BY <1>0 DEF DownInv, BeginInv
  <2>2. Total = 1 => rx = DownRequest \/ ServeAbort
    BY <2>1, DownServeTaken DEF Taken, Sound
  <2>3. CASE ServeAbort
    <3>1. Keeps /\ UNCHANGED object
      BY <2>3, Kinds, MoreDown DEF ServeAbort
    <3> QED
      BY <2>1, <3>1 DEF Keeps
  <2>4. CASE rx = DownRequest /\ ~ServeAbort
    <3>1. ServeDown
      BY <1>0, <2>4, DownRequests DEF ServeUp, ServeDownSeg, ServeUpSeg
    <3>2. Some("down_seg")' => Some("down_seg")
      BY <3>1, Kinds, MoreKeeps DEF ServeDown
    <3>3. Total = 1 => object' = request.data
      BY <1>0, <2>4, <3>1, ServeDownParts
    <3> QED
      BY <2>1, <3>2, <3>3
  <2> QED
    BY <2>1, <2>2, <2>3, <2>4
<1> QED
  BY <1>0, <1>2, <1>3 DEF DownInv, WriteInv

\* The first answer of a download.
LEMMA DownFirstStep ==
    ASSUME Inv, AskInv, DownInv, DownFirst, UNCHANGED asked
    PROVE  /\ Taken /\ Clean /\ UNCHANGED request
           /\ Sound => UNCHANGED <<Done, Bit>> /\ Done = 1
           /\ ~late /\ Total = 1 => object = request.data
           /\ prog.remaining = 0 => state' = "end"
           /\ prog.remaining # 0 => state' = "down_seg_check"
<1>1. state = "down_response" /\ Answered /\ datagram.data.type = "down"
      /\ Download(prog.remaining, 0)
  BY DEF DownFirst, Response
<1>2. Pending /\ Taken /\ Clean /\ state \in Downs
  BY <1>1, Domains DEF Pending, Taken, Clean, Downs
<1>3. Some("down")
  BY <1>1, <1>2, Fetched DEF Kind
<1>4. Sound => Done = 1
  BY <1>2, <1>3 DEF DownInv, TakenInv
<1>5. prog.remaining \in Nat /\ prog.remaining < Total /\ 0 \in Toggles
  BY <1>2, Counts DEF Inv, FsmInv, Total, Downs, Toggles
<1>6. /\ UNCHANGED request /\ Total' = Total
      /\ Done' = Total - prog.remaining /\ Bit' = 0
      /\ prog.remaining = 0 => state' = "end"
      /\ prog.remaining # 0 => state' = "down_seg_check"
  BY <1>1, <1>2, <1>5, AskDownload
<1>7. Done' = Done
  BY <1>6 DEF Done
<1>8. Done = 1 => Bit = 0
  BY DEF Bit
<1>9. ~late /\ Total = 1 => object = request.data
  BY <1>2, <1>3 DEF DownInv, BeginInv
<1> QED
  BY <1>2, <1>4, <1>6, <1>7, <1>8, <1>9

\* The answer to a segment.
LEMMA DownNextStep ==
    ASSUME Inv, Inv', AskInv, DownInv, DownNext, UNCHANGED asked, ~Pending', tx' = tx
    PROVE  /\ Taken /\ UNCHANGED request /\ Total' = Total
           /\ Done' = Done + 1 /\ Bit' = 1 - Bit /\ Done \in Nat /\ Done >= 1
           /\ Done < Total /\ Total \in Nat
           /\ Done + 1 = Total => state' = "end"
           /\ Done + 1 # Total => state' = "down_seg_check"
           /\ Sound =>
                 /\ ~Some("down")' /\ ~Some("down_seg")'
                 /\ server = None \/ (Done + 1 < Total /\ HasParts(1 - Bit, Done + 1))
                 /\ rx \in {None, SegRequest(Done, Bit)}
                 /\ Done + 1 = Total => object = request.data
<1>1. state = "down_seg_response" /\ Answered /\ datagram.data.type = "down_seg"
      /\ Download(prog.remaining - 1, 1 - prog.toggle)
  BY DEF DownNext, Response
<1>2. Pending /\ Taken /\ Clean /\ state \in Downs /\ state \in SegStates
  BY <1>1, Domains DEF Pending, Taken, Clean, Downs, SegStates
<1>3. Kind(datagram.data) = "down_seg" /\ Some("down_seg")
  BY <1>1, <1>2, Fetched DEF Kind
<1>4. Sound => SegDone
  BY <1>2 DEF DownInv, TakenInv
<1>5. /\ prog.remaining \in Nat /\ prog.remaining > 0 /\ prog.remaining < Total
      /\ Total \in Nat /\ Done \in Nat /\ Done >= 1 /\ Done < Total
      /\ Done = Total - prog.remaining
  <2>1. prog.remaining \in Nat /\ prog.remaining > 0 /\ prog.remaining < Total
    BY <1>2, Counts DEF Inv, FsmInv, Total, Downs, SegStates
  <2> QED
    BY <2>1, <1>2, Counts DEF Done
<1>6. Bit = prog.toggle /\ 1 - prog.toggle \in Toggles
  BY <1>2, Counts DEF AskInv, Toggles
<1>7. prog.remaining - 1 \in Nat /\ prog.remaining - 1 < Total
      /\ Total - (prog.remaining - 1) # 1 /\ Total - (prog.remaining - 1) = Done + 1
      /\ (prog.remaining - 1 = 0 <=> Done + 1 = Total)
  BY <1>5
<1>8. /\ UNCHANGED request /\ Total' = Total
      /\ Done' = Total - (prog.remaining - 1) /\ Bit' = 1 - prog.toggle
      /\ prog.remaining - 1 = 0 => state' = "end"
      /\ prog.remaining - 1 # 0 => state' = "down_seg_check"
  BY <1>1, <1>2, <1>6, <1>7, AskDownload
<1>9. Sound => ~Some("down")' /\ ~Some("down_seg")'
  BY <1>2, <1>3, <1>4, Consumed DEF SegDone
<1> QED
  BY <1>2, <1>3, <1>4, <1>5, <1>6, <1>7, <1>8, <1>9 DEF SegDone

LEMMA DownExec ==
    ASSUME Inv, Inv', AskInv, DownInv, Exec
    PROVE  DownInv'
<1>1. /\ UNCHANGED <<rx, tx, server, object, late, asked>> /\ Busy /\ Keeps
      /\ ~Pending' \/ PushEmergency
      /\ state \in Downs \cup Up1 \cup Up2
  BY ExecFewer, FewerDown, BusyStates DEF slavevars, Exec
<1>2. Sound' = Sound
  BY <1>1 DEF Sound
<1>3. CASE PushEmergency
  <2>1. UNCHANGED <<state, datagram, request, prog>>
    BY <1>3 DEF PushEmergency, fsmvars
  <2>2. UNCHANGED <<Taken, Clean, Done, Bit>>
    BY <1>1, <2>1 DEF Taken, Clean, Pending, Answered, Received, Done, Bit, Total
  <2> QED
    BY <1>1, <2>1, <2>2, DownFrame
<1>4. CASE ~Pending' /\ Again
  <2>1. UNCHANGED <<state, request, prog>>
    BY <1>4 DEF Again
  <2>2. Taken' => Taken
    <3>1. CASE Send(datagram.what)
      BY <2>1, <3>1, SendState DEF Taken
    <3>2. CASE state = "down_seg_check"
      BY <3>2 DEF Taken, Downs
    <3> QED
      BY <1>4, <3>1, <3>2 DEF Again
  <2>3. Clean' => Clean
    BY <1>1, <1>4, <2>1 DEF Clean
  <2>4. UNCHANGED <<Done, Bit>>
    BY <2>1 DEF Done, Bit, Total
  <2> QED
    BY <1>1, <2>1, <2>2, <2>3, <2>4, DownFrame
<1>5. CASE ~Pending' /\ Move
  <2>1. UNCHANGED <<request, prog>> /\ Answered
        /\ (state' \in SegStates => state \in SegStates)
        /\ (state \in Downs => state' \in Downs \ {"down_request"})
        /\ (state' \in Downs => state \in Downs)
    BY <1>1, <1>5 DEF Move, Downs, Up1, Up2
  <2>2. Taken' => Taken
    BY <2>1 DEF Taken
  <2>3. Clean' => Clean
    BY <1>1, <1>5, <2>1 DEF Clean
  <2>4. UNCHANGED <<Done, Bit>>
    BY <2>1 DEF Done, Bit, Total
  <2>5. state' # "down_request"
    BY <2>1 DEF Downs
  <2> QED
    BY <1>1, <2>1, <2>2, <2>3, <2>4, <2>5, DownFrame
<1>6. CASE Fails \/ UpResponse \/ UpNext
  <2>1. state' \notin Downs
    BY <1>6 DEF Fails, UpResponse, UpNext, End, Enter, Downs
  <2> QED
    BY <1>1, <1>2, <2>1, DownElse DEF DownInv
<1>7. CASE ~Pending' /\ DownFirst
  <2>1. /\ Taken /\ Clean /\ UNCHANGED request
        /\ Sound => UNCHANGED <<Done, Bit>>
        /\ state' \in {"end", "down_seg_check"} /\ state \in Downs
    BY <1>1, <1>7, DownFirstStep DEF Taken
  <2> QED
    BY <1>1, <2>1, DownFrame
<1>8. CASE ~Pending' /\ DownNext
  <2>1. /\ Taken /\ UNCHANGED request /\ Total' = Total
        /\ Done' = Done + 1 /\ Bit' = 1 - Bit /\ Done \in Nat /\ Done >= 1
        /\ Done < Total /\ Total \in Nat
        /\ Done + 1 = Total => state' = "end"
        /\ Done + 1 # Total => state' = "down_seg_check"
        /\ Sound =>
              /\ ~Some("down")' /\ ~Some("down_seg")'
              /\ server = None \/ (Done + 1 < Total /\ HasParts(1 - Bit, Done + 1))
              /\ rx \in {None, SegRequest(Done, Bit)}
    BY <1>1, <1>8, DownNextStep
  <2>2. CASE Done + 1 = Total
    BY <1>1, <1>2, <2>1, <2>2, DownElse DEF DownInv, Downs
  <2>3. CASE Done + 1 # Total
    <3>1. state' = "down_seg_check"
      BY <2>1, <2>3
    <3>2. WriteInv'
      BY <1>1, <1>2, WriteFrame DEF DownInv
    <3>3. BeginInv'
      BY <1>1, <2>1, <3>1 DEF BeginInv, Sound
    <3>4. TakenInv'
      <4> SUFFICES ASSUME Sound PROVE TakenRequest' /\ TakenParts' /\ ~Some("down")' /\ SegDone'
        BY <1>2 DEF TakenInv
      <4>1. 1 - Bit' = Bit /\ Done' - 1 = Done /\ Done' > 1 /\ Done' < Total'
        BY <2>1, <2>3, ToggleTwo
      <4>2. SegRequest(Done - 1, 1 - Bit)' = SegRequest(Done, Bit)
        BY <2>1, <4>1 DEF SegRequest
      <4>3. TakenRequest'
        BY <1>1, <2>1, <4>1, <4>2 DEF TakenRequest
      <4>4. HasParts(1 - Bit, Done + 1) => HasParts(Bit, Done)'
        BY <1>1, <2>1 DEF HasParts
      <4>5. TakenParts'
        BY <1>1, <2>1, <4>1, <4>4 DEF TakenParts
      <4> QED
        BY <2>1, <4>3, <4>5, NoSegment
    <3> QED
      BY <3>2, <3>3, <3>4 DEF DownInv
  <2> QED
    BY <2>2, <2>3
<1> QED
  BY <1>1, <1>3, <1>4, <1>5, <1>6, <1>7, <1>8, ExecSteps

LEMMA DownNextInv ==
    ASSUME Inv, Inv', AskInv, DownInv, [Next]_vars
    PROVE  DownInv'
  BY DownStart, DownExec, DownBus, DownServe, DownOther DEF Next

-----------------------------------------------------------------------------
(* What a transfer promises. *)

Phase == CASE state = "idle" -> "none"
           [] state = "end" -> "success"
           [] state = "error" -> "failure"
           [] OTHER -> "busy"
Wanted == IF request.dir = "down" THEN request.data ELSE <<>>
Result == IF request.dir = "up" /\ state = "end" THEN request.data ELSE <<>>

IInv == Inv /\ AskInv /\ UpInv /\ DownInv

LEMMA Phases ==
    /\ Phase = "busy" <=> Busy
    /\ state = "idle" => Phase = "none"
    /\ state = "end" => Phase = "success"
    /\ state = "error" => Phase = "failure"
    /\ Phase' = "busy" <=> Busy'
    /\ state' = "end" => Phase' = "success"
    /\ state' = "error" => Phase' = "failure"
    /\ state' = state => Phase' = Phase
  BY DEF Phase, Busy, Terminal

LEMMA IInvInit == Init => IInv
  BY InitInv, AskInit, UpInit, DownInit DEF IInv

LEMMA IInvNext == IInv /\ [Next]_vars => IInv'
<1> SUFFICES ASSUME IInv, [Next]_vars PROVE IInv'
  OBVIOUS
<1>1. Inv /\ AskInv /\ UpInv /\ DownInv
  BY DEF IInv
<1>2. Inv'
  BY <1>1, NextInv
<1>3. AskInv'
  BY <1>1, AskNext
<1>4. UpInv'
  BY <1>1, <1>2, UpNextInv
<1>5. DownInv'
  BY <1>1, <1>2, DownNextInv
<1> QED
  BY <1>2, <1>3, <1>4, <1>5 DEF IInv

LEMMA TransferInit == Init => Transfer!Init
<1> SUFFICES ASSUME Init PROVE Transfer!Init
  OBVIOUS
<1>1. Phase = "none"
  BY Phases DEF Init
<1>2. request.dir = "up" /\ state = "idle" /\ late = FALSE /\ asked = {}
  BY DEF Init
<1>3. object \in {Value(n, s) : n \in 0 .. MaxTransfers, s \in Sizes}
  BY CoeAssumption DEF Init
<1> QED
  BY <1>1, <1>2, <1>3 DEF Transfer!Init, Phase

\* A step that ends no transfer and changes nothing a caller sees.
LEMMA TransferSame ==
    ASSUME UNCHANGED <<late, asked, object>>, UNCHANGED <<Phase, Wanted, Result>>,
           request'.dir = request.dir
    PROVE  UNCHANGED Transfer!svars
  BY DEF Transfer!svars, Phase, Wanted, Result

LEMMA TransferStart ==
    ASSUME Inv, Inv', Start
    PROVE  Transfer!Start
<1>1. PICK dir \in {"up", "down"}, size \in Sizes :
        LET data == IF dir = "up" THEN <<>> ELSE Value(request.n + 1, size) IN
          /\ request' = [dir |-> dir, data |-> data, n |-> request.n + 1]
          /\ state' = IF dir = "up" THEN "up_request" ELSE "down_request"
          /\ IF dir = "up" THEN UNCHANGED <<prog, asked>>
             ELSE asked' = asked \cup {data}
  BY DEF Start
<1>2. ~Busy /\ Busy' /\ UNCHANGED object
  BY <1>1 DEF Start, Busy, Terminal, slavevars
<1>3. Phase # "busy" /\ Phase' = "busy"
  BY <1>2, Phases
<1>4. request'.dir \in {"up", "down"} /\ late' \in BOOLEAN /\ state' # "end"
  BY <1>1 DEF Inv, HistoryType
<1>5. Result' = <<>>
  BY <1>4 DEF Result
<1>6. CASE dir = "up"
  <2>1. request'.dir = "up" /\ Wanted' = <<>> /\ asked' = asked
    BY <1>1, <1>6 DEF Wanted
  <2> QED
    BY <1>2, <1>3, <1>4, <1>5, <2>1 DEF Transfer!Start, Phase, Wanted, Result
<1>7. CASE dir = "down"
  <2>1. /\ request'.dir = "down" /\ Wanted' = Value(request.n + 1, size)
        /\ asked' = asked \cup {Value(request.n + 1, size)}
    BY <1>1, <1>7 DEF Wanted
  <2>2. request.n + 1 \in 0 .. MaxTransfers
    BY CoeAssumption DEF Start, Inv, FsmType
  <2>3. Wanted' \in {Value(n, s) : n \in 0 .. MaxTransfers, s \in Sizes}
    BY <2>1, <2>2
  <2> QED
    BY <1>2, <1>3, <1>4, <1>5, <2>1, <2>3 DEF Transfer!Start, Phase, Wanted, Result
<1> QED
  BY <1>6, <1>7

\* A transfer goes on, fails or succeeds.
LEMMA TransferOn ==
    ASSUME Busy, Busy', UNCHANGED <<late, asked, object>>, request'.dir = request.dir,
           request.dir = "down" => request' = request
    PROVE  UNCHANGED Transfer!svars
<1>1. Phase' = Phase
  BY Phases
<1>2. state # "end" /\ state' # "end"
  BY DEF Busy, Terminal
<1>3. Wanted' = Wanted /\ Result' = Result
  BY <1>2 DEF Wanted, Result
<1> QED
  BY <1>1, <1>3, TransferSame

LEMMA TransferFail ==
    ASSUME Busy, state' = "error", UNCHANGED <<late, asked, object, request>>
    PROVE  Transfer!Fail
<1>1. Phase = "busy" /\ Phase' = "failure"
  BY Phases
<1>2. state # "end"
  BY DEF Busy, Terminal
<1> QED
  BY <1>1, <1>2 DEF Transfer!Fail, Phase, Wanted, Result

LEMMA TransferSucceed ==
    ASSUME Inv, Busy, state' = "end", UNCHANGED <<late, asked, object>>,
           request'.dir = request.dir, request.dir = "down" => request' = request,
           \/ late
           \/ request.dir = "down" /\ object = request.data
           \/ request.dir = "up" /\ request'.data = object
    PROVE  Transfer!Succeed
<1>1. Phase = "busy" /\ Phase' = "success"
  BY Phases
<1>2. Wanted' = Wanted
  BY DEF Wanted
<1>3. \/ late
      \/ request.dir = "down" /\ object = Wanted /\ Result' = <<>>
      \/ request.dir = "up" /\ Result' = object
  BY DEF Wanted, Result
<1> QED
  BY <1>1, <1>2, <1>3 DEF Transfer!Succeed, Phase, Wanted, Result

LEMMA TransferExec ==
    ASSUME IInv, IInv', Exec
    PROVE  Transfer!Next \/ UNCHANGED Transfer!svars
<1>0. Inv /\ Inv' /\ AskInv /\ UpInv /\ DownInv
  BY DEF IInv
<1>1. /\ UNCHANGED <<slavevars, late, asked>> /\ UNCHANGED <<tx, object>> /\ Busy
      /\ ~Pending' \/ PushEmergency
  BY <1>0, ExecFewer DEF Exec, slavevars
<1>2. CASE PushEmergency \/ Again \/ Move
  <2>1. UNCHANGED request /\ Busy'
    <3>1. PushEmergency \/ Again => UNCHANGED <<state, request>>
      BY DEF PushEmergency, Again, fsmvars
    <3>2. Move => UNCHANGED request /\ Busy'
      BY Domains DEF Move, Busy, Terminal
    <3> QED
      BY <1>1, <1>2, <3>1, <3>2 DEF Busy
  <2> QED
    BY <1>1, <2>1, TransferOn
<1>3. CASE Fails
  <2>1. UNCHANGED request /\ state' = "error"
    BY <1>3 DEF Fails, End
  <2> QED
    BY <1>1, <2>1, TransferFail DEF Transfer!Next
<1>4. CASE ~Pending' /\ DownFirst
  <2>1. state = "down_response" /\ request.dir = "down" /\ state \in Downs
    BY <1>0, <1>4 DEF DownFirst, Response, Inv, FsmInv, Downs
  <2>2. /\ UNCHANGED request
        /\ Sound => Done = 1
        /\ ~late /\ Total = 1 => object = request.data
        /\ prog.remaining = 0 => state' = "end"
        /\ prog.remaining # 0 => state' = "down_seg_check"
    BY <1>0, <1>1, <1>4, DownFirstStep
  <2>3. CASE prog.remaining = 0
    <3>1. ~late => Total = 1
      BY <1>0, <2>2, <2>3, Counts DEF Sound, Done
    <3> QED
      BY <1>0, <1>1, <2>1, <2>2, <2>3, <3>1, TransferSucceed DEF Transfer!Next
  <2>4. CASE prog.remaining # 0
    <3>1. Busy'
      BY <2>2, <2>4 DEF Busy, Terminal
    <3> QED
      BY <1>1, <2>2, <3>1, TransferOn
  <2> QED
    BY <2>3, <2>4
<1>5. CASE ~Pending' /\ DownNext
  <2>1. state = "down_seg_response" /\ request.dir = "down"
    BY <1>0, <1>5 DEF DownNext, Response, Inv, FsmInv
  <2>2. /\ UNCHANGED request
        /\ Done + 1 = Total => state' = "end"
        /\ Done + 1 # Total => state' = "down_seg_check"
        /\ Sound => (Done + 1 = Total => object = request.data)
    BY <1>0, <1>1, <1>5, DownNextStep
  <2>3. CASE Done + 1 = Total
    BY <1>0, <1>1, <2>1, <2>2, <2>3, TransferSucceed DEF Transfer!Next, Sound
  <2>4. CASE Done + 1 # Total
    <3>1. Busy'
      BY <2>2, <2>4 DEF Busy, Terminal
    <3> QED
      BY <1>1, <2>2, <3>1, TransferOn
  <2> QED
    BY <2>3, <2>4
<1>6. CASE UpResponse
  <2>1. /\ state = "up_response" /\ request'.dir = request.dir /\ ~PushEmergency
        /\ state' \in {"end", "up_seg_request"}
        /\ request' = [request EXCEPT !.data = <<datagram.data.part>>]
        /\ datagram.data.size = 1 <=> state' = "end"
    BY <1>0, <1>6 DEF UpResponse, Response, PushEmergency, End, Enter, Inv, FsmType
  <2>2. request.dir = "up"
    BY <1>0, <2>1 DEF AskInv, Up1
  <2>3. CASE state' = "end"
    <3>1. ASSUME ~late PROVE request'.data = object
      <4>1. request'.data = <<object[1]>> /\ datagram.data = UpFirst
        BY <1>0, <1>1, <1>6, <2>1, <3>1, UpFirstTaken
      <4>2. Len(object) = 1
        BY <2>1, <2>3, <4>1 DEF UpFirst, Size
      <4>3. object \in Seq(Parts)
        BY <1>0 DEF Inv, SlaveType, Data
      <4> QED
        BY <4>1, <4>2, <4>3
    <3> QED
      BY <1>0, <1>1, <2>1, <2>2, <2>3, <3>1, TransferSucceed DEF Transfer!Next
  <2>4. CASE state' # "end"
    <3>1. Busy'
      BY <2>1, <2>4 DEF Busy, Terminal
    <3> QED
      BY <1>1, <2>1, <2>2, <3>1, TransferOn
  <2> QED
    BY <2>3, <2>4
<1>7. CASE UpNext
  <2>1. /\ state = "up_seg_response" /\ request'.dir = request.dir /\ ~PushEmergency
        /\ state' \in {"end", "up_seg_request"}
    BY <1>0, <1>7 DEF UpNext, Response, PushEmergency, End, Enter, Inv, FsmType
  <2>2. request.dir = "up"
    BY <1>0, <2>1 DEF AskInv, Up2
  <2>3. CASE state' = "end"
    <3>1. ASSUME ~late PROVE request'.data = object
      <4>1. /\ Got + 1 = Size => request'.data = object
            /\ Got + 1 # Size => state' = "up_seg_request"
        BY <1>0, <1>1, <1>7, <2>1, <3>1, UpPartTaken
      <4> QED
        BY <2>3, <4>1
    <3> QED
      BY <1>0, <1>1, <2>1, <2>2, <2>3, <3>1, TransferSucceed DEF Transfer!Next
  <2>4. CASE state' # "end"
    <3>1. Busy'
      BY <2>1, <2>4 DEF Busy, Terminal
    <3> QED
      BY <1>1, <2>1, <2>2, <3>1, TransferOn
  <2> QED
    BY <2>3, <2>4
<1>8. DownFirst \/ DownNext => ~PushEmergency
  BY DEF DownFirst, DownNext, Response, PushEmergency
<1> QED
  BY <1>0, <1>1, <1>2, <1>3, <1>4, <1>5, <1>6, <1>7, <1>8, ExecSteps

LEMMA TransferServe ==
    ASSUME IInv, Serve
    PROVE  Transfer!Next \/ UNCHANGED Transfer!svars
<1>0. Inv /\ WriteInv
  BY DEF IInv, DownInv
<1>1. /\ UNCHANGED <<state, request, late, asked>> /\ rx # None
      /\ ServeDown \/ ServeUp \/ ServeDownSeg \/ ServeUpSeg \/ ServeAbort
  BY <1>0, ServeSteps
<1>2. UNCHANGED <<Phase, Wanted, Result>>
  BY <1>1, Phases DEF Wanted, Result
<1>3. CASE UNCHANGED object
  BY <1>1, <1>2, <1>3, TransferSame
<1>4. CASE object' \in asked \/ (MaxQueue > 1 /\ late)
  <2>1. Transfer!Write
    BY <1>1, <1>2, <1>4 DEF Transfer!Write, Phase, Wanted, Result
  <2> QED
    BY <2>1 DEF Transfer!Next
<1>5. object' = object \/ object' \in asked \/ (MaxQueue > 1 /\ late)
  <2>1. CASE ~Sound
    BY <2>1, CoeAssumption DEF Sound
  <2>2. CASE Sound
    <3>1. /\ rx.type = "down" /\ rx.size = 1 => <<rx.part>> \in asked
          /\ rx.type = "down_seg" /\ InTurn /\ rx.last => Append(server.data, rx.part) \in asked
      BY <1>0, <1>1, <2>2 DEF WriteInv
    <3> QED
      BY <1>1, <3>1 DEF ServeDown, ServeUp, ServeDownSeg, ServeUpSeg, ServeAbort
  <2> QED
    BY <2>1, <2>2
<1> QED
  BY <1>3, <1>4, <1>5

LEMMA TransferElse ==
    ASSUME IInv,
           Bus \/ Emergency \/ OtherAnswer \/ Theft \/ Expire \/ Application \/ UNCHANGED vars
    PROVE  UNCHANGED Transfer!svars
<1>1. UNCHANGED <<state, request, late, asked, object>>
  BY DEF Bus, Emergency, OtherAnswer, Theft, Expire, Application, vars, fsmvars, slavevars
<1>2. UNCHANGED <<Phase, Wanted, Result>>
  BY <1>1, Phases DEF Wanted, Result
<1> QED
  BY <1>1, <1>2, TransferSame

\* ecrt_master_sdo_download() and ecrt_master_sdo_upload(): the slave's object
\* holds whole values only, and a transfer that ends with success has
\* transferred all of it, whatever was lost, written twice, refused or read by
\* others, but for what an earlier transfer has left on its way.
THEOREM Refinement == Spec => TransferSpec
<1>1. IInv /\ IInv' /\ [Next]_vars => [Transfer!Next]_Transfer!svars
  <2> SUFFICES ASSUME IInv, IInv', [Next]_vars
               PROVE  Transfer!Next \/ UNCHANGED Transfer!svars
    OBVIOUS
  <2>1. CASE Start
    BY <2>1, TransferStart DEF IInv, Transfer!Next
  <2> QED
    BY <2>1, TransferExec, TransferServe, TransferElse DEF Next
<1>2. Spec => []IInv
  BY IInvInit, IInvNext, PTL DEF Spec
<1> QED
  BY <1>1, <1>2, TransferInit, PTL DEF Spec, TransferSpec, Transfer!Spec
=============================================================================
