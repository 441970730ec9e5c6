---------------------------- MODULE Requests_proof ----------------------------
(***************************************************************************)
(* Theorems about Requests for any callers, any number of calls and any    *)
(* kinds of requests: the types; that a request is in exactly one list     *)
(* while it is queued, that its caller waits as long as a list or a state  *)
(* machine points to it, that no answer changes any more; that no state    *)
(* machine works without a request; and, but for EoE requests of callers   *)
(* and SoE requests of the application, that busy requests are worked on   *)
(* and pointers to the application's requests reset.                       *)
(***************************************************************************)
EXTENDS Requests, SequenceTheorems, TLAPS

MasterStates == {"start", "broadcast", "read_state", "sii", "sdo", "soe"}

CallerType ==
    /\ pc \in [Callers -> {"idle", "wait_queued", "wait_busy"}]
    /\ kind \in [Callers -> Kinds \cup {"none"}]
    /\ state \in [Callers -> RequestStates]
    /\ queue \in [AllKinds -> Seq(Callers)]

OtherType ==
    /\ asleep \subseteq Callers
    /\ app \in [AppKinds -> RequestStates]
    /\ calls \in 0 .. MaxCalls
    /\ slave \in {"none", "INIT", "ERROR", "OK"}
    /\ config \in {"none", "detached", "attached"}

FsmType ==
    /\ fsm \in {"none", "idle", "ready"} \cup SlaveKinds
    /\ request \in [SlaveKinds -> Callers \cup {NULL, App}]
    /\ master \in MasterStates

\* A request begins and ends with its call, and is taken before the caller
\* waits for its answer.
CallerInv ==
    \A c \in Callers :
        /\ pc[c] = "idle" => state[c] = "INIT" /\ kind[c] = "none"
        /\ pc[c] # "idle" => state[c] # "INIT" /\ kind[c] \in Kinds
        /\ pc[c] = "wait_busy" => state[c] # "QUEUED"

\* The lists hold the queued requests of their kind, each once.
QueueInv ==
    /\ \A k \in AllKinds : \A i \in 1 .. Len(queue[k]) :
          kind[queue[k][i]] = k /\ state[queue[k][i]] = "QUEUED"
    /\ \A k \in AllKinds : \A i, j \in 1 .. Len(queue[k]) :
          queue[k][i] = queue[k][j] => i = j
    /\ \A c \in Callers :
          state[c] = "QUEUED" =>
              /\ kind[c] \in AllKinds
              /\ \E i \in 1 .. Len(queue[kind[c]]) : queue[kind[c]][i] = c

\* The slave FSM has a request only in the state for its kind, and that is
\* busy.
FsmInv ==
    /\ slave = "none" => fsm = "none"
    /\ \A k \in SlaveKinds :
          /\ request[k] # NULL => fsm = k
          /\ request[k] \in Callers =>
                kind[request[k]] = k /\ state[request[k]] = "BUSY"
          /\ request[k] = App => k = "reg" /\ config # "none"
          /\ fsm = k /\ k # "reg" => request[k] # NULL

\* The master FSM has one only in the states that work on one.
MasterInv ==
    /\ master = "sii" =>
          own \in Callers /\ kind[own] = "sii" /\ state[own] = "BUSY"
    /\ master \in {"sdo", "soe"} => own \in {App, NULL}
    /\ master \notin {"sii", "sdo", "soe"} => own = NULL
    /\ own = App /\ master = "sdo" => config # "none"
    /\ master = "soe" => "soe" \in AppKinds

\* A busy request is the one the slave FSM works on; that of a master FSM that
\* was stopped, and an EoE request whose slave was cleared, stay busy.
BusyInv ==
    \A c \in Callers :
        state[c] = "BUSY" =>
            \/ kind[c] \in {"sii", "eoe"}
            \/ kind[c] \in SlaveKinds /\ fsm = kind[c] /\ request[kind[c]] = c

Inv ==
    /\ CallerType /\ OtherType /\ FsmType
    /\ CallerInv /\ QueueInv /\ FsmInv /\ MasterInv /\ BusyInv

-----------------------------------------------------------------------------
LEMMA RemoveAtProperties ==
    ASSUME NEW S, NEW s \in Seq(S), NEW i \in 1 .. Len(s)
    PROVE  /\ RemoveAt(s, i) \in Seq(S)
           /\ Len(RemoveAt(s, i)) = Len(s) - 1
           /\ \A j \in 1 .. Len(s) - 1 :
                 RemoveAt(s, i)[j] = IF j < i THEN s[j] ELSE s[j + 1]
<1> DEFINE a == SubSeq(s, 1, i - 1)
           b == SubSeq(s, i + 1, Len(s))
<1>1. /\ a \in Seq(S) /\ Len(a) = i - 1
      /\ \A j \in 1 .. i - 1 : a[j] = s[j]
  <2>1. \A j \in 1 .. i - 1 : s[j] \in S
    OBVIOUS
  <2>2. 1 \in Int /\ i - 1 \in Int
    OBVIOUS
  <2> QED
    BY <2>1, <2>2, SubSeqProperties
<1>2. /\ b \in Seq(S) /\ Len(b) = Len(s) - i
      /\ \A j \in 1 .. Len(s) - i : b[j] = s[i + j]
  <2>1. \A j \in i + 1 .. Len(s) : s[j] \in S
    OBVIOUS
  <2>2. i + 1 \in Int /\ Len(s) \in Int
    OBVIOUS
  <2> QED
    BY <2>1, <2>2, SubSeqProperties
<1> HIDE DEF a, b
<1>3. /\ a \o b \in Seq(S)
      /\ Len(a \o b) = Len(s) - 1
      /\ \A j \in 1 .. Len(s) - 1 :
            (a \o b)[j] = IF j <= i - 1 THEN a[j] ELSE b[j - (i - 1)]
  <2>1. a \in Seq(S) /\ b \in Seq(S) /\ Len(a) = i - 1
        /\ Len(a) + Len(b) = Len(s) - 1
    BY <1>1, <1>2
  <2>2. /\ a \o b \in Seq(S)
        /\ Len(a \o b) = Len(a) + Len(b)
        /\ \A j \in 1 .. Len(a) + Len(b) :
              (a \o b)[j] = IF j <= Len(a) THEN a[j] ELSE b[j - Len(a)]
    BY <2>1, ConcatProperties
  <2> QED
    BY <2>1, <2>2
<1>4. ASSUME NEW j \in 1 .. Len(s) - 1
      PROVE  (a \o b)[j] = IF j < i THEN s[j] ELSE s[j + 1]
  <2>1. CASE j < i
    BY <1>1, <1>3, <2>1
  <2>2. CASE ~(j < i)
    <3>1. j - (i - 1) \in 1 .. Len(s) - i /\ i + (j - (i - 1)) = j + 1
      BY <2>2
    <3> QED
      BY <1>2, <1>3, <2>2, <3>1
  <2> QED
    BY <2>1, <2>2
<1> QED
  BY <1>3, <1>4 DEF RemoveAt, a, b

LEMMA Kind ==
    /\ SlaveKinds \subseteq AllKinds /\ Kinds \subseteq AllKinds
    /\ "none" \notin AllKinds
    /\ \A k \in SlaveKinds : Before(k) \subseteq SlaveKinds \ {k}
    /\ Before("none") = SlaveKinds
    /\ App \notin Callers /\ NULL \notin Callers /\ App # NULL
<1>1. /\ SlaveKinds \subseteq AllKinds /\ "none" \notin AllKinds
      /\ Before("none") = SlaveKinds
  BY DEF SlaveKinds, AllKinds, Before
<1>2. \A k \in SlaveKinds : Before(k) \subseteq SlaveKinds \ {k}
  BY DEF SlaveKinds, Before
<1> QED
  BY <1>1, <1>2, RequestsAssumption

Taken == {"BUSY", "SUCCESS", "FAILURE"}

\* Requests are taken out of the lists of the kinds T, and change their states;
\* besides, busy ones may be answered.
LEMMA PopInv ==
    ASSUME CallerType, CallerInv, QueueInv, UNCHANGED <<pc, kind>>,
           NEW T, T \subseteq AllKinds, \A j \in T : queue[j] # <<>>,
           queue' = [j \in AllKinds |-> IF j \in T THEN Tail(queue[j]) ELSE queue[j]],
           state' \in [Callers -> RequestStates],
           \A c \in Callers :
              \/ state'[c] = state[c] /\ \A j \in T : c # Head(queue[j])
              \/ state'[c] \in Taken /\ state[c] = "BUSY"
              \/ state'[c] \in Taken /\ \E j \in T : c = Head(queue[j])
    PROVE  CallerType' /\ CallerInv' /\ QueueInv'
<1>1. ASSUME NEW j \in T
      PROVE  /\ Head(queue[j]) = queue[j][1] /\ 1 \in 1 .. Len(queue[j])
             /\ Tail(queue[j]) \in Seq(Callers)
             /\ Len(Tail(queue[j])) = Len(queue[j]) - 1
             /\ \A i \in 1 .. Len(Tail(queue[j])) :
                   Tail(queue[j])[i] = queue[j][i + 1] /\ i + 1 \in 1 .. Len(queue[j])
  <2>1. queue[j] \in Seq(Callers) /\ queue[j] # <<>>
    BY DEF CallerType
  <2> QED
    BY <2>1, HeadTailProperties
<1>2. CallerType'
  <2>1. \A j \in AllKinds : (IF j \in T THEN Tail(queue[j]) ELSE queue[j]) \in Seq(Callers)
    BY <1>1 DEF CallerType
  <2>2. queue' \in [AllKinds -> Seq(Callers)]
    BY <2>1
  <2> QED
    BY <2>2 DEF CallerType
<1>3. ASSUME NEW k \in AllKinds, NEW i \in 1 .. Len(queue'[k])
      PROVE  \E m \in 1 .. Len(queue[k]) :
                /\ queue'[k][i] = queue[k][m] /\ (k \in T => m = i + 1)
                /\ (k \notin T => m = i)
  <2>1. CASE k \in T
    BY <1>1, <2>1
  <2>2. CASE k \notin T
    BY <2>2
  <2> QED
    BY <2>1, <2>2
<1>4. ASSUME NEW k \in AllKinds, NEW i \in 1 .. Len(queue'[k])
      PROVE  kind'[queue'[k][i]] = k /\ state'[queue'[k][i]] = "QUEUED"
  <2>1. PICK m \in 1 .. Len(queue[k]) :
                /\ queue'[k][i] = queue[k][m] /\ (k \in T => m = i + 1)
                /\ (k \notin T => m = i)
    BY <1>3
  <2> DEFINE c == queue[k][m]
  <2>2. c \in Callers /\ kind[c] = k /\ state[c] = "QUEUED"
    BY DEF CallerType, QueueInv
  <2>3. \A j \in T : c # Head(queue[j])
    <3> SUFFICES ASSUME NEW j \in T, c = Head(queue[j]) PROVE FALSE
      OBVIOUS
    <3>1. c = queue[j][1] /\ 1 \in 1 .. Len(queue[j]) /\ j \in AllKinds
      BY <1>1
    <3>2. kind[c] = j
      BY <3>1 DEF QueueInv
    <3>3. j = k /\ m = i + 1 /\ i >= 1 /\ i \in Nat
      BY <2>1, <2>2, <3>2
    <3>4. m = 1
      BY <3>1, <3>3 DEF QueueInv
    <3> QED
      BY <3>3, <3>4
  <2>4. state'[c] = "QUEUED"
    BY <2>2, <2>3
  <2> QED
    BY <2>1, <2>2, <2>4
<1>5. ASSUME NEW k \in AllKinds, NEW i \in 1 .. Len(queue'[k]),
             NEW j \in 1 .. Len(queue'[k]), queue'[k][i] = queue'[k][j]
      PROVE  i = j
  <2>1. PICK m \in 1 .. Len(queue[k]) :
                /\ queue'[k][i] = queue[k][m] /\ (k \in T => m = i + 1)
                /\ (k \notin T => m = i)
    BY <1>3
  <2>2. PICK n \in 1 .. Len(queue[k]) :
                /\ queue'[k][j] = queue[k][n] /\ (k \in T => n = j + 1)
                /\ (k \notin T => n = j)
    BY <1>3
  <2>3. m = n
    BY <1>5, <2>1, <2>2 DEF QueueInv
  <2>4. i \in Int /\ j \in Int
    OBVIOUS
  <2> QED
    BY <2>1, <2>2, <2>3, <2>4
<1>6. ASSUME NEW c \in Callers, state'[c] = "QUEUED"
      PROVE  /\ kind'[c] \in AllKinds
             /\ \E i \in 1 .. Len(queue'[kind'[c]]) : queue'[kind'[c]][i] = c
  <2>1. state[c] = "QUEUED" /\ \A j \in T : c # Head(queue[j])
    BY <1>6 DEF Taken
  <2> DEFINE k == kind[c]
  <2>2. k \in AllKinds /\ kind'[c] = k
    BY <2>1 DEF QueueInv
  <2>3. PICK m \in 1 .. Len(queue[k]) : queue[k][m] = c
    BY <2>1 DEF QueueInv
  <2>4. CASE k \in T
    <3>1. m # 1
      BY <1>1, <2>1, <2>3, <2>4
    <3>2. queue[k] \in Seq(Callers)
      BY <2>2 DEF CallerType
    <3>3. m - 1 \in 1 .. Len(queue[k]) - 1
      BY <3>1, <3>2
    <3>4. queue'[k] = Tail(queue[k])
      BY <2>2, <2>4
    <3>5. m - 1 \in 1 .. Len(queue'[k]) /\ queue'[k][m - 1] = c
      <4>1. Len(queue'[k]) = Len(queue[k]) - 1
        BY <1>1, <2>4, <3>4
      <4>2. (m - 1) + 1 = m
        OBVIOUS
      <4> QED
        BY <1>1, <2>3, <2>4, <3>3, <3>4, <4>1, <4>2
    <3> QED
      BY <2>2, <3>5
  <2>5. CASE k \notin T
    BY <2>2, <2>3, <2>5
  <2> QED
    BY <2>4, <2>5
<1>7. QueueInv'
  BY <1>4, <1>5, <1>6 DEF QueueInv
<1>8. CallerInv'
  <2> SUFFICES ASSUME NEW c \in Callers
               PROVE  /\ pc'[c] = "idle" => state'[c] = "INIT" /\ kind'[c] = "none"
                      /\ pc'[c] # "idle" => state'[c] # "INIT" /\ kind'[c] \in Kinds
                      /\ pc'[c] = "wait_busy" => state'[c] # "QUEUED"
    BY DEF CallerInv
  <2>1. \A j \in T : Head(queue[j]) \in Callers => state[Head(queue[j])] = "QUEUED"
    BY <1>1 DEF QueueInv
  <2> QED
    BY <2>1 DEF CallerInv, Taken
<1> QED
  BY <1>2, <1>7, <1>8

\* Busy requests are answered, and the lists stay.
LEMMA AnsweredInv ==
    ASSUME CallerType, CallerInv, QueueInv, UNCHANGED <<pc, kind, queue>>,
           state' \in [Callers -> RequestStates],
           \A c \in Callers :
              \/ state'[c] = state[c]
              \/ state'[c] \in Taken /\ state[c] = "BUSY"
    PROVE  CallerType' /\ CallerInv' /\ QueueInv'
<1>1. CallerType' /\ CallerInv'
  BY DEF CallerType, CallerInv, Taken
<1>2. \A k \in AllKinds : \A i \in 1 .. Len(queue[k]) :
         queue[k][i] \in Callers /\ state'[queue[k][i]] = "QUEUED"
  BY DEF CallerType, QueueInv
<1>3. \A c \in Callers : state'[c] = "QUEUED" => state[c] = "QUEUED"
  BY DEF Taken
<1>4. QueueInv'
  BY <1>2, <1>3 DEF QueueInv
<1> QED
  BY <1>1, <1>4

LEMMA InitInv == Init => Inv
<1> SUFFICES ASSUME Init PROVE Inv
  OBVIOUS
<1>1. CallerType
  <2>1. <<>> \in Seq(Callers)
    OBVIOUS
  <2> QED
    BY <2>1 DEF Init, CallerType, RequestStates
<1>2. OtherType
  BY RequestsAssumption DEF Init, OtherType, RequestStates
<1>3. FsmType
  BY DEF Init, FsmType, MasterStates
<1>4. CallerInv
  BY DEF Init, CallerInv
<1>5. QueueInv
  BY DEF Init, QueueInv
<1>6. FsmInv
  <2>1. slave = "none" /\ fsm = "none" /\ \A k \in SlaveKinds : request[k] = NULL /\ k # "none"
    BY DEF Init, SlaveKinds
  <2> QED
    BY <2>1, Kind DEF FsmInv
<1>7. MasterInv
  BY Kind DEF Init, MasterInv
<1>8. BusyInv
  BY DEF Init, BusyInv
<1> QED
  BY <1>1, <1>2, <1>3, <1>4, <1>5, <1>6, <1>7, <1>8 DEF Inv

-----------------------------------------------------------------------------
(* The callers. *)

\* The state machines do not notice what callers do with requests that are not
\* busy.
LEMMA PointersInv ==
    ASSUME FsmInv, MasterInv, BusyInv, UNCHANGED <<fsm, request, master, own, slave, config>>,
           own \in Callers \/ master # "sii",
           \A d \in Callers : state[d] = "BUSY" => state'[d] = "BUSY" /\ kind'[d] = kind[d],
           \A d \in Callers : state'[d] = "BUSY" => state[d] = "BUSY"
    PROVE  FsmInv' /\ MasterInv' /\ BusyInv'
<1>1. FsmInv'
  BY DEF FsmInv
<1>2. MasterInv'
  BY DEF MasterInv
<1>3. BusyInv'
  BY DEF BusyInv
<1> QED
  BY <1>1, <1>2, <1>3

LEMMA ScheduleInv ==
    ASSUME Inv, NEW c \in Callers, Schedule(c)
    PROVE  Inv'
<1> USE DEF Inv
<1>1. pc[c] = "idle" /\ calls < MaxCalls /\ calls' = calls + 1
      /\ state' = [state EXCEPT ![c] = "QUEUED"]
      /\ pc' = [pc EXCEPT ![c] = "wait_queued"]
      /\ UNCHANGED <<asleep, app, slave, config, fsm, request, master, own>>
  BY DEF Schedule, buildvars, slavefsm, masterfsm
<1>2. PICK k \in Kinds : kind' = [kind EXCEPT ![c] = k]
                         /\ queue' = [queue EXCEPT ![k] = Append(@, c)]
  BY DEF Schedule
<1>3. k \in AllKinds /\ queue[k] \in Seq(Callers) /\ state[c] = "INIT"
  BY <1>1, Kind DEF CallerType, CallerInv
<1>4. /\ queue'[k] \in Seq(Callers) /\ Len(queue'[k]) = Len(queue[k]) + 1
      /\ Len(queue[k]) \in Nat
      /\ \A i \in 1 .. Len(queue[k]) : queue'[k][i] = queue[k][i]
      /\ queue'[k][Len(queue[k]) + 1] = c
  BY <1>2, <1>3 DEF CallerType
<1>5. \A l \in AllKinds \ {k} : queue'[l] = queue[l]
  BY <1>2 DEF CallerType
<1>6. CallerType'
  <2>1. queue' \in [AllKinds -> Seq(Callers)]
    BY <1>2, <1>3, <1>4, <1>5 DEF CallerType
  <2> QED
    BY <1>1, <1>2, <2>1 DEF CallerType, RequestStates
<1>7. OtherType' /\ FsmType'
  BY <1>1, RequestsAssumption DEF OtherType, FsmType
<1>8. CallerInv'
  BY <1>1, <1>2 DEF CallerInv, CallerType
<1>9. \A l \in AllKinds : \A i \in 1 .. Len(queue[l]) :
         queue[l][i] # c /\ queue[l][i] \in Callers
  BY <1>3 DEF QueueInv, CallerType
<1>10. QueueInv'
  <2>1. ASSUME NEW l \in AllKinds, NEW i \in 1 .. Len(queue'[l])
        PROVE  kind'[queue'[l][i]] = l /\ state'[queue'[l][i]] = "QUEUED"
    <3>1. CASE l = k /\ i = Len(queue[k]) + 1
      BY <1>1, <1>2, <1>4, <3>1 DEF CallerType
    <3>2. CASE ~(l = k /\ i = Len(queue[k]) + 1)
      <4>1. i \in 1 .. Len(queue[l]) /\ queue'[l][i] = queue[l][i]
        BY <1>4, <1>5, <3>2
      <4> QED
        BY <1>1, <1>2, <1>9, <4>1 DEF CallerType, QueueInv
    <3> QED
      BY <3>1, <3>2
  <2>2. ASSUME NEW l \in AllKinds, NEW i \in 1 .. Len(queue'[l]),
               NEW j \in 1 .. Len(queue'[l]), queue'[l][i] = queue'[l][j]
        PROVE  i = j
    <3>1. CASE l = k
      BY <1>4, <1>9, <2>2, <3>1 DEF QueueInv
    <3>2. CASE l # k
      BY <1>5, <2>2, <3>2 DEF QueueInv
    <3> QED
      BY <3>1, <3>2
  <2>3. ASSUME NEW d \in Callers, state'[d] = "QUEUED"
        PROVE  /\ kind'[d] \in AllKinds
               /\ \E i \in 1 .. Len(queue'[kind'[d]]) : queue'[kind'[d]][i] = d
    <3>1. CASE d = c
      <4>1. kind'[d] = k /\ Len(queue[k]) + 1 \in 1 .. Len(queue'[k])
        BY <1>2, <1>4, <3>1 DEF CallerType
      <4> QED
        BY <1>3, <1>4, <3>1, <4>1
    <3>2. CASE d # c
      <4>1. kind'[d] = kind[d] /\ state[d] = "QUEUED"
        BY <1>1, <1>2, <2>3, <3>2 DEF CallerType
      <4>2. kind[d] \in AllKinds
        BY <4>1 DEF QueueInv
      <4>3. PICK i \in 1 .. Len(queue[kind[d]]) : queue[kind[d]][i] = d
        BY <4>1 DEF QueueInv
      <4>4. i \in 1 .. Len(queue'[kind[d]]) /\ queue'[kind[d]][i] = d
        BY <1>4, <1>5, <4>2, <4>3
      <4> QED
        BY <4>1, <4>2, <4>4
    <3> QED
      BY <3>1, <3>2
  <2> QED
    BY <2>1, <2>2, <2>3 DEF QueueInv
<1>11. /\ \A d \in Callers : state[d] = "BUSY" => state'[d] = "BUSY" /\ kind'[d] = kind[d]
       /\ \A d \in Callers : state'[d] = "BUSY" => state[d] = "BUSY"
       /\ own \in Callers \/ master # "sii"
  BY <1>1, <1>2, <1>3 DEF CallerType, MasterInv
<1>12. FsmInv' /\ MasterInv' /\ BusyInv'
  BY <1>1, <1>11, PointersInv
<1> QED
  BY <1>6, <1>7, <1>8, <1>10, <1>12

\* A caller goes to sleep, or on to wait for the answer: its request is not
\* queued any more.
LEMMA WaitInv ==
    ASSUME Inv, NEW c \in Callers, pc[c] # "idle",
           pc' = pc \/ (state[c] # "QUEUED" /\ pc' = [pc EXCEPT ![c] = "wait_busy"]),
           UNCHANGED <<kind, state, calls, app, queue, slave, config, fsm,
                       request, master, own>>,
           asleep' \subseteq Callers
    PROVE  Inv'
<1> USE DEF Inv
<1>1. CallerType' /\ CallerInv'
  BY DEF CallerType, CallerInv
<1>2. OtherType' /\ FsmType'
  BY DEF OtherType, FsmType
<1>3. QueueInv'
  BY DEF QueueInv
<1>4. own \in Callers \/ master # "sii"
  BY DEF MasterInv
<1>5. FsmInv' /\ MasterInv' /\ BusyInv'
  BY <1>4, PointersInv
<1> QED
  BY <1>1, <1>2, <1>3, <1>5

LEMMA WaitQueuedInv ==
    ASSUME Inv, NEW c \in Callers, WaitQueued(c)
    PROVE  Inv'
<1>1. /\ pc[c] # "idle" /\ asleep' \subseteq Callers
      /\ pc' = pc \/ (state[c] # "QUEUED" /\ pc' = [pc EXCEPT ![c] = "wait_busy"])
      /\ UNCHANGED <<kind, state, calls, app, queue, slave, config, fsm,
                     request, master, own>>
  BY DEF WaitQueued, Wait, Inv, OtherType, buildvars, slavefsm, masterfsm
<1> QED
  BY <1>1, WaitInv

LEMMA WaitBusyInv ==
    ASSUME Inv, NEW c \in Callers, WaitBusy(c)
    PROVE  Inv'
<1> USE DEF Inv
<1>1. /\ pc[c] = "wait_busy"
      /\ UNCHANGED <<calls, app, queue, slave, config, fsm, request, master, own>>
  BY DEF WaitBusy, buildvars, slavefsm, masterfsm
<1>2. CASE asleep' = asleep \cup {c} /\ UNCHANGED <<pc, state, kind>>
  BY <1>1, <1>2, WaitInv DEF OtherType
<1>3. CASE state[c] # "BUSY" /\ Return(c) /\ UNCHANGED asleep
  <2>1. state[c] # "QUEUED"
    BY <1>1 DEF CallerInv
  <2>2. /\ pc' = [pc EXCEPT ![c] = "idle"]
        /\ kind' = [kind EXCEPT ![c] = "none"]
        /\ state' = [state EXCEPT ![c] = "INIT"]
    BY <1>3 DEF Return
  <2>3. CallerType' /\ CallerInv'
    BY <1>1, <2>2 DEF CallerType, CallerInv, RequestStates
  <2>4. OtherType' /\ FsmType'
    BY <1>1, <1>3 DEF OtherType, FsmType
  <2>5. \A k \in AllKinds : \A i \in 1 .. Len(queue[k]) :
           queue[k][i] # c /\ queue[k][i] \in Callers
    BY <2>1 DEF QueueInv, CallerType
  <2>6. QueueInv'
    BY <1>1, <2>1, <2>2, <2>5 DEF QueueInv, CallerType
  <2>7. /\ \A d \in Callers : state[d] = "BUSY" => state'[d] = "BUSY" /\ kind'[d] = kind[d]
        /\ \A d \in Callers : state'[d] = "BUSY" => state[d] = "BUSY"
        /\ own \in Callers \/ master # "sii"
    BY <1>3, <2>2 DEF CallerType, MasterInv
  <2>8. FsmInv' /\ MasterInv' /\ BusyInv'
    BY <1>1, <2>7, PointersInv
  <2> QED
    BY <2>3, <2>4, <2>6, <2>8
<1> QED
  BY <1>2, <1>3 DEF WaitBusy, Wait

LEMMA InterruptInv ==
    ASSUME Inv, NEW c \in Callers, Interrupt(c)
    PROVE  Inv'
<1> USE DEF Inv
<1>1. /\ pc[c] = "wait_queued" /\ asleep' \subseteq Callers
      /\ UNCHANGED <<app, calls, slave, config, fsm, request, master, own>>
  BY DEF Interrupt, OtherType, buildvars, slavefsm, masterfsm
<1>2. CASE /\ state[c] # "QUEUED" /\ pc' = [pc EXCEPT ![c] = "wait_busy"]
           /\ UNCHANGED <<kind, state, queue>>
  BY <1>1, <1>2, WaitInv
<1>3. CASE /\ state[c] = "QUEUED" /\ Return(c)
           /\ \E i \in 1 .. Len(queue[kind[c]]) :
                /\ queue[kind[c]][i] = c
                /\ queue' = [queue EXCEPT ![kind[c]] = RemoveAt(@, i)]
  <2> DEFINE k == kind[c]
  <2>1. k \in AllKinds /\ queue[k] \in Seq(Callers)
    BY <1>3 DEF QueueInv, CallerType
  <2>2. PICK n \in 1 .. Len(queue[k]) :
                /\ queue[k][n] = c
                /\ queue' = [queue EXCEPT ![k] = RemoveAt(@, n)]
    BY <1>3
  <2>3. /\ pc' = [pc EXCEPT ![c] = "idle"]
        /\ kind' = [kind EXCEPT ![c] = "none"]
        /\ state' = [state EXCEPT ![c] = "INIT"]
    BY <1>3 DEF Return
  <2> HIDE DEF k
  <2>4. /\ queue'[k] \in Seq(Callers) /\ Len(queue'[k]) = Len(queue[k]) - 1
        /\ \A j \in 1 .. Len(queue[k]) - 1 :
              queue'[k][j] = IF j < n THEN queue[k][j] ELSE queue[k][j + 1]
    <3>1. queue'[k] = RemoveAt(queue[k], n)
      BY <2>1, <2>2 DEF CallerType
    <3> QED
      BY <2>1, <3>1, RemoveAtProperties
  <2>5. \A l \in AllKinds \ {k} : queue'[l] = queue[l]
    BY <2>2 DEF CallerType
  <2>6. CallerType'
    <3>1. queue' \in [AllKinds -> Seq(Callers)]
      BY <2>1, <2>2, <2>4, <2>5 DEF CallerType
    <3> QED
      BY <2>3, <3>1 DEF CallerType, RequestStates
  <2>7. OtherType' /\ FsmType'
    BY <1>1 DEF OtherType, FsmType
  <2>8. CallerInv'
    BY <2>3 DEF CallerInv, CallerType
  <2>9. ASSUME NEW l \in AllKinds, NEW i \in 1 .. Len(queue'[l])
        PROVE  \E m \in 1 .. Len(queue[l]) :
                  /\ queue'[l][i] = queue[l][m]
                  /\ m = IF l = k /\ i >= n THEN i + 1 ELSE i
                  /\ l = k => m # n
    <3>1. CASE l = k
      <4>1. i \in 1 .. Len(queue[k]) - 1 /\ Len(queue[k]) \in Nat /\ n \in Nat
        BY <2>1, <2>4, <3>1
      <4>2. CASE i < n
        BY <2>4, <3>1, <4>1, <4>2
      <4>3. CASE i >= n
        BY <2>4, <3>1, <4>1, <4>3
      <4> QED
        BY <4>1, <4>2, <4>3
    <3>2. CASE l # k
      BY <2>5, <3>2
    <3> QED
      BY <3>1, <3>2
  <2>10. ASSUME NEW l \in AllKinds, NEW i \in 1 .. Len(queue'[l])
         PROVE  kind'[queue'[l][i]] = l /\ state'[queue'[l][i]] = "QUEUED"
    <3>1. PICK m \in 1 .. Len(queue[l]) :
                  /\ queue'[l][i] = queue[l][m]
                  /\ l = k => m # n
      BY <2>9
    <3>2. queue[l][m] \in Callers /\ kind[queue[l][m]] = l /\ state[queue[l][m]] = "QUEUED"
      BY DEF QueueInv, CallerType
    <3>3. queue[l][m] # c
      BY <2>1, <2>2, <3>1, <3>2 DEF QueueInv, k
    <3> QED
      BY <2>3, <3>1, <3>2, <3>3 DEF CallerType
  <2>11. ASSUME NEW l \in AllKinds, NEW i \in 1 .. Len(queue'[l]),
                NEW j \in 1 .. Len(queue'[l]), queue'[l][i] = queue'[l][j]
         PROVE  i = j
    <3>1. PICK m \in 1 .. Len(queue[l]) :
                  /\ queue'[l][i] = queue[l][m]
                  /\ m = IF l = k /\ i >= n THEN i + 1 ELSE i
      BY <2>9
    <3>2. PICK o \in 1 .. Len(queue[l]) :
                  /\ queue'[l][j] = queue[l][o]
                  /\ o = IF l = k /\ j >= n THEN j + 1 ELSE j
      BY <2>9
    <3>3. m = o
      <4>1. queue[l][m] = queue[l][o]
        BY <2>11, <3>1, <3>2
      <4> QED
        BY <4>1 DEF QueueInv
    <3>4. i \in Int /\ j \in Int /\ n \in Int
      OBVIOUS
    <3> QED
      BY <3>1, <3>2, <3>3, <3>4
  <2>12. ASSUME NEW d \in Callers, state'[d] = "QUEUED"
         PROVE  /\ kind'[d] \in AllKinds
                /\ \E i \in 1 .. Len(queue'[kind'[d]]) : queue'[kind'[d]][i] = d
    <3>1. d # c /\ state[d] = "QUEUED" /\ kind'[d] = kind[d]
      BY <2>3, <2>12 DEF CallerType
    <3>2. kind[d] \in AllKinds
      BY <3>1 DEF QueueInv
    <3>3. PICK m \in 1 .. Len(queue[kind[d]]) : queue[kind[d]][m] = d
      BY <3>1 DEF QueueInv
    <3>4. CASE kind[d] = k
      <4>1. m # n /\ m \in Nat /\ n \in Nat /\ m >= 1 /\ n >= 1 /\ m <= Len(queue[k])
            /\ n <= Len(queue[k]) /\ Len(queue[k]) \in Nat
        BY <2>1, <2>2, <3>1, <3>3, <3>4
      <4>2. CASE m < n
        <5>1. m \in 1 .. Len(queue[k]) - 1
          BY <4>1, <4>2
        <5>2. queue'[k][m] = d /\ m \in 1 .. Len(queue'[k])
          BY <2>4, <3>3, <3>4, <4>2, <5>1
        <5> QED
          BY <3>1, <3>2, <3>4, <5>2
      <4>3. CASE m > n
        <5>1. m - 1 \in 1 .. Len(queue[k]) - 1 /\ ~(m - 1 < n) /\ (m - 1) + 1 = m
          BY <4>1, <4>3
        <5>2. queue'[k][m - 1] = d /\ m - 1 \in 1 .. Len(queue'[k])
          BY <2>4, <3>3, <3>4, <5>1
        <5> QED
          BY <3>1, <3>2, <3>4, <5>2
      <4> QED
        BY <4>1, <4>2, <4>3
    <3>5. CASE kind[d] # k
      BY <2>5, <3>1, <3>2, <3>3, <3>5
    <3> QED
      BY <3>4, <3>5
  <2>13. QueueInv'
    BY <2>10, <2>11, <2>12 DEF QueueInv
  <2>14. /\ \A d \in Callers : state[d] = "BUSY" => state'[d] = "BUSY" /\ kind'[d] = kind[d]
         /\ \A d \in Callers : state'[d] = "BUSY" => state[d] = "BUSY"
         /\ own \in Callers \/ master # "sii"
    BY <1>3, <2>3 DEF CallerType, MasterInv
  <2>15. FsmInv' /\ MasterInv' /\ BusyInv'
    BY <1>1, <2>14, PointersInv
  <2> QED
    BY <2>6, <2>7, <2>8, <2>13, <2>15
<1> QED
  BY <1>2, <1>3 DEF Interrupt
-----------------------------------------------------------------------------
(* The slave state machine. *)

LEMMA SameRequests ==
    ASSUME CallerType, CallerInv, QueueInv, UNCHANGED <<pc, kind, state, queue>>
    PROVE  CallerType' /\ CallerInv' /\ QueueInv'
<1>1. CallerType' /\ CallerInv'
  BY DEF CallerType, CallerInv
<1>2. QueueInv'
  BY DEF QueueInv
<1> QED
  BY <1>1, <1>2

LEMMA StateReadyInv ==
    ASSUME Inv, NEW k \in SlaveKinds \cup {"none"}, StateReady(k)
    PROVE  Inv'
<1> USE DEF Inv
<1> DEFINE aborted == {j \in Before(k) : First(j) # NULL}
           taken == aborted \cup ({k} \ {"none"})
           After(r, old) ==
              IF \E j \in aborted : First(j) = r THEN "FAILURE"
              ELSE IF k # "none" /\ First(k) = r THEN "BUSY" ELSE old
           T == {j \in taken : First(j) # App}
<1>1. /\ fsm = "ready"
      /\ k # "none" => First(k) # NULL
      /\ state' = [c \in Callers |-> After(c, state[c])]
      /\ app' = [j \in AppKinds |->
                    IF j = "reg" THEN After(App, app["reg"]) ELSE app[j]]
      /\ queue' = [j \in AllKinds |->
                      IF j \in taken /\ First(j) # App THEN Tail(queue[j])
                                                       ELSE queue[j]]
      /\ request' = [j \in SlaveKinds |-> IF j = k THEN First(k) ELSE request[j]]
      /\ fsm' = IF k # "none" THEN k ELSE IF aborted # {} THEN "idle" ELSE "ready"
      /\ asleep' = {} \/ asleep' = asleep
      /\ UNCHANGED <<pc, kind, calls, slave, config, master, own>>
  BY DEF StateReady, WakeAll, callervars, buildvars, masterfsm
<1>2. Before(k) \subseteq SlaveKinds /\ k \notin Before(k) /\ "none" \notin SlaveKinds
  BY Kind
<1>3. taken \subseteq SlaveKinds /\ T \subseteq AllKinds /\ T \subseteq taken
      /\ \A j \in taken : First(j) # NULL
  BY <1>1, <1>2, Kind
<1>4. ASSUME NEW j \in SlaveKinds, First(j) # NULL, First(j) # App
      PROVE  /\ queue[j] # <<>> /\ First(j) = Head(queue[j])
             /\ First(j) \in Callers /\ kind[First(j)] = j
             /\ state[First(j)] = "QUEUED"
  <2>1. queue[j] # <<>> /\ First(j) = Head(queue[j])
    BY <1>4 DEF First
  <2>2. queue[j] \in Seq(Callers) /\ j \in AllKinds
    BY Kind DEF CallerType
  <2>3. Head(queue[j]) = queue[j][1] /\ 1 \in 1 .. Len(queue[j])
    BY <2>1, <2>2
  <2> QED
    BY <2>1, <2>2, <2>3 DEF QueueInv
<1>5. ASSUME NEW j \in SlaveKinds, First(j) = App
      PROVE  j = "reg" /\ config = "attached"
  <2>1. CASE j = "reg" /\ "reg" \in AppKinds /\ config = "attached" /\ app["reg"] = "QUEUED"
    BY <2>1
  <2>2. CASE ~(j = "reg" /\ "reg" \in AppKinds /\ config = "attached" /\ app["reg"] = "QUEUED")
    <3>1. queue[j] # <<>> /\ Head(queue[j]) = App
      BY <1>5, <2>2, Kind DEF First
    <3>2. queue[j] \in Seq(Callers) /\ j \in AllKinds
      BY Kind DEF CallerType
    <3>3. Head(queue[j]) \in Callers
      BY <3>1, <3>2
    <3> QED
      BY <3>1, <3>3, Kind
  <2> QED
    BY <2>1, <2>2
<1> HIDE DEF aborted
<1>6. aborted \subseteq Before(k) /\ aborted \subseteq SlaveKinds
      /\ \A j \in aborted : First(j) # NULL
  BY <1>2 DEF aborted
<1>7. CallerType' /\ CallerInv' /\ QueueInv'
  <2>1. \A j \in T : queue[j] # <<>> /\ First(j) = Head(queue[j])
    BY <1>3, <1>4
  <2>2. queue' = [j \in AllKinds |-> IF j \in T THEN Tail(queue[j]) ELSE queue[j]]
    BY <1>1
  <2>3. state' \in [Callers -> RequestStates]
    BY <1>1 DEF CallerType, RequestStates
  <2>4. ASSUME NEW c \in Callers
        PROVE  \/ state'[c] = state[c] /\ \A j \in T : c # Head(queue[j])
               \/ state'[c] \in Taken /\ \E j \in T : c = Head(queue[j])
    <3>1. c # App
      BY Kind
    <3>2. CASE \E j \in aborted : First(j) = c
      <4>1. state'[c] = "FAILURE"
        BY <1>1, <3>2
      <4>2. \E j \in T : c = Head(queue[j])
        BY <2>1, <3>1, <3>2
      <4> QED
        BY <4>1, <4>2 DEF Taken
    <3>3. CASE ~(\E j \in aborted : First(j) = c) /\ k # "none" /\ First(k) = c
      <4>1. state'[c] = "BUSY"
        BY <1>1, <3>3
      <4>2. \E j \in T : c = Head(queue[j])
        BY <2>1, <3>1, <3>3
      <4> QED
        BY <4>1, <4>2 DEF Taken
    <3>4. CASE ~(\E j \in aborted : First(j) = c) /\ ~(k # "none" /\ First(k) = c)
      <4>1. state'[c] = state[c]
        BY <1>1, <3>4
      <4>2. \A j \in T : c # Head(queue[j])
        BY <2>1, <3>4
      <4> QED
        BY <4>1, <4>2
    <3> QED
      BY <3>2, <3>3, <3>4
  <2> HIDE DEF T
  <2> QED
    BY <1>1, <1>3, <2>1, <2>2, <2>3, <2>4, PopInv
<1>8. \A j \in SlaveKinds : request[j] = NULL
  <2>1. "ready" \notin SlaveKinds
    BY DEF SlaveKinds
  <2> QED
    BY <1>1, <2>1 DEF FsmInv
<1>9. OtherType'
  <2>1. After(App, app["reg"]) \in RequestStates \/ "reg" \notin AppKinds
    BY DEF OtherType, RequestStates
  <2>2. app' \in [AppKinds -> RequestStates]
    BY <1>1, <2>1 DEF OtherType
  <2> QED
    BY <1>1, <2>2 DEF OtherType
<1>10. k \in SlaveKinds => First(k) \in Callers \cup {App}
  BY <1>1, <1>2, <1>4
<1>11. FsmType'
  <2>1. request' \in [SlaveKinds -> Callers \cup {NULL, App}]
    BY <1>1, <1>8, <1>10
  <2> QED
    BY <1>1, <2>1 DEF FsmType
<1>12. ASSUME NEW c \in Callers, state[c] = "BUSY"
       PROVE  state'[c] = "BUSY"
  <2>1. \A j \in SlaveKinds : First(j) # c
    BY <1>4, <1>12, Kind
  <2>2. ~(\E j \in aborted : First(j) = c) /\ (k = "none" \/ First(k) # c)
    BY <1>6, <2>1
  <2> QED
    BY <1>1, <1>12, <2>2
<1>13. ASSUME k # "none", First(k) \in Callers
       PROVE  kind[First(k)] = k /\ state'[First(k)] = "BUSY"
  <2>1. k \in SlaveKinds /\ First(k) # NULL /\ First(k) # App
    BY <1>13, Kind
  <2>2. kind[First(k)] = k
    BY <1>4, <2>1
  <2>3. ASSUME NEW j \in aborted, First(j) = First(k) PROVE FALSE
    <3>1. j \in SlaveKinds /\ j # k
      BY <1>2, <1>6
    <3>2. kind[First(j)] = j
      BY <1>4, <2>1, <2>3, <3>1
    <3> QED
      BY <2>2, <2>3, <3>1, <3>2
  <2> QED
    BY <1>1, <1>13, <2>2, <2>3
<1>14. FsmInv'
  <2>1. slave # "none"
    BY <1>1 DEF FsmInv
  <2>2. ASSUME NEW j \in SlaveKinds
        PROVE  /\ request'[j] # NULL => fsm' = j
               /\ request'[j] \in Callers =>
                     kind'[request'[j]] = j /\ state'[request'[j]] = "BUSY"
               /\ request'[j] = App => j = "reg" /\ config' # "none"
               /\ fsm' = j /\ j # "reg" => request'[j] # NULL
    <3>1. CASE j = k
      <4>1. k # "none" /\ request'[j] = First(k) /\ fsm' = k /\ First(k) # NULL
        BY <1>1, <1>2, <3>1
      <4>2. First(k) = App => k = "reg" /\ config' # "none"
        BY <1>1, <1>5, <3>1
      <4> QED
        BY <1>1, <1>13, <3>1, <4>1, <4>2
    <3>2. CASE j # k
      <4>1. request'[j] = NULL
        BY <1>1, <1>8, <3>2
      <4>2. fsm' # j
        BY <1>1, <3>2 DEF SlaveKinds
      <4> QED
        BY <4>1, <4>2, Kind
    <3> QED
      BY <3>1, <3>2
  <2> QED
    BY <1>1, <2>1, <2>2 DEF FsmInv
<1>15. MasterInv'
  BY <1>1, <1>12 DEF MasterInv
<1>16. BusyInv'
  <2> SUFFICES ASSUME NEW c \in Callers, state'[c] = "BUSY"
               PROVE  \/ kind'[c] \in {"sii", "eoe"}
                      \/ /\ kind'[c] \in SlaveKinds /\ fsm' = kind'[c]
                         /\ request'[kind'[c]] = c
    BY DEF BusyInv
  <2>1. CASE state[c] = "BUSY"
    <3>1. kind[c] \notin SlaveKinds \/ request[kind[c]] # c
      BY <1>8, Kind
    <3> QED
      BY <1>1, <2>1, <3>1 DEF BusyInv
  <2>2. CASE state[c] # "BUSY"
    <3>1. k # "none" /\ First(k) = c
      BY <1>1, <2>2
    <3>2. kind[c] = k
      BY <1>13, <3>1
    <3> QED
      BY <1>1, <3>1, <3>2
  <2> QED
    BY <2>1, <2>2
<1> QED
  BY <1>7, <1>9, <1>11, <1>14, <1>15, <1>16

\* The request of the slave FSM is answered, and its pointer reset.
LEMMA StateRequestInv ==
    ASSUME Inv, NEW k \in SlaveKinds, StateRequest(k)
    PROVE  Inv'
<1> USE DEF Inv
<1>1. /\ fsm = k /\ fsm' = "ready" /\ request' = [request EXCEPT ![k] = NULL]
      /\ UNCHANGED <<queue, pc, kind, calls, slave, config, master, own>>
  BY DEF StateRequest, callervars, buildvars, masterfsm
<1>2. /\ \A j \in SlaveKinds : request'[j] = NULL
      /\ request' \in [SlaveKinds -> {NULL}]
  BY <1>1 DEF FsmInv, FsmType
<1>3. /\ app' \in [AppKinds -> RequestStates] /\ asleep' \subseteq Callers
      /\ \E result \in {"SUCCESS", "FAILURE"} :
            state' = [c \in Callers |-> IF c = request[k] THEN result ELSE state[c]]
  <2>1. CASE request[k] = NULL /\ UNCHANGED <<state, app, asleep>>
    <3>1. state' = [c \in Callers |-> IF c = request[k] THEN "FAILURE" ELSE state[c]]
      BY <2>1, Kind DEF CallerType
    <3> QED
      BY <2>1, <3>1 DEF OtherType
  <2>2. CASE \E result \in {"SUCCESS", "FAILURE"} : Answer(request[k], k, result)
    <3>1. PICK result \in {"SUCCESS", "FAILURE"} : Answer(request[k], k, result)
      BY <2>2
    <3>2. app' \in [AppKinds -> RequestStates]
      BY <3>1 DEF Answer, OtherType, RequestStates
    <3> QED
      BY <3>1, <3>2 DEF Answer, WakeAll
  <2> QED
    BY <2>1, <2>2 DEF StateRequest
<1>4. PICK result \in {"SUCCESS", "FAILURE"} :
            state' = [c \in Callers |-> IF c = request[k] THEN result ELSE state[c]]
  BY <1>3
<1>5. CallerType' /\ CallerInv' /\ QueueInv'
  <2>2. state' \in [Callers -> RequestStates]
    BY <1>4 DEF CallerType, RequestStates
  <2>3. \A c \in Callers :
              \/ state'[c] = state[c]
              \/ state'[c] \in Taken /\ state[c] = "BUSY"
    BY <1>4 DEF FsmInv, Taken
  <2> QED
    BY <1>1, <2>2, <2>3, AnsweredInv
<1>6. OtherType'
  BY <1>1, <1>3 DEF OtherType
<1>7. FsmType'
  BY <1>1, <1>2 DEF FsmType
<1>8. FsmInv'
  <2>1. slave' # "none" /\ "ready" \notin SlaveKinds
    BY <1>1 DEF FsmInv, SlaveKinds
  <2> QED
    BY <1>1, <1>2, <2>1, Kind DEF FsmInv
<1>9. MasterInv'
  <2>1. master = "sii" => state'[own] = state[own]
    <3>1. ASSUME master = "sii", own = request[k] PROVE FALSE
      <4>1. kind[own] = k /\ kind[own] = "sii"
        BY <3>1 DEF FsmInv, MasterInv
      <4> QED
        BY <4>1 DEF SlaveKinds
    <3> QED
      BY <1>4, <3>1 DEF MasterInv
  <2> QED
    BY <1>1, <2>1 DEF MasterInv
<1>10. BusyInv'
  <2> SUFFICES ASSUME NEW c \in Callers, state'[c] = "BUSY"
               PROVE  kind'[c] \in {"sii", "eoe"}
    BY DEF BusyInv
  <2>1. c # request[k] /\ state[c] = "BUSY"
    BY <1>4
  <2>2. ~(fsm = kind[c] /\ request[kind[c]] = c)
    BY <1>1, <2>1
  <2> QED
    BY <1>1, <2>1, <2>2 DEF BusyInv
<1> QED
  BY <1>5, <1>6, <1>7, <1>8, <1>9, <1>10
-----------------------------------------------------------------------------
(* Slaves and configuration are cleared. *)

LEMMA ClearSlavesInv ==
    ASSUME Inv, ClearSlaves, UNCHANGED <<pc, kind, calls, app>>,
           master' = "start", own' = NULL
    PROVE  Inv'
<1> USE DEF Inv
<1>1. /\ state' = [c \in Callers |->
                    IF \/ kind[c] # "emerg" /\ state[c] = "QUEUED"
                       \/ \E k \in SlaveKinds \ {"eoe"} : request[k] = c
                    THEN "FAILURE" ELSE state[c]]
      /\ queue' = [k \in AllKinds |-> IF k = "emerg" THEN queue[k] ELSE <<>>]
      /\ request' = [k \in SlaveKinds |-> NULL]
      /\ fsm' = "none" /\ slave' = "none"
      /\ config' = IF config = "attached" THEN "detached" ELSE config
      /\ asleep' = {}
  BY DEF ClearSlaves, WakeAll
<1>2. \A c \in Callers : \A k \in SlaveKinds :
         request[k] = c => state[c] = "BUSY" /\ kind[c] = k
  BY DEF FsmInv
<1>3. CallerType'
  <2>1. queue' \in [AllKinds -> Seq(Callers)]
    BY <1>1 DEF CallerType
  <2>2. state' \in [Callers -> RequestStates]
    BY <1>1 DEF CallerType, RequestStates
  <2> QED
    BY <2>1, <2>2 DEF CallerType
<1>4. OtherType' /\ FsmType'
  BY <1>1 DEF OtherType, FsmType, MasterStates
<1>5. \A c \in Callers : state'[c] = "FAILURE" \/ state'[c] = state[c]
  BY <1>1
<1>6. CallerInv'
  <2> SUFFICES ASSUME NEW c \in Callers
               PROVE  /\ pc'[c] = "idle" => state'[c] = "INIT" /\ kind'[c] = "none"
                      /\ pc'[c] # "idle" => state'[c] # "INIT" /\ kind'[c] \in Kinds
                      /\ pc'[c] = "wait_busy" => state'[c] # "QUEUED"
    BY DEF CallerInv
  <2>1. state[c] = "INIT" => state'[c] = "INIT"
    BY <1>1, <1>2
  <2> QED
    BY <1>5, <2>1 DEF CallerInv
<1>7. \A c \in Callers : state'[c] = "QUEUED" => state[c] = "QUEUED" /\ kind[c] = "emerg"
  BY <1>1
<1>8. \A c \in Callers : kind[c] = "emerg" => state'[c] = state[c]
  <2>1. "emerg" \notin SlaveKinds
    BY DEF SlaveKinds
  <2> QED
    BY <1>1, <1>2, <2>1
<1>9. /\ "emerg" \in AllKinds /\ queue'["emerg"] = queue["emerg"]
      /\ \A k \in AllKinds \ {"emerg"} : Len(queue'[k]) = 0
  BY <1>1 DEF AllKinds
<1>10. QueueInv'
  <2>1. ASSUME NEW k \in AllKinds, NEW i \in 1 .. Len(queue'[k])
        PROVE  /\ kind'[queue'[k][i]] = k /\ state'[queue'[k][i]] = "QUEUED"
               /\ \A j \in 1 .. Len(queue'[k]) : queue'[k][i] = queue'[k][j] => i = j
    <3>1. k = "emerg" /\ queue'[k] = queue[k] /\ i \in 1 .. Len(queue[k])
      BY <1>9
    <3>2. queue[k][i] \in Callers
      BY <3>1 DEF CallerType
    <3> QED
      BY <1>8, <3>1, <3>2 DEF QueueInv
  <2>2. ASSUME NEW c \in Callers, state'[c] = "QUEUED"
        PROVE  /\ kind'[c] \in AllKinds
               /\ \E i \in 1 .. Len(queue'[kind'[c]]) : queue'[kind'[c]][i] = c
    BY <1>7, <1>9, <2>2 DEF QueueInv
  <2> QED
    BY <2>1, <2>2 DEF QueueInv
<1>11. FsmInv'
  <2>1. \A k \in SlaveKinds : request'[k] = NULL /\ fsm' # k
    BY <1>1 DEF SlaveKinds
  <2> QED
    BY <1>1, <2>1, Kind DEF FsmInv
<1>12. MasterInv'
  BY Kind DEF MasterInv
<1>13. BusyInv'
  <2> SUFFICES ASSUME NEW c \in Callers, state'[c] = "BUSY"
               PROVE  kind'[c] \in {"sii", "eoe"}
    BY DEF BusyInv
  <2>1. state[c] = "BUSY" /\ \A k \in SlaveKinds \ {"eoe"} : request[k] # c
    BY <1>1
  <2> QED
    BY <2>1 DEF BusyInv
<1> QED
  BY <1>3, <1>4, <1>6, <1>10, <1>11, <1>12, <1>13

LEMMA CreateConfigInv ==
    ASSUME Inv, CreateConfig
    PROVE  Inv'
<1> USE DEF Inv
<1>1. /\ config' \in {"detached", "attached"}
      /\ UNCHANGED <<pc, kind, calls, asleep, state, app, queue, slave, fsm,
                     request, master, own>>
  BY DEF CreateConfig, callervars, reqvars, slavefsm, masterfsm
<1>2. CallerType' /\ CallerInv' /\ QueueInv'
  BY <1>1, SameRequests
<1>3. OtherType' /\ FsmType'
  BY <1>1 DEF OtherType, FsmType
<1>4. FsmInv'
  BY <1>1 DEF FsmInv
<1>5. MasterInv'
  BY <1>1 DEF MasterInv
<1>6. BusyInv'
  BY <1>1 DEF BusyInv
<1> QED
  BY <1>2, <1>3, <1>4, <1>5, <1>6

LEMMA ClearConfigInv ==
    ASSUME Inv, ClearConfig
    PROVE  Inv'
<1> USE DEF Inv
<1>1. /\ config' = "none" /\ app' = [k \in AppKinds |-> "INIT"]
      /\ request' = [k \in SlaveKinds |-> IF request[k] = App THEN NULL ELSE request[k]]
      /\ own' = IF master = "sdo" THEN NULL ELSE own
      /\ UNCHANGED <<pc, kind, calls, asleep, state, queue, slave, fsm, master>>
  BY DEF ClearConfig, callervars
<1>2. CallerType' /\ CallerInv' /\ QueueInv'
  BY <1>1, SameRequests
<1>3. OtherType'
  BY <1>1 DEF OtherType, RequestStates
<1>4. FsmType'
  <2>1. request' \in [SlaveKinds -> Callers \cup {NULL, App}]
    BY <1>1 DEF FsmType
  <2> QED
    BY <1>1, <2>1 DEF FsmType
<1>5. \A k \in SlaveKinds :
         /\ request[k] = App => request'[k] = NULL /\ k = "reg"
         /\ request[k] # App => request'[k] = request[k]
  BY <1>1 DEF FsmInv
<1>6. FsmInv'
  <2> SUFFICES ASSUME NEW k \in SlaveKinds
               PROVE  /\ request'[k] # NULL => fsm' = k
                      /\ request'[k] \in Callers =>
                            kind'[request'[k]] = k /\ state'[request'[k]] = "BUSY"
                      /\ request'[k] # App
                      /\ fsm' = k /\ k # "reg" => request'[k] # NULL
    BY <1>1 DEF FsmInv
  <2>1. CASE request[k] = App
    BY <1>5, <2>1, Kind
  <2>2. CASE request[k] # App
    <3>1. request'[k] = request[k]
      BY <1>5, <2>2
    <3> QED
      BY <1>1, <2>2, <3>1 DEF FsmInv
  <2> QED
    BY <2>1, <2>2
<1>7. MasterInv'
  BY <1>1, Kind DEF MasterInv
<1>8. BusyInv'
  <2> SUFFICES ASSUME NEW c \in Callers, state[c] = "BUSY"
               PROVE  \/ kind[c] \in {"sii", "eoe"}
                      \/ /\ kind[c] \in SlaveKinds /\ fsm = kind[c]
                         /\ request'[kind[c]] = c
    BY <1>1 DEF BusyInv
  <2> QED
    BY <1>5, Kind DEF BusyInv
<1> QED
  BY <1>2, <1>3, <1>4, <1>6, <1>7, <1>8

\* The application makes a request.
LEMMA AppRequestInv ==
    ASSUME Inv, AppRequest
    PROVE  Inv'
<1> USE DEF Inv
<1>1. /\ calls < MaxCalls /\ calls' = calls + 1
      /\ \E k \in AppKinds : app' = [app EXCEPT ![k] = "QUEUED"]
      /\ UNCHANGED <<pc, kind, asleep, state, queue, slave, config, fsm, request,
                     master, own>>
  BY DEF AppRequest, buildvars, slavefsm, masterfsm
<1>2. CallerType' /\ CallerInv' /\ QueueInv'
  BY <1>1, SameRequests
<1>3. OtherType'
  <2>1. app' \in [AppKinds -> RequestStates]
    BY <1>1 DEF OtherType, RequestStates
  <2> QED
    BY <1>1, <2>1, RequestsAssumption DEF OtherType
<1>4. FsmType'
  BY <1>1 DEF FsmType
<1>5. own \in Callers \/ master # "sii"
  BY DEF MasterInv
<1>6. FsmInv' /\ MasterInv' /\ BusyInv'
  BY <1>1, <1>5, PointersInv
<1> QED
  BY <1>2, <1>3, <1>4, <1>6

LEMMA SlaveStateInv ==
    ASSUME Inv, SlaveState
    PROVE  Inv'
<1> USE DEF Inv
<1>1. /\ slave # "none" /\ slave' \in {"INIT", "ERROR", "OK"}
      /\ UNCHANGED <<pc, kind, calls, asleep, state, app, queue, config, fsm,
                     request, master, own>>
  BY DEF SlaveState, callervars, reqvars, slavefsm, masterfsm
<1>2. CallerType' /\ CallerInv' /\ QueueInv'
  BY <1>1, SameRequests
<1>3. OtherType' /\ FsmType'
  BY <1>1 DEF OtherType, FsmType
<1>4. FsmInv'
  BY <1>1 DEF FsmInv
<1>5. MasterInv'
  BY <1>1 DEF MasterInv
<1>6. BusyInv'
  BY <1>1 DEF BusyInv
<1> QED
  BY <1>2, <1>3, <1>4, <1>5, <1>6
-----------------------------------------------------------------------------
(* The master state machine. *)

\* The slave FSM does not notice what happens to SII requests.
LEMMA SiiInv ==
    ASSUME FsmInv, BusyInv, UNCHANGED <<kind, slave, config, request>>,
           fsm' = fsm \/ (fsm = "idle" /\ fsm' = "ready"),
           \A c \in Callers : kind[c] # "sii" => state'[c] = state[c]
    PROVE  FsmInv' /\ BusyInv'
<1>1. "sii" \notin SlaveKinds /\ "idle" \notin SlaveKinds /\ "ready" \notin SlaveKinds
  BY DEF SlaveKinds
<1>2. FsmInv'
  BY <1>1 DEF FsmInv
<1>3. BusyInv'
  BY <1>1 DEF BusyInv
<1> QED
  BY <1>2, <1>3

LEMMA MasterEmergencyInv ==
    ASSUME Inv, MasterEmergency
    PROVE  Inv'
<1> USE DEF Inv
<1> DEFINE r == Head(queue["emerg"])
<1>1. /\ queue["emerg"] # <<>>
      /\ queue' = [queue EXCEPT !["emerg"] = Tail(@)]
      /\ UNCHANGED <<pc, kind, calls, slave, config, fsm, request, master, own>>
  BY DEF MasterEmergency, callervars, buildvars, slavefsm, masterfsm
<1>2. PICK result \in {"SUCCESS", "FAILURE"} : Answer(r, "emerg", result)
  BY DEF MasterEmergency
<1>3. "emerg" \in AllKinds /\ queue["emerg"] \in Seq(Callers)
  BY DEF AllKinds, CallerType
<1>4. r = queue["emerg"][1] /\ 1 \in 1 .. Len(queue["emerg"]) /\ r \in Callers
  BY <1>1, <1>3
<1>5. kind[r] = "emerg" /\ state[r] = "QUEUED"
  BY <1>3, <1>4 DEF QueueInv
<1> HIDE DEF r
<1>6. state' = [c \in Callers |-> IF c = r THEN result ELSE state[c]] /\ asleep' = {}
  BY <1>2 DEF Answer, WakeAll
<1>7. CallerType' /\ CallerInv' /\ QueueInv'
  <2> DEFINE T == {"emerg"}
  <2>1. T \subseteq AllKinds /\ \A j \in T : queue[j] # <<>>
    BY <1>1, <1>3
  <2>2. queue' = [j \in AllKinds |-> IF j \in T THEN Tail(queue[j]) ELSE queue[j]]
    BY <1>1 DEF CallerType
  <2>3. state' \in [Callers -> RequestStates]
    BY <1>6 DEF CallerType, RequestStates
  <2>4. \A c \in Callers :
              \/ state'[c] = state[c] /\ \A j \in T : c # Head(queue[j])
              \/ state'[c] \in Taken /\ \E j \in T : c = Head(queue[j])
    BY <1>6 DEF r, Taken
  <2> HIDE DEF T
  <2> QED
    BY <1>1, <2>1, <2>2, <2>3, <2>4, PopInv
<1>8. OtherType'
  <2>1. app' \in [AppKinds -> RequestStates]
    BY <1>2 DEF Answer, OtherType, RequestStates
  <2> QED
    BY <1>1, <1>6, <2>1 DEF OtherType
<1>9. FsmType'
  BY <1>1 DEF FsmType
<1>10. /\ own \in Callers \/ master # "sii"
       /\ \A d \in Callers : state[d] = "BUSY" => state'[d] = "BUSY" /\ kind'[d] = kind[d]
       /\ \A d \in Callers : state'[d] = "BUSY" => state[d] = "BUSY"
  BY <1>1, <1>5, <1>6 DEF MasterInv
<1>11. FsmInv' /\ MasterInv' /\ BusyInv'
  BY <1>1, <1>10, PointersInv
<1> QED
  BY <1>7, <1>8, <1>9, <1>11

\* The master FSM goes on, and works on no request.
LEMMA MasterStepInv ==
    ASSUME Inv, master \in {"start", "broadcast", "read_state"},
           master' \in {"start", "broadcast", "read_state"},
           UNCHANGED <<pc, kind, calls, asleep, state, app, queue, slave, config,
                       fsm, request, own>>
    PROVE  Inv'
<1> USE DEF Inv
<1>1. CallerType' /\ CallerInv' /\ QueueInv'
  BY SameRequests
<1>2. OtherType' /\ FsmType'
  BY DEF OtherType, FsmType, MasterStates
<1>3. FsmInv'
  BY DEF FsmInv
<1>4. MasterInv'
  BY Kind DEF MasterInv
<1>5. BusyInv'
  BY DEF BusyInv
<1> QED
  BY <1>1, <1>2, <1>3, <1>4, <1>5

LEMMA MasterScanInv ==
    ASSUME Inv, MasterScan
    PROVE  Inv'
<1> USE DEF Inv
<1>1. /\ master = "broadcast" /\ slave = "none" /\ slave' \in {"INIT", "OK"}
      /\ fsm' = "idle" /\ master' = "start"
      /\ config' = IF config = "detached" THEN "attached" ELSE config
      /\ UNCHANGED <<pc, kind, calls, asleep, state, app, queue, request, own>>
  BY DEF MasterScan, callervars, reqvars
<1>2. CallerType' /\ CallerInv' /\ QueueInv'
  BY <1>1, SameRequests
<1>3. OtherType' /\ FsmType'
  BY <1>1 DEF OtherType, FsmType, MasterStates
<1>4. fsm = "none" /\ "none" \notin SlaveKinds /\ "idle" \notin SlaveKinds
  BY <1>1 DEF FsmInv, SlaveKinds
<1>5. \A k \in SlaveKinds : request[k] = NULL
  BY <1>4 DEF FsmInv
<1>6. FsmInv'
  BY <1>1, <1>4, <1>5, Kind DEF FsmInv
<1>7. MasterInv'
  BY <1>1, Kind DEF MasterInv
<1>8. BusyInv'
  BY <1>1, <1>4 DEF BusyInv
<1> QED
  BY <1>2, <1>3, <1>6, <1>7, <1>8

\* An SII request is taken, when one is linked, after the last one is done.
LEMMA ProcessSiiInv ==
    ASSUME Inv, NEW states \in [Callers -> RequestStates], ProcessSii(states),
           UNCHANGED <<pc, kind, config>>,
           \A c \in Callers :
              \/ states[c] = state[c]
              \/ states[c] \in Taken /\ state[c] = "BUSY" /\ kind[c] = "sii"
    PROVE  /\ CallerType' /\ CallerInv' /\ QueueInv' /\ MasterInv'
           /\ master' \in MasterStates
           /\ \A c \in Callers : kind[c] # "sii" => state'[c] = state[c]
<1> USE DEF Inv
<1>1. CASE queue["sii"] = <<>>
  <2>1. master' = "start" /\ own' = NULL /\ state' = states /\ UNCHANGED queue
    BY <1>1 DEF ProcessSii
  <2>2. CallerType' /\ CallerInv' /\ QueueInv'
    BY <2>1, AnsweredInv
  <2>3. MasterInv' /\ master' \in MasterStates
    BY <2>1, Kind DEF MasterInv, MasterStates
  <2> QED
    BY <2>1, <2>2, <2>3
<1>2. CASE queue["sii"] # <<>>
  <2> DEFINE r == Head(queue["sii"])
  <2>1. /\ master' = "sii" /\ own' = r
        /\ state' = [states EXCEPT ![r] = "BUSY"]
        /\ queue' = [queue EXCEPT !["sii"] = Tail(@)]
    BY <1>2 DEF ProcessSii
  <2>2. "sii" \in AllKinds /\ queue["sii"] \in Seq(Callers)
    BY DEF AllKinds, CallerType
  <2>3. r = queue["sii"][1] /\ 1 \in 1 .. Len(queue["sii"]) /\ r \in Callers
    BY <1>2, <2>2
  <2>4. kind[r] = "sii" /\ state[r] = "QUEUED"
    BY <2>2, <2>3 DEF QueueInv
  <2> HIDE DEF r
  <2>5. state'[r] = "BUSY" /\ \A c \in Callers \ {r} : state'[c] = states[c]
    BY <2>1, <2>3
  <2>6. CallerType' /\ CallerInv' /\ QueueInv'
    <3> DEFINE T == {"sii"}
    <3>1. T \subseteq AllKinds /\ \A j \in T : queue[j] # <<>>
      BY <1>2, <2>2
    <3>2. queue' = [j \in AllKinds |-> IF j \in T THEN Tail(queue[j]) ELSE queue[j]]
      BY <2>1 DEF CallerType
    <3>3. state' \in [Callers -> RequestStates]
      BY <2>1 DEF RequestStates
    <3>4. \A c \in Callers :
              \/ state'[c] = state[c] /\ \A j \in T : c # Head(queue[j])
              \/ state'[c] \in Taken /\ state[c] = "BUSY"
              \/ state'[c] \in Taken /\ \E j \in T : c = Head(queue[j])
      <4>1. \A c \in Callers : c = r => state'[c] \in Taken /\ \E j \in T : c = Head(queue[j])
        BY <2>5 DEF r, Taken
      <4>2. \A c \in Callers : c # r => \A j \in T : c # Head(queue[j])
        BY DEF r
      <4> QED
        BY <2>5, <4>1, <4>2
    <3> HIDE DEF T
    <3> QED
      BY <3>1, <3>2, <3>3, <3>4, PopInv
  <2>7. MasterInv' /\ master' \in MasterStates
    BY <2>1, <2>3, <2>4, <2>5, Kind DEF MasterInv, MasterStates
  <2> QED
    BY <2>4, <2>5, <2>6, <2>7
<1> QED
  BY <1>1, <1>2

\* The application's request that the master FSM goes on with.
LEMMA AppType ==
    ASSUME NEW apps \in [AppKinds -> RequestStates]
    PROVE  /\ NoAppRequest(apps) => app' \in [AppKinds -> RequestStates]
           /\ ProcessAppRequest(apps) =>
                 /\ app' \in [AppKinds -> RequestStates]
                 /\ master' \in {"sdo", "soe"} /\ master' \in AppKinds
                 /\ own' = App /\ config # "none"
<1>1. NoAppRequest(apps) => app' \in [AppKinds -> RequestStates]
  BY DEF NoAppRequest, RequestStates
<1>2. ASSUME ProcessAppRequest(apps)
      PROVE  /\ app' \in [AppKinds -> RequestStates]
             /\ master' \in {"sdo", "soe"} /\ master' \in AppKinds
             /\ own' = App /\ config # "none"
  <2>1. PICK k \in AppQueued :
            /\ app' = [j \in AppKinds |-> IF j = k THEN "BUSY"
                          ELSE IF j \in AppQueued /\ k = "soe" THEN "FAILURE" ELSE apps[j]]
            /\ master' = k /\ own' = App
    BY <1>2 DEF ProcessAppRequest
  <2>2. app' \in [AppKinds -> RequestStates]
    BY <2>1 DEF RequestStates
  <2>3. k \in {"sdo", "soe"} /\ k \in AppKinds /\ config # "none"
    BY RequestsAssumption DEF AppQueued
  <2> QED
    BY <2>1, <2>2, <2>3
<1> QED
  BY <1>1, <1>2

LEMMA MasterReadInv ==
    ASSUME Inv, MasterRead
    PROVE  Inv'
<1> USE DEF Inv
<1>1. /\ master = "read_state" /\ own = NULL
      /\ UNCHANGED <<pc, kind, calls, asleep, slave, config, request>>
  BY DEF MasterRead, MasterInv, callervars, buildvars
<1>2. app \in [AppKinds -> RequestStates]
  BY DEF OtherType
<1>3. CASE ProcessAppRequest(app) /\ UNCHANGED <<fsm, state, queue>>
  <2>1. /\ app' \in [AppKinds -> RequestStates]
        /\ master' \in {"sdo", "soe"} /\ master' \in AppKinds
        /\ own' = App /\ config # "none"
    BY <1>2, <1>3, AppType
  <2>2. CallerType' /\ CallerInv' /\ QueueInv'
    BY <1>1, <1>3, SameRequests
  <2>3. OtherType' /\ FsmType'
    BY <1>1, <1>3, <2>1 DEF OtherType, FsmType, MasterStates
  <2>4. FsmInv' /\ BusyInv'
    BY <1>1, <1>3, SiiInv
  <2>5. MasterInv'
    BY <1>1, <2>1, Kind DEF MasterInv
  <2> QED
    BY <2>2, <2>3, <2>4, <2>5
<1>4. CASE /\ NoAppRequest(app)
           /\ fsm' = IF fsm = "idle" THEN "ready" ELSE fsm
           /\ \/ ProcessSii(state)
              \/ master' = "start" /\ UNCHANGED <<own, state, queue>>
  <2>1. app' \in [AppKinds -> RequestStates]
    BY <1>2, <1>4, AppType
  <2>2. /\ CallerType' /\ CallerInv' /\ QueueInv' /\ MasterInv'
        /\ master' \in MasterStates
        /\ \A c \in Callers : kind[c] # "sii" => state'[c] = state[c]
    <3>1. CASE ProcessSii(state)
      <4>1. state \in [Callers -> RequestStates]
        BY DEF CallerType
      <4> QED
        BY <1>1, <3>1, <4>1, ProcessSiiInv
    <3>2. CASE master' = "start" /\ UNCHANGED <<own, state, queue>>
      <4>1. CallerType' /\ CallerInv' /\ QueueInv'
        BY <1>1, <3>2, SameRequests
      <4>2. MasterInv' /\ master' \in MasterStates
        BY <1>1, <3>2, Kind DEF MasterInv, MasterStates
      <4> QED
        BY <3>2, <4>1, <4>2
    <3> QED
      BY <1>4, <3>1, <3>2
  <2>3. OtherType' /\ FsmType'
    BY <1>1, <1>4, <2>1, <2>2 DEF OtherType, FsmType
  <2>4. FsmInv' /\ BusyInv'
    BY <1>1, <1>4, <2>2, SiiInv
  <2> QED
    BY <2>2, <2>3, <2>4
<1> QED
  BY <1>3, <1>4 DEF MasterRead

LEMMA MasterSiiInv ==
    ASSUME Inv, MasterSii
    PROVE  Inv'
<1> USE DEF Inv
<1>1. /\ master = "sii" /\ asleep' = {}
      /\ UNCHANGED <<pc, kind, calls, app, slave, config, fsm, request>>
  BY DEF MasterSii, WakeAll, callervars, buildvars, slavefsm
<1>2. own \in Callers /\ kind[own] = "sii" /\ state[own] = "BUSY"
  BY <1>1 DEF MasterInv
<1>3. /\ CallerType' /\ CallerInv' /\ QueueInv' /\ MasterInv'
      /\ master' \in MasterStates
      /\ \A c \in Callers : kind[c] # "sii" => state'[c] = state[c]
  <2>1. CASE /\ state' = [state EXCEPT ![own] = "FAILURE"]
             /\ master' = "start" /\ own' = NULL /\ UNCHANGED queue
    <3>1. state' \in [Callers -> RequestStates]
      BY <2>1 DEF CallerType, RequestStates
    <3>2. \A c \in Callers :
              \/ state'[c] = state[c]
              \/ state'[c] \in Taken /\ state[c] = "BUSY" /\ kind[c] = "sii"
      BY <1>2, <2>1 DEF CallerType, Taken
    <3>3. CallerType' /\ CallerInv' /\ QueueInv'
      BY <1>1, <2>1, <3>1, <3>2, AnsweredInv
    <3>4. MasterInv' /\ master' \in MasterStates
      BY <2>1, Kind DEF MasterInv, MasterStates
    <3> QED
      BY <3>2, <3>3, <3>4
  <2>2. CASE ProcessSii([state EXCEPT ![own] = "SUCCESS"])
    <3> DEFINE states == [state EXCEPT ![own] = "SUCCESS"]
    <3>1. states \in [Callers -> RequestStates]
      BY DEF CallerType, RequestStates
    <3>2. \A c \in Callers :
              \/ states[c] = state[c]
              \/ states[c] \in Taken /\ state[c] = "BUSY" /\ kind[c] = "sii"
      BY <1>2 DEF CallerType, Taken
    <3>3. ProcessSii(states)
      BY <2>2
    <3> HIDE DEF states
    <3> QED
      BY <1>1, <3>1, <3>2, <3>3, ProcessSiiInv
  <2> QED
    BY <2>1, <2>2 DEF MasterSii
<1>4. OtherType' /\ FsmType'
  BY <1>1, <1>3 DEF OtherType, FsmType
<1>5. FsmInv' /\ BusyInv'
  BY <1>1, <1>3, SiiInv
<1> QED
  BY <1>3, <1>4, <1>5

LEMMA MasterAppRequestInv ==
    ASSUME Inv, MasterAppRequest
    PROVE  Inv'
<1> USE DEF Inv
<1>1. /\ master \in {"sdo", "soe"}
      /\ UNCHANGED <<pc, kind, calls, state, queue, slave, config, fsm, request>>
  BY DEF MasterAppRequest, callervars, buildvars, slavefsm
<1>2. /\ app' \in [AppKinds -> RequestStates] /\ asleep' \subseteq Callers
      /\ \/ /\ master' \in {"sdo", "soe"} /\ master' \in AppKinds
            /\ own' = App /\ config # "none"
         \/ master' = "start" /\ own' = NULL
  <2> DEFINE apps == [app EXCEPT ![master] = "SUCCESS"]
  <2>1. app \in [AppKinds -> RequestStates] /\ apps \in [AppKinds -> RequestStates]
        /\ [app EXCEPT ![master] = "FAILURE"] \in [AppKinds -> RequestStates]
        /\ asleep \subseteq Callers
    BY DEF OtherType, RequestStates
  <2>2. CASE ProcessAppRequest(apps) /\ WakeAll
    BY <2>1, <2>2, AppType DEF WakeAll
  <2>3. CASE NoAppRequest(apps) /\ master' = "start" /\ own' = NULL /\ WakeAll
    BY <2>1, <2>3, AppType DEF WakeAll
  <2>4. CASE /\ IF own = NULL
                THEN UNCHANGED <<app, asleep>>
                ELSE app' = [app EXCEPT ![master] = "FAILURE"] /\ WakeAll
             /\ master' = "start" /\ own' = NULL
    BY <2>1, <2>4 DEF WakeAll
  <2> QED
    BY <2>2, <2>3, <2>4 DEF MasterAppRequest
<1>3. CallerType' /\ CallerInv' /\ QueueInv'
  BY <1>1, SameRequests
<1>4. OtherType' /\ FsmType'
  BY <1>1, <1>2 DEF OtherType, FsmType, MasterStates
<1>5. FsmInv' /\ BusyInv'
  BY <1>1, SiiInv
<1>6. MasterInv'
  BY <1>1, <1>2, Kind DEF MasterInv
<1> QED
  BY <1>3, <1>4, <1>5, <1>6

-----------------------------------------------------------------------------
LEMMA NextInv ==
    ASSUME Inv, [Next]_vars
    PROVE  Inv'
<1>1. ASSUME NEW c \in Callers, Caller(c) PROVE Inv'
  BY <1>1, ScheduleInv, WaitQueuedInv, WaitBusyInv, InterruptInv DEF Caller
<1>2. CASE SlaveFsm
  BY <1>2, StateReadyInv, StateRequestInv DEF SlaveFsm
<1>3. CASE MasterEmergency
  BY <1>3, MasterEmergencyInv
<1>4. CASE MasterStart \/ MasterBroadcast \/ MasterReadFails
  <2>1. /\ master \in {"start", "broadcast", "read_state"}
        /\ master' \in {"start", "broadcast", "read_state"}
        /\ UNCHANGED <<pc, kind, calls, asleep, state, app, queue, slave, config,
                       fsm, request, own>>
    BY <1>4 DEF MasterStart, MasterBroadcast, MasterReadFails, callervars, reqvars,
                buildvars, slavefsm
  <2> QED
    BY <2>1, MasterStepInv
<1>5. CASE MasterLinkDown \/ MasterRescan \/ LeaveIdle
  <2>1. ClearSlaves /\ UNCHANGED <<pc, kind, calls, app>> /\ master' = "start"
    BY <1>5 DEF MasterLinkDown, MasterRescan, LeaveIdle, callervars
  <2>2. own' = NULL
    BY <1>5 DEF MasterLinkDown, MasterRescan, LeaveIdle, Inv, MasterInv
  <2> QED
    BY <2>1, <2>2, ClearSlavesInv
<1>6. CASE MasterScan
  BY <1>6, MasterScanInv
<1>7. CASE MasterRead
  BY <1>7, MasterReadInv
<1>8. CASE MasterSii
  BY <1>8, MasterSiiInv
<1>9. CASE MasterAppRequest
  BY <1>9, MasterAppRequestInv
<1>10. CASE SlaveState
  BY <1>10, SlaveStateInv
<1>11. CASE CreateConfig
  BY <1>11, CreateConfigInv
<1>12. CASE ClearConfig
  BY <1>12, ClearConfigInv
<1>13. CASE AppRequest
  BY <1>13, AppRequestInv
<1>14. CASE UNCHANGED vars
  <2>1. UNCHANGED <<pc, kind, asleep, state, app, calls, queue, slave, config, fsm,
                    request, master, own>>
    BY <1>14 DEF vars
  <2>2. CallerType' /\ CallerInv' /\ QueueInv'
    BY <2>1, SameRequests DEF Inv
  <2>3. OtherType' /\ FsmType'
    BY <2>1 DEF Inv, OtherType, FsmType
  <2>4. FsmInv' /\ MasterInv' /\ BusyInv'
    BY <2>1 DEF Inv, FsmInv, MasterInv, BusyInv
  <2> QED
    BY <2>2, <2>3, <2>4 DEF Inv
<1> QED
  BY <1>1, <1>2, <1>3, <1>4, <1>5, <1>6, <1>7, <1>8, <1>9, <1>10, <1>11, <1>12,
     <1>13, <1>14 DEF Next, MasterFsm

LEMMA Invariant == Spec => []Inv
<1>1. Init => Inv
  BY InitInv
<1>2. Inv /\ [Next]_vars => Inv'
  BY NextInv
<1> QED
  BY <1>1, <1>2, PTL DEF Spec
-----------------------------------------------------------------------------
(* The theorems. *)

\* Every variable has its type; in particular the master FSM has a caller's
\* request while it works on an SII request, none while it looks for work.
THEOREM TypeCorrect == Spec => []TypeOK
<1>1. Inv => TypeOK
  <2> SUFFICES ASSUME Inv PROVE TypeOK
    OBVIOUS
  <2>1. own \in CASE master = "sii" -> Callers
                  [] master \in {"sdo", "soe"} -> {App, NULL}
                  [] OTHER -> {NULL}
    BY DEF Inv, MasterInv
  <2> QED
    BY <2>1 DEF Inv, CallerType, OtherType, FsmType, MasterStates, TypeOK
<1> QED
  BY <1>1, Invariant, PTL

\* A request that a list or a state machine points to is on the stack of a
\* caller that waits, whatever order callers, state machines, signals and the
\* clearing of slaves come in.
THEOREM CallersWait == Spec => []CallerWaits
<1>1. Inv => CallerWaits
  <2> SUFFICES ASSUME Inv, NEW c \in Callers,
                      Linked(c) \/ InOperation(c) \/ (\E k \in SlaveKinds : request[k] = c)
               PROVE  pc[c] # "idle"
    BY DEF CallerWaits
  <2>1. CASE Linked(c)
    BY <2>1 DEF Inv, Linked, QueueInv, CallerInv
  <2>2. CASE \E k \in SlaveKinds : request[k] = c
    BY <2>2 DEF Inv, FsmInv, CallerInv
  <2>3. CASE master = "sii" /\ own = c
    BY <2>3 DEF Inv, MasterInv, CallerInv
  <2> QED
    BY <2>1, <2>2, <2>3 DEF InOperation
<1> QED
  BY <1>1, Invariant, PTL

\* A queued request is linked once, in one list, and no other is linked.
THEOREM QueuedIsLinked == Spec => []QueuedLinked
<1>1. Inv => QueuedLinked
  <2> SUFFICES ASSUME Inv, NEW c \in Callers
               PROVE  /\ state[c] = "QUEUED" <=> Linked(c)
                      /\ \A k, l \in AllKinds :
                            \A i \in 1 .. Len(queue[k]), j \in 1 .. Len(queue[l]) :
                               queue[k][i] = c /\ queue[l][j] = c => k = l /\ i = j
    BY DEF QueuedLinked
  <2>1. state[c] = "QUEUED" <=> Linked(c)
    BY DEF Inv, QueueInv, Linked
  <2>2. ASSUME NEW k \in AllKinds, NEW l \in AllKinds,
               NEW i \in 1 .. Len(queue[k]), NEW j \in 1 .. Len(queue[l]),
               queue[k][i] = c, queue[l][j] = c
        PROVE  k = l /\ i = j
    <3>1. kind[c] = k /\ kind[c] = l
      BY <2>2 DEF Inv, QueueInv
    <3> QED
      BY <2>2, <3>1 DEF Inv, QueueInv
  <2> QED
    BY <2>1, <2>2
<1> QED
  BY <1>1, Invariant, PTL

\* The slave FSM is in the state for a kind of requests, registers apart, only
\* with a request: the state functions use it unasked.
THEOREM RequestIsHeld == Spec => []RequestHeld
<1>1. Inv => RequestHeld
  BY DEF Inv, FsmInv, RequestHeld
<1> QED
  BY <1>1, Invariant, PTL

\* A busy request is worked on, so that its caller gets an answer, when no
\* caller makes EoE requests: those are forgotten when the slave is cleared.
THEOREM BusyIsWorkedOn ==
    ASSUME "eoe" \notin Kinds
    PROVE  Spec => []BusyWorkedOn
<1>1. Inv => BusyWorkedOn
  <2> SUFFICES ASSUME Inv, NEW c \in Callers, state[c] = "BUSY", kind[c] # "sii"
               PROVE  InOperation(c)
    BY DEF BusyWorkedOn
  <2>1. kind[c] # "eoe"
    BY DEF Inv, CallerType
  <2>2. kind[c] \in SlaveKinds /\ fsm = kind[c] /\ request[kind[c]] = c
    BY <2>1 DEF Inv, BusyInv
  <2> QED
    BY <2>2 DEF InOperation
<1> QED
  BY <1>1, Invariant, PTL

\* No state machine keeps a pointer to a request of a configuration that was
\* cleared, when the application makes no SoE requests: the pointer of the
\* master FSM to one of those is not reset.
THEOREM AppRequestIsThere ==
    ASSUME "soe" \notin AppKinds
    PROVE  Spec => []AppRequestThere
<1>1. Inv => AppRequestThere
  BY DEF Inv, FsmInv, MasterInv, AppRequestThere
<1> QED
  BY <1>1, Invariant, PTL

\* The first request of a list is a queued one.
LEMMA HeadQueued ==
    ASSUME CallerType, QueueInv, NEW k \in AllKinds, queue[k] # <<>>
    PROVE  Head(queue[k]) \in Callers /\ state[Head(queue[k])] = "QUEUED"
<1>1. queue[k] \in Seq(Callers)
  BY DEF CallerType
<1>2. Head(queue[k]) = queue[k][1] /\ 1 \in 1 .. Len(queue[k])
  BY <1>1
<1> QED
  BY <1>1, <1>2 DEF QueueInv

\* Once a request has its answer, that stays until the caller has read it and
\* returns: no state machine, signal or clearing of a slave changes it.
THEOREM AnswersStay == Spec => AnswerStays
<1> DEFINE Stays ==
       \A c \in Callers :
          (state[c] \in {"SUCCESS", "FAILURE"}) =>
              \/ state'[c] = state[c]
              \/ pc[c] = "wait_busy" /\ pc'[c] = "idle"
<1>1. ASSUME Inv, [Next]_vars PROVE Stays
  <2> SUFFICES ASSUME NEW c \in Callers, state[c] \in {"SUCCESS", "FAILURE"}
               PROVE  \/ state'[c] = state[c]
                      \/ pc[c] = "wait_busy" /\ pc'[c] = "idle"
    OBVIOUS
  <2> USE <1>1 DEF Inv
  <2>1. ASSUME NEW d \in Callers, Schedule(d) \/ Interrupt(d)
        PROVE  state'[c] = state[c]
    BY <2>1 DEF Schedule, Interrupt, Return, CallerInv, CallerType
  <2>2. ASSUME NEW d \in Callers, WaitQueued(d) PROVE state'[c] = state[c]
    BY <2>2 DEF WaitQueued, Wait
  <2>3. ASSUME NEW d \in Callers, WaitBusy(d)
        PROVE  \/ state'[c] = state[c]
               \/ pc[c] = "wait_busy" /\ pc'[c] = "idle"
    BY <2>3 DEF WaitBusy, Wait, Return, CallerType
  <2>4. ASSUME NEW k \in SlaveKinds \cup {"none"}, StateReady(k)
        PROVE  state'[c] = state[c]
    <3>1. \A j \in SlaveKinds : First(j) # c
      BY HeadQueued, Kind DEF First
    <3>2. ~\E j \in {i \in Before(k) : First(i) # NULL} : First(j) = c
      BY <3>1, Kind
    <3>3. ~(k # "none" /\ First(k) = c)
      BY <3>1
    <3> QED
      BY <2>4, <3>2, <3>3 DEF StateReady
  <2>5. ASSUME NEW k \in SlaveKinds, StateRequest(k) PROVE state'[c] = state[c]
    <3>1. request[k] # c
      BY DEF FsmInv
    <3> QED
      BY <2>5, <3>1 DEF StateRequest, Answer
  <2>6. CASE MasterLinkDown \/ MasterRescan \/ LeaveIdle
    <3>1. ClearSlaves
      BY <2>6 DEF MasterLinkDown, MasterRescan, LeaveIdle
    <3>2. \A k \in SlaveKinds : request[k] # c
      BY DEF FsmInv
    <3> QED
      BY <3>1, <3>2 DEF ClearSlaves
  <2>7. CASE MasterEmergency
    <3>1. Head(queue["emerg"]) # c
      BY <2>7, HeadQueued DEF MasterEmergency, AllKinds
    <3> QED
      BY <2>7, <3>1 DEF MasterEmergency, Answer
  <2>8. ASSUME NEW states \in [Callers -> RequestStates], states[c] = state[c],
               ProcessSii(states)
        PROVE  state'[c] = state[c]
    <3>1. queue["sii"] # <<>> => Head(queue["sii"]) # c
      BY HeadQueued DEF AllKinds
    <3> QED
      BY <2>8, <3>1 DEF ProcessSii
  <2>9. CASE MasterRead
    <3>1. state \in [Callers -> RequestStates]
      BY DEF CallerType
    <3> QED
      BY <2>8, <2>9, <3>1 DEF MasterRead
  <2>10. CASE MasterSii
    <3>1. own # c
      BY <2>10 DEF MasterSii, MasterInv
    <3>2. /\ [state EXCEPT ![own] = "SUCCESS"] \in [Callers -> RequestStates]
          /\ [state EXCEPT ![own] = "SUCCESS"][c] = state[c]
          /\ [state EXCEPT ![own] = "FAILURE"][c] = state[c]
      BY <3>1 DEF CallerType, RequestStates
    <3> QED
      BY <2>8, <2>10, <3>2 DEF MasterSii
  <2>11. CASE MasterStart \/ MasterBroadcast \/ MasterScan \/ MasterReadFails
              \/ MasterAppRequest
    BY <2>11 DEF MasterStart, MasterBroadcast, MasterScan, MasterReadFails,
                 MasterAppRequest, reqvars
  <2>12. CASE SlaveState \/ CreateConfig \/ ClearConfig \/ AppRequest
    BY <2>12 DEF SlaveState, CreateConfig, ClearConfig, AppRequest, reqvars
  <2>13. CASE UNCHANGED vars
    BY <2>13 DEF vars
  <2> QED
    BY <1>1, <2>1, <2>2, <2>3, <2>4, <2>5, <2>6, <2>7, <2>9, <2>10, <2>11, <2>12,
       <2>13 DEF Next, Caller, SlaveFsm, MasterFsm
<1>2. Inv /\ [Next]_vars => Stays
  BY <1>1
<1>3. Stays <=> \A c \in Callers :
                   (state[c] \in {"SUCCESS", "FAILURE"}) =>
                      \/ state'[c] = state[c]
                      \/ pc[c] = "wait_busy" /\ pc'[c] = "idle"
  OBVIOUS
<1> HIDE DEF Stays
<1> QED
  BY <1>2, <1>3, Invariant, PTL DEF Spec, AnswerStays
=============================================================================
