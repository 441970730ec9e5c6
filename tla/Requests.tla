------------------------------- MODULE Requests -------------------------------
(***************************************************************************)
(* Blocking requests to a slave: SDO, register, FoE, SoE and EoE requests  *)
(* through the slave's state machine (master/fsm_slave.c), SII writes and  *)
(* emergency register writes through the master's (master/fsm_master.c),   *)
(* and the requests of the application's slave configuration.              *)
(*                                                                         *)
(* A caller links a request on its stack into a list, sleeps until the     *)
(* state machine has taken it, then until it has answered it, and returns  *)
(* (ecrt_master_sdo_download() and its like, master/master.c and           *)
(* master/ioctl.c).  Everything else happens with master_sem held, so a    *)
(* step of the model is the execution of one state machine or one critical *)
(* section of a caller.                                                    *)
(***************************************************************************)
EXTENDS Integers, SequencesExt, FiniteSets

CONSTANTS
    Callers,    \* processes that make blocking calls
    Kinds,      \* the kinds of requests they make
    AppKinds,   \* the kinds of requests of the slave configuration, one each
    MaxCalls,   \* bound on the requests made, by callers and application
    App,        \* a pointer to the application's request
    NULL

\* In the order in which ec_fsm_slave_state_ready() looks for requests.
SlaveKinds == {"sdo", "reg", "foe", "soe", "eoe"}
Before(k) ==
    CASE k = "sdo" -> {}
      [] k = "reg" -> {"sdo"}
      [] k = "foe" -> {"sdo", "reg"}
      [] k = "soe" -> {"sdo", "reg", "foe"}
      [] k = "eoe" -> {"sdo", "reg", "foe", "soe"}
      [] k = "none" -> SlaveKinds

AllKinds == SlaveKinds \cup {"sii", "emerg"}

ASSUME RequestsAssumption ==
    /\ Kinds \subseteq AllKinds
    /\ AppKinds \subseteq {"sdo", "soe", "reg"}
    /\ MaxCalls \in Nat
    /\ IsFiniteSet(Callers)
    /\ App \notin Callers /\ NULL \notin Callers /\ App # NULL

VARIABLES
    pc, kind,       \* where a caller is, and the kind of its request
    asleep,         \* the callers that wait in request_queue
    state,          \* the state of a caller's request
    app,            \* the states of the application's requests
    calls,          \* requests made
    queue,          \* the lists of requests, by kind
    slave,          \* state of the slave: none, INIT, ERROR (acknowledge) or OK
    config,         \* the slave configuration: none, detached, attached
    fsm, request,   \* slave FSM: its state and its pointers to requests
    master,         \* master FSM: what it is doing
    own             \* its pointer to the request it works on

vars == <<pc, kind, asleep, state, app, calls, queue, slave, config, fsm,
          request, master, own>>

callervars == <<pc, kind, calls>>
reqvars == <<state, app, queue>>
buildvars == <<slave, config>>
slavefsm == <<fsm, request>>
masterfsm == <<master, own>>

RequestStates == {"INIT", "QUEUED", "BUSY", "SUCCESS", "FAILURE"}

\* wake_up_all(&master->request_queue)
WakeAll == asleep' = {}

-----------------------------------------------------------------------------
Init ==
    /\ pc = [c \in Callers |-> "idle"]
    /\ kind = [c \in Callers |-> "none"]
    /\ asleep = {}
    /\ state = [c \in Callers |-> "INIT"]
    /\ app = [k \in AppKinds |-> "INIT"]
    /\ calls = 0
    /\ queue = [k \in AllKinds |-> <<>>]
    /\ slave = "none"
    /\ config = "none"
    /\ fsm = "none"
    /\ request = [k \in SlaveKinds |-> NULL]
    /\ master = "start"
    /\ own = NULL

-----------------------------------------------------------------------------
(* The callers. *)

\* The request is linked.  An emergency request needs no slave.
Schedule(c) ==
    /\ pc[c] = "idle" /\ calls < MaxCalls
    /\ \E k \in Kinds :
          /\ slave # "none" \/ k = "emerg"
          /\ kind' = [kind EXCEPT ![c] = k]
          /\ queue' = [queue EXCEPT ![k] = Append(@, c)]
    /\ state' = [state EXCEPT ![c] = "QUEUED"]
    /\ pc' = [pc EXCEPT ![c] = "wait_queued"]
    /\ calls' = calls + 1
    /\ UNCHANGED <<asleep, app, buildvars, slavefsm, masterfsm>>

\* wait_event(): the condition holds, or the caller sleeps.
Wait(c, condition, next) ==
    /\ c \notin asleep
    /\ IF condition THEN next /\ UNCHANGED asleep
                    ELSE asleep' = asleep \cup {c} /\ UNCHANGED <<pc, state, kind>>

WaitQueued(c) ==
    /\ pc[c] = "wait_queued"
    /\ Wait(c, state[c] # "QUEUED",
            pc' = [pc EXCEPT ![c] = "wait_busy"] /\ UNCHANGED <<state, kind>>)
    /\ UNCHANGED <<app, calls, queue, buildvars, slavefsm, masterfsm>>

\* The call returns, and with it goes the request.
Return(c) ==
    /\ pc' = [pc EXCEPT ![c] = "idle"]
    /\ kind' = [kind EXCEPT ![c] = "none"]
    /\ state' = [state EXCEPT ![c] = "INIT"]

WaitBusy(c) ==
    /\ pc[c] = "wait_busy"
    /\ Wait(c, state[c] # "BUSY", Return(c))
    /\ UNCHANGED <<app, calls, queue, buildvars, slavefsm, masterfsm>>

\* Mutation of Interrupt: the call returns whatever the request's state is.
InterruptAlways(c) ==
    /\ pc[c] = "wait_queued"
    /\ Return(c)
    /\ queue' = [k \in AllKinds |-> SelectSeq(queue[k], LAMBDA d : d # c)]
    /\ asleep' = asleep \ {c}
    /\ UNCHANGED <<app, calls, buildvars, slavefsm, masterfsm>>

\* A signal: "request already processing: interrupt not possible."
Interrupt(c) ==
    /\ pc[c] = "wait_queued"
    /\ \/ /\ state[c] = "QUEUED"
          /\ Return(c)
          /\ \E i \in 1 .. Len(queue[kind[c]]) :
                /\ queue[kind[c]][i] = c
                /\ queue' = [queue EXCEPT ![kind[c]] = RemoveAt(@, i)]
       \/ /\ state[c] # "QUEUED"
          /\ pc' = [pc EXCEPT ![c] = "wait_busy"]
          /\ UNCHANGED <<kind, state, queue>>
    /\ asleep' = asleep \ {c}
    /\ UNCHANGED <<app, calls, buildvars, slavefsm, masterfsm>>

-----------------------------------------------------------------------------
(* The slave state machine. *)

Aborts(k) ==
    \/ slave = "ERROR"
    \/ slave = "INIT" /\ k \in {"sdo", "soe", "eoe"}

\* The first request of a kind: for registers, the application's goes first.
First(k) ==
    IF k = "reg" /\ "reg" \in AppKinds /\ config = "attached" /\ app["reg"] = "QUEUED"
    THEN App
    ELSE IF queue[k] = <<>> THEN NULL ELSE Head(queue[k])

\* ec_fsm_slave_state_ready(): the first request of each kind up to k is
\* aborted, the one of kind k (if any) is started.
StateReady(k) ==
    LET aborted == {j \in Before(k) : First(j) # NULL}
        taken == aborted \cup ({k} \ {"none"})
        After(r, old) ==
            IF \E j \in aborted : First(j) = r THEN "FAILURE"
            ELSE IF k # "none" /\ First(k) = r THEN "BUSY" ELSE old
    IN  /\ fsm = "ready"
        /\ \A j \in aborted : Aborts(j)
        /\ k # "none" => First(k) # NULL /\ ~Aborts(k)
        /\ state' = [c \in Callers |-> After(c, state[c])]
        /\ app' = [j \in AppKinds |->
                      IF j = "reg" THEN After(App, app["reg"]) ELSE app[j]]
        /\ queue' = [j \in AllKinds |->
                        IF j \in taken /\ First(j) # App THEN Tail(queue[j])
                                                         ELSE queue[j]]
        /\ request' = [j \in SlaveKinds |-> IF j = k THEN First(k) ELSE request[j]]
        /\ fsm' = IF k # "none" THEN k ELSE IF aborted # {} THEN "idle" ELSE "ready"
        /\ IF aborted # {} THEN WakeAll ELSE UNCHANGED asleep
        /\ UNCHANGED <<callervars, buildvars, masterfsm>>

\* The request an FSM works on gets its answer.
Answer(r, k, result) ==
    /\ state' = [c \in Callers |-> IF c = r THEN result ELSE state[c]]
    /\ app' = [j \in AppKinds |-> IF r = App /\ j = k THEN result ELSE app[j]]
    /\ WakeAll

\* Mutation of StateRequest: nobody is woken.
StateRequestSilent(k) ==
    /\ fsm = k
    /\ \E result \in {"SUCCESS", "FAILURE"} :
          state' = [c \in Callers |-> IF c = request[k] THEN result ELSE state[c]]
    /\ request' = [request EXCEPT ![k] = NULL]
    /\ fsm' = "ready"
    /\ UNCHANGED <<asleep, app, queue, callervars, buildvars, masterfsm>>

\* Mutation of StateRequest: the pointer stays.
StateRequestKeeps(k) ==
    /\ fsm = k
    /\ \E result \in {"SUCCESS", "FAILURE"} : Answer(request[k], k, result)
    /\ fsm' = "ready"
    /\ UNCHANGED <<request, queue, callervars, buildvars, masterfsm>>

\* Mutation of StateRequest: the FSM stays in the state.
StateRequestStays(k) ==
    /\ fsm = k
    /\ \E result \in {"SUCCESS", "FAILURE"} : Answer(request[k], k, result)
    /\ request' = [request EXCEPT ![k] = NULL]
    /\ UNCHANGED <<fsm, queue, callervars, buildvars, masterfsm>>

\* ec_fsm_slave_state_sdo_request() and its like: the transfer is over.  A
\* register request is gone when the configuration was cleared.
StateRequest(k) ==
    /\ fsm = k
    /\ IF request[k] = NULL
       THEN UNCHANGED <<state, app, asleep>>
       ELSE \E result \in {"SUCCESS", "FAILURE"} : Answer(request[k], k, result)
    /\ request' = [request EXCEPT ![k] = NULL]
    /\ fsm' = "ready"
    /\ UNCHANGED <<queue, callervars, buildvars, masterfsm>>

SlaveFsm ==
    \/ \E k \in SlaveKinds \cup {"none"} : StateReady(k)
    \/ \E k \in SlaveKinds : StateRequest(k)

-----------------------------------------------------------------------------
(* Slaves and configuration are cleared. *)

Linked(c) == \E k \in AllKinds : \E i \in 1 .. Len(queue[k]) : queue[k][i] = c

\* Mutation of ClearSlaves: only waiting requests are discarded.
ClearSlavesQueued ==
    /\ state' = [c \in Callers |->
                    IF kind[c] # "emerg" /\ state[c] = "QUEUED" THEN "FAILURE"
                                                                ELSE state[c]]
    /\ queue' = [k \in AllKinds |-> IF k = "emerg" THEN queue[k] ELSE <<>>]
    /\ request' = [k \in SlaveKinds |-> NULL]
    /\ fsm' = "none" /\ slave' = "none"
    /\ config' = IF config = "attached" THEN "detached" ELSE config
    /\ WakeAll

\* ec_master_clear_slaves() with ec_slave_clear(), ec_slave_config_detach() and
\* ec_fsm_slave_clear(): all requests for the slave fail.  The one for EoE is
\* meant to, but the code writes through soe_request, which is NULL then: its
\* state is not set, wherever that write goes.
ClearSlaves ==
    /\ state' = [c \in Callers |->
                    IF \/ kind[c] # "emerg" /\ state[c] = "QUEUED"
                       \/ \E k \in SlaveKinds \ {"eoe"} : request[k] = c
                    THEN "FAILURE" ELSE state[c]]
    /\ queue' = [k \in AllKinds |-> IF k = "emerg" THEN queue[k] ELSE <<>>]
    /\ request' = [k \in SlaveKinds |-> NULL]
    /\ fsm' = "none" /\ slave' = "none"
    /\ config' = IF config = "attached" THEN "detached" ELSE config
    /\ WakeAll

\* ecrt_master_slave_config() and the creation of the requests.
CreateConfig ==
    /\ config = "none"
    /\ config' = IF slave = "none" THEN "detached" ELSE "attached"
    /\ UNCHANGED <<callervars, asleep, reqvars, slave, slavefsm, masterfsm>>

\* Mutation of ClearConfig: the master FSM keeps its pointer.
ClearConfigKeepsRequest ==
    /\ config # "none"
    /\ config' = "none"
    /\ app' = [k \in AppKinds |-> "INIT"]
    /\ request' = [k \in SlaveKinds |-> IF request[k] = App THEN NULL ELSE request[k]]
    /\ UNCHANGED <<callervars, asleep, state, queue, slave, fsm, masterfsm>>

\* ec_master_clear_slave_configs(): the requests are freed.  The slave FSM's
\* pointer is reset, and of the master FSM's that to an SDO request.
ClearConfig ==
    /\ config # "none"
    /\ config' = "none"
    /\ app' = [k \in AppKinds |-> "INIT"]
    /\ request' = [k \in SlaveKinds |-> IF request[k] = App THEN NULL ELSE request[k]]
    /\ own' = IF master = "sdo" THEN NULL ELSE own
    /\ UNCHANGED <<callervars, asleep, state, queue, slave, fsm, master>>

\* The application makes a request of its own, when the last one is done.
AppRequest ==
    /\ config # "none" /\ calls < MaxCalls
    /\ \E k \in AppKinds :
          /\ app[k] \notin {"QUEUED", "BUSY"}
          /\ app' = [app EXCEPT ![k] = "QUEUED"]
    /\ calls' = calls + 1
    /\ UNCHANGED <<pc, kind, asleep, state, queue, buildvars, slavefsm, masterfsm>>

-----------------------------------------------------------------------------
(* The master state machine. *)

\* ec_fsm_master_state_start(): emergency requests go first.
MasterEmergency ==
    /\ master = "start" /\ queue["emerg"] # <<>>
    /\ \E result \in {"SUCCESS", "FAILURE"} :
          Answer(Head(queue["emerg"]), "emerg", result)
    /\ queue' = [queue EXCEPT !["emerg"] = Tail(@)]
    /\ UNCHANGED <<callervars, buildvars, slavefsm, masterfsm>>

MasterStart ==
    /\ master = "start" /\ queue["emerg"] = <<>>
    /\ master' = "broadcast"
    /\ UNCHANGED <<callervars, asleep, reqvars, buildvars, slavefsm, own>>

\* ec_fsm_master_state_broadcast(): without slaves the FSM starts over.
MasterBroadcast ==
    /\ master = "broadcast"
    /\ master' = IF slave = "none" THEN "start" ELSE "read_state"
    /\ UNCHANGED <<callervars, asleep, reqvars, buildvars, slavefsm, own>>

\* The link went down.
MasterLinkDown ==
    /\ master = "broadcast"
    /\ ClearSlaves
    /\ master' = "start"
    /\ UNCHANGED <<callervars, app, own>>

\* The bus is scanned: the slave is cleared, and initialised when it is found.
MasterRescan ==
    /\ master = "broadcast" /\ slave # "none"
    /\ ClearSlaves
    /\ master' = "start"
    /\ UNCHANGED <<callervars, app, own>>

MasterScan ==
    /\ master = "broadcast" /\ slave = "none"
    /\ slave' \in {"INIT", "OK"}
    /\ fsm' = "idle"
    /\ config' = IF config = "detached" THEN "attached" ELSE config
    /\ master' = "start"
    /\ UNCHANGED <<callervars, asleep, reqvars, request, own>>

\* The application's requests that the master FSM may process.
AppQueued ==
    {k \in AppKinds \ {"reg"} : config = "attached" /\ app[k] = "QUEUED"}

\* ec_fsm_master_action_process_int_request() processes none: those that wait
\* have timed out, or the slave is in INIT.
NoAppRequest(apps) ==
    app' = [k \in AppKinds |-> IF k \in AppQueued THEN "FAILURE" ELSE apps[k]]

\* ... or one, and SDO requests come first.
ProcessAppRequest(apps) ==
    \E k \in AppQueued :
        /\ slave # "INIT"
        /\ app' = [j \in AppKinds |-> IF j = k THEN "BUSY"
                      ELSE IF j \in AppQueued /\ k = "soe" THEN "FAILURE" ELSE apps[j]]
        /\ master' = k
        /\ own' = App

\* Mutation of ProcessSii: the request stays in the list.
ProcessSiiLinked(states) ==
    IF queue["sii"] # <<>>
    THEN /\ master' = "sii"
         /\ own' = Head(queue["sii"])
         /\ state' = [states EXCEPT ![Head(queue["sii"])] = "BUSY"]
         /\ UNCHANGED queue
    ELSE /\ master' = "start"
         /\ own' = NULL
         /\ state' = states
         /\ UNCHANGED queue

\* ec_fsm_master_action_process_sii() finds a request, or there is none and
\* the FSM starts over.
ProcessSii(states) ==
    IF queue["sii"] # <<>>
    THEN /\ master' = "sii"
         /\ own' = Head(queue["sii"])
         /\ state' = [states EXCEPT ![Head(queue["sii"])] = "BUSY"]
         /\ queue' = [queue EXCEPT !["sii"] = Tail(@)]
    ELSE /\ master' = "start"
         /\ own' = NULL
         /\ state' = states
         /\ UNCHANGED queue

\* The AL state of the slave cannot be read.
MasterReadFails ==
    /\ master = "read_state"
    /\ master' = "start"
    /\ UNCHANGED <<callervars, asleep, reqvars, buildvars, slavefsm, own>>

\* The state is read, then ec_fsm_master_action_idle(): the application's
\* requests, the SDO dictionary of a new slave, the SII requests.
MasterRead ==
    /\ master = "read_state"
    /\ \/ /\ ProcessAppRequest(app)
          /\ UNCHANGED <<fsm, state, queue>>
       \/ /\ NoAppRequest(app)
          /\ fsm' = IF fsm = "idle" THEN "ready" ELSE fsm
          /\ \/ ProcessSii(state)
             \/ master' = "start" /\ UNCHANGED <<own, state, queue>>
    /\ UNCHANGED <<callervars, asleep, buildvars, request>>

\* ec_fsm_master_state_write_sii()
MasterSii ==
    /\ master = "sii"
    /\ \/ /\ state' = [state EXCEPT ![own] = "FAILURE"]
          /\ master' = "start"
          /\ own' = NULL
          /\ UNCHANGED queue
       \/ ProcessSii([state EXCEPT ![own] = "SUCCESS"])
    /\ WakeAll
    /\ UNCHANGED <<callervars, app, buildvars, slavefsm>>

\* ec_fsm_master_state_sdo_request() and ec_fsm_master_state_soe_request():
\* "configuration was cleared in the meantime", or the transfer is over.
MasterAppRequest ==
    /\ master \in {"sdo", "soe"}
    /\ \/ /\ own # NULL
          /\ LET apps == [app EXCEPT ![master] = "SUCCESS"] IN
                \/ ProcessAppRequest(apps)
                \/ NoAppRequest(apps) /\ master' = "start" /\ own' = NULL
          /\ WakeAll
       \/ /\ IF own = NULL
             THEN UNCHANGED <<app, asleep>>
             ELSE app' = [app EXCEPT ![master] = "FAILURE"] /\ WakeAll
          /\ master' = "start"
          /\ own' = NULL
    /\ UNCHANGED <<callervars, state, queue, buildvars, slavefsm>>

MasterFsm ==
    \/ MasterEmergency \/ MasterStart \/ MasterBroadcast
    \/ MasterLinkDown \/ MasterRescan \/ MasterScan
    \/ MasterReadFails \/ MasterRead \/ MasterSii
    \/ MasterAppRequest

\* The slave changes its state: by itself, or on request of the master FSM.
SlaveState ==
    /\ slave # "none"
    /\ slave' \in {"INIT", "ERROR", "OK"} \ {slave}
    /\ UNCHANGED <<callervars, asleep, reqvars, config, slavefsm, masterfsm>>

\* ec_master_leave_idle_phase(), with the next ec_master_enter_idle_phase():
\* the thread is stopped wherever the master FSM is, and that starts over.
LeaveIdle ==
    /\ config = "none"
    /\ ClearSlaves
    /\ master' = "start"
    /\ own' = NULL
    /\ UNCHANGED <<callervars, app>>

-----------------------------------------------------------------------------
Caller(c) == Schedule(c) \/ WaitQueued(c) \/ WaitBusy(c) \/ Interrupt(c)

Next ==
    \/ \E c \in Callers : Caller(c)
    \/ SlaveFsm \/ MasterFsm
    \/ SlaveState \/ LeaveIdle
    \/ CreateConfig \/ ClearConfig \/ AppRequest

Spec == Init /\ [][Next]_vars

\* The callers run when they are woken, the thread executes both state
\* machines, and the slave's state can be read from time to time.
FairSpec ==
    /\ Spec
    /\ \A c \in Callers : WF_vars(WaitQueued(c) \/ WaitBusy(c))
    /\ WF_vars(SlaveFsm) /\ WF_vars(MasterFsm) /\ SF_vars(MasterRead)

-----------------------------------------------------------------------------
(* Properties. *)

\* Type invariant.
TypeOK ==
    /\ pc \in [Callers -> {"idle", "wait_queued", "wait_busy"}]
    /\ kind \in [Callers -> Kinds \cup {"none"}]
    /\ asleep \subseteq Callers
    /\ state \in [Callers -> RequestStates]
    /\ app \in [AppKinds -> RequestStates]
    /\ calls \in 0 .. MaxCalls
    /\ queue \in [AllKinds -> Seq(Callers)]
    /\ slave \in {"none", "INIT", "ERROR", "OK"}
    /\ config \in {"none", "detached", "attached"}
    /\ fsm \in {"none", "idle", "ready"} \cup SlaveKinds
    /\ request \in [SlaveKinds -> Callers \cup {NULL, App}]
    /\ master \in {"start", "broadcast", "read_state", "sii", "sdo", "soe"}
    /\ own \in CASE master = "sii" -> Callers
               [] master \in {"sdo", "soe"} -> {App, NULL}
               [] OTHER -> {NULL}

\* A state machine works on the request.
InOperation(c) ==
    \/ \E k \in SlaveKinds : fsm = k /\ request[k] = c
    \/ master = "sii" /\ own = c

\* A request that is linked, or that a state machine points to, is there: its
\* caller waits for it.  It is on the caller's stack.
CallerWaits ==
    \A c \in Callers :
        Linked(c) \/ InOperation(c) \/ (\E k \in SlaveKinds : request[k] = c)
            => pc[c] # "idle"

\* A request waits in exactly one list while it is queued, and in none after.
QueuedLinked ==
    \A c \in Callers :
        /\ state[c] = "QUEUED" <=> Linked(c)
        /\ \A k, l \in AllKinds :
              \A i \in 1 .. Len(queue[k]), j \in 1 .. Len(queue[l]) :
                 queue[k][i] = c /\ queue[l][j] = c => k = l /\ i = j

\* A caller's request that is busy is worked on, so that it will be answered:
\* the caller cannot be interrupted any more.  When the slave is cleared,
\* ec_fsm_slave_clear() has to "signal requests that are currently in
\* operation".  (SII requests apart: the master state machine is stopped when
\* the IDLE phase is left, whatever it works on.)
BusyWorkedOn ==
    \A c \in Callers :
        state[c] = "BUSY" /\ kind[c] # "sii" => InOperation(c)

\* The state functions use their request without looking whether there is one,
\* the register request apart.
RequestHeld ==
    \A k \in SlaveKinds \ {"reg"} : fsm = k => request[k] # NULL

\* A pointer to the application's request is reset before that is freed.
AppRequestThere ==
    /\ own = App /\ master \in {"sdo", "soe"} => config # "none"
    /\ \A k \in SlaveKinds : request[k] = App => config # "none"

\* An answer stays until the caller has read it: no request is answered twice
\* or put back into operation.
AnswerStays ==
    [][\A c \in Callers :
          (state[c] \in {"SUCCESS", "FAILURE"}) =>
              \/ state'[c] = state[c]
              \/ pc[c] = "wait_busy" /\ pc'[c] = "idle"]_vars

\* Every call returns (SII writes apart, see above): there are MaxCalls of them,
\* and from some time on none waits.
Answered == <>[](\A c \in Callers : pc[c] = "idle" \/ kind[c] = "sii")
=============================================================================
