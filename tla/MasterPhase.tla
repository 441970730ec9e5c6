----------------------------- MODULE MasterPhase -----------------------------
(***************************************************************************)
(* The phases of the master (ORPHANED, IDLE, OPERATION), the calls of the  *)
(* application that change them (request, activate, deactivate, release:   *)
(* master/module.c and master/master.c), the device that comes and goes,   *)
(* and the master state machine, which meanwhile scans the bus, writes     *)
(* system times and configures (master/fsm_master.c), first in one thread, *)
(* then in another, and the network device of a slave with EoE, that is    *)
(* opened and stopped at any time (master/ethernet.c).                     *)
(*                                                                         *)
(* The bus has one slave at most.  One datagram stands for those of a      *)
(* scan, a configuration or the writing of system times, and one that is   *)
(* repeated is one that takes longer.                                      *)
(***************************************************************************)
EXTENDS Integers

CONSTANTS
    None,           \* no slave in the list
    StopsScan       \* the device may be closed in the middle of a scan or of
                    \* a configuration


VARIABLES
    app,            \* where the application is
    releasing,      \* it deactivates the master to release it
    phase, active, allow_scan, scan_busy, config_busy, config_changed,
    thread,         \* the master's thread: none, idle, op
    inject,         \* injection_seq_fsm # injection_seq_rt
    slave,          \* master->slaves: None, or the slave
    eoe,            \* its network device, if it has EoE: not opened since the
                    \* scan (none), open, closed again
    config,         \* the slave configuration: none, detached, attached
    state,          \* the master FSM's state
    responding, link_state, rescan_required,    \* ... and its view of the bus
    datagram, wc,   \* its datagram, and that one's working counter
    bus, link       \* slaves that respond (0 or 1), and the device's link

appvars == <<app, releasing>>
flags == <<phase, active, allow_scan, scan_busy, config_busy, config_changed>>
fsmvars == <<state, responding, link_state, rescan_required>>
dgvars == <<datagram, wc, inject>>
busvars == <<bus, link>>
envvars == <<eoe, busvars>>
vars == <<appvars, flags, thread, slave, config, fsmvars, dgvars, envvars>>

SlaveObjects == [requested : {"PREOP", "OP"},
                 force_config : BOOLEAN, error_flag : BOOLEAN,
                 identified : BOOLEAN,      \* vendor and product were read
                 ref : BOOLEAN]             \* it is dc_ref_clock

ASSUME PhaseAssumption ==
    /\ StopsScan \in BOOLEAN
    /\ None \notin SlaveObjects

\* Within a call of the application.
Calling ==
    {"wait_config", "lock", "wait_scan", "states", "eoe_open", "eoe_states",
     "act_thread", "act_scan", "act_active", "act_config",
     "dea_config", "dea_states", "dea_open", "dea_eoe", "dea_thread", "dea_scan",
     "dea_active", "rel_scan", "rel_phase"}

\* ec_slave_request_state(), and there may be no slave.
Requested(s, al) ==
    IF s = None THEN None ELSE [s EXCEPT !.requested = al, !.error_flag = FALSE]

Detached == IF config = "attached" THEN "detached" ELSE config

-----------------------------------------------------------------------------
Init ==
    /\ app = "none" /\ releasing = FALSE
    /\ phase = "ORPHANED" /\ active = FALSE /\ allow_scan = TRUE
    /\ scan_busy = FALSE /\ config_busy = FALSE /\ config_changed = FALSE
    /\ thread = "none" /\ inject = FALSE
    /\ slave = None /\ eoe = "none" /\ config = "none"
    /\ state = "start" /\ responding = 0
    /\ link_state = FALSE /\ rescan_required = FALSE
    /\ datagram = "INIT" /\ wc = 0
    /\ bus \in {0, 1} /\ link = TRUE

-----------------------------------------------------------------------------
(* ecrt_request_master(), ec_master_enter_operation_phase() *)

Request ==
    /\ app = "none" /\ phase = "IDLE"
    /\ app' = "wait_config"
    /\ UNCHANGED <<releasing, flags, thread, slave, config, fsmvars, dgvars,
                   envvars>>

\* Waits for the slave configuration to complete.
WaitConfig ==
    /\ app = "wait_config" /\ ~config_busy
    /\ app' = "lock"
    /\ UNCHANGED <<releasing, flags, thread, slave, config, fsmvars, dgvars,
                   envvars>>

\* Mutation of LockSlaves: the list is not locked.
LockSlavesNot ==
    /\ app = "lock"
    /\ app' = IF scan_busy THEN "wait_scan" ELSE "states"
    /\ UNCHANGED <<releasing, flags, thread, slave, config, fsmvars, dgvars,
                   envvars>>

\* "'lock' the slave list", and look whether a scan is going on.
LockSlaves ==
    /\ app = "lock"
    /\ allow_scan' = FALSE
    /\ app' = IF scan_busy THEN "wait_scan" ELSE "states"
    /\ UNCHANGED <<releasing, phase, active, scan_busy, config_busy,
                   config_changed, thread, slave, config, fsmvars, dgvars, envvars>>

WaitScan ==
    /\ app = "wait_scan" /\ ~scan_busy
    /\ app' = "states"
    /\ UNCHANGED <<releasing, flags, thread, slave, config, fsmvars, dgvars,
                   envvars>>

\* A signal ends one of the waits, and the request fails.
Interrupt ==
    /\ \/ app = "wait_config" /\ config_busy /\ UNCHANGED allow_scan
       \/ app = "wait_scan" /\ scan_busy /\ allow_scan' = TRUE
    /\ app' = "none"
    /\ UNCHANGED <<releasing, phase, active, scan_busy, config_busy,
                   config_changed, thread, slave, config, fsmvars, dgvars, envvars>>

\* "set states for all slaves"
SetStates ==
    /\ app = "states"
    /\ slave' = Requested(slave, "PREOP")
    /\ app' = "eoe_open"
    /\ UNCHANGED <<releasing, flags, thread, config, fsmvars, dgvars, envvars>>

\* "... but set EoE slaves to OP": whether the device is open is looked at
\* before, and nothing keeps it so.
SeeOpen ==
    /\ app = "eoe_open"
    /\ IF eoe = "open"
       THEN app' = "eoe_states" /\ UNCHANGED phase
       ELSE app' = "requested" /\ phase' = "OPERATION"
    /\ UNCHANGED <<releasing, active, allow_scan, scan_busy, config_busy,
                   config_changed, thread, slave, config, fsmvars, dgvars, envvars>>

SetEoeStates ==
    /\ app = "eoe_states"
    /\ slave' = Requested(slave, "OP")
    /\ phase' = "OPERATION"
    /\ app' = "requested"
    /\ UNCHANGED <<releasing, active, allow_scan, scan_busy, config_busy,
                   config_changed, thread, config, fsmvars, dgvars, envvars>>

\* ecrt_master_slave_config()
SlaveConfig ==
    /\ app = "requested" /\ config = "none"
    /\ config' = IF slave # None /\ slave.identified THEN "attached" ELSE "detached"
    /\ UNCHANGED <<appvars, flags, thread, slave, fsmvars, dgvars, envvars>>

-----------------------------------------------------------------------------
(* ecrt_master_activate() *)

\* The thread is stopped between two of its iterations.
ActivateStop ==
    /\ app = "requested"
    /\ thread' = "none"
    /\ app' = "act_thread"
    /\ UNCHANGED <<releasing, flags, slave, config, fsmvars, dgvars, envvars>>

ActivateThread ==
    /\ app = "act_thread"
    /\ inject' = FALSE
    /\ thread' = "op"
    /\ app' = "act_scan"
    /\ UNCHANGED <<releasing, flags, slave, config, fsmvars, datagram, wc, envvars>>

\* "Allow scanning after a topology change."
ActivateScan ==
    /\ app = "act_scan"
    /\ allow_scan' = TRUE
    /\ app' = "act_active"
    /\ UNCHANGED <<releasing, phase, active, scan_busy, config_busy,
                   config_changed, thread, slave, config, fsmvars, dgvars, envvars>>

ActivateActive ==
    /\ app = "act_active"
    /\ active' = TRUE
    /\ app' = "act_config"
    /\ UNCHANGED <<releasing, phase, allow_scan, scan_busy, config_busy,
                   config_changed, thread, slave, config, fsmvars, dgvars, envvars>>

\* Mutation of ActivateConfig: nobody notifies the state machine.
ActivateConfigSilent ==
    /\ app = "act_config"
    /\ app' = "active"
    /\ UNCHANGED <<releasing, flags, thread, slave, config, fsmvars, dgvars,
                   envvars>>

\* "Notify state machine, that the configuration shall now be applied"
ActivateConfig ==
    /\ app = "act_config"
    /\ config_changed' = TRUE
    /\ app' = "active"
    /\ UNCHANGED <<releasing, phase, active, allow_scan, scan_busy, config_busy,
                   thread, slave, config, fsmvars, dgvars, envvars>>

-----------------------------------------------------------------------------
(* ecrt_master_deactivate(), ecrt_release_master() *)

DeactivateStop ==
    /\ app = "active"
    /\ thread' = "none"
    /\ releasing' \in BOOLEAN
    /\ app' = "dea_config"
    /\ UNCHANGED <<flags, slave, config, fsmvars, dgvars, envvars>>

\* Mutation of DeactivateConfig: the configuration stays.
DeactivateConfigKept ==
    /\ app = "dea_config"
    /\ app' = "dea_states"
    /\ UNCHANGED <<releasing, flags, thread, slave, config, fsmvars, dgvars,
                   envvars>>

\* ec_master_clear_config()
DeactivateConfig ==
    /\ app = "dea_config"
    /\ config' = "none"
    /\ app' = "dea_states"
    /\ UNCHANGED <<releasing, flags, thread, slave, fsmvars, dgvars, envvars>>

DeactivateStates ==
    /\ app = "dea_states"
    /\ slave' = IF slave = None THEN None
                ELSE [Requested(slave, "PREOP") EXCEPT !.force_config = TRUE]
    /\ app' = "dea_open"
    /\ UNCHANGED <<releasing, flags, thread, config, fsmvars, dgvars, envvars>>

\* "... but leave EoE slaves in OP"
DeactivateOpen ==
    /\ app = "dea_open"
    /\ app' = IF eoe = "open" THEN "dea_eoe" ELSE "dea_thread"
    /\ UNCHANGED <<releasing, flags, thread, slave, config, fsmvars, dgvars,
                   envvars>>

DeactivateEoe ==
    /\ app = "dea_eoe"
    /\ slave' = Requested(slave, "OP")
    /\ app' = "dea_thread"
    /\ UNCHANGED <<releasing, flags, thread, config, fsmvars, dgvars, envvars>>

DeactivateThread ==
    /\ app = "dea_thread"
    /\ thread' = "idle"
    /\ app' = "dea_scan"
    /\ UNCHANGED <<releasing, flags, slave, config, fsmvars, dgvars, envvars>>

\* "Disallow scanning to get into the same state like after a master request"
DeactivateScan ==
    /\ app = "dea_scan"
    /\ allow_scan' = FALSE
    /\ app' = "dea_active"
    /\ UNCHANGED <<releasing, phase, active, scan_busy, config_busy,
                   config_changed, thread, slave, config, fsmvars, dgvars, envvars>>

DeactivateActive ==
    /\ app = "dea_active"
    /\ active' = FALSE
    /\ app' = IF releasing THEN "rel_scan" ELSE "requested"
    /\ UNCHANGED <<releasing, phase, allow_scan, scan_busy, config_busy,
                   config_changed, thread, slave, config, fsmvars, dgvars, envvars>>

\* A master that is not active is released.
Release ==
    /\ app = "requested"
    /\ config' = "none"
    /\ app' = "rel_scan"
    /\ UNCHANGED <<releasing, flags, thread, slave, fsmvars, dgvars, envvars>>

\* Mutation of ReleaseScan: scanning stays disallowed.
ReleaseScanNot ==
    /\ app = "rel_scan"
    /\ app' = "rel_phase"
    /\ UNCHANGED <<releasing, flags, thread, slave, config, fsmvars, dgvars,
                   envvars>>

\* "Re-allow scanning for IDLE phase."
ReleaseScan ==
    /\ app = "rel_scan"
    /\ allow_scan' = TRUE
    /\ app' = "rel_phase"
    /\ UNCHANGED <<releasing, phase, active, scan_busy, config_busy,
                   config_changed, thread, slave, config, fsmvars, dgvars, envvars>>

ReleasePhase ==
    /\ app = "rel_phase"
    /\ phase' = "IDLE"
    /\ app' = "none"
    /\ releasing' = FALSE
    /\ UNCHANGED <<active, allow_scan, scan_busy, config_busy, config_changed,
                   thread, slave, config, fsmvars, dgvars, envvars>>

-----------------------------------------------------------------------------
(* The device. *)

\* ecdev_open(), ec_master_enter_idle_phase()
Open ==
    /\ phase = "ORPHANED"
    /\ phase' = "IDLE"
    /\ responding' = 0
    /\ thread' = "idle"
    /\ UNCHANGED <<appvars, active, allow_scan, scan_busy, config_busy,
                   config_changed, slave, config, state, link_state,
                   rescan_required, dgvars, envvars>>

\* Mutation of Close: the state machine is not reset.
CloseNoReset ==
    /\ app = "none" /\ phase = "IDLE"
    /\ state \notin {"scan", "configure"} \/ StopsScan
    /\ phase' = "ORPHANED"
    /\ thread' = "none"
    /\ slave' = None
    /\ config' = Detached
    /\ UNCHANGED <<appvars, active, allow_scan, scan_busy, config_busy,
                   config_changed, fsmvars, dgvars, envvars>>

\* ecdev_close(), ec_master_leave_idle_phase() with ec_fsm_master_reset().  A
\* request keeps the device's module from going away.  The EoE handlers stay,
\* with their pointers to slaves, until the next scan.
Close ==
    /\ app = "none" /\ phase = "IDLE"
    /\ state \notin {"scan", "configure"} \/ StopsScan
    /\ phase' = "ORPHANED"
    /\ thread' = "none"
    /\ slave' = None
    /\ config' = Detached
    /\ state' = "start" /\ responding' = 0
    /\ link_state' = FALSE /\ rescan_required' = FALSE
    /\ UNCHANGED <<appvars, active, allow_scan, scan_busy, config_busy,
                   config_changed, dgvars, envvars>>

\* ec_eoedev_open(): the network stack opens the network device, which there is
\* if the slave's mailbox protocols were read, together with its identity.
EoedevOpen ==
    /\ eoe # "open" /\ slave # None /\ slave.identified
    /\ eoe' = "open"
    /\ slave' = Requested(slave, "OP")
    /\ UNCHANGED <<appvars, flags, thread, config, fsmvars, dgvars, busvars>>

\* ec_eoedev_stop()
EoedevStop ==
    /\ eoe = "open"
    /\ eoe' = "closed"
    /\ slave' = Requested(slave, "PREOP")
    /\ UNCHANGED <<appvars, flags, thread, config, fsmvars, dgvars, busvars>>

-----------------------------------------------------------------------------
(* The datagram of the state machine. *)

\* ecrt_master_send(): without a link it fails.
Sent == IF link THEN "SENT" ELSE "FAILED"

\* The state machine's datagram has been prepared anew.  The idle thread
\* queues and sends it, the operation thread leaves that to the application.
Prepared ==
    /\ datagram' = IF thread = "op" THEN "INIT" ELSE Sent
    /\ wc' = 0
    /\ inject' = IF thread = "op" THEN TRUE ELSE inject

\* The cycle of the application.
Inject ==
    /\ app = "active" /\ inject
    /\ datagram' = Sent
    /\ inject' = FALSE
    /\ UNCHANGED <<appvars, flags, thread, slave, config, fsmvars, wc, envvars>>

\* An answer, or a timeout, seen by whoever receives.
Receive ==
    /\ thread = "idle" \/ app = "active"
    /\ datagram = "SENT"
    /\ \/ link /\ datagram' = "RECEIVED" /\ wc' = bus
       \/ datagram' = "FAILED" /\ UNCHANGED wc
    /\ UNCHANGED <<appvars, flags, thread, slave, config, fsmvars, inject, envvars>>

-----------------------------------------------------------------------------
(* The master state machine. *)

\* ec_fsm_master_exec(), from either thread.
Exec ==
    /\ thread # "none"
    /\ datagram \notin {"QUEUED", "SENT"}
    /\ thread = "op" => ~inject

Answered == datagram = "RECEIVED" /\ wc = 1

\* ec_fsm_master_restart(): START prepares the next broadcast.
Restart == state' = "broadcast"

\* ec_master_request_op()
RequestOp(s) ==
    IF active /\ s # None /\ (config = "attached" \/ s.ref)
    THEN Requested(s, "OP") ELSE s

\* ec_fsm_master_enter_write_system_times(), for the slaves from s on: either
\* they have a clock and there is an application time, or all is done.
WriteSystemTimes(s) ==
    \/ state' = "write_times" /\ slave' = s
    \/ Restart /\ slave' = RequestOp(s)

StateStart ==
    /\ state = "start"
    /\ state' = "broadcast"
    /\ UNCHANGED <<slave, eoe, config, responding, link_state, rescan_required,
                   scan_busy, config_busy, config_changed>>

\* What the broadcast says.
Count == IF datagram = "RECEIVED" THEN wc ELSE 0
LinkLost == link_state /\ ~link
Rescan == rescan_required \/ Count # responding
Listed == IF LinkLost THEN None ELSE slave

\* ec_slave_init()
NewSlave == [requested |-> "PREOP", force_config |-> phase # "OPERATION",
             error_flag |-> FALSE, identified |-> FALSE, ref |-> FALSE]

\* ec_fsm_master_state_broadcast(): the slaves and their EoE handlers are
\* cleared, and the bus is scanned.
BroadcastScan ==
    /\ state = "broadcast" /\ Rescan /\ allow_scan
    /\ rescan_required' = FALSE
    /\ responding' = IF LinkLost THEN 0 ELSE Count
    /\ config' = Detached /\ eoe' = "none"
    /\ IF responding' = 0
       THEN slave' = None /\ UNCHANGED scan_busy /\ Restart
       ELSE slave' = NewSlave /\ scan_busy' = TRUE /\ state' = "scan"
    /\ link_state' = link
    /\ UNCHANGED <<config_busy, config_changed>>

\* ... or not: the slaves' states are read, or a new configuration is applied.
Broadcast ==
    /\ state = "broadcast" /\ ~(Rescan /\ allow_scan)
    /\ rescan_required' = Rescan
    /\ responding' = IF LinkLost THEN 0 ELSE Count
    /\ config' = IF LinkLost THEN Detached ELSE config
    /\ eoe' = IF LinkLost THEN "none" ELSE eoe
    /\ \/ Listed = None /\ Restart /\ slave' = None /\ UNCHANGED config_changed
       \/ /\ Listed # None /\ config_changed
          /\ config_changed' = FALSE
          /\ WriteSystemTimes(Listed)
       \/ /\ Listed # None /\ ~config_changed
          /\ state' = "read_state" /\ slave' = Listed
          /\ UNCHANGED config_changed
    /\ link_state' = link
    /\ UNCHANGED <<scan_busy, config_busy>>

\* Mutation of ScanFails: the flag stays.
ScanFailsBusy ==
    /\ state = "scan" /\ datagram # "RECEIVED"
    /\ Restart
    /\ UNCHANGED <<slave, eoe, config, scan_busy, responding, link_state,
                   rescan_required, config_busy, config_changed>>

\* ec_fsm_master_state_clear_addresses(), ..._dc_measure_delays(): the
\* datagram is not received, and the scan is given up.
ScanFails ==
    /\ state = "scan" /\ datagram # "RECEIVED"
    /\ scan_busy' = FALSE
    /\ Restart
    /\ UNCHANGED <<slave, eoe, config, responding, link_state, rescan_required,
                   config_busy, config_changed>>

\* ec_fsm_master_state_scan_slave(): the last slave is scanned, well or badly.
ScanDone ==
    /\ state = "scan"
    /\ scan_busy' = FALSE
    /\ config_changed' = FALSE
    /\ \E ok \in {Answered, FALSE}, ref \in BOOLEAN :
          /\ config' = IF config = "detached" /\ ok THEN "attached" ELSE config
          /\ LET s == [slave EXCEPT !.identified = ok, !.error_flag = ~ok,
                                    !.ref = ok /\ ref]
             IN  \/ state' = "write_times" /\ slave' = s
                 \/ /\ Restart
                    /\ slave' = IF active /\ (config' = "attached" \/ s.ref)
                                THEN Requested(s, "OP") ELSE s
    /\ UNCHANGED <<eoe, responding, link_state, rescan_required, config_busy>>

\* ec_fsm_master_state_dc_read_offset(), ..._dc_write_offset()
WriteTimes ==
    /\ state = "write_times"
    /\ WriteSystemTimes(slave)
    /\ UNCHANGED <<eoe, config, responding, link_state, rescan_required, scan_busy,
                   config_busy, config_changed>>

\* ec_fsm_master_state_read_state(): no answer, or not from this slave.
ReadFails ==
    /\ state = "read_state" /\ ~Answered
    /\ IF datagram = "RECEIVED"
       THEN /\ slave' = [slave EXCEPT !.error_flag = TRUE]
            /\ rescan_required' = TRUE
       ELSE UNCHANGED <<slave, rescan_required>>
    /\ Restart
    /\ UNCHANGED <<eoe, config, responding, link_state, scan_busy, config_busy,
                   config_changed>>

\* ec_fsm_master_action_configure()
ReadState ==
    /\ state = "read_state" /\ Answered
    /\ \/ /\ config_changed /\ ~slave.error_flag
          /\ config_changed' = FALSE
          /\ WriteSystemTimes(slave)
          /\ UNCHANGED config_busy
       \/ /\ ~config_changed /\ ~slave.error_flag
          /\ config_busy' = TRUE /\ state' = "configure"
          /\ UNCHANGED <<slave, config_changed>>
       \/ /\ slave.error_flag \/ (~config_changed /\ ~slave.force_config)
          /\ Restart
          /\ UNCHANGED <<slave, config_busy, config_changed>>
    /\ UNCHANGED <<eoe, config, responding, link_state, rescan_required, scan_busy>>

\* ec_fsm_master_state_configure_slave()
Configure ==
    /\ state = "configure"
    /\ config_busy' = FALSE
    /\ \E failed \in {~Answered, TRUE} :
          slave' = [slave EXCEPT !.force_config = FALSE,
                                 !.error_flag = @ \/ failed]
    /\ Restart
    /\ UNCHANGED <<eoe, config, responding, link_state, rescan_required, scan_busy,
                   config_changed>>

Fsm ==
    /\ Exec
    /\ StateStart \/ BroadcastScan \/ Broadcast \/ ScanFails \/ ScanDone
          \/ WriteTimes \/ ReadFails \/ ReadState \/ Configure
    /\ Prepared
    /\ UNCHANGED <<appvars, phase, active, allow_scan, thread, busvars>>

\* ec_ioctl_master_rescan()
RescanIoctl ==
    /\ ~rescan_required
    /\ rescan_required' = TRUE
    /\ UNCHANGED <<appvars, flags, thread, slave, config, state, responding,
                   link_state, dgvars, envvars>>

\* The slave appears or vanishes, the link comes or goes.  Without a link nobody
\* sees whether there is a slave.
Environment ==
    /\ \/ link /\ bus' = 1 - bus /\ UNCHANGED link
       \/ link /\ link' = FALSE /\ bus' = 0
       \/ ~link /\ link' = TRUE /\ bus' \in {0, 1}
    /\ UNCHANGED <<appvars, flags, thread, slave, eoe, config, fsmvars, dgvars>>

-----------------------------------------------------------------------------
\* The calls of the application, once begun.
Calls ==
    \/ WaitConfig \/ LockSlaves \/ WaitScan
    \/ SetStates \/ SeeOpen \/ SetEoeStates
    \/ ActivateThread \/ ActivateScan \/ ActivateActive \/ ActivateConfig
    \/ DeactivateConfig \/ DeactivateStates \/ DeactivateOpen \/ DeactivateEoe
    \/ DeactivateThread \/ DeactivateScan \/ DeactivateActive
    \/ ReleaseScan \/ ReleasePhase

Next ==
    \/ Request \/ Interrupt \/ SlaveConfig
    \/ ActivateStop \/ DeactivateStop \/ Release \/ Calls
    \/ Open \/ Close \/ EoedevOpen \/ EoedevStop
    \/ Inject \/ Receive \/ Fsm
    \/ RescanIoctl \/ Environment

Spec == Init /\ [][Next]_vars

\* A call goes on, threads run, the application keeps its cycle, and a datagram
\* is answered or times out.
FairSpec ==
    /\ Spec
    /\ WF_vars(Calls) /\ WF_vars(Fsm) /\ WF_vars(Inject) /\ WF_vars(Receive)

-----------------------------------------------------------------------------
(* Properties. *)

TypeOK ==
    /\ app \in Calling \union {"none", "requested", "active"}
    /\ phase \in {"ORPHANED", "IDLE", "OPERATION"}
    /\ releasing \in BOOLEAN /\ active \in BOOLEAN /\ allow_scan \in BOOLEAN
    /\ scan_busy \in BOOLEAN /\ config_busy \in BOOLEAN
    /\ config_changed \in BOOLEAN /\ inject \in BOOLEAN
    /\ link_state \in BOOLEAN /\ rescan_required \in BOOLEAN /\ link \in BOOLEAN
    /\ thread \in {"none", "idle", "op"}
    /\ slave \in SlaveObjects \union {None}
    /\ eoe \in {"none", "open", "closed"}
    /\ config \in {"none", "detached", "attached"}
    /\ state \in {"start", "broadcast", "scan", "write_times", "read_state",
                 "configure"}
    /\ datagram \in {"INIT", "SENT", "RECEIVED", "FAILED"}
    /\ responding \in {0, 1} /\ wc \in {0, 1} /\ bus \in {0, 1}

\* The request is within its loops.
GoingThrough == app \in {"states", "eoe_open", "eoe_states"}

\* While the request goes through master->slaves no scan is going on, and the
\* state machine neither frees nor allocates the list, but for the one case
\* that ignores allow_scan: the link is lost.
SlaveListLocked ==
    [][GoingThrough =>
          /\ ~scan_busy /\ ~scan_busy'
          /\ (slave = None) # (slave' = None) => slave' = None /\ LinkLost]_vars

\* Nothing points to a slave that is not there any more: neither the state machine,
\* in a state that works on a slave, nor the configuration.
SlaveThere ==
    /\ state \in {"scan", "write_times", "read_state", "configure"} => slave # None
    /\ config = "attached" => slave # None

\* While the master is not active no slave is on its way to OP, whatever the
\* master's thread did during the deactivation; but for the reference clock, see
\* README, and a slave whose network device was opened since the scan.
PreopWhenInactive ==
    ~active /\ slave # None
        => \/ slave.requested = "PREOP" \/ slave.ref
           \/ eoe \in {"open", "closed"}

\* A master that is not requested scans when the bus changes.
ScansWhenIdle == app = "none" => allow_scan

\* A request does not wait for ever: what it waits for comes true, and for a
\* scan, which is locked out, so that it is seen.
RequestReturns ==
    /\ app = "wait_config" ~> ~config_busy
    /\ app = "wait_scan" ~> app # "wait_scan"

\* A configured slave that stays on an active master's bus is brought to OP,
\* provided that the state machine finishes what it does, and that nobody stops
\* the slave's network device: ec_eoedev_stop() does not look at active.
Activated ==
    <>[](app = "active" /\ config = "attached" /\ eoe # "closed")
    /\ []<>(state = "broadcast")
        => <>[](slave # None /\ slave.requested = "OP")
=============================================================================
