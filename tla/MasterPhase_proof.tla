-------------------------- MODULE MasterPhase_proof --------------------------
(***************************************************************************)
(* Proofs about MasterPhase: the type invariant, that nothing points to a  *)
(* slave that is not there, the locking of the slave list, and that an     *)
(* inactive master keeps its slave in PREOP.                               *)
(***************************************************************************)
EXTENDS MasterPhase, TLAPS

-----------------------------------------------------------------------------
(* The inductive invariant. *)

\* Where the application holds the lock of the slave list, and where not.
LockInv ==
    /\ app \in {"wait_scan", "states", "eoe_open", "eoe_states", "requested",
                "act_thread", "act_scan", "dea_active", "rel_scan"} => ~allow_scan
    /\ app \in {"none", "wait_config", "lock", "rel_phase"} => allow_scan

\* A scan that was going on when the list was locked has ended.
ScanInv == GoingThrough => ~scan_busy

\* A deactivation leaves no configuration by which the thread, which runs
\* again while active is still set, could request OP.
ActiveInv ==
    /\ active => app \in {"act_config", "active", "dea_config", "dea_states",
                          "dea_open", "dea_eoe", "dea_thread", "dea_scan",
                          "dea_active"}
    /\ app \in {"dea_states", "dea_open", "dea_eoe", "dea_thread", "dea_scan",
                "dea_active"} => config = "none"

\* The thread stands still while the slaves' states are set in a deactivation.
ThreadInv ==
    /\ app \in {"dea_config", "dea_states", "dea_open", "dea_eoe"} => thread = "none"
    /\ app # "none" => phase # "ORPHANED"

\* A slave with a network device in the given state is not on its way to OP,
\* unless it is the reference clock or the device was opened.
Quiet(s, device) ==
    s # None => \/ s.requested = "PREOP" \/ s.ref
                \/ device \in {"open", "closed"}

\* A slave that is being scanned has been initialised, no state has been
\* requested of it but PREOP, and it has no network device.
FreshInv ==
    state = "scan" => /\ slave.requested = "PREOP" /\ ~slave.identified
                      /\ eoe = "none"

\* OP is requested of a slave whose device was open, though it may have been
\* closed since, or of one that is gone.
SeenInv ==
    app \in {"eoe_states", "dea_eoe"} => slave = None \/ eoe \in {"open", "closed"}

QuietInv ==
    ~active \/ app \in {"dea_open", "dea_eoe", "dea_thread", "dea_scan", "dea_active"}
        => Quiet(slave, eoe)

IInv ==
    /\ SlaveThere
    /\ LockInv
    /\ ScanInv
    /\ ActiveInv
    /\ ThreadInv
    /\ FreshInv
    /\ SeenInv
    /\ QuietInv

-----------------------------------------------------------------------------
(* Lemmas. *)

\* What the operators on a slave return.
LEMMA SlaveOperators ==
    ASSUME NEW s \in SlaveObjects \union {None}, NEW al \in {"PREOP", "OP"}
    PROVE  /\ Requested(s, al) \in SlaveObjects \union {None}
           /\ Requested(s, al) = None <=> s = None
           /\ s # None => /\ Requested(s, al).requested = al
                          /\ Requested(s, al).ref = s.ref
                          /\ Requested(s, al).identified = s.identified
BY PhaseAssumption DEF Requested, SlaveObjects

\* A request for OP keeps the slave, and without configuration only the
\* reference clock is affected.
LEMMA RequestOpProperties ==
    ASSUME TypeOK, NEW s \in SlaveObjects \union {None}
    PROVE  /\ RequestOp(s) \in SlaveObjects \union {None}
           /\ RequestOp(s) = None <=> s = None
           /\ ~active \/ config # "attached" => (Quiet(s, eoe) => Quiet(RequestOp(s), eoe))
BY SlaveOperators, PhaseAssumption DEF RequestOp, Quiet, TypeOK

\* The slave as a scan leaves it, and what follows from that.
Scanned(ok, ref) ==
    [slave EXCEPT !.identified = ok, !.error_flag = ~ok, !.ref = ok /\ ref]

ScanResult(ok, ref) ==
    /\ config' = IF config = "detached" /\ ok THEN "attached" ELSE config
    /\ \/ state' = "write_times" /\ slave' = Scanned(ok, ref)
       \/ /\ Restart
          /\ slave' = IF active /\ (config' = "attached" \/ Scanned(ok, ref).ref)
                      THEN Requested(Scanned(ok, ref), "OP") ELSE Scanned(ok, ref)

LEMMA ScanResults ==
    ASSUME ScanDone
    PROVE  \E ok \in BOOLEAN, ref \in BOOLEAN : ScanResult(ok, ref)
BY DEF ScanDone, ScanResult, Scanned, Answered

\* Every step keeps the types: the calls of the application, the device, the
\* datagram, and the state machine, which works on a slave only if there is one.
LEMMA TypeStep ==
    ASSUME TypeOK, SlaveThere, Next
    PROVE  TypeOK'
<1> USE PhaseAssumption DEF TypeOK, Calling, appvars, flags, fsmvars, dgvars, busvars, envvars
<1>1. CASE Request \/ Interrupt \/ SlaveConfig
  <2>1. CASE Request
    BY <2>1 DEF Request
  <2>2. CASE Interrupt
    <3>1. allow_scan' \in BOOLEAN
      BY <2>2 DEF Interrupt
    <3>2. QED
      BY <2>2, <3>1 DEF Interrupt
  <2>3. CASE SlaveConfig
    BY <2>3 DEF SlaveConfig
  <2>4. QED
    BY <1>1, <2>1, <2>2, <2>3
<1>2. CASE ActivateStop \/ DeactivateStop \/ Release
  BY <1>2 DEF ActivateStop, DeactivateStop, Release
<1>3. CASE Calls
  <2>1. CASE WaitConfig
    BY <2>1 DEF WaitConfig
  <2>2. CASE LockSlaves
    <3>1. app' \in Calling /\ allow_scan' \in BOOLEAN
      BY <2>2 DEF LockSlaves
    <3>2. QED
      BY <2>2, <3>1 DEF LockSlaves
  <2>3. CASE WaitScan
    BY <2>3 DEF WaitScan
  <2>4. CASE SetStates
    <3>1. slave' \in SlaveObjects \union {None}
      BY <2>4, SlaveOperators DEF SetStates
    <3>2. QED
      BY <2>4, <3>1 DEF SetStates
  <2>17. CASE SeeOpen
    BY <2>17 DEF SeeOpen
  <2>18. CASE SetEoeStates
    <3>1. slave' \in SlaveObjects \union {None}
      BY <2>18, SlaveOperators DEF SetEoeStates
    <3>2. QED
      BY <2>18, <3>1 DEF SetEoeStates
  <2>5. CASE ActivateThread
    <3>1. inject' \in BOOLEAN
      BY <2>5 DEF ActivateThread
    <3>2. QED
      BY <2>5, <3>1 DEF ActivateThread
  <2>6. CASE ActivateScan
    BY <2>6 DEF ActivateScan
  <2>7. CASE ActivateActive
    BY <2>7 DEF ActivateActive
  <2>8. CASE ActivateConfig
    BY <2>8 DEF ActivateConfig
  <2>9. CASE DeactivateConfig
    BY <2>9 DEF DeactivateConfig
  <2>10. CASE DeactivateStates
    <3>1. slave' \in SlaveObjects \union {None}
      BY <2>10 DEF DeactivateStates, Requested, SlaveObjects
    <3>2. QED
      BY <2>10, <3>1 DEF DeactivateStates
  <2>19. CASE DeactivateOpen
    BY <2>19 DEF DeactivateOpen
  <2>20. CASE DeactivateEoe
    <3>1. slave' \in SlaveObjects \union {None}
      BY <2>20, SlaveOperators DEF DeactivateEoe
    <3>2. QED
      BY <2>20, <3>1 DEF DeactivateEoe
  <2>11. CASE DeactivateThread
    BY <2>11 DEF DeactivateThread
  <2>12. CASE DeactivateScan
    <3>1. allow_scan' \in BOOLEAN
      BY <2>12 DEF DeactivateScan
    <3>2. QED
      BY <2>12, <3>1 DEF DeactivateScan
  <2>13. CASE DeactivateActive
    <3>1. active' \in BOOLEAN
      BY <2>13 DEF DeactivateActive
    <3>2. QED
      BY <2>13, <3>1 DEF DeactivateActive
  <2>14. CASE ReleaseScan
    BY <2>14 DEF ReleaseScan
  <2>15. CASE ReleasePhase
    <3>1. releasing' \in BOOLEAN
      BY <2>15 DEF ReleasePhase
    <3>2. QED
      BY <2>15, <3>1 DEF ReleasePhase
  <2>16. QED
    BY <1>3, <2>1, <2>2, <2>3, <2>4, <2>5, <2>6, <2>7, <2>8, <2>9, <2>10, <2>11, <2>12, <2>13, <2>14, <2>15,
       <2>17, <2>18, <2>19, <2>20 DEF Calls
<1>4. CASE Open \/ Close
  <2>1. CASE Open
    BY <2>1 DEF Open
  <2>2. CASE Close
    <3>1. link_state' \in BOOLEAN /\ rescan_required' \in BOOLEAN
      BY <2>2 DEF Close
    <3>2. QED
      BY <2>2, <3>1 DEF Close, Detached
  <2>3. QED
    BY <1>4, <2>1, <2>2
<1>5. CASE Inject \/ Receive
  <2>1. CASE Inject
    <3>1. inject' \in BOOLEAN
      BY <2>1 DEF Inject
    <3>2. QED
      BY <2>1, <3>1 DEF Inject, Sent
  <2>2. CASE Receive
    BY <2>2 DEF Receive
  <2>3. QED
    BY <1>5, <2>1, <2>2
<1>6. CASE Fsm
  <2>1. /\ datagram' \in {"INIT", "SENT", "RECEIVED", "FAILED"}
        /\ wc' \in {0, 1} /\ inject' \in BOOLEAN
    BY <1>6 DEF Fsm, Prepared, Sent
  <2>2. UNCHANGED <<app, releasing, phase, active, allow_scan, thread, bus, link>>
    BY <1>6 DEF Fsm
  <2> DEFINE FsmTypes ==
        /\ scan_busy' \in BOOLEAN /\ config_busy' \in BOOLEAN
        /\ config_changed' \in BOOLEAN
        /\ slave' \in SlaveObjects \union {None}
        /\ eoe' \in {"none", "open", "closed"}
        /\ config' \in {"none", "detached", "attached"}
        /\ state' \in {"start", "broadcast", "scan", "write_times", "read_state",
                       "configure"}
        /\ responding' \in {0, 1}
        /\ link_state' \in BOOLEAN /\ rescan_required' \in BOOLEAN
  <2>3. ASSUME StateStart PROVE FsmTypes
    BY <2>3 DEF StateStart
  <2>4. ASSUME BroadcastScan PROVE FsmTypes
    <3>1. scan_busy' \in BOOLEAN /\ rescan_required' \in BOOLEAN
      BY <2>4 DEF BroadcastScan
    <3>2. NewSlave \in SlaveObjects
      BY DEF NewSlave, SlaveObjects
    <3>3. responding' \in {0, 1}
      BY <2>4 DEF BroadcastScan, Count
    <3>4. /\ slave' \in SlaveObjects \union {None}
          /\ state' \in {"broadcast", "scan"}
      BY <2>4, <3>2 DEF BroadcastScan, Restart
    <3>5. QED
      BY <2>4, <3>1, <3>3, <3>4 DEF BroadcastScan, Detached
  <2>5. ASSUME Broadcast PROVE FsmTypes
    <3>1. config_changed' \in BOOLEAN
      BY <2>5 DEF Broadcast
    <3>2. rescan_required' \in BOOLEAN
      BY <2>5 DEF Broadcast, Rescan
    <3>3. responding' \in {0, 1}
      BY <2>5 DEF Broadcast, Count
    <3>4. Listed \in SlaveObjects \union {None}
      BY DEF Listed
    <3>5. /\ slave' \in SlaveObjects \union {None}
          /\ state' \in {"broadcast", "write_times", "read_state"}
      BY <2>5, <3>4, RequestOpProperties DEF Broadcast, WriteSystemTimes, Restart
    <3>6. QED
      BY <2>5, <3>1, <3>2, <3>3, <3>5 DEF Broadcast, Detached
  <2>6. ASSUME ScanFails PROVE FsmTypes
    <3>1. scan_busy' \in BOOLEAN
      BY <2>6 DEF ScanFails
    <3>2. QED
      BY <2>6, <3>1 DEF ScanFails, Restart
  <2>7. ASSUME ScanDone PROVE FsmTypes
    <3>1. slave \in SlaveObjects
      BY <2>7 DEF ScanDone, SlaveThere
    <3>2. scan_busy' \in BOOLEAN /\ config_changed' \in BOOLEAN
      BY <2>7 DEF ScanDone
    <3>3. PICK ok \in BOOLEAN, ref \in BOOLEAN : ScanResult(ok, ref)
      BY <2>7, ScanResults
    <3>4. Scanned(ok, ref) \in SlaveObjects
      BY <3>1 DEF Scanned, SlaveObjects
    <3>5. /\ slave' \in SlaveObjects \union {None}
          /\ state' \in {"broadcast", "write_times"}
      BY <3>3, <3>4, SlaveOperators DEF ScanResult, Restart
    <3>6. config' \in {"none", "detached", "attached"}
      BY <3>3 DEF ScanResult
    <3>7. QED
      BY <2>7, <3>2, <3>5, <3>6 DEF ScanDone
  <2>8. ASSUME WriteTimes PROVE FsmTypes
    <3>1. /\ slave' \in SlaveObjects \union {None}
          /\ state' \in {"broadcast", "write_times"}
      BY <2>8, RequestOpProperties DEF WriteTimes, WriteSystemTimes, Restart
    <3>2. QED
      BY <2>8, <3>1 DEF WriteTimes
  <2>9. ASSUME ReadFails PROVE FsmTypes
    <3>1. slave \in SlaveObjects
      BY <2>9 DEF ReadFails, SlaveThere
    <3>2. slave' \in SlaveObjects
      BY <2>9, <3>1 DEF ReadFails, SlaveObjects
    <3>3. rescan_required' \in BOOLEAN
      BY <2>9 DEF ReadFails
    <3>4. QED
      BY <2>9, <3>2, <3>3 DEF ReadFails, Restart
  <2>10. ASSUME ReadState PROVE FsmTypes
    <3>1. config_changed' \in BOOLEAN /\ config_busy' \in BOOLEAN
      BY <2>10 DEF ReadState
    <3>2. /\ slave' \in SlaveObjects \union {None}
          /\ state' \in {"broadcast", "write_times", "configure"}
      BY <2>10, RequestOpProperties DEF ReadState, WriteSystemTimes, Restart
    <3>3. QED
      BY <2>10, <3>1, <3>2 DEF ReadState
  <2>11. ASSUME Configure PROVE FsmTypes
    <3>1. slave \in SlaveObjects
      BY <2>11 DEF Configure, SlaveThere
    <3>2. PICK failed \in BOOLEAN :
             slave' = [slave EXCEPT !.force_config = FALSE,
                                    !.error_flag = @ \/ failed]
      BY <2>11 DEF Configure, Answered
    <3>3. slave' \in SlaveObjects
      BY <3>1, <3>2 DEF SlaveObjects
    <3>4. config_busy' \in BOOLEAN
      BY <2>11 DEF Configure
    <3>5. QED
      BY <2>11, <3>3, <3>4 DEF Configure, Restart
  <2>12. FsmTypes
    BY <1>6, <2>3, <2>4, <2>5, <2>6, <2>7, <2>8, <2>9, <2>10, <2>11 DEF Fsm
  <2>13. QED
    BY <2>1, <2>2, <2>12
<1>7. CASE RescanIoctl \/ Environment
  <2>1. CASE RescanIoctl
    BY <2>1 DEF RescanIoctl
  <2>2. CASE Environment
    <3>1. link' \in BOOLEAN
      BY <2>2 DEF Environment
    <3>2. bus' \in {0, 1}
      BY <2>2 DEF Environment
    <3>3. QED
      BY <2>2, <3>1, <3>2 DEF Environment
  <2>3. QED
    BY <1>7, <2>1, <2>2
<1>9. CASE EoedevOpen \/ EoedevStop
  <2>1. slave' \in SlaveObjects \union {None}
    BY <1>9, SlaveOperators DEF EoedevOpen, EoedevStop
  <2>2. eoe' \in {"none", "open", "closed"}
    BY <1>9 DEF EoedevOpen, EoedevStop
  <2>3. QED
    BY <1>9, <2>1, <2>2 DEF EoedevOpen, EoedevStop
<1>8. QED
  BY <1>1, <1>2, <1>3, <1>4, <1>5, <1>6, <1>7, <1>9 DEF Next

\* What a step of the state machine leaves alone.
LEMMA FsmFrame ==
    ASSUME Fsm
    PROVE  UNCHANGED <<app, releasing, phase, active, allow_scan, thread, bus, link>>
BY DEF Fsm, appvars, busvars

\* A scan begins only if allow_scan is set.
LEMMA NoScanBegins ==
    ASSUME Fsm, ~allow_scan, ~scan_busy
    PROVE  ~scan_busy'
<1>1. CASE StateStart \/ Broadcast \/ ScanFails \/ ScanDone
  BY <1>1 DEF StateStart, Broadcast, ScanFails, ScanDone
<1>2. CASE WriteTimes \/ ReadFails \/ ReadState \/ Configure
  BY <1>2 DEF WriteTimes, ReadFails, ReadState, Configure
<1>3. CASE BroadcastScan
  BY <1>3 DEF BroadcastScan
<1>4. QED
  BY <1>1, <1>2, <1>3 DEF Fsm

\* The lock of the slave list, and no scan while a request goes through the
\* list: the state machine starts one only if allow_scan is set.
LEMMA LockStep ==
    ASSUME TypeOK, LockInv, ScanInv, Next
    PROVE  LockInv' /\ ScanInv'
<1> USE DEF LockInv, ScanInv, GoingThrough, flags, appvars, dgvars, fsmvars, busvars, envvars
<1>1. CASE Request \/ Interrupt \/ SlaveConfig
  BY <1>1 DEF Request, Interrupt, SlaveConfig
<1>2. CASE ActivateStop \/ DeactivateStop \/ Release
  BY <1>2 DEF ActivateStop, DeactivateStop, Release
<1>3. CASE Calls
  <2>1. CASE WaitConfig
    BY <2>1 DEF WaitConfig
  <2>2. CASE LockSlaves
    BY <2>2 DEF LockSlaves
  <2>3. CASE WaitScan
    BY <2>3 DEF WaitScan
  <2>9. CASE SetStates \/ SeeOpen \/ SetEoeStates
    BY <2>9 DEF SetStates, SeeOpen, SetEoeStates
  <2>4. CASE ActivateThread \/ ActivateScan \/ ActivateActive \/ ActivateConfig
    BY <2>4 DEF ActivateThread, ActivateScan, ActivateActive, ActivateConfig
  <2>5. CASE DeactivateConfig \/ DeactivateStates \/ DeactivateThread
    BY <2>5 DEF DeactivateConfig, DeactivateStates, DeactivateThread
  <2>10. CASE DeactivateOpen \/ DeactivateEoe
    BY <2>10 DEF DeactivateOpen, DeactivateEoe
  <2>6. CASE DeactivateScan \/ DeactivateActive
    BY <2>6 DEF DeactivateScan, DeactivateActive
  <2>7. CASE ReleaseScan \/ ReleasePhase
    BY <2>7 DEF ReleaseScan, ReleasePhase
  <2>8. QED
    BY <1>3, <2>1, <2>2, <2>3, <2>4, <2>5, <2>6, <2>7, <2>9, <2>10 DEF Calls
<1>4. CASE Open \/ Close
  BY <1>4 DEF Open, Close
<1>5. CASE Inject \/ Receive
  BY <1>5 DEF Inject, Receive
<1>6. CASE Fsm
  <2>1. LockInv'
    BY <1>6, FsmFrame
  <2>2. GoingThrough => ~scan_busy'
    BY <1>6, NoScanBegins
  <2>3. QED
    BY <1>6, <2>1, <2>2, FsmFrame
<1>7. CASE RescanIoctl \/ Environment
  BY <1>7 DEF RescanIoctl, Environment
<1>9. CASE EoedevOpen \/ EoedevStop
  BY <1>9 DEF EoedevOpen, EoedevStop
<1>8. QED
  BY <1>1, <1>2, <1>3, <1>4, <1>5, <1>6, <1>7, <1>9 DEF Next

\* The state machine, and the configuration, point to a slave that is there.
LEMMA SlaveThereStep ==
    ASSUME TypeOK, SlaveThere, Next
    PROVE  SlaveThere'
<1> USE PhaseAssumption DEF SlaveThere, flags, appvars, dgvars, fsmvars, busvars, envvars
<1>1. CASE Request \/ Interrupt \/ SlaveConfig
  BY <1>1 DEF Request, Interrupt, SlaveConfig
<1>2. CASE ActivateStop \/ DeactivateStop \/ Release
  BY <1>2 DEF ActivateStop, DeactivateStop, Release
<1>3. CASE Calls
  <2>1. CASE WaitConfig \/ LockSlaves \/ WaitScan
    BY <2>1 DEF WaitConfig, LockSlaves, WaitScan
  <2>2. CASE SetStates
    BY <2>2, SlaveOperators DEF SetStates, TypeOK
  <2>9. CASE SeeOpen \/ DeactivateOpen
    BY <2>9 DEF SeeOpen, DeactivateOpen
  <2>10. CASE SetEoeStates \/ DeactivateEoe
    BY <2>10, SlaveOperators DEF SetEoeStates, DeactivateEoe, TypeOK
  <2>3. CASE ActivateThread \/ ActivateScan \/ ActivateActive \/ ActivateConfig
    BY <2>3 DEF ActivateThread, ActivateScan, ActivateActive, ActivateConfig
  <2>4. CASE DeactivateConfig
    BY <2>4 DEF DeactivateConfig
  <2>5. CASE DeactivateStates
    <3>1. slave # None => slave' # None
      BY <2>5 DEF DeactivateStates, Requested, TypeOK, SlaveObjects
    <3>2. QED
      BY <2>5, <3>1 DEF DeactivateStates
  <2>6. CASE DeactivateThread \/ DeactivateScan \/ DeactivateActive
    BY <2>6 DEF DeactivateThread, DeactivateScan, DeactivateActive
  <2>7. CASE ReleaseScan \/ ReleasePhase
    BY <2>7 DEF ReleaseScan, ReleasePhase
  <2>8. QED
    BY <1>3, <2>1, <2>2, <2>3, <2>4, <2>5, <2>6, <2>7, <2>9, <2>10 DEF Calls
<1>4. CASE Open \/ Close
  BY <1>4 DEF Open, Close, Detached
<1>5. CASE Inject \/ Receive
  BY <1>5 DEF Inject, Receive
<1>6. CASE Fsm
  <2>1. CASE StateStart \/ ScanFails
    BY <2>1 DEF StateStart, ScanFails, Restart
  <2>2. CASE BroadcastScan
    <3>1. NewSlave \in SlaveObjects
      BY DEF NewSlave, SlaveObjects
    <3>2. QED
      BY <2>2, <3>1 DEF BroadcastScan, Restart, Detached
  <2>3. CASE Broadcast
    <3>1. Listed \in SlaveObjects \union {None}
      BY DEF Listed, TypeOK
    <3>2. slave' = None <=> Listed = None
      BY <2>3, <3>1, RequestOpProperties DEF Broadcast, WriteSystemTimes
    <3>3. Listed = None => state' = "broadcast"
      BY <2>3 DEF Broadcast, Restart
    <3>4. config' = "attached" => Listed # None
      BY <2>3 DEF Broadcast, Listed, Detached
    <3>5. QED
      BY <3>2, <3>3, <3>4
  <2>4. CASE ScanDone
    <3>1. slave \in SlaveObjects
      BY <2>4 DEF ScanDone, TypeOK
    <3>2. PICK ok \in BOOLEAN, ref \in BOOLEAN : ScanResult(ok, ref)
      BY <2>4, ScanResults
    <3>3. Scanned(ok, ref) \in SlaveObjects
      BY <3>1 DEF Scanned, SlaveObjects
    <3>4. slave' # None
      BY <3>2, <3>3, SlaveOperators DEF ScanResult
    <3>5. QED
      BY <3>4
  <2>5. CASE WriteTimes
    <3>1. slave' # None
      BY <2>5, RequestOpProperties DEF WriteTimes, WriteSystemTimes, TypeOK
    <3>2. QED
      BY <3>1
  <2>6. CASE ReadFails
    <3>1. slave' # None
      BY <2>6 DEF ReadFails, TypeOK, SlaveObjects
    <3>2. QED
      BY <3>1
  <2>7. CASE ReadState
    <3>1. slave' # None
      BY <2>7, RequestOpProperties DEF ReadState, WriteSystemTimes, TypeOK
    <3>2. QED
      BY <3>1
  <2>8. CASE Configure
    <3>1. PICK failed \in BOOLEAN :
             slave' = [slave EXCEPT !.force_config = FALSE,
                                    !.error_flag = @ \/ failed]
      BY <2>8 DEF Configure, Answered
    <3>2. slave' # None
      BY <2>8, <3>1 DEF Configure, TypeOK, SlaveObjects
    <3>3. QED
      BY <3>2
  <2>9. QED
    BY <1>6, <2>1, <2>2, <2>3, <2>4, <2>5, <2>6, <2>7, <2>8 DEF Fsm
<1>7. CASE RescanIoctl \/ Environment
  BY <1>7 DEF RescanIoctl, Environment
<1>9. CASE EoedevOpen \/ EoedevStop
  BY <1>9, SlaveOperators DEF EoedevOpen, EoedevStop, TypeOK
<1>8. QED
  BY <1>1, <1>2, <1>3, <1>4, <1>5, <1>6, <1>7, <1>9 DEF Next

\* The master is active within the application's calls only, and a deactivation
\* leaves no configuration, which nobody makes before it ends.
LEMMA ActiveStep ==
    ASSUME TypeOK, ActiveInv, Next
    PROVE  ActiveInv'
<1> USE DEF ActiveInv, flags, appvars, dgvars, fsmvars, busvars, envvars
<1>1. CASE Request \/ Interrupt \/ SlaveConfig
  BY <1>1 DEF Request, Interrupt, SlaveConfig
<1>2. CASE ActivateStop \/ DeactivateStop \/ Release
  BY <1>2 DEF ActivateStop, DeactivateStop, Release
<1>3. CASE Calls
  <2>1. CASE WaitConfig \/ LockSlaves
    BY <2>1 DEF WaitConfig, LockSlaves
  <2>2. CASE WaitScan
    BY <2>2 DEF WaitScan
  <2>9. CASE SetStates \/ SeeOpen \/ SetEoeStates
    BY <2>9 DEF SetStates, SeeOpen, SetEoeStates
  <2>3. CASE ActivateThread \/ ActivateScan \/ ActivateActive \/ ActivateConfig
    BY <2>3 DEF ActivateThread, ActivateScan, ActivateActive, ActivateConfig
  <2>4. CASE DeactivateConfig \/ DeactivateStates \/ DeactivateThread
    BY <2>4 DEF DeactivateConfig, DeactivateStates, DeactivateThread
  <2>10. CASE DeactivateOpen \/ DeactivateEoe
    BY <2>10 DEF DeactivateOpen, DeactivateEoe
  <2>5. CASE DeactivateScan
    BY <2>5 DEF DeactivateScan
  <2>6. CASE DeactivateActive
    BY <2>6 DEF DeactivateActive
  <2>7. CASE ReleaseScan \/ ReleasePhase
    BY <2>7 DEF ReleaseScan, ReleasePhase
  <2>8. QED
    BY <1>3, <2>1, <2>2, <2>3, <2>4, <2>5, <2>6, <2>7, <2>9, <2>10 DEF Calls
<1>4. CASE Open \/ Close
  BY <1>4 DEF Open, Close, Detached
<1>5. CASE Inject \/ Receive
  BY <1>5 DEF Inject, Receive
<1>6. CASE Fsm
  <2>1. config = "none" => config' = "none"
    <3>1. CASE ScanDone
      BY <3>1 DEF ScanDone
    <3>2. CASE BroadcastScan \/ Broadcast
      BY <3>2 DEF BroadcastScan, Broadcast, Detached
    <3>3. CASE StateStart \/ ScanFails \/ WriteTimes
      BY <3>3 DEF StateStart, ScanFails, WriteTimes
    <3>4. CASE ReadFails \/ ReadState \/ Configure
      BY <3>4 DEF ReadFails, ReadState, Configure
    <3>5. QED
      BY <1>6, <3>1, <3>2, <3>3, <3>4 DEF Fsm
  <2>2. QED
    BY <1>6, <2>1, FsmFrame
<1>7. CASE RescanIoctl \/ Environment
  BY <1>7 DEF RescanIoctl, Environment
<1>9. CASE EoedevOpen \/ EoedevStop
  BY <1>9 DEF EoedevOpen, EoedevStop
<1>8. QED
  BY <1>1, <1>2, <1>3, <1>4, <1>5, <1>6, <1>7, <1>9 DEF Next

\* The thread stands still while a deactivation sets the slaves' states.
LEMMA ThreadStep ==
    ASSUME ThreadInv, Next
    PROVE  ThreadInv'
<1> USE DEF ThreadInv, flags, appvars, dgvars, fsmvars, busvars, envvars
<1>1. CASE Request \/ Interrupt \/ SlaveConfig
  BY <1>1 DEF Request, Interrupt, SlaveConfig
<1>2. CASE ActivateStop \/ DeactivateStop \/ Release
  BY <1>2 DEF ActivateStop, DeactivateStop, Release
<1>3. CASE Calls
  <2>1. CASE WaitConfig \/ LockSlaves \/ WaitScan
    BY <2>1 DEF WaitConfig, LockSlaves, WaitScan
  <2>2. CASE SetStates \/ SeeOpen \/ SetEoeStates
    BY <2>2 DEF SetStates, SeeOpen, SetEoeStates
  <2>3. CASE ActivateThread \/ ActivateScan \/ ActivateActive \/ ActivateConfig
    BY <2>3 DEF ActivateThread, ActivateScan, ActivateActive, ActivateConfig
  <2>4. CASE DeactivateConfig \/ DeactivateStates \/ DeactivateOpen \/ DeactivateEoe
    BY <2>4 DEF DeactivateConfig, DeactivateStates, DeactivateOpen, DeactivateEoe
  <2>5. CASE DeactivateThread \/ DeactivateScan \/ DeactivateActive
    BY <2>5 DEF DeactivateThread, DeactivateScan, DeactivateActive
  <2>6. CASE ReleaseScan \/ ReleasePhase
    BY <2>6 DEF ReleaseScan, ReleasePhase
  <2>7. QED
    BY <1>3, <2>1, <2>2, <2>3, <2>4, <2>5, <2>6 DEF Calls
<1>4. CASE Open \/ Close
  BY <1>4 DEF Open, Close
<1>5. CASE Inject \/ Receive
  BY <1>5 DEF Inject, Receive
<1>6. CASE Fsm
  BY <1>6, FsmFrame
<1>7. CASE RescanIoctl \/ Environment
  BY <1>7 DEF RescanIoctl, Environment
<1>8. CASE EoedevOpen \/ EoedevStop
  BY <1>8 DEF EoedevOpen, EoedevStop
<1>9. QED
  BY <1>1, <1>2, <1>3, <1>4, <1>5, <1>6, <1>7, <1>8 DEF Next

\* A device that was seen open is not cleared but with its slave.
LEMMA SeenStep ==
    ASSUME TypeOK, SlaveThere, LockInv, ThreadInv, SeenInv, Next
    PROVE  SeenInv'
<1> USE DEF SeenInv, flags, appvars, dgvars, fsmvars, busvars, envvars
<1>1. CASE Request \/ Interrupt \/ SlaveConfig
  BY <1>1 DEF Request, Interrupt, SlaveConfig
<1>2. CASE ActivateStop \/ DeactivateStop \/ Release
  BY <1>2 DEF ActivateStop, DeactivateStop, Release
<1>3. CASE Calls
  <2>1. CASE WaitConfig \/ LockSlaves \/ WaitScan
    BY <2>1 DEF WaitConfig, LockSlaves, WaitScan
  <2>2. CASE SetStates \/ SeeOpen \/ SetEoeStates
    BY <2>2 DEF SetStates, SeeOpen, SetEoeStates
  <2>3. CASE ActivateThread \/ ActivateScan \/ ActivateActive \/ ActivateConfig
    BY <2>3 DEF ActivateThread, ActivateScan, ActivateActive, ActivateConfig
  <2>4. CASE DeactivateConfig \/ DeactivateStates \/ DeactivateOpen \/ DeactivateEoe
    BY <2>4 DEF DeactivateConfig, DeactivateStates, DeactivateOpen, DeactivateEoe
  <2>5. CASE DeactivateThread \/ DeactivateScan \/ DeactivateActive
    BY <2>5 DEF DeactivateThread, DeactivateScan, DeactivateActive
  <2>6. CASE ReleaseScan \/ ReleasePhase
    BY <2>6 DEF ReleaseScan, ReleasePhase
  <2>7. QED
    BY <1>3, <2>1, <2>2, <2>3, <2>4, <2>5, <2>6 DEF Calls
<1>4. CASE Open \/ Close
  BY <1>4 DEF Open, Close
<1>5. CASE Inject \/ Receive
  BY <1>5 DEF Inject, Receive
<1>6. CASE Fsm
  <2>1. UNCHANGED app
    BY <1>6, FsmFrame
  <2>2. app \in {"eoe_states", "dea_eoe"} => app = "eoe_states"
    BY <1>6 DEF Fsm, Exec, ThreadInv
  <2>3. HAVE app' \in {"eoe_states", "dea_eoe"}
  <2>4. ~allow_scan
    BY <2>1, <2>2, <2>3 DEF LockInv
  <2>5. slave = None \/ eoe \in {"open", "closed"}
    BY <2>1, <2>3
  <2>6. CASE StateStart \/ ScanFails
    BY <2>5, <2>6 DEF StateStart, ScanFails
  <2>7. CASE BroadcastScan
    BY <2>4, <2>7 DEF BroadcastScan
  <2>8. CASE Broadcast
    <3>1. Listed \in SlaveObjects \union {None}
      BY DEF Listed, TypeOK
    <3>2. slave' = None <=> Listed = None
      BY <2>8, <3>1, RequestOpProperties DEF Broadcast, WriteSystemTimes
    <3>3. LinkLost => Listed = None
      BY DEF Listed
    <3>4. ~LinkLost => Listed = slave /\ eoe' = eoe
      BY <2>8 DEF Broadcast, Listed
    <3>5. QED
      BY <2>5, <3>2, <3>3, <3>4
  <2>9. CASE ScanDone \/ WriteTimes \/ ReadFails \/ ReadState \/ Configure
    <3>1. slave # None
      BY <2>9
      DEF SlaveThere, ScanDone, WriteTimes, ReadFails, ReadState, Configure
    <3>2. eoe' = eoe
      BY <2>9 DEF ScanDone, WriteTimes, ReadFails, ReadState, Configure
    <3>3. QED
      BY <2>5, <3>1, <3>2
  <2>10. QED
    BY <1>6, <2>6, <2>7, <2>8, <2>9 DEF Fsm
<1>7. CASE RescanIoctl \/ Environment
  BY <1>7 DEF RescanIoctl, Environment
<1>8. CASE EoedevOpen \/ EoedevStop
  BY <1>8 DEF EoedevOpen, EoedevStop
<1>9. QED
  BY <1>1, <1>2, <1>3, <1>4, <1>5, <1>6, <1>7, <1>8 DEF Next

\* Nobody requests OP of a slave while it is scanned.
LEMMA FreshStep ==
    ASSUME TypeOK, SlaveThere, FreshInv, SeenInv, Next
    PROVE  FreshInv'
<1> USE DEF FreshInv, flags, appvars, dgvars, fsmvars, busvars, envvars
<1>1. CASE Request \/ Interrupt \/ SlaveConfig
  BY <1>1 DEF Request, Interrupt, SlaveConfig
<1>2. CASE ActivateStop \/ DeactivateStop \/ Release
  BY <1>2 DEF ActivateStop, DeactivateStop, Release
<1>3. CASE Calls
  <2>1. CASE WaitConfig \/ LockSlaves \/ WaitScan
    BY <2>1 DEF WaitConfig, LockSlaves, WaitScan
  <2>2. CASE SetStates
    BY <2>2, SlaveOperators DEF SetStates, TypeOK, SlaveThere
  <2>9. CASE SeeOpen \/ DeactivateOpen
    BY <2>9 DEF SeeOpen, DeactivateOpen
  <2>10. CASE SetEoeStates \/ DeactivateEoe
    <3>1. state # "scan"
      BY <2>10 DEF SetEoeStates, DeactivateEoe, SeenInv, SlaveThere
    <3>2. QED
      BY <2>10, <3>1 DEF SetEoeStates, DeactivateEoe
  <2>3. CASE ActivateThread \/ ActivateScan \/ ActivateActive \/ ActivateConfig
    BY <2>3 DEF ActivateThread, ActivateScan, ActivateActive, ActivateConfig
  <2>4. CASE DeactivateConfig
    BY <2>4 DEF DeactivateConfig
  <2>5. CASE DeactivateStates
    <3>1. slave # None => slave'.requested = "PREOP"
                          /\ slave'.identified = slave.identified
      BY <2>5 DEF DeactivateStates, Requested, TypeOK, SlaveObjects
    <3>2. QED
      BY <2>5, <3>1 DEF DeactivateStates, SlaveThere
  <2>6. CASE DeactivateThread \/ DeactivateScan \/ DeactivateActive
    BY <2>6 DEF DeactivateThread, DeactivateScan, DeactivateActive
  <2>7. CASE ReleaseScan \/ ReleasePhase
    BY <2>7 DEF ReleaseScan, ReleasePhase
  <2>8. QED
    BY <1>3, <2>1, <2>2, <2>3, <2>4, <2>5, <2>6, <2>7, <2>9, <2>10 DEF Calls
<1>4. CASE Open \/ Close
  BY <1>4 DEF Open, Close
<1>5. CASE Inject \/ Receive
  BY <1>5 DEF Inject, Receive
<1>6. CASE Fsm
  <2>1. CASE BroadcastScan
    BY <2>1 DEF BroadcastScan, NewSlave, Restart
  <2>2. state' = "scan" => BroadcastScan
    <3>1. CASE StateStart \/ ScanFails \/ ScanDone
      BY <3>1 DEF StateStart, ScanFails, ScanDone, Restart
    <3>2. CASE Broadcast \/ WriteTimes \/ ReadState
      BY <3>2 DEF Broadcast, WriteTimes, ReadState, WriteSystemTimes, Restart
    <3>3. CASE ReadFails \/ Configure
      BY <3>3 DEF ReadFails, Configure, Restart
    <3>4. QED
      BY <1>6, <3>1, <3>2, <3>3 DEF Fsm
  <2>3. QED
    BY <2>1, <2>2
<1>7. CASE RescanIoctl \/ Environment
  BY <1>7 DEF RescanIoctl, Environment
<1>9. CASE EoedevOpen \/ EoedevStop
  <2>1. state # "scan"
    BY <1>9 DEF EoedevOpen, EoedevStop
  <2>2. QED
    BY <1>9, <2>1 DEF EoedevOpen, EoedevStop
<1>8. QED
  BY <1>1, <1>2, <1>3, <1>4, <1>5, <1>6, <1>7, <1>9 DEF Next

\* While no configuration is attached or the master is not active, the state
\* machine requests OP for the reference clock only.
LEMMA FsmQuiet ==
    ASSUME TypeOK, SlaveThere, FreshInv, Fsm, Quiet(slave, eoe),
           ~active \/ config = "none"
    PROVE  Quiet(slave', eoe')
<1> USE DEF Quiet
<1>1. CASE StateStart \/ ScanFails
  BY <1>1 DEF StateStart, ScanFails
<1>2. CASE BroadcastScan
  BY <1>2 DEF BroadcastScan, NewSlave
<1>3. CASE Broadcast
  <2>1. Listed \in SlaveObjects \union {None} /\ Quiet(Listed, eoe)
    BY DEF Listed, TypeOK
  <2>2. ~active \/ config # "attached"
    OBVIOUS
  <2>3. Quiet(RequestOp(Listed), eoe)
    BY <2>1, <2>2, RequestOpProperties
  <2>4. slave' = None \/ (eoe' = eoe /\ slave' \in {Listed, RequestOp(Listed)})
    BY <1>3 DEF Broadcast, WriteSystemTimes, Listed
  <2>5. QED
    BY <2>1, <2>3, <2>4
<1>4. CASE ScanDone
  <2>1. slave \in SlaveObjects
    BY <1>4 DEF ScanDone, SlaveThere, TypeOK
  <2>2. PICK ok \in BOOLEAN, ref \in BOOLEAN : ScanResult(ok, ref)
    BY <1>4, ScanResults
  <2> DEFINE s == Scanned(ok, ref)
  <2>3. s \in SlaveObjects /\ s.requested = "PREOP"
    BY <1>4, <2>1 DEF Scanned, SlaveObjects, FreshInv, ScanDone
  <2>4. CASE slave' = s
    BY <2>3, <2>4
  <2>5. CASE slave' = Requested(s, "OP") /\ active /\ (config' = "attached" \/ s.ref)
    <3>1. config' = config
      BY <2>2, <2>5 DEF ScanResult
    <3>2. s.ref
      BY <2>5, <3>1
    <3>3. Requested(s, "OP").ref = s.ref
      BY <2>3, SlaveOperators, PhaseAssumption
    <3>4. QED
      BY <2>5, <3>2, <3>3
  <2>6. QED
    BY <2>2, <2>4, <2>5 DEF ScanResult
<1>5. CASE WriteTimes
  <2>1. Quiet(RequestOp(slave), eoe)
    BY RequestOpProperties DEF TypeOK
  <2>2. QED
    BY <1>5, <2>1 DEF WriteTimes, WriteSystemTimes
<1>6. CASE ReadFails
  <2>1. slave \in SlaveObjects
    BY <1>6 DEF ReadFails, SlaveThere, TypeOK
  <2>2. slave'.requested = slave.requested /\ slave'.ref = slave.ref
    BY <1>6, <2>1 DEF ReadFails, SlaveObjects
  <2>3. eoe' = eoe
    BY <1>6 DEF ReadFails
  <2>4. QED
    BY <2>1, <2>2, <2>3, PhaseAssumption
<1>7. CASE ReadState
  <2>1. Quiet(RequestOp(slave), eoe)
    BY RequestOpProperties DEF TypeOK
  <2>2. QED
    BY <1>7, <2>1 DEF ReadState, WriteSystemTimes
<1>8. CASE Configure
  <2>1. slave \in SlaveObjects
    BY <1>8 DEF Configure, SlaveThere, TypeOK
  <2>2. PICK failed \in BOOLEAN :
           slave' = [slave EXCEPT !.force_config = FALSE,
                                  !.error_flag = @ \/ failed]
    BY <1>8 DEF Configure, Answered
  <2>3. slave'.requested = slave.requested /\ slave'.ref = slave.ref
    BY <2>1, <2>2 DEF SlaveObjects
  <2>4. eoe' = eoe
    BY <1>8 DEF Configure
  <2>5. QED
    BY <2>1, <2>3, <2>4, PhaseAssumption
<1>9. QED
  BY <1>1, <1>2, <1>3, <1>4, <1>5, <1>6, <1>7, <1>8 DEF Fsm

\* An inactive master, and one that is about to become inactive, keeps its slave
\* in PREOP.
LEMMA QuietStep ==
    ASSUME TypeOK, SlaveThere, ActiveInv, ThreadInv, FreshInv, SeenInv, QuietInv, Next
    PROVE  QuietInv'
<1> USE DEF QuietInv, flags, appvars, dgvars, fsmvars, busvars, envvars
<1>1. CASE Request \/ Interrupt \/ SlaveConfig
  BY <1>1 DEF Request, Interrupt, SlaveConfig, Quiet
<1>2. CASE ActivateStop \/ DeactivateStop \/ Release
  BY <1>2 DEF ActivateStop, DeactivateStop, Release, Quiet
<1>3. CASE Calls
  <2>1. CASE WaitConfig \/ LockSlaves
    BY <2>1 DEF WaitConfig, LockSlaves, Quiet
  <2>2. CASE WaitScan
    BY <2>2 DEF WaitScan, Quiet
  <2>3. CASE SetStates
    BY <2>3, SlaveOperators DEF SetStates, TypeOK, Quiet
  <2>10. CASE SeeOpen \/ DeactivateOpen
    BY <2>10 DEF SeeOpen, DeactivateOpen, Quiet
  <2>11. CASE SetEoeStates \/ DeactivateEoe
    BY <2>11, SlaveOperators DEF SetEoeStates, DeactivateEoe, SeenInv, TypeOK, Quiet
  <2>4. CASE ActivateThread \/ ActivateScan \/ ActivateActive \/ ActivateConfig
    BY <2>4 DEF ActivateThread, ActivateScan, ActivateActive, ActivateConfig, Quiet
  <2>5. CASE DeactivateConfig
    BY <2>5 DEF DeactivateConfig, Quiet
  <2>6. CASE DeactivateStates
    <3>1. slave # None => slave'.requested = "PREOP"
      BY <2>6 DEF DeactivateStates, Requested, TypeOK, SlaveObjects
    <3>2. slave = None => slave' = None
      BY <2>6 DEF DeactivateStates
    <3>3. QED
      BY <3>1, <3>2 DEF Quiet
  <2>7. CASE DeactivateThread \/ DeactivateScan \/ DeactivateActive
    BY <2>7 DEF DeactivateThread, DeactivateScan, DeactivateActive, Quiet
  <2>8. CASE ReleaseScan \/ ReleasePhase
    BY <2>8 DEF ReleaseScan, ReleasePhase, Quiet
  <2>9. QED
    BY <1>3, <2>1, <2>2, <2>3, <2>4, <2>5, <2>6, <2>7, <2>8, <2>10, <2>11 DEF Calls
<1>4. CASE Open \/ Close
  BY <1>4 DEF Open, Close, Quiet
<1>5. CASE Inject \/ Receive
  BY <1>5 DEF Inject, Receive, Quiet
<1>6. CASE Fsm
  <2>1. UNCHANGED <<app, active>>
    BY <1>6, FsmFrame
  <2>2. HAVE (~active \/ app \in {"dea_open", "dea_eoe", "dea_thread", "dea_scan",
                                    "dea_active"})'
  <2>3. Quiet(slave, eoe) /\ (~active \/ config = "none")
    BY <2>1, <2>2 DEF ActiveInv
  <2>4. QED
    BY <1>6, <2>3, FsmQuiet DEF Quiet
<1>7. CASE RescanIoctl \/ Environment
  BY <1>7 DEF RescanIoctl, Environment, Quiet
<1>9. CASE EoedevOpen \/ EoedevStop
  <2>1. eoe' \in {"open", "closed"}
    BY <1>9 DEF EoedevOpen, EoedevStop
  <2>2. QED
    BY <2>1 DEF Quiet
<1>8. QED
  BY <1>1, <1>2, <1>3, <1>4, <1>5, <1>6, <1>7, <1>9 DEF Next

-----------------------------------------------------------------------------
(* Theorems. *)

LEMMA InitInv == Init => TypeOK /\ IInv
BY PhaseAssumption
DEF Init, TypeOK, Calling, IInv, SlaveThere, LockInv, ScanInv, ActiveInv, ThreadInv,
    FreshInv, SeenInv, QuietInv, Quiet, GoingThrough

LEMMA NextInv == TypeOK /\ IInv /\ [Next]_vars => (TypeOK /\ IInv)'
<1> SUFFICES ASSUME TypeOK, IInv, [Next]_vars
             PROVE  (TypeOK /\ IInv)'
  OBVIOUS
<1>1. CASE Next
  BY <1>1, TypeStep, LockStep, SlaveThereStep, ActiveStep, ThreadStep, FreshStep,
     SeenStep, QuietStep
  DEF IInv
<1>2. CASE UNCHANGED vars
  <2> USE <1>2 DEF vars, flags, appvars, dgvars, fsmvars, busvars, envvars
  <2>1. TypeOK'
    BY DEF TypeOK
  <2>2. SlaveThere' /\ LockInv' /\ ScanInv'
    BY DEF IInv, SlaveThere, LockInv, ScanInv, GoingThrough
  <2>3. ActiveInv' /\ FreshInv' /\ QuietInv'
    BY DEF IInv, ActiveInv, FreshInv, QuietInv, Quiet
  <2>4. ThreadInv' /\ SeenInv'
    BY DEF IInv, ThreadInv, SeenInv
  <2>5. QED
    BY <2>1, <2>2, <2>3, <2>4 DEF IInv
<1>3. QED
  BY <1>1, <1>2

LEMMA Invariant == Spec => [](TypeOK /\ IInv)
BY InitInv, NextInv, PTL DEF Spec

\* The type invariant.
THEOREM TypeCorrect == Spec => []TypeOK
BY Invariant, PTL

\* Neither the state machine nor the configuration points to a slave that has
\* been cleared, also when the device is closed in the middle of a scan.
THEOREM NoDangling == Spec => []SlaveThere
<1>1. IInv => SlaveThere
  BY DEF IInv
<1>2. QED
  BY <1>1, Invariant, PTL

\* allow_scan is set whenever the master is not requested.
THEOREM UnlockedWhenIdle == Spec => []ScansWhenIdle
<1>1. IInv => ScansWhenIdle
  BY DEF IInv, LockInv, ScansWhenIdle
<1>2. QED
  BY <1>1, Invariant, PTL

\* An inactive master's slave is in PREOP or on the way there, unless it is the
\* reference clock or its network device was opened since the scan.
THEOREM InactiveInPreop == Spec => []PreopWhenInactive
<1>1. IInv => PreopWhenInactive
  BY DEF IInv, QuietInv, Quiet, PreopWhenInactive
<1>2. QED
  BY <1>1, Invariant, PTL

\* A step while a request goes through the slave list.
LEMMA LockedStep ==
    ASSUME TypeOK, IInv, [Next]_vars, GoingThrough
    PROVE  /\ ~scan_busy /\ ~scan_busy'
           /\ (slave = None) # (slave' = None) => slave' = None /\ LinkLost
<1> USE PhaseAssumption DEF GoingThrough, flags, appvars, dgvars, fsmvars, busvars, envvars
<1>1. ~allow_scan /\ ~scan_busy
  BY DEF IInv, LockInv, ScanInv
<1>2. CASE SetStates \/ SeeOpen \/ SetEoeStates
  BY <1>1, <1>2, SlaveOperators DEF SetStates, SeeOpen, SetEoeStates, TypeOK
<1>9. CASE EoedevOpen \/ EoedevStop
  BY <1>1, <1>9, SlaveOperators DEF EoedevOpen, EoedevStop, TypeOK
<1>3. CASE RescanIoctl \/ Environment \/ Inject \/ Receive
  BY <1>1, <1>3 DEF RescanIoctl, Environment, Inject, Receive
<1>4. CASE UNCHANGED vars
  BY <1>1, <1>4 DEF vars
<1>5. CASE Fsm
  <2> DEFINE Kept == (slave = None) # (slave' = None) => slave' = None /\ LinkLost
  <2>1. ASSUME StateStart \/ ScanFails
       PROVE  Kept
    BY <2>1 DEF StateStart, ScanFails
  <2>2. ASSUME BroadcastScan
       PROVE  Kept
    BY <1>1, <2>2 DEF BroadcastScan
  <2>3. ASSUME Broadcast
       PROVE  Kept
    <3>1. Listed \in SlaveObjects \union {None}
      BY DEF Listed, TypeOK
    <3>2. slave' = None <=> Listed = None
      BY <2>3, <3>1, RequestOpProperties DEF Broadcast, WriteSystemTimes
    <3>3. QED
      BY <3>2 DEF Listed
  <2>4. ASSUME ScanDone \/ WriteTimes \/ ReadFails \/ ReadState \/ Configure
       PROVE  Kept
    <3>1. slave # None
      BY <2>4
      DEF IInv, SlaveThere, ScanDone, WriteTimes, ReadFails, ReadState, Configure
    <3>2. slave' # None
      <4>1. CASE WriteTimes \/ ReadState
        BY <3>1, <4>1, RequestOpProperties
        DEF WriteTimes, ReadState, WriteSystemTimes, TypeOK
      <4>2. CASE ReadFails
        <5>1. slave' \in SlaveObjects
          BY <3>1, <4>2 DEF ReadFails, TypeOK, SlaveObjects
        <5>2. QED
          BY <5>1
      <4>3. CASE Configure
        <5>1. PICK failed \in BOOLEAN :
                 slave' = [slave EXCEPT !.force_config = FALSE,
                                        !.error_flag = @ \/ failed]
          BY <4>3 DEF Configure, Answered
        <5>2. QED
          BY <3>1, <5>1 DEF TypeOK, SlaveObjects
      <4>4. CASE ScanDone
        <5>1. PICK ok \in BOOLEAN, ref \in BOOLEAN : ScanResult(ok, ref)
          BY <4>4, ScanResults
        <5>2. Scanned(ok, ref) \in SlaveObjects
          BY <3>1 DEF Scanned, SlaveObjects, TypeOK
        <5>3. QED
          BY <5>1, <5>2, SlaveOperators DEF ScanResult
      <4>5. QED
        BY <2>4, <4>1, <4>2, <4>3, <4>4
    <3>3. QED
      BY <3>1, <3>2
  <2>5. ~scan_busy'
    BY <1>1, <1>5, NoScanBegins
  <2>6. QED
    BY <1>1, <1>5, <2>1, <2>2, <2>3, <2>4, <2>5 DEF Fsm
<1>6. CASE Open
  BY <1>1, <1>6 DEF Open
<1>7. Next => \/ SetStates \/ SeeOpen \/ SetEoeStates \/ EoedevOpen \/ EoedevStop
              \/ RescanIoctl \/ Environment \/ Inject \/ Receive \/ Fsm \/ Open
  <2>1. ~(Request \/ Interrupt \/ SlaveConfig \/ ActivateStop \/ DeactivateStop)
    BY DEF Request, Interrupt, SlaveConfig, ActivateStop, DeactivateStop
  <2>2. ~(Release \/ Close)
    BY DEF Release, Close
  <2>3. Calls => SetStates \/ SeeOpen \/ SetEoeStates
    BY DEF Calls, WaitConfig, LockSlaves, WaitScan, ActivateThread, ActivateScan,
           ActivateActive, ActivateConfig, DeactivateConfig, DeactivateStates,
           DeactivateOpen, DeactivateEoe,
           DeactivateThread, DeactivateScan, DeactivateActive, ReleaseScan,
           ReleasePhase
  <2>4. QED
    BY <2>1, <2>2, <2>3 DEF Next
<1>8. QED
  BY <1>2, <1>3, <1>4, <1>5, <1>6, <1>7, <1>9

\* The lock: during a request no scan is going on, none begins, and the list
\* stays what it is unless the link is lost.
THEOREM ListLocked == Spec => SlaveListLocked
<1>1. /\ TypeOK /\ IInv /\ [Next]_vars
      => [GoingThrough =>
            /\ ~scan_busy /\ ~scan_busy'
            /\ (slave = None) # (slave' = None) => slave' = None /\ LinkLost]_vars
  <2> SUFFICES ASSUME TypeOK, IInv, [Next]_vars, GoingThrough
               PROVE  /\ ~scan_busy /\ ~scan_busy'
                      /\ (slave = None) # (slave' = None) => slave' = None /\ LinkLost
    OBVIOUS
  <2>1. QED
    BY LockedStep
<1>2. QED
  BY <1>1, Invariant, PTL DEF Spec, SlaveListLocked
=============================================================================
