----------------------------- MODULE SlaveConfig -----------------------------
(***************************************************************************)
(* The configuration of one slave: the master state machine that reads its *)
(* AL state, acknowledges errors and starts configurations (the states     *)
(* READ STATE to CONFIGURE SLAVE of master/fsm_master.c), the state machine*)
(* that configures (master/fsm_slave_config.c), the one that changes the   *)
(* AL state (master/fsm_change.c), the slave itself, and the application,  *)
(* EoE devices and the command-line tool that attach, detach and request   *)
(* in the meantime.                                                        *)
(*                                                                         *)
(* A step of the master's thread takes the answer to the datagram the step *)
(* before prepared, and prepares the next one: what happens between the    *)
(* two happens while the datagram is under way.                            *)
(***************************************************************************)
EXTENDS Integers, Sequences

CONSTANTS
    Kinds,          \* kinds of slaves: records of their features
    Configs,        \* the configurations of the application, in order
    Requestable,    \* AL states requested by the tool
    Troubles,       \* sets of who makes trouble: the "slave" has errors and
                    \* loses power, the "application" and others deactivate the
                    \* master, open and stop the EoE device and request states
                    \* during a configuration
    Retries,        \* EC_FSM_RETRIES
    Polls,          \* answers that make a timeout
    MaxDrops        \* errors and power failures of the slave

VARIABLES
    kind, al, asked, esc, present, drops,           \* the slave
    troubles, config, active, changed, created,
    reserved,       \* the master is requested: "no", its slaves' "states" are
                    \* being set, "yes"
    open,           \* the slave's EoE device is open
    slave,                                          \* the master's data
    fsm, chg, dg, tries, waited, request,           \* and its state machines
    kept            \* no configuration was attached or detached since the one
                    \* that goes on began (a history variable)

slavevars == <<kind, al, asked, esc, present, drops>>
appvars == <<troubles, config, active, changed, reserved, open, created>>
fsmvars == <<fsm, chg, dg, tries, waited, request, kept>>
vars == <<slavevars, slave, appvars, fsmvars>>

ALStates == {"INIT", "PREOP", "BOOT", "SAFEOP", "OP"}
AL == [state : ALStates, err : BOOLEAN]
In(state) == [state |-> state, err |-> FALSE]
Unknown == [state |-> "UNKNOWN", err |-> FALSE]

ASSUME SlaveConfigAssumption ==
    /\ Requestable \subseteq ALStates
    /\ Troubles \subseteq SUBSET {"slave", "application"}
    /\ Retries \in Nat /\ Polls \in Nat \ {0} /\ MaxDrops \in Nat
    /\ Kinds \subseteq [mailbox : BOOLEAN, dc : BOOLEAN,
                        fmmus : Nat, syncs : Nat]
    /\ Configs \in Seq([sdos : Nat, soe : [{"PREOP", "SAFEOP"} -> Nat],
                        eoe : BOOLEAN, divider : BOOLEAN,
                        watchdog : BOOLEAN, pdi : BOOLEAN, dc : BOOLEAN,
                        wait : BOOLEAN,
                        fmmus : Nat,        \* FMMUs it uses, and sync managers
                        syncs : Nat])       \* up to the last one these refer to

\* A configuration is its number, 0 is NULL; a register holds the number of
\* the configuration it was written for, Cleared when it was cleared.
Ids == {0} \cup DOMAIN Configs
Cleared == -1
Registers == {"mbox", "sdo", "sync", "fmmu", "dc"}
Blank == [r \in Registers |-> Cleared]

\* The states that wait for the answer to a register access, for the end of a
\* mailbox transfer, and for the end of a change of the AL state.
Steps == {"clear_fmmus", "clear_sync", "dc_clear_assign", "mbox_sync",
          "assign_pdi", "assign_ethercat", "watchdog_divider", "watchdog",
          "pdo_sync", "fmmu", "dc_cycle", "dc_sync_check", "dc_start",
          "dc_assign"}
Transfers == {"sdo_conf", "soe_conf_preop", "soe_conf_safeop",
              "eoe_ip_param", "pdo_conf"}
Lists == {"sdo_conf", "soe_conf_preop", "soe_conf_safeop"}
Changes == {"init", "boot_preop", "safeop", "op"}
Busy == fsm \in Steps \cup Transfers \cup Changes \cup {"wait_safeop"}

-----------------------------------------------------------------------------
(* What the master does next: the state it enters, the datagram it         *)
(* prepares, and whether it sets the slave's error flag.                   *)

Send(state, op, arg) ==
    [to |-> state, op |-> op, arg |-> arg, flag |-> FALSE, request |-> request]
Stop == Send("idle", "none", 0)
Fail == [Stop EXCEPT !.flag = TRUE]
ChangeTo(state, to) == Send(state, "al", to)

EnterInit == ChangeTo("init", "INIT")
EnterSafeop == ChangeTo("safeop", "SAFEOP")
EnterOp == ChangeTo("op", "OP")
EnterBootPreop ==
    ChangeTo("boot_preop", IF slave.requested = "BOOT" THEN "BOOT" ELSE "PREOP")

\* Transfers the i-th request of the configuration's list.
Transfer(state, i) ==
    [Send(state, "transfer", i) EXCEPT !.request = [id |-> config, i |-> i]]

Count(state) ==
    CASE state = "sdo_conf" -> Configs[config].sdos
      [] state = "soe_conf_preop" -> Configs[config].soe["PREOP"]
      [] state = "soe_conf_safeop" -> Configs[config].soe["SAFEOP"]

EnterSoeConfSafeop ==
    IF config # 0 /\ Count("soe_conf_safeop") > 0
        THEN Transfer("soe_conf_safeop", 1) ELSE EnterOp

EnterWaitSafeop ==
    IF config # 0 /\ Configs[config].wait
        THEN Send("wait_safeop", "none", 0) ELSE EnterSafeop

EnterDcCycle ==
    IF config = 0 THEN EnterInit        \* ec_fsm_slave_config_reconfigure()
    ELSE IF Configs[config].dc THEN Send("dc_cycle", "none", 0)
    ELSE EnterWaitSafeop

EnterFmmu ==
    IF config = 0 THEN EnterWaitSafeop
    ELSE IF kind.fmmus < Configs[config].fmmus THEN Fail
    ELSE IF kind.fmmus = 0 THEN EnterDcCycle
    ELSE IF Configs[config].fmmus > 0 /\ kind.syncs < Configs[config].syncs THEN Fail
    ELSE Send("fmmu", "fmmu", config)

\* Mutated: the two of the mailboxes are counted twice.
EnterPdoSyncTwice ==
    IF kind.syncs <= (IF kind.mailbox THEN 4 ELSE 0) THEN EnterFmmu
    ELSE Send("pdo_sync", "sync", config)

\* Behind the two sync managers of the mailboxes.
EnterPdoSync ==
    IF kind.syncs <= (IF kind.mailbox THEN 2 ELSE 0) THEN EnterFmmu
    ELSE Send("pdo_sync", "sync", config)

EnterWatchdog ==
    IF config # 0 /\ Configs[config].watchdog
        THEN Send("watchdog", "none", 0) ELSE EnterPdoSync

EnterWatchdogDivider ==
    IF config # 0 /\ Configs[config].divider
        THEN Send("watchdog_divider", "none", 0) ELSE EnterWatchdog

EnterPdoConf == Send("pdo_conf", "transfer", 0)

EnterEoeIpParam ==
    IF Configs[config].eoe THEN Send("eoe_ip_param", "transfer", 0)
    ELSE EnterPdoConf

EnterSoeConfPreop ==
    IF config = 0 THEN EnterPdoSync
    ELSE IF Count("soe_conf_preop") > 0 THEN Transfer("soe_conf_preop", 1)
    ELSE EnterEoeIpParam

EnterSdoConf ==
    IF config = 0 THEN EnterPdoSync
    ELSE IF Count("sdo_conf") > 0 THEN Transfer("sdo_conf", 1)
    ELSE EnterSoeConfPreop

\* PREOP, or BOOT, was reached, and the SII is assigned back to EtherCAT.
EndOrSdoConf(current) ==
    IF current = In(slave.requested) THEN Stop ELSE EnterSdoConf
AfterBootPreop(current) ==
    IF config # 0 /\ Configs[config].pdi THEN EndOrSdoConf(current)
    ELSE Send("assign_ethercat", "none", 0)

EnterAssignPdi ==
    IF slave.requested = "BOOT" THEN EnterBootPreop
    ELSE Send("assign_pdi", "none", 0)

EnterMboxSync ==
    IF slave.requested = "INIT" THEN Stop       \* the slave is in INIT
    ELSE IF ~kind.mailbox THEN EnterAssignPdi
    ELSE Send("mbox_sync", "mbox", 0)

EnterDcClearAssign ==
    IF kind.dc THEN Send("dc_clear_assign", "dc", Cleared) ELSE EnterMboxSync

EnterClearSync ==
    IF kind.syncs > 0 THEN Send("clear_sync", "sync", Cleared)
    ELSE EnterDcClearAssign

AfterInit ==
    IF kind.fmmus > 0 THEN Send("clear_fmmus", "fmmu", Cleared)
    ELSE EnterClearSync

\* Where a register access leads that the slave has executed.
After(step) ==
    CASE step = "clear_fmmus" -> EnterClearSync
      [] step = "clear_sync" -> EnterDcClearAssign
      [] step = "dc_clear_assign" -> EnterMboxSync
      [] step = "mbox_sync" -> EnterAssignPdi
      [] step = "assign_pdi" -> EnterBootPreop
      [] step = "assign_ethercat" -> EndOrSdoConf(slave.current)
      [] step = "watchdog_divider" -> EnterWatchdog
      [] step = "watchdog" -> EnterPdoSync
      [] step = "pdo_sync" -> EnterFmmu
      [] step = "fmmu" -> EnterDcCycle
      [] step = "dc_cycle" -> Send("dc_sync_check", "none", 0)
      [] step = "dc_sync_check" -> Send("dc_start", "none", 0)
      [] step = "dc_start" -> Send("dc_assign", "dc", config)
      [] step = "dc_assign" -> EnterWaitSafeop

\* Where a finished change of the AL state leads.
AfterChange(current) ==
    CASE fsm = "init" -> AfterInit
      [] fsm = "boot_preop" -> AfterBootPreop(current)
      [] fsm = "safeop" ->
            IF current = In(slave.requested) THEN Stop ELSE EnterSoeConfSafeop
      [] fsm = "op" -> Stop

\* ec_fsm_master_action_configure(), the error flag being flag.
ActionConfigure(current, flag) ==
    IF changed THEN Send("times", "none", 0)
    ELSE IF (current # In(slave.requested) \/ slave.force) /\ ~flag THEN EnterInit
    ELSE Stop

NoChange == [state |-> "none", full |-> FALSE, to |-> "INIT", old |-> Unknown,
             spont |-> FALSE]

\* The state machines go on with t, having read the AL state current.
TakeWith(t, current, flag) ==
    /\ fsm' = t.to
    /\ dg' = [op |-> t.op, arg |-> t.arg]
    /\ request' = IF t.to \in Lists THEN t.request ELSE [id |-> 0, i |-> 0]
    /\ tries' = Retries /\ waited' = 0
    /\ chg' = IF t.op = "al"
                 THEN [chg EXCEPT !.state = "check", !.full = TRUE,
                                  !.to = t.arg, !.old = current]
                 ELSE [NoChange EXCEPT !.spont = chg.spont]
    /\ changed' = (changed /\ t.to # "times")
    /\ kept' = (kept \/ t.to \in {"init", "idle"})
    /\ slave' = [slave EXCEPT !.current = current, !.errorFlag = flag \/ t.flag,
                    !.force = @ /\ ~(Busy /\ t.to = "idle")]

Take(t) == TakeWith(t, slave.current, slave.errorFlag)

\* The same datagram once more, or the next one of the same state.
Again(n, w) ==
    /\ tries' = n /\ waited' = w
    /\ UNCHANGED <<slave, changed, fsm, chg, dg, request, kept>>

-----------------------------------------------------------------------------
Init ==
    /\ kind \in Kinds
    /\ al = In("INIT") /\ asked = "none" /\ esc = Blank /\ present = TRUE
    /\ drops = 0
    /\ slave = [current |-> Unknown, requested |-> "PREOP",
                errorFlag |-> FALSE, force |-> TRUE]
    /\ troubles \in Troubles
    /\ config = 0 /\ active = FALSE /\ changed = FALSE /\ reserved = "no"
    /\ open = FALSE /\ created = 0 /\ kept = TRUE
    /\ fsm = "idle"
    /\ chg = NoChange
    /\ dg = [op |-> "none", arg |-> 0] /\ tries = 0 /\ waited = 0
    /\ request = [id |-> 0, i |-> 0]

-----------------------------------------------------------------------------
(* The slave.  A datagram comes back with a working counter of one, of zero *)
(* or of more (two slaves have the same address); it is lost on its way to *)
(* the slave, or back; or it could not be sent.                            *)
Answers == {"answered", "unanswered", "doubly", "lost", "late", "failed"}
Executed(a) == a \in {"answered", "doubly", "late"}

\* The registers after op is executed.  The sync managers are cleared from the
\* first one on, those of the mailboxes included; the write to these clears the
\* others, which still are so.
Written(op, arg) ==
    [esc EXCEPT ![op] = arg,
                !["mbox"] = IF op = "sync" /\ arg = Cleared THEN Cleared
                            ELSE IF op = "mbox" THEN arg ELSE @]

Deliver(a) ==
    /\ Executed(a) => present
    /\ asked' = IF ~Executed(a) THEN asked
                ELSE IF dg.op = "al" THEN dg.arg
                ELSE IF dg.op = "ack" THEN "ACK"
                ELSE asked
    /\ esc' = IF Executed(a) /\ dg.op \in Registers
                 THEN Written(dg.op, dg.arg) ELSE esc
    /\ UNCHANGED <<kind, al, present, drops>>

\* The AL states a slave goes to when asked.
Follows(state) ==
    CASE state = "INIT" -> {"INIT", "PREOP", "BOOT"}
      [] state = "BOOT" -> {"INIT", "BOOT"}
      [] state = "PREOP" -> {"INIT", "PREOP", "SAFEOP"}
      [] state = "SAFEOP" -> {"INIT", "PREOP", "SAFEOP", "OP"}
      [] state = "OP" -> {"INIT", "PREOP", "SAFEOP", "OP"}

Obey ==
    /\ asked # "none"
    /\ \/ asked = "ACK" /\ al' = In(al.state)
       \/ asked \in Follows(al.state) /\ (al.err => asked = "INIT") /\ al' = In(asked)
    /\ asked' = "none"
    /\ UNCHANGED <<kind, esc, present, drops, slave, appvars, fsmvars>>

Refuse ==
    /\ asked \notin {"none", "ACK", "INIT"}
    /\ al' = [al EXCEPT !.err = TRUE]
    /\ asked' = "none"
    /\ UNCHANGED <<kind, esc, present, drops, slave, appvars, fsmvars>>

\* An error takes the slave to a lower state.
Drop ==
    /\ "slave" \in troubles /\ drops < MaxDrops
    /\ drops' = drops + 1
    /\ \E state \in Follows(al.state) :
          /\ state \in {"INIT", "PREOP", "SAFEOP"}
          /\ al.state = "INIT" => state = "INIT"
          /\ al.state = "PREOP" => state # "SAFEOP"
          /\ al' = [state |-> state, err |-> TRUE]
    /\ UNCHANGED <<kind, asked, esc, present, slave, appvars, fsmvars>>

\* Power fails: the registers and the station address are lost.
PowerCycle ==
    /\ "slave" \in troubles /\ drops < MaxDrops
    /\ drops' = drops + 1
    /\ al' = In("INIT") /\ asked' = "none" /\ esc' = Blank /\ present' = FALSE
    /\ UNCHANGED <<kind, slave, appvars, fsmvars>>

-----------------------------------------------------------------------------
(* The application, and others that request AL states *)

\* ec_slave_request_state()
RequestState(state) ==
    slave' = [slave EXCEPT !.requested = state, !.errorFlag = FALSE]

\* A configuration is attached or detached.
Attach(id) ==
    /\ config' = id
    /\ kept' = (~Busy \/ (kept /\ id = config))

\* ec_master_enter_operation_phase(), which waits for the configuration
Reserve ==
    /\ reserved = "no" /\ ~Busy
    /\ reserved' = "states"
    /\ RequestState("PREOP")
    /\ UNCHANGED <<slavevars, troubles, config, active, changed, open, created, fsmvars>>

\* "... but set EoE slaves to OP", when the state machine may be on already
SetEoeStates ==
    /\ reserved = "states"
    /\ reserved' = "yes"
    /\ IF open THEN RequestState("OP") ELSE UNCHANGED slave
    /\ UNCHANGED <<slavevars, troubles, config, active, changed, open, created, fsmvars>>

\* ecrt_master_slave_config()
CreateConfig ==
    /\ reserved = "yes" /\ ~active /\ config = 0 /\ created + 1 \in DOMAIN Configs
    /\ created' = created + 1 /\ Attach(created + 1)
    /\ UNCHANGED <<slavevars, troubles, slave, active, changed, reserved, open,
                   fsm, chg, dg, tries, waited, request>>

Activate ==
    /\ reserved = "yes" /\ ~active
    /\ active' = TRUE /\ changed' = TRUE
    /\ UNCHANGED <<slavevars, troubles, slave, config, reserved, open, created, fsmvars>>

\* ecrt_master_deactivate(), called by the application or on release: slaves
\* whose EoE device is open are left in OP.  The thread is stopped meanwhile.
Deactivate(release) ==
    /\ active /\ ("application" \in troubles \/ ~Busy)
    /\ Attach(0) /\ active' = FALSE
    /\ slave' = [slave EXCEPT !.requested = IF open THEN "OP" ELSE "PREOP",
                              !.errorFlag = FALSE, !.force = TRUE]
    /\ reserved' = IF release THEN "no" ELSE "yes"
    /\ UNCHANGED <<slavevars, troubles, changed, open, created,
                   fsm, chg, dg, tries, waited, request>>

\* ec_master_leave_operation_phase() before an activation
Release ==
    /\ reserved = "yes" /\ ~active
    /\ reserved' = "no" /\ Attach(0)
    /\ UNCHANGED <<slavevars, troubles, slave, active, changed, open, created,
                   fsm, chg, dg, tries, waited, request>>

\* ec_eoedev_open(), ec_eoedev_stop()
EoedevOpenStop ==
    /\ "application" \in troubles /\ kind.mailbox
    /\ open' = ~open
    /\ RequestState(IF open THEN "PREOP" ELSE "OP")
    /\ UNCHANGED <<slavevars, troubles, config, active, changed, reserved, created,
                   fsmvars>>

\* ec_ioctl_slave_state()
RequestByTool ==
    /\ "application" \in troubles
    /\ \E state \in Requestable : RequestState(state)
    /\ UNCHANGED <<slavevars, appvars, fsmvars>>

-----------------------------------------------------------------------------
(* The master state machine *)

\* Mutated: the retries are not counted.
RetryAlways(a) == a \in {"lost", "late"}

Retry(a) == a \in {"lost", "late"} /\ tries > 0
Unreceived(a) == a = "failed" \/ (a \in {"lost", "late"} /\ tries = 0)
OtherWc(a) == a \in {"unanswered", "doubly"}

Poll ==
    /\ fsm = "idle"
    /\ Take(IF changed THEN Send("times", "none", 0)
            ELSE Send("read_state", "status", 0))
    /\ UNCHANGED <<slavevars, troubles, config, active, reserved, open, created>>

\* The system times are written: ec_master_request_op()
RequestOp ==
    /\ fsm = "times"
    /\ fsm' = "idle"
    /\ IF active /\ (config # 0 \/ kind.dc) THEN RequestState("OP")
       ELSE UNCHANGED slave
    /\ UNCHANGED <<slavevars, appvars, chg, dg, tries, waited, request, kept>>

\* A new slave object, the configuration is attached to it again.  The states
\* between are those of the scan.
Rescan ==
    /\ fsm = "idle"
    /\ reserved = "no" \/ active                \* allow_scan
    /\ present' = TRUE
    /\ slave' = [current |-> al, requested |-> "PREOP", errorFlag |-> FALSE,
                 force |-> reserved = "no"]
    /\ fsm' = "times" /\ changed' = FALSE /\ open' = FALSE
    /\ UNCHANGED <<kind, al, asked, esc, drops, troubles, config, active, reserved,
                   created, chg, dg, tries, waited, request, kept>>

StartCode(current, flag, full) ==
    /\ fsm' = IF full THEN fsm ELSE "acknowledge"
    /\ chg' = [chg EXCEPT !.state = "code", !.full = full]
    /\ dg' = [op |-> "code", arg |-> 0]
    /\ tries' = Retries /\ waited' = 0
    /\ slave' = [slave EXCEPT !.current = current, !.errorFlag = flag]
    /\ UNCHANGED <<changed, request, kept>>

ReadState(a) ==
    /\ fsm = "read_state"
    /\ Deliver(a)
    /\ \/ Retry(a) /\ Again(tries - 1, waited)
       \/ Unreceived(a) /\ Take(Stop)
       \/ OtherWc(a) /\ Take(Fail)
       \/ a = "answered" /\ slave.errorFlag /\ TakeWith(Stop, al, TRUE)
       \/ a = "answered" /\ ~slave.errorFlag /\ al.err /\ StartCode(al, FALSE, FALSE)
       \/ /\ a = "answered" /\ ~slave.errorFlag /\ ~al.err
          /\ TakeWith(ActionConfigure(al, FALSE), al, FALSE)
    /\ UNCHANGED <<troubles, config, active, reserved, open, created>>

-----------------------------------------------------------------------------
(* The change of the AL state *)

\* The change has ended, and the state machine that runs it goes on.
ChangeEnds(ok, current) ==
    IF fsm = "acknowledge"
       THEN LET flag == slave.errorFlag \/ ~ok
            IN TakeWith(ActionConfigure(current, flag), current, flag)
    ELSE IF ok THEN TakeWith(AfterChange(current), current, slave.errorFlag)
    ELSE TakeWith(Stop, current, slave.errorFlag \/ ~chg.spont)

ChangeFails == ChangeEnds(FALSE, slave.current)

\* The next state of the change, and its datagram.
ChangeNext(state, op, spont) ==
    /\ chg' = [chg EXCEPT !.state = state, !.spont = spont]
    /\ dg' = [op |-> op, arg |-> 0]
    /\ tries' = Retries /\ waited' = 0
    /\ UNCHANGED <<slave, changed, fsm, request, kept>>

\* Reads the status once more, current is the one just read.
StatusAgain(current, old, spont) ==
    /\ slave' = [slave EXCEPT !.current = current]
    /\ chg' = [chg EXCEPT !.old = old, !.spont = spont]
    /\ tries' = Retries /\ waited' = IF waited < Polls THEN waited + 1 ELSE Polls
    /\ UNCHANGED <<changed, fsm, dg, request, kept>>

Check(a) ==
    /\ chg.state = "check"
    /\ Deliver(a)
    /\ \/ Retry(a) /\ Again(tries - 1, waited)
       \/ (Unreceived(a) \/ a = "doubly") /\ ChangeFails
       \/ a = "unanswered" /\ waited < Polls /\ Again(Retries, waited + 1)
       \/ a = "unanswered" /\ waited = Polls /\ ChangeFails
       \/ a = "answered" /\ ChangeNext("status", "status", FALSE)
    /\ UNCHANGED <<troubles, config, active, reserved, open, created>>

Status(a) ==
    /\ chg.state = "status"
    /\ Deliver(a)
    /\ \/ Retry(a) /\ Again(tries - 1, waited)
       \/ (Unreceived(a) \/ OtherWc(a)) /\ ChangeFails
       \/ a = "answered" /\ al = In(chg.to) /\ ChangeEnds(TRUE, al)
       \/ /\ a = "answered" /\ al # In(chg.to)
          /\ \/ al.state # chg.old.state /\ StatusAgain(al, al, TRUE)
             \/ /\ al.state = chg.old.state /\ al # chg.old    \* refused
                /\ StartCode(al, TRUE, TRUE)
             \/ al = chg.old /\ waited < Polls /\ StatusAgain(al, al, chg.spont)
             \/ al = chg.old /\ waited = Polls /\ ChangeEnds(FALSE, al)
    /\ UNCHANGED <<troubles, config, active, reserved, open, created>>

\* The error code is read, then the error is acknowledged.
Code(a) ==
    /\ chg.state = "code"
    /\ Deliver(a)
    /\ \/ Retry(a) /\ Again(tries - 1, waited)
       \/ Unreceived(a) /\ ChangeFails
       \/ (a = "answered" \/ OtherWc(a)) /\ ChangeNext("ack", "ack", chg.spont)
    /\ UNCHANGED <<troubles, config, active, reserved, open, created>>

Ack(a) ==
    /\ chg.state = "ack"
    /\ Deliver(a)
    /\ \/ Retry(a) /\ Again(tries - 1, waited)
       \/ (Unreceived(a) \/ OtherWc(a)) /\ ChangeFails
       \/ a = "answered" /\ ChangeNext("check_ack", "status", chg.spont)
    /\ UNCHANGED <<troubles, config, active, reserved, open, created>>

CheckAck(a) ==
    /\ chg.state = "check_ack"
    /\ Deliver(a)
    /\ \/ Retry(a) /\ Again(tries - 1, waited)
       \/ (Unreceived(a) \/ OtherWc(a)) /\ ChangeFails
       \/ a = "answered" /\ ~al.err /\ ChangeEnds(~chg.full, al)
       \/ a = "answered" /\ al.err /\ waited < Polls /\ StatusAgain(al, chg.old, chg.spont)
       \/ a = "answered" /\ al.err /\ waited = Polls /\ ChangeEnds(FALSE, al)
    /\ UNCHANGED <<troubles, config, active, reserved, open, created>>

-----------------------------------------------------------------------------
(* The configuration *)

\* The configuration was removed in the meantime, and the step asks for it.
Removed == fsm \in {"dc_cycle", "dc_sync_check", "dc_start"} /\ config = 0
\* Go on without an answer, or with a wrong working counter.  Mutated: writing
\* the FMMUs does so, too.
GoesOnLostFmmu == {"assign_pdi", "assign_ethercat", "fmmu"}
GoesOnLost == {"assign_pdi", "assign_ethercat"}
GoesOnWrong == GoesOnLost \cup {"dc_clear_assign", "watchdog"}

\* Mutated: the sync managers' error is noted, but the configuration goes on.
WrongNoted(a) ==
    Take(IF fsm \in GoesOnWrong THEN After(fsm)
         ELSE IF fsm = "pdo_sync" THEN [After(fsm) EXCEPT !.flag = TRUE] ELSE Fail)

\* Mutated: every answer restarts the timeout for the mailboxes' sync managers.
WrongForEver(a) ==
    IF fsm = "mbox_sync" /\ a = "unanswered" THEN Again(Retries, (waited + 1) % (Polls + 1))
    ELSE Take(IF fsm \in GoesOnWrong THEN After(fsm) ELSE Fail)

\* What a wrong working counter leads to.
Wrong(a) ==
    \/ fsm \in GoesOnWrong /\ Take(After(fsm))
    \/ /\ fsm = "mbox_sync" /\ a = "unanswered" /\ waited < Polls
       /\ Again(Retries, waited + 1)
    \/ /\ fsm = "watchdog_divider"              \* the same once more
       /\ slave' = [slave EXCEPT !.errorFlag = TRUE]
       /\ waited' = (waited + 1) % (Polls + 1)  \* a step, though not counted
       /\ UNCHANGED <<changed, fsm, chg, dg, tries, request, kept>>
    \/ /\ fsm \notin GoesOnWrong \cup {"watchdog_divider"}
       /\ ~(fsm = "mbox_sync" /\ a = "unanswered" /\ waited < Polls)
       /\ Take(Fail)

Step(a) ==
    /\ fsm \in Steps
    /\ Deliver(a)
    /\ \/ Removed /\ Take(EnterInit)
       \/ ~Removed /\ Retry(a) /\ Again(tries - 1, waited)
       \/ ~Removed /\ Unreceived(a) /\ Take(IF fsm \in GoesOnLost THEN After(fsm) ELSE Stop)
       \/ ~Removed /\ OtherWc(a) /\ Wrong(a)
       \/ ~Removed /\ a = "answered" /\ Take(After(fsm))
       \/ /\ fsm = "dc_sync_check" /\ ~Removed /\ a = "answered" /\ waited < Polls
          /\ Again(Retries, waited + 1)         \* not in sync yet
    /\ UNCHANGED <<troubles, config, active, reserved, open, created>>

\* A dummy datagram, whatever becomes of it.
WaitSafeop ==
    /\ fsm = "wait_safeop"
    /\ \/ waited < Polls /\ Again(tries, waited + 1)
       \/ Take(EnterSafeop)
    /\ UNCHANGED <<slavevars, troubles, config, active, reserved, open, created>>

\* Where the list of a state's requests leads when it is through.
AfterList ==
    CASE fsm = "sdo_conf" -> EnterSoeConfPreop
      [] fsm = "soe_conf_preop" -> EnterEoeIpParam
      [] fsm = "soe_conf_safeop" -> EnterOp

\* The request of an SDO or SoE list was transferred, or not.  If another
\* configuration is attached by now, fsm->request is in freed memory.
ListTransfer(ok) ==
    /\ fsm \in Lists
    /\ ok => present
    /\ LET last == request.id # 0 /\ fsm = "sdo_conf" /\ request.i = Configs[request.id].sdos
       IN esc' = IF ok /\ last THEN [esc EXCEPT !["sdo"] = request.id] ELSE esc
    /\ \/ ~ok /\ Take(Fail)
       \/ ok /\ config = 0 /\ Take(EnterInit)
       \/ ok /\ config = request.id /\ request.i < Count(fsm) /\ Take(Transfer(fsm, request.i + 1))
       \/ ok /\ config = request.id /\ config # 0 /\ request.i = Count(fsm) /\ Take(AfterList)
       \/ ok /\ config \notin {0, request.id} /\ (Take(AfterList) \/ Take(Transfer(fsm, 1)))
    /\ UNCHANGED <<kind, al, asked, present, drops, troubles, config, active,
                   reserved, open, created>>

\* The transfers whose failure is no more than a message.
OtherTransfer ==
    /\ \/ fsm = "eoe_ip_param" /\ Take(EnterPdoConf)
       \/ fsm = "pdo_conf" /\ Take(IF config = 0 THEN EnterInit ELSE EnterWatchdogDivider)
    /\ UNCHANGED <<slavevars, troubles, config, active, reserved, open, created>>

Master ==
    \/ Poll \/ RequestOp \/ WaitSafeop \/ OtherTransfer
    \/ \E ok \in BOOLEAN : ListTransfer(ok)
    \/ \E a \in Answers :
          ReadState(a) \/ Check(a) \/ Status(a) \/ Code(a) \/ Ack(a) \/ CheckAck(a) \/ Step(a)

Application ==
    \/ Reserve \/ SetEoeStates \/ CreateConfig \/ Activate \/ Release
    \/ EoedevOpenStop \/ RequestByTool
    \/ \E release \in BOOLEAN : Deactivate(release)

Slave == Obey \/ Refuse \/ Drop \/ PowerCycle

Next == Master \/ Rescan \/ Application \/ Slave

Spec == Init /\ [][Next]_vars

\* The master's thread runs, and a datagram comes back or times out.
FairSpec == Spec /\ WF_vars(Master)

-----------------------------------------------------------------------------
(* Properties. *)

\* Type invariant.
TypeOK ==
    /\ kind \in Kinds
    /\ al \in AL /\ asked \in ALStates \cup {"ACK", "none"}
    /\ esc \in [Registers -> Ids \cup {Cleared}]
    /\ present \in BOOLEAN /\ drops \in 0..MaxDrops
    /\ slave \in [current : AL \cup {Unknown}, requested : ALStates,
                  errorFlag : BOOLEAN, force : BOOLEAN]
    /\ config \in Ids /\ created \in Ids
    /\ troubles \in Troubles
    /\ active \in BOOLEAN /\ changed \in BOOLEAN
    /\ reserved \in {"no", "states", "yes"} /\ open \in BOOLEAN /\ kept \in BOOLEAN
    /\ fsm \in Steps \cup Transfers \cup Changes \cup
              {"idle", "times", "read_state", "acknowledge", "wait_safeop"}
    /\ chg.state \in {"none", "check", "status", "code", "ack", "check_ack"}
    /\ chg.full \in BOOLEAN /\ chg.spont \in BOOLEAN /\ chg.to \in ALStates
    /\ chg.old \in AL \cup {Unknown}
    /\ tries \in 0..Retries /\ waited \in 0..Polls
    /\ request.id \in Ids /\ request.i \in Nat

\* The slave's registers hold what configuration id asks for.
WrittenFor(id) ==
    /\ kind.mailbox => esc["mbox"] # Cleared
    /\ kind.syncs > (IF kind.mailbox THEN 2 ELSE 0) => esc["sync"] = id
    /\ id # 0 /\ kind.fmmus > 0 => esc["fmmu"] = id
    /\ id # 0 /\ Configs[id].sdos > 0 => esc["sdo"] = id
    /\ id # 0 /\ Configs[id].dc => esc["dc"] = id

\* Process data is exchanged through sync managers that were written: whatever
\* was lost, refused and requested, and even if the slave lost its registers
\* in the meantime, it is asked for SAFEOP or OP only with the sync managers
\* of its mailboxes and of its process data in place.
AskedWhenWritten ==
    asked \in {"SAFEOP", "OP"} =>
        /\ kind.mailbox => esc["mbox"] # Cleared
        /\ kind.syncs > (IF kind.mailbox THEN 2 ELSE 0) => esc["sync"] # Cleared

\* "Stop processing after an error" (error_flag, slave.h): once the flag is
\* set nothing more is written to the slave but what reads and acknowledges
\* its AL error, until somebody requests a state again.
StopsAfterError ==
    Busy /\ slave.errorFlag => chg.state \in {"code", "ack", "check_ack"}

\* A configuration that brings the slave to OP has written every register for
\* the configuration attached when it ends, whatever was lost and requested in
\* between and whatever the registers held from an earlier configuration; but
\* for one in the middle of which a configuration was attached or detached.
BroughtUp ==
    [][(kept /\ fsm = "op" /\ ~Busy' /\ slave'.current = In("OP"))
            => WrittenFor(config)]_vars

\* Every configuration ends, even one that is disturbed: config_busy is reset
\* and ec_master_enter_operation_phase() stops waiting for it.
BusyEnds == Busy ~> ~Busy
=============================================================================
