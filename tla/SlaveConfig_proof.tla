------------------------- MODULE SlaveConfig_proof -------------------------
(***************************************************************************)
(* Theorems about SlaveConfig for any kinds of slaves, any configurations, *)
(* retries, timeouts and troubles: the types; that a slave is asked for    *)
(* SAFEOP or OP only with its sync managers written; if no configuration   *)
(* sets the watchdog divider, that nothing is written after an error; and  *)
(* that a configuration which ends in OP has written every register for    *)
(* the configuration attached, if none was attached or detached meanwhile. *)
(***************************************************************************)
EXTENDS SlaveConfig, TLAPS

BusyStates == Steps \cup Transfers \cup Changes \cup {"wait_safeop"}
FsmStates == BusyStates \cup {"idle", "times", "read_state", "acknowledge"}

\* The states before and after which the sync managers of the mailboxes are
\* written, and behind those of the process data.
BeforeMbox == {"clear_fmmus", "clear_sync", "dc_clear_assign", "mbox_sync"}
AfterSync == {"fmmu", "dc_cycle", "dc_sync_check", "dc_start", "dc_assign",
              "wait_safeop", "safeop", "soe_conf_safeop", "op"}
AfterMbox == AfterSync \cup (Steps \ BeforeMbox) \cup Transfers \cup {"boot_preop"}

HasSync == kind.syncs > (IF kind.mailbox THEN 2 ELSE 0)
Divider == \E id \in DOMAIN Configs : Configs[id].divider

SlaveType ==
    /\ kind \in Kinds
    /\ al \in AL /\ asked \in ALStates \cup {"ACK", "none"}
    /\ esc \in [Registers -> Ids \cup {Cleared}]
    /\ present \in BOOLEAN /\ drops \in 0..MaxDrops

AppType ==
    /\ troubles \in Troubles /\ config \in Ids /\ created \in Ids
    /\ active \in BOOLEAN /\ reserved \in {"no", "states", "yes"} /\ open \in BOOLEAN

SlaveRecord == [current : AL \cup {Unknown}, requested : ALStates,
                errorFlag : BOOLEAN, force : BOOLEAN]
ChangeRecord == [state : {"none", "check", "status", "code", "ack", "check_ack"},
                 full : BOOLEAN, to : ALStates, old : AL \cup {Unknown},
                 spont : BOOLEAN]

MasterType ==
    /\ slave \in SlaveRecord /\ chg \in ChangeRecord
    /\ changed \in BOOLEAN /\ kept \in BOOLEAN
    /\ fsm \in FsmStates
    /\ tries \in 0..Retries /\ waited \in 0..Polls
    /\ request \in [id : Ids, i : Nat]

\* What a state is entered with: AL states are asked for in their states only,
\* sync managers cleared only in theirs.
Prepared(to, op, arg) ==
    /\ op \in Registers => arg \in Ids \cup {Cleared}
    /\ op = "al" => /\ to \in Changes /\ arg \in ALStates
                    /\ arg \in {"SAFEOP", "OP"} => to \in {"safeop", "op"}
                    /\ to = "init" => arg = "INIT"
    /\ op = "sync" /\ arg = Cleared => to = "clear_sync"
    /\ op = "mbox" => arg = 0
    /\ to = "mbox_sync" => op = "mbox"
    /\ to = "pdo_sync" => op = "sync"
    /\ to = "watchdog_divider" => Divider

\* The AL state is changed in the states that do so, and asked for first; its
\* error is acknowledged there, or before a configuration is started.
ChgInv ==
    /\ Prepared(fsm, dg.op, dg.arg)
    /\ chg.state # "none" <=> fsm \in Changes \cup {"acknowledge"}
    /\ fsm \in Changes => chg.full
    /\ fsm = "acknowledge" => ~chg.full /\ chg.state \in {"code", "ack", "check_ack"}
    /\ dg.op = "al" <=> chg.state = "check"

Early == fsm \in {"clear_fmmus", "clear_sync"} \/ (fsm = "init" /\ chg.state # "check")

\* The sync managers stay written in the states behind, and nothing that was
\* asked for earlier is left when they are cleared.
FlowInv ==
    /\ present /\ kind.mailbox /\ fsm \in AfterMbox => esc["mbox"] # Cleared
    /\ present /\ HasSync /\ fsm \in AfterSync => esc["sync"] # Cleared
    /\ Early => asked \notin {"SAFEOP", "OP"}

StopInv == ~Divider => StopsAfterError

Inv ==
    /\ SlaveType /\ AppType /\ MasterType
    /\ ChgInv /\ FlowInv /\ AskedWhenWritten /\ StopInv

\* What the state machines go on with.
Well(t) ==
    /\ t.to \in FsmStates /\ t.to # "acknowledge"
    /\ t.flag \in BOOLEAN /\ t.request \in [id : Ids, i : Nat]
    /\ Prepared(t.to, t.op, t.arg)
    /\ t.op = "al" <=> t.to \in Changes
    /\ t.flag => t.to = "idle"

\* Ends, starts over, or goes on behind the mailboxes' sync managers, or also
\* behind those of the process data.
Up(t) == Well(t) /\ t.to \in AfterMbox \cup {"init", "idle"}
         /\ (t.to \in AfterSync => ~HasSync)
Late(t) == Well(t) /\ t.to \in AfterSync \cup {"init", "idle"}
\* Ends, or goes on before.
Down(t) == Well(t) /\ t.to \in BeforeMbox \cup {"idle", "init"}

-----------------------------------------------------------------------------
(* The states that the Enter operators lead to. *)

LEMMA IdsNat == Ids \subseteq Nat
<1>1. DOMAIN Configs = 1..Len(Configs) /\ Len(Configs) \in Nat
  BY SlaveConfigAssumption
<1> QED
  BY <1>1 DEF Ids

LEMMA SendPlain ==
    ASSUME MasterType, NEW s \in FsmStates \ Changes,
           s \notin {"mbox_sync", "pdo_sync", "watchdog_divider", "acknowledge"},
           NEW op, op \notin Registers \cup {"al"}, NEW arg
    PROVE  Well(Send(s, op, arg)) /\ Send(s, op, arg).to = s
<1>1. op # "sync" /\ op # "mbox"
  BY DEF Registers
<1> QED
  BY <1>1 DEF Well, Send, Prepared, MasterType

LEMMA SendRegister ==
    ASSUME MasterType, NEW s \in Steps, NEW op \in Registers,
           NEW arg \in Ids \cup {Cleared},
           op = "sync" => s \in {"clear_sync", "pdo_sync"} /\ (arg = Cleared => s = "clear_sync"),
           op = "mbox" => arg = 0,
           s \in {"mbox_sync"} => op = "mbox", s = "pdo_sync" => op = "sync",
           s # "watchdog_divider"
    PROVE  Well(Send(s, op, arg)) /\ Send(s, op, arg).to = s
<1>1. op # "al" /\ s \notin Changes /\ s \in FsmStates /\ s # "acknowledge"
  BY DEF Registers, Changes, Steps, FsmStates, BusyStates
<1> QED
  BY <1>1 DEF Well, Send, Prepared, MasterType

LEMMA SendChange ==
    ASSUME MasterType, NEW s \in Changes, NEW to \in ALStates,
           to \in {"SAFEOP", "OP"} => s \in {"safeop", "op"},
           s = "init" => to = "INIT"
    PROVE  Well(ChangeTo(s, to)) /\ ChangeTo(s, to).to = s
<1>1. "al" \notin Registers /\ s \in FsmStates /\ s \notin Steps /\ s # "acknowledge"
  BY DEF Registers, Changes, Steps, FsmStates, BusyStates
<1> QED
  BY <1>1 DEF Well, ChangeTo, Send, Prepared, MasterType, Steps

\* The sets of states.
LEMMA States ==
    /\ Steps \subseteq FsmStates /\ Transfers \subseteq FsmStates
    /\ Changes \subseteq FsmStates
    /\ {"idle", "times", "read_state", "acknowledge", "wait_safeop"} \subseteq FsmStates
    /\ AfterSync \subseteq AfterMbox /\ AfterMbox \subseteq FsmStates
    /\ Lists \subseteq Transfers
    /\ Steps \cap Changes = {} /\ Transfers \cap Changes = {}
    /\ {"idle", "times", "read_state", "acknowledge", "wait_safeop"} \cap Changes = {}
  BY DEF Steps, Transfers, Changes, BusyStates, FsmStates, AfterSync, AfterMbox,
         BeforeMbox, Lists

LEMMA Ends ==
    ASSUME MasterType
    PROVE  /\ Well(Stop) /\ Stop.to = "idle"
           /\ Well(Fail) /\ Fail.to = "idle"
<1>1. Well(Stop) /\ Stop.to = "idle"
  BY SendPlain, States DEF Stop, Registers
<1>2. Well(Fail) /\ Fail.to = "idle"
  BY <1>1 DEF Fail, Stop, Send, Well
<1> QED
  BY <1>1, <1>2

LEMMA EnterChanges ==
    ASSUME MasterType
    PROVE  /\ Well(EnterInit) /\ EnterInit.to = "init"
           /\ Well(EnterSafeop) /\ EnterSafeop.to = "safeop"
           /\ Well(EnterOp) /\ EnterOp.to = "op"
           /\ Well(EnterBootPreop) /\ EnterBootPreop.to = "boot_preop"
<1>1. Well(EnterInit) /\ EnterInit.to = "init"
  BY SendChange DEF EnterInit, Changes, ALStates
<1>2. Well(EnterSafeop) /\ EnterSafeop.to = "safeop"
  BY SendChange DEF EnterSafeop, Changes, ALStates
<1>3. Well(EnterOp) /\ EnterOp.to = "op"
  BY SendChange DEF EnterOp, Changes, ALStates
<1>4. Well(EnterBootPreop) /\ EnterBootPreop.to = "boot_preop"
  BY SendChange DEF EnterBootPreop, Changes, ALStates
<1> QED
  BY <1>1, <1>2, <1>3, <1>4

LEMMA TransferWell ==
    ASSUME MasterType, AppType, NEW s \in Lists, NEW i \in Nat
    PROVE  Well(Transfer(s, i)) /\ Transfer(s, i).to = s
<1>1. s \in FsmStates \ Changes /\ s \notin {"mbox_sync", "pdo_sync", "watchdog_divider", "acknowledge"}
  BY States DEF Lists, Changes
<1>2. Well(Send(s, "transfer", i)) /\ Send(s, "transfer", i).to = s
  BY <1>1, SendPlain DEF Registers
<1>3. [id |-> config, i |-> i] \in [id : Ids, i : Nat]
  BY DEF AppType
<1> QED
  BY <1>2, <1>3 DEF Transfer, Send, Well

LEMMA EnterLate ==
    ASSUME MasterType, AppType, SlaveType
    PROVE  /\ Late(EnterSoeConfSafeop)
           /\ Late(EnterWaitSafeop) /\ EnterWaitSafeop.to # "init"
           /\ Late(EnterDcCycle) /\ Late(EnterFmmu)
           /\ Late(EnterOp) /\ Late(EnterInit) /\ Late(EnterSafeop)
           /\ Late(Stop) /\ Late(Fail)
<1>1. /\ Late(EnterOp) /\ Late(EnterInit) /\ Late(EnterSafeop)
      /\ Late(Stop) /\ Late(Fail)
  BY EnterChanges, Ends DEF Late, AfterSync
<1>2. Late(EnterSoeConfSafeop)
  <2>1. Late(Transfer("soe_conf_safeop", 1))
    BY TransferWell DEF Lists, Late, AfterSync
  <2> QED
    BY <1>1, <2>1 DEF EnterSoeConfSafeop
<1>3. Late(EnterWaitSafeop) /\ EnterWaitSafeop.to # "init"
  <2>1. Late(Send("wait_safeop", "none", 0)) /\ Send("wait_safeop", "none", 0).to = "wait_safeop"
    BY SendPlain, States DEF Late, AfterSync, Registers
  <2> QED
    BY <1>1, <2>1, EnterChanges DEF EnterWaitSafeop
<1>4. Late(EnterDcCycle)
  <2>1. Late(Send("dc_cycle", "none", 0))
    BY SendPlain, States DEF Late, AfterSync, Registers, Steps
  <2> QED
    BY <1>1, <1>3, <2>1 DEF EnterDcCycle
<1>5. Late(EnterFmmu)
  <2>1. Late(Send("fmmu", "fmmu", config))
    BY SendRegister DEF Late, AfterSync, Registers, Steps, AppType
  <2> QED
    BY <1>1, <1>3, <1>4, <2>1 DEF EnterFmmu
<1> QED
  BY <1>1, <1>2, <1>3, <1>4, <1>5

LEMMA EnterUp ==
    ASSUME MasterType, AppType, SlaveType
    PROVE  /\ Up(EnterPdoSync) /\ Up(EnterWatchdog) /\ Up(EnterWatchdogDivider)
           /\ Up(EnterPdoConf) /\ Up(EnterEoeIpParam) /\ Up(EnterSoeConfPreop)
           /\ Up(EnterSdoConf) /\ Up(EnterAssignPdi)
           /\ \A current : Up(EndOrSdoConf(current)) /\ Up(AfterBootPreop(current))
           /\ Up(EnterBootPreop) /\ Up(EnterInit) /\ Up(Stop) /\ Up(Fail)
<1>1. Up(Stop) /\ Up(Fail) /\ Up(EnterInit)
  BY EnterChanges, Ends DEF Up, AfterSync
<1>2. Up(EnterBootPreop)
  BY EnterChanges DEF Up, AfterSync, AfterMbox
<1>3. Up(EnterPdoSync)
  <2>1. Up(Send("pdo_sync", "sync", config))
    <3>1. Well(Send("pdo_sync", "sync", config)) /\ Send("pdo_sync", "sync", config).to = "pdo_sync"
      <4>1. "pdo_sync" \in Steps /\ "sync" \in Registers /\ config \in Ids \cup {Cleared}
        BY DEF Registers, Steps, AppType
      <4>2. config # Cleared
        BY IdsNat DEF AppType, Cleared
      <4> QED
        BY <4>1, <4>2, SendRegister
    <3> QED
      BY <3>1 DEF Up, AfterSync, AfterMbox, BeforeMbox, Steps
  <2>2. CASE kind.syncs <= (IF kind.mailbox THEN 2 ELSE 0)
    <3>1. kind.syncs \in Nat
      BY SlaveConfigAssumption DEF SlaveType
    <3>2. ~HasSync
      BY <2>2, <3>1 DEF HasSync
    <3>3. Late(EnterFmmu)
      BY EnterLate
    <3>4. Up(EnterFmmu)
      BY <3>2, <3>3, States DEF Up, Late
    <3> QED
      BY <2>2, <3>4 DEF EnterPdoSync
  <2>3. CASE ~(kind.syncs <= (IF kind.mailbox THEN 2 ELSE 0))
    BY <2>1, <2>3 DEF EnterPdoSync
  <2> QED
    BY <2>2, <2>3
<1>4. ASSUME NEW s \in {"watchdog", "pdo_conf", "eoe_ip_param", "assign_pdi", "assign_ethercat"},
             NEW op \in {"none", "transfer"}
      PROVE  Up(Send(s, op, 0))
  <2>1. s \in FsmStates \ Changes /\ s \in AfterMbox /\ s \notin AfterSync
    BY DEF FsmStates, BusyStates, Changes, Steps, Transfers, AfterMbox, AfterSync, BeforeMbox
  <2>2. Well(Send(s, op, 0)) /\ Send(s, op, 0).to = s
    BY <2>1, SendPlain DEF Registers
  <2> QED
    BY <2>1, <2>2 DEF Up
<1>5. Up(EnterWatchdog)
  BY <1>3, <1>4 DEF EnterWatchdog
<1>6. Up(EnterWatchdogDivider)
  <2>1. ASSUME config # 0, Configs[config].divider
        PROVE  Up(Send("watchdog_divider", "none", 0))
    <3>1. Divider
      BY <2>1 DEF Divider, AppType, Ids
    <3> QED
      BY <3>1 DEF Up, Well, Send, Prepared, Registers, MasterType, FsmStates, BusyStates,
                  Steps, Changes, AfterMbox, AfterSync, BeforeMbox
  <2> QED
    BY <1>5, <2>1 DEF EnterWatchdogDivider
<1>7. Up(EnterPdoConf)
  BY <1>4 DEF EnterPdoConf
<1>8. Up(EnterEoeIpParam)
  BY <1>4, <1>7 DEF EnterEoeIpParam
<1>9. ASSUME NEW s \in {"sdo_conf", "soe_conf_preop"} PROVE Up(Transfer(s, 1))
  BY TransferWell DEF Lists, Up, AfterMbox, AfterSync, Transfers
<1>10. Up(EnterSoeConfPreop)
  BY <1>3, <1>8, <1>9 DEF EnterSoeConfPreop
<1>11. Up(EnterSdoConf)
  BY <1>3, <1>9, <1>10 DEF EnterSdoConf
<1>12. \A current : Up(EndOrSdoConf(current))
  BY <1>1, <1>11 DEF EndOrSdoConf
<1>13. \A current : Up(AfterBootPreop(current))
  BY <1>4, <1>12 DEF AfterBootPreop
<1>14. Up(EnterAssignPdi)
  BY <1>2, <1>4 DEF EnterAssignPdi
<1> QED
  BY <1>1, <1>2, <1>3, <1>5, <1>6, <1>7, <1>8, <1>10, <1>11, <1>12, <1>13, <1>14

\* Without a mailbox the state machine goes up at once.
LEMMA EnterDown ==
    ASSUME MasterType, AppType, SlaveType
    PROVE  /\ Down(EnterMboxSync) \/ (~kind.mailbox /\ Up(EnterMboxSync))
           /\ EnterMboxSync.to \notin {"clear_fmmus", "clear_sync"}
           /\ Down(EnterDcClearAssign) \/ (~kind.mailbox /\ Up(EnterDcClearAssign))
           /\ EnterDcClearAssign.to \notin {"clear_fmmus", "clear_sync"}
           /\ Down(EnterClearSync) \/ (~kind.mailbox /\ Up(EnterClearSync))
           /\ EnterClearSync.to # "clear_fmmus"
           /\ Down(AfterInit) \/ (~kind.mailbox /\ Up(AfterInit))
<1>1. Down(Stop) /\ Stop.to = "idle"
  BY Ends DEF Down
<1>2. Up(EnterAssignPdi) /\ EnterAssignPdi.to \in {"boot_preop", "assign_pdi"}
  BY EnterUp, EnterChanges DEF EnterAssignPdi, Send
<1>3. Down(Send("mbox_sync", "mbox", 0)) /\ Send("mbox_sync", "mbox", 0).to = "mbox_sync"
  BY SendRegister DEF Steps, Registers, Ids, Down, BeforeMbox
<1>4. /\ Down(EnterMboxSync) \/ (~kind.mailbox /\ Up(EnterMboxSync))
      /\ EnterMboxSync.to \notin {"clear_fmmus", "clear_sync"}
  BY <1>1, <1>2, <1>3 DEF EnterMboxSync
<1>5. ASSUME NEW s \in {"dc_clear_assign", "clear_sync", "clear_fmmus"},
             NEW op \in Registers, op # "mbox", op = "sync" => s = "clear_sync"
      PROVE  Down(Send(s, op, Cleared)) /\ Send(s, op, Cleared).to = s
  <2>1. Well(Send(s, op, Cleared)) /\ Send(s, op, Cleared).to = s
    BY <1>5, SendRegister DEF Steps
  <2> QED
    BY <2>1 DEF Down, BeforeMbox
<1>6. /\ Down(EnterDcClearAssign) \/ (~kind.mailbox /\ Up(EnterDcClearAssign))
      /\ EnterDcClearAssign.to \notin {"clear_fmmus", "clear_sync"}
  BY <1>4, <1>5 DEF EnterDcClearAssign, Registers
<1>7. /\ Down(EnterClearSync) \/ (~kind.mailbox /\ Up(EnterClearSync))
      /\ EnterClearSync.to # "clear_fmmus"
  <2>1. Down(Send("clear_sync", "sync", Cleared)) /\ Send("clear_sync", "sync", Cleared).to = "clear_sync"
    BY <1>5 DEF Registers
  <2> QED
    BY <1>6, <2>1 DEF EnterClearSync
<1>8. Down(AfterInit) \/ (~kind.mailbox /\ Up(AfterInit))
  <2>1. Down(Send("clear_fmmus", "fmmu", Cleared))
    BY <1>5 DEF Registers
  <2>2. AfterInit = Send("clear_fmmus", "fmmu", Cleared) \/ AfterInit = EnterClearSync
    BY DEF AfterInit
  <2> QED
    BY <1>7, <2>1, <2>2
<1> QED
  BY <1>4, <1>6, <1>7, <1>8

-----------------------------------------------------------------------------
(* The state machines go on. *)

\* From the state they are in: not past the sync managers, unless they were in
\* the state that writes them.
Leads(t) ==
    /\ Well(t)
    /\ t.to \in AfterMbox => fsm \in AfterMbox \cup {"mbox_sync"} \/ ~kind.mailbox
    /\ t.to \in AfterSync => fsm \in AfterSync \cup {"pdo_sync"} \/ ~HasSync
    /\ t.to \in {"clear_fmmus", "clear_sync"} => fsm \in {"init", "clear_fmmus"}

LEMMA UpLeads ==
    ASSUME NEW t, Up(t), fsm \in AfterMbox \cup {"mbox_sync"} \/ ~kind.mailbox
    PROVE  Leads(t)
  BY DEF Up, Leads, AfterMbox, AfterSync, BeforeMbox, Transfers

LEMMA LateLeads ==
    ASSUME NEW t, Late(t), fsm \in AfterSync \cup {"pdo_sync"}
    PROVE  Leads(t)
<1>1. t.to \notin {"clear_fmmus", "clear_sync"}
  BY DEF Late, AfterSync
<1>2. fsm \in AfterMbox
  BY DEF AfterMbox, AfterSync, BeforeMbox, Steps
<1> QED
  BY <1>1, <1>2 DEF Late, Leads

LEMMA DownLeads ==
    ASSUME NEW t, Down(t) \/ (~kind.mailbox /\ Up(t)),
           t.to \in {"clear_fmmus", "clear_sync"} => fsm \in {"init", "clear_fmmus"}
    PROVE  Leads(t)
<1>1. CASE Down(t)
  <2>1. t.to \notin AfterMbox /\ t.to \notin AfterSync
    BY <1>1 DEF Down, BeforeMbox, AfterMbox, AfterSync, Transfers, Steps
  <2> QED
    BY <1>1, <2>1 DEF Down, Leads
<1>2. CASE ~kind.mailbox /\ Up(t)
  BY <1>2, UpLeads
<1> QED
  BY <1>1, <1>2

LEMMA EndsLead ==
    ASSUME MasterType
    PROVE  Leads(Stop) /\ Leads(Fail) /\ Leads(EnterInit)
<1>1. \A s \in {"idle", "init"} : s \notin AfterMbox \cup AfterSync
                                  /\ s \notin {"clear_fmmus", "clear_sync"}
  BY DEF AfterMbox, AfterSync, BeforeMbox, Transfers, Steps
<1> QED
  BY <1>1, Ends, EnterChanges DEF Leads

LEMMA AfterLeads ==
    ASSUME MasterType, AppType, SlaveType, fsm \in Steps, ChgInv
    PROVE  Leads(After(fsm))
<1>1. CASE fsm \in {"clear_fmmus", "clear_sync", "dc_clear_assign"}
  <2>1. CASE fsm = "clear_fmmus"
    BY <2>1, EnterDown, DownLeads DEF After
  <2>2. CASE fsm = "clear_sync"
    BY <2>2, EnterDown, DownLeads DEF After
  <2>3. CASE fsm = "dc_clear_assign"
    BY <2>3, EnterDown, DownLeads DEF After
  <2> QED
    BY <1>1, <2>1, <2>2, <2>3
<1>2. CASE fsm \in {"mbox_sync", "assign_pdi", "assign_ethercat", "watchdog_divider", "watchdog"}
  <2>1. fsm \in AfterMbox \cup {"mbox_sync"}
    BY <1>2 DEF AfterMbox, BeforeMbox, Steps
  <2>2. CASE fsm = "mbox_sync"
    BY <2>1, <2>2, EnterUp, UpLeads DEF After
  <2>3. CASE fsm = "assign_pdi"
    BY <2>1, <2>3, EnterUp, UpLeads DEF After
  <2>4. CASE fsm = "assign_ethercat"
    BY <2>1, <2>4, EnterUp, UpLeads DEF After
  <2>5. CASE fsm = "watchdog_divider"
    BY <2>1, <2>5, EnterUp, UpLeads DEF After
  <2>6. CASE fsm = "watchdog"
    BY <2>1, <2>6, EnterUp, UpLeads DEF After
  <2> QED
    BY <1>2, <2>2, <2>3, <2>4, <2>5, <2>6
<1>3. CASE fsm \in {"pdo_sync", "fmmu", "dc_cycle", "dc_sync_check", "dc_start", "dc_assign"}
  <2>1. fsm \in AfterSync \cup {"pdo_sync"}
    BY <1>3 DEF AfterSync
  <2>2. CASE fsm = "pdo_sync"
    BY <2>1, <2>2, EnterLate, LateLeads DEF After
  <2>3. CASE fsm = "fmmu"
    BY <2>1, <2>3, EnterLate, LateLeads DEF After
  <2>4. CASE fsm = "dc_cycle" \/ fsm = "dc_sync_check"
    <3>1. ASSUME NEW s \in {"dc_sync_check", "dc_start"} PROVE Late(Send(s, "none", 0))
      BY SendPlain, States DEF Late, AfterSync, Steps, Registers
    <3>2. Late(After(fsm))
      BY <2>4, <3>1 DEF After
    <3> QED
      BY <2>1, <3>2, LateLeads
  <2>5. CASE fsm = "dc_start"
    <3>1. Late(Send("dc_assign", "dc", config))
      BY SendRegister DEF Late, AfterSync, Steps, Registers, AppType
    <3> QED
      BY <2>1, <2>5, <3>1, LateLeads DEF After
  <2>6. CASE fsm = "dc_assign"
    BY <2>1, <2>6, EnterLate, LateLeads DEF After
  <2> QED
    BY <1>3, <2>2, <2>3, <2>4, <2>5, <2>6
<1> QED
  BY <1>1, <1>2, <1>3 DEF Steps

LEMMA AfterChangeLeads ==
    ASSUME MasterType, AppType, SlaveType, fsm \in Changes, NEW current
    PROVE  Leads(AfterChange(current))
<1>1. CASE fsm = "init"
  BY <1>1, EnterDown, DownLeads DEF AfterChange
<1>2. CASE fsm = "boot_preop"
  <2>1. fsm \in AfterMbox
    BY <1>2 DEF AfterMbox
  <2> QED
    BY <1>2, <2>1, EnterUp, UpLeads DEF AfterChange
<1>3. CASE fsm = "safeop"
  <2>1. fsm \in AfterSync
    BY <1>3 DEF AfterSync
  <2> QED
    BY <1>3, <2>1, EnterLate, LateLeads, EndsLead DEF AfterChange
<1>4. CASE fsm = "op"
  BY <1>4, EndsLead DEF AfterChange
<1> QED
  BY <1>1, <1>2, <1>3, <1>4 DEF Changes

LEMMA AfterListLeads ==
    ASSUME MasterType, AppType, SlaveType, fsm \in Lists
    PROVE  Leads(AfterList)
<1>1. CASE fsm \in {"sdo_conf", "soe_conf_preop"}
  <2>1. fsm \in AfterMbox \cup {"mbox_sync"}
    BY <1>1 DEF AfterMbox, Transfers
  <2>2. AfterList = IF fsm = "sdo_conf" THEN EnterSoeConfPreop ELSE EnterEoeIpParam
    BY <1>1 DEF AfterList
  <2>3. Leads(EnterSoeConfPreop) /\ Leads(EnterEoeIpParam)
    BY <2>1, EnterUp, UpLeads
  <2> QED
    BY <2>2, <2>3
<1>2. CASE fsm = "soe_conf_safeop"
  BY <1>2, EnterLate, LateLeads DEF AfterList, AfterSync
<1> QED
  BY <1>1, <1>2 DEF Lists

LEMMA TransferLeads ==
    ASSUME MasterType, AppType, SlaveType, fsm \in Lists, NEW i \in Nat
    PROVE  Leads(Transfer(fsm, i))
<1>1. Well(Transfer(fsm, i)) /\ Transfer(fsm, i).to = fsm
  BY TransferWell
<1> QED
  BY <1>1 DEF Leads, Lists

\* A new state is entered: types, the datagram and the change of the AL state.
LEMMA TakeType ==
    ASSUME MasterType, NEW t, Well(t),
           NEW current \in AL \cup {Unknown}, NEW flag \in BOOLEAN,
           TakeWith(t, current, flag)
    PROVE  MasterType' /\ ChgInv'
<1>1. /\ fsm' = t.to /\ dg' = [op |-> t.op, arg |-> t.arg]
      /\ request' = IF t.to \in Lists THEN t.request ELSE [id |-> 0, i |-> 0]
      /\ tries' = Retries /\ waited' = 0
      /\ changed' = (changed /\ t.to # "times")
      /\ kept' = (kept \/ t.to \in {"init", "idle"})
      /\ slave' = [slave EXCEPT !.current = current, !.errorFlag = flag \/ t.flag,
                      !.force = @ /\ ~(Busy /\ t.to = "idle")]
  BY DEF TakeWith
<1>2. request' \in [id : Ids, i : Nat]
  <2>1. [id |-> 0, i |-> 0] \in [id : Ids, i : Nat]
    BY DEF Ids
  <2> QED
    BY <1>1, <2>1 DEF Well
<1>3. changed' \in BOOLEAN /\ kept' \in BOOLEAN
  BY <1>1 DEF MasterType
<1>4. slave' \in SlaveRecord
  <2>1. (flag \/ t.flag) \in BOOLEAN
    OBVIOUS
  <2>2. (slave.force /\ ~(Busy /\ t.to = "idle")) \in BOOLEAN
    OBVIOUS
  <2> HIDE DEF Busy
  <2>3. slave' = [slave EXCEPT !.current = current, !.errorFlag = flag \/ t.flag,
                    !.force = slave.force /\ ~(Busy /\ t.to = "idle")]
    BY <1>1
  <2> QED
    BY <2>1, <2>2, <2>3 DEF MasterType, SlaveRecord
<1>5. tries' \in 0..Retries /\ waited' \in 0..Polls
  BY <1>1, SlaveConfigAssumption
<1>6. chg' \in ChangeRecord
      /\ (t.op = "al" => chg'.state = "check" /\ chg'.full)
      /\ (t.op # "al" => chg'.state = "none")
  <2>1. CASE t.op = "al"
    <3>1. chg' = [chg EXCEPT !.state = "check", !.full = TRUE,
                             !.to = t.arg, !.old = current]
      BY <2>1 DEF TakeWith
    <3>2. t.arg \in ALStates
      BY <2>1 DEF Well, Prepared
    <3> QED
      BY <2>1, <3>1, <3>2 DEF MasterType, ChangeRecord
  <2>2. CASE t.op # "al"
    <3>1. chg' = [NoChange EXCEPT !.spont = chg.spont]
      BY <2>2 DEF TakeWith
    <3>2. NoChange \in ChangeRecord /\ NoChange.state = "none"
      BY DEF NoChange, ALStates, ChangeRecord
    <3>3. chg.spont \in BOOLEAN
      BY DEF MasterType, ChangeRecord
    <3> QED
      BY <2>2, <3>1, <3>2, <3>3 DEF ChangeRecord
  <2> QED
    BY <2>1, <2>2
<1>7. MasterType'
  BY <1>1, <1>2, <1>3, <1>4, <1>5, <1>6 DEF MasterType, Well
<1>8. ChgInv'
  <2>1. dg'.op = t.op /\ dg'.arg = t.arg
    BY <1>1
  <2>2. Prepared(fsm', dg'.op, dg'.arg)
    BY <1>1, <2>1 DEF Well
  <2>3. t.op = "al" <=> t.to \in Changes
    BY DEF Well
  <2>4. "acknowledge" \notin Changes
    BY DEF Changes
  <2>5. t.to # "acknowledge"
    BY DEF Well
  <2> QED
    BY <1>1, <1>6, <2>1, <2>2, <2>3, <2>4, <2>5 DEF ChgInv
<1> QED
  BY <1>7, <1>8

-----------------------------------------------------------------------------
(* What the answers leave of the slave's registers and of what it was asked. *)

Kept ==
    /\ kind' = kind /\ present' = present
    /\ asked' \in {"SAFEOP", "OP"} =>
           asked' = asked \/ (fsm \in {"safeop", "op"} /\ present)
    /\ esc'["mbox"] = Cleared => esc["mbox"] = Cleared \/ fsm = "clear_sync"
    /\ esc'["sync"] = Cleared => esc["sync"] = Cleared \/ fsm = "clear_sync"

LEMMA DeliverKept ==
    ASSUME Inv, NEW a \in Answers, Deliver(a)
    PROVE  /\ Kept /\ SlaveType'
           /\ a = "answered" /\ fsm = "mbox_sync" => esc'["mbox"] # Cleared
           /\ a = "answered" /\ fsm = "pdo_sync" => esc'["sync"] # Cleared
           /\ a = "answered" /\ dg.op = "al" => asked' = dg.arg
<1>1. SlaveType /\ Prepared(fsm, dg.op, dg.arg)
  BY DEF Inv, ChgInv
<1>2. /\ kind' = kind /\ present' = present /\ al' = al /\ drops' = drops
      /\ Executed(a) => present
      /\ a = "answered" => Executed(a)
  BY DEF Deliver, Executed
<1>3. asked' = IF ~Executed(a) THEN asked
               ELSE IF dg.op = "al" THEN dg.arg
               ELSE IF dg.op = "ack" THEN "ACK"
               ELSE asked
  BY DEF Deliver
<1>4. esc' = IF Executed(a) /\ dg.op \in Registers
                THEN Written(dg.op, dg.arg) ELSE esc
  BY DEF Deliver
<1>5. asked' \in ALStates \cup {"ACK", "none"}
  BY <1>1, <1>3 DEF SlaveType, Prepared
<1>6. esc' \in [Registers -> Ids \cup {Cleared}]
  <2>1. dg.op \in Registers => dg.arg \in Ids \cup {Cleared}
    BY <1>1 DEF Prepared
  <2>2. esc \in [Registers -> Ids \cup {Cleared}]
    BY <1>1 DEF SlaveType
  <2> QED
    BY <1>4, <2>1, <2>2 DEF Written
<1>7. asked' \in {"SAFEOP", "OP"} =>
           asked' = asked \/ (fsm \in {"safeop", "op"} /\ present)
  BY <1>1, <1>2, <1>3 DEF Prepared
<1>8. /\ esc'["sync"] = IF Executed(a) /\ dg.op = "sync" THEN dg.arg ELSE esc["sync"]
      /\ esc'["mbox"] = IF Executed(a) /\ dg.op = "sync" /\ dg.arg = Cleared THEN Cleared
                        ELSE IF Executed(a) /\ dg.op = "mbox" THEN dg.arg ELSE esc["mbox"]
  <2>1. esc \in [Registers -> Ids \cup {Cleared}]
    BY <1>1 DEF SlaveType
  <2> QED
    BY <1>4, <2>1 DEF Written, Registers
<1>9. "mbox" \in Registers /\ "sync" \in Registers
  BY DEF Registers
<1>10. esc'["mbox"] = Cleared => esc["mbox"] = Cleared \/ fsm = "clear_sync"
  BY <1>1, <1>8, <1>9 DEF Prepared, Cleared
<1>11. esc'["sync"] = Cleared => esc["sync"] = Cleared \/ fsm = "clear_sync"
  BY <1>1, <1>8, <1>9 DEF Prepared
<1>12. a = "answered" /\ fsm = "mbox_sync" => esc'["mbox"] # Cleared
  BY <1>1, <1>2, <1>8, <1>9 DEF Prepared, Cleared
<1>13. a = "answered" /\ fsm = "pdo_sync" => esc'["sync"] # Cleared
  BY <1>1, <1>2, <1>8, <1>9 DEF Prepared
<1>14. Kept
  BY <1>2, <1>7, <1>10, <1>11 DEF Kept
<1>15. SlaveType'
  BY <1>1, <1>2, <1>5, <1>6 DEF SlaveType
<1> QED
  BY <1>2, <1>3, <1>12, <1>13, <1>14, <1>15

LEMMA KeptAsked ==
    ASSUME Inv, Kept
    PROVE  /\ AskedWhenWritten' /\ (HasSync' <=> HasSync)
           /\ Early => asked' \notin {"SAFEOP", "OP"}
           /\ fsm \in AfterMbox /\ present' /\ kind'.mailbox => esc'["mbox"] # Cleared
           /\ fsm \in AfterSync /\ present' /\ HasSync' => esc'["sync"] # Cleared
<1>1. HasSync' <=> HasSync
  BY DEF Kept, HasSync
<1>2. fsm \in AfterMbox => fsm # "clear_sync"
  BY DEF AfterSync, AfterMbox, BeforeMbox, Transfers
<1>3. {"safeop", "op"} \subseteq AfterSync
  BY DEF AfterSync
<1>4. FlowInv /\ AskedWhenWritten
  BY DEF Inv
<1>5. fsm \in AfterMbox /\ present' /\ kind'.mailbox => esc'["mbox"] # Cleared
  BY <1>2, <1>4 DEF Kept, FlowInv
<1>6. fsm \in AfterSync /\ present' /\ HasSync' => esc'["sync"] # Cleared
  BY <1>1, <1>2, <1>4 DEF Kept, FlowInv, AfterMbox
<1>7. Early => asked' \notin {"SAFEOP", "OP"}
  BY <1>4 DEF Kept, FlowInv, Early
<1>8. asked' \in {"SAFEOP", "OP"} =>
          (kind'.mailbox => esc'["mbox"] # Cleared) /\ (HasSync' => esc'["sync"] # Cleared)
  <2> SUFFICES ASSUME asked' \in {"SAFEOP", "OP"}
      PROVE (kind'.mailbox => esc'["mbox"] # Cleared) /\ (HasSync' => esc'["sync"] # Cleared)
    OBVIOUS
  <2>1. CASE fsm \in {"safeop", "op"} /\ present
    <3>1. fsm \in AfterSync /\ fsm \in AfterMbox /\ present'
      BY <1>3, <2>1 DEF Kept, AfterMbox
    <3> QED
      BY <1>5, <1>6, <3>1
  <2>2. CASE asked' = asked
    <3>1. ~Early
      BY <1>7
    <3>2. (kind.mailbox => esc["mbox"] # Cleared) /\ (HasSync => esc["sync"] # Cleared)
      BY <1>4, <2>2 DEF AskedWhenWritten, HasSync
    <3>3. fsm # "clear_sync"
      BY <3>1 DEF Early
    <3> QED
      BY <1>1, <3>2, <3>3 DEF Kept
  <2> QED
    BY <2>1, <2>2 DEF Kept
<1>9. AskedWhenWritten'
  BY <1>8 DEF AskedWhenWritten, HasSync
<1> QED
  BY <1>1, <1>5, <1>6, <1>7, <1>9

\* The same state: it is early only if it was, or what was asked for is obeyed.
LEMMA FlowSame ==
    ASSUME Inv, Kept, fsm' = fsm,
           Early' => Early \/ asked' \notin {"SAFEOP", "OP"}
    PROVE  FlowInv' /\ AskedWhenWritten'
  BY KeptAsked DEF FlowInv

LEMMA FlowLeads ==
    ASSUME Inv, Kept, NEW t, Leads(t), fsm' = t.to,
           fsm' = "init" => chg'.state = "check",
           t.to \in {"clear_fmmus", "clear_sync"} => Early,
           fsm = "mbox_sync" /\ t.to \in AfterMbox => esc'["mbox"] # Cleared,
           fsm = "pdo_sync" /\ t.to \in AfterSync => esc'["sync"] # Cleared
    PROVE  FlowInv' /\ AskedWhenWritten'
<1>1. present' /\ kind'.mailbox /\ fsm' \in AfterMbox => esc'["mbox"] # Cleared
  BY KeptAsked DEF Leads, Kept
<1>2. present' /\ HasSync' /\ fsm' \in AfterSync => esc'["sync"] # Cleared
  BY KeptAsked DEF Leads
<1>3. Early' => asked' \notin {"SAFEOP", "OP"}
  BY KeptAsked DEF Early
<1> QED
  BY <1>1, <1>2, <1>3, KeptAsked DEF FlowInv

-----------------------------------------------------------------------------
(* The steps of the state machines. *)

\* A new state is entered.
LEMMA TakeNext ==
    ASSUME Inv, Kept, SlaveType', AppType', NEW t, Leads(t),
           NEW current \in AL \cup {Unknown}, NEW flag \in BOOLEAN,
           TakeWith(t, current, flag),
           t.to \in {"clear_fmmus", "clear_sync"} => Early,
           fsm = "mbox_sync" /\ t.to \in AfterMbox => esc'["mbox"] # Cleared,
           fsm = "pdo_sync" /\ t.to \in AfterSync => esc'["sync"] # Cleared,
           flag => t.to \notin BusyStates \/ Divider
    PROVE  Inv'
<1>1. Well(t) /\ MasterType
  BY DEF Leads, Inv
<1>2. MasterType' /\ ChgInv'
  BY <1>1, TakeType
<1>3. fsm' = t.to /\ slave'.errorFlag = (flag \/ t.flag)
  BY <1>1 DEF TakeWith, MasterType, SlaveRecord
<1>4. fsm' = "init" => chg'.state = "check"
  BY <1>1, <1>3 DEF Well, TakeWith, Changes, MasterType, ChangeRecord
<1>5. FlowInv' /\ AskedWhenWritten'
  BY <1>3, <1>4, FlowLeads
<1>6. StopInv'
  <2>1. Busy' => fsm' \in BusyStates
    BY DEF Busy, BusyStates
  <2>2. "idle" \notin BusyStates
    BY DEF BusyStates, Steps, Transfers, Changes
  <2>3. ~Divider /\ slave'.errorFlag => ~Busy'
    BY <1>1, <1>3, <2>1, <2>2 DEF Well
  <2> QED
    BY <2>3 DEF StopInv, StopsAfterError
<1> QED
  BY <1>2, <1>5, <1>6 DEF Inv

\* The same datagram once more.
LEMMA AgainNext ==
    ASSUME Inv, Kept, SlaveType', AppType',
           NEW n \in 0..Retries, NEW w \in 0..Polls, Again(n, w)
    PROVE  Inv'
<1>1. UNCHANGED <<slave, changed, fsm, chg, dg, request, kept>> /\ tries' = n /\ waited' = w
  BY DEF Again
<1>2. MasterType' /\ ChgInv' /\ StopInv'
  <2>1. MasterType'
    BY <1>1 DEF Inv, MasterType
  <2>2. ChgInv'
    BY <1>1 DEF Inv, ChgInv
  <2>3. StopInv'
    BY <1>1 DEF Inv, StopInv, StopsAfterError, Busy
  <2> QED
    BY <2>1, <2>2, <2>3
<1>3. FlowInv' /\ AskedWhenWritten'
  BY <1>1, FlowSame DEF Early
<1> QED
  BY <1>2, <1>3 DEF Inv

\* Stop, Fail and what reads the status are entered from everywhere.
LEMMA StopLeads ==
    ASSUME Inv
    PROVE  /\ Leads(Stop) /\ Leads(Fail) /\ Leads(EnterInit)
           /\ Leads(Send("times", "none", 0)) /\ Leads(Send("read_state", "status", 0))
           /\ Stop.to = "idle" /\ Fail.to = "idle" /\ EnterInit.to = "init"
           /\ Send("times", "none", 0).to = "times"
           /\ Send("read_state", "status", 0).to = "read_state"
<1>1. MasterType
  BY DEF Inv
<1>2. {"idle", "times", "read_state", "init"} \cap (AfterMbox \cup AfterSync) = {}
  BY DEF AfterMbox, AfterSync, BeforeMbox, Transfers, Steps
<1>3. Well(Send("times", "none", 0)) /\ Send("times", "none", 0).to = "times"
  BY <1>1, SendPlain, States DEF Registers
<1>4. Well(Send("read_state", "status", 0)) /\ Send("read_state", "status", 0).to = "read_state"
  BY <1>1, SendPlain, States DEF Registers
<1> QED
  BY <1>1, <1>2, <1>3, <1>4, EndsLead, Ends, EnterChanges DEF Leads

LEMMA ConfigureLeads ==
    ASSUME Inv, NEW current, NEW flag \in BOOLEAN
    PROVE  /\ Leads(ActionConfigure(current, flag))
           /\ ActionConfigure(current, flag).to \in {"idle", "times", "init"}
           /\ flag => ActionConfigure(current, flag).to \in {"idle", "times"}
  BY StopLeads DEF ActionConfigure

LEMMA NotBusy ==
    {"idle", "times", "read_state", "acknowledge"} \cap BusyStates = {}
  BY DEF BusyStates, Steps, Transfers, Changes

\* An end of whatever was going on.
LEMMA EndNext ==
    ASSUME Inv, Kept, SlaveType', AppType', NEW t, Leads(t), t.to \in {"idle", "times", "read_state"},
           NEW current \in AL \cup {Unknown}, NEW flag \in BOOLEAN,
           TakeWith(t, current, flag)
    PROVE  Inv'
<1>1. t.to \notin BusyStates /\ t.to \notin AfterMbox \cup AfterSync
      /\ t.to \notin {"clear_fmmus", "clear_sync"}
  BY NotBusy DEF AfterMbox, AfterSync, BeforeMbox, Transfers, Steps
<1> QED
  BY <1>1, TakeNext

LEMMA StillKept ==
    ASSUME Inv, UNCHANGED slavevars
    PROVE  Kept /\ SlaveType'
<1>1. Kept
  BY DEF slavevars, Kept
<1>2. SlaveType'
  BY DEF slavevars, Inv, SlaveType
<1> QED
  BY <1>1, <1>2

LEMMA AppStays ==
    ASSUME Inv, UNCHANGED <<troubles, config, active, reserved, open, created>>
    PROVE  AppType'
  BY DEF Inv, AppType

\* Where the change of the AL state ends: in a state to which the error leads,
\* or behind the state that was reached.
LEMMA ChangeFailsNext ==
    ASSUME Inv, Kept, SlaveType', AppType', NEW current \in AL \cup {Unknown},
           ChangeEnds(FALSE, current)
    PROVE  Inv'
<1>1. slave.errorFlag \in BOOLEAN /\ chg.spont \in BOOLEAN
  BY DEF Inv, MasterType, SlaveRecord, ChangeRecord
<1>2. CASE fsm = "acknowledge"
  <2>1. TakeWith(ActionConfigure(current, TRUE), current, TRUE)
    <3>1. (slave.errorFlag \/ ~FALSE) = TRUE
      OBVIOUS
    <3> QED
      BY <1>2, <3>1 DEF ChangeEnds
  <2> QED
    BY <2>1, ConfigureLeads, EndNext
<1>3. CASE fsm # "acknowledge"
  <2>1. TakeWith(Stop, current, slave.errorFlag \/ ~chg.spont)
    BY <1>3 DEF ChangeEnds
  <2>2. (slave.errorFlag \/ ~chg.spont) \in BOOLEAN
    OBVIOUS
  <2> QED
    BY <2>1, <2>2, StopLeads, EndNext
<1> QED
  BY <1>2, <1>3

LEMMA ChangeOkNext ==
    ASSUME Inv, Kept, SlaveType', AppType', NEW current \in AL \cup {Unknown},
           ChangeEnds(TRUE, current),
           chg.state = "status" \/ (chg.state = "check_ack" /\ fsm = "acknowledge")
    PROVE  Inv'
<1>1. MasterType /\ AppType /\ SlaveType /\ slave.errorFlag \in BOOLEAN
  BY DEF Inv, MasterType, SlaveRecord, ChangeRecord
<1>2. CASE fsm = "acknowledge"
  <2>1. TakeWith(ActionConfigure(current, slave.errorFlag), current, slave.errorFlag)
    <3>1. (slave.errorFlag \/ ~TRUE) = slave.errorFlag
      BY <1>1
    <3> QED
      BY <1>2, <3>1 DEF ChangeEnds
  <2>2. ActionConfigure(current, slave.errorFlag).to \in {"idle", "times", "init"}
        /\ Leads(ActionConfigure(current, slave.errorFlag))
        /\ (slave.errorFlag => ActionConfigure(current, slave.errorFlag).to \in {"idle", "times"})
    BY <1>1, ConfigureLeads
  <2> QED
    BY <1>1, <1>2, <2>1, <2>2, TakeNext, NotBusy
<1>3. CASE fsm # "acknowledge"
  <2>1. TakeWith(AfterChange(current), current, slave.errorFlag)
    BY <1>3 DEF ChangeEnds
  <2>2. fsm \in Changes
    BY <1>3 DEF Inv, ChgInv
  <2>3. Leads(AfterChange(current))
    BY <1>1, <2>2, AfterChangeLeads
  <2>4. slave.errorFlag => Divider
    BY <1>3, <2>2 DEF Inv, StopInv, StopsAfterError, Busy
  <2>5. AfterChange(current).to \in {"clear_fmmus", "clear_sync"} => Early
    <3>1. AfterChange(current).to \in {"clear_fmmus", "clear_sync"} => fsm \in {"init", "clear_fmmus"}
      BY <2>3 DEF Leads
    <3> QED
      BY <1>3, <2>2, <3>1 DEF Early, Changes
  <2>6. fsm \notin {"mbox_sync", "pdo_sync"}
    BY <2>2 DEF Changes
  <2> QED
    BY <1>1, <2>1, <2>3, <2>4, <2>5, <2>6, TakeNext
<1> QED
  BY <1>2, <1>3

\* The change of the AL state goes on, or reads the status once more.
LEMMA ChangeGoesOn ==
    ASSUME Inv, Kept, SlaveType', AppType', chg.state # "none",
           NEW state \in {"status", "ack", "check_ack"}, NEW op \in {"status", "ack"},
           NEW spont \in BOOLEAN, ChangeNext(state, op, spont),
           state = "status" =>
              /\ chg.state = "check"
              /\ fsm = "init" => asked' \notin {"SAFEOP", "OP"},
           state # "status" => chg.state \in {"code", "ack"}
    PROVE  Inv'
<1>1. /\ chg' = [chg EXCEPT !.state = state, !.spont = spont]
      /\ dg' = [op |-> op, arg |-> 0]
      /\ tries' = Retries /\ waited' = 0
      /\ UNCHANGED <<slave, changed, fsm, request, kept>>
  BY DEF ChangeNext
<1>2. fsm \in Changes \cup {"acknowledge"} /\ MasterType /\ ChgInv
  BY DEF Inv, ChgInv
<1>3. MasterType'
  <2>1. chg' \in ChangeRecord
    BY <1>1, <1>2 DEF MasterType, ChangeRecord
  <2>2. tries' \in 0..Retries /\ waited' \in 0..Polls
    BY <1>1, SlaveConfigAssumption
  <2> QED
    BY <1>1, <1>2, <2>1, <2>2 DEF MasterType
<1>4. chg'.state = state /\ chg'.full = chg.full
  BY <1>1, <1>2 DEF MasterType, ChangeRecord
<1>5. Prepared(fsm', dg'.op, dg'.arg)
  <2>1. op \notin Registers \cup {"al", "sync", "mbox"}
    BY DEF Registers
  <2>2. fsm \notin {"mbox_sync", "pdo_sync", "watchdog_divider"}
    BY <1>2 DEF Changes
  <2> QED
    BY <1>1, <2>1, <2>2 DEF Prepared
<1>6. ChgInv'
  <2>1. state = "status" => fsm # "acknowledge"
    BY <1>2 DEF ChgInv
  <2> QED
    BY <1>1, <1>2, <1>4, <1>5, <2>1 DEF ChgInv
<1>7. Early' => Early \/ asked' \notin {"SAFEOP", "OP"}
  BY <1>1, <1>4 DEF Early
<1>8. FlowInv' /\ AskedWhenWritten'
  BY <1>1, <1>7, FlowSame
<1>9. StopInv'
  <2>1. Busy' <=> Busy
    BY <1>1 DEF Busy
  <2>2. CASE state = "status"
    <3>1. Busy
      BY <1>2, <1>6, <1>1, <1>4, <2>2 DEF ChgInv, Busy
    <3> QED
      BY <1>1, <2>1, <2>2, <3>1 DEF StopInv, StopsAfterError, Inv
  <2>3. CASE state # "status"
    BY <1>4, <2>3 DEF StopInv, StopsAfterError
  <2> QED
    BY <2>2, <2>3
<1> QED
  BY <1>3, <1>6, <1>8, <1>9 DEF Inv

LEMMA StatusAgainNext ==
    ASSUME Inv, Kept, SlaveType', AppType', NEW current \in AL, NEW old \in AL \cup {Unknown},
           NEW spont \in BOOLEAN, StatusAgain(current, old, spont)
    PROVE  Inv'
<1>1. /\ slave' = [slave EXCEPT !.current = current]
      /\ chg' = [chg EXCEPT !.old = old, !.spont = spont]
      /\ tries' = Retries /\ waited' \in 0..Polls
      /\ UNCHANGED <<changed, fsm, dg, request, kept>>
  BY SlaveConfigAssumption DEF StatusAgain, Inv, MasterType
<1>2. MasterType /\ ChgInv
  BY DEF Inv
<1>3. MasterType'
  <2>1. chg' \in ChangeRecord
    BY <1>1, <1>2 DEF MasterType, ChangeRecord
  <2>2. slave' \in SlaveRecord
    BY <1>1, <1>2 DEF MasterType, SlaveRecord
  <2>3. tries' \in 0..Retries
    BY <1>1, SlaveConfigAssumption
  <2> QED
    BY <1>1, <1>2, <2>1, <2>2, <2>3 DEF MasterType
<1>4. chg'.state = chg.state /\ chg'.full = chg.full /\ slave'.errorFlag = slave.errorFlag
  BY <1>1, <1>2 DEF MasterType, ChangeRecord, SlaveRecord
<1>5. ChgInv'
  BY <1>1, <1>2, <1>4 DEF ChgInv
<1>6. FlowInv' /\ AskedWhenWritten'
  BY <1>1, <1>4, FlowSame DEF Early
<1>7. StopInv'
  BY <1>1, <1>4 DEF Inv, StopInv, StopsAfterError, Busy
<1> QED
  BY <1>3, <1>5, <1>6, <1>7 DEF Inv

\* The AL error code is read.
LEMMA StartCodeNext ==
    ASSUME Inv, Kept, SlaveType', AppType', NEW current \in AL, NEW flag \in BOOLEAN,
           NEW full \in BOOLEAN, StartCode(current, flag, full),
           full => chg.state = "status", ~full => fsm = "read_state"
    PROVE  Inv'
<1>1. /\ fsm' = IF full THEN fsm ELSE "acknowledge"
      /\ chg' = [chg EXCEPT !.state = "code", !.full = full]
      /\ dg' = [op |-> "code", arg |-> 0]
      /\ tries' = Retries /\ waited' = 0
      /\ slave' = [slave EXCEPT !.current = current, !.errorFlag = flag]
      /\ UNCHANGED <<changed, request, kept>>
  BY DEF StartCode
<1>2. MasterType /\ ChgInv
  BY DEF Inv
<1>3. full => fsm \in Changes
  BY <1>2 DEF ChgInv
<1>4. "acknowledge" \in FsmStates /\ "acknowledge" \notin Changes
  BY States
<1>5. MasterType'
  <2>1. chg' \in ChangeRecord
    BY <1>1, <1>2 DEF MasterType, ChangeRecord
  <2>2. slave' \in SlaveRecord
    BY <1>1, <1>2 DEF MasterType, SlaveRecord
  <2>3. tries' \in 0..Retries /\ waited' \in 0..Polls
    BY <1>1, SlaveConfigAssumption
  <2> QED
    BY <1>1, <1>2, <1>4, <2>1, <2>2, <2>3 DEF MasterType
<1>6. chg'.state = "code" /\ chg'.full = full
  BY <1>1, <1>2 DEF MasterType, ChangeRecord
<1>7. ChgInv'
  <2>1. "code" \notin Registers \cup {"al", "sync", "mbox"}
    BY DEF Registers
  <2>2. fsm' \notin {"mbox_sync", "pdo_sync", "watchdog_divider"}
    BY <1>1, <1>3 DEF Changes
  <2>3. Prepared(fsm', dg'.op, dg'.arg)
    BY <1>1, <2>1, <2>2 DEF Prepared
  <2> QED
    BY <1>1, <1>3, <1>4, <1>6, <2>1, <2>3 DEF ChgInv
<1>8. FlowInv' /\ AskedWhenWritten'
  <2>1. CASE full
    BY <1>1, <1>2, <1>6, <2>1, FlowSame DEF Early
  <2>2. CASE ~full
    <3>1. fsm' = "acknowledge"
      BY <1>1, <2>2
    <3>2. fsm' \notin AfterMbox \cup AfterSync /\ ~Early'
      BY <3>1 DEF Early, AfterMbox, AfterSync, BeforeMbox, Transfers, Steps
    <3> QED
      BY <3>2, KeptAsked DEF FlowInv
  <2> QED
    BY <2>1, <2>2
<1>9. StopInv'
  BY <1>6 DEF StopInv, StopsAfterError
<1> QED
  BY <1>5, <1>7, <1>8, <1>9 DEF Inv

-----------------------------------------------------------------------------
(* The actions of the master state machine. *)

LEMMA InvTypes ==
    ASSUME Inv
    PROVE  /\ SlaveType /\ AppType /\ MasterType /\ ChgInv
           /\ slave.errorFlag \in BOOLEAN /\ slave.current \in AL \cup {Unknown}
           /\ al \in AL /\ chg.old \in AL \cup {Unknown} /\ chg.spont \in BOOLEAN
           /\ tries \in 0..Retries /\ waited \in 0..Polls
<1>1. SlaveType /\ AppType /\ MasterType /\ ChgInv
  BY DEF Inv
<1>2. slave.errorFlag \in BOOLEAN /\ slave.current \in AL \cup {Unknown}
  BY <1>1 DEF MasterType, SlaveRecord
<1>3. chg.old \in AL \cup {Unknown} /\ chg.spont \in BOOLEAN
  BY <1>1 DEF MasterType, ChangeRecord
<1>4. al \in AL /\ tries \in 0..Retries /\ waited \in 0..Polls
  BY <1>1 DEF SlaveType, MasterType
<1> QED
  BY <1>1, <1>2, <1>3, <1>4

\* A datagram is sent once more because it was lost.
LEMMA RetryNext ==
    ASSUME Inv, Kept, SlaveType', AppType', NEW a, Retry(a), Again(tries - 1, waited)
    PROVE  Inv'
<1>1. tries - 1 \in 0..Retries /\ waited \in 0..Polls
  BY InvTypes, SlaveConfigAssumption DEF Retry
<1> QED
  BY <1>1, AgainNext

\* Or because the time is not up.
LEMMA WaitNext ==
    ASSUME Inv, Kept, SlaveType', AppType', waited < Polls,
           NEW n \in 0..Retries, Again(n, waited + 1)
    PROVE  Inv'
<1>1. waited + 1 \in 0..Polls
  BY InvTypes, SlaveConfigAssumption
<1> QED
  BY <1>1, AgainNext

LEMMA PollNext ==
    ASSUME Inv, Poll
    PROVE  Inv'
<1>1. Kept /\ SlaveType' /\ AppType'
  BY StillKept, AppStays DEF Poll
<1>2. CASE changed
  <2>1. TakeWith(Send("times", "none", 0), slave.current, slave.errorFlag)
    BY <1>2 DEF Poll, Take
  <2> QED
    BY <1>1, <2>1, StopLeads, InvTypes, EndNext
<1>3. CASE ~changed
  <2>1. TakeWith(Send("read_state", "status", 0), slave.current, slave.errorFlag)
    BY <1>3 DEF Poll, Take
  <2> QED
    BY <1>1, <2>1, StopLeads, InvTypes, EndNext
<1> QED
  BY <1>2, <1>3

LEMMA RequestOpNext ==
    ASSUME Inv, RequestOp
    PROVE  Inv'
<1>1. Kept /\ SlaveType' /\ AppType'
  BY StillKept, AppStays DEF RequestOp, appvars
<1>2. /\ fsm = "times" /\ fsm' = "idle"
      /\ UNCHANGED <<changed, chg, dg, tries, waited, request, kept>>
  BY DEF RequestOp, appvars
<1>3. slave' \in SlaveRecord
  <2>1. CASE active /\ (config # 0 \/ kind.dc)
    <3>1. slave' = [slave EXCEPT !.requested = "OP", !.errorFlag = FALSE]
      BY <2>1 DEF RequestOp, RequestState
    <3> QED
      BY <3>1, InvTypes DEF MasterType, SlaveRecord, ALStates
  <2>2. CASE ~(active /\ (config # 0 \/ kind.dc))
    BY <2>2, InvTypes DEF RequestOp, MasterType
  <2> QED
    BY <2>1, <2>2
<1>4. "idle" \in FsmStates /\ {"idle", "times"} \cap (Changes \cup {"acknowledge", "init"}) = {}
      /\ {"idle", "times"} \cap {"clear_sync", "mbox_sync", "pdo_sync", "clear_fmmus", "watchdog_divider"} = {}
  BY States DEF Changes
<1>5. MasterType'
  BY <1>2, <1>3, <1>4, InvTypes DEF MasterType
<1>6. ChgInv'
  <2>1. chg.state = "none" /\ dg.op # "al"
    BY <1>2, <1>4, InvTypes DEF ChgInv
  <2>2. Prepared(fsm', dg'.op, dg'.arg)
    BY <1>2, <1>4, <2>1, InvTypes DEF ChgInv, Prepared
  <2> QED
    BY <1>2, <1>4, <2>1, <2>2 DEF ChgInv
<1>7. FlowInv' /\ AskedWhenWritten'
  <2>1. fsm' \notin AfterMbox \cup AfterSync /\ ~Early'
    BY <1>2 DEF Early, AfterMbox, AfterSync, BeforeMbox, Transfers, Steps
  <2> QED
    BY <1>1, <2>1, KeptAsked DEF FlowInv
<1>8. StopInv'
  BY <1>2, NotBusy DEF StopInv, StopsAfterError, Busy, BusyStates
<1> QED
  BY <1>1, <1>5, <1>6, <1>7, <1>8 DEF Inv

LEMMA ReadStateNext ==
    ASSUME Inv, NEW a \in Answers, ReadState(a)
    PROVE  Inv'
<1>1. Kept /\ SlaveType' /\ AppType'
  BY DeliverKept, AppStays DEF ReadState
<1>2. fsm = "read_state"
  BY DEF ReadState
<1>3. CASE Retry(a) /\ Again(tries - 1, waited)
  BY <1>1, <1>3, RetryNext
<1>4. CASE Take(Stop)
  BY <1>1, <1>4, StopLeads, InvTypes, EndNext DEF Take
<1>5. CASE Take(Fail)
  BY <1>1, <1>5, StopLeads, InvTypes, EndNext DEF Take
<1>6. CASE TakeWith(Stop, al, TRUE)
  BY <1>1, <1>6, StopLeads, InvTypes, EndNext
<1>7. CASE StartCode(al, FALSE, FALSE)
  BY <1>1, <1>2, <1>7, InvTypes, StartCodeNext
<1>8. CASE TakeWith(ActionConfigure(al, FALSE), al, FALSE)
  <2>1. Leads(ActionConfigure(al, FALSE))
        /\ ActionConfigure(al, FALSE).to \in {"idle", "times", "init"}
    BY ConfigureLeads
  <2> QED
    BY <1>1, <1>2, <1>8, <2>1, InvTypes, TakeNext
<1> QED
  BY <1>3, <1>4, <1>5, <1>6, <1>7, <1>8 DEF ReadState

LEMMA CheckNext ==
    ASSUME Inv, NEW a \in Answers, Check(a)
    PROVE  Inv'
<1>1. Kept /\ SlaveType' /\ AppType' /\ chg.state = "check"
  BY DeliverKept, AppStays DEF Check
<1>2. CASE Retry(a) /\ Again(tries - 1, waited)
  BY <1>1, <1>2, RetryNext
<1>3. CASE ChangeFails
  BY <1>1, <1>3, InvTypes, ChangeFailsNext DEF ChangeFails
<1>4. CASE waited < Polls /\ Again(Retries, waited + 1)
  <2>1. Retries \in 0..Retries
    BY SlaveConfigAssumption
  <2> QED
    BY <1>1, <1>4, <2>1, WaitNext
<1>5. CASE a = "answered" /\ ChangeNext("status", "status", FALSE)
  <2>1. dg.op = "al" /\ Prepared(fsm, dg.op, dg.arg)
    BY <1>1, InvTypes DEF ChgInv
  <2>2. asked' = dg.arg
    BY <1>5, <2>1, DeliverKept DEF Check
  <2>3. fsm = "init" => asked' \notin {"SAFEOP", "OP"}
    BY <2>1, <2>2 DEF Prepared
  <2> QED
    BY <1>1, <1>5, <2>3, ChangeGoesOn
<1> QED
  BY <1>2, <1>3, <1>4, <1>5 DEF Check

LEMMA StatusNext ==
    ASSUME Inv, NEW a \in Answers, Status(a)
    PROVE  Inv'
<1>1. Kept /\ SlaveType' /\ AppType' /\ chg.state = "status"
  BY DeliverKept, AppStays DEF Status
<1>2. CASE Retry(a) /\ Again(tries - 1, waited)
  BY <1>1, <1>2, RetryNext
<1>3. CASE ChangeFails
  BY <1>1, <1>3, InvTypes, ChangeFailsNext DEF ChangeFails
<1>4. CASE ChangeEnds(TRUE, al)
  BY <1>1, <1>4, InvTypes, ChangeOkNext
<1>5. CASE StatusAgain(al, al, TRUE)
  BY <1>1, <1>5, InvTypes, StatusAgainNext
<1>6. CASE StatusAgain(al, al, chg.spont)
  BY <1>1, <1>6, InvTypes, StatusAgainNext
<1>7. CASE StartCode(al, TRUE, TRUE)
  BY <1>1, <1>7, InvTypes, StartCodeNext
<1>8. CASE ChangeEnds(FALSE, al)
  BY <1>1, <1>8, InvTypes, ChangeFailsNext
<1> QED
  BY <1>2, <1>3, <1>4, <1>5, <1>6, <1>7, <1>8 DEF Status

LEMMA CodeNext ==
    ASSUME Inv, NEW a \in Answers, Code(a)
    PROVE  Inv'
<1>1. Kept /\ SlaveType' /\ AppType' /\ chg.state = "code"
  BY DeliverKept, AppStays DEF Code
<1>2. CASE Retry(a) /\ Again(tries - 1, waited)
  BY <1>1, <1>2, RetryNext
<1>3. CASE ChangeFails
  BY <1>1, <1>3, InvTypes, ChangeFailsNext DEF ChangeFails
<1>4. CASE ChangeNext("ack", "ack", chg.spont)
  BY <1>1, <1>4, InvTypes, ChangeGoesOn
<1> QED
  BY <1>2, <1>3, <1>4 DEF Code

LEMMA AckNext ==
    ASSUME Inv, NEW a \in Answers, Ack(a)
    PROVE  Inv'
<1>1. Kept /\ SlaveType' /\ AppType' /\ chg.state = "ack"
  BY DeliverKept, AppStays DEF Ack
<1>2. CASE Retry(a) /\ Again(tries - 1, waited)
  BY <1>1, <1>2, RetryNext
<1>3. CASE ChangeFails
  BY <1>1, <1>3, InvTypes, ChangeFailsNext DEF ChangeFails
<1>4. CASE ChangeNext("check_ack", "status", chg.spont)
  BY <1>1, <1>4, InvTypes, ChangeGoesOn
<1> QED
  BY <1>2, <1>3, <1>4 DEF Ack

LEMMA CheckAckNext ==
    ASSUME Inv, NEW a \in Answers, CheckAck(a)
    PROVE  Inv'
<1>1. Kept /\ SlaveType' /\ AppType' /\ chg.state = "check_ack"
  BY DeliverKept, AppStays DEF CheckAck
<1>2. CASE Retry(a) /\ Again(tries - 1, waited)
  BY <1>1, <1>2, RetryNext
<1>3. CASE ChangeFails
  BY <1>1, <1>3, InvTypes, ChangeFailsNext DEF ChangeFails
<1>4. CASE ChangeEnds(~chg.full, al)
  <2>1. chg.full \in BOOLEAN /\ (chg.full <=> fsm # "acknowledge")
    <3>1. fsm \in Changes \cup {"acknowledge"} /\ chg.full \in BOOLEAN
      BY <1>1, InvTypes DEF ChgInv, MasterType, ChangeRecord
    <3> QED
      BY <3>1, InvTypes DEF ChgInv
  <2>2. CASE chg.full
    <3>1. ChangeEnds(FALSE, al)
      <4>1. (~chg.full) = FALSE
        BY <2>2
      <4> QED
        BY <1>4, <4>1
    <3> QED
      BY <1>1, <3>1, InvTypes, ChangeFailsNext
  <2>3. CASE ~chg.full
    <3>1. ChangeEnds(TRUE, al)
      <4>1. (~chg.full) = TRUE
        BY <2>3
      <4> QED
        BY <1>4, <4>1
    <3> QED
      BY <1>1, <2>1, <2>3, <3>1, InvTypes, ChangeOkNext
  <2> QED
    BY <2>2, <2>3
<1>5. CASE StatusAgain(al, chg.old, chg.spont)
  BY <1>1, <1>5, InvTypes, StatusAgainNext
<1>6. CASE ChangeEnds(FALSE, al)
  BY <1>1, <1>6, InvTypes, ChangeFailsNext
<1> QED
  BY <1>2, <1>3, <1>4, <1>5, <1>6 DEF CheckAck

\* The remainder of a number below twice the divisor.
LEMMA Remainder ==
    ASSUME NEW a \in Nat, NEW n \in Nat \ {0}, a < 2 * n
    PROVE  a % n = IF a < n THEN a ELSE a - n
  OBVIOUS

LEMMA NextWaited ==
    ASSUME NEW n \in Nat, NEW i \in 0..n
    PROVE  (i + 1) % (n + 1) \in 0..n
<1> DEFINE a == i + 1
<1> DEFINE m == n + 1
<1>1. a \in Nat /\ m \in Nat \ {0} /\ a <= m /\ a < 2 * m
  OBVIOUS
<1>2. 0..n = 0 .. m - 1
  OBVIOUS
<1> HIDE DEF a, m
<1>3. a % m = IF a < m THEN a ELSE a - m
  BY <1>1, Remainder
<1>4. a % m \in 0 .. m - 1
  BY <1>1, <1>3
<1> QED
  BY <1>2, <1>4 DEF a, m

\* Outside of the changes of the AL state there is no error, unless the watchdog
\* divider was not written.
LEMMA NoError ==
    ASSUME Inv, fsm \in BusyStates \ Changes
    PROVE  slave.errorFlag => Divider
<1>1. chg.state = "none" /\ fsm # "acknowledge"
  BY InvTypes, NotBusy DEF ChgInv
<1> QED
  BY <1>1 DEF Inv, StopInv, StopsAfterError, Busy, BusyStates

\* The configuration goes on, starts over, or ends.
LEMMA GoOn ==
    ASSUME Inv, Kept, SlaveType', AppType', fsm \in BusyStates \ Changes,
           NEW t, Leads(t), Take(t),
           fsm = "mbox_sync" /\ t.to \in AfterMbox => esc'["mbox"] # Cleared,
           fsm = "pdo_sync" /\ t.to \in AfterSync => esc'["sync"] # Cleared
    PROVE  Inv'
<1>1. TakeWith(t, slave.current, slave.errorFlag)
  BY DEF Take
<1>2. t.to \in {"clear_fmmus", "clear_sync"} => Early
  BY DEF Leads, Early, Changes
<1> QED
  BY <1>1, <1>2, NoError, InvTypes, TakeNext

LEMMA EndsElsewhere ==
    ASSUME Inv
    PROVE  /\ Stop.to \notin AfterMbox \cup AfterSync
           /\ Fail.to \notin AfterMbox \cup AfterSync
           /\ EnterInit.to \notin AfterMbox \cup AfterSync
  BY StopLeads DEF AfterMbox, AfterSync, BeforeMbox, Transfers, Steps

LEMMA DividerAgain ==
    ASSUME Inv, Kept, SlaveType', AppType', fsm = "watchdog_divider",
           slave' = [slave EXCEPT !.errorFlag = TRUE],
           waited' = (waited + 1) % (Polls + 1),
           UNCHANGED <<changed, fsm, chg, dg, tries, request, kept>>
    PROVE  Inv'
<1>1. Divider
  BY InvTypes DEF ChgInv, Prepared
<1>2. slave' \in SlaveRecord
  BY InvTypes DEF MasterType, SlaveRecord
<1>3. waited' \in 0..Polls
  BY InvTypes, SlaveConfigAssumption, NextWaited
<1>4. MasterType'
  BY <1>2, <1>3, InvTypes DEF MasterType
<1>5. ChgInv'
  BY InvTypes DEF ChgInv
<1>6. FlowInv' /\ AskedWhenWritten'
  BY FlowSame DEF Early
<1>7. StopInv'
  BY <1>1 DEF StopInv
<1> QED
  BY <1>4, <1>5, <1>6, <1>7 DEF Inv

LEMMA StepNext ==
    ASSUME Inv, NEW a \in Answers, Step(a)
    PROVE  Inv'
<1>1. Kept /\ SlaveType' /\ AppType' /\ fsm \in Steps
  BY DeliverKept, AppStays DEF Step
<1>2. fsm \in BusyStates \ Changes
  BY <1>1, States DEF BusyStates
<1>3. Retries \in 0..Retries
  BY SlaveConfigAssumption
<1>4. Leads(After(fsm))
  BY <1>1, InvTypes, AfterLeads
<1>5. CASE Retry(a) /\ Again(tries - 1, waited)
  BY <1>1, <1>5, RetryNext
<1>6. CASE Take(Stop) \/ Take(Fail) \/ Take(EnterInit)
  BY <1>1, <1>2, <1>6, StopLeads, EndsElsewhere, GoOn
<1>7. CASE waited < Polls /\ Again(Retries, waited + 1)
  BY <1>1, <1>3, <1>7, WaitNext
<1>8. CASE a = "answered" /\ Take(After(fsm))
  <2>1. /\ fsm = "mbox_sync" => esc'["mbox"] # Cleared
        /\ fsm = "pdo_sync" => esc'["sync"] # Cleared
    BY <1>8, DeliverKept DEF Step
  <2> QED
    BY <1>1, <1>2, <1>4, <1>8, <2>1, GoOn
<1>9. CASE fsm \in GoesOnWrong /\ Take(After(fsm))
  <2>1. fsm \notin {"mbox_sync", "pdo_sync"}
    BY <1>9 DEF GoesOnWrong, GoesOnLost
  <2> QED
    BY <1>1, <1>2, <1>4, <1>9, <2>1, GoOn
<1>10. CASE /\ fsm = "watchdog_divider" /\ slave' = [slave EXCEPT !.errorFlag = TRUE]
            /\ waited' = (waited + 1) % (Polls + 1)
            /\ UNCHANGED <<changed, fsm, chg, dg, tries, request, kept>>
  BY <1>1, <1>10, DividerAgain
<1>11. \/ Retry(a) /\ Again(tries - 1, waited)
       \/ Take(Stop) \/ Take(Fail) \/ Take(EnterInit)
       \/ waited < Polls /\ Again(Retries, waited + 1)
       \/ a = "answered" /\ Take(After(fsm))
       \/ fsm \in GoesOnWrong /\ Take(After(fsm))
       \/ /\ fsm = "watchdog_divider" /\ slave' = [slave EXCEPT !.errorFlag = TRUE]
          /\ waited' = (waited + 1) % (Polls + 1)
          /\ UNCHANGED <<changed, fsm, chg, dg, tries, request, kept>>
  <2>1. CASE Unreceived(a) /\ Take(IF fsm \in GoesOnLost THEN After(fsm) ELSE Stop)
    <3>1. CASE fsm \in GoesOnLost
      BY <2>1, <3>1 DEF GoesOnWrong
    <3>2. CASE fsm \notin GoesOnLost
      BY <2>1, <3>2
    <3> QED
      BY <3>1, <3>2
  <2>2. CASE Wrong(a)
    BY <2>2 DEF Wrong
  <2> QED
    BY <2>1, <2>2 DEF Step
<1> QED
  BY <1>5, <1>6, <1>7, <1>8, <1>9, <1>10, <1>11

LEMMA WaitSafeopNext ==
    ASSUME Inv, WaitSafeop
    PROVE  Inv'
<1>1. Kept /\ SlaveType' /\ AppType' /\ fsm = "wait_safeop"
  BY StillKept, AppStays DEF WaitSafeop
<1>2. CASE waited < Polls /\ Again(tries, waited + 1)
  BY <1>1, <1>2, InvTypes, WaitNext
<1>3. CASE Take(EnterSafeop)
  <2>1. fsm \in BusyStates \ Changes /\ fsm \in AfterSync
    BY <1>1, States DEF BusyStates, AfterSync
  <2>2. Leads(EnterSafeop)
    BY <2>1, InvTypes, EnterLate, LateLeads
  <2> QED
    BY <1>1, <1>3, <2>1, <2>2, GoOn
<1> QED
  BY <1>2, <1>3 DEF WaitSafeop

LEMMA OtherTransferNext ==
    ASSUME Inv, OtherTransfer
    PROVE  Inv'
<1>1. Kept /\ SlaveType' /\ AppType' /\ fsm \in {"eoe_ip_param", "pdo_conf"}
  BY StillKept, AppStays DEF OtherTransfer
<1>2. fsm \in BusyStates \ Changes /\ fsm \in AfterMbox /\ fsm \notin {"mbox_sync", "pdo_sync"}
  BY <1>1, States DEF BusyStates, AfterMbox, Transfers
<1>3. Leads(EnterPdoConf) /\ Leads(EnterInit) /\ Leads(EnterWatchdogDivider)
  BY <1>2, InvTypes, EnterUp, UpLeads
<1>4. CASE fsm = "eoe_ip_param" /\ Take(EnterPdoConf)
  BY <1>1, <1>2, <1>3, <1>4, GoOn
<1>5. CASE fsm = "pdo_conf" /\ Take(IF config = 0 THEN EnterInit ELSE EnterWatchdogDivider)
  <2>1. CASE config = 0
    BY <1>1, <1>2, <1>3, <1>5, <2>1, GoOn
  <2>2. CASE config # 0
    BY <1>1, <1>2, <1>3, <1>5, <2>2, GoOn
  <2> QED
    BY <2>1, <2>2
<1> QED
  BY <1>4, <1>5 DEF OtherTransfer

LEMMA ListTransferNext ==
    ASSUME Inv, NEW ok \in BOOLEAN, ListTransfer(ok)
    PROVE  Inv'
<1>1. fsm \in Lists /\ UNCHANGED <<kind, al, asked, present, drops>>
  BY DEF ListTransfer
<1>2. AppType'
  BY AppStays DEF ListTransfer
<1>3. request.id \in Ids /\ request.i \in Nat
  BY InvTypes DEF MasterType
<1>4. esc' = esc \/ esc' = [esc EXCEPT !["sdo"] = request.id]
  BY DEF ListTransfer
<1>5. "sdo" \in Registers /\ "mbox" \in Registers /\ "sync" \in Registers
  BY DEF Registers
<1>6. SlaveType'
  BY <1>1, <1>3, <1>4, <1>5, InvTypes DEF SlaveType
<1>7. esc'["mbox"] = esc["mbox"] /\ esc'["sync"] = esc["sync"]
  BY <1>4, <1>5, InvTypes DEF SlaveType
<1>8. Kept
  BY <1>1, <1>7 DEF Kept
<1>9. fsm \in BusyStates \ Changes /\ fsm \notin {"mbox_sync", "pdo_sync"}
  BY <1>1, States DEF BusyStates, Lists
<1>10. CASE Take(Fail) \/ Take(EnterInit)
  BY <1>2, <1>6, <1>8, <1>9, <1>10, StopLeads, GoOn
<1>11. CASE Take(Transfer(fsm, request.i + 1))
  <2>1. Leads(Transfer(fsm, request.i + 1))
    <3>1. request.i + 1 \in Nat
      BY <1>3
    <3> QED
      BY <1>1, <3>1, InvTypes, TransferLeads
  <2> QED
    BY <1>2, <1>6, <1>8, <1>9, <1>11, <2>1, GoOn
<1>12. CASE Take(AfterList)
  BY <1>1, <1>2, <1>6, <1>8, <1>9, <1>12, InvTypes, AfterListLeads, GoOn
<1>13. CASE Take(Transfer(fsm, 1))
  BY <1>1, <1>2, <1>6, <1>8, <1>9, <1>13, InvTypes, TransferLeads, GoOn
<1> QED
  BY <1>10, <1>11, <1>12, <1>13 DEF ListTransfer

-----------------------------------------------------------------------------
(* The slave, the application and others. *)

\* What leaves the state machines alone, but may reset the error.
LEMMA FsmStays ==
    ASSUME Inv, Kept, SlaveType', AppType', changed' \in BOOLEAN, kept' \in BOOLEAN,
           UNCHANGED <<fsm, chg, dg, tries, waited, request>>,
           slave' \in SlaveRecord, slave'.errorFlag => slave.errorFlag
    PROVE  Inv'
<1>1. MasterType'
  BY InvTypes DEF MasterType
<1>2. ChgInv'
  BY InvTypes DEF ChgInv
<1>3. FlowInv' /\ AskedWhenWritten'
  BY FlowSame DEF Early
<1>4. StopInv'
  BY DEF Inv, StopInv, StopsAfterError, Busy
<1> QED
  BY <1>1, <1>2, <1>3, <1>4 DEF Inv

LEMMA RequestKept ==
    ASSUME Inv, NEW state \in ALStates, RequestState(state)
    PROVE  slave' \in SlaveRecord /\ (slave'.errorFlag => slave.errorFlag)
  BY InvTypes DEF RequestState, MasterType, SlaveRecord

LEMMA SlaveNext ==
    ASSUME Inv, Slave
    PROVE  Inv'
<1>1. CASE Obey \/ Refuse \/ Drop
  <2>1. UNCHANGED <<kind, esc, present, slave, appvars, fsmvars>>
    BY <1>1 DEF Obey, Refuse, Drop
  <2>2. asked' = "none" \/ asked' = asked
    BY <1>1 DEF Obey, Refuse, Drop
  <2>3. al' \in AL
    <3>1. \A state \in ALStates : In(state) \in AL
      BY DEF In, AL
    <3>2. al.state \in ALStates /\ al \in AL
      BY InvTypes DEF AL
    <3>3. CASE Obey
      <4>1. asked \in ALStates \cup {"ACK", "none"} /\ asked # "none"
        BY <3>3, InvTypes DEF Obey, SlaveType
      <4>2. al' = In(al.state) \/ (al' = In(asked) /\ asked \in Follows(al.state))
        BY <3>3 DEF Obey
      <4>3. Follows(al.state) \subseteq ALStates
        BY <3>2 DEF Follows, ALStates
      <4> QED
        BY <3>1, <3>2, <4>2, <4>3
    <3>4. CASE Refuse
      BY <3>2, <3>4 DEF Refuse, AL
    <3>5. CASE Drop
      <4>1. PICK state \in {"INIT", "PREOP", "SAFEOP"} : al' = [state |-> state, err |-> TRUE]
        BY <3>5 DEF Drop
      <4> QED
        BY <4>1 DEF AL, ALStates
    <3> QED
      BY <1>1, <3>3, <3>4, <3>5
  <2>4. drops' \in 0..MaxDrops
    BY <1>1, InvTypes, SlaveConfigAssumption DEF Obey, Refuse, Drop, SlaveType
  <2>5. SlaveType'
    BY <2>1, <2>2, <2>3, <2>4, InvTypes DEF SlaveType
  <2>6. Kept
    BY <2>1, <2>2 DEF Kept
  <2>7. /\ AppType' /\ changed' \in BOOLEAN /\ kept' \in BOOLEAN /\ slave' \in SlaveRecord
        /\ UNCHANGED <<fsm, chg, dg, tries, waited, request>>
    BY <2>1, InvTypes DEF AppType, appvars, fsmvars, MasterType
  <2> QED
    BY <2>1, <2>5, <2>6, <2>7, FsmStays
<1>2. CASE PowerCycle
  <2>1. /\ al' = In("INIT") /\ asked' = "none" /\ esc' = Blank /\ present' = FALSE
        /\ drops < MaxDrops /\ drops' = drops + 1
        /\ UNCHANGED <<kind, slave>>
        /\ UNCHANGED <<fsm, chg, dg, tries, waited, request, kept>>
        /\ UNCHANGED <<troubles, config, active, changed, reserved, open, created>>
    BY <1>2 DEF PowerCycle, fsmvars, appvars
  <2>2. al' \in AL /\ esc' \in [Registers -> Ids \cup {Cleared}] /\ drops' \in 0..MaxDrops
    BY <2>1, InvTypes, SlaveConfigAssumption DEF In, AL, ALStates, Blank, SlaveType
  <2>3. SlaveType'
    BY <2>1, <2>2, InvTypes DEF SlaveType
  <2>4. AppType' /\ MasterType' /\ ChgInv'
    <3>1. AppType'
      BY <2>1, InvTypes DEF AppType
    <3>2. MasterType'
      BY <2>1, InvTypes DEF MasterType
    <3>3. ChgInv'
      BY <2>1, InvTypes DEF ChgInv
    <3> QED
      BY <3>1, <3>2, <3>3
  <2>5. FlowInv' /\ AskedWhenWritten'
    BY <2>1 DEF FlowInv, AskedWhenWritten
  <2>6. StopInv'
    BY <2>1 DEF Inv, StopInv, StopsAfterError, Busy
  <2> QED
    BY <2>3, <2>4, <2>5, <2>6 DEF Inv
<1> QED
  BY <1>1, <1>2 DEF Slave

LEMMA RescanNext ==
    ASSUME Inv, Rescan
    PROVE  Inv'
<1>1. /\ fsm = "idle" /\ fsm' = "times" /\ changed' = FALSE /\ present' = TRUE
      /\ open' = FALSE
      /\ UNCHANGED <<kind, al, asked, esc, drops, troubles, config, active, reserved,
                     created, chg, dg, tries, waited, request, kept>>
      /\ slave' = [current |-> al, requested |-> "PREOP", errorFlag |-> FALSE,
                   force |-> reserved = "no"]
  BY DEF Rescan
<1>2. slave' \in SlaveRecord
  BY <1>1, InvTypes DEF SlaveRecord, ALStates, AppType
<1>3. "times" \in FsmStates /\ {"idle", "times"} \cap (Changes \cup {"acknowledge", "init"}) = {}
      /\ {"idle", "times"} \cap {"clear_sync", "mbox_sync", "pdo_sync", "clear_fmmus", "watchdog_divider"} = {}
  BY States DEF Changes
<1>4. SlaveType' /\ AppType'
  BY <1>1, InvTypes DEF SlaveType, AppType
<1>5. MasterType'
  BY <1>1, <1>2, <1>3, InvTypes DEF MasterType
<1>6. ChgInv'
  <2>1. chg.state = "none" /\ dg.op # "al"
    BY <1>1, <1>3, InvTypes DEF ChgInv
  <2>2. Prepared(fsm', dg'.op, dg'.arg)
    BY <1>1, <1>3, <2>1, InvTypes DEF ChgInv, Prepared
  <2> QED
    BY <1>1, <1>3, <2>1, <2>2 DEF ChgInv
<1>7. FlowInv' /\ AskedWhenWritten'
  <2>1. fsm' \notin AfterMbox \cup AfterSync /\ ~Early'
    BY <1>1 DEF Early, AfterMbox, AfterSync, BeforeMbox, Transfers, Steps
  <2>2. AskedWhenWritten'
    BY <1>1 DEF Inv, AskedWhenWritten
  <2> QED
    BY <2>1, <2>2 DEF FlowInv
<1>8. StopInv'
  BY <1>1, NotBusy DEF StopInv, StopsAfterError, Busy, BusyStates
<1> QED
  BY <1>4, <1>5, <1>6, <1>7, <1>8 DEF Inv

\* A configuration is attached or detached.
LEMMA AttachType ==
    ASSUME Inv, NEW id \in Ids, Attach(id)
    PROVE  config' \in Ids /\ kept' \in BOOLEAN
<1>1. kept \in BOOLEAN
  BY InvTypes DEF MasterType
<1> QED
  BY <1>1 DEF Attach

LEMMA ApplicationNext ==
    ASSUME Inv, Application
    PROVE  Inv'
<1>1. /\ UNCHANGED slavevars /\ UNCHANGED troubles
      /\ UNCHANGED <<fsm, chg, dg, tries, waited, request>>
  BY DEF Application, Reserve, SetEoeStates, CreateConfig, Activate, Release, Deactivate,
         EoedevOpenStop, RequestByTool, appvars, fsmvars
<1>2. Kept /\ SlaveType'
  BY <1>1, StillKept
<1>3. 0 \in Ids /\ {"PREOP", "OP"} \subseteq ALStates
  BY DEF Ids, ALStates
<1>4. /\ slave \in SlaveRecord /\ changed \in BOOLEAN /\ kept \in BOOLEAN
      /\ AppType
  BY InvTypes DEF MasterType
<1>5. CASE Reserve \/ SetEoeStates
  <2>1. /\ AppType' /\ changed' \in BOOLEAN /\ kept' \in BOOLEAN
        /\ RequestState("PREOP") \/ RequestState("OP") \/ UNCHANGED slave
    <3>1. CASE Reserve
      BY <1>4, <3>1 DEF Reserve, AppType, fsmvars
    <3>2. CASE SetEoeStates
      BY <1>4, <3>2 DEF SetEoeStates, AppType, fsmvars
    <3> QED
      BY <1>5, <3>1, <3>2
  <2>2. slave' \in SlaveRecord /\ (slave'.errorFlag => slave.errorFlag)
    <3>1. ASSUME UNCHANGED slave PROVE slave' \in SlaveRecord /\ (slave'.errorFlag => slave.errorFlag)
      BY <1>4, <3>1
    <3> QED
      BY <1>3, <2>1, <3>1, RequestKept
  <2> QED
    BY <1>1, <1>2, <2>1, <2>2, FsmStays
<1>6. CASE CreateConfig \/ Activate \/ Release
  <2>1. AppType' /\ changed' \in BOOLEAN /\ kept' \in BOOLEAN /\ UNCHANGED slave
    <3>1. CASE CreateConfig
      <4>1. created + 1 \in Ids
        BY <3>1 DEF CreateConfig, Ids
      <4>2. config' \in Ids /\ kept' \in BOOLEAN
        BY <3>1, <4>1, AttachType DEF CreateConfig
      <4> QED
        BY <1>4, <3>1, <4>1, <4>2 DEF CreateConfig, AppType
    <3>2. CASE Activate
      BY <1>4, <3>2 DEF Activate, AppType, fsmvars
    <3>3. CASE Release
      <4>1. config' \in Ids /\ kept' \in BOOLEAN
        BY <1>3, <3>3, AttachType DEF Release
      <4> QED
        BY <1>4, <3>3, <4>1 DEF Release, AppType
    <3> QED
      BY <1>6, <3>1, <3>2, <3>3
  <2>2. slave' \in SlaveRecord /\ (slave'.errorFlag => slave.errorFlag)
    BY <1>4, <2>1
  <2> QED
    BY <1>1, <1>2, <2>1, <2>2, FsmStays
<1>7. CASE EoedevOpenStop \/ RequestByTool
  <2>1. PICK state \in ALStates : RequestState(state)
    <3>1. CASE EoedevOpenStop
      BY <1>3, <3>1 DEF EoedevOpenStop
    <3>2. CASE RequestByTool
      BY <3>2, SlaveConfigAssumption DEF RequestByTool
    <3> QED
      BY <1>7, <3>1, <3>2
  <2>2. AppType' /\ changed' \in BOOLEAN /\ kept' \in BOOLEAN
    BY <1>4, <1>7 DEF EoedevOpenStop, RequestByTool, appvars, fsmvars, AppType
  <2> QED
    BY <1>1, <1>2, <2>1, <2>2, RequestKept, FsmStays
<1>8. ASSUME NEW release \in BOOLEAN, Deactivate(release) PROVE Inv'
  <2>1. slave' = [slave EXCEPT !.requested = IF open THEN "OP" ELSE "PREOP",
                               !.errorFlag = FALSE, !.force = TRUE]
    BY <1>8 DEF Deactivate
  <2>2. slave' \in SlaveRecord /\ ~slave'.errorFlag
    BY <1>3, <1>4, <2>1 DEF SlaveRecord
  <2>3. config' \in Ids /\ kept' \in BOOLEAN
    BY <1>3, <1>8, AttachType DEF Deactivate
  <2>4. AppType' /\ changed' \in BOOLEAN
    BY <1>4, <1>8, <2>3 DEF Deactivate, AppType
  <2> QED
    BY <1>1, <1>2, <2>2, <2>3, <2>4, FsmStays
<1> QED
  BY <1>5, <1>6, <1>7, <1>8 DEF Application

-----------------------------------------------------------------------------
LEMMA InitInv ==
    ASSUME Init
    PROVE  Inv
<1>1. SlaveType /\ AppType
  <2>1. 0 \in 0..MaxDrops /\ 0 \in Ids
    BY SlaveConfigAssumption DEF Ids
  <2>2. In("INIT") \in AL
    BY DEF In, AL, ALStates
  <2>3. Blank \in [Registers -> Ids \cup {Cleared}]
    BY DEF Blank
  <2>4. SlaveType
    BY <2>1, <2>2, <2>3 DEF Init, SlaveType
  <2>5. AppType
    BY <2>1 DEF Init, AppType
  <2> QED
    BY <2>4, <2>5
<1>2. MasterType
  <2>1. slave \in SlaveRecord
    BY DEF Init, SlaveRecord, ALStates
  <2>2. chg \in ChangeRecord
    BY DEF Init, NoChange, ChangeRecord, ALStates
  <2>3. fsm \in FsmStates /\ request \in [id : Ids, i : Nat]
    BY DEF Init, FsmStates, Ids
  <2>4. 0 \in 0..Retries /\ 0 \in 0..Polls
    BY SlaveConfigAssumption
  <2>5. changed \in BOOLEAN /\ kept \in BOOLEAN /\ tries \in 0..Retries /\ waited \in 0..Polls
    BY <2>4 DEF Init
  <2> QED
    BY <2>1, <2>2, <2>3, <2>5 DEF MasterType
<1>3. ChgInv
  BY DEF Init, ChgInv, NoChange, Prepared, Registers, Changes
<1>4. FlowInv /\ AskedWhenWritten
  BY DEF Init, FlowInv, AskedWhenWritten, Early, AfterMbox, AfterSync, BeforeMbox, Transfers, Steps
<1>5. StopInv
  BY DEF Init, StopInv, StopsAfterError
<1> QED
  BY <1>1, <1>2, <1>3, <1>4, <1>5 DEF Inv

LEMMA NextInv ==
    ASSUME Inv, [Next]_vars
    PROVE  Inv'
<1>1. CASE Poll
  BY <1>1, PollNext
<1>2. CASE RequestOp
  BY <1>2, RequestOpNext
<1>3. CASE WaitSafeop
  BY <1>3, WaitSafeopNext
<1>4. CASE OtherTransfer
  BY <1>4, OtherTransferNext
<1>5. ASSUME NEW ok \in BOOLEAN, ListTransfer(ok) PROVE Inv'
  BY <1>5, ListTransferNext
<1>6. ASSUME NEW a \in Answers,
             ReadState(a) \/ Check(a) \/ Status(a) \/ Code(a) \/ Ack(a) \/ CheckAck(a) \/ Step(a)
      PROVE  Inv'
  BY <1>6, ReadStateNext, CheckNext, StatusNext, CodeNext, AckNext, CheckAckNext, StepNext
<1>7. CASE Rescan
  BY <1>7, RescanNext
<1>8. CASE Application
  BY <1>8, ApplicationNext
<1>9. CASE Slave
  BY <1>9, SlaveNext
<1>10. CASE UNCHANGED vars
  <2>1. UNCHANGED slavevars /\ UNCHANGED slave
        /\ UNCHANGED <<fsm, chg, dg, tries, waited, request, kept>>
        /\ UNCHANGED <<troubles, config, active, changed, reserved, open, created>>
    BY <1>10 DEF vars, appvars, fsmvars
  <2>2. AppType' /\ changed' \in BOOLEAN /\ kept' \in BOOLEAN /\ slave' \in SlaveRecord
    BY <2>1, InvTypes DEF AppType, MasterType
  <2> QED
    BY <2>1, <2>2, StillKept, FsmStays
<1> QED
  BY <1>1, <1>2, <1>3, <1>4, <1>5, <1>6, <1>7, <1>8, <1>9, <1>10 DEF Next, Master

LEMMA SpecInv == Spec => []Inv
  BY InitInv, NextInv, PTL DEF Spec

\* The types, the AL states asked for and the ends of timeouts included.
THEOREM TypeCorrect == Spec => []TypeOK
<1>1. Inv => TypeOK
  BY DEF Inv, SlaveType, AppType, MasterType, SlaveRecord, ChangeRecord, FsmStates,
         BusyStates, TypeOK
<1> QED
  BY <1>1, SpecInv, PTL

\* For any slave and any configurations, whatever is lost, refused, requested
\* and detached meanwhile: a slave is asked for SAFEOP or OP only with the sync
\* managers of its mailboxes and of its process data written.
THEOREM AskedWritten == Spec => []AskedWhenWritten
<1>1. Inv => AskedWhenWritten
  BY DEF Inv
<1> QED
  BY <1>1, SpecInv, PTL

\* Nothing is written after an error, if no configuration sets the watchdog
\* divider (the write of which is repeated whatever its working counter was).
THEOREM StopsUnlessDivider ==
    ASSUME \A id \in DOMAIN Configs : ~Configs[id].divider
    PROVE  Spec => []StopsAfterError
<1>1. Inv => StopsAfterError
  BY DEF Inv, StopInv, Divider
<1> QED
  BY <1>1, SpecInv, PTL

-----------------------------------------------------------------------------
(* What a configuration in the midst of which none is attached or detached  *)
(* has written by the time it asks for OP: every step behind a register's   *)
(* has the number of the configuration in it.                               *)

AfterDc == {"wait_safeop", "safeop", "soe_conf_safeop", "op"}
AfterFmmu == AfterDc \cup {"dc_cycle", "dc_sync_check", "dc_start", "dc_assign"}
AfterSdo == AfterSync \cup {"soe_conf_preop", "eoe_ip_param", "pdo_conf",
                            "watchdog_divider", "watchdog", "pdo_sync"}
Beyond == AfterSdo \cup {"sdo_conf"}

SdoOk(e) == config # 0 /\ Configs[config].sdos > 0 => e["sdo"] = config
SyncOk(e) == HasSync => e["sync"] = config
FmmuOk(e) == config # 0 /\ kind.fmmus > 0 => e["fmmu"] = config
DcOk(e) == config # 0 /\ Configs[config].dc => e["dc"] = config

\* The registers e, in state s.
Done(e, s) ==
    /\ s \in AfterSdo => SdoOk(e)
    /\ s \in AfterSync => SyncOk(e)
    /\ s \in AfterFmmu => FmmuOk(e)
    /\ s \in AfterDc => DcOk(e)

\* A register is written only in the state that clears it and in the one that
\* writes it for the configuration attached then (the list of SDOs aside).
Writes(s, op) ==
    /\ op # "sdo"
    /\ op = "sync" => s \in {"clear_sync", "pdo_sync"}
    /\ op = "fmmu" => s \in {"clear_fmmus", "fmmu"}
    /\ op = "dc" => s \in {"dc_clear_assign", "dc_assign"}

WritesConfig(s, op, arg) ==
    /\ s = "pdo_sync" => op = "sync" /\ arg = config
    /\ s = "fmmu" => op = "fmmu" /\ arg = config
    /\ s = "dc_assign" => op = "dc" /\ arg = config

\* As long as no configuration is attached or detached, the one whose requests
\* are transferred and whose number is written is the one attached.
BringInv == kept =>
    /\ fsm \in Lists => request.id = config
    /\ WritesConfig(fsm, dg.op, dg.arg)
    /\ present => Done(esc, fsm)

\* The changes to SAFEOP and OP ask for these states, and OP is not left to be
\* read before it was asked for.
Bring ==
    /\ Writes(fsm, dg.op)
    /\ fsm = "safeop" => chg.to = "SAFEOP"
    /\ fsm = "op" => chg.to = "OP"
    /\ fsm \in {"soe_conf_safeop", "op"} => slave.current # In("OP")
    /\ BringInv

\* What the state machines go on with.
Aim(t) ==
    /\ Writes(t.to, t.op) /\ WritesConfig(t.to, t.op, t.arg)
    /\ t.to = "safeop" => t.arg = "SAFEOP"
    /\ t.to = "op" => t.arg = "OP"
    /\ t.to \in Lists => t.request.id = config

\* Ends, starts over, or goes on up to SAFEOP with the registers e.
Towards(t, e) ==
    Aim(t) /\ Done(e, t.to) /\ t.to \notin {"soe_conf_safeop", "op"}

\* Ends, starts over, or goes on before PREOP.
Below(t) == Aim(t) /\ t.to \notin Beyond

LEMMA BeyondStates ==
    /\ AfterSync \subseteq AfterSdo /\ AfterFmmu \subseteq AfterSync
    /\ AfterDc \subseteq AfterFmmu /\ AfterSdo \subseteq Beyond
    /\ Beyond \subseteq BusyStates /\ Lists \subseteq Beyond
    /\ {"clear_fmmus", "clear_sync", "dc_clear_assign", "mbox_sync", "assign_pdi",
        "assign_ethercat", "init", "boot_preop", "idle", "times", "read_state",
        "acknowledge"} \cap Beyond = {}
  BY DEF AfterSync, AfterFmmu, AfterDc, AfterSdo, Beyond, BusyStates, Lists, Steps,
         Transfers, Changes

LEMMA SendAim ==
    ASSUME NEW s, s \notin Lists \cup {"pdo_sync", "fmmu", "dc_assign", "safeop", "op"},
           NEW op, op \notin {"sdo", "sync", "fmmu", "dc"}, NEW arg
    PROVE  Aim(Send(s, op, arg)) /\ Send(s, op, arg).to = s
  BY DEF Aim, Send, Writes, WritesConfig

LEMMA BelowEnds ==
    /\ Below(Stop) /\ Below(Fail) /\ Below(EnterInit) /\ Below(EnterBootPreop)
    /\ Below(Send("times", "none", 0)) /\ Below(Send("read_state", "status", 0))
<1>1. \A s \in {"idle", "init", "boot_preop", "times", "read_state"} :
         s \notin Beyond
  BY BeyondStates
<1>2. Below(Stop) /\ Below(EnterInit) /\ Below(Send("times", "none", 0))
      /\ Below(Send("read_state", "status", 0))
  BY <1>1, SendAim DEF Below, Stop, EnterInit, ChangeTo, Lists
<1>3. Below(Fail)
  BY <1>1 DEF Below, Fail, Stop, Send, Aim, Writes, WritesConfig, Lists
<1>4. Below(EnterBootPreop)
  BY <1>1 DEF Below, EnterBootPreop, ChangeTo, Send, Aim, Writes, WritesConfig, Lists
<1> QED
  BY <1>2, <1>3, <1>4

LEMMA BelowTowards ==
    ASSUME NEW t, Below(t), NEW e
    PROVE  Towards(t, e)
<1>1. t.to \notin AfterSdo \cup AfterSync \cup AfterFmmu \cup AfterDc
  BY BeyondStates DEF Below
<1>2. t.to \notin {"soe_conf_safeop", "op"}
  BY DEF Below, Beyond, AfterSdo, AfterSync
<1> QED
  BY <1>1, <1>2 DEF Below, Towards, Done

LEMMA EnterBelow ==
    /\ Below(EnterAssignPdi) /\ Below(EnterMboxSync) /\ Below(EnterDcClearAssign)
    /\ Below(EnterClearSync) /\ Below(AfterInit)
<1>1. Below(EnterAssignPdi)
  <2>1. Below(Send("assign_pdi", "none", 0))
    BY SendAim, BeyondStates DEF Below, Lists
  <2> QED
    BY <2>1, BelowEnds DEF EnterAssignPdi
<1>2. Below(EnterMboxSync)
  <2>1. Below(Send("mbox_sync", "mbox", 0))
    BY SendAim, BeyondStates DEF Below, Lists
  <2> QED
    BY <1>1, <2>1, BelowEnds DEF EnterMboxSync
<1>3. Below(EnterDcClearAssign)
  <2>1. Below(Send("dc_clear_assign", "dc", Cleared))
    BY BeyondStates DEF Below, Aim, Send, Writes, WritesConfig, Lists
  <2> QED
    BY <1>2, <2>1 DEF EnterDcClearAssign
<1>4. Below(EnterClearSync)
  <2>1. Below(Send("clear_sync", "sync", Cleared))
    BY BeyondStates DEF Below, Aim, Send, Writes, WritesConfig, Lists
  <2> QED
    BY <1>3, <2>1 DEF EnterClearSync
<1>5. Below(AfterInit)
  <2>1. Below(Send("clear_fmmus", "fmmu", Cleared))
    BY BeyondStates DEF Below, Aim, Send, Writes, WritesConfig, Lists
  <2> QED
    BY <1>4, <2>1 DEF AfterInit
<1> QED
  BY <1>1, <1>2, <1>3, <1>4, <1>5

\* A state that needs nothing, or only what stands in the registers.
LEMMA SendTowards ==
    ASSUME NEW s, NEW e, NEW op, NEW arg, Aim(Send(s, op, arg)), Done(e, s),
           s \notin {"soe_conf_safeop", "op"}
    PROVE  Towards(Send(s, op, arg), e)
  BY DEF Towards, Send

LEMMA TowardsSafeop ==
    ASSUME NEW e, SdoOk(e), SyncOk(e), FmmuOk(e), DcOk(e)
    PROVE  Towards(EnterWaitSafeop, e) /\ Towards(EnterSafeop, e)
<1>1. \A s : Done(e, s)
  BY DEF Done
<1>2. Towards(Send("wait_safeop", "none", 0), e)
  BY <1>1, SendAim, SendTowards DEF Lists
<1>3. Towards(EnterSafeop, e)
  BY <1>1 DEF EnterSafeop, ChangeTo, Towards, Aim, Send, Writes, WritesConfig, Lists
<1> QED
  BY <1>2, <1>3 DEF EnterWaitSafeop

LEMMA TowardsDc ==
    ASSUME NEW e, SdoOk(e), SyncOk(e), FmmuOk(e)
    PROVE  /\ Towards(EnterDcCycle, e)
           /\ \A s \in {"dc_cycle", "dc_sync_check", "dc_start"} : Towards(Send(s, "none", 0), e)
           /\ Towards(Send("dc_assign", "dc", config), e)
<1>1. \A s : s \notin AfterDc => Done(e, s)
  BY DEF Done
<1>2. \A s \in {"dc_cycle", "dc_sync_check", "dc_start"} : Towards(Send(s, "none", 0), e)
  BY <1>1, SendAim, SendTowards DEF Lists, AfterDc
<1>3. Towards(Send("dc_assign", "dc", config), e)
  <2>1. Aim(Send("dc_assign", "dc", config))
    BY DEF Aim, Send, Writes, WritesConfig, Lists
  <2> QED
    BY <1>1, <2>1, SendTowards DEF AfterDc
<1>4. CASE config = 0
  BY <1>2, <1>3, <1>4, BelowEnds, BelowTowards DEF EnterDcCycle
<1>5. CASE config # 0 /\ Configs[config].dc
  BY <1>2, <1>3, <1>5 DEF EnterDcCycle
<1>6. CASE config # 0 /\ ~Configs[config].dc
  <2>1. Towards(EnterWaitSafeop, e)
    BY <1>6, TowardsSafeop DEF DcOk
  <2> QED
    BY <1>2, <1>3, <1>6, <2>1 DEF EnterDcCycle
<1> QED
  BY <1>4, <1>5, <1>6

LEMMA TowardsFmmu ==
    ASSUME SlaveType, NEW e, SdoOk(e), SyncOk(e)
    PROVE  Towards(EnterFmmu, e)
<1>1. CASE config = 0
  BY <1>1, TowardsSafeop DEF EnterFmmu, FmmuOk, DcOk
<1>2. CASE config # 0 /\ kind.fmmus < Configs[config].fmmus
  BY <1>2, BelowEnds, BelowTowards DEF EnterFmmu
<1>3. CASE config # 0 /\ ~(kind.fmmus < Configs[config].fmmus) /\ kind.fmmus = 0
  BY <1>3, TowardsDc DEF EnterFmmu, FmmuOk
<1>4. CASE /\ config # 0 /\ ~(kind.fmmus < Configs[config].fmmus) /\ kind.fmmus # 0
           /\ Configs[config].fmmus > 0 /\ kind.syncs < Configs[config].syncs
  BY <1>4, BelowEnds, BelowTowards DEF EnterFmmu
<1>5. CASE /\ config # 0 /\ ~(kind.fmmus < Configs[config].fmmus) /\ kind.fmmus # 0
           /\ ~(Configs[config].fmmus > 0 /\ kind.syncs < Configs[config].syncs)
  <2>1. Aim(Send("fmmu", "fmmu", config))
    BY DEF Aim, Send, Writes, WritesConfig, Lists
  <2>2. Done(e, "fmmu")
    BY DEF Done, AfterFmmu, AfterDc
  <2> QED
    BY <1>5, <2>1, <2>2, SendTowards DEF EnterFmmu
<1> QED
  BY <1>1, <1>2, <1>3, <1>4, <1>5

LEMMA TowardsPdo ==
    ASSUME SlaveType, NEW e, SdoOk(e)
    PROVE  /\ Towards(EnterPdoSync, e) /\ Towards(EnterWatchdog, e)
           /\ Towards(EnterWatchdogDivider, e) /\ Towards(EnterPdoConf, e)
           /\ Towards(EnterEoeIpParam, e) /\ Towards(EnterSoeConfPreop, e)
<1>1. \A s : s \notin AfterSync => Done(e, s)
  BY BeyondStates DEF Done
<1>2. Towards(EnterPdoSync, e)
  <2>1. CASE kind.syncs <= (IF kind.mailbox THEN 2 ELSE 0)
    <3>1. kind.syncs \in Nat
      BY SlaveConfigAssumption DEF SlaveType
    <3>2. SyncOk(e)
      BY <2>1, <3>1 DEF SyncOk, HasSync
    <3> QED
      BY <2>1, <3>2, TowardsFmmu DEF EnterPdoSync
  <2>2. CASE ~(kind.syncs <= (IF kind.mailbox THEN 2 ELSE 0))
    <3>1. Aim(Send("pdo_sync", "sync", config))
      BY DEF Aim, Send, Writes, WritesConfig, Lists
    <3>2. Towards(Send("pdo_sync", "sync", config), e)
      BY <1>1, <3>1, SendTowards DEF AfterSync
    <3> QED
      BY <2>2, <3>2 DEF EnterPdoSync
  <2> QED
    BY <2>1, <2>2
<1>3. \A s \in {"watchdog", "watchdog_divider", "pdo_conf", "eoe_ip_param"} :
         \A op \in {"none", "transfer"} : Towards(Send(s, op, 0), e)
  BY <1>1, SendAim, SendTowards DEF AfterSync, Lists
<1>4. Towards(EnterWatchdog, e)
  BY <1>2, <1>3 DEF EnterWatchdog
<1>5. Towards(EnterWatchdogDivider, e)
  BY <1>3, <1>4 DEF EnterWatchdogDivider
<1>6. Towards(EnterPdoConf, e) /\ Towards(EnterEoeIpParam, e)
  BY <1>3 DEF EnterPdoConf, EnterEoeIpParam
<1>7. Towards(EnterSoeConfPreop, e)
  <2>1. config # 0 => Towards(Transfer("soe_conf_preop", 1), e)
    BY <1>1 DEF AfterSync, Towards, Aim, Transfer, Send, Writes, WritesConfig, Lists
  <2> QED
    BY <1>2, <1>6, <2>1 DEF EnterSoeConfPreop
<1> QED
  BY <1>2, <1>4, <1>5, <1>6, <1>7

LEMMA TowardsSdo ==
    ASSUME SlaveType, AppType, NEW e
    PROVE  /\ Towards(EnterSdoConf, e)
           /\ \A current : Towards(EndOrSdoConf(current), e)
<1>1. Towards(EnterSdoConf, e)
  <2>1. CASE config = 0
    BY <2>1, TowardsPdo DEF EnterSdoConf, SdoOk
  <2>2. CASE config # 0 /\ Count("sdo_conf") > 0
    <3>1. Done(e, "sdo_conf")
      BY DEF Done, AfterSdo, AfterSync, AfterFmmu, AfterDc
    <3>2. Towards(Transfer("sdo_conf", 1), e)
      BY <2>2, <3>1 DEF Towards, Aim, Transfer, Send, Writes, WritesConfig, Lists
    <3> QED
      BY <2>2, <3>2 DEF EnterSdoConf
  <2>3. CASE config # 0 /\ ~(Count("sdo_conf") > 0)
    <3>1. SdoOk(e)
      BY <2>3 DEF SdoOk, Count
    <3> QED
      BY <2>3, <3>1, TowardsPdo DEF EnterSdoConf
  <2> QED
    BY <2>1, <2>2, <2>3
<1>2. \A current : Towards(EndOrSdoConf(current), e)
  BY <1>1, BelowEnds, BelowTowards DEF EndOrSdoConf
<1> QED
  BY <1>1, <1>2

\* A state is entered.  Where a configuration begins or ends, nothing need have
\* been written.
LEMMA TakeBring ==
    ASSUME Inv, Bring, NEW t, Well(t), Aim(t), NEW current, NEW flag,
           TakeWith(t, current, flag), UNCHANGED <<kind, config>>,
           t.to \in {"soe_conf_safeop", "op"} => current # In("OP"),
           kept /\ present' => Done(esc', t.to)
    PROVE  Bring'
<1>1. /\ fsm' = t.to /\ dg'.op = t.op /\ dg'.arg = t.arg
      /\ t.to \in Lists => request' = t.request
      /\ kept' => kept \/ t.to \in {"init", "idle"}
  BY DEF TakeWith
<1>2. slave'.current = current
  BY InvTypes DEF TakeWith, MasterType, SlaveRecord
<1>3. t.to \in Changes => chg'.to = t.arg
  <2>1. chg \in ChangeRecord
    BY InvTypes DEF MasterType
  <2> QED
    BY <2>1 DEF TakeWith, Well, ChangeRecord
<1>4. /\ Writes(fsm', dg'.op)
      /\ fsm' = "safeop" => chg'.to = "SAFEOP"
      /\ fsm' = "op" => chg'.to = "OP"
      /\ fsm' \in {"soe_conf_safeop", "op"} => slave'.current # In("OP")
  BY <1>1, <1>2, <1>3 DEF Aim, Changes
<1>5. fsm' \in Lists => request'.id = config'
  BY <1>1 DEF Aim
<1>6. WritesConfig(fsm, dg.op, dg.arg)'
  BY <1>1 DEF Aim, WritesConfig
<1>7. kept' /\ present' => Done(esc, fsm)'
  <2>1. Done(esc', "init") /\ Done(esc', "idle")
    BY DEF Done, AfterSdo, AfterSync, AfterFmmu, AfterDc
  <2>2. kept' /\ present' => Done(esc', t.to)
    BY <1>1, <2>1
  <2> QED
    BY <1>1, <2>2 DEF Done, SdoOk, SyncOk, FmmuOk, DcOk, HasSync
<1> QED
  BY <1>4, <1>5, <1>6, <1>7 DEF Bring, BringInv, WritesConfig

\* A state that asks for no more than the AL state is entered.
LEMMA BelowBring ==
    ASSUME Inv, Bring, NEW t, Well(t), Below(t), NEW current, NEW flag,
           TakeWith(t, current, flag), UNCHANGED <<kind, config>>
    PROVE  Bring'
<1>1. Towards(t, esc')
  BY BelowTowards
<1> QED
  BY <1>1, TakeBring DEF Towards

\* The state machines stay in their state.
LEMMA StayBring ==
    ASSUME Inv, Bring, UNCHANGED <<fsm, request, kind>>,
           kept' => kept /\ config' = config,
           chg'.to = chg.to,
           slave'.current = slave.current \/ fsm \in {"init", "boot_preop", "safeop", "acknowledge"}
              \/ (fsm = "op" /\ slave'.current # In("OP")),
           UNCHANGED dg
              \/ (fsm \in Changes \cup {"acknowledge"} /\ dg'.op \notin {"sdo", "sync", "fmmu", "dc"}),
           kept /\ present' => Done(esc', fsm)
    PROVE  Bring'
<1>1. Writes(fsm', dg'.op)
  BY DEF Bring, Writes, Changes
<1>2. /\ fsm' = "safeop" => chg'.to = "SAFEOP"
      /\ fsm' = "op" => chg'.to = "OP"
      /\ fsm' \in {"soe_conf_safeop", "op"} => slave'.current # In("OP")
  BY DEF Bring
<1>3. ASSUME kept' PROVE BringInv'
  <2>1. kept /\ config' = config
    BY <1>3
  <2>2. present' => Done(esc, fsm)'
    BY <2>1 DEF Done, SdoOk, SyncOk, FmmuOk, DcOk, HasSync
  <2>3. fsm' \in Lists => request'.id = config'
    BY <2>1 DEF Bring, BringInv
  <2>4. WritesConfig(fsm, dg.op, dg.arg)'
    BY <2>1 DEF Bring, BringInv, WritesConfig, Changes
  <2> QED
    BY <2>2, <2>3, <2>4 DEF BringInv
<1> QED
  BY <1>1, <1>2, <1>3 DEF Bring, BringInv

\* A state before or between the configurations is entered without a datagram of
\* a register.
LEMMA OutsideBring ==
    ASSUME fsm' \in {"idle", "times", "acknowledge"},
           dg'.op \notin {"sdo", "sync", "fmmu", "dc"}
    PROVE  Bring'
<1>1. fsm' \notin Beyond /\ fsm' \notin Lists
  BY BeyondStates
<1>2. fsm' \notin AfterSdo \cup AfterSync \cup AfterFmmu \cup AfterDc
  BY <1>1, BeyondStates
<1>3. Done(esc, fsm)'
  BY <1>2 DEF Done
<1> QED
  BY <1>1, <1>3 DEF Bring, BringInv, Writes, WritesConfig

\* What a datagram does to the registers: those that are written stay as they
\* are, and the one the state writes gets the configuration's number.
LEMMA DeliverBring ==
    ASSUME Inv, Bring, NEW a \in Answers, Deliver(a)
    PROVE  /\ kind' = kind /\ present' = present
           /\ a = "answered" => present
           /\ kept /\ present => Done(esc', fsm)
           /\ kept /\ present /\ a = "answered" =>
                 /\ fsm = "pdo_sync" => SyncOk(esc')
                 /\ fsm = "fmmu" => FmmuOk(esc')
                 /\ fsm = "dc_assign" => DcOk(esc')
<1>1. /\ kind' = kind /\ present' = present
      /\ Executed(a) => present
      /\ a = "answered" => Executed(a)
  BY DEF Deliver, Executed
<1>2. \A r \in Registers \ {"mbox"} :
         esc'[r] = IF Executed(a) /\ dg.op = r THEN dg.arg ELSE esc[r]
  <2>1. esc' = IF Executed(a) /\ dg.op \in Registers
                  THEN Written(dg.op, dg.arg) ELSE esc
    BY DEF Deliver
  <2>2. esc \in [Registers -> Ids \cup {Cleared}]
    BY InvTypes DEF SlaveType
  <2> QED
    BY <2>1, <2>2 DEF Written
<1>3. {"sdo", "sync", "fmmu", "dc"} \subseteq Registers \ {"mbox"}
  BY DEF Registers
<1>4. Writes(fsm, dg.op)
  BY DEF Bring
<1>5. /\ esc'["sdo"] = esc["sdo"]
      /\ fsm \in AfterSync => esc'["sync"] = esc["sync"]
      /\ fsm \in AfterFmmu => esc'["fmmu"] = esc["fmmu"]
      /\ fsm \in AfterDc => esc'["dc"] = esc["dc"]
  BY <1>2, <1>3, <1>4 DEF Writes, AfterSync, AfterFmmu, AfterDc
<1>6. kept /\ present => Done(esc', fsm)
  <2>1. kept /\ present => Done(esc, fsm)
    BY DEF Bring, BringInv
  <2> QED
    BY <1>5, <2>1 DEF Done, SdoOk, SyncOk, FmmuOk, DcOk
<1>7. kept /\ present /\ a = "answered" =>
         /\ fsm = "pdo_sync" => SyncOk(esc')
         /\ fsm = "fmmu" => FmmuOk(esc')
         /\ fsm = "dc_assign" => DcOk(esc')
  <2>1. kept => WritesConfig(fsm, dg.op, dg.arg)
    BY DEF Bring, BringInv
  <2> QED
    BY <1>1, <1>2, <1>3, <2>1 DEF WritesConfig, SyncOk, FmmuOk, DcOk
<1> QED
  BY <1>1, <1>6, <1>7

-----------------------------------------------------------------------------
(* The actions. *)

LEMMA AgainBring ==
    ASSUME Inv, Bring, NEW n, NEW w, Again(n, w),
           UNCHANGED <<kind, config>>,
           kept /\ present' => Done(esc', fsm)
    PROVE  Bring'
  BY StayBring DEF Again

\* The numbers of the configuration in every register.
LEMMA AllWritten ==
    \E e : SdoOk(e) /\ SyncOk(e) /\ FmmuOk(e) /\ DcOk(e) /\ \A s : Done(e, s)
<1> DEFINE e == [r \in Registers |-> config]
<1>1. SdoOk(e) /\ SyncOk(e) /\ FmmuOk(e) /\ DcOk(e)
  BY DEF SdoOk, SyncOk, FmmuOk, DcOk, Registers
<1>2. \A s : Done(e, s)
  BY <1>1 DEF Done
<1> QED
  BY <1>1, <1>2

LEMMA DoneWritten ==
    ASSUME NEW e, NEW s, Done(e, s)
    PROVE  /\ s \in AfterSdo => SdoOk(e)
           /\ s \in AfterSync => SdoOk(e) /\ SyncOk(e)
           /\ s \in AfterFmmu => SdoOk(e) /\ SyncOk(e) /\ FmmuOk(e)
           /\ s \in AfterDc => \A u : Done(e, u)
  BY BeyondStates DEF Done

\* Behind PREOP, and behind SAFEOP.
LEMMA UpTowards ==
    ASSUME SlaveType, AppType, NEW current, NEW e
    PROVE  /\ Aim(AfterBootPreop(current))
           /\ AfterBootPreop(current).to \notin {"soe_conf_safeop", "op"}
           /\ Done(e, AfterBootPreop(current).to)
           /\ Aim(EnterSoeConfSafeop) /\ Aim(EnterOp)
           /\ EnterOp.to = "op"
<1>1. Aim(Send("assign_ethercat", "none", 0))
      /\ Send("assign_ethercat", "none", 0).to = "assign_ethercat"
  BY SendAim DEF Lists
<1>2. Done(e, "assign_ethercat")
  BY DEF Done, AfterSdo, AfterSync, AfterFmmu, AfterDc
<1>3. Towards(EndOrSdoConf(current), e)
  BY TowardsSdo
<1>4. /\ Aim(AfterBootPreop(current))
      /\ AfterBootPreop(current).to \notin {"soe_conf_safeop", "op"}
      /\ Done(e, AfterBootPreop(current).to)
  BY <1>1, <1>2, <1>3 DEF AfterBootPreop, Towards
<1>5. Aim(EnterOp) /\ EnterOp.to = "op"
  BY DEF EnterOp, ChangeTo, Send, Aim, Writes, WritesConfig, Lists
<1>6. config # 0 => Aim(Transfer("soe_conf_safeop", 1))
  BY DEF Transfer, Send, Aim, Writes, WritesConfig, Lists
<1> QED
  BY <1>4, <1>5, <1>6 DEF EnterSoeConfSafeop

LEMMA ChangeEndsBring ==
    ASSUME Inv, Bring, NEW ok \in BOOLEAN, NEW current, ChangeEnds(ok, current),
           fsm \in Changes \cup {"acknowledge"},
           UNCHANGED <<kind, config>>,
           ok /\ fsm # "acknowledge" => current = In(chg.to),
           kept /\ present' => Done(esc', fsm)
    PROVE  Bring'
<1>1. CASE fsm = "acknowledge"
  <2>1. PICK flag \in BOOLEAN : TakeWith(ActionConfigure(current, flag), current, flag)
    BY <1>1, InvTypes DEF ChangeEnds
  <2>2. Well(ActionConfigure(current, flag))
    BY ConfigureLeads DEF Leads
  <2>3. Below(ActionConfigure(current, flag))
    BY BelowEnds DEF ActionConfigure
  <2> QED
    BY <2>1, <2>2, <2>3, BelowBring
<1>2. CASE fsm # "acknowledge" /\ ~ok
  BY <1>2, Ends, InvTypes, BelowEnds, BelowBring DEF ChangeEnds
<1>3. CASE fsm # "acknowledge" /\ ok
  <2>1. TakeWith(AfterChange(current), current, slave.errorFlag)
        /\ Well(AfterChange(current)) /\ current = In(chg.to)
    BY <1>3, InvTypes, AfterChangeLeads DEF ChangeEnds, Leads
  <2>2. CASE fsm = "init"
    BY <2>1, <2>2, EnterBelow, BelowBring DEF AfterChange
  <2>3. CASE fsm = "boot_preop"
    <3>1. AfterChange(current) = AfterBootPreop(current)
      BY <2>3 DEF AfterChange
    <3> QED
      BY <2>1, <3>1, InvTypes, UpTowards, TakeBring
  <2>4. CASE fsm = "safeop"
    <3>1. AfterChange(current) = Stop \/ AfterChange(current) = EnterSoeConfSafeop
      BY <2>4 DEF AfterChange
    <3>2. CASE AfterChange(current) = Stop
      BY <2>1, <3>2, BelowEnds, BelowBring
    <3>3. CASE AfterChange(current) = EnterSoeConfSafeop
      <4>1. current # In("OP")
        BY <2>1, <2>4 DEF Bring, In
      <4>2. kept /\ present' => Done(esc', EnterSoeConfSafeop.to)
        BY <2>4, DoneWritten DEF AfterDc
      <4> QED
        BY <2>1, <3>3, <4>1, <4>2, InvTypes, UpTowards, TakeBring
    <3> QED
      BY <3>1, <3>2, <3>3
  <2>5. CASE fsm = "op"
    BY <2>1, <2>5, BelowEnds, BelowBring DEF AfterChange
  <2> QED
    BY <1>3, <2>2, <2>3, <2>4, <2>5 DEF Changes
<1> QED
  BY <1>1, <1>2, <1>3

LEMMA InChange ==
    ASSUME Inv, chg.state # "none"
    PROVE  fsm \in Changes \cup {"acknowledge"}
  BY InvTypes DEF ChgInv

LEMMA ChangeNextBring ==
    ASSUME Inv, Bring, NEW state, NEW op \in {"status", "ack"}, NEW spont,
           ChangeNext(state, op, spont), chg.state # "none",
           UNCHANGED <<kind, config>>,
           kept /\ present' => Done(esc', fsm)
    PROVE  Bring'
<1>1. chg'.to = chg.to
  BY InvTypes DEF ChangeNext, MasterType, ChangeRecord
<1>2. UNCHANGED <<slave, fsm, request, kept>> /\ dg'.op = op
  BY DEF ChangeNext
<1> QED
  BY <1>1, <1>2, InChange, StayBring

LEMMA StatusAgainBring ==
    ASSUME Inv, Bring, NEW current, NEW old, NEW spont,
           StatusAgain(current, old, spont), chg.state # "none",
           fsm = "op" => current # In("OP"),
           UNCHANGED <<kind, config>>,
           kept /\ present' => Done(esc', fsm)
    PROVE  Bring'
<1>1. chg'.to = chg.to
  BY InvTypes DEF StatusAgain, MasterType, ChangeRecord
<1>2. slave'.current = current 
  BY InvTypes DEF StatusAgain, MasterType, SlaveRecord
<1>3. UNCHANGED <<fsm, dg, request, kept>>
  BY DEF StatusAgain
<1> QED
  BY <1>1, <1>2, <1>3, InChange, StayBring DEF Changes

LEMMA StartCodeBring ==
    ASSUME Inv, Bring, StartCode(al, TRUE, TRUE), chg.state # "none", al # In(chg.to),
           UNCHANGED <<kind, config>>,
           kept /\ present' => Done(esc', fsm)
    PROVE  Bring'
<1>1. chg'.to = chg.to
  BY InvTypes DEF StartCode, MasterType, ChangeRecord
<1>2. slave'.current = al 
  BY InvTypes DEF StartCode, MasterType, SlaveRecord
<1>3. UNCHANGED <<fsm, request, kept>> /\ dg'.op = "code"
  BY DEF StartCode
<1>4. fsm = "op" => al # In("OP")
  BY DEF Bring
<1> QED
  BY <1>1, <1>2, <1>3, <1>4, InChange, StayBring DEF Changes

LEMMA ChangeBring ==
    ASSUME Inv, Bring, NEW a \in Answers,
           Check(a) \/ Status(a) \/ Code(a) \/ Ack(a) \/ CheckAck(a)
    PROVE  Bring'
<1>1. /\ Deliver(a) /\ chg.state # "none"
      /\ UNCHANGED <<kind, config>>
  BY DEF Check, Status, Code, Ack, CheckAck, Deliver
<1>2. kept /\ present' => Done(esc', fsm)
  BY <1>1, DeliverBring
<1>3. fsm \in Changes \cup {"acknowledge"}
  BY <1>1, InChange
<1>4. ASSUME NEW n, NEW w, Again(n, w) PROVE Bring'
  BY <1>1, <1>2, <1>4, AgainBring
<1>5. ASSUME NEW current, ChangeEnds(FALSE, current) PROVE Bring'
  BY <1>1, <1>2, <1>3, <1>5, ChangeEndsBring
<1>6. CASE Check(a)
  <2>1. CASE ChangeNext("status", "status", FALSE)
    BY <1>1, <1>2, <2>1, ChangeNextBring
  <2> QED
    BY <1>4, <1>5, <1>6, <2>1 DEF Check, ChangeFails
<1>7. CASE Status(a)
  <2>1. CASE al = In(chg.to) /\ ChangeEnds(TRUE, al)
    BY <1>1, <1>2, <1>3, <2>1, ChangeEndsBring
  <2>2. CASE al # In(chg.to) /\ (StatusAgain(al, al, TRUE) \/ StatusAgain(al, al, chg.spont))
    <3>1. fsm = "op" => al # In("OP")
      BY <2>2 DEF Bring
    <3> QED
      BY <1>1, <1>2, <2>2, <3>1, StatusAgainBring
  <2>3. CASE al # In(chg.to) /\ StartCode(al, TRUE, TRUE)
    BY <1>1, <1>2, <2>3, StartCodeBring
  <2> QED
    BY <1>4, <1>5, <1>7, <2>1, <2>2, <2>3 DEF Status, ChangeFails
<1>8. CASE Code(a)
  <2>1. CASE ChangeNext("ack", "ack", chg.spont)
    BY <1>1, <1>2, <2>1, ChangeNextBring
  <2> QED
    BY <1>4, <1>5, <1>8, <2>1 DEF Code, ChangeFails
<1>9. CASE Ack(a)
  <2>1. CASE ChangeNext("check_ack", "status", chg.spont)
    BY <1>1, <1>2, <2>1, ChangeNextBring
  <2> QED
    BY <1>4, <1>5, <1>9, <2>1 DEF Ack, ChangeFails
<1>10. CASE CheckAck(a)
  <2>1. CASE ChangeEnds(~chg.full, al)
    <3>1. fsm # "acknowledge" => chg.full
      BY <1>3, InvTypes DEF ChgInv
    <3>2. (~chg.full) \in BOOLEAN
      OBVIOUS
    <3> QED
      BY <1>1, <1>2, <1>3, <2>1, <3>1, <3>2, ChangeEndsBring
  <2>2. CASE al.err /\ StatusAgain(al, chg.old, chg.spont)
    <3>1. al # In("OP")
      BY <2>2 DEF In
    <3> QED
      BY <1>1, <1>2, <2>2, <3>1, StatusAgainBring
  <2> QED
    BY <1>4, <1>5, <1>10, <2>1, <2>2 DEF CheckAck, ChangeFails
<1> QED
  BY <1>6, <1>7, <1>8, <1>9, <1>10

LEMMA ReadStateBring ==
    ASSUME Inv, Bring, NEW a \in Answers, ReadState(a)
    PROVE  Bring'
<1>1. /\ Deliver(a) /\ fsm = "read_state"
      /\ UNCHANGED <<kind, config>>
  BY DEF ReadState, Deliver
<1>2. kept /\ present' => Done(esc', fsm)
  BY <1>1, DeliverBring
<1>3. CASE Again(tries - 1, waited)
  BY <1>1, <1>2, <1>3, AgainBring
<1>4. CASE Take(Stop) \/ Take(Fail) \/ TakeWith(Stop, al, TRUE)
  BY <1>1, <1>4, InvTypes, Ends, BelowEnds, BelowBring DEF Take
<1>5. CASE StartCode(al, FALSE, FALSE)
  <2>1. fsm' = "acknowledge" /\ dg'.op = "code"
    BY <1>5 DEF StartCode
  <2> QED
    BY <2>1, OutsideBring
<1>6. CASE TakeWith(ActionConfigure(al, FALSE), al, FALSE)
  <2>1. Well(ActionConfigure(al, FALSE))
    BY ConfigureLeads DEF Leads
  <2>2. Below(ActionConfigure(al, FALSE))
    BY BelowEnds DEF ActionConfigure
  <2> QED
    BY <1>1, <1>6, <2>1, <2>2, BelowBring
<1> QED
  BY <1>3, <1>4, <1>5, <1>6 DEF ReadState

\* A register access that was executed, or need not be.
LEMMA TowardsAfter ==
    ASSUME SlaveType, AppType, fsm \in Steps, NEW e, Done(e, fsm),
           fsm = "pdo_sync" => SyncOk(e), fsm = "fmmu" => FmmuOk(e),
           fsm = "dc_assign" => DcOk(e)
    PROVE  Towards(After(fsm), e)
<1>1. CASE fsm \in {"clear_fmmus", "clear_sync", "dc_clear_assign", "mbox_sync", "assign_pdi"}
  BY <1>1, EnterBelow, BelowEnds, BelowTowards DEF After
<1>2. CASE fsm = "assign_ethercat"
  BY <1>2, TowardsSdo DEF After
<1>3. CASE fsm \in {"watchdog_divider", "watchdog"}
  <2>1. SdoOk(e)
    BY <1>3, DoneWritten DEF AfterSdo
  <2> QED
    BY <1>3, <2>1, TowardsPdo DEF After
<1>4. CASE fsm = "pdo_sync"
  <2>1. SdoOk(e)
    BY <1>4, DoneWritten DEF AfterSdo
  <2> QED
    BY <1>4, <2>1, TowardsFmmu DEF After
<1>5. CASE fsm = "fmmu"
  <2>1. SdoOk(e) /\ SyncOk(e)
    BY <1>5, DoneWritten DEF AfterSync
  <2> QED
    BY <1>5, <2>1, TowardsDc DEF After
<1>6. CASE fsm \in {"dc_cycle", "dc_sync_check", "dc_start"}
  <2>1. SdoOk(e) /\ SyncOk(e) /\ FmmuOk(e)
    BY <1>6, DoneWritten DEF AfterFmmu
  <2> QED
    BY <1>6, <2>1, TowardsDc DEF After
<1>7. CASE fsm = "dc_assign"
  <2>1. SdoOk(e) /\ SyncOk(e) /\ FmmuOk(e)
    BY <1>7, DoneWritten DEF AfterFmmu
  <2> QED
    BY <1>7, <2>1, TowardsSafeop DEF After
<1> QED
  BY <1>1, <1>2, <1>3, <1>4, <1>5, <1>6, <1>7 DEF Steps

\* On the way to SAFEOP.
LEMMA TowardsBring ==
    ASSUME Inv, Bring, NEW t, Well(t), Take(t),
           UNCHANGED <<kind, config>>,
           \E e : Towards(t, e),
           kept /\ present' => Towards(t, esc')
    PROVE  Bring'
<1>1. Aim(t) /\ t.to \notin {"soe_conf_safeop", "op"}
  BY DEF Towards
<1>2. kept /\ present' => Done(esc', t.to)
  BY DEF Towards
<1> QED
  BY <1>1, <1>2, TakeBring DEF Take

LEMMA AfterBring ==
    ASSUME Inv, Bring, NEW a \in Answers, Deliver(a), fsm \in Steps, Take(After(fsm)),
           a = "answered" \/ fsm \in GoesOnWrong,
           UNCHANGED config
    PROVE  Bring'
<1>1. Well(After(fsm))
  BY InvTypes, AfterLeads DEF Leads
<1>2. \E e : Towards(After(fsm), e)
  BY AllWritten, InvTypes, TowardsAfter
<1>3. ASSUME kept, present' PROVE Towards(After(fsm), esc')
  BY <1>3, DeliverBring, InvTypes, TowardsAfter DEF GoesOnWrong, GoesOnLost
<1>4. kind' = kind
  BY DEF Deliver
<1> QED
  BY <1>1, <1>2, <1>3, <1>4, TowardsBring

LEMMA StepBring ==
    ASSUME Inv, Bring, NEW a \in Answers, Step(a)
    PROVE  Bring'
<1>1. /\ Deliver(a) /\ fsm \in Steps
      /\ UNCHANGED <<kind, config>>
  BY DEF Step, Deliver
<1>2. kept /\ present' => Done(esc', fsm)
  BY <1>1, DeliverBring
<1>3. ASSUME NEW n, NEW w, Again(n, w) PROVE Bring'
  BY <1>1, <1>2, <1>3, AgainBring
<1>4. CASE Take(Stop) \/ Take(Fail) \/ Take(EnterInit)
  BY <1>1, <1>4, InvTypes, Ends, EnterChanges, BelowEnds, BelowBring DEF Take
<1>5. CASE (a = "answered" \/ fsm \in GoesOnWrong) /\ Take(After(fsm))
  BY <1>1, <1>5, AfterBring
<1>6. CASE /\ slave' = [slave EXCEPT !.errorFlag = TRUE]
           /\ UNCHANGED <<changed, fsm, chg, dg, tries, request, kept>>
  <2>1. slave'.current = slave.current
    BY <1>6, InvTypes DEF MasterType, SlaveRecord
  <2> QED
    BY <1>1, <1>2, <1>6, <2>1, StayBring
<1>7. CASE Wrong(a)
  BY <1>3, <1>4, <1>5, <1>6, <1>7 DEF Wrong
<1>8. CASE Take(IF fsm \in GoesOnLost THEN After(fsm) ELSE Stop)
  <2>1. CASE fsm \in GoesOnLost
    BY <1>5, <1>8, <2>1 DEF GoesOnWrong
  <2>2. CASE fsm \notin GoesOnLost
    BY <1>4, <1>8, <2>2
  <2> QED
    BY <2>1, <2>2
<1> QED
  BY <1>3, <1>4, <1>5, <1>7, <1>8 DEF Step

LEMMA PollBring ==
    ASSUME Inv, Bring, Poll \/ RequestOp
    PROVE  Bring'
<1>1. CASE Poll
  <2>1. UNCHANGED <<kind, config>>
    BY <1>1 DEF Poll, slavevars
  <2>2. \/ TakeWith(Send("times", "none", 0), slave.current, slave.errorFlag)
        \/ TakeWith(Send("read_state", "status", 0), slave.current, slave.errorFlag)
    BY <1>1 DEF Poll, Take
  <2> QED
    BY <2>1, <2>2, StopLeads, BelowEnds, BelowBring DEF Leads
<1>2. CASE RequestOp
  <2>1. fsm' = "idle" /\ UNCHANGED dg
    BY <1>2 DEF RequestOp
  <2>2. dg'.op \notin {"sdo", "sync", "fmmu", "dc"}
    BY <1>2, <2>1 DEF Bring, Writes, RequestOp
  <2> QED
    BY <2>1, <2>2, OutsideBring
<1> QED
  BY <1>1, <1>2

LEMMA WaitSafeopBring ==
    ASSUME Inv, Bring, WaitSafeop
    PROVE  Bring'
<1>1. UNCHANGED <<kind, esc, present, config>> /\ fsm = "wait_safeop"
  BY DEF WaitSafeop, slavevars
<1>2. kept /\ present => Done(esc, fsm)
  BY DEF Bring, BringInv
<1>3. CASE Again(tries, waited + 1)
  BY <1>1, <1>2, <1>3, AgainBring
<1>4. CASE Take(EnterSafeop)
  <2>1. Well(EnterSafeop)
    BY InvTypes, EnterChanges
  <2>2. \E e : Towards(EnterSafeop, e)
    BY AllWritten, TowardsSafeop
  <2>3. kept /\ present' => Towards(EnterSafeop, esc')
    <3>1. kept /\ present => SdoOk(esc) /\ SyncOk(esc) /\ FmmuOk(esc) /\ DcOk(esc)
      BY <1>1, <1>2 DEF Done, AfterSdo, AfterSync, AfterFmmu, AfterDc
    <3> QED
      BY <1>1, <3>1, TowardsSafeop
  <2> QED
    BY <1>1, <1>4, <2>1, <2>2, <2>3, TowardsBring
<1> QED
  BY <1>3, <1>4 DEF WaitSafeop

LEMMA OtherTransferBring ==
    ASSUME Inv, Bring, OtherTransfer
    PROVE  Bring'
<1>1. UNCHANGED <<kind, esc, present, config>>
      /\ fsm \in {"eoe_ip_param", "pdo_conf"}
  BY DEF OtherTransfer, slavevars
<1>2. kept /\ present => SdoOk(esc)
  BY <1>1 DEF Bring, BringInv, Done, AfterSdo
<1>3. CASE Take(EnterInit)
  BY <1>1, <1>3, InvTypes, EnterChanges, BelowEnds, BelowBring DEF Take
<1>4. ASSUME NEW t \in {EnterPdoConf, EnterWatchdogDivider}, Take(t) PROVE Bring'
  <2>1. Well(t)
    BY InvTypes, EnterUp DEF Up
  <2>2. \E e : Towards(t, e)
    BY AllWritten, InvTypes, TowardsPdo
  <2>3. kept /\ present' => Towards(t, esc')
    BY <1>1, <1>2, InvTypes, TowardsPdo
  <2> QED
    BY <1>1, <1>4, <2>1, <2>2, <2>3, TowardsBring
<1> QED
  BY <1>3, <1>4 DEF OtherTransfer

LEMMA ListTransferBring ==
    ASSUME Inv, Bring, NEW ok \in BOOLEAN, ListTransfer(ok)
    PROVE  Bring'
<1> DEFINE last == request.id # 0 /\ fsm = "sdo_conf" /\ request.i = Configs[request.id].sdos
<1>1. /\ fsm \in Lists /\ (ok => present)
      /\ esc' = IF ok /\ last THEN [esc EXCEPT !["sdo"] = request.id] ELSE esc
      /\ UNCHANGED <<kind, present, config>>
  BY DEF ListTransfer
<1>2. esc \in [Registers -> Ids \cup {Cleared}] /\ request.i \in Nat
  BY InvTypes DEF SlaveType, MasterType
<1>3. kept => /\ request.id = config
              /\ present => Done(esc, fsm)
  BY <1>1, BeyondStates DEF Bring, BringInv
<1>4. ASSUME kept, present PROVE Done(esc', fsm)
  <2>1. CASE ok /\ last
    <3>1. esc'["sdo"] = config
      BY <1>1, <1>2, <1>3, <1>4, <2>1 DEF Registers
    <3>2. fsm = "sdo_conf"
      BY <2>1
    <3> QED
      BY <3>2 DEF Done, AfterSdo, AfterSync, AfterFmmu, AfterDc
  <2>2. CASE ~(ok /\ last)
    BY <1>1, <1>3, <1>4, <2>2
  <2> QED
    BY <2>1, <2>2
<1>5. ASSUME kept, present, fsm = "sdo_conf", ok, request.i = Count(fsm) PROVE SdoOk(esc')
  <2> SUFFICES ASSUME config # 0 PROVE SdoOk(esc')
    BY DEF SdoOk
  <2>1. last
    BY <1>3, <1>5 DEF Count
  <2>2. esc'["sdo"] = config
    BY <1>1, <1>2, <1>3, <1>5, <2>1 DEF Registers
  <2> QED
    BY <2>2 DEF SdoOk
<1> HIDE DEF last
<1>6. CASE Take(Fail) \/ Take(EnterInit)
  BY <1>1, <1>6, InvTypes, Ends, EnterChanges, BelowEnds, BelowBring DEF Take
<1>7. ASSUME NEW i \in Nat, Take(Transfer(fsm, i)) PROVE Bring'
  <2>1. Well(Transfer(fsm, i)) /\ Transfer(fsm, i).to = fsm
    BY <1>1, InvTypes, TransferWell
  <2>2. Aim(Transfer(fsm, i))
    BY <1>1 DEF Aim, Transfer, Send, Writes, WritesConfig, Lists
  <2>3. fsm \in {"soe_conf_safeop", "op"} => slave.current # In("OP")
    BY DEF Bring
  <2> QED
    BY <1>1, <1>4, <1>7, <2>1, <2>2, <2>3, TakeBring DEF Take
<1>8. CASE ok /\ (kept => request.i = Count(fsm)) /\ Take(AfterList)
  <2>1. Well(AfterList)
    BY <1>1, InvTypes, AfterListLeads DEF Leads
  <2>2. CASE fsm = "soe_conf_safeop"
    <3>1. AfterList = EnterOp
      BY <2>2 DEF AfterList
    <3>2. slave.current # In("OP")
      BY <2>2 DEF Bring
    <3>3. kept /\ present' => Done(esc', "op")
      BY <1>1, <1>4, <2>2, DoneWritten DEF AfterDc
    <3> QED
      BY <1>1, <1>3, <1>8, <2>1, <3>1, <3>2, <3>3, InvTypes, UpTowards, TakeBring DEF Take
  <2>3. CASE fsm \in {"sdo_conf", "soe_conf_preop"}
    <3>1. AfterList \in {EnterSoeConfPreop, EnterEoeIpParam}
      BY <2>3 DEF AfterList
    <3>2. kept /\ present' => SdoOk(esc')
      BY <1>1, <1>4, <1>5, <1>8, <2>3, DoneWritten DEF AfterSdo
    <3>3. \E e : Towards(AfterList, e)
      BY <3>1, AllWritten, InvTypes, TowardsPdo
    <3>4. kept /\ present' => Towards(AfterList, esc')
      BY <3>1, <3>2, InvTypes, TowardsPdo
    <3> QED
      BY <1>1, <1>3, <1>8, <2>1, <3>3, <3>4, TowardsBring
  <2> QED
    BY <1>1, <2>2, <2>3 DEF Lists
<1>9. CASE ok /\ config = request.id /\ request.i < Count(fsm) /\ Take(Transfer(fsm, request.i + 1))
  <2>1. request.i + 1 \in Nat
    BY <1>2
  <2> QED
    BY <1>7, <1>9, <2>1
<1>10. CASE ok /\ config = request.id /\ request.i = Count(fsm) /\ Take(AfterList)
  BY <1>8, <1>10
<1>11. CASE ok /\ config \notin {0, request.id} /\ (Take(AfterList) \/ Take(Transfer(fsm, 1)))
  <2>1. ~kept
    BY <1>3, <1>11
  <2> QED
    BY <1>7, <1>8, <1>11, <2>1
<1> QED
  BY <1>6, <1>9, <1>10, <1>11 DEF ListTransfer

LEMMA RescanBring ==
    ASSUME Inv, Bring, Rescan
    PROVE  Bring'
<1>1. fsm = "idle" /\ fsm' = "times" /\ UNCHANGED dg
  BY DEF Rescan
<1>2. dg'.op \notin {"sdo", "sync", "fmmu", "dc"}
  BY <1>1 DEF Bring, Writes
<1> QED
  BY <1>1, <1>2, OutsideBring

\* A configuration is attached or detached only if none is going on, or else
\* nothing is said of the one that does.
LEMMA ApplicationBring ==
    ASSUME Inv, Bring, Application
    PROVE  Bring'
<1>1. UNCHANGED <<kind, esc, present, fsm, chg, dg, request>>
  BY DEF Application, Reserve, SetEoeStates, CreateConfig, Activate, Release, Deactivate,
         EoedevOpenStop, RequestByTool, slavevars, fsmvars, appvars
<1>2. slave'.current = slave.current
  BY InvTypes DEF MasterType, SlaveRecord, RequestState, Application, Reserve, SetEoeStates,
         CreateConfig, Activate, Release, Deactivate, EoedevOpenStop, RequestByTool, appvars
<1>3. UNCHANGED <<config, kept>> \/ \E id \in Ids : Attach(id)
  <2>1. 0 \in Ids /\ (created + 1 \in DOMAIN Configs => created + 1 \in Ids)
    BY DEF Ids
  <2>2. CASE Reserve \/ SetEoeStates \/ Activate \/ EoedevOpenStop \/ RequestByTool
    BY <2>2 DEF Reserve, SetEoeStates, Activate, EoedevOpenStop, RequestByTool, appvars, fsmvars
  <2>3. CASE CreateConfig
    BY <2>1, <2>3 DEF CreateConfig
  <2>4. CASE Release \/ \E release \in BOOLEAN : Deactivate(release)
    BY <2>1, <2>4 DEF Release, Deactivate
  <2> QED
    BY <2>2, <2>3, <2>4 DEF Application
<1>4. kept /\ present' => Done(esc', fsm)
  BY <1>1 DEF Bring, BringInv
<1>5. CASE kept' => kept /\ config' = config
  BY <1>1, <1>2, <1>4, <1>5, StayBring
<1>6. CASE ~Busy
  <2>1. fsm \notin Beyond
    BY <1>6, BeyondStates DEF Busy, BusyStates
  <2>2. fsm' \notin Lists \cup {"pdo_sync", "fmmu", "dc_assign"}
    BY <1>1, <2>1 DEF Beyond, AfterSdo, AfterSync, Lists
  <2>3. fsm' \notin AfterSdo \cup AfterSync \cup AfterFmmu \cup AfterDc
    BY <1>1, <2>1, BeyondStates
  <2>4. Done(esc, fsm)'
    BY <2>3 DEF Done
  <2>5. WritesConfig(fsm, dg.op, dg.arg)'
    BY <2>2 DEF WritesConfig
  <2> QED
    BY <1>1, <1>2, <2>2, <2>4, <2>5 DEF Bring, BringInv, Writes
<1>7. CASE UNCHANGED <<config, kept>>
  BY <1>5, <1>7
<1>8. ASSUME NEW id \in Ids, Attach(id), Busy PROVE Bring'
  <2>1. kept' => kept /\ config' = config
    BY <1>8 DEF Attach
  <2> QED
    BY <1>5, <2>1
<1> QED
  BY <1>3, <1>6, <1>7, <1>8

LEMMA SlaveBring ==
    ASSUME Inv, Bring, Slave
    PROVE  Bring'
<1>1. /\ UNCHANGED <<kind, slave, fsm, chg, dg, request, kept, config>>
      /\ present' => present /\ esc' = esc
  BY DEF Slave, Obey, Refuse, Drop, PowerCycle, fsmvars, appvars
<1>2. kept /\ present' => Done(esc', fsm)
  BY <1>1 DEF Bring, BringInv
<1> QED
  BY <1>1, <1>2, StayBring

LEMMA InitBring ==
    ASSUME Init
    PROVE  Bring
<1>1. fsm = "idle" /\ dg.op = "none"
  BY DEF Init
<1>2. "idle" \notin Beyond /\ Done(esc, "idle")
  BY BelowEnds, BelowTowards, BeyondStates DEF Done
<1> QED
  BY <1>1, <1>2, BeyondStates DEF Bring, BringInv, Writes, WritesConfig

LEMMA NextBring ==
    ASSUME Inv, Bring, [Next]_vars
    PROVE  Bring'
<1>1. CASE Poll \/ RequestOp
  BY <1>1, PollBring
<1>2. CASE WaitSafeop
  BY <1>2, WaitSafeopBring
<1>3. CASE OtherTransfer
  BY <1>3, OtherTransferBring
<1>4. ASSUME NEW ok \in BOOLEAN, ListTransfer(ok) PROVE Bring'
  BY <1>4, ListTransferBring
<1>5. ASSUME NEW a \in Answers,
             ReadState(a) \/ Check(a) \/ Status(a) \/ Code(a) \/ Ack(a) \/ CheckAck(a) \/ Step(a)
      PROVE  Bring'
  BY <1>5, ReadStateBring, ChangeBring, StepBring
<1>6. CASE Rescan
  BY <1>6, RescanBring
<1>7. CASE Application
  BY <1>7, ApplicationBring
<1>8. CASE Slave
  BY <1>8, SlaveBring
<1>9. CASE UNCHANGED vars
  <2>1. UNCHANGED <<kind, esc, present, slave, fsm, chg, dg, request, kept, config>>
    BY <1>9 DEF vars, slavevars, appvars, fsmvars
  <2>2. kept /\ present' => Done(esc', fsm)
    BY <2>1 DEF Bring, BringInv
  <2> QED
    BY <2>1, <2>2, StayBring
<1> QED
  BY <1>1, <1>2, <1>3, <1>4, <1>5, <1>6, <1>7, <1>8, <1>9 DEF Next, Master

\* The end of a change to OP: the slave answered, and so it has kept what was
\* written.
LEMMA EndBring ==
    ASSUME Inv, Bring, [Next]_vars, kept, fsm = "op", ~Busy', slave'.current = In("OP")
    PROVE  WrittenFor(config)
<1>1. slave.current # In("OP")
  BY DEF Bring
<1>2. fsm' \notin Changes
  BY DEF Busy
<1>3. PICK a \in Answers : Check(a) \/ Status(a) \/ Code(a) \/ Ack(a) \/ CheckAck(a)
  <2>1. fsm' # fsm
    BY <1>2 DEF Changes
  <2>2. ~Application /\ ~Slave /\ ~UNCHANGED vars
    BY <2>1 DEF Application, Reserve, SetEoeStates, CreateConfig, Activate, Release,
                Deactivate, EoedevOpenStop, RequestByTool, Slave, Obey, Refuse, Drop, PowerCycle, vars, fsmvars
  <2>3. ~Poll /\ ~RequestOp /\ ~WaitSafeop /\ ~OtherTransfer /\ ~Rescan
        /\ \A ok \in BOOLEAN : ~ListTransfer(ok)
    BY DEF Poll, RequestOp, WaitSafeop, OtherTransfer, Rescan, ListTransfer, Lists
  <2>4. \A a \in Answers : ~ReadState(a) /\ ~Step(a)
    BY DEF ReadState, Step, Steps
  <2> QED
    BY <2>2, <2>3, <2>4 DEF Next, Master
<1>4. Deliver(a) /\ (a = "answered" => present)
  BY <1>3, DeliverBring DEF Check, Status, Code, Ack, CheckAck
<1>5. a = "answered" \/ slave'.current = slave.current
  <2>1. ASSUME NEW n, NEW w, Again(n, w) PROVE slave'.current = slave.current
    BY <2>1 DEF Again
  <2>2. ASSUME NEW state, NEW op, NEW spont, ChangeNext(state, op, spont)
        PROVE  slave'.current = slave.current
    BY <2>2 DEF ChangeNext
  <2>3. ASSUME ChangeFails PROVE slave'.current = slave.current
    <3>1. PICK flag : TakeWith(Stop, slave.current, flag)
      BY <2>3 DEF ChangeFails, ChangeEnds
    <3> QED
      BY <3>1, InvTypes DEF TakeWith, MasterType, SlaveRecord
  <2> QED
    BY <1>3, <2>1, <2>2, <2>3 DEF Check, Status, Code, Ack, CheckAck
<1>6. present
  BY <1>1, <1>4, <1>5
<1>7. SdoOk(esc) /\ SyncOk(esc) /\ FmmuOk(esc) /\ DcOk(esc)
  BY <1>6 DEF Bring, BringInv, Done, AfterSdo, AfterSync, AfterFmmu, AfterDc
<1>8. kind.mailbox => esc["mbox"] # Cleared
  BY <1>6 DEF Inv, FlowInv, AfterMbox, AfterSync
<1> QED
  BY <1>7, <1>8 DEF WrittenFor, SdoOk, SyncOk, FmmuOk, DcOk, HasSync

\* For any slave, any configurations and any losses, and whatever AL states are
\* requested meanwhile: a configuration that brings the slave to OP
\* (ec_fsm_slave_config.c) has written every register for the configuration that
\* is attached, if none was attached or detached since it began.
THEOREM BringsUp == Spec => BroughtUp
<1>1. Init => Inv /\ Bring
  BY InitInv, InitBring
<1>2. Inv /\ Bring /\ [Next]_vars => (Inv /\ Bring)'
  BY NextInv, NextBring
<1>3. Inv /\ Bring /\ [Next]_vars
      => [(kept /\ fsm = "op" /\ ~Busy' /\ slave'.current = In("OP"))
            => WrittenFor(config)]_vars
  BY EndBring
<1> QED
  BY <1>1, <1>2, <1>3, PTL DEF Spec, BroughtUp
=============================================================================
