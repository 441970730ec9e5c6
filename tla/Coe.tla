--------------------------------- MODULE Coe ---------------------------------
(***************************************************************************)
(* SDO transfers over a slave's mailbox: the download and upload state     *)
(* machines of master/fsm_coe.c with the mailbox datagrams of              *)
(* master/mailbox.c, over a bus that loses datagrams, to a slave that      *)
(* answers late, refuses, sends emergency messages (EmergRing) and has     *)
(* other users of its mailbox.                                             *)
(*                                                                         *)
(* A value is a sequence of parts, one for each mailbox message it takes:  *)
(* the first one goes with the request or the response, every other one in *)
(* a segment.  A transfer of one part stands for the expedited and for the *)
(* normal one without segments.                                            *)
(*                                                                         *)
(* ec_fsm_coe_exec() does nothing while its datagram is under way, so the  *)
(* datagram alternates between the bus and the state machine.  The slave   *)
(* is external: it handles a request a while after the mailbox took it.    *)
(* The master writes no mailbox counter, so it does not recognise a        *)
(* request that was written twice, but a segment with the toggle bit of    *)
(* the one before it aborts the transfer.                                  *)
(***************************************************************************)
EXTENDS EmergRing

CONSTANTS
    Sizes,          \* numbers of parts of a value
    InitialSize,    \* the one of the value the object has at first
    Retries,        \* EC_FSM_RETRIES
    MaxTransfers,   \* bound on the transfers, one after the other
    MaxEvents,      \* bound on transfers, losses, refusals and thefts together
    MaxQueue,       \* bound on the answers waiting in the slave
    Others          \* answers to other users that may be in the mailbox

ASSUME CoeAssumption ==
    /\ Sizes \subseteq Nat \ {0} /\ InitialSize \in Sizes
    /\ Retries \in Nat /\ MaxTransfers \in Nat /\ MaxEvents \in Nat
    /\ MaxQueue \in Nat \ {0} /\ Others \subseteq {"eoe", "up"}

VARIABLES
    state,              \* state of the CoE state machine
    datagram,           \* what it sent last, and what became of it
    retries, expired,   \* expired: the response timeout has passed
    request,            \* dir, the data to write or read, and its number
    prog,               \* remaining, complete_size and toggle
    rx, tx,             \* the slave: request in its mailbox, answers waiting
    server, object,     \* the transfer it is in, and the value of the object
    troubles, emergs,   \* troubles and emergency messages so far
    disturbed, late,    \* history of the transfer, see Start
    asked               \* history: the values of the downloads begun

fsmvars == <<state, datagram, retries, expired, request, prog>>
slavevars == <<rx, tx, server, object>>
vars == <<fsmvars, slavevars, troubles, emergs, disturbed, late, asked,
          ringvars>>

None == [type |-> "none"]
Check == [type |-> "check"]         \* ec_slave_mbox_prepare_check()
Fetch == [type |-> "fetch"]         \* ec_slave_mbox_prepare_fetch()

Terminal == {"idle", "end", "error"}
Busy == state \notin Terminal

Value(n, size) == [k \in 1 .. size |-> <<n, k>>]

-----------------------------------------------------------------------------
(* What the state machine sends. *)

UpSegment(toggle) == [type |-> "up_seg", toggle |-> toggle]

\* The part of the data that follows when so many remain.
DownSegment(remaining, toggle) ==
    [type |-> "down_seg", toggle |-> toggle, last |-> remaining = 1,
     part |-> request.data[Len(request.data) - remaining + 1]]

Sent(what) == [what |-> what, state |-> "sent", wc |-> 0, data |-> None]

Send(what) == datagram' = Sent(what)

-----------------------------------------------------------------------------
Init ==
    /\ state = "idle" /\ datagram = [Sent(None) EXCEPT !.state = "none"]
    /\ retries = 0 /\ expired = FALSE
    /\ request = [dir |-> "up", data |-> <<>>, n |-> 0]
    /\ prog = [remaining |-> 0, complete |-> 0, toggle |-> 0]
    /\ rx = None /\ tx = <<>> /\ server = None
    /\ object = Value(0, InitialSize)
    /\ troubles = 0 /\ emergs = 0 /\ disturbed = FALSE /\ late = FALSE
    /\ asked = {}
    /\ RingInit

-----------------------------------------------------------------------------
(* The bus and the slave. *)

Bounded == request.n + troubles < MaxEvents

Trouble ==
    /\ Bounded /\ troubles' = troubles + 1
    /\ disturbed' = TRUE

NoTrouble == UNCHANGED <<troubles, disturbed>>

\* The datagram passes the slave: what it does there and, if the answer is not
\* lost on the way back (s is received), the working counter and the data.
Back(s, wc, data) ==
    datagram' = IF s = "received"
                THEN [datagram EXCEPT !.state = s, !.wc = wc, !.data = data]
                ELSE [datagram EXCEPT !.state = s]

Pass(s) ==
    \/ /\ datagram.what = Check
       /\ Back(s, 1, [type |-> IF tx = <<>> THEN "empty" ELSE "full"])
       /\ UNCHANGED <<rx, tx>>
    \/ /\ datagram.what = Fetch /\ tx = <<>>
       /\ Back(s, 0, None)
       /\ UNCHANGED <<rx, tx>>
    \/ /\ datagram.what = Fetch /\ tx # <<>>
       /\ Back(s, 1, Head(tx))
       /\ tx' = Tail(tx) /\ UNCHANGED rx
    \/ /\ datagram.what \notin {Check, Fetch} /\ rx = None
       /\ Back(s, 1, datagram.what)
       /\ rx' = datagram.what /\ UNCHANGED tx
    \/ /\ datagram.what \notin {Check, Fetch} /\ rx # None
       /\ Back(s, 0, datagram.what)
       /\ UNCHANGED <<rx, tx>>

Bus ==
    /\ datagram.state = "sent"
    /\ \/ Pass("received") /\ NoTrouble
       \/ Pass("timed_out") /\ Trouble                  \* lost on the way back
       \/ /\ \E s \in {"timed_out", "error"} : Back(s, 0, None)
          /\ Trouble /\ UNCHANGED <<rx, tx>>            \* lost before, no link
    /\ UNCHANGED <<state, retries, expired, request, prog, server,
                   object, emergs, late, asked, ringvars>>

Answer(m) == Len(tx) < MaxQueue /\ tx' = Append(tx, m)

\* The server of a slave: an initiate request always begins a new transfer, a
\* segment is of the transfer begun last.
Initiate ==
    \/ /\ rx.type = "down"
       /\ Answer([type |-> "down", own |-> TRUE])
       /\ object' = IF rx.size = 1 THEN <<rx.part>> ELSE object
       /\ server' = IF rx.size = 1 THEN None
                    ELSE [type |-> "down_seg", toggle |-> 0, data |-> <<rx.part>>]
    \/ /\ rx.type = "up"
       /\ Answer([type |-> "up", own |-> TRUE, part |-> Head(object),
                  size |-> Len(object)])
       /\ server' = IF Len(object) = 1 THEN None
                    ELSE [type |-> "up_seg", toggle |-> 0, data |-> Tail(object)]
       /\ UNCHANGED object

InTurn == server.type = rx.type /\ server.toggle = rx.toggle

Segment ==
    \/ /\ rx.type = "down_seg" /\ InTurn
       /\ Answer([type |-> "down_seg", toggle |-> rx.toggle])
       /\ LET all == Append(server.data, rx.part) IN
          /\ object' = IF rx.last THEN all ELSE object
          /\ server' = IF rx.last THEN None
                       ELSE [server EXCEPT !.toggle = 1 - @, !.data = all]
    \/ /\ rx.type = "up_seg" /\ InTurn
       /\ Answer([type |-> "up_seg", part |-> Head(server.data),
                  last |-> Len(server.data) = 1])
       /\ server' = IF Len(server.data) = 1 THEN None
                    ELSE [server EXCEPT !.toggle = 1 - @, !.data = Tail(@)]
       /\ UNCHANGED object

Abort == Answer([type |-> "abort"]) /\ server' = None /\ UNCHANGED object

Serve ==
    /\ rx # None /\ rx' = None
    /\ \/ (Initiate \/ Segment) /\ NoTrouble
       \/ rx.type \in {"down_seg", "up_seg"} /\ ~InTurn /\ Abort /\ NoTrouble
       \/ Abort /\ Trouble                              \* the slave refuses
    /\ UNCHANGED <<fsmvars, emergs, late, asked, ringvars>>

Emergency ==
    /\ emergs + 1 \in Emerg /\ emergs' = emergs + 1
    /\ Answer([type |-> "emergency", msg |-> emergs + 1])
    /\ UNCHANGED <<fsmvars, rx, server, object, troubles, disturbed, late,
                   asked, ringvars>>

\* Other users of the mailbox, other state machines and the EoE handler: the
\* answer to one of them, and one that takes an answer that is not for it.
\* The late answer to an upload disturbs nothing.
OtherAnswer ==
    /\ Bounded /\ troubles' = troubles + 1
    /\ \E o \in Others :
          /\ Answer([type |-> o, own |-> FALSE])
          /\ disturbed' = (disturbed \/ o # "up")
    /\ UNCHANGED <<fsmvars, rx, server, object, emergs, late, asked, ringvars>>

Theft ==
    /\ tx # <<>> /\ tx' = Tail(tx)
    /\ Trouble
    /\ UNCHANGED <<fsmvars, rx, server, object, emergs, late, asked, ringvars>>

\* Nothing is under way: the slave owes no answer and none waits.
Quiet == rx = None /\ tx = <<>> /\ datagram.what = Check

\* Time passes: the response timeout of the request is over.
Expire ==
    /\ Busy /\ ~expired /\ expired' = TRUE
    /\ disturbed' = (disturbed \/ ~Quiet)
    /\ UNCHANGED <<state, datagram, retries, request, prog, slavevars,
                   troubles, emergs, late, asked, ringvars>>

-----------------------------------------------------------------------------
(* The state machine. *)

\* Mutated: the retries are not counted.
TimedOutAlways == datagram.state = "timed_out"

TimedOut == datagram.state = "timed_out" /\ retries > 0
Received == datagram.state = "received"

\* An answer to a transfer of this state machine.
Own(m) ==
    \/ m.type \in {"down_seg", "up_seg"}
    \/ m.type \in {"down", "up"} /\ m.own

Outside == UNCHANGED <<slavevars, troubles, emergs, disturbed, late, asked>>

Start ==
    /\ ~Busy /\ request.n < MaxTransfers /\ Bounded
    /\ \E dir \in {"up", "down"}, size \in Sizes :
          LET data == IF dir = "up" THEN <<>> ELSE Value(request.n + 1, size) IN
          /\ request' = [dir |-> dir, data |-> data, n |-> request.n + 1]
          /\ state' = IF dir = "up" THEN "up_request" ELSE "down_request"
          /\ Send(IF dir = "up" THEN [type |-> "up"]
                  ELSE [type |-> "down", part |-> Head(data), size |-> size])
          /\ IF dir = "up" THEN UNCHANGED <<prog, asked>>
             ELSE /\ prog' = [prog EXCEPT !.remaining = size - 1]
                  /\ asked' = asked \cup {data}
    /\ retries' = Retries /\ expired' = FALSE
    /\ disturbed' = (rx # None \/ \E i \in DOMAIN tx : tx[i].type # "emergency")
    /\ late' = (rx # None \/ \E i \in DOMAIN tx : Own(tx[i]))
    /\ UNCHANGED <<slavevars, troubles, emergs, ringvars>>

\* What a slot of the external datagram ring may hold: the datagram another
\* state machine, or this one, had there before.
SlotContents ==
    {[Sent(None) EXCEPT !.state = s] : s \in {"received", "timed_out", "error"}}
    \cup [what : {None}, state : {"received"}, wc : {1},
          data : [type : {"empty", "full"}]]

\* The datagram timed out: the same is prepared again, except that
\* ec_fsm_coe_down_seg_check() prepares nothing.  If the datagram is the one of
\* the master's state machine, it is sent again as it is.  If it is one of the
\* ring, this is the next slot, which is not injected as it is not INIT, and
\* what the slot held is taken for the answer.
Retry ==
    /\ TimedOut /\ retries' = retries - 1
    /\ \/ Send(datagram.what)
       \/ state = "down_seg_check" /\ datagram' \in SlotContents
    /\ UNCHANGED <<state, expired, request, prog, ringvars>>

Enter(s, what) == state' = s /\ Send(what) /\ retries' = Retries

End(s) == state' = s /\ UNCHANGED <<datagram, retries>>

NotReceived ==
    /\ ~Received /\ ~TimedOut
    /\ End("error")
    /\ UNCHANGED <<expired, request, prog, ringvars>>

\* The slave has not taken the request: its mailbox is still full.
WrongCounter ==
    /\ Received /\ datagram.wc = 0
    /\ IF state \in {"down_request", "up_request"} /\ ~expired
       THEN Send(datagram.what) /\ UNCHANGED <<state, retries>>
       ELSE End("error")
    /\ UNCHANGED <<expired, request, prog, ringvars>>

Answered == Received /\ datagram.wc = 1

CheckAfter == [down_request |-> "down_check", up_request |-> "up_check",
               up_seg_request |-> "up_seg_check"]

\* The request is in the mailbox: the response timeout begins.
Requested ==
    /\ Answered /\ state \in DOMAIN CheckAfter
    /\ expired' = FALSE
    /\ Enter(CheckAfter[state], Check)
    /\ UNCHANGED <<request, prog, ringvars>>

ResponseAfter == [down_check |-> "down_response", up_check |-> "up_response",
                  down_seg_check |-> "down_seg_response",
                  up_seg_check |-> "up_seg_response"]

\* Mutated: the response timeout is not looked at.
CheckedForever ==
    /\ Answered /\ state \in DOMAIN ResponseAfter
    /\ \/ datagram.data.type = "full" /\ Enter(ResponseAfter[state], Fetch)
       \/ datagram.data.type # "full" /\ Enter(state, Check)
    /\ UNCHANGED <<expired, request, prog, ringvars>>

\* A download segment has no request state: its datagram, which is no check,
\* is taken for one that has found the mailbox empty.
Checked ==
    /\ Answered /\ state \in DOMAIN ResponseAfter
    /\ \/ /\ datagram.data.type = "full"
          /\ Enter(ResponseAfter[state], Fetch)
       \/ /\ datagram.data.type # "full" /\ ~expired
          /\ Enter(state, Check)
       \/ /\ datagram.data.type # "full" /\ expired
          /\ End("error")
    /\ UNCHANGED <<expired, request, prog, ringvars>>

CheckAgain == [down_response |-> "down_check", up_response |-> "up_check",
               down_seg_response |-> "down_seg_check",
               up_seg_response |-> "up_seg_check"]

Response(s, type) ==
    /\ state = s /\ Answered /\ datagram.data.type = type

\* Mutated: uploads do what downloads do.
CheckAfterEmergencyUp == [CheckAgain EXCEPT !.down_seg_response = "down_check",
                                            !.up_seg_response = "up_check"]

\* After an emergency in place of a segment's response the state machine waits
\* for the response to the download request, which it has had.
CheckAfterEmergency == [CheckAgain EXCEPT !.down_seg_response = "down_check"]

PushEmergency ==
    /\ Answered /\ state \in DOMAIN CheckAgain
    /\ datagram.data.type = "emergency"
    /\ PushBegin(datagram.data.msg)
    /\ UNCHANGED fsmvars

EmergencyDone ==
    /\ PushEnd
    /\ Enter(CheckAfterEmergency[state], Check)
    /\ UNCHANGED <<expired, request, prog>>

\* A response that ends the transfer: the slave refuses, or the message is of
\* another protocol; an upload does not go on after any other response, either.
Refused ==
    /\ Answered /\ state \in DOMAIN CheckAgain
    /\ \/ datagram.data.type \in {"abort", "eoe"}
       \/ state = "up_response" /\ datagram.data.type \notin {"emergency", "up"}
    /\ End("error")
    /\ UNCHANGED <<expired, request, prog, ringvars>>

\* The response the state waits for, but for a response to another SDO.
Expected ==
    \/ Response("down_response", "down") /\ datagram.data.own
    \/ Response("up_response", "up") /\ datagram.data.own
    \/ Response("down_seg_response", "down_seg")
    \/ Response("up_seg_response", "up_seg")

\* Any other response: wait for the next one.
Unexpected ==
    /\ Answered /\ state \in DOMAIN CheckAgain /\ ~Expected
    /\ datagram.data.type \notin {"abort", "eoe", "emergency"}
    /\ state = "up_response" => datagram.data.type = "up"
    /\ Enter(CheckAgain[state], Check)
    /\ UNCHANGED <<expired, request, prog, ringvars>>

\* Mutated: the last segment is not sent.
DownloadEarly(remaining, toggle) ==
    /\ prog' = [prog EXCEPT !.remaining = remaining, !.toggle = toggle]
    /\ IF remaining <= 1 THEN End("end")
       ELSE /\ state' = "down_seg_check" /\ Send(DownSegment(remaining, toggle))
            /\ UNCHANGED retries
    /\ UNCHANGED <<expired, request, ringvars>>

\* The next segment, or the end.
Download(remaining, toggle) ==
    /\ prog' = [prog EXCEPT !.remaining = remaining, !.toggle = toggle]
    /\ IF remaining = 0 THEN End("end")
       ELSE /\ state' = "down_seg_check" /\ Send(DownSegment(remaining, toggle))
            /\ UNCHANGED retries
    /\ UNCHANGED <<expired, request, ringvars>>

DownResponse ==
    /\ Response("down_response", "down") /\ datagram.data.own
    /\ Download(prog.remaining, 0)

DownSegResponse ==
    /\ Response("down_seg_response", "down_seg")
    /\ \/ /\ datagram.data.toggle = prog.toggle
          /\ Download(prog.remaining - 1, 1 - prog.toggle)
       \/ /\ datagram.data.toggle # prog.toggle
          /\ End("error")
          /\ UNCHANGED <<expired, request, prog, ringvars>>

UpResponse ==
    /\ Response("up_response", "up") /\ datagram.data.own
    /\ request' = [request EXCEPT !.data = <<datagram.data.part>>]
    /\ prog' = [prog EXCEPT !.complete = datagram.data.size, !.toggle = 0]
    /\ IF datagram.data.size = 1 THEN End("end")
       ELSE Enter("up_seg_request", UpSegment(0))
    /\ UNCHANGED <<expired, ringvars>>

\* The toggle bit of the response is not looked at, and the size at the end is
\* only warned about.
UpSegResponse ==
    /\ Response("up_seg_response", "up_seg")
    /\ \/ /\ Len(request.data) = prog.complete
          /\ End("error")
          /\ UNCHANGED <<request, prog>>
       \/ /\ Len(request.data) < prog.complete
          /\ request' = [request EXCEPT !.data = Append(@, datagram.data.part)]
          /\ \/ datagram.data.last /\ End("end") /\ UNCHANGED prog
             \/ /\ ~datagram.data.last
                /\ prog' = [prog EXCEPT !.toggle = 1 - @]
                /\ Enter("up_seg_request", UpSegment(1 - prog.toggle))
    /\ UNCHANGED <<expired, ringvars>>

\* ec_fsm_coe_exec()
Exec ==
    /\ Busy /\ datagram.state # "sent"
    /\ \/ Retry \/ NotReceived \/ WrongCounter \/ Requested \/ Checked
       \/ PushEmergency \/ EmergencyDone \/ Refused \/ Unexpected
       \/ DownResponse \/ DownSegResponse \/ UpResponse \/ UpSegResponse
    /\ Outside

\* The application: ecrt_slave_config_emerg_pop() and _emerg_clear()
Application ==
    /\ PopBegin \/ PopEnd \/ ClearRing
    /\ UNCHANGED <<fsmvars, slavevars, troubles, emergs, disturbed, late, asked>>

Next ==
    \/ Start \/ Exec \/ Bus \/ Serve \/ Emergency \/ OtherAnswer \/ Theft
    \/ Expire \/ Application

Spec == Init /\ [][Next]_vars

\* The master's thread goes on and time passes; nothing is asked of the slave
\* and of the application.
FairSpec == Spec /\ WF_vars(Exec) /\ WF_vars(Bus) /\ WF_vars(Expire)

-----------------------------------------------------------------------------
TypeOK ==
    /\ state \in Terminal \cup DOMAIN CheckAfter \cup DOMAIN ResponseAfter
                 \cup DOMAIN CheckAgain
    /\ datagram.state \in {"none", "sent", "received", "timed_out", "error"}
    /\ retries \in 0 .. Retries /\ expired \in BOOLEAN
    /\ prog.toggle \in {0, 1} /\ prog.remaining \in Nat /\ prog.complete \in Nat
    /\ Len(tx) <= MaxQueue /\ server.type \in {"none", "down_seg", "up_seg"}
    /\ emergs \in {0} \cup Emerg /\ disturbed \in BOOLEAN /\ late \in BOOLEAN

Transfer == INSTANCE SdoTransfer WITH
    Values <- {Value(n, s) : n \in 0 .. MaxTransfers, s \in Sizes},
    NoValue <- <<>>, Torn <- MaxQueue > 1,
    phase <- CASE state = "idle" -> "none"
               [] state = "end" -> "success"
               [] state = "error" -> "failure"
               [] OTHER -> "busy",
    dir <- request.dir,
    wanted <- IF request.dir = "down" THEN request.data ELSE <<>>,
    result <- IF request.dir = "up" /\ state = "end" THEN request.data ELSE <<>>

\* The slave's object holds whole values only, and a transfer that ends with
\* success has transferred all of it, whatever was lost, written twice, refused
\* or read by others, unless an earlier transfer's answer came late; if several
\* answers fit into the slave, a late transfer may also leave a mixed value.
TransferSpec == Transfer!Spec

\* An upload that nothing has disturbed does not fail: emergency messages and
\* late answers to other uploads are taken out of the mailbox, and it goes on.
UploadUndisturbed ==
    state = "error" /\ request.dir = "up" => disturbed

\* The same of downloads, too.
TransferUndisturbed == state = "error" => disturbed

\* Every transfer ends.
Ends == Busy ~> ~Busy
=============================================================================
