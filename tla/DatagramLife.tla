----------------------------- MODULE DatagramLife -----------------------------
(***************************************************************************)
(* What the datagram layer of the master promises to the owner of a        *)
(* datagram (ec_datagram_state_t, master/datagram.h): the abstract         *)
(* specification that DatagramQueue is shown to implement.                 *)
(*                                                                         *)
(* An owner prepares a datagram and submits it; from then on it is the     *)
(* master that moves it, and an outcome once reached stays until the owner *)
(* prepares or submits the datagram again.  In particular a datagram that  *)
(* timed out never turns into a received one because its frame comes late, *)
(* and a datagram that is queued or sent is not prepared under the feet of *)
(* the master.  Only the cyclic datagrams of the application may be        *)
(* submitted again while they are still on the wire, and only those of the *)
(* distributed clocks may be sent, or fail, although re-initialised.       *)
(***************************************************************************)
EXTENDS Naturals

CONSTANTS
    Datagrams,      \* all datagram objects
    Cyclic,         \* those queued by the application every cycle
    Clocks          \* those of them the master FSM re-initialises meanwhile

VARIABLE state      \* datagram->state

States == {"INIT", "QUEUED", "SENT", "RECEIVED", "TIMED_OUT", "ERROR"}

\* The states in which the master owns the datagram.
Pending == {"QUEUED", "SENT"}

\* The outcomes, which nothing but the owner ends.
Settled == {"RECEIVED", "TIMED_OUT", "ERROR"}

Init == state = [d \in Datagrams |-> "INIT"]

-----------------------------------------------------------------------------
(* Moves of the owner. *)

Prepare(d) ==
    /\ state[d] \in Settled \cup {"INIT"} \/ d \in Cyclic
    /\ state' = [state EXCEPT ![d] = "INIT"]

Submit(d) ==
    /\ state[d] \in Settled \cup {"INIT"} \/ d \in Cyclic
    /\ state' = [state EXCEPT ![d] = "QUEUED"]

(* Moves of the master. *)

Transmit(S) ==
    /\ \A d \in S : state[d] = "QUEUED" \/ (d \in Clocks /\ state[d] = "INIT")
    /\ state' = [d \in Datagrams |-> IF d \in S THEN "SENT" ELSE state[d]]

Answer(d) ==
    /\ state[d] = "SENT"
    /\ state' = [state EXCEPT ![d] = "RECEIVED"]

Expire(d) ==
    /\ state[d] = "SENT"
    /\ state' = [state EXCEPT ![d] = "TIMED_OUT"]

\* No link, or no room for the datagram.
Fail(d) ==
    /\ state[d] \in Pending \/ (d \in Clocks /\ state[d] = "INIT")
    /\ state' = [state EXCEPT ![d] = "ERROR"]

Next ==
    \/ \E d \in Datagrams :
          Prepare(d) \/ Submit(d) \/ Answer(d) \/ Expire(d) \/ Fail(d)
    \/ \E S \in SUBSET Datagrams : Transmit(S)

Spec == Init /\ [][Next]_state
=============================================================================
