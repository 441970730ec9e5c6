----------------------------- MODULE SdoTransfer -----------------------------
(***************************************************************************)
(* What a blocking SDO transfer promises to its caller                     *)
(* (ecrt_master_sdo_download() and ecrt_master_sdo_upload() in             *)
(* include/ecrt.h): the abstract specification that Coe is shown to        *)
(* implement.                                                              *)
(*                                                                         *)
(* The object in the slave always holds one whole value: the initial one,  *)
(* or one that a download asked for, however many segments it took.  A     *)
(* transfer that ends with success is done: after a download the object    *)
(* holds the wanted value, an upload has given the whole value of the      *)
(* object.  A transfer that fails promises nothing, and the value of a     *)
(* failed download may still be written later.  The one exception is late: *)
(* the transfer began with answers to an earlier one still to come, which  *)
(* the protocol cannot tell from its own.  If the slave can hold several   *)
(* answers (Torn), they may acknowledge segments that never arrived, so    *)
(* that a late download writes a value no download asked for.              *)
(***************************************************************************)
CONSTANTS
    Values,     \* the values an object can have
    NoValue,
    Torn        \* a late transfer may write parts of different values

VARIABLES
    phase,      \* none, busy, success or failure
    dir,        \* direction of the last transfer: up or down
    asked,      \* the values downloads have asked for
    wanted,     \* the value the last download asked for
    late,       \* an earlier transfer's answer may be taken for this one's
    object,     \* the value in the slave
    result      \* what a finished upload has given

svars == <<phase, dir, asked, wanted, late, object, result>>

Init ==
    /\ phase = "none" /\ dir = "up" /\ late = FALSE
    /\ asked = {} /\ wanted = NoValue /\ result = NoValue
    /\ object \in Values

Start ==
    /\ phase # "busy" /\ phase' = "busy"
    /\ dir' \in {"up", "down"} /\ late' \in BOOLEAN
    /\ \/ dir' = "up" /\ wanted' = NoValue /\ asked' = asked
       \/ dir' = "down" /\ wanted' \in Values /\ asked' = asked \cup {wanted'}
    /\ result' = NoValue
    /\ UNCHANGED object

\* The slave has all of a value.
Write ==
    /\ object' \in asked \/ (Torn /\ late)
    /\ UNCHANGED <<phase, dir, asked, wanted, late, result>>

Succeed ==
    /\ phase = "busy" /\ phase' = "success"
    /\ \/ late
       \/ dir = "down" /\ object = wanted /\ result' = NoValue
       \/ dir = "up" /\ result' = object
    /\ UNCHANGED <<dir, asked, wanted, late, object>>

Fail ==
    /\ phase = "busy" /\ phase' = "failure"
    /\ UNCHANGED <<dir, asked, wanted, late, object, result>>

Next == Start \/ Write \/ Succeed \/ Fail

Spec == Init /\ [][Next]_svars
=============================================================================
