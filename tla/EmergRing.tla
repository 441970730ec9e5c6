------------------------------ MODULE EmergRing ------------------------------
(***************************************************************************)
(* The ring buffer of CoE emergency messages (master/coe_emerg_ring.c).    *)
(*                                                                         *)
(* The CoE state machine pushes what the slave sends, in the master's      *)
(* thread; the application pops and clears in its own, without a lock.     *)
(* The ring has one element more than its size, so that a full one and an  *)
(* empty one differ.  A push and a pop are two steps each: the message is  *)
(* copied first, and the index that makes the other side see it is moved   *)
(* then.  The ring is sized before the master is activated                 *)
(* (include/ecrt.h), so sizing is no step here.                            *)
(***************************************************************************)
EXTENDS Integers, Sequences

CONSTANTS
    RingSize,   \* messages the application asked for, zero by default
    Emerg,      \* the emergency messages
    NULL

ASSUME RingAssumption == RingSize \in Nat /\ NULL \notin Emerg

VARIABLES
    msgs, read_index, write_index, overruns,
    pushing,        \* none, or whether a begun push stores its message
    popping,        \* NULL, or the message a begun pop has copied
    kept,           \* history: messages pushed and neither popped nor cleared
    owed            \* history: messages fetched and not popped since the clear

ringvars == <<msgs, read_index, write_index, overruns, pushing, popping, kept,
              owed>>

Slots == 0 .. RingSize
After(i) == (i + 1) % (RingSize + 1)

RingInit ==
    /\ msgs = [i \in Slots |-> NULL]
    /\ read_index = 0 /\ write_index = 0 /\ overruns = 0
    /\ pushing = "none" /\ popping = NULL
    /\ kept = <<>> /\ owed = 0

\* Mutated: the full ring is not noticed.
PushBeginAlways(m) ==
    /\ pushing = "none"
    /\ owed' = owed + 1
    /\ pushing' = "stored"
    /\ msgs' = [msgs EXCEPT ![write_index] = m]
    /\ UNCHANGED <<read_index, write_index, overruns, popping, kept>>

\* ec_coe_emerg_ring_push() up to the copy of the message
PushBegin(m) ==
    /\ pushing = "none"
    /\ owed' = owed + 1
    /\ \/ /\ After(write_index) = read_index
          /\ pushing' = "overrun"
          /\ UNCHANGED msgs
       \/ /\ After(write_index) # read_index
          /\ pushing' = "stored"
          /\ msgs' = [msgs EXCEPT ![write_index] = m]
    /\ UNCHANGED <<read_index, write_index, overruns, popping, kept>>

PushEnd ==
    /\ \/ /\ pushing = "overrun"
          /\ overruns' = overruns + 1
          /\ UNCHANGED <<write_index, kept>>
       \/ /\ pushing = "stored"
          /\ write_index' = After(write_index)
          /\ kept' = Append(kept, msgs[write_index])
          /\ UNCHANGED overruns
    /\ pushing' = "none"
    /\ UNCHANGED <<msgs, read_index, popping, owed>>

PopBegin ==
    /\ popping = NULL
    /\ read_index # write_index
    /\ popping' = msgs[read_index]
    /\ UNCHANGED <<msgs, read_index, write_index, overruns, pushing, kept,
                   owed>>

PopEnd ==
    /\ popping # NULL
    /\ read_index' = After(read_index)
    /\ popping' = NULL
    /\ kept' = Tail(kept)
    /\ owed' = owed - 1
    /\ UNCHANGED <<msgs, write_index, overruns, pushing>>

\* The application's thread, so never within a pop, but maybe within a push,
\* which then counts to the time after the clear.
ClearRing ==
    /\ popping = NULL
    /\ read_index' = write_index
    /\ overruns' = 0
    /\ kept' = <<>>
    /\ owed' = (IF pushing = "none" THEN 0 ELSE 1)
    /\ UNCHANGED <<msgs, write_index, pushing, popping>>

RingNext ==
    \/ \E m \in Emerg : PushBegin(m)
    \/ PushEnd \/ PopBegin \/ PopEnd \/ ClearRing

-----------------------------------------------------------------------------
\* The slot of the i-th message kept.
Slot(i) == (read_index + i - 1) % (RingSize + 1)

\* The application is given the messages in the order they came in, each once
\* and whole, although the two sides share the ring without a lock; and since
\* the last clear every message it has not been given is kept for it, is being
\* pushed, or is counted as an overrun.
RingIntact ==
    /\ Len(kept) <= RingSize
    /\ Slot(Len(kept) + 1) = write_index
    /\ \A i \in 1 .. Len(kept) : msgs[Slot(i)] = kept[i]
    /\ popping # NULL => kept # <<>> /\ popping = Head(kept)
    /\ owed = Len(kept) + overruns + (IF pushing = "none" THEN 0 ELSE 1)
=============================================================================
