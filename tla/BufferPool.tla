----------------------------- MODULE BufferPool ------------------------------
(***************************************************************************)
(* What the buffer calls of the display library promise their client: a    *)
(* buffer it was given has memory of its own, which is not given out again *)
(* before the client gives the buffer back.                                *)
(***************************************************************************)
EXTENDS FiniteSets

CONSTANTS Bufs, Objects

VARIABLES
  owned,   (* owned[b]: the memory of a buffer the client has, else {}      *)
  inUse    (* the memory that is not free                                   *)

poolVars == <<owned, inUse>>

Init == owned = [b \in Bufs |-> {}] /\ inUse = {}

Take(o) ==
  /\ o \notin inUse
  /\ inUse' = inUse \cup {o}
  /\ UNCHANGED owned

Give(b, S) ==
  /\ owned[b] = {}
  /\ S \subseteq inUse
  /\ \A c \in Bufs : S \cap owned[c] = {}
  /\ owned' = [owned EXCEPT ![b] = S]
  /\ UNCHANGED inUse

Withdraw(b) ==
  /\ owned' = [owned EXCEPT ![b] = {}]
  /\ UNCHANGED inUse

Release(S) ==
  /\ \A c \in Bufs : S \cap owned[c] = {}
  /\ inUse' = inUse \ S
  /\ UNCHANGED owned

Next ==
  \/ \E o \in Objects : Take(o)
  \/ \E S \in SUBSET Objects : Release(S)
  \/ \E b \in Bufs : Withdraw(b) \/ \E S \in SUBSET Objects : Give(b, S)

Spec == Init /\ [][Next]_poolVars

-----------------------------------------------------------------------------
(* No two buffers share memory, and the memory of a buffer is in use.      *)
Exclusive ==
  /\ \A b, c \in Bufs : b # c => owned[b] \cap owned[c] = {}
  /\ \A b \in Bufs : owned[b] \subseteq inUse
=============================================================================
