---------------------------- MODULE AtomicRequest ----------------------------
(***************************************************************************)
(* What a commit promises the caller that filled a request: one step, in   *)
(* which the kernel takes for every property of the request a value that   *)
(* the caller set for it, and the last one if the list is so short that    *)
(* its sort keeps equal items in order; or an error and no effect at all.  *)
(***************************************************************************)
EXTENDS Integers, Sequences

CONSTANTS Item, StableUpTo, MaxItems

VARIABLES
  side,     (* "caller" fills the request, "done": the commit has returned  *)
  req,      (* the property sets of the request                             *)
  applied,  (* the properties the kernel changed, with their new values     *)
  ret       (* the commit's result                                          *)

atomicVars == <<side, req, applied, ret>>

Keys       == {<<req[k].obj, req[k].prop>> : k \in DOMAIN req}
SetsOf(key) == {k \in DOMAIN req : <<req[k].obj, req[k].prop>> = key}
NoChange   == [key \in {} |-> 0]

(* f gives every property of the request a value that was set for it.      *)
Outcome(f) ==
  /\ DOMAIN f = Keys
  /\ \A key \in Keys : \E k \in SetsOf(key) :
       /\ f[key] = req[k].val
       /\ Len(req) <= StableUpTo => \A m \in SetsOf(key) : m <= k

Init == side = "caller" /\ req = <<>> /\ applied = NoChange /\ ret = 0

AddProperty(it) ==
  /\ side = "caller" /\ Len(req) < MaxItems
  /\ req' = Append(req, it)
  /\ UNCHANGED <<side, applied, ret>>

Commit ==
  /\ side = "caller" /\ side' = "done"
  /\ \/ ret' = 0 /\ Outcome(applied')
     \/ ret' \in Int \ Nat /\ applied' = NoChange
  /\ UNCHANGED req

FreeRequest ==
  /\ side = "done" /\ side' = "caller"
  /\ req' = <<>> /\ applied' = NoChange /\ ret' = 0

Next == \/ \E it \in Item : AddProperty(it)
        \/ Commit
        \/ FreeRequest

Spec == Init /\ [][Next]_atomicVars

-----------------------------------------------------------------------------
(* A commit that fails has changed nothing, and one that succeeds leaves   *)
(* the kernel with a value of the caller's for each of its properties.     *)
AllOrNothing ==
  IF side = "done" /\ ret = 0 THEN Outcome(applied) ELSE applied = NoChange
=============================================================================
