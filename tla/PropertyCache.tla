---------------------------- MODULE PropertyCache ----------------------------
(***************************************************************************)
(* The copy of a kernel property that struct mesonProperty keeps           *)
(* (src/meson/libdrm_meson_property.c): its value, its type, and copies of *)
(* its arrays of values, enumeration entries and blob numbers.             *)
(***************************************************************************)
EXTENDS Naturals, FiniteSets

CONSTANTS
  Kernels,     (* what the properties of an object may be, see below        *)
  Others,      (* properties that come before it in the object's list       *)
  MaxCalls, MaxChanges   (* bounds                                          *)

(* A property that is there has a type, the arrays of that type, a value,  *)
(* and possibly the flag that it cannot be written.                        *)
Kinds  == {"range", "signed range", "enum", "blob", "bitmask"}
Arrays == {"values", "enums", "blobs"}
KernelsFit ==
  /\ Others \in Nat
  /\ \A k \in Kernels :
       /\ k.there \in BOOLEAN /\ k.kind \in Kinds
       /\ k.immutable \in BOOLEAN
       /\ k.arrays \subseteq Arrays
       /\ k.kind \in {"range", "signed range"} => "values" \in k.arrays
       /\ k.value \in Nat

VARIABLES
  kernel,      (* the property                                              *)
  pc, i,       (* where the call is, and its loop                           *)
  snap,        (* what drmModeObjectGetProperties gave                      *)
  prop,        (* the struct                                                *)
  heap,        (* allocated blocks                                          *)
  fresh,       (* history: the last create or update copied the property    *)
  failed,      (* history: an allocation failed since the last good copy    *)
  calls, changes

None == [there |-> FALSE, kind |-> "range", type |-> {}, arrays |-> {}, value |-> 0]

Init ==
  /\ kernel \in Kernels
  /\ pc = "idle" /\ i = 0
  /\ snap = kernel /\ prop = None /\ heap = {} /\ fresh = FALSE
  /\ failed = FALSE /\ calls = 0 /\ changes = 0

Change(k) ==
  /\ changes < MaxChanges
  /\ kernel' = k /\ changes' = changes + 1
  /\ k.kind = kernel.kind /\ k.immutable = kernel.immutable
  /\ UNCHANGED <<pc, i, snap, prop, heap, fresh, failed, calls>>

Live == "property" \in heap
Call(there) ==
  /\ pc = "idle" /\ calls < MaxCalls
  /\ calls' = calls + 1
  /\ pc' = there

-----------------------------------------------------------------------------
(* mesonPropertyCreate: an object without properties, or memory for one of *)
(* the two structs, may be missing.                                        *)
Create ==
  /\ ~Live
  /\ \/ /\ Call("create") /\ i' = 0 /\ snap' = kernel
        /\ heap' = {"property", "prop_ptr"}
     \/ Call("idle") /\ UNCHANGED <<i, snap, heap>>
  /\ UNCHANGED <<kernel, prop, fresh, failed, changes>>

(* One round of the loop over another property, in both functions: it is   *)
(* freed, or could not be read.                                            *)
PassOther ==
  /\ pc \in {"create", "update"} /\ i < Others
  /\ i' = i + 1
  /\ UNCHANGED <<kernel, pc, snap, prop, heap, fresh, failed, calls, changes>>

(* The type as lines 76-86 keep it, without other flags, if it is one of   *)
(* four, and as line 169 does.                                             *)
Flags(k) == {k.kind} \cup (IF k.immutable THEN {"immutable"} ELSE {})
TypeOf(k) == IF k.kind = "bitmask" THEN Flags(k) ELSE {k.kind}

(* Mutant: the value is not read anew.                                     *)
OldValue(k) == IF prop.there THEN prop.value ELSE k.value

ValueOf(k) == k.value

(* What is left when the old copies of the arrays are freed.               *)
Kept == heap \ Arrays

(* The property itself: its struct is copied, and each array as far as     *)
(* there is memory.                                                        *)
Copy(here, type) ==
  /\ pc = here /\ i = Others
  /\ snap.there
  /\ \E got \in SUBSET snap.arrays :
       /\ prop' = [there |-> TRUE, kind |-> snap.kind, type |-> type, arrays |-> got,
                   value |-> ValueOf(snap)]
       /\ heap' = Kept \cup got
       /\ failed' = (got # snap.arrays) /\ fresh' = TRUE
  /\ pc' = "idle"
  /\ UNCHANGED <<kernel, i, snap, calls, changes>>

CreateFound == Copy("create", TypeOf(snap))
UpdateFound == Copy("update", Flags(snap))

(* What mesonPropertyCreate leaves when it returns NULL.                   *)
LeftOnError == heap \ {"property", "prop_ptr"}

(* It is not in the list, or cannot be read.                               *)
CreateNotFound ==
  /\ pc = "create" /\ i = Others
  /\ heap' = LeftOnError
  /\ pc' = "idle"
  /\ UNCHANGED <<kernel, i, snap, prop, fresh, failed, calls, changes>>

(* mesonPropertyUpdateValue: the copy stays as it is.                      *)
UpdateNotFound ==
  /\ pc = "update" /\ i = Others
  /\ pc' = "idle" /\ fresh' = FALSE
  /\ UNCHANGED <<kernel, i, snap, prop, heap, failed, calls, changes>>

UpdateValue ==
  /\ Live
  /\ \/ Call("update") /\ i' = 0 /\ snap' = kernel
     \/ Call("idle") /\ UNCHANGED <<i, snap>>
  /\ fresh' = FALSE
  /\ UNCHANGED <<kernel, prop, heap, failed, changes>>

(* drmModeFreeProperty takes the values and entries with it.               *)
Destroy ==
  /\ Live /\ Call("idle")
  /\ heap' = heap \ ({"property", "prop_ptr"} \cup {"blobs"} \cup {"values", "enums"})
  /\ prop' = None /\ failed' = FALSE
  /\ UNCHANGED <<kernel, i, snap, fresh, changes>>

-----------------------------------------------------------------------------
HasRange == prop.kind \in {"range", "signed range"}

(* mesonPropertyGetRange: two members of an array that may be NULL.        *)
GetRange ==
  /\ Live /\ HasRange
  /\ Call(IF "values" \in prop.arrays THEN "idle" ELSE "crashed")
  /\ UNCHANGED <<kernel, i, snap, prop, heap, fresh, failed, changes>>

(* mesonPropertyGetBlobData: a copy for the caller, who is not told if     *)
(* there is no memory for it.                                              *)
GetBlobData ==
  /\ Live /\ prop.kind = "blob"
  /\ Call("idle")
  /\ UNCHANGED <<kernel, i, snap, prop, heap, fresh, failed, changes>>

(* mesonPropertyGetEnumTypes lends the caller the copy.                    *)
GetEnumTypes ==
  /\ Live /\ prop.kind = "enum"
  /\ Call("idle")
  /\ UNCHANGED <<kernel, i, snap, prop, heap, fresh, failed, changes>>

Rewrite == \E k \in Kernels : Change(k)

Step ==
  \/ Create \/ PassOther \/ CreateFound \/ CreateNotFound
  \/ UpdateValue \/ UpdateFound \/ UpdateNotFound \/ Destroy
  \/ GetRange \/ GetBlobData \/ GetEnumTypes

-----------------------------------------------------------------------------
(* Every variable has its type.                                            *)
TypeOK ==
  /\ kernel \in Kernels /\ snap \in Kernels
  /\ pc \in {"idle", "create", "update", "crashed"}
  /\ heap \subseteq {"property", "prop_ptr"} \cup Arrays
  /\ prop.arrays \subseteq Arrays /\ prop.there = (Live /\ pc # "create")
  /\ i \in 0 .. Others /\ fresh \in BOOLEAN /\ failed \in BOOLEAN
  /\ calls \in 0 .. MaxCalls /\ changes \in 0 .. MaxChanges

(* Between calls the heap holds the struct, if there is one, and exactly   *)
(* the arrays it points to, whatever could not be read or allocated, and   *)
(* however often the copy was renewed.                                     *)
HeapIsProp == pc = "idle" =>
  heap = prop.arrays \cup (IF prop.there THEN {"property", "prop_ptr"} ELSE {})

(* A copy with which nothing went wrong has the arrays of its type and the *)
(* value of the last read.                                                 *)
CopyIsRead == pc = "idle" /\ prop.there /\ fresh /\ ~failed =>
  prop.value = snap.value /\ prop.arrays = snap.arrays

(* mesonPropertyGetRange follows a null pointer only if memory was short   *)
(* when the copy was made.                                                 *)
CrashNeedsFault == pc = "crashed" => failed
=============================================================================
