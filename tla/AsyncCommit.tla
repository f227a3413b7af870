----------------------------- MODULE AsyncCommit -----------------------------
(***************************************************************************)
(* drmModeAsyncAtomicCommit of src/meson/meson_drm_async_commit.c.         *)
(*                                                                         *)
(* A caller collects property sets <<object, property, value>> in a        *)
(* request and commits it.  The function copies the list, sorts the copy,  *)
(* removes duplicate sets while it counts the objects, allocates four      *)
(* arrays of the sizes it counted, and in a second loop spreads the list   *)
(* over the arrays that the ioctl DRM_IOCTL_MESON_ASYNC_ATOMIC reads.      *)
(*                                                                         *)
(* Positions are counted from 1 (the C code counts from 0): i = 1 is the   *)
(* first item, objIdx = 0 is the -1 that obj_idx starts with.              *)
(* sorted->items[0 .. sorted->cursor-1] is the sequence items, so          *)
(* sorted->cursor is Len(items).                                           *)
(***************************************************************************)
EXTENDS Integers, Sequences, FiniteSets, Functions

CONSTANTS
  Objects,     (* ids of KMS objects: planes, CRTCs, connectors             *)
  Properties,  (* ids of their properties                                   *)
  Values,      (* property values                                           *)
  Half,        (* 2^31: sort_req_list subtracts uint32_t, returns int       *)
  StableUpTo,  (* this C library's qsort keeps equal items in order in      *)
               (* lists up to this length: glibc's merge sort does, and     *)
               (* gives way to quicksort when its buffer gets too large     *)
  MaxItems     (* bound: the sets a caller puts in one request              *)

(* libdrm refuses the ids 0 in drmModeAtomicAddProperty, and the kernel    *)
(* numbers objects and properties from 1 up, far below 2^31.               *)
ASSUME IdAssumption ==
  /\ Half \in Nat \ {0}
  /\ Objects \subseteq 1 .. (2 * Half - 1)
  /\ Properties \subseteq 1 .. (Half - 1)
  /\ StableUpTo \in Nat
  /\ MaxItems \in Nat

Item == [obj : Objects, prop : Properties, val : Values]

EINVAL == 22
ENOMEM == 12
EBUSY  == 16   (* stands for any error of the ioctl *)

VARIABLES
  pc,          (* the point drmModeAsyncAtomicCommit has reached            *)
  req,         (* the caller's request                                      *)
  items,       (* the sorted copy                                           *)
  i,           (* loop index of both loops                                  *)
  countObjs,   (* atomic.count_objs                                         *)
  lastObj,     (* last_obj_id                                               *)
  objIdx,      (* obj_idx + 1                                               *)
  objs,        (* objs_ptr[]                                                *)
  countProps,  (* count_props_ptr[]                                         *)
  props,       (* props_ptr[]                                               *)
  propVals,    (* prop_values_ptr[]                                         *)
  ret          (* the function's result                                     *)

loop   == <<i, countObjs, lastObj, objIdx>>
arrays == <<objs, countProps, props, propVals>>
vars   == <<pc, req, items, loop, arrays, ret>>

PCs == {"caller", "dedupe", "alloc", "flatten", "ioctl", "done"}

Key(it) == <<it.obj, it.prop>>

(***************************************************************************)
(* The comparison of sort_req_list.  second->property_id -                 *)
(* first->property_id is computed modulo 2^32 and returned as an int.      *)
(***************************************************************************)
AsInt(d) ==
  LET u == IF d < 0 THEN d + 2 * Half ELSE d
  IN  IF u >= Half THEN u - 2 * Half ELSE u

Compare(first, second) ==
  IF first.obj < second.obj THEN -1
  ELSE IF first.obj > second.obj THEN 1
  ELSE AsInt(second.prop - first.prop)

(* The orders qsort may leave the list s in: t[k] = s[p[k]].               *)
SortOrders(s) ==
  {p \in Bijection(DOMAIN s, DOMAIN s) :
     \A j, k \in DOMAIN s : j < k =>
       /\ Compare(s[p[j]], s[p[k]]) <= 0
       /\ Len(s) <= StableUpTo /\ Compare(s[p[j]], s[p[k]]) = 0 => p[j] < p[k]}

(* Mutant: removes the later of two equal items.                           *)
WithoutNext(s, n) ==
  [k \in 1 .. (Len(s) - 1) |-> IF k <= n THEN s[k] ELSE s[k + 1]]

(* memmove of the tail over item n, and the cursor taken back by one.      *)
Without(s, n) ==
  [k \in 1 .. (Len(s) - 1) |-> IF k < n THEN s[k] ELSE s[k + 1]]

-----------------------------------------------------------------------------
Init ==
  /\ pc = "caller"
  /\ req = <<>> /\ items = <<>>
  /\ i = 1 /\ countObjs = 0 /\ lastObj = 0 /\ objIdx = 0
  /\ objs = <<>> /\ countProps = <<>> /\ props = <<>> /\ propVals = <<>>
  /\ ret = 0

(* The caller: libdrm's drmModeAtomicAddProperty appends to the request.   *)
AddProperty(it) ==
  /\ pc = "caller"
  /\ Len(req) < MaxItems
  /\ req' = Append(req, it)
  /\ UNCHANGED <<pc, items, loop, arrays, ret>>

(* No request, an empty one, or no memory for the copy: nothing is sent.   *)
ReturnEarly ==
  /\ pc = "caller"
  /\ pc' = "done"
  /\ \/ ret' = -EINVAL                   \* drmModeAtomicAlloc gave NULL
     \/ Len(req) = 0 /\ ret' = 0
     \/ Len(req) > 0 /\ ret' = -ENOMEM
  /\ UNCHANGED <<req, items, loop, arrays>>

(* Duplicate the list and qsort the copy.                                  *)
Sort ==
  /\ pc = "caller"
  /\ Len(req) > 0
  /\ \E p \in SortOrders(req) : items' = [k \in DOMAIN req |-> req[p[k]]]
  /\ i' = 1 /\ countObjs' = 0 /\ lastObj' = 0 /\ objIdx' = 0
  /\ objs' = <<>> /\ countProps' = <<>> /\ props' = <<>> /\ propVals' = <<>>
  /\ ret' = -1           \* what `goto out` returns
  /\ pc' = "dedupe"
  /\ UNCHANGED req

(* Mutants: && for || in the test of lines 97-98, and i one short.         *)
SameProperty(n)    == n < Len(items) /\ items[n].prop = items[n + 1].prop
SameAsNextShort(n) == n < Len(items) - 1 /\ Key(items[n]) = Key(items[n + 1])

SameAsNext(n) ==
  /\ n < Len(items)
  /\ Key(items[n]) = Key(items[n + 1])

NewObject == items[i].obj # lastObj

(* Mutant: an object is not counted at an item that is removed.            *)
CountedIfKept ==
  IF NewObject /\ ~SameAsNext(i) THEN countObjs + 1 ELSE countObjs

Counted == IF NewObject THEN countObjs + 1 ELSE countObjs

(* Mutant: the last item's "continue" does not advance i.                  *)
StuckAtLast == IF i = Len(items) THEN i ELSE i + 1

NextIndex == i + 1

(* One round of the first loop.                                            *)
Dedupe ==
  /\ pc = "dedupe"
  /\ i <= Len(items)
  /\ countObjs' = Counted
  /\ lastObj' = items[i].obj
  /\ items' = IF SameAsNext(i) THEN Without(items, i) ELSE items
  /\ i' = NextIndex
  /\ UNCHANGED <<pc, req, objIdx, arrays, ret>>

DedupeEnd ==
  /\ pc = "dedupe"
  /\ i > Len(items)
  /\ pc' = "alloc"
  /\ UNCHANGED <<req, items, loop, arrays, ret>>

Zeros(n) == [k \in 1 .. n |-> 0]

(* Mutant: last_obj_id is not cleared for the second loop.                 *)
RestartKeepingObject == i' = 1 /\ UNCHANGED lastObj

Restart == i' = 1 /\ lastObj' = 0

(* The four drmMalloc calls; any may fail, which leaves ret at -1.         *)
AllocArrays ==
  /\ pc = "alloc"
  /\ \/ /\ objs' = Zeros(countObjs) /\ countProps' = Zeros(countObjs)
        /\ props' = Zeros(Len(items)) /\ propVals' = Zeros(Len(items))
        /\ Restart
        /\ pc' = "flatten"
     \/ pc' = "done" /\ UNCHANGED <<arrays, i, lastObj>>
  /\ UNCHANGED <<req, items, countObjs, objIdx, ret>>

(* The array slot the next round of the second loop writes to.             *)
NextSlot == IF NewObject THEN objIdx + 1 ELSE objIdx

(* One round of the second loop.                                           *)
Flatten ==
  /\ pc = "flatten"
  /\ i <= Len(items)
  /\ objIdx' = NextSlot
  /\ lastObj' = items[i].obj
  /\ objs' = [objs EXCEPT ![NextSlot] = items[i].obj]
  /\ countProps' = [countProps EXCEPT ![NextSlot] = @ + 1]
  /\ props' = [props EXCEPT ![i] = items[i].prop]
  /\ propVals' = [propVals EXCEPT ![i] = items[i].val]
  /\ i' = NextIndex
  /\ UNCHANGED <<pc, req, items, countObjs, ret>>

FlattenEnd ==
  /\ pc = "flatten"
  /\ i > Len(items)
  /\ pc' = "ioctl"
  /\ UNCHANGED <<req, items, loop, arrays, ret>>

(* Mutant: errno where -errno is meant.                                    *)
PositiveResults == {0, EBUSY}

IoctlResults == {0, -EBUSY}

(* The kernel takes the arrays or refuses them.                            *)
Ioctl ==
  /\ pc = "ioctl"
  /\ ret' \in IoctlResults
  /\ pc' = "done"
  /\ UNCHANGED <<req, items, loop, arrays>>

(* The caller frees its request and goes on to the next one.               *)
FreeRequest ==
  /\ pc = "done"
  /\ pc' = "caller"
  /\ req' = <<>> /\ items' = <<>>
  /\ i' = 1 /\ countObjs' = 0 /\ lastObj' = 0 /\ objIdx' = 0
  /\ objs' = <<>> /\ countProps' = <<>> /\ props' = <<>> /\ propVals' = <<>>
  /\ ret' = 0

Commit == \/ Sort \/ Dedupe \/ DedupeEnd \/ AllocArrays
          \/ Flatten \/ FlattenEnd \/ Ioctl

Next == \/ \E it \in Item : AddProperty(it)
        \/ ReturnEarly
        \/ Commit
        \/ FreeRequest

Spec == Init /\ [][Next]_vars

(* The function runs on; its caller may stop.                              *)
FairSpec == Spec /\ WF_vars(Commit)

-----------------------------------------------------------------------------
(* Every variable has its type, the request fits its bound, and an error   *)
(* is negative, which is what kms_post_buf tests for.                      *)
TypeOK ==
  /\ pc \in PCs
  /\ req \in Seq(Item) /\ Len(req) <= MaxItems
  /\ items \in Seq(Item)
  /\ i \in Nat \ {0} /\ countObjs \in Nat /\ objIdx \in Nat
  /\ lastObj \in Nat
  /\ objs \in Seq(Nat) /\ countProps \in Seq(Nat)
  /\ props \in Seq(Nat) /\ propVals \in Seq(Values \cup {0})
  /\ ret \in {0, -1, -EINVAL, -ENOMEM, -EBUSY}

(* The second loop writes inside the arrays that were sized by the counts  *)
(* of the first loop (lines 88-104 against lines 130-141): obj_idx is an   *)
(* index of objs_ptr and count_props_ptr, i one of the other two.          *)
WritesInBounds ==
  pc = "flatten" /\ i <= Len(items) =>
    /\ NextSlot \in DOMAIN objs
    /\ NextSlot \in DOMAIN countProps
    /\ i \in DOMAIN props
    /\ i \in DOMAIN propVals

KeysOf(s) == {Key(s[k]) : k \in DOMAIN s}

(* Sorting and removing duplicates neither drops a property the caller     *)
(* set, nor adds one it did not set, nor gives one a value that the caller *)
(* did not give it (lines 83-104).                                         *)
RequestPreserved ==
  pc \in {"dedupe", "alloc", "flatten", "ioctl"} =>
    /\ KeysOf(items) = KeysOf(req)
    /\ Range(items) \subseteq Range(req)

(* What the kernel reads: object o owns the next countProps[o] entries,    *)
(* which are those from Upto[o - 1] + 1 to Upto[o].                        *)
Upto[o \in 0 .. Len(countProps)] ==
  IF o = 0 THEN 0 ELSE Upto[o - 1] + countProps[o]

Decoded ==
  [k \in DOMAIN props |->
     [obj  |-> objs[CHOOSE o \in DOMAIN objs : k \in (Upto[o - 1] + 1) .. Upto[o]],
      prop |-> props[k], val |-> propVals[k]]]

(* The four arrays say the same as the list they were made from, each      *)
(* object has one slot, and the slots counted are the slots filled.        *)
ArraysDecodeToList ==
  pc = "ioctl" =>
    /\ objIdx = countObjs
    /\ IsInjective(objs)
    /\ Upto[Len(countProps)] = Len(items)
    /\ Decoded = items

CountOf(s, key) == Cardinality({k \in DOMAIN s : Key(s[k]) = key})

(* A property set n times is sent half as often, rounded up: the loop      *)
(* steps over the item that takes the place of the one it removed.         *)
DedupeHalves ==
  pc = "alloc" =>
    \A key \in KeysOf(req) :
      CountOf(items, key) = (CountOf(req, key) + 1) \div 2

(* "Now the list is sorted, eliminate duplicate property sets." (line 87)  *)
DuplicatesEliminated ==
  pc = "alloc" => \A key \in KeysOf(req) : CountOf(items, key) = 1

LastWith(s, key) ==
  s[CHOOSE k \in DOMAIN s :
      /\ Key(s[k]) = key
      /\ \A m \in DOMAIN s : Key(s[m]) = key => m <= k]

(* With a qsort that keeps equal items in order, the kernel, which applies *)
(* the entries in order, ends with the value the caller set last.          *)
LastSetWins ==
  pc = "ioctl" /\ Len(req) <= StableUpTo =>
    \A key \in KeysOf(req) : LastWith(items, key) = LastWith(req, key)

(* What the kernel, which applies the entries in order, changes.           *)
Effect(s) == [key \in KeysOf(s) |-> LastWith(s, key).val]

(* To the caller the loops are one step: a commit promises what            *)
(* AtomicRequest says, although the list it sends is a sorted copy from    *)
(* which some duplicates are removed, spread over four arrays.             *)
Atomic == INSTANCE AtomicRequest WITH
  side    <- IF pc = "done" THEN "done" ELSE "caller",
  applied <- IF pc = "done" /\ ret = 0 THEN Effect(Decoded) ELSE Effect(<<>>),
  ret     <- IF pc = "done" THEN ret ELSE 0

CommitsAtOnce == Atomic!Spec

(* A commit that entered the loops comes to an end.                        *)
CommitReturns == (pc = "dedupe") ~> (pc = "done")

=============================================================================
