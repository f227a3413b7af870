------------------------------- MODULE Caches --------------------------------
(***************************************************************************)
(* A program that keeps copies of a connector and of one of its            *)
(* properties, as every call of meson_drm_display.c and the settings do:   *)
(* it uses both in turn, and the kernel changes at any time.               *)
(***************************************************************************)
EXTENDS Naturals

CONSTANTS Sinks, Planes, Crtcs, Kernels, Others,
          MaxCalls,    (* bound: calls about either                         *)
          MaxChanges   (* bound: changes of either                          *)

VARIABLES
  sink, blob, lit, pc, seen, cache, heap, i, size, planes,              \* ConnectorCache
  replugs, moved, dark, made, failed,
  kernel, ppc, round, snap, prop, pheap, fresh, pfailed,                \* PropertyCache
  calls, changes

C == INSTANCE ConnectorCache WITH MaxReplugs <- MaxChanges
P == INSTANCE PropertyCache WITH pc <- ppc, i <- round, heap <- pheap, failed <- pfailed

ASSUME CacheAssumption == C!SinksFit /\ P!KernelsFit

connector == <<sink, blob, lit, pc, seen, cache, heap, i, size, planes,
               replugs, moved, dark, made, failed>>
property  == <<kernel, ppc, round, snap, prop, pheap, fresh, pfailed>>
vars == <<connector, property, calls, changes>>

Init == C!Init /\ P!Init

Next ==
  \/ C!World /\ UNCHANGED property
  \/ ppc = "idle" /\ C!Step /\ UNCHANGED property
  \/ P!Rewrite /\ UNCHANGED connector
  \/ pc = "idle" /\ P!Step /\ UNCHANGED connector

Spec == Init /\ [][Next]_vars

-----------------------------------------------------------------------------
(* Every variable of the two has its type.                                 *)
TypeOK == C!TypeOK /\ P!TypeOK

(* Between calls the heap holds what the two structs point to, nothing     *)
(* that is lost and nothing less, after any sequence of create, update and *)
(* destroy with failures in them.                                          *)
HeapExact == C!HeapIsCache /\ P!HeapIsProp

(* The connector's copy has the modes and the state of one read of it, the *)
(* CRTC of another, the physical size of the display at first, and the     *)
(* EDID that the kernel's blob gives, which is the display's if it stays.  *)
CacheIsSink == C!CacheIsSink /\ C!EdidOfSameSink /\ C!SizeOfPrimary

(* The property's copy is its last read; where it is not whole, memory was *)
(* short.                                                                  *)
CopyIsRead == P!CopyIsRead /\ P!CrashNeedsFault
=============================================================================
