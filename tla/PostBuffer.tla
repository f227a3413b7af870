----------------------------- MODULE PostBuffer ------------------------------
(***************************************************************************)
(* Showing buffers: drm_post_buf (kms_post_buf), kms_set_plane and         *)
(* drm_waitvideoFence of src/meson/meson_drm_kms.c and meson_drm_util.c,   *)
(* called by the threads of one client, while another process may be the   *)
(* DRM master, the service changes the mode and a decoder signals fences.  *)
(*                                                                         *)
(* A plane's ten properties are taken in the four groups that matter: the  *)
(* size, the other numbers of the rectangles, the framebuffer and the      *)
(* CRTC; 0 is what kms_post_buf writes to disable a plane.                 *)
(***************************************************************************)
EXTENDS Integers, FiniteSets

CONSTANTS
  Threads,
  Bufs,        (* buffers, which have a framebuffer each                    *)
  Planes,      (* VD1, VD2 and OSD, or fewer                                *)
  Modes,       (* sizes of the screen, numbers other than 0                 *)
  Window,      (* the size of a buffer that does not fill the screen        *)
  NoOne,       (* no master, no buffer                                      *)
  MaxCalls,    (* bound: calls the client makes                             *)
  MaxSignals   (* bound: signals a thread gets while it polls               *)

ASSUME PostAssumption ==
  /\ Modes \subseteq Nat \ {0}
  /\ Window \in Nat \ ({0} \cup Modes)
  /\ NoOne \notin Bufs \cup {0} /\ NoOne \notin {"us", "compositor"}
  /\ MaxCalls \in Nat /\ MaxSignals \in Nat

VARIABLES
  mode,       (* the mode of the connector now                              *)
  initMode,   (* conn_states[0]->mode, read by populate_connectors          *)
  full,       (* full[b]: buf->crtc_w and crtc_h are 0                      *)
  screen,     (* screen[p]: the properties of the plane in the kernel       *)
  asked,      (* history: the whole of the last post or set_plane it took   *)
  dropped,    (* history: a property could not be added to a request        *)
  master,     (* who is DRM master: the client's file, the other, NoOne     *)
  fence,      (* fence[b]: the decoder has signalled the fence of b         *)
  fenceFds,   (* sync files that are open                                   *)
  job,        (* what each thread is doing                                  *)
  calls, signals

vars == <<mode, initMode, full, screen, asked, dropped, master, fence, fenceFds,
          job, calls, signals>>

Props  == {"crtc_wh", "rects", "fb_id", "crtc_id"}
Us     == "us"
Other  == "compositor"
Off    == [q \in Props |-> 0]
Idle   == [at |-> "idle", b |-> NoOne, p |-> NoOne, req |-> <<>>, rivals |-> FALSE,
           turnedDown |-> FALSE, polled |-> "nothing"]

At(t, here) == job[t].at = here
Goto(t, there) == job' = [job EXCEPT ![t].at = there]
Finish(t) == job' = [job EXCEPT ![t] = Idle]

Begin(t, work) ==
  /\ At(t, "idle") /\ calls < MaxCalls
  /\ calls' = calls + 1
  /\ job' = [job EXCEPT ![t] = work]

Init ==
  /\ mode \in Modes /\ initMode = mode
  /\ full \in [Bufs -> BOOLEAN]
  /\ screen = [p \in Planes |-> Off] /\ asked = screen
  /\ dropped = FALSE
  /\ master \in {Other, NoOne}
  /\ fence = [b \in Bufs |-> FALSE]
  /\ fenceFds = {}
  /\ job = [t \in Threads |-> Idle]
  /\ calls = 0 /\ signals = 0

-----------------------------------------------------------------------------
(* The rest of the world.                                                  *)
ChangeMode(m) ==
  /\ m # mode
  /\ mode' = m
  /\ UNCHANGED <<initMode, full, screen, asked, dropped, master, fence, fenceFds,
                 job, calls, signals>>

OtherTakesMaster ==
  /\ master = NoOne
  /\ master' = Other
  /\ UNCHANGED <<mode, initMode, full, screen, asked, dropped, fence, fenceFds,
                 job, calls, signals>>

OtherDropsMaster ==
  /\ master = Other
  /\ master' = NoOne
  /\ UNCHANGED <<mode, initMode, full, screen, asked, dropped, fence, fenceFds,
                 job, calls, signals>>

DecoderSignals(b) ==
  /\ ~fence[b]
  /\ fence' = [fence EXCEPT ![b] = TRUE]
  /\ UNCHANGED <<mode, initMode, full, screen, asked, dropped, master, fenceFds,
                 job, calls, signals>>

-----------------------------------------------------------------------------
(* Lines 536 and 542.                                                      *)
FullSize == initMode

(* What a post of b sets (lines 533-557), and one with disable_plane.      *)
SetBy(b) ==
  [q \in Props |-> CASE q = "crtc_wh" -> IF full[b] THEN FullSize ELSE Window
                     [] q = "fb_id" -> b
                     [] OTHER -> 1]

(* Mutant: the size is left as it was.                                     *)
PropsSetShort(disable) == Props \ (IF disable THEN {"crtc_wh"} ELSE {})

PropsSet(disable) == Props

(* kms_post_buf up to the commit.  No result of drmModeAtomicAddProperty   *)
(* is looked at: one that fails is a property that is not sent.            *)
PostBuf(t, b, p, disable) ==
  LET wanted == [q \in PropsSet(disable) |-> IF disable THEN 0 ELSE SetBy(b)[q]] IN
  /\ \E lost \in SUBSET Props :
       /\ Cardinality(lost) <= 1
       /\ dropped' = (dropped \/ lost # {})
       /\ Begin(t, [Idle EXCEPT !.at = "commit", !.b = b, !.p = p,
                      !.req = [q \in DOMAIN wanted \ lost |-> wanted[q]]])
  /\ UNCHANGED <<mode, initMode, full, screen, asked, master, fence, fenceFds, signals>>

(* The kernel takes a framebuffer only together with a CRTC.               *)
Merge(old, req) == [q \in Props |-> IF q \in DOMAIN req THEN req[q] ELSE old[q]]
Valid(state) == (state["fb_id"] = 0) <=> (state["crtc_id"] = 0)

Commit(t) ==
  LET p == job[t].p  new == Merge(screen[p], job[t].req) IN
  /\ At(t, "commit")
  /\ Valid(new)
  /\ screen' = [screen EXCEPT ![p] = new]
  /\ asked' = [asked EXCEPT ![p] = IF new["fb_id"] = 0 THEN Off ELSE SetBy(job[t].b)]
  /\ Finish(t)
  /\ UNCHANGED <<mode, initMode, full, dropped, master, fence, fenceFds, calls, signals>>

(* It may be refused for other reasons too: a flip that is pending.        *)
CommitFails(t) ==
  /\ At(t, "commit")
  /\ Finish(t)
  /\ UNCHANGED <<mode, initMode, full, screen, asked, dropped, master, fence, fenceFds,
                 calls, signals>>

-----------------------------------------------------------------------------
(* kms_set_plane: drmIsMaster and drmSetMaster, whose result is ignored.   *)
SetPlane(t, b, p) ==
  /\ Begin(t, [Idle EXCEPT !.at = "setmaster", !.b = b, !.p = p])
  /\ UNCHANGED <<mode, initMode, full, screen, asked, dropped, master, fence, fenceFds,
                 signals>>

(* Mutant: a master that is not the client is not replaced either.         *)
TakesMasterNever == FALSE

TakesMaster == master = NoOne

(* The kernel may turn the client down although there is no master: its    *)
(* file was never master and it has not the privilege (EACCES).            *)
SetMaster(t) ==
  /\ At(t, "setmaster")
  /\ \E granted \in BOOLEAN :
       /\ master' = IF TakesMaster /\ granted THEN Us ELSE master
       /\ job' = [job EXCEPT ![t].at = "setplane", ![t].rivals = master = Other,
                             ![t].turnedDown = master = NoOne /\ ~granted]
  /\ UNCHANGED <<mode, initMode, full, screen, asked, dropped, fence, fenceFds,
                 calls, signals>>

(* drmModeSetPlane sets all of the plane's properties.                     *)
SetPlaneDone(t) ==
  LET p == job[t].p IN
  /\ At(t, "setplane")
  /\ master = Us
  /\ screen' = [screen EXCEPT ![p] = SetBy(job[t].b)]
  /\ asked' = [asked EXCEPT ![p] = SetBy(job[t].b)]
  /\ Goto(t, "drop")
  /\ UNCHANGED <<mode, initMode, full, dropped, master, fence, fenceFds, calls, signals>>

(* It fails: another thread's drop has taken the mastership away from this *)
(* one as well, or the kernel does not like the values.                    *)
SetPlaneFails(t) ==
  /\ At(t, "setplane")
  /\ Goto(t, IF master = Us THEN "refused" ELSE "denied")
  /\ UNCHANGED <<mode, initMode, full, screen, asked, dropped, master, fence, fenceFds,
                 calls, signals>>

(* Mutant: the error path returns at once.                                 *)
DropOnSuccess == {"drop"}

DropsAt == {"drop", "denied", "refused"}

(* drmDropMaster on both paths.  After a success the result returned was   *)
(* never set (line 483).                                                   *)
DropMaster(t) ==
  /\ job[t].at \in {"drop", "denied", "refused"}
  /\ LET mine == master = Us /\ job[t].at \in DropsAt IN
     /\ master' = IF mine THEN NoOne ELSE master
     /\ job' = [u \in Threads |->
                  IF u = t THEN Idle
                  ELSE [job[u] EXCEPT !.rivals = @ \/ (mine /\ At(u, "setplane"))]]
  /\ UNCHANGED <<mode, initMode, full, screen, asked, dropped, fence, fenceFds,
                 calls, signals>>

-----------------------------------------------------------------------------
(* drm_waitvideoFence: DMA_BUF_IOCTL_EXPORT_SYNC_FILE may fail.            *)
WaitVideoFence(t, b) ==
  /\ \/ Begin(t, [Idle EXCEPT !.at = "poll", !.b = b]) /\ fenceFds' = fenceFds \cup {t}
     \/ Begin(t, Idle) /\ UNCHANGED fenceFds
  /\ UNCHANGED <<mode, initMode, full, screen, asked, dropped, master, fence, signals>>

(* Mutant: a poll that timed out is repeated.                              *)
EndsNotOnTimeout(outcome) == outcome = "ready"

EndsPoll(outcome) == outcome \in {"ready", "timeout"}

PollResult(b) == IF fence[b] THEN "ready" ELSE "timeout"

(* poll returns: the fence is signalled, or 3 seconds have passed.         *)
Poll(t) ==
  LET outcome == PollResult(job[t].b) IN
  /\ At(t, "poll")
  /\ job' = [job EXCEPT ![t].polled = outcome,
                        ![t].at = IF EndsPoll(outcome) THEN "close" ELSE "poll"]
  /\ UNCHANGED <<mode, initMode, full, screen, asked, dropped, master, fence, fenceFds,
                 calls, signals>>

(* EINTR or EAGAIN: it polls again, for 3 seconds from now.                *)
PollInterrupted(t) ==
  /\ At(t, "poll") /\ signals < MaxSignals
  /\ signals' = signals + 1
  /\ UNCHANGED <<mode, initMode, full, screen, asked, dropped, master, fence, fenceFds,
                 job, calls>>

(* poll fails for good.                                                    *)
PollFails(t) ==
  /\ At(t, "poll")
  /\ job' = [job EXCEPT ![t].polled = "error", ![t].at = "close"]
  /\ UNCHANGED <<mode, initMode, full, screen, asked, dropped, master, fence, fenceFds,
                 calls, signals>>

(* Mutant: the sync file is closed only if the poll was good.              *)
CloseIfReady(t) == job[t].polled = "ready"

Closes(t) == TRUE

CloseFence(t) ==
  /\ At(t, "close")
  /\ fenceFds' = IF Closes(t) THEN fenceFds \ {t} ELSE fenceFds
  /\ Finish(t)
  /\ UNCHANGED <<mode, initMode, full, screen, asked, dropped, master, fence, calls, signals>>

-----------------------------------------------------------------------------
Step(t) ==
  \/ Commit(t) \/ CommitFails(t)
  \/ SetMaster(t) \/ SetPlaneDone(t) \/ SetPlaneFails(t) \/ DropMaster(t)
  \/ Poll(t) \/ CloseFence(t)

Next ==
  \/ \E m \in Modes : ChangeMode(m)
  \/ OtherTakesMaster \/ OtherDropsMaster
  \/ \E b \in Bufs : DecoderSignals(b)
  \/ \E t \in Threads :
       \/ \E b \in Bufs, p \in Planes :
            \/ \E disable \in BOOLEAN : PostBuf(t, b, p, disable)
            \/ SetPlane(t, b, p)
       \/ \E b \in Bufs : WaitVideoFence(t, b)
       \/ PollInterrupted(t) \/ PollFails(t)
       \/ Step(t)

Spec == Init /\ [][Next]_vars

(* A thread inside the library goes on: ioctls return, and a poll returns  *)
(* after 3 seconds at the latest unless a signal comes.                    *)
FairSpec == Spec /\ \A t \in Threads : WF_vars(Step(t))


-----------------------------------------------------------------------------
(* Every variable has its type, and a sync file belongs to a thread that   *)
(* is waiting: drm_waitvideoFence closes it on every path.                 *)
TypeOK ==
  /\ {mode, initMode} \subseteq Modes
  /\ full \in [Bufs -> BOOLEAN]
  /\ \A p \in Planes : DOMAIN screen[p] = Props /\ DOMAIN asked[p] = Props
  /\ dropped \in BOOLEAN
  /\ master \in {Us, Other, NoOne}
  /\ fence \in [Bufs -> BOOLEAN]
  /\ fenceFds \subseteq {t \in Threads : job[t].at \in {"poll", "close"}}
  /\ \A t \in Threads :
       /\ job[t].at \in {"idle", "commit", "setmaster", "setplane", "drop", "denied", "refused",
                         "poll", "close"}
       /\ job[t].polled \in {"nothing", "error", "ready", "timeout"}
  /\ calls \in 0 .. MaxCalls /\ signals \in 0 .. MaxSignals

(* What is on a plane comes from one call: posts of several threads, and   *)
(* set_plane between them, never mix, as long as every property could be   *)
(* added to its request; kms_post_buf does not look whether it could.  A   *)
(* buffer that fills the screen has the size of the mode at the time when  *)
(* the display was initialised, whatever the mode is now (lines 536, 542). *)
PlaneShowsOneCall ==
  ~dropped =>
    /\ screen = asked
    /\ \A p \in Planes : LET b == screen[p]["fb_id"] IN
         b # 0 => screen[p]["crtc_wh"] = IF full[b] THEN initMode ELSE Window

(* When no call is under way the client's file is not the master: the      *)
(* mastership that kms_set_plane takes is given up on every path, also     *)
(* when two threads take and drop it at once.                              *)
MasterGivenUp == (\A t \in Threads : At(t, "idle")) => master # Us

(* kms_set_plane, which ignores the result of drmSetMaster, is denied the  *)
(* plane only because the kernel turned down that very call, because the   *)
(* other process was master at the time, or because another thread's drop  *)
(* came in between; not because of a drop or a refusal of an earlier call. *)
DeniedForAReason ==
  \A t \in Threads : At(t, "denied") => job[t].rivals \/ job[t].turnedDown

(* A wait for a fence ends, although every signal starts its 3 seconds     *)
(* anew, if the signals do; the decoder need not answer.                   *)
WaitEnds == \A t \in Threads : At(t, "poll") ~> At(t, "idle")
=============================================================================
