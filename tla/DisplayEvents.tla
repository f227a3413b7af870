---------------------------- MODULE DisplayEvents ----------------------------
(***************************************************************************)
(* The display event monitor of src/meson/meson_drm_event.c.               *)
(*                                                                         *)
(* startDisplayUeventMonitor sets the flag isMonitoringAlive and creates   *)
(* two detached threads; stopDisplayUeventMonitor clears the flag and      *)
(* waits for nobody.  The first thread waits for hotplug uevents of the    *)
(* drm subsystem, then reads the connector's status and reports a change;  *)
(* the second waits for uevents of hdmitx and reports the HDCP state they  *)
(* carry.  A thread looks at the flag only between two waits of at most 5  *)
(* seconds, so the threads of an earlier start may still be there when the *)
(* application starts the monitor again.                                   *)
(***************************************************************************)
EXTENDS Integers, Sequences, FiniteSets, Functions

CONSTANTS
  DrmThreads,   (* threads that run uevent_monitor_thread                   *)
  HdmiThreads,  (* threads that run hdmitx_uevent_monitor_thread            *)
  MaxQueue,     (* what the netlink socket of a thread can hold             *)
  MaxChanges,   (* bound: changes of the connector and of HDCP              *)
  MaxNoise,     (* bound: uevents that are of no interest                   *)
  MaxStops,     (* bound: calls of stopDisplayUeventMonitor                 *)
  MaxThreads,   (* bound: threads of both kinds that are ever created       *)
  MayFail       (* what may fail: "create", "open", "read"                  *)

ASSUME EventAssumption ==
  /\ DrmThreads \cap HdmiThreads = {}
  /\ MaxQueue \in Nat \ {0}
  /\ MaxChanges \in Nat /\ MaxNoise \in Nat
  /\ MaxStops \in Nat /\ MaxThreads \in Nat
  /\ MayFail \subseteq {"create", "open", "read"}

Threads  == DrmThreads \cup HdmiThreads
Statuses == {"connected", "disconnected", "unknown"}   \* ENUM_MESON_CONN_CONNECTION
Known    == Statuses \ {"unknown"}
Events   == {"CONNECTED", "DISCONNECTED", "AUTHENTICATED", "AUTHENTICATIONFAILURE"}

(* What a uevent says: a hotplug, the HDCP state it carries, or nothing    *)
(* that the thread looks for (another action, a CONNECTOR property, no     *)
(* hdmitx_hdcp property).                                                  *)
Uevents == {"hotplug", "hdcp0", "hdcp1", "other"}

VARIABLES
  alive,      (* isMonitoringAlive                                          *)
  cb,         (* _DisplayEventCb is set                                     *)
  status,     (* the kernel: status of the HDMI connector                   *)
  hdcp,       (* the kernel: HDCP is authenticated                          *)
  unsent,     (* the kernel: uevents of changes that are still to be sent   *)
  thr,        (* the threads                                                *)
  view,       (* history: the last event of each kind the application got,  *)
              (* and whether two monitors ever ran at the same time         *)
  count       (* how often the bounded things happened                      *)

world == <<status, hdcp, unsent>>
vars  == <<alive, cb, world, thr, view, count>>

(* pc: where the thread is; q: what its socket holds; overrun: the socket  *)
(* lost a uevent and is still to say so ("pending"), or has said so and is *)
(* not empty yet ("draining"); pre: enPreConnection; cur, pre01: curHdcp   *)
(* and preHdcp; event: what it is about to report.  The rest is history:   *)
(* told, the last event it reported; mute, what it had to report last found *)
(* no callback; woken, it took a uevent of interest; missed, the last such *)
(* uevent was lost and none like it is queued; late, callbacks since the   *)
(* monitor was stopped.                                                    *)

(* Mutant: the display counts as disconnected at first (wasConnected).     *)
BornDisconnected ==
  [pc |-> "new", q |-> <<>>, overrun |-> "no", pre |-> "disconnected",
   cur |-> 0, pre01 |-> 0, event |-> "none", told |-> "none",
   mute |-> FALSE, woken |-> FALSE, missed |-> FALSE, late |-> 0]

Born == [pc |-> "new", q |-> <<>>, overrun |-> "no", pre |-> "unknown",
         cur |-> 0, pre01 |-> 0, event |-> "none", told |-> "none",
         mute |-> FALSE, woken |-> FALSE, missed |-> FALSE, late |-> 0]
NoThread == [pc |-> "none", q |-> <<>>, overrun |-> "no", pre |-> "unknown",
             cur |-> 0, pre01 |-> 0, event |-> "none", told |-> "none",
             mute |-> FALSE, woken |-> FALSE, missed |-> FALSE, late |-> 0]

At(t, here) == thr[t].pc = here
Goto(t, there) == thr' = [thr EXCEPT ![t].pc = there]

(* A thread whose monitor receives: udev_monitor_enable_receiving is done. *)
Receiving(t) == thr[t].pc \in {"check", "select", "read", "notify"}

Init ==
  /\ alive = FALSE
  /\ cb = FALSE
  /\ status \in Known
  /\ hdcp = 0
  /\ unsent = <<>>
  /\ thr = [t \in Threads |-> NoThread]
  /\ view = [conn |-> "none", hdcp |-> "none", overlap |-> FALSE]
  /\ count = [changes |-> 0, noise |-> 0, stops |-> 0]

-----------------------------------------------------------------------------
(* The application.                                                        *)
Register ==
  /\ cb' = TRUE
  /\ UNCHANGED <<alive, world, thr, view, count>>

(* A thread of each kind is created, unless pthread_create fails.  The     *)
(* threads that do not exist yet are all alike: any of them stands for it. *)
NewThreads(kind) ==
  LET unborn == {t \in kind : At(t, "none")} IN
  {S \in SUBSET unborn :
     \/ unborn # {} /\ S = {CHOOSE t \in unborn : TRUE}
     \/ S = {} /\ ("create" \in MayFail \/ kind = {})}

Ended(t) == thr[t].pc \in {"none", "ended"}
Created  == {t \in Threads : ~At(t, "none")}

(* startDisplayUeventMonitor.  The flag is set before the threads exist.   *)
Start ==
  /\ alive' = TRUE
  /\ \E D \in NewThreads(DrmThreads), H \in NewThreads(HdmiThreads) :
       /\ Cardinality(Created \cup D \cup H) <= MaxThreads
       /\ thr' = [t \in Threads |-> IF t \in D \cup H THEN Born
                                    ELSE [thr[t] EXCEPT !.late = 0]]
  /\ view' = [view EXCEPT !.overlap = @ \/ \E t \in Threads : ~Ended(t)]
  /\ UNCHANGED <<cb, world, count>>

(* stopDisplayUeventMonitor.                                               *)
Stop ==
  /\ alive
  /\ count.stops < MaxStops
  /\ alive' = FALSE
  /\ count' = [count EXCEPT !.stops = @ + 1]
  /\ UNCHANGED <<cb, world, thr, view>>

-----------------------------------------------------------------------------
(* The kernel.  A uevent follows the change it announces.                  *)
ConnectorChanges(s) ==
  /\ s # status
  /\ count.changes < MaxChanges
  /\ status' = s
  /\ unsent' = Append(unsent, "hotplug")
  /\ count' = [count EXCEPT !.changes = @ + 1]
  /\ UNCHANGED <<alive, cb, hdcp, thr, view>>

HdcpChanges ==
  /\ HdmiThreads # {}
  /\ count.changes < MaxChanges
  /\ hdcp' = 1 - hdcp
  /\ unsent' = Append(unsent, IF hdcp = 0 THEN "hdcp1" ELSE "hdcp0")
  /\ count' = [count EXCEPT !.changes = @ + 1]
  /\ UNCHANGED <<alive, cb, status, thr, view>>

(* A monitor's socket takes what its filter lets through, or overruns; it  *)
(* takes nothing more until it has said so and is empty.                   *)
Wanted(t) == IF t \in DrmThreads THEN {"hotplug"} ELSE {"hdcp0", "hdcp1"}
Matches(t, u) == u = "other" \/ u \in Wanted(t)

(* Mutant: the socket has no limit.                                        *)
TakenAlways(th) == th.overrun = "no"

Taken(th) == th.overrun = "no" /\ Len(th.q) < MaxQueue

(* A hotplug that is lost while another is queued is not missed: the       *)
(* thread reads the status when it comes to the other.                     *)
Missed(t, u) ==
  IF u = "other" THEN thr[t].missed
  ELSE ~Taken(thr[t]) /\ ~("hotplug" \in Range(thr[t].q))

Delivered(u) ==
  [t \in Threads |->
     IF ~(Receiving(t) /\ Matches(t, u)) THEN thr[t]
     ELSE IF Taken(thr[t])
          THEN [thr[t] EXCEPT !.q = Append(@, u), !.missed = Missed(t, u)]
          ELSE [thr[t] EXCEPT !.overrun = IF @ = "no" THEN "pending" ELSE @,
                              !.missed = Missed(t, u)]]

SendUevent ==
  /\ unsent # <<>>
  /\ thr' = Delivered(Head(unsent))
  /\ unsent' = Tail(unsent)
  /\ UNCHANGED <<alive, cb, status, hdcp, view, count>>

SendNoise ==
  /\ count.noise < MaxNoise
  /\ thr' = Delivered("other")
  /\ count' = [count EXCEPT !.noise = @ + 1]
  /\ UNCHANGED <<alive, cb, world, view>>

-----------------------------------------------------------------------------
(* The part that both threads have in common.                              *)

(* udev_new ... udev_monitor_enable_receiving, or one of them fails.       *)
Open(t) ==
  /\ At(t, "new")
  /\ Goto(t, "check")
  /\ UNCHANGED <<alive, cb, world, view, count>>

OpenFails(t) ==
  /\ At(t, "new")
  /\ "open" \in MayFail
  /\ Goto(t, "ended")
  /\ UNCHANGED <<alive, cb, world, view, count>>

(* Mutant: all that is queued is taken before the flag is looked at.       *)
AgainInner == "select"

(* The end of the loop's body.                                             *)
Again == "check"

(* while (isMonitoringAlive)                                               *)
CheckAlive(t) ==
  /\ At(t, "check")
  /\ Goto(t, IF alive THEN "select" ELSE "close")
  /\ UNCHANGED <<alive, cb, world, view, count>>

(* The socket after one recvmsg.                                           *)
Overrun(q, o) == IF o = "pending" /\ q # <<>> THEN "draining"
                 ELSE IF q = <<>> THEN "no" ELSE o

Quiet(t)   == thr[t].q = <<>> /\ thr[t].overrun # "pending"
HasNext(t) == thr[t].q # <<>> /\ thr[t].overrun # "pending"

(* Mutant: select waits without a limit.                                   *)
SelectForever(t) == FALSE /\ UNCHANGED vars

(* Nothing came within the 5 seconds.                                      *)
SelectTimeout(t) ==
  /\ At(t, "select")
  /\ Quiet(t)
  /\ Goto(t, Again)
  /\ UNCHANGED <<alive, cb, world, view, count>>

Close(t) ==
  /\ At(t, "close")
  /\ thr' = [thr EXCEPT ![t] = [NoThread EXCEPT !.pc = "ended"]]
  /\ UNCHANGED <<alive, cb, world, view, count>>

(* _DisplayEventCb( enDisplayEvent, NULL ), if it is set now.              *)
Notify(t) ==
  /\ At(t, "notify")
  /\ IF cb
     THEN /\ view' = IF t \in DrmThreads THEN [view EXCEPT !.conn = thr[t].event]
                                         ELSE [view EXCEPT !.hdcp = thr[t].event]
          /\ thr' = [thr EXCEPT ![t].pc = Again, ![t].told = thr[t].event,
                                ![t].mute = FALSE,
                                ![t].late = IF alive THEN 0 ELSE @ + 1]
     ELSE /\ thr' = [thr EXCEPT ![t].pc = Again, ![t].mute = TRUE]
          /\ UNCHANGED view
  /\ UNCHANGED <<alive, cb, world, count>>

-----------------------------------------------------------------------------
(* uevent_monitor_thread                                                   *)

(* udev_monitor_receive_device gives NULL for an overrun: what was         *)
(* reported before is forgotten.                                           *)
ReceiveNothing(t) ==
  /\ t \in DrmThreads
  /\ At(t, "select")
  /\ thr[t].overrun = "pending"
  /\ thr' = [thr EXCEPT ![t].overrun = Overrun(thr[t].q, @), ![t].pre = "unknown",
                        ![t].pc = Again]
  /\ UNCHANGED <<alive, cb, world, view, count>>

ReceiveHotplug(t) ==
  /\ t \in DrmThreads
  /\ At(t, "select")
  /\ HasNext(t)
  /\ thr' = [thr EXCEPT ![t].q = Tail(@),
                        ![t].overrun = Overrun(Tail(thr[t].q), @),
                        ![t].pc = IF Head(thr[t].q) = "hotplug" THEN "read" ELSE Again]
  /\ UNCHANGED <<alive, cb, world, view, count>>

EventOf(s) == IF s = "disconnected" THEN "DISCONNECTED" ELSE "CONNECTED"

(* meson_drm_getConnectionStatus: the status now; unknown if the connector *)
(* cannot be read.                                                         *)
StatusRead == {status} \cup (IF "read" \in MayFail THEN {"unknown"} ELSE {})

ReadStatus(t) ==
  /\ t \in DrmThreads
  /\ At(t, "read")
  /\ \E s \in StatusRead :
       thr' = [thr EXCEPT ![t].pc = IF s # thr[t].pre THEN "notify" ELSE Again,
                          ![t].pre = s, ![t].event = EventOf(s), ![t].woken = TRUE]
  /\ UNCHANGED <<alive, cb, world, view, count>>

-----------------------------------------------------------------------------
(* hdmitx_uevent_monitor_thread                                            *)

(* A NULL device is passed over.                                           *)
ReceiveNothingHdmi(t) ==
  /\ t \in HdmiThreads
  /\ At(t, "select")
  /\ thr[t].overrun = "pending"
  /\ thr' = [thr EXCEPT ![t].overrun = Overrun(thr[t].q, @), ![t].pc = Again]
  /\ UNCHANGED <<alive, cb, world, view, count>>

(* Mutant: a uevent without the property hdmitx_hdcp counts as 0.          *)
CarriedOrZero(u, cur) == IF u = "hdcp1" THEN 1 ELSE 0

Carried(u, cur) == IF u = "hdcp1" THEN 1 ELSE IF u = "hdcp0" THEN 0 ELSE cur

ReceiveHdcp(t) ==
  LET cur == Carried(Head(thr[t].q), thr[t].cur) IN
  /\ t \in HdmiThreads
  /\ At(t, "select")
  /\ HasNext(t)
  /\ thr' = [thr EXCEPT
       ![t].q = Tail(@), ![t].cur = cur, ![t].pre01 = cur,
       ![t].overrun = Overrun(Tail(thr[t].q), @),
       ![t].woken = @ \/ Head(thr[t].q) # "other",
       ![t].pc = IF cur # thr[t].pre01 THEN "notify" ELSE Again,
       ![t].event = IF cur = 1 THEN "AUTHENTICATED" ELSE "AUTHENTICATIONFAILURE"]
  /\ UNCHANGED <<alive, cb, world, view, count>>

-----------------------------------------------------------------------------
Step(t) ==
  \/ Open(t) \/ OpenFails(t) \/ CheckAlive(t) \/ SelectTimeout(t) \/ Close(t)
  \/ Notify(t)
  \/ ReceiveNothing(t) \/ ReceiveHotplug(t) \/ ReadStatus(t)
  \/ ReceiveNothingHdmi(t) \/ ReceiveHdcp(t)

Next ==
  \/ Register \/ Start \/ Stop
  \/ \E s \in Known : ConnectorChanges(s)
  \/ HdcpChanges \/ SendUevent \/ SendNoise
  \/ \E t \in Threads : Step(t)

Spec == Init /\ [][Next]_vars

(* The scheduler runs every thread of the monitor.                         *)
FairSpec == Spec /\ \A t \in Threads : WF_vars(Step(t))

-----------------------------------------------------------------------------
Thread ==
  [pc : {"none", "new", "check", "select", "read", "notify", "close", "ended"},
   q : Seq(Uevents), overrun : {"no", "pending", "draining"},
   pre : Statuses, cur : 0 .. 1, pre01 : 0 .. 1,
   event : Events \cup {"none"}, told : Events \cup {"none"},
   mute : BOOLEAN, woken : BOOLEAN, missed : BOOLEAN, late : Nat]

(* Every variable has its type, and no socket holds more than it can.      *)
TypeOK ==
  /\ alive \in BOOLEAN /\ cb \in BOOLEAN
  /\ status \in Known /\ hdcp \in 0 .. 1
  /\ unsent \in Seq(Uevents \ {"other"})
  /\ thr \in [Threads -> Thread]
  /\ \A t \in Threads : Len(thr[t].q) <= MaxQueue
  /\ view \in [conn : Events \cup {"none"}, hdcp : Events \cup {"none"},
               overlap : BOOLEAN]
  /\ count \in [changes : 0 .. MaxChanges, noise : 0 .. MaxNoise, stops : 0 .. MaxStops]

(* A thread that waits in select, has been woken before, and has nothing   *)
(* on its way or lost, and whose last report found a callback.             *)
Settled(t) ==
  /\ At(t, "select") /\ Quiet(t)
  /\ thr[t].woken /\ ~thr[t].missed /\ ~thr[t].mute
  /\ Range(unsent) \cap Wanted(t) = {}

(* Whatever changes, noise and overruns there were, and however many       *)
(* monitors run: the last report of a settled thread is the connector's    *)
(* status now.  The status is read after the uevent is taken (line 142),   *)
(* so a uevent that was lost behind another costs nothing.                 *)
ThreadReportCurrent ==
  \A t \in DrmThreads : Settled(t) => thr[t].told = EventOf(status)

(* The last report of a settled hdmitx thread is the HDCP state; a thread  *)
(* that has not reported anything was never told of a success.             *)
HdcpReportCurrent ==
  \A t \in HdmiThreads :
    Settled(t) => (thr[t].told = "AUTHENTICATED" <=> hdcp = 1)

(* The application's own picture is right if a monitor was never started   *)
(* while a thread of an earlier start was still there (line 59 waits for   *)
(* nobody): two threads deliver in either order.  A new hdmitx thread      *)
(* takes HDCP to be off (line 202), so it must have reported once: a       *)
(* failure after a start in the authenticated state is no change to it.    *)
ViewCurrent ==
  ~view.overlap =>
    /\ \A t \in DrmThreads : Settled(t) => view.conn = EventOf(status)
    /\ \A t \in HdmiThreads :
         Settled(t) /\ thr[t].told # "none" => (view.hdcp = "AUTHENTICATED" <=> hdcp = 1)

(* After stopDisplayUeventMonitor a thread calls the callback at most once *)
(* more, unless the monitor is started again.                              *)
AtMostOneLateCallback == \A t \in Threads : ~alive => thr[t].late <= 1

(* A stopped monitor ends: every thread leaves its loop and goes, unless   *)
(* the monitor is started again before the thread has looked at the flag.  *)
StopEndsThreads == ~alive ~> alive \/ \A t \in Threads : Ended(t)
=============================================================================
