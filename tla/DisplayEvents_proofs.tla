------------------------- MODULE DisplayEvents_proofs -------------------------
(* DisplayEvents for any number of threads, uevents and starts.            *)
EXTENDS DisplayEvents, SequenceTheorems, TLAPS

(* Sequences: what the head and the tail of one hold, and what one holds   *)
(* after Append.                                                           *)
LEMMA TailKeepsRange ==
  ASSUME NEW S, NEW q \in Seq(S), q # <<>>
  PROVE  /\ Head(q) \in S /\ Tail(q) \in Seq(S) /\ Len(Tail(q)) = Len(q) - 1
         /\ Range(q) = {Head(q)} \cup Range(Tail(q))
<1>1. /\ Head(q) \in S /\ Tail(q) \in Seq(S) /\ Len(Tail(q)) = Len(q) - 1
      /\ Len(q) \in Nat /\ Len(q) > 0
  BY HeadTailProperties, EmptySeq, LenProperties
<1>2. \A k \in 1 .. Len(Tail(q)) : Tail(q)[k] = q[k + 1]
  BY HeadTailProperties
<1>3. DOMAIN q = 1 .. Len(q) /\ DOMAIN Tail(q) = 1 .. Len(Tail(q))
  BY <1>1, LenProperties
<1>4. Head(q) = q[1]
  BY <1>1
<1>5. ASSUME NEW x \in Range(q) PROVE x \in {Head(q)} \cup Range(Tail(q))
  <2>1. PICK k \in 1 .. Len(q) : x = q[k]
    BY <1>3, <1>5 DEF Range
  <2>2. CASE k = 1
    BY <2>1, <2>2, <1>4
  <2>3. CASE k # 1
    <3>1. k - 1 \in 1 .. Len(Tail(q)) /\ Tail(q)[k - 1] = q[k]
      BY <2>3, <1>1, <1>2
    <3> QED
      BY <3>1, <2>1, <1>3 DEF Range
  <2> QED
    BY <2>2, <2>3
<1>6. ASSUME NEW x \in {Head(q)} \cup Range(Tail(q)) PROVE x \in Range(q)
  <2>1. CASE x = Head(q)
    BY <2>1, <1>1, <1>3, <1>4 DEF Range
  <2>2. CASE x \in Range(Tail(q))
    <3>1. PICK k \in 1 .. Len(Tail(q)) : x = Tail(q)[k]
      BY <2>2, <1>3 DEF Range
    <3>2. k + 1 \in 1 .. Len(q) /\ q[k + 1] = x
      BY <3>1, <1>1, <1>2
    <3> QED
      BY <3>2, <1>3 DEF Range
  <2> QED
    BY <1>6, <2>1, <2>2
<1> QED
  BY <1>1, <1>5, <1>6

LEMMA AppendAddsToRange ==
  ASSUME NEW S, NEW q \in Seq(S), NEW e \in S
  PROVE  /\ Append(q, e) \in Seq(S) /\ Len(Append(q, e)) = Len(q) + 1
         /\ Range(Append(q, e)) = Range(q) \cup {e}
<1>1. /\ Append(q, e) \in Seq(S) /\ Len(Append(q, e)) = Len(q) + 1
      /\ \A k \in 1 .. Len(q) : Append(q, e)[k] = q[k]
      /\ Append(q, e)[Len(q) + 1] = e
  BY AppendProperties
<1>2. /\ Len(q) \in Nat /\ DOMAIN q = 1 .. Len(q)
      /\ DOMAIN Append(q, e) = 1 .. (Len(q) + 1)
  BY <1>1, LenProperties
<1>3. Range(Append(q, e)) \subseteq Range(q) \cup {e}
  BY <1>1, <1>2 DEF Range
<1>4. Range(q) \subseteq Range(Append(q, e))
  BY <1>1, <1>2 DEF Range
<1>5. e \in Range(Append(q, e))
  BY <1>1, <1>2 DEF Range
<1> QED
  BY <1>1, <1>3, <1>4, <1>5

-----------------------------------------------------------------------------
(* The type invariant.                                                     *)
LEMMA TypeInit == Init => TypeOK
<1> SUFFICES ASSUME Init PROVE TypeOK
  OBVIOUS
<1> USE EventAssumption
<1>1. NoThread \in Thread /\ NoThread.q = <<>>
  BY DEF NoThread, Thread, Statuses
<1>2. thr \in [Threads -> Thread] /\ \A t \in Threads : thr[t].q = <<>>
  BY <1>1 DEF Init
<1>3. \A t \in Threads : Len(thr[t].q) <= MaxQueue
  <2>1. Len(<<>>) = 0
    OBVIOUS
  <2> QED
    BY <1>2, <2>1
<1>4. alive \in BOOLEAN /\ cb \in BOOLEAN /\ status \in Known
  BY Zenon DEF Init
<1>8. hdcp \in 0 .. 1
  BY DEF Init
<1>5. unsent \in Seq(Uevents \ {"other"})
  BY EmptySeq DEF Init
<1>6. view \in [conn : Events \cup {"none"}, hdcp : Events \cup {"none"},
                overlap : BOOLEAN]
  BY DEF Init
<1>7. count \in [changes : 0 .. MaxChanges, noise : 0 .. MaxNoise, stops : 0 .. MaxStops]
  BY DEF Init
<1> QED
  BY <1>2, <1>3, <1>4, <1>5, <1>6, <1>7, <1>8 DEF TypeOK

(* The threads after a uevent: each has the record it had, or took the     *)
(* uevent, or lost it.                                                     *)
LEMMA TypeOfDelivered ==
  ASSUME TypeOK, NEW u \in Uevents
  PROVE  /\ Delivered(u) \in [Threads -> Thread]
         /\ \A t \in Threads : Len(Delivered(u)[t].q) <= MaxQueue
<1> USE EventAssumption
<1> SUFFICES ASSUME NEW t \in Threads
             PROVE  Delivered(u)[t] \in Thread /\ Len(Delivered(u)[t].q) <= MaxQueue
  BY DEF Delivered
<1>1. thr[t] \in Thread /\ Len(thr[t].q) <= MaxQueue
  BY DEF TypeOK
<1>2. CASE ~(Receiving(t) /\ Matches(t, u))
  BY <1>1, <1>2 DEF Delivered
<1>3. Missed(t, u) \in BOOLEAN
  BY <1>1 DEF Missed, Thread
<1>4. CASE Receiving(t) /\ Matches(t, u) /\ Taken(thr[t])
  <2>1. /\ Append(thr[t].q, u) \in Seq(Uevents)
        /\ Len(Append(thr[t].q, u)) = Len(thr[t].q) + 1
    BY <1>1, AppendAddsToRange DEF Thread
  <2>2. Len(thr[t].q) \in Nat /\ Len(thr[t].q) < MaxQueue
    BY <1>1, <1>4, LenProperties DEF Taken, Thread
  <2>3. Delivered(u)[t] = [thr[t] EXCEPT !.q = Append(@, u), !.missed = Missed(t, u)]
    BY <1>4 DEF Delivered
  <2>4. Delivered(u)[t] \in Thread
    BY <2>1, <2>3, <1>1, <1>3 DEF Thread
  <2>5. Delivered(u)[t].q = Append(thr[t].q, u)
    BY <2>3, <1>1 DEF Thread
  <2> QED
    BY <2>1, <2>2, <2>4, <2>5
<1>5. CASE Receiving(t) /\ Matches(t, u) /\ ~Taken(thr[t])
  <2>1. Delivered(u)[t] = [thr[t] EXCEPT !.overrun = IF @ = "no" THEN "pending" ELSE @,
                                         !.missed = Missed(t, u)]
    BY <1>5 DEF Delivered
  <2> QED
    BY <2>1, <1>1, <1>3 DEF Thread
<1> QED
  BY <1>2, <1>4, <1>5

(* A step in which the thread t gives itself the record th.                *)
LEMMA TypeOfStep ==
  ASSUME TypeOK, NEW t \in Threads, NEW th \in Thread,
         Len(th.q) <= MaxQueue, thr' = [thr EXCEPT ![t] = th],
         UNCHANGED <<alive, cb, world, view, count>>
  PROVE  TypeOK'
<1>1. thr' \in [Threads -> Thread]
  BY DEF TypeOK
<1>2. \A u \in Threads : Len(thr'[u].q) <= MaxQueue
  BY DEF TypeOK
<1> QED
  BY <1>1, <1>2 DEF TypeOK, world

(* The records that the steps make of a thread's record.                   *)
LEMMA ThreadAfterStart ==
  ASSUME NEW th \in Thread
  PROVE  [th EXCEPT !.late = 0] \in Thread
BY DEF Thread

LEMMA ThreadAfterClose ==
  [NoThread EXCEPT !.pc = "ended"] \in Thread /\ [NoThread EXCEPT !.pc = "ended"].q = <<>>
<1>1. NoThread \in Thread
  BY DEF NoThread, Thread, Statuses
<1>2. ASSUME NEW th \in Thread
      PROVE  [th EXCEPT !.pc = "ended"] \in Thread /\ [th EXCEPT !.pc = "ended"].q = th.q
  BY DEF Thread
<1>3. NoThread.q = <<>>
  BY DEF NoThread
<1> QED
  BY <1>1, <1>2, <1>3

LEMMA ThreadAfterNotify ==
  ASSUME NEW th \in Thread, NEW e \in Events \cup {"none"}, NEW m \in BOOLEAN, NEW l \in Nat
  PROVE  [th EXCEPT !.pc = "check", !.told = e, !.mute = m, !.late = l] \in Thread
BY DEF Thread

LEMMA TypeNext ==
  ASSUME TypeOK, [Next]_vars
  PROVE  TypeOK'
<1> USE EventAssumption
<1>1. /\ thr \in [Threads -> Thread] /\ \A t \in Threads : Len(thr[t].q) <= MaxQueue
      /\ count.changes \in 0 .. MaxChanges /\ count.noise \in 0 .. MaxNoise
      /\ count.stops \in 0 .. MaxStops
      /\ alive \in BOOLEAN /\ cb \in BOOLEAN /\ status \in Known /\ hdcp \in 0 .. 1
      /\ unsent \in Seq(Uevents \ {"other"})
      /\ count = [changes |-> count.changes, noise |-> count.noise, stops |-> count.stops]
      /\ view = [conn |-> view.conn, hdcp |-> view.hdcp, overlap |-> view.overlap]
      /\ view.conn \in Events \cup {"none"} /\ view.hdcp \in Events \cup {"none"}
      /\ view.overlap \in BOOLEAN
  BY DEF TypeOK
<1>2. CASE Register
  BY <1>2 DEF Register, TypeOK, world
<1>3. CASE Start
  <2>1. Born \in Thread /\ Len(Born.q) = 0
    BY DEF Born, Thread, Statuses
  <2>2. PICK D \in NewThreads(DrmThreads), H \in NewThreads(HdmiThreads) :
          thr' = [t \in Threads |-> IF t \in D \cup H THEN Born
                                    ELSE [thr[t] EXCEPT !.late = 0]]
    BY <1>3 DEF Start
  <2>3. ASSUME NEW t \in Threads
        PROVE  thr'[t] \in Thread /\ Len(thr'[t].q) <= MaxQueue
    <3>1. [thr[t] EXCEPT !.late = 0] \in Thread /\ [thr[t] EXCEPT !.late = 0].q = thr[t].q
      BY <1>1, ThreadAfterStart DEF Thread
    <3> QED
      BY <2>1, <2>2, <3>1, <1>1
  <2>4. thr' \in [Threads -> Thread]
    BY <2>2, <2>3
  <2>5. (\E t \in Threads : ~Ended(t)) \in BOOLEAN
    OBVIOUS
  <2>6. view' \in [conn : Events \cup {"none"}, hdcp : Events \cup {"none"},
                   overlap : BOOLEAN]
    BY <1>3, <1>1, <2>5 DEF Start
  <2> QED
    BY <1>3, <2>3, <2>4, <2>6 DEF Start, TypeOK, world
<1>4. CASE Stop
  <2>0. count' = [count EXCEPT !.stops = @ + 1] /\ count.stops + 1 \in 0 .. MaxStops
    BY <1>4, <1>1 DEF Stop
  <2>1. count' \in [changes : 0 .. MaxChanges, noise : 0 .. MaxNoise, stops : 0 .. MaxStops]
    BY <2>0, <1>1
  <2> QED
    BY <1>4, <2>1 DEF Stop, TypeOK, world
<1>5. ASSUME NEW s \in Known, ConnectorChanges(s) PROVE TypeOK'
  <2>1. count' \in [changes : 0 .. MaxChanges, noise : 0 .. MaxNoise, stops : 0 .. MaxStops]
    BY <1>5, <1>1, SMTT(30) DEF ConnectorChanges
  <2>2. unsent' \in Seq(Uevents \ {"other"})
    BY <1>5, <1>1, AppendAddsToRange DEF ConnectorChanges, Uevents
  <2> QED
    BY <1>5, <2>1, <2>2 DEF ConnectorChanges, TypeOK
<1>6. CASE HdcpChanges
  <2>1. count' \in [changes : 0 .. MaxChanges, noise : 0 .. MaxNoise, stops : 0 .. MaxStops]
    <3>1. count' = [count EXCEPT !.changes = @ + 1] /\ count.changes + 1 \in 0 .. MaxChanges
      BY <1>6, <1>1 DEF HdcpChanges
    <3> QED
      BY <3>1, <1>1
  <2>2. unsent' \in Seq(Uevents \ {"other"})
    BY <1>6, <1>1, AppendAddsToRange DEF HdcpChanges, Uevents
  <2>3. hdcp' \in 0 .. 1
    BY <1>6, <1>1 DEF HdcpChanges
  <2> QED
    BY <1>6, <2>1, <2>2, <2>3 DEF HdcpChanges, TypeOK
<1>7. CASE SendUevent
  <2>1. Head(unsent) \in Uevents \ {"other"} /\ Tail(unsent) \in Seq(Uevents \ {"other"})
    BY <1>7, <1>1, TailKeepsRange DEF SendUevent
  <2>2. thr' \in [Threads -> Thread] /\ \A t \in Threads : Len(thr'[t].q) <= MaxQueue
    BY <1>7, <2>1, TypeOfDelivered DEF SendUevent
  <2> QED
    BY <1>7, <2>1, <2>2 DEF SendUevent, TypeOK
<1>8. CASE SendNoise
  <2>1. thr' \in [Threads -> Thread] /\ \A t \in Threads : Len(thr'[t].q) <= MaxQueue
    BY <1>8, TypeOfDelivered DEF SendNoise, Uevents
  <2>2. count' \in [changes : 0 .. MaxChanges, noise : 0 .. MaxNoise, stops : 0 .. MaxStops]
    BY <1>8, <1>1, SMTT(30) DEF SendNoise
  <2> QED
    BY <1>8, <2>1, <2>2 DEF SendNoise, TypeOK, world
<1>9. ASSUME NEW t \in Threads, Step(t) PROVE TypeOK'
  <2> DEFINE th == thr'[t]
  <2>1. thr[t] \in Thread /\ Len(thr[t].q) <= MaxQueue /\ Len(thr[t].q) \in Nat
    BY <1>1, LenProperties DEF Thread
  <2>2. ASSUME HasNext(t)
        PROVE  /\ Head(thr[t].q) \in Uevents /\ Tail(thr[t].q) \in Seq(Uevents)
               /\ Len(Tail(thr[t].q)) <= MaxQueue
    BY <2>1, <2>2, TailKeepsRange DEF HasNext, Thread
  <2>3. \A q, o : o \in {"no", "pending", "draining"}
                    => Overrun(q, o) \in {"no", "pending", "draining"}
    BY DEF Overrun
  <2>4. ASSUME NEW pc \in {"check", "select", "close", "ended"}, Goto(t, pc)
        PROVE  /\ thr' = [thr EXCEPT ![t] = [thr[t] EXCEPT !.pc = pc]]
               /\ [thr[t] EXCEPT !.pc = pc] \in Thread
               /\ Len([thr[t] EXCEPT !.pc = pc].q) <= MaxQueue
    BY <2>1, <2>4, <1>1 DEF Goto, Thread
  <2>5. CASE Open(t)
    BY <2>5, <2>4, TypeOfStep DEF Open
  <2>6. CASE OpenFails(t)
    BY <2>6, <2>4, TypeOfStep DEF OpenFails
  <2>7. CASE CheckAlive(t)
    <3>1. CASE alive
      BY <3>1, <2>7, <2>4, TypeOfStep DEF CheckAlive
    <3>2. CASE ~alive
      BY <3>2, <2>7, <2>4, TypeOfStep DEF CheckAlive
    <3> QED
      BY <3>1, <3>2
  <2>8. CASE SelectTimeout(t)
    BY <2>8, <2>4, TypeOfStep DEF SelectTimeout, Again
  <2>9. CASE Close(t)
    <3>1. /\ [NoThread EXCEPT !.pc = "ended"] \in Thread
          /\ Len([NoThread EXCEPT !.pc = "ended"].q) <= MaxQueue
      BY ThreadAfterClose
    <3> QED
      BY <2>9, <3>1, TypeOfStep DEF Close
  <2>10. CASE Notify(t)
    <3>1. CASE cb
      <4> DEFINE new == [thr[t] EXCEPT !.pc = "check", !.told = thr[t].event,
                           !.mute = FALSE, !.late = IF alive THEN 0 ELSE @ + 1]
      <4>1. new \in Thread /\ new.q = thr[t].q
        <5>1. (IF alive THEN 0 ELSE thr[t].late + 1) \in Nat /\ FALSE \in BOOLEAN
              /\ thr[t].event \in Events \cup {"none"}
          BY <2>1 DEF Thread
        <5>2. new \in Thread
          BY <5>1, <2>1, ThreadAfterNotify
        <5> QED
          BY <5>2, <2>1 DEF Thread
      <4>2. thr' = [thr EXCEPT ![t] = new]
        BY <2>10, <3>1, <1>1 DEF Notify, Again
      <4>3. view' \in [conn : Events \cup {"none"}, hdcp : Events \cup {"none"},
                       overlap : BOOLEAN]
        <5>1. thr[t].event \in Events \cup {"none"}
          BY <2>1 DEF Thread
        <5>2. \/ view' = [view EXCEPT !.conn = thr[t].event]
              \/ view' = [view EXCEPT !.hdcp = thr[t].event]
          BY <2>10, <3>1 DEF Notify
        <5> QED
          BY <5>1, <5>2, <1>1
      <4>4. thr' \in [Threads -> Thread] /\ \A u \in Threads : Len(thr'[u].q) <= MaxQueue
        BY <4>1, <4>2, <1>1
      <4> QED
        BY <2>10, <4>3, <4>4 DEF Notify, TypeOK, world
    <3>2. CASE ~cb
      <4> DEFINE new == [thr[t] EXCEPT !.pc = "check", !.mute = TRUE]
      <4>1. new \in Thread /\ new.q = thr[t].q
        BY <2>1 DEF Thread
      <4>2. thr' = [thr EXCEPT ![t] = new]
        BY <2>10, <3>2, <1>1 DEF Notify, Again
      <4> QED
        BY <2>10, <3>2, <4>1, <4>2, <2>1, TypeOfStep DEF Notify
    <3> QED
      BY <3>1, <3>2
  <2>11. CASE ReceiveNothing(t)
    <3> DEFINE new == [thr[t] EXCEPT !.overrun = Overrun(thr[t].q, @),
                                     !.pre = "unknown", !.pc = "check"]
    <3>1. new \in Thread /\ new.q = thr[t].q
      BY <2>1, <2>3 DEF Thread, Statuses
    <3>2. thr' = [thr EXCEPT ![t] = new]
      BY <2>11, <1>1 DEF ReceiveNothing, Again
    <3> QED
      BY <2>11, <3>1, <3>2, <2>1, TypeOfStep DEF ReceiveNothing
  <2>12. CASE ReceiveHotplug(t)
    <3> DEFINE new == [thr[t] EXCEPT !.q = Tail(@), !.overrun = Overrun(Tail(thr[t].q), @),
                         !.pc = IF Head(thr[t].q) = "hotplug" THEN "read" ELSE "check"]
    <3>1. new \in Thread /\ new.q = Tail(thr[t].q)
      BY <2>12, <2>1, <2>2, <2>3 DEF Thread, ReceiveHotplug
    <3>2. thr' = [thr EXCEPT ![t] = new]
      BY <2>12, <1>1 DEF ReceiveHotplug, Again
    <3> QED
      BY <2>12, <3>1, <3>2, <2>2, TypeOfStep DEF ReceiveHotplug
  <2>13. CASE ReadStatus(t)
    <3>1. PICK s \in StatusRead :
            thr' = [thr EXCEPT ![t].pc = IF s # thr[t].pre THEN "notify" ELSE Again,
                               ![t].pre = s, ![t].event = EventOf(s), ![t].woken = TRUE]
      BY <2>13 DEF ReadStatus
    <3>2. s \in Statuses /\ EventOf(s) \in Events
      BY <1>1 DEF StatusRead, Statuses, Known, EventOf, Events
    <3> DEFINE new == [thr[t] EXCEPT !.pc = IF s # thr[t].pre THEN "notify" ELSE "check",
                         !.pre = s, !.event = EventOf(s), !.woken = TRUE]
    <3>3. new \in Thread /\ new.q = thr[t].q
      BY <3>2, <2>1 DEF Thread
    <3>4. thr' = [thr EXCEPT ![t] = new]
      BY <3>1, <1>1 DEF Again
    <3> QED
      BY <2>13, <3>3, <3>4, <2>1, TypeOfStep DEF ReadStatus
  <2>14. CASE ReceiveNothingHdmi(t)
    <3> DEFINE new == [thr[t] EXCEPT !.overrun = Overrun(thr[t].q, @), !.pc = "check"]
    <3>1. new \in Thread /\ new.q = thr[t].q
      BY <2>1, <2>3 DEF Thread
    <3>2. thr' = [thr EXCEPT ![t] = new]
      BY <2>14, <1>1 DEF ReceiveNothingHdmi, Again
    <3> QED
      BY <2>14, <3>1, <3>2, <2>1, TypeOfStep DEF ReceiveNothingHdmi
  <2>15. CASE ReceiveHdcp(t)
    <3> DEFINE q == Tail(thr[t].q)
               cur == Carried(Head(thr[t].q), thr[t].cur)
               o == Overrun(Tail(thr[t].q), thr[t].overrun)
               w == thr[t].woken \/ Head(thr[t].q) # "other"
               pc == IF cur # thr[t].pre01 THEN "notify" ELSE "check"
               e == IF cur = 1 THEN "AUTHENTICATED" ELSE "AUTHENTICATIONFAILURE"
               new == [thr[t] EXCEPT !.q = q, !.cur = cur, !.pre01 = cur, !.overrun = o,
                                     !.woken = w, !.pc = pc, !.event = e]
    <3>1. /\ q \in Seq(Uevents) /\ Len(q) <= MaxQueue /\ cur \in 0 .. 1
          /\ o \in {"no", "pending", "draining"} /\ pc \in {"notify", "check"}
      <4>1. q \in Seq(Uevents) /\ Len(q) <= MaxQueue /\ o \in {"no", "pending", "draining"}
        <5>1. HasNext(t)
          BY <2>15 DEF ReceiveHdcp
        <5>2. thr[t].overrun \in {"no", "pending", "draining"}
          BY <2>1 DEF Thread
        <5> QED
          BY <5>1, <5>2, <2>2, <2>3
      <4>2. thr[t].cur \in 0 .. 1
        BY <2>1 DEF Thread
      <4>3. cur \in 0 .. 1
        BY <4>2 DEF Carried
      <4>4. pc \in {"notify", "check"}
        OBVIOUS
      <4> QED
        BY <4>1, <4>3, <4>4
    <3>2. w \in BOOLEAN /\ e \in Events
      BY DEF Events
    <3>3. thr' = [thr EXCEPT ![t] = new]
      BY <2>15, <1>1, ZenonT(60) DEF ReceiveHdcp, Again
    <3>4. new \in Thread /\ new.q = q
      <4> HIDE DEF q, cur, o, w, pc, e
      <4>1. new \in Thread
        BY <3>1, <3>2, <2>1 DEF Thread
      <4> QED
        BY <4>1, <2>1 DEF Thread
    <3> QED
      BY <2>15, <3>1, <3>3, <3>4, TypeOfStep DEF ReceiveHdcp
  <2> QED
    BY <1>9, <2>5, <2>6, <2>7, <2>8, <2>9, <2>10, <2>11, <2>12, <2>13, <2>14, <2>15
       DEF Step
<1>10. CASE UNCHANGED vars
  BY <1>10 DEF vars, world, TypeOK
<1> QED
  BY <1>2, <1>3, <1>4, <1>5, <1>6, <1>7, <1>8, <1>9, <1>10 DEF Next

(* Every variable of the monitor keeps its type, and no socket ever holds  *)
(* more than it can, whatever the application and the kernel do.           *)
THEOREM TypeCorrect == Spec => []TypeOK
<1>1. Init => TypeOK
  BY TypeInit
<1>2. TypeOK /\ [Next]_vars => TypeOK'
  BY TypeNext
<1> QED
  BY <1>1, <1>2, PTL DEF Spec
-----------------------------------------------------------------------------
(* A thread that has called back since the monitor was stopped is on its   *)
(* way to the flag, or has seen it and closes.                             *)
LateInv ==
  \A t \in Threads :
    \/ thr[t].late = 0
    \/ ~alive /\ thr[t].late = 1 /\ thr[t].pc \in {"check", "close"}

(* What one step of the thread u does to its record and to the others.     *)
LEMMA OthersKept ==
  ASSUME TypeOK, NEW u \in Threads, Step(u)
  PROVE  /\ \A t \in Threads \ {u} : thr'[t] = thr[t]
         /\ UNCHANGED <<alive, status, unsent>>
<1> USE DEF TypeOK, world
<1>1. CASE Open(u) \/ OpenFails(u) \/ CheckAlive(u) \/ SelectTimeout(u) \/ Close(u)
  BY <1>1 DEF Open, OpenFails, CheckAlive, SelectTimeout, Close, Goto
<1>2. CASE Notify(u)
  <2>1. CASE cb
    BY <1>2, <2>1 DEF Notify
  <2>2. CASE ~cb
    BY <1>2, <2>2 DEF Notify
  <2> QED
    BY <2>1, <2>2
<1>3. CASE ReceiveNothing(u) \/ ReceiveHotplug(u)
  BY <1>3 DEF ReceiveNothing, ReceiveHotplug
<1>4. CASE ReadStatus(u)
  BY <1>4 DEF ReadStatus
<1>5. CASE ReceiveNothingHdmi(u) \/ ReceiveHdcp(u)
  BY <1>5 DEF ReceiveNothingHdmi, ReceiveHdcp
<1> QED
  BY <1>1, <1>2, <1>3, <1>4, <1>5 DEF Step

LEMMA LateNext ==
  ASSUME TypeOK, LateInv, [Next]_vars
  PROVE  LateInv'
<1>1. thr \in [Threads -> Thread] /\ alive \in BOOLEAN
  BY DEF TypeOK
<1>2. ASSUME alive' = alive,
             \A t \in Threads : thr'[t].late = thr[t].late /\ thr'[t].pc = thr[t].pc
      PROVE  LateInv'
  BY <1>2 DEF LateInv
<1>3. ASSUME thr' = thr, alive' = alive PROVE LateInv'
  BY <1>2, <1>3
<1>4. CASE Register \/ HdcpChanges \/ \E s \in Known : ConnectorChanges(s)
  BY <1>3, <1>4 DEF Register, HdcpChanges, ConnectorChanges, world
<1>5. CASE Start
  <2>1. ASSUME NEW t \in Threads PROVE thr'[t].late = 0
    <3>1. thr'[t] = Born \/ thr'[t] = [thr[t] EXCEPT !.late = 0]
      BY <1>5, <2>1 DEF Start
    <3>2. Born.late = 0 /\ [thr[t] EXCEPT !.late = 0].late = 0
      BY <1>1, <2>1 DEF Born, Thread
    <3> QED
      BY <3>1, <3>2
  <2> QED
    BY <2>1 DEF LateInv
<1>6. CASE Stop
  BY <1>6 DEF Stop, LateInv
<1>7. ASSUME NEW u, thr' = Delivered(u), alive' = alive PROVE LateInv'
  <2>1. ASSUME NEW t \in Threads
        PROVE  thr'[t].late = thr[t].late /\ thr'[t].pc = thr[t].pc
    <3>1. thr[t] \in Thread
      BY <1>1
    <3> QED
      BY <3>1, <1>7 DEF Delivered, Thread
  <2> QED
    BY <2>1, <1>2, <1>7
<1>8. CASE SendUevent \/ SendNoise
  BY <1>7, <1>8 DEF SendUevent, SendNoise
<1>9. ASSUME NEW u \in Threads, Step(u) PROVE LateInv'
  <2>1. thr[u] \in Thread /\ alive' = alive /\ \A t \in Threads \ {u} : thr'[t] = thr[t]
    BY <1>1, <1>9, OthersKept
  <2>2. SUFFICES \/ thr'[u].late = 0
                 \/ ~alive /\ thr'[u].late = 1 /\ thr'[u].pc \in {"check", "close"}
    BY <2>1 DEF LateInv
  <2>3. \/ thr[u].late = 0
        \/ ~alive /\ thr[u].late = 1 /\ thr[u].pc \in {"check", "close"}
    BY DEF LateInv
  <2>4. CASE Open(u) \/ OpenFails(u)
    BY <2>4, <2>3, <1>1 DEF Open, OpenFails, At, Goto, Thread
  <2>5. CASE CheckAlive(u)
    BY <2>5, <2>3, <1>1 DEF CheckAlive, At, Goto, Thread
  <2>6. CASE SelectTimeout(u)
    BY <2>6, <2>3, <1>1 DEF SelectTimeout, At, Goto, Thread
  <2>7. CASE Close(u)
    <3>1. thr'[u] = [NoThread EXCEPT !.pc = "ended"]
      BY <2>7, <1>1 DEF Close
    <3> QED
      BY <3>1 DEF NoThread
  <2>8. CASE Notify(u)
    <3>1. thr[u].late = 0
      BY <2>8, <2>3 DEF Notify, At
    <3>2. CASE cb
      BY <2>8, <3>1, <3>2, <1>1 DEF Notify, Again, Thread
    <3>3. CASE ~cb
      BY <2>8, <3>1, <3>3, <1>1 DEF Notify, Again, Thread
    <3> QED
      BY <3>2, <3>3
  <2>9. CASE ReceiveNothing(u) \/ ReceiveNothingHdmi(u)
    BY <2>9, <2>3, <1>1 DEF ReceiveNothing, ReceiveNothingHdmi, At, Thread
  <2>10. CASE ReceiveHotplug(u)
    BY <2>10, <2>3, <1>1 DEF ReceiveHotplug, At, Thread
  <2>11. CASE ReadStatus(u)
    BY <2>11, <2>3, <1>1 DEF ReadStatus, At, Thread
  <2>12. CASE ReceiveHdcp(u)
    BY <2>12, <2>3, <1>1, ZenonT(60) DEF ReceiveHdcp, At, Thread
  <2> QED
    BY <1>9, <2>4, <2>5, <2>6, <2>7, <2>8, <2>9, <2>10, <2>11, <2>12 DEF Step
<1>10. CASE UNCHANGED vars
  BY <1>3, <1>10 DEF vars
<1> QED
  BY <1>4, <1>5, <1>6, <1>8, <1>9, <1>10 DEF Next

(* stopDisplayUeventMonitor waits for nobody, but whatever a thread was    *)
(* doing, it calls back at most once before it looks at the flag and goes. *)
THEOREM LateCallbacks == Spec => []AtMostOneLateCallback
<1>1. Init => LateInv
  BY DEF Init, LateInv, NoThread
<1>2. TypeOK /\ LateInv /\ [Next]_vars => LateInv'
  BY LateNext
<1>3. TypeOK /\ LateInv => AtMostOneLateCallback
  BY DEF TypeOK, LateInv, AtMostOneLateCallback
<1> QED
  BY <1>1, <1>2, <1>3, TypeCorrect, PTL DEF Spec
-----------------------------------------------------------------------------
(* A hotplug that the thread t has not answered yet: it is still to be     *)
(* sent, or waits in the socket, or was lost, or has just been taken.      *)
Announced(t) ==
  \/ thr[t].missed
  \/ "hotplug" \in Range(unsent)
  \/ "hotplug" \in Range(thr[t].q)
  \/ thr[t].pc = "read"

(* What the thread t knows: its event is the status, unless a change is    *)
(* announced to it; what it told the application is its event, unless it   *)
(* is about to tell it; and the status it compares with is the one the     *)
(* event was made from, so that skipping an equal one loses nothing.       *)
Knows(t) ==
  /\ thr[t].woken /\ Receiving(t) /\ ~Announced(t) => thr[t].event = EventOf(status)
  /\ thr[t].woken /\ thr[t].pc # "notify" /\ ~thr[t].mute => thr[t].told = thr[t].event
  /\ thr[t].pre \in Known => thr[t].woken /\ thr[t].event = EventOf(thr[t].pre)
  /\ thr[t].pc = "new" => ~thr[t].woken

ReportInv == \A t \in DrmThreads : Knows(t)

(* A thread whose part of the state a step leaves alone, or of whose part  *)
(* the step changes nothing that Knows speaks of.                          *)
LEMMA KnowsKept ==
  ASSUME TypeOK, NEW t \in DrmThreads, Knows(t), UNCHANGED <<status, unsent>>,
         thr'[t].pc = thr[t].pc, thr'[t].q = thr[t].q, thr'[t].pre = thr[t].pre,
         thr'[t].event = thr[t].event, thr'[t].told = thr[t].told,
         thr'[t].mute = thr[t].mute, thr'[t].woken = thr[t].woken,
         thr'[t].missed = thr[t].missed
  PROVE  Knows(t)'
BY DEF Knows, Receiving, Announced

LEMMA KnowsUnborn ==
  ASSUME NEW t \in DrmThreads, ~thr'[t].woken, thr'[t].pre = "unknown"
  PROVE  Knows(t)'
BY DEF Knows, Known

LEMMA KnowsNext ==
  ASSUME "read" \notin MayFail, TypeOK, ReportInv, [Next]_vars
  PROVE  ReportInv'
<1> SUFFICES ASSUME NEW t \in DrmThreads PROVE Knows(t)'
  BY DEF ReportInv
<1>1. /\ t \in Threads /\ thr[t] \in Thread /\ thr \in [Threads -> Thread]
      /\ status \in Known /\ unsent \in Seq(Uevents \ {"other"}) /\ Knows(t)
      /\ thr[t].q \in Seq(Uevents)
  BY DEF TypeOK, ReportInv, Threads, Thread
<1>2. CASE thr'[t] = thr[t] /\ UNCHANGED <<status, unsent>>
  BY <1>1, <1>2, KnowsKept
<1>3. CASE Register \/ Stop
  BY <1>2, <1>3 DEF Register, Stop, world
<1>4. CASE Start
  <2>1. thr'[t] = Born \/ thr'[t] = [thr[t] EXCEPT !.late = 0]
    BY <1>1, <1>4 DEF Start
  <2>2. CASE thr'[t] = Born
    <3>1. ~thr'[t].woken /\ thr'[t].pre = "unknown"
      BY <2>2 DEF Born
    <3> QED
      BY <3>1, KnowsUnborn
  <2>3. CASE thr'[t] = [thr[t] EXCEPT !.late = 0]
    BY <1>1, <1>4, <2>3, KnowsKept DEF Start, world, Thread
  <2> QED
    BY <2>1, <2>2, <2>3
<1>5. ASSUME NEW s \in Known, ConnectorChanges(s) PROVE Knows(t)'
  <2>1. "hotplug" \in Range(unsent)' /\ thr' = thr
    BY <1>1, <1>5, AppendAddsToRange DEF ConnectorChanges, Uevents
  <2> QED
    BY <1>1, <2>1 DEF Knows, Announced, Receiving
<1>6. CASE HdcpChanges
  <2>1. Range(unsent) \subseteq Range(unsent)'
    BY <1>1, <1>6, AppendAddsToRange DEF HdcpChanges, Uevents
  <2> QED
    BY <1>1, <1>6, <2>1 DEF HdcpChanges, Knows, Announced, Receiving
<1>7. ASSUME NEW u \in Uevents, thr' = Delivered(u), status' = status,
             "hotplug" \in Range(unsent) => "hotplug" \in Range(unsent)' \/ u = "hotplug"
      PROVE  Knows(t)'
  <2>1. /\ thr'[t].pc = thr[t].pc /\ thr'[t].pre = thr[t].pre
        /\ thr'[t].event = thr[t].event /\ thr'[t].told = thr[t].told
        /\ thr'[t].mute = thr[t].mute /\ thr'[t].woken = thr[t].woken
    BY <1>1, <1>7 DEF Delivered, Thread
  <2>2. ASSUME Receiving(t), Announced(t) PROVE Announced(t)'
    <3>1. CASE ~Matches(t, u)
      <4>1. thr'[t] = thr[t] /\ u # "hotplug"
        BY <1>1, <1>7, <3>1 DEF Delivered, Matches, Wanted
      <4> QED
        BY <1>7, <2>2, <4>1 DEF Announced
    <3>2. CASE Matches(t, u) /\ Taken(thr[t])
      <4>1. /\ thr'[t].q = Append(thr[t].q, u) /\ thr'[t].missed = Missed(t, u)
        BY <1>1, <1>7, <2>2, <3>2 DEF Delivered, Thread
      <4>2. Range(thr'[t].q) = Range(thr[t].q) \cup {u}
        BY <1>1, <1>7, <4>1, AppendAddsToRange
      <4>3. CASE u = "hotplug"
        BY <4>2, <4>3 DEF Announced
      <4>4. CASE u # "hotplug"
        <5>1. u = "other"
          BY <1>1, <3>2, <4>4 DEF Matches, Wanted
        <5>2. thr'[t].missed = thr[t].missed
          BY <4>1, <5>1 DEF Missed
        <5> QED
          BY <1>7, <2>1, <2>2, <4>2, <4>4, <5>2 DEF Announced
      <4> QED
        BY <4>3, <4>4
    <3>3. CASE Matches(t, u) /\ ~Taken(thr[t])
      <4>1. thr'[t].q = thr[t].q /\ thr'[t].missed = Missed(t, u)
        BY <1>1, <1>7, <2>2, <3>3 DEF Delivered, Thread
      <4>2. CASE u = "hotplug"
        <5>1. Missed(t, u) = ~("hotplug" \in Range(thr[t].q))
          BY <3>3, <4>2 DEF Missed
        <5> QED
          BY <4>1, <5>1 DEF Announced
      <4>3. CASE u # "hotplug"
        <5>1. u = "other"
          BY <1>1, <3>3, <4>3 DEF Matches, Wanted
        <5>2. thr'[t].missed = thr[t].missed
          BY <4>1, <5>1 DEF Missed
        <5> QED
          BY <1>7, <2>1, <2>2, <4>1, <4>3, <5>2 DEF Announced
      <4> QED
        BY <4>2, <4>3
    <3> QED
      BY <3>1, <3>2, <3>3
  <2> QED
    BY <1>1, <1>7, <2>1, <2>2 DEF Knows, Receiving
<1>8. CASE SendUevent
  <2>1. Head(unsent) \in Uevents /\ Range(unsent) = {Head(unsent)} \cup Range(Tail(unsent))
    BY <1>1, <1>8, TailKeepsRange DEF SendUevent
  <2> QED
    BY <1>7, <1>8, <2>1 DEF SendUevent
<1>9. CASE SendNoise
  BY <1>7, <1>9 DEF SendNoise, Uevents, world
<1>10. ASSUME NEW u \in Threads, Step(u) PROVE Knows(t)'
  <2>1. UNCHANGED <<status, unsent>> /\ (u # t => thr'[t] = thr[t])
    BY <1>1, <1>10, OthersKept
  <2>2. CASE u # t
    BY <1>2, <2>1, <2>2
  <2> SUFFICES ASSUME Step(t) PROVE Knows(t)'
    BY <1>10, <2>2
  <2>3. t \notin HdmiThreads
    BY EventAssumption
  <2>4. CASE Open(t)
    <3>1. thr[t].pc = "new" /\ ~thr[t].woken
      BY <1>1, <2>4 DEF Open, At, Knows
    <3>2. thr'[t].woken = thr[t].woken /\ thr'[t].pre = thr[t].pre
      BY <1>1, <2>4 DEF Open, Goto, Thread
    <3>3. thr[t].pre = "unknown"
      BY <1>1, <3>1 DEF Knows, Thread, Known
    <3> QED
      BY <3>1, <3>2, <3>3, KnowsUnborn
  <2>5. CASE OpenFails(t)
    <3>1. thr'[t].pc = "ended" /\ thr'[t].woken = thr[t].woken /\ thr'[t].pre = thr[t].pre
          /\ thr[t].pc = "new"
      BY <1>1, <2>5 DEF OpenFails, At, Goto, Thread
    <3>2. ~thr[t].woken /\ thr[t].pre = "unknown"
      BY <1>1, <3>1 DEF Knows, Thread, Known
    <3> QED
      BY <3>1, <3>2, KnowsUnborn
  <2>6. CASE CheckAlive(t)
    <3>1. /\ thr[t].pc = "check" /\ thr'[t].pc \in {"select", "close"}
          /\ thr'[t] = [thr[t] EXCEPT !.pc = thr'[t].pc]
      BY <1>1, <2>6 DEF CheckAlive, At, Goto, Thread
    <3> QED
      BY <1>1, <2>1, <3>1 DEF Knows, Announced, Receiving, Thread
  <2>7. CASE SelectTimeout(t)
    <3>1. thr[t].pc = "select" /\ thr'[t] = [thr[t] EXCEPT !.pc = "check"]
      BY <1>1, <2>7 DEF SelectTimeout, At, Goto, Again
    <3> QED
      BY <1>1, <2>1, <3>1 DEF Knows, Announced, Receiving, Thread
  <2>8. CASE Close(t)
    <3>1. thr'[t] = [NoThread EXCEPT !.pc = "ended"]
      BY <1>1, <2>8 DEF Close
    <3>2. ~thr'[t].woken /\ thr'[t].pre = "unknown"
      BY <3>1 DEF NoThread
    <3> QED
      BY <3>2, KnowsUnborn
  <2>9. CASE Notify(t)
    <3>1. thr[t].pc = "notify" /\ thr'[t].pc = "check"
          /\ (thr'[t].told = thr[t].event \/ thr'[t].mute)
          /\ thr'[t].q = thr[t].q /\ thr'[t].pre = thr[t].pre
          /\ thr'[t].event = thr[t].event /\ thr'[t].woken = thr[t].woken
          /\ thr'[t].missed = thr[t].missed
      <4>1. CASE cb
        BY <1>1, <2>9, <4>1 DEF Notify, At, Again, Thread
      <4>2. CASE ~cb
        BY <1>1, <2>9, <4>2 DEF Notify, At, Again, Thread
      <4> QED
        BY <4>1, <4>2
    <3> QED
      BY <1>1, <2>1, <3>1 DEF Knows, Announced, Receiving
  <2>10. CASE ReceiveNothing(t)
    <3>1. /\ thr[t].pc = "select" /\ thr'[t].pc = "check" /\ thr'[t].pre = "unknown"
          /\ thr'[t].q = thr[t].q /\ thr'[t].event = thr[t].event
          /\ thr'[t].told = thr[t].told /\ thr'[t].mute = thr[t].mute
          /\ thr'[t].woken = thr[t].woken /\ thr'[t].missed = thr[t].missed
      BY <1>1, <2>10 DEF ReceiveNothing, At, Again, Thread
    <3> QED
      BY <1>1, <2>1, <3>1 DEF Knows, Announced, Receiving, Known
  <2>11. CASE ReceiveHotplug(t)
    <3>1. /\ thr[t].pc = "select" /\ thr'[t].q = Tail(thr[t].q)
          /\ thr'[t].pc = IF Head(thr[t].q) = "hotplug" THEN "read" ELSE "check"
          /\ thr'[t].pre = thr[t].pre /\ thr'[t].event = thr[t].event
          /\ thr'[t].told = thr[t].told /\ thr'[t].mute = thr[t].mute
          /\ thr'[t].woken = thr[t].woken /\ thr'[t].missed = thr[t].missed
      BY <1>1, <2>11 DEF ReceiveHotplug, At, Again, Thread
    <3>2. Range(thr[t].q) = {Head(thr[t].q)} \cup Range(thr'[t].q)
      BY <1>1, <2>11, <3>1, TailKeepsRange DEF ReceiveHotplug, HasNext
    <3> QED
      BY <1>1, <2>1, <3>1, <3>2 DEF Knows, Announced, Receiving
  <2>12. CASE ReadStatus(t)
    <3>1. /\ thr[t].pc = "read"
          /\ thr'[t].pc = IF status # thr[t].pre THEN "notify" ELSE "check"
          /\ thr'[t].pre = status /\ thr'[t].event = EventOf(status) /\ thr'[t].woken
          /\ thr'[t].told = thr[t].told /\ thr'[t].mute = thr[t].mute
      BY <1>1, <2>12 DEF ReadStatus, StatusRead, At, Again, Thread
    <3>2. CASE status # thr[t].pre
      BY <1>1, <2>1, <3>1, <3>2 DEF Knows
    <3>3. CASE status = thr[t].pre
      <4>1. thr[t].woken /\ thr[t].event = EventOf(status)
        BY <1>1, <3>3 DEF Knows
      <4>2. ~thr[t].mute => thr[t].told = EventOf(status)
        BY <1>1, <3>1, <4>1 DEF Knows
      <4> QED
        BY <2>1, <3>1, <3>3, <4>2 DEF Knows
    <3> QED
      BY <3>2, <3>3
  <2>13. CASE ReceiveNothingHdmi(t) \/ ReceiveHdcp(t)
    BY <2>3, <2>13 DEF ReceiveNothingHdmi, ReceiveHdcp
  <2> QED
    BY <2>4, <2>5, <2>6, <2>7, <2>8, <2>9, <2>10, <2>11, <2>12, <2>13 DEF Step
<1>11. CASE UNCHANGED vars
  BY <1>2, <1>11 DEF vars, world
<1> QED
  BY <1>3, <1>4, <1>5, <1>6, <1>8, <1>9, <1>10, <1>11 DEF Next

(* As long as the connector can be read, the last report of a settled      *)
(* thread is the connector's status: however many uevents were lost,       *)
(* however the status changed while they were on their way, and whatever   *)
(* was reported when no callback was registered.                           *)
THEOREM ReportsCurrent ==
  ASSUME "read" \notin MayFail
  PROVE  Spec => []ThreadReportCurrent
<1>1. Init => ReportInv
  <2> SUFFICES ASSUME Init, NEW t \in DrmThreads PROVE Knows(t)
    BY DEF ReportInv
  <2>1. thr[t] = NoThread
    BY DEF Init, Threads
  <2> QED
    BY <2>1 DEF Knows, NoThread, Known
<1>2. TypeOK /\ ReportInv /\ [Next]_vars => ReportInv'
  BY KnowsNext
<1>3. TypeOK /\ ReportInv => ThreadReportCurrent
  <2> SUFFICES ASSUME TypeOK, ReportInv, NEW t \in DrmThreads, Settled(t)
               PROVE  thr[t].told = EventOf(status)
    BY DEF ThreadReportCurrent
  <2>1. /\ thr[t].pc = "select" /\ thr[t].woken /\ ~thr[t].missed /\ ~thr[t].mute
        /\ thr[t].q = <<>> /\ "hotplug" \notin Range(unsent)
    BY DEF Settled, At, Quiet, Wanted
  <2>2. "hotplug" \notin Range(thr[t].q)
    BY <2>1 DEF Range
  <2> QED
    BY <2>1, <2>2 DEF ReportInv, Knows, Announced, Receiving
<1> QED
  BY <1>1, <1>2, <1>3, TypeCorrect, PTL DEF Spec
-----------------------------------------------------------------------------
(* A uevent that carries the HDCP state v, and that v is what the last     *)
(* such uevent of s carries.                                               *)
Hdcps     == {"hdcp0", "hdcp1"}
Carries(v) == IF v = 1 THEN "hdcp1" ELSE "hdcp0"
LastCarries(s, v) ==
  \E k \in DOMAIN s : /\ s[k] = Carries(v)
                      /\ \A j \in DOMAIN s : s[j] \in Hdcps => j <= k

(* What the thread t of hdmitx knows: the last uevent on its way carries   *)
(* the state; if there is none, and the last was not lost, it is in the    *)
(* socket; if there is none there either, the thread has taken it.  What   *)
(* the thread told last is what it has taken, unless it is about to tell.  *)
UnsentRight == Range(unsent) \cap Hdcps # {} => LastCarries(unsent, hdcp)

KnowsHdcp(t) ==
  /\ Receiving(t) /\ ~thr[t].missed /\ Range(unsent) \cap Hdcps = {} =>
       /\ Range(thr[t].q) \cap Hdcps # {} => LastCarries(thr[t].q, hdcp)
       /\ Range(thr[t].q) \cap Hdcps = {} /\ thr[t].woken => thr[t].cur = hdcp
  /\ "hotplug" \notin Range(thr[t].q)
  /\ thr[t].cur = thr[t].pre01
  /\ thr[t].pc = "new" => thr[t].q = <<>> /\ ~thr[t].woken
  /\ thr[t].pc = "notify" =>
       thr[t].event = IF thr[t].cur = 1 THEN "AUTHENTICATED" ELSE "AUTHENTICATIONFAILURE"
  /\ thr[t].pc # "notify" /\ ~thr[t].mute => (thr[t].told = "AUTHENTICATED" <=> thr[t].cur = 1)

HdcpInv == UnsentRight /\ \A t \in HdmiThreads : KnowsHdcp(t)

-----------------------------------------------------------------------------
LEMMA LastAppended ==
  ASSUME NEW S, NEW q \in Seq(S), NEW e \in S, NEW v
  PROVE  /\ e = Carries(v) => LastCarries(Append(q, e), v)
         /\ e \notin Hdcps /\ LastCarries(q, v) => LastCarries(Append(q, e), v)
<1>1. /\ Append(q, e) \in Seq(S) /\ Len(Append(q, e)) = Len(q) + 1
      /\ \A k \in 1 .. Len(q) : Append(q, e)[k] = q[k]
      /\ Append(q, e)[Len(q) + 1] = e
  BY AppendProperties
<1>2. /\ Len(q) \in Nat /\ DOMAIN q = 1 .. Len(q)
      /\ DOMAIN Append(q, e) = 1 .. (Len(q) + 1)
  BY <1>1, LenProperties
<1>3. ASSUME e = Carries(v) PROVE LastCarries(Append(q, e), v)
  BY <1>1, <1>2, <1>3 DEF LastCarries
<1>4. ASSUME e \notin Hdcps, LastCarries(q, v) PROVE LastCarries(Append(q, e), v)
  <2>1. PICK k \in DOMAIN q : q[k] = Carries(v) /\ \A j \in DOMAIN q : q[j] \in Hdcps => j <= k
    BY <1>4 DEF LastCarries
  <2>2. ASSUME NEW j \in DOMAIN Append(q, e), Append(q, e)[j] \in Hdcps PROVE j <= k
    <3>1. j \in DOMAIN q /\ q[j] \in Hdcps
      BY <1>1, <1>2, <1>4, <2>2
    <3> QED
      BY <2>1, <3>1
  <2> QED
    BY <1>1, <1>2, <2>1, <2>2 DEF LastCarries
<1> QED
  BY <1>3, <1>4

LEMMA LastOfTail ==
  ASSUME NEW S, NEW q \in Seq(S), q # <<>>, NEW v, LastCarries(q, v)
  PROVE  /\ Range(Tail(q)) \cap Hdcps # {} => LastCarries(Tail(q), v)
         /\ Range(Tail(q)) \cap Hdcps = {} => Head(q) = Carries(v)
<1>1. /\ Tail(q) \in Seq(S) /\ Len(Tail(q)) = Len(q) - 1
      /\ \A j \in 1 .. Len(Tail(q)) : Tail(q)[j] = q[j + 1]
      /\ Len(q) \in Nat /\ Len(q) > 0 /\ Head(q) = q[1]
  BY HeadTailProperties, EmptySeq, LenProperties, TailKeepsRange
<1>2. DOMAIN q = 1 .. Len(q) /\ DOMAIN Tail(q) = 1 .. (Len(q) - 1)
  BY <1>1, LenProperties
<1>3. PICK k \in DOMAIN q : q[k] = Carries(v) /\ \A j \in DOMAIN q : q[j] \in Hdcps => j <= k
  BY DEF LastCarries
<1>4. CASE k = 1
  <2>1. \A j \in DOMAIN Tail(q) : Tail(q)[j] \notin Hdcps
    BY <1>1, <1>2, <1>3, <1>4
  <2>2. Range(Tail(q)) \cap Hdcps = {}
    BY <2>1 DEF Range
  <2> QED
    BY <1>1, <1>3, <1>4, <2>2
<1>5. CASE k # 1
  <2>1. k - 1 \in DOMAIN Tail(q) /\ Tail(q)[k - 1] = Carries(v)
    BY <1>1, <1>2, <1>3, <1>5
  <2>2. \A j \in DOMAIN Tail(q) : Tail(q)[j] \in Hdcps => j <= k - 1
    BY <1>1, <1>2, <1>3, <1>5
  <2>3. Range(Tail(q)) \cap Hdcps # {}
    BY <2>1 DEF Range, Carries, Hdcps
  <2> QED
    BY <2>1, <2>2, <2>3 DEF LastCarries
<1> QED
  BY <1>4, <1>5

(* The last uevent of HDCP that is still to be sent carries its state.     *)
LEMMA UnsentNext ==
  ASSUME TypeOK, UnsentRight, [Next]_vars
  PROVE  UnsentRight'
<1>1. unsent \in Seq(Uevents \ {"other"}) /\ hdcp \in 0 .. 1
  BY DEF TypeOK
<1>2. CASE UNCHANGED <<unsent, hdcp>>
  BY <1>2 DEF UnsentRight
<1>3. CASE Register \/ Start \/ Stop \/ SendNoise
  BY <1>2, <1>3 DEF Register, Start, Stop, SendNoise, world
<1>4. ASSUME NEW s \in Known, ConnectorChanges(s) PROVE UnsentRight'
  <2>1. /\ unsent' = Append(unsent, "hotplug") /\ hdcp' = hdcp
        /\ "hotplug" \in Uevents \ {"other"} /\ "hotplug" \notin Hdcps
    BY <1>4 DEF ConnectorChanges, Uevents, Hdcps
  <2>2. Range(unsent') = Range(unsent) \cup {"hotplug"}
    BY <1>1, <2>1, AppendAddsToRange
  <2>3. LastCarries(unsent, hdcp) => LastCarries(Append(unsent, "hotplug"), hdcp)
    BY <1>1, <2>1, LastAppended
  <2> QED
    BY <2>1, <2>2, <2>3 DEF UnsentRight
<1>5. CASE HdcpChanges
  <2>1. PICK v \in 0 .. 1 : v = 1 - hdcp
    BY <1>1
  <2>2. unsent' = Append(unsent, Carries(v)) /\ hdcp' = v /\ Carries(v) \in Uevents \ {"other"}
    BY <1>1, <1>5, <2>1 DEF HdcpChanges, Carries, Uevents
  <2>3. LastCarries(Append(unsent, Carries(v)), v)
    BY <1>1, <2>2, LastAppended
  <2> QED
    BY <2>2, <2>3 DEF UnsentRight
<1>6. CASE SendUevent
  <2>1. unsent # <<>> /\ unsent' = Tail(unsent) /\ hdcp' = hdcp
    BY <1>6 DEF SendUevent
  <2>2. Range(unsent) = {Head(unsent)} \cup Range(Tail(unsent))
    BY <1>1, <2>1, TailKeepsRange
  <2>3. ASSUME Range(Tail(unsent)) \cap Hdcps # {} PROVE LastCarries(Tail(unsent), hdcp)
    <3>1. LastCarries(unsent, hdcp)
      BY <2>2, <2>3 DEF UnsentRight
    <3> QED
      BY <1>1, <2>1, <2>3, <3>1, LastOfTail
  <2> QED
    BY <2>1, <2>3 DEF UnsentRight
<1>7. ASSUME NEW t \in Threads, Step(t) PROVE UnsentRight'
  <2>1. UNCHANGED world
    <3>1. CASE Notify(t)
      BY <3>1 DEF Notify
    <3>2. CASE ~Notify(t)
      BY <1>7, <3>2 DEF Step, Open, OpenFails, CheckAlive, SelectTimeout, Close, ReceiveNothing,
              ReceiveHotplug, ReadStatus, ReceiveNothingHdmi, ReceiveHdcp
    <3> QED
      BY <3>1, <3>2
  <2> QED
    BY <1>2, <2>1 DEF world
<1>8. CASE UNCHANGED vars
  BY <1>2, <1>8 DEF vars, world
<1> QED
  BY <1>3, <1>4, <1>5, <1>6, <1>7, <1>8 DEF Next

(* A step of the kernel or of the application: the thread keeps what it    *)
(* knows if its record does not change in a part that KnowsHdcp speaks of, *)
(* and the uevents to be sent are the same or have got one of HDCP.        *)
LEMMA KnowsHdcpKept ==
  ASSUME NEW t \in HdmiThreads, KnowsHdcp(t),
         Range(unsent)' \cap Hdcps = {} => Range(unsent) \cap Hdcps = {} /\ hdcp' = hdcp,
         thr'[t].pc = thr[t].pc, thr'[t].q = thr[t].q, thr'[t].cur = thr[t].cur,
         thr'[t].pre01 = thr[t].pre01, thr'[t].event = thr[t].event,
         thr'[t].told = thr[t].told, thr'[t].mute = thr[t].mute,
         thr'[t].woken = thr[t].woken, thr'[t].missed = thr[t].missed
  PROVE  KnowsHdcp(t)'
<1>1. Receiving(t)' = Receiving(t)
  BY DEF Receiving
<1> QED
  BY <1>1 DEF KnowsHdcp, LastCarries

(* A record without a history knows nothing.                               *)
LEMMA KnowsHdcpUnborn ==
  ASSUME NEW t \in HdmiThreads, thr'[t] = Born \/ thr'[t] = [NoThread EXCEPT !.pc = "ended"]
  PROVE  KnowsHdcp(t)'
<1>1. /\ thr'[t].pc \in {"new", "ended"} /\ thr'[t].q = <<>> /\ thr'[t].cur = 0
      /\ thr'[t].pre01 = 0 /\ thr'[t].told = "none" /\ ~thr'[t].woken
  BY DEF Born, NoThread
<1>2. Range(thr'[t].q) = {}
  BY <1>1 DEF Range
<1> QED
  BY <1>1, <1>2 DEF KnowsHdcp, Receiving

(* The kernel sends a uevent: the thread takes it, loses it or is not      *)
(* concerned.                                                              *)
LEMMA KnowsHdcpDelivered ==
  ASSUME TypeOK, NEW t \in HdmiThreads, KnowsHdcp(t), NEW u \in Uevents,
         thr' = Delivered(u), hdcp' = hdcp,
         Range(unsent)' \cap Hdcps = {} /\ u \in Hdcps => u = Carries(hdcp),
         Range(unsent)' \cap Hdcps = {} /\ u \notin Hdcps => Range(unsent) \cap Hdcps = {}
  PROVE  KnowsHdcp(t)'
<1>1. /\ t \in Threads /\ thr[t] \in Thread /\ thr[t].q \in Seq(Uevents) /\ hdcp \in 0 .. 1
      /\ t \notin DrmThreads
  BY EventAssumption DEF TypeOK, Threads, Thread
<1>2. /\ thr'[t].pc = thr[t].pc /\ thr'[t].cur = thr[t].cur /\ thr'[t].pre01 = thr[t].pre01
      /\ thr'[t].event = thr[t].event /\ thr'[t].told = thr[t].told
      /\ thr'[t].mute = thr[t].mute /\ thr'[t].woken = thr[t].woken
  BY <1>1 DEF Delivered, Thread
<1>3. CASE ~(Receiving(t) /\ Matches(t, u))
  <2>1. thr'[t] = thr[t]
    BY <1>1, <1>3 DEF Delivered
  <2>2. CASE Receiving(t)
    <3>1. u \notin Hdcps
      BY <1>1, <1>3, <2>2 DEF Matches, Wanted, Hdcps
    <3> QED
      BY <1>2, <2>1, <3>1, KnowsHdcpKept
  <2>3. CASE ~Receiving(t)
    BY <1>2, <2>1, <2>3 DEF KnowsHdcp, Receiving
  <2> QED
    BY <2>2, <2>3
<1>4. CASE Receiving(t) /\ Matches(t, u)
  <2>0. u # "hotplug" /\ thr[t].pc # "new" /\ (u \notin Hdcps <=> u = "other")
    BY <1>1, <1>4 DEF Matches, Wanted, Receiving, Hdcps
  <2>1. CASE Taken(thr[t])
    <3>1. thr'[t].q = Append(thr[t].q, u) /\ thr'[t].missed = Missed(t, u)
      BY <1>1, <1>4, <2>1 DEF Delivered, Thread
    <3>2. Range(thr'[t].q) = Range(thr[t].q) \cup {u}
      BY <1>1, <3>1, AppendAddsToRange
    <3>3. CASE u \in Hdcps
      <4>1. Range(unsent)' \cap Hdcps = {} => LastCarries(thr'[t].q, hdcp)
        BY <1>1, <3>1, <3>3, LastAppended
      <4> QED
        BY <1>2, <2>0, <3>2, <3>3, <4>1 DEF KnowsHdcp
    <3>4. CASE u \notin Hdcps
      <4>1. thr'[t].missed = thr[t].missed
        BY <2>0, <3>1, <3>4 DEF Missed
      <4>2. LastCarries(thr[t].q, hdcp) => LastCarries(thr'[t].q, hdcp)
        BY <1>1, <3>1, <3>4, LastAppended
      <4>3. Range(thr'[t].q) \cap Hdcps = Range(thr[t].q) \cap Hdcps
        BY <3>2, <3>4
      <4> QED
        BY <1>2, <1>4, <2>0, <3>2, <3>4, <4>1, <4>2, <4>3 DEF KnowsHdcp, Receiving
    <3> QED
      BY <3>3, <3>4
  <2>2. CASE ~Taken(thr[t])
    <3>1. thr'[t].q = thr[t].q /\ thr'[t].missed = Missed(t, u)
      BY <1>1, <1>4, <2>2 DEF Delivered, Thread
    <3>2. CASE u \in Hdcps
      <4>1. Missed(t, u)
        BY <2>0, <2>2, <3>2 DEF Missed, KnowsHdcp
      <4> QED
        BY <1>2, <2>0, <3>1, <4>1 DEF KnowsHdcp
    <3>3. CASE u \notin Hdcps
      <4>1. thr'[t].missed = thr[t].missed
        BY <2>0, <3>1, <3>3 DEF Missed
      <4> QED
        BY <1>2, <3>1, <3>3, <4>1, KnowsHdcpKept
    <3> QED
      BY <3>2, <3>3
  <2> QED
    BY <2>1, <2>2
<1> QED
  BY <1>3, <1>4

(* A step of the thread itself.                                            *)
LEMMA KnowsHdcpStep ==
  ASSUME TypeOK, NEW t \in HdmiThreads, KnowsHdcp(t), Step(t), UNCHANGED <<hdcp, unsent>>
  PROVE  KnowsHdcp(t)'
<1>1. /\ t \in Threads /\ thr[t] \in Thread /\ thr \in [Threads -> Thread]
      /\ thr[t].q \in Seq(Uevents) /\ hdcp \in 0 .. 1 /\ t \notin DrmThreads
  BY EventAssumption DEF TypeOK, Threads, Thread
<1>2. CASE Open(t) \/ OpenFails(t)
  <2>1. /\ thr[t].pc = "new" /\ thr'[t].pc \in {"check", "ended"}
        /\ thr'[t] = [thr[t] EXCEPT !.pc = thr'[t].pc]
    <3>1. CASE Open(t)
      BY <1>1, <3>1 DEF Open, At, Goto, Thread
    <3>2. CASE OpenFails(t)
      BY <1>1, <3>2 DEF OpenFails, At, Goto, Thread
    <3> QED
      BY <1>2, <3>1, <3>2
  <2>2. thr[t].q = <<>> /\ ~thr[t].woken
    BY <2>1 DEF KnowsHdcp
  <2>3. Range(thr[t].q) = {}
    BY <2>2 DEF Range
  <2> QED
    BY <1>1, <2>1, <2>2, <2>3 DEF KnowsHdcp, Thread
<1>3. CASE CheckAlive(t)
  <2>1. /\ thr[t].pc = "check" /\ thr'[t].pc \in {"select", "close"}
        /\ thr'[t] = [thr[t] EXCEPT !.pc = thr'[t].pc]
    BY <1>1, <1>3 DEF CheckAlive, At, Goto, Thread
  <2> QED
    BY <1>1, <2>1 DEF KnowsHdcp, Receiving, LastCarries, Thread
<1>4. CASE SelectTimeout(t)
  <2>1. thr[t].pc = "select" /\ thr'[t] = [thr[t] EXCEPT !.pc = "check"]
    BY <1>1, <1>4 DEF SelectTimeout, At, Goto, Again
  <2> QED
    BY <1>1, <2>1 DEF KnowsHdcp, Receiving, LastCarries, Thread
<1>5. CASE Close(t)
  <2>1. thr'[t] = [NoThread EXCEPT !.pc = "ended"]
    BY <1>1, <1>5 DEF Close
  <2> QED
    BY <2>1, KnowsHdcpUnborn
<1>6. CASE Notify(t)
  <2>1. /\ thr[t].pc = "notify" /\ thr'[t].pc = "check"
        /\ thr'[t].told = thr[t].event \/ thr'[t].mute
        /\ thr'[t].q = thr[t].q /\ thr'[t].cur = thr[t].cur /\ thr'[t].pre01 = thr[t].pre01
        /\ thr'[t].woken = thr[t].woken /\ thr'[t].missed = thr[t].missed
    <3>1. CASE cb
      BY <1>1, <1>6, <3>1 DEF Notify, At, Again, Thread
    <3>2. CASE ~cb
      BY <1>1, <1>6, <3>2 DEF Notify, At, Again, Thread
    <3> QED
      BY <3>1, <3>2
  <2> QED
    BY <1>1, <2>1 DEF KnowsHdcp, Receiving, LastCarries
<1>7. CASE ReceiveNothingHdmi(t)
  <2>1. /\ thr[t].pc = "select" /\ thr'[t].pc = "check"
        /\ thr'[t].q = thr[t].q /\ thr'[t].cur = thr[t].cur /\ thr'[t].pre01 = thr[t].pre01
        /\ thr'[t].woken = thr[t].woken /\ thr'[t].missed = thr[t].missed
        /\ thr'[t].told = thr[t].told /\ thr'[t].mute = thr[t].mute
    BY <1>1, <1>7 DEF ReceiveNothingHdmi, At, Again, Thread
  <2> QED
    BY <1>1, <2>1 DEF KnowsHdcp, Receiving, LastCarries
<1>8. CASE ReceiveHdcp(t)
  <2> DEFINE u   == Head(thr[t].q)
             cur == Carried(u, thr[t].cur)
  <2>1. /\ thr[t].pc = "select" /\ thr[t].q # <<>>
        /\ thr'[t].pc = IF cur # thr[t].pre01 THEN "notify" ELSE "check"
        /\ thr'[t].q = Tail(thr[t].q) /\ thr'[t].cur = cur /\ thr'[t].pre01 = cur
        /\ thr'[t].woken = (thr[t].woken \/ u # "other")
        /\ thr'[t].event = IF cur = 1 THEN "AUTHENTICATED" ELSE "AUTHENTICATIONFAILURE"
        /\ thr'[t].missed = thr[t].missed
        /\ thr'[t].told = thr[t].told /\ thr'[t].mute = thr[t].mute
    BY <1>1, <1>8, ZenonT(60) DEF ReceiveHdcp, HasNext, At, Again, Thread
  <2>2. u \in Uevents /\ Range(thr[t].q) = {u} \cup Range(Tail(thr[t].q))
    BY <1>1, <2>1, TailKeepsRange
  <2>3. u # "hotplug" /\ (u \notin Hdcps <=> u = "other")
    BY <2>2 DEF KnowsHdcp, Uevents, Hdcps
  <2>4. ASSUME ~thr[t].missed, Range(unsent) \cap Hdcps = {},
               Range(Tail(thr[t].q)) \cap Hdcps # {}
        PROVE  LastCarries(Tail(thr[t].q), hdcp)
    <3>1. LastCarries(thr[t].q, hdcp)
      BY <2>1, <2>2, <2>4 DEF KnowsHdcp, Receiving
    <3> QED
      BY <1>1, <2>1, <2>4, <3>1, LastOfTail
  <2>5. ASSUME ~thr[t].missed, Range(unsent) \cap Hdcps = {},
               Range(Tail(thr[t].q)) \cap Hdcps = {}, thr[t].woken \/ u # "other"
        PROVE  cur = hdcp
    <3>1. CASE u \in Hdcps
      <4>1. LastCarries(thr[t].q, hdcp)
        BY <2>1, <2>2, <2>5, <3>1 DEF KnowsHdcp, Receiving
      <4>2. u = Carries(hdcp)
        BY <1>1, <2>1, <2>5, <4>1, LastOfTail
      <4> QED
        BY <1>1, <4>2 DEF Carried, Carries
    <3>2. CASE u = "other"
      BY <2>1, <2>2, <2>5, <3>2 DEF KnowsHdcp, Receiving, Hdcps, Carried
    <3> QED
      BY <2>3, <3>1, <3>2
  <2> HIDE DEF cur, u
  <2>6. (thr'[t].pc # "notify" => cur = thr[t].cur) /\ thr'[t].pc # "new"
    BY <2>1 DEF KnowsHdcp
  <2>7. thr[t].pc # "notify" /\ "hotplug" \notin Range(thr'[t].q)
    BY <2>1, <2>2 DEF KnowsHdcp
  <2> QED
    BY <2>1, <2>4, <2>5, <2>6, <2>7 DEF KnowsHdcp, LastCarries
<1>9. CASE ReceiveNothing(t) \/ ReceiveHotplug(t) \/ ReadStatus(t)
  BY <1>1, <1>9 DEF ReceiveNothing, ReceiveHotplug, ReadStatus
<1> QED
  BY <1>2, <1>3, <1>4, <1>5, <1>6, <1>7, <1>8, <1>9 DEF Step

LEMMA HdcpNext ==
  ASSUME TypeOK, HdcpInv, [Next]_vars
  PROVE  HdcpInv'
<1>1. UnsentRight'
  BY UnsentNext DEF HdcpInv
<1> SUFFICES ASSUME NEW t \in HdmiThreads PROVE KnowsHdcp(t)'
  BY <1>1 DEF HdcpInv
<1>2. /\ t \in Threads /\ thr[t] \in Thread /\ KnowsHdcp(t) /\ UnsentRight
      /\ unsent \in Seq(Uevents \ {"other"}) /\ hdcp \in 0 .. 1
  BY DEF TypeOK, HdcpInv, Threads
<1>3. CASE Register \/ Stop
  BY <1>2, <1>3, KnowsHdcpKept DEF Register, Stop, world
<1>4. CASE Start
  <2>1. thr'[t] = Born \/ thr'[t] = [thr[t] EXCEPT !.late = 0]
    BY <1>2, <1>4 DEF Start
  <2>2. CASE thr'[t] = [thr[t] EXCEPT !.late = 0]
    BY <1>2, <1>4, <2>2, KnowsHdcpKept DEF Start, world, Thread
  <2> QED
    BY <2>1, <2>2, KnowsHdcpUnborn
<1>5. ASSUME NEW s \in Known, ConnectorChanges(s) PROVE KnowsHdcp(t)'
  <2>1. Range(unsent) \subseteq Range(unsent') /\ thr' = thr /\ hdcp' = hdcp
    BY <1>2, <1>5, AppendAddsToRange DEF ConnectorChanges, Uevents
  <2> QED
    BY <1>2, <2>1, KnowsHdcpKept
<1>6. CASE HdcpChanges
  <2>1. PICK u \in Hdcps : unsent' = Append(unsent, u) /\ thr' = thr
    BY <1>6 DEF HdcpChanges, Hdcps
  <2>2. Range(unsent)' \cap Hdcps # {}
    BY <1>2, <2>1, AppendAddsToRange, SMTT(30) DEF Hdcps, Uevents
  <2> QED
    BY <1>2, <2>1, <2>2, KnowsHdcpKept
<1>7. CASE SendUevent
  <2>1. PICK u \in Uevents : u = Head(unsent)
    BY <1>2, <1>7, TailKeepsRange DEF SendUevent
  <2>2. thr' = Delivered(u) /\ hdcp' = hdcp /\ unsent' = Tail(unsent) /\ unsent # <<>>
    BY <1>7, <2>1 DEF SendUevent
  <2>3. Range(unsent) = {u} \cup Range(Tail(unsent))
    BY <1>2, <2>1, <2>2, TailKeepsRange
  <2>4. ASSUME Range(Tail(unsent)) \cap Hdcps = {}, u \in Hdcps PROVE u = Carries(hdcp)
    <3>1. LastCarries(unsent, hdcp)
      BY <1>2, <2>3, <2>4 DEF UnsentRight
    <3> QED
      BY <1>2, <2>1, <2>2, <2>4, <3>1, LastOfTail
  <2> QED
    BY <1>2, <2>2, <2>3, <2>4, KnowsHdcpDelivered
<1>8. CASE SendNoise
  <2>1. "other" \in Uevents /\ "other" \notin Hdcps
    BY DEF Uevents, Hdcps
  <2>2. thr' = Delivered("other") /\ UNCHANGED <<hdcp, unsent>>
    BY <1>8 DEF SendNoise, world
  <2> QED
    BY <1>2, <2>1, <2>2, KnowsHdcpDelivered
<1>9. ASSUME NEW u \in Threads, Step(u) PROVE KnowsHdcp(t)'
  <2>1. UNCHANGED <<hdcp, unsent>>
    <3>1. CASE Notify(u)
      BY <3>1 DEF Notify, world
    <3>2. CASE ~Notify(u)
      BY <1>9, <3>2 DEF Step, Open, OpenFails, CheckAlive, SelectTimeout, Close, ReceiveNothing,
              ReceiveHotplug, ReadStatus, ReceiveNothingHdmi, ReceiveHdcp, world
    <3> QED
      BY <3>1, <3>2
  <2>2. CASE u = t
    BY <1>2, <1>9, <2>1, <2>2, KnowsHdcpStep
  <2>3. CASE u # t
    <3>1. thr'[t] = thr[t]
      BY <1>2, <1>9, <2>3, OthersKept
    <3> QED
      BY <1>2, <2>1, <3>1, KnowsHdcpKept
  <2> QED
    BY <2>2, <2>3
<1>10. CASE UNCHANGED vars
  BY <1>2, <1>10, KnowsHdcpKept DEF vars, world
<1> QED
  BY <1>3, <1>4, <1>5, <1>6, <1>7, <1>8, <1>9, <1>10 DEF Next

LEMMA HdcpInvHolds == Spec => []HdcpInv
<1>1. Init => HdcpInv
  <2> SUFFICES ASSUME Init PROVE HdcpInv
    OBVIOUS
  <2>1. UnsentRight
    BY DEF Init, UnsentRight, Range
  <2>2. ASSUME NEW t \in HdmiThreads PROVE KnowsHdcp(t)
    <3>1. thr[t] = NoThread
      BY DEF Init, Threads
    <3>2. Range(thr[t].q) = {}
      BY <3>1 DEF NoThread, Range
    <3> QED
      BY <3>1, <3>2 DEF KnowsHdcp, Receiving, NoThread
  <2> QED
    BY <2>1, <2>2 DEF HdcpInv
<1>2. TypeOK /\ HdcpInv /\ [Next]_vars => HdcpInv'
  BY HdcpNext
<1> QED
  BY <1>1, <1>2, TypeCorrect, PTL DEF Spec

(* The last report of a settled hdmitx thread is the HDCP state: uevents   *)
(* carry the state of their time, so they must be taken in their order,    *)
(* and none may be passed over because an earlier one said the same.       *)
THEOREM HdcpReportsCurrent == Spec => []HdcpReportCurrent
<1>1. TypeOK /\ HdcpInv => HdcpReportCurrent
  <2> SUFFICES ASSUME TypeOK, HdcpInv, NEW t \in HdmiThreads, Settled(t)
               PROVE  thr[t].told = "AUTHENTICATED" <=> hdcp = 1
    BY DEF HdcpReportCurrent
  <2>1. /\ thr[t].pc = "select" /\ thr[t].woken /\ ~thr[t].missed /\ ~thr[t].mute
        /\ thr[t].q = <<>> /\ Range(unsent) \cap Hdcps = {}
    BY EventAssumption DEF Settled, At, Quiet, Wanted, Hdcps
  <2>2. Range(thr[t].q) = {}
    BY <2>1 DEF Range
  <2>3. thr[t].cur = hdcp
    BY <2>1, <2>2 DEF HdcpInv, KnowsHdcp, Receiving
  <2> QED
    BY <2>1, <2>3 DEF HdcpInv, KnowsHdcp
<1> QED
  BY <1>1, HdcpInvHolds, TypeCorrect, PTL

-----------------------------------------------------------------------------
(* Without an overlap there is one thread of each kind at most, and what   *)
(* the application got last of a kind is what this thread told.            *)
OneOf(kind) == \A t, u \in kind : ~Ended(t) /\ ~Ended(u) => t = u

ViewInv ==
  /\ \A t \in Threads : Ended(t) \/ At(t, "new") => thr[t].told = "none"
  /\ ~view.overlap =>
       /\ OneOf(DrmThreads) /\ OneOf(HdmiThreads)
       /\ \A t \in DrmThreads : thr[t].told # "none" => view.conn = thr[t].told
       /\ \A t \in HdmiThreads : thr[t].told # "none" => view.hdcp = thr[t].told

(* A step after which every thread is as far as before, and has told what  *)
(* it had told.                                                            *)
LEMMA ViewKept ==
  ASSUME ViewInv, UNCHANGED view,
         \A t \in Threads : thr'[t].pc = thr[t].pc /\ thr'[t].told = thr[t].told
  PROVE  ViewInv'
<1>1. \A t \in Threads : (Ended(t)' <=> Ended(t)) /\ (At(t, "new")' <=> At(t, "new"))
  BY DEF Ended, At
<1>2. \A t \in DrmThreads \cup HdmiThreads : t \in Threads
  BY DEF Threads
<1> QED
  BY <1>1, <1>2 DEF ViewInv, OneOf

(* A start that meets no thread of an earlier one: there is one new thread *)
(* of each kind at most.                                                   *)
LEMMA ViewStart ==
  ASSUME TypeOK, ViewInv, Start
  PROVE  ViewInv'
<1>1. thr \in [Threads -> Thread]
  BY DEF TypeOK
<1>2. PICK D \in NewThreads(DrmThreads), H \in NewThreads(HdmiThreads) :
        thr' = [t \in Threads |-> IF t \in D \cup H THEN Born ELSE [thr[t] EXCEPT !.late = 0]]
  BY DEF Start
<1>3. ASSUME NEW t \in Threads
      PROVE  \/ t \in D \cup H /\ thr'[t].pc = "new" /\ thr'[t].told = "none"
             \/ t \notin D \cup H /\ thr'[t].pc = thr[t].pc /\ thr'[t].told = thr[t].told
  <2>1. CASE t \in D \cup H
    BY <1>2, <2>1 DEF Born
  <2>2. CASE t \notin D \cup H
    <3>1. thr'[t] = [thr[t] EXCEPT !.late = 0] /\ thr[t] \in Thread
      BY <1>1, <1>2, <2>2
    <3> QED
      BY <2>2, <3>1 DEF Thread
  <2> QED
    BY <2>1, <2>2
<1>4. \A t \in Threads : (Ended(t) \/ At(t, "new"))' => thr'[t].told = "none"
  BY <1>3 DEF ViewInv, Ended, At
<1>5. ASSUME ~view'.overlap PROVE \A t \in Threads : Ended(t) /\ thr[t].told = "none"
  <2>1. view'.overlap = (view.overlap \/ \E t \in Threads : ~Ended(t))
    BY DEF Start, TypeOK
  <2> QED
    BY <1>5, <2>1 DEF ViewInv
<1>6. ASSUME ~view'.overlap, NEW t \in Threads, ~Ended(t)' PROVE t \in D \cup H
  BY <1>3, <1>5, <1>6 DEF Ended
<1>7. /\ \A t, u \in D : t = u
      /\ \A t, u \in H : t = u
      /\ D \subseteq DrmThreads /\ H \subseteq HdmiThreads
  BY DEF NewThreads
<1>8. ASSUME ~view'.overlap PROVE OneOf(DrmThreads)' /\ OneOf(HdmiThreads)'
  BY <1>6, <1>7, <1>8, EventAssumption DEF OneOf, Threads
<1>9. ASSUME ~view'.overlap, NEW t \in DrmThreads \cup HdmiThreads PROVE thr'[t].told = "none"
  BY <1>3, <1>5, <1>9 DEF Threads
<1> QED
  BY <1>4, <1>8, <1>9 DEF ViewInv

(* A step of a thread.                                                     *)
LEMMA ViewStep ==
  ASSUME TypeOK, ViewInv, NEW t \in Threads, Step(t)
  PROVE  ViewInv'
<1>1. thr \in [Threads -> Thread] /\ thr[t] \in Thread
  BY DEF TypeOK
<1>2. /\ \A u \in Threads \ {t} : thr'[u] = thr[u]
      /\ \A u \in DrmThreads \cup HdmiThreads : u \in Threads
  BY OthersKept DEF Threads
<1>3. ~Ended(t)
  BY DEF Step, Open, OpenFails, CheckAlive, SelectTimeout, Close, Notify, ReceiveNothing,
         ReceiveHotplug, ReadStatus, ReceiveNothingHdmi, ReceiveHdcp, At, Ended
<1>4. ASSUME NEW u \in Threads PROVE ~Ended(u)' => ~Ended(u)
  BY <1>2, <1>3 DEF Ended
<1>5. OneOf(DrmThreads) => OneOf(DrmThreads)'
  BY <1>2, <1>4 DEF OneOf
<1>6. OneOf(HdmiThreads) => OneOf(HdmiThreads)'
  BY <1>2, <1>4 DEF OneOf
<1>7. ASSUME NEW u \in Threads \ {t} PROVE (Ended(u) \/ At(u, "new"))' => thr'[u].told = "none"
  BY <1>2 DEF ViewInv, Ended, At
<1>8. CASE Notify(t) /\ cb
  <2>1. /\ thr'[t].pc = "check" /\ thr'[t].told = thr[t].event
        /\ view' = IF t \in DrmThreads THEN [view EXCEPT !.conn = thr[t].event]
                                       ELSE [view EXCEPT !.hdcp = thr[t].event]
    BY <1>1, <1>8 DEF Notify, Again, Thread
  <2>2. view'.overlap = view.overlap
    BY <2>1 DEF TypeOK
  <2>3. ASSUME ~view.overlap, NEW u \in DrmThreads, thr'[u].told # "none"
        PROVE  view'.conn = thr'[u].told
    <3>1. CASE u = t
      BY <2>1, <2>3, <3>1 DEF TypeOK
    <3>2. CASE u # t
      <4>1. thr[u].told # "none" /\ thr'[u].told = thr[u].told
        BY <1>2, <2>3, <3>2
      <4>2. ~Ended(u)
        BY <1>2, <4>1 DEF ViewInv
      <4>3. t \notin DrmThreads
        BY <1>3, <2>3, <3>2, <4>2 DEF ViewInv, OneOf
      <4> QED
        BY <2>1, <2>3, <4>1, <4>3 DEF TypeOK, ViewInv
    <3> QED
      BY <3>1, <3>2
  <2>4. ASSUME ~view.overlap, NEW u \in HdmiThreads, thr'[u].told # "none"
        PROVE  view'.hdcp = thr'[u].told
    <3>1. CASE u = t
      BY <2>1, <2>4, <3>1, EventAssumption DEF TypeOK
    <3>2. CASE u # t
      <4>1. thr[u].told # "none" /\ thr'[u].told = thr[u].told
        BY <1>2, <2>4, <3>2
      <4>2. ~Ended(u)
        BY <1>2, <4>1 DEF ViewInv
      <4>3. t \notin HdmiThreads
        BY <1>3, <2>4, <3>2, <4>2 DEF ViewInv, OneOf
      <4>4. t \in DrmThreads
        BY <4>3 DEF Threads
      <4> QED
        BY <2>1, <2>4, <4>1, <4>4 DEF TypeOK, ViewInv
    <3> QED
      BY <3>1, <3>2
  <2>5. ~(Ended(t) \/ At(t, "new"))'
    BY <2>1 DEF Ended, At
  <2> QED
    BY <1>5, <1>6, <1>7, <2>2, <2>3, <2>4, <2>5 DEF ViewInv
<1>9. CASE ~(Notify(t) /\ cb)
  <2>1. /\ view' = view /\ thr'[t].told \in {thr[t].told, "none"}
        /\ (Ended(t) \/ At(t, "new"))' => thr'[t].told = "none"
    <3>1. CASE OpenFails(t)
      <4>1. thr[t].told = "none"
        BY <3>1 DEF OpenFails, ViewInv
      <4> QED
        BY <1>1, <3>1, <4>1 DEF OpenFails, Goto, Thread
    <3>2. CASE Close(t)
      <4>1. thr'[t] = [NoThread EXCEPT !.pc = "ended"]
        BY <1>1, <3>2 DEF Close
      <4> QED
        BY <3>2, <4>1 DEF Close, NoThread
    <3>3. CASE Notify(t)
      BY <1>1, <1>9, <3>3 DEF Notify, Again, Ended, At, Thread
    <3>4. CASE Open(t) \/ SelectTimeout(t)
      BY <1>1, <3>4 DEF Open, SelectTimeout, Goto, Again, Ended, At, Thread
    <3>5. CASE CheckAlive(t)
      BY <1>1, <3>5 DEF CheckAlive, Goto, Ended, At, Thread
    <3>6. CASE ReceiveNothing(t) \/ ReceiveNothingHdmi(t)
      BY <1>1, <3>6 DEF ReceiveNothing, ReceiveNothingHdmi, Again, Ended, At, Thread
    <3>7. CASE ReceiveHotplug(t)
      BY <1>1, <3>7 DEF ReceiveHotplug, Again, Ended, At, Thread
    <3>8. CASE ReadStatus(t)
      BY <1>1, <3>8 DEF ReadStatus, Again, Ended, At, Thread
    <3>9. CASE ReceiveHdcp(t)
      BY <1>1, <3>9, ZenonT(60) DEF ReceiveHdcp, Again, Ended, At, Thread
    <3> QED
      BY <3>1, <3>2, <3>3, <3>4, <3>5, <3>6, <3>7, <3>8, <3>9 DEF Step
  <2>2. \A u \in Threads : thr'[u].told \in {thr[u].told, "none"}
    BY <1>2, <2>1
  <2> QED
    BY <1>2, <1>5, <1>6, <1>7, <2>1, <2>2 DEF ViewInv
<1> QED
  BY <1>8, <1>9

LEMMA ViewNext ==
  ASSUME TypeOK, ViewInv, [Next]_vars
  PROVE  ViewInv'
<1>1. CASE Register \/ Stop \/ HdcpChanges \/ UNCHANGED vars
  BY <1>1, ViewKept DEF Register, Stop, HdcpChanges, vars
<1>2. CASE \E s \in Known : ConnectorChanges(s)
  BY <1>2, ViewKept DEF ConnectorChanges
<1>3. ASSUME NEW u, thr' = Delivered(u), view' = view PROVE ViewInv'
  <2>1. ASSUME NEW t \in Threads PROVE thr'[t].pc = thr[t].pc /\ thr'[t].told = thr[t].told
    <3>1. thr[t] \in Thread
      BY DEF TypeOK
    <3> QED
      BY <1>3, <3>1 DEF Delivered, Thread
  <2> QED
    BY <1>3, <2>1, ViewKept
<1>4. CASE SendUevent \/ SendNoise
  BY <1>3, <1>4 DEF SendUevent, SendNoise
<1>5. CASE Start
  BY <1>5, ViewStart
<1>6. CASE \E t \in Threads : Step(t)
  BY <1>6, ViewStep
<1> QED
  BY <1>1, <1>2, <1>4, <1>5, <1>6 DEF Next

(* The application's own picture is right if no two monitors ever ran at   *)
(* once, although two threads write it: each of them its own part.         *)
THEOREM ViewsCurrent ==
  ASSUME "read" \notin MayFail
  PROVE  Spec => []ViewCurrent
<1>1. Init => ViewInv
  BY DEF Init, ViewInv, OneOf, Ended, NoThread, Threads
<1>2. TypeOK /\ ViewInv /\ [Next]_vars => ViewInv'
  BY ViewNext
<1>3. ViewInv /\ ThreadReportCurrent /\ HdcpReportCurrent => ViewCurrent
  BY DEF ViewInv, ThreadReportCurrent, HdcpReportCurrent, ViewCurrent, EventOf
<1>4. Spec => []ThreadReportCurrent
  BY ReportsCurrent
<1> QED
  BY <1>1, <1>2, <1>3, <1>4, TypeCorrect, HdcpReportsCurrent, PTL DEF Spec

-----------------------------------------------------------------------------
(* How many steps a thread of the monitor still makes at most, if the      *)
(* monitor is stopped and not started again.                               *)
Rank(place) ==
  CASE place = "select" -> 5
    [] place = "read" -> 4
    [] place \in {"new", "notify"} -> 3
    [] place = "check" -> 2
    [] place = "close" -> 1
    [] OTHER -> 0

Left(t) == Rank(thr[t].pc)

(* A step after stopDisplayUeventMonitor brings its thread nearer to the   *)
(* end, and none brings another thread further from it.                    *)
Progress(t) ==
  ~alive /\ ~alive' => /\ Step(t) => Left(t)' < Left(t)
                       /\ Left(t)' <= Left(t)

LEMMA Ranks ==
  /\ Rank("select") = 5 /\ Rank("read") = 4 /\ Rank("new") = 3 /\ Rank("notify") = 3
  /\ Rank("check") = 2 /\ Rank("close") = 1 /\ Rank("ended") = 0 /\ Rank("none") = 0
BY DEF Rank

LEMMA RankIsNat == \A place : Rank(place) \in Nat
BY DEF Rank

(* Where a step of a thread leads to while the flag is down.               *)
LEMMA StoppedStep ==
  ASSUME TypeOK, NEW u \in Threads, Step(u), ~alive
  PROVE  Rank(thr'[u].pc) < Rank(thr[u].pc)
<1>1. thr \in [Threads -> Thread] /\ thr[u] \in Thread
  BY DEF TypeOK
<1>2. CASE Open(u) \/ OpenFails(u)
  <2>1. thr[u].pc = "new" /\ thr'[u].pc \in {"check", "ended"}
    BY <1>1, <1>2 DEF Open, OpenFails, At, Goto, Thread
  <2> QED
    BY <2>1, Ranks
<1>3. CASE CheckAlive(u)
  <2>1. thr[u].pc = "check" /\ thr'[u].pc = "close"
    BY <1>1, <1>3 DEF CheckAlive, At, Goto, Thread
  <2> QED
    BY <2>1, Ranks
<1>4. CASE SelectTimeout(u) \/ ReceiveNothing(u) \/ ReceiveNothingHdmi(u)
  <2>1. thr[u].pc = "select" /\ thr'[u].pc = "check"
    BY <1>1, <1>4
       DEF SelectTimeout, ReceiveNothing, ReceiveNothingHdmi, Again, At, Goto, Thread
  <2> QED
    BY <2>1, Ranks
<1>5. CASE ReceiveHotplug(u) \/ ReceiveHdcp(u)
  <2>1. thr[u].pc = "select"
    BY <1>5 DEF ReceiveHotplug, ReceiveHdcp, At
  <2>2. CASE ReceiveHotplug(u)
    <3>1. thr'[u].pc = IF Head(thr[u].q) = "hotplug" THEN "read" ELSE "check"
      BY <1>1, <2>2 DEF ReceiveHotplug, Again, Thread
    <3> QED
      BY <2>1, <3>1, Ranks
  <2>3. CASE ReceiveHdcp(u)
    <3> DEFINE cur == Carried(Head(thr[u].q), thr[u].cur)
               place == IF cur # thr[u].pre01 THEN "notify" ELSE Again
    <3>1. PICK q, other, overrun, woken, event :
            thr' = [thr EXCEPT ![u].q = q, ![u].cur = other, ![u].pre01 = other,
                               ![u].overrun = overrun, ![u].woken = woken,
                               ![u].pc = place, ![u].event = event]
      BY <2>3, Zenon DEF ReceiveHdcp
    <3>2. place \in {"check", "notify"}
      BY DEF Again
    <3> HIDE DEF place
    <3>3. thr'[u].pc \in {"check", "notify"}
      BY <1>1, <3>1, <3>2 DEF Thread
    <3> QED
      BY <2>1, <3>3, Ranks
  <2> QED
    BY <1>5, <2>2, <2>3
<1>6. CASE ReadStatus(u)
  <2>1. thr[u].pc = "read" /\ thr'[u].pc \in {"check", "notify"}
    BY <1>1, <1>6 DEF ReadStatus, Again, At, Thread
  <2> QED
    BY <2>1, Ranks
<1>7. CASE Notify(u)
  <2>1. thr[u].pc = "notify"
    BY <1>7 DEF Notify, At
  <2>2. thr'[u].pc = "check"
    <3>1. CASE cb
      BY <1>1, <1>7, <3>1 DEF Notify, Again, Thread
    <3>2. CASE ~cb
      BY <1>1, <1>7, <3>2 DEF Notify, Again, Thread
    <3> QED
      BY <3>1, <3>2
  <2> QED
    BY <2>1, <2>2, Ranks
<1>8. CASE Close(u)
  <2>1. thr[u].pc = "close"
    BY <1>8 DEF Close, At
  <2>2. thr'[u] = [NoThread EXCEPT !.pc = "ended"]
    BY <1>1, <1>8 DEF Close
  <2>3. thr'[u].pc = "ended"
    BY <2>2 DEF NoThread
  <2> QED
    BY <2>1, <2>3, Ranks
<1> QED
  BY <1>2, <1>3, <1>4, <1>5, <1>6, <1>7, <1>8 DEF Step

(* What is not a thread's own step leaves it where it is, but for Start.   *)
LEMMA PlacesKept ==
  ASSUME TypeOK, [Next]_vars, ~alive', NEW t \in Threads, ~Step(t)
  PROVE  thr'[t].pc = thr[t].pc
<1>1. thr \in [Threads -> Thread] /\ thr[t] \in Thread
  BY DEF TypeOK
<1>2. CASE Register \/ HdcpChanges \/ (\E s \in Known : ConnectorChanges(s)) \/ Stop
  BY <1>2 DEF Register, HdcpChanges, ConnectorChanges, Stop
<1>3. CASE Start
  BY <1>3 DEF Start
<1>4. ASSUME NEW u, thr' = Delivered(u) PROVE thr'[t].pc = thr[t].pc
  <2>1. thr[t] \in Thread
    BY <1>1
  <2> QED
    BY <2>1, <1>4 DEF Delivered, Thread
<1>5. CASE SendUevent \/ SendNoise
  BY <1>4, <1>5 DEF SendUevent, SendNoise
<1>6. ASSUME NEW u \in Threads, Step(u) PROVE thr'[t].pc = thr[t].pc
  BY <1>6, OthersKept
<1>7. CASE UNCHANGED vars
  BY <1>7 DEF vars
<1> QED
  BY <1>2, <1>3, <1>5, <1>6, <1>7 DEF Next

LEMMA ProgressStep == ASSUME TypeOK, [Next]_vars, NEW t \in Threads PROVE Progress(t)
<1> SUFFICES ASSUME ~alive, ~alive'
             PROVE  (Step(t) => Left(t)' < Left(t)) /\ Left(t)' <= Left(t)
  BY DEF Progress
<1>1. Left(t) = Rank(thr[t].pc) /\ Left(t)' = Rank(thr'[t].pc)
  BY DEF Left
<1>2. Rank(thr[t].pc) \in Nat /\ Rank(thr'[t].pc) \in Nat
  BY RankIsNat
<1>3. CASE Step(t)
  <2>1. Rank(thr'[t].pc) < Rank(thr[t].pc)
    BY <1>3, StoppedStep
  <2> QED
    BY <1>1, <1>2, <2>1
<1>4. CASE ~Step(t)
  <2>1. thr'[t].pc = thr[t].pc
    BY <1>4, PlacesKept
  <2> QED
    BY <1>1, <1>2, <1>4, <2>1
<1> QED
  BY <1>3, <1>4

(* After stopDisplayUeventMonitor a thread makes at most five more steps,  *)
(* whatever changes in the world, however many uevents are queued and      *)
(* whatever the other threads do: nothing but a new start keeps it.        *)
THEOREM StopProgresses == Spec => [][\A t \in Threads : Progress(t)]_vars
<1>1. TypeOK /\ [Next]_vars => \A t \in Threads : Progress(t)
  BY ProgressStep
<1> QED
  BY <1>1, TypeCorrect, PTL DEF Spec
=============================================================================
