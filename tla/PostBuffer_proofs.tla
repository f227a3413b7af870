-------------------------- MODULE PostBuffer_proofs --------------------------
(***************************************************************************)
(* The safety properties of PostBuffer, for every number of threads,       *)
(* buffers, planes and modes.                                              *)
(***************************************************************************)
EXTENDS PostBuffer, TLAPS

-----------------------------------------------------------------------------
(* The inductive invariant.  A plane's state is a value for each property; *)
(* a request has values for some of them.                                  *)
Values     == Bufs \cup Modes \cup {0, 1, Window}
PlaneState == [Props -> Values]
Requests   == UNION {[D -> Values] : D \in SUBSET Props}

Places == {"idle", "commit", "setmaster", "setplane", "drop", "denied", "refused",
           "poll", "close"}
Jobs   == [at : Places, b : Bufs \cup {NoOne}, p : Planes \cup {NoOne}, req : Requests,
           rivals : BOOLEAN, turnedDown : BOOLEAN,
           polled : {"nothing", "error", "ready", "timeout"}]

HasMaster == {"setplane", "drop", "denied", "refused"}

Typed ==
  /\ mode \in Modes /\ initMode \in Modes
  /\ full \in [Bufs -> BOOLEAN]
  /\ screen \in [Planes -> PlaneState] /\ asked \in [Planes -> PlaneState]
  /\ dropped \in BOOLEAN
  /\ master \in {Us, Other, NoOne}
  /\ fence \in [Bufs -> BOOLEAN]
  /\ job \in [Threads -> Jobs]
  /\ calls \in 0 .. MaxCalls /\ signals \in 0 .. MaxSignals

(* A call that is to show a buffer knows the buffer and the plane.         *)
Aimed == \A t \in Threads : job[t].at \in {"commit", "setmaster", "setplane"} =>
           job[t].b \in Bufs /\ job[t].p \in Planes

FilesHeld == fenceFds \subseteq {t \in Threads : job[t].at \in {"poll", "close"}}

(* A request from which nothing was dropped has all of a plane's           *)
(* properties, of one buffer or of none.                                   *)
WholeRequests ==
  ~dropped => \A t \in Threads : At(t, "commit") => job[t].req \in {Off, SetBy(job[t].b)}

WholePlanes ==
  ~dropped => /\ screen = asked
              /\ \A p \in Planes : screen[p] \in {Off} \cup {SetBy(b) : b \in Bufs}

(* The client is master only while a thread is between taking and dropping *)
(* the mastership, and one that got it and nobody disturbed still has it.  *)
MasterHeld ==
  /\ master = Us => \E t \in Threads : job[t].at \in HasMaster
  /\ \A t \in Threads : At(t, "setplane") => master = Us \/ job[t].rivals \/ job[t].turnedDown

IInv == Typed /\ Aimed /\ FilesHeld /\ WholeRequests /\ WholePlanes /\ MasterHeld
             /\ DeniedForAReason
-----------------------------------------------------------------------------
(* What a buffer sets, and what a disabled plane has.                      *)
LEMMA SetByWhole ==
  ASSUME Typed, NEW b \in Bufs
  PROVE  /\ SetBy(b) \in PlaneState
         /\ SetBy(b)["crtc_wh"] = IF full[b] THEN initMode ELSE Window
         /\ SetBy(b)["fb_id"] = b
         /\ SetBy(b)["crtc_id"] = 1
<1>1. \A q \in Props : SetBy(b)[q] \in Values
  BY DEF Typed, SetBy, FullSize, Values
<1> QED
  BY <1>1 DEF SetBy, FullSize, PlaneState, Props

LEMMA OffWhole == Off \in PlaneState /\ Off["fb_id"] = 0 /\ Off["crtc_id"] = 0
BY DEF Off, PlaneState, Values, Props

(* A commit of a whole request leaves nothing of what the plane had.       *)
LEMMA MergeTyped ==
  ASSUME NEW old \in PlaneState, NEW req \in Requests
  PROVE  Merge(old, req) \in PlaneState /\ (DOMAIN req = Props => Merge(old, req) = req)
<1>1. PICK D \in SUBSET Props : req \in [D -> Values]
  BY DEF Requests
<1>2. \A q \in Props : (IF q \in DOMAIN req THEN req[q] ELSE old[q]) \in Values
  BY <1>1 DEF PlaneState
<1>3. Merge(old, req) \in PlaneState
  BY <1>2 DEF Merge, PlaneState
<1>4. ASSUME DOMAIN req = Props PROVE Merge(old, req) = req
  BY <1>1, <1>4 DEF Merge
<1> QED
  BY <1>3, <1>4

(* The records that a thread's job starts from.                            *)
LEMMA IdleTyped == Idle \in Jobs
<1>1. <<>> \in [{} -> Values]
  OBVIOUS
<1>2. <<>> \in Requests
  BY <1>1 DEF Requests
<1> QED
  BY <1>2 DEF Idle, Jobs, Places

LEMMA InitIInv == Init => IInv
<1> SUFFICES ASSUME Init PROVE IInv
  OBVIOUS
<1> USE PostAssumption DEF Init
<1>1. Typed
  <2>1. screen \in [Planes -> PlaneState] /\ asked \in [Planes -> PlaneState]
    BY OffWhole
  <2>2. job \in [Threads -> Jobs]
    BY IdleTyped
  <2>3. fence \in [Bufs -> BOOLEAN] /\ dropped \in BOOLEAN
    OBVIOUS
  <2>4. calls \in 0 .. MaxCalls /\ signals \in 0 .. MaxSignals
    OBVIOUS
  <2>5. mode \in Modes /\ initMode \in Modes /\ full \in [Bufs -> BOOLEAN]
        /\ master \in {Us, Other, NoOne}
    OBVIOUS
  <2> QED
    BY ONLY <2>1, <2>2, <2>3, <2>4, <2>5 DEF Typed
<1>2. \A t \in Threads : job[t].at = "idle"
  BY DEF Idle
<1>3. master # Us
  BY DEF Us, Other
<1>4. WholePlanes
  BY DEF WholePlanes
<1> QED
  BY <1>1, <1>2, <1>3, <1>4
     DEF IInv, Aimed, FilesHeld, WholeRequests, MasterHeld, DeniedForAReason, At

-----------------------------------------------------------------------------
(* How a call begins: a thread that was idle has a job.                    *)
LEMMA BeginTyped ==
  ASSUME Typed, NEW t \in Threads, NEW work \in Jobs, Begin(t, work)
  PROVE  /\ At(t, "idle")
         /\ job' \in [Threads -> Jobs] /\ job'[t] = work
         /\ \A u \in Threads \ {t} : job'[u] = job[u]
         /\ calls' \in 0 .. MaxCalls
<1> USE DEF Begin, Typed
<1>1. calls' \in 0 .. MaxCalls
  BY PostAssumption
<1>2. At(t, "idle") /\ job' = [job EXCEPT ![t] = work]
  OBVIOUS
<1> QED
  BY <1>1, <1>2

-----------------------------------------------------------------------------
(* Every step keeps the types: the calls that begin one by one, then the   *)
(* steps inside a call, then the rest of the world.                        *)
LEMMA PostBufTyped ==
  ASSUME Typed, NEW t \in Threads, NEW b \in Bufs, NEW p \in Planes, NEW disable \in BOOLEAN,
         PostBuf(t, b, p, disable)
  PROVE  \E work \in Jobs :
           /\ Begin(t, work)
           /\ work.at = "commit" /\ work.b = b /\ work.p = p
           /\ dropped' \in BOOLEAN
           /\ ~dropped' => ~dropped /\ work.req \in {Off, SetBy(b)}
<1> DEFINE wanted == [q \in PropsSet(disable) |-> IF disable THEN 0 ELSE SetBy(b)[q]]
<1>1. PICK lost \in SUBSET Props :
        /\ dropped' = (dropped \/ lost # {})
        /\ Begin(t, [Idle EXCEPT !.at = "commit", !.b = b, !.p = p,
                       !.req = [q \in DOMAIN wanted \ lost |-> wanted[q]]])
  BY DEF PostBuf
<1> DEFINE req  == [q \in Props \ lost |-> wanted[q]]
           work == [Idle EXCEPT !.at = "commit", !.b = b, !.p = p, !.req = req]
<1>2. wanted \in PlaneState /\ wanted \in {Off, SetBy(b)}
  <2>1. CASE disable
    BY <2>1, OffWhole DEF PropsSet, Off
  <2>2. CASE ~disable
    BY <2>2, SetByWhole DEF PropsSet, PlaneState
  <2> QED
    BY <2>1, <2>2
<1>3. DOMAIN wanted = Props
  BY DEF PropsSet
<1>4. Begin(t, work)
  BY <1>1, <1>3
<1>5. req \in Requests /\ (lost = {} => req = wanted)
  <2>1. req \in [Props \ lost -> Values]
    BY <1>2 DEF PlaneState
  <2>2. lost = {} => req = wanted
    BY <1>2 DEF PlaneState
  <2> QED
    BY <2>1, <2>2 DEF Requests
<1>6. work \in Jobs /\ work.at = "commit" /\ work.b = b /\ work.p = p /\ work.req = req
  <2> HIDE DEF req
  <2> QED
    BY <1>5 DEF Idle, Jobs, Places
<1>7. dropped' \in BOOLEAN /\ (~dropped' => ~dropped /\ work.req \in {Off, SetBy(b)})
  BY <1>1, <1>2, <1>5, <1>6 DEF Typed
<1> QED
  BY <1>4, <1>6, <1>7

(* What no step changes: the buffers' sizes and the first mode.            *)
Fixed == UNCHANGED <<initMode, full>>

LEMMA NextFixed == Next => Fixed
BY DEF Next, Fixed, Step, ChangeMode, OtherTakesMaster, OtherDropsMaster, DecoderSignals,
       PostBuf, SetPlane, WaitVideoFence, PollInterrupted, PollFails, Commit, CommitFails,
       SetMaster, SetPlaneDone, SetPlaneFails, DropMaster, Poll, CloseFence

(* A call that begins disturbs nothing: neither the planes nor the         *)
(* mastership depend on a thread that was idle.                            *)
LEMMA BeginIInv ==
  ASSUME IInv, Fixed, NEW t \in Threads, NEW work \in Jobs, Begin(t, work),
         work.at \in {"idle", "commit", "setmaster", "poll"},
         work.at \in {"commit", "setmaster"} => work.b \in Bufs /\ work.p \in Planes,
         dropped' \in BOOLEAN,
         ~dropped' => ~dropped /\ (work.at = "commit" => work.req \in {Off, SetBy(work.b)}),
         fenceFds' = fenceFds \/ (work.at = "poll" /\ fenceFds' = fenceFds \cup {t}),
         UNCHANGED <<mode, screen, asked, master, fence, signals>>
  PROVE  IInv'
<1>1. /\ At(t, "idle")
      /\ job' \in [Threads -> Jobs] /\ job'[t] = work
      /\ \A u \in Threads \ {t} : job'[u] = job[u]
      /\ calls' \in 0 .. MaxCalls
  BY BeginTyped DEF IInv
<1>2. Typed'
  BY <1>1 DEF IInv, Typed, Fixed
<1>3. Aimed'
  BY <1>1 DEF IInv, Aimed
<1>4. FilesHeld'
  BY <1>1 DEF IInv, FilesHeld, At
<1>6. WholeRequests'
  BY <1>1 DEF IInv, WholeRequests, At, SetBy, FullSize, Fixed
<1>7. WholePlanes'
  BY DEF IInv, WholePlanes, SetBy, FullSize, Fixed
<1>8. MasterHeld'
  BY <1>1 DEF IInv, MasterHeld, At, HasMaster
<1>9. DeniedForAReason'
  BY <1>1 DEF IInv, DeniedForAReason, At
<1> QED
  BY <1>2, <1>3, <1>4, <1>6, <1>7, <1>8, <1>9 DEF IInv

(* A step of one thread's call that leaves planes and mastership alone.    *)
LEMMA InnerIInv ==
  ASSUME IInv, Fixed, NEW t \in Threads, NEW new \in Jobs,
         job' = [job EXCEPT ![t] = new],
         new.at \in {"idle", "denied", "refused", "poll", "close"},
         job[t].at \in HasMaster => new.at \in HasMaster,
         new.at = "denied" => new.rivals \/ new.turnedDown,
         fenceFds' \subseteq fenceFds,
         job[t].at \in {"poll", "close"} => new.at \in {"poll", "close"}
                                            \/ fenceFds' = fenceFds \ {t},
         UNCHANGED <<mode, screen, asked, dropped, master, fence, calls>>,
         signals' \in 0 .. MaxSignals
  PROVE  IInv'
<1>1. /\ job' \in [Threads -> Jobs] /\ job'[t] = new
      /\ \A u \in Threads \ {t} : job'[u] = job[u]
  BY DEF IInv, Typed
<1>2. Typed'
  BY <1>1 DEF IInv, Typed, Fixed
<1>3. Aimed'
  BY <1>1 DEF IInv, Aimed
<1>4. FilesHeld'
  BY <1>1 DEF IInv, FilesHeld, At
<1>5. WholeRequests' /\ WholePlanes'
  BY <1>1 DEF IInv, WholeRequests, WholePlanes, At, SetBy, FullSize, Fixed
<1>6. MasterHeld'
  BY <1>1 DEF IInv, MasterHeld, At, HasMaster
<1>7. DeniedForAReason'
  BY <1>1 DEF IInv, DeniedForAReason, At
<1> QED
  BY <1>2, <1>3, <1>4, <1>5, <1>6, <1>7 DEF IInv

(* A step of the rest of the world.                                        *)
LEMMA WorldIInv ==
  ASSUME IInv, Fixed, mode' \in Modes, fence' \in [Bufs -> BOOLEAN],
         master' = master \/ (master # Us /\ master' \in {NoOne, Other}),
         UNCHANGED <<screen, asked, dropped, fenceFds, job, calls, signals>>
  PROVE  IInv'
<1>1. Typed'
  BY DEF IInv, Typed, Fixed
<1>2. WholeRequests' /\ WholePlanes'
  BY DEF IInv, WholeRequests, WholePlanes, At, SetBy, FullSize, Fixed
<1>3. MasterHeld'
  BY PostAssumption DEF IInv, MasterHeld, At, Us, Other
<1> QED
  BY <1>1, <1>2, <1>3 DEF IInv, Aimed, FilesHeld, DeniedForAReason, At

(* The steps of a thread inside a call.                                    *)
LEMMA StepIInv ==
  ASSUME IInv, Fixed, NEW t \in Threads, Step(t) \/ PollInterrupted(t) \/ PollFails(t)
  PROVE  IInv'
<1>1. job[t] \in Jobs
  BY DEF IInv, Typed
<1>2. CASE Commit(t)
  <2> DEFINE p == job[t].p  b == job[t].b  new == Merge(screen[p], job[t].req)
  <2>1. /\ job[t].at = "commit"
        /\ Valid(new)
        /\ screen' = [screen EXCEPT ![p] = new]
        /\ asked' = [asked EXCEPT ![p] = IF new["fb_id"] = 0 THEN Off ELSE SetBy(b)]
        /\ job' = [job EXCEPT ![t] = Idle]
        /\ UNCHANGED <<mode, dropped, master, fence, fenceFds, calls, signals>>
    BY <1>2 DEF Commit, At, Finish
  <2>2. p \in Planes /\ b \in Bufs
    BY <2>1 DEF IInv, Aimed
  <2>3. screen \in [Planes -> PlaneState] /\ asked \in [Planes -> PlaneState]
    BY DEF IInv, Typed
  <2>4. new \in PlaneState /\ SetBy(b) \in PlaneState /\ Off \in PlaneState
    BY <1>1, <2>2, <2>3, MergeTyped, SetByWhole, OffWhole DEF IInv, Jobs
  <2>5. job' \in [Threads -> Jobs] /\ job'[t] = Idle /\ \A u \in Threads \ {t} : job'[u] = job[u]
    BY <2>1, IdleTyped DEF IInv, Typed
  <2>6. Typed'
    <3>1. screen' \in [Planes -> PlaneState] /\ asked' \in [Planes -> PlaneState]
      BY <2>1, <2>3, <2>4
    <3> QED
      BY <3>1, <2>1, <2>5 DEF IInv, Typed, Fixed
  <2>7. Idle.at = "idle"
    BY DEF Idle
  <2>8. Aimed' /\ FilesHeld' /\ DeniedForAReason' /\ MasterHeld'
    BY <2>1, <2>5, <2>7 DEF IInv, Aimed, FilesHeld, DeniedForAReason, MasterHeld, At, HasMaster
  <2>9. WholeRequests'
    BY <2>1, <2>5, <2>7 DEF IInv, WholeRequests, At, SetBy, FullSize, Fixed
  <2>10. WholePlanes'
    <3> SUFFICES ASSUME ~dropped PROVE WholePlanes'
      BY <2>1 DEF WholePlanes
    <3>1. job[t].req \in {Off, SetBy(b)}
      BY <2>1 DEF IInv, WholeRequests, At
    <3>2. new = job[t].req
      BY <1>1, <2>2, <2>3, <2>4, <3>1, MergeTyped, SMTT(30) DEF PlaneState, Jobs
    <3>3. asked'[p] = screen'[p] /\ screen'[p] \in {Off, SetBy(b)}
      BY <2>1, <2>2, <2>3, <3>1, <3>2, SetByWhole, OffWhole DEF IInv, Valid
    <3>4. screen' = asked'
      BY <2>1, <2>2, <2>3, <3>3 DEF IInv, WholePlanes
    <3>5. \A q \in Planes : screen'[q] \in {Off} \cup {SetBy(c) : c \in Bufs}
      BY <2>1, <2>2, <2>3, <3>3 DEF IInv, WholePlanes
    <3> QED
      BY <3>4, <3>5, <2>1 DEF WholePlanes, SetBy, FullSize, Fixed
  <2> QED
    BY <2>6, <2>8, <2>9, <2>10 DEF IInv
<1>3. CASE CommitFails(t)
  BY <1>3, InnerIInv, IdleTyped, NextFixed DEF CommitFails, Finish, At, Idle, IInv, Typed, HasMaster
<1>4. CASE SetMaster(t)
  <2>0. PICK granted \in BOOLEAN :
          /\ master' = IF TakesMaster /\ granted THEN Us ELSE master
          /\ job' = [job EXCEPT ![t].at = "setplane", ![t].rivals = master = Other,
                                ![t].turnedDown = master = NoOne /\ ~granted]
    BY <1>4 DEF SetMaster
  <2> DEFINE new == [job[t] EXCEPT !.at = "setplane", !.rivals = master = Other,
                                   !.turnedDown = master = NoOne /\ ~granted]
  <2>1. /\ job[t].at = "setmaster"
        /\ master' = IF TakesMaster /\ granted THEN Us ELSE master
        /\ job' = [job EXCEPT ![t] = new]
        /\ UNCHANGED <<mode, screen, asked, dropped, fence, fenceFds, calls, signals>>
    BY <1>4, <2>0 DEF SetMaster, At
  <2>2. new \in Jobs /\ new.at = "setplane" /\ new.rivals = (master = Other)
        /\ new.turnedDown = (master = NoOne /\ ~granted)
        /\ new.b = job[t].b /\ new.p = job[t].p
    BY <1>1 DEF Jobs, Places
  <2>3. job' \in [Threads -> Jobs] /\ job'[t] = new /\ \A u \in Threads \ {t} : job'[u] = job[u]
    BY <2>1, <2>2 DEF IInv, Typed
  <2> HIDE DEF new
  <2>4. Typed'
    BY <2>1, <2>3 DEF IInv, Typed, Fixed
  <2>5. Aimed' /\ FilesHeld' /\ DeniedForAReason'
    BY <2>1, <2>2, <2>3 DEF IInv, Aimed, FilesHeld, DeniedForAReason, At
  <2>6. WholeRequests' /\ WholePlanes'
    BY <2>1, <2>2, <2>3 DEF IInv, WholeRequests, WholePlanes, At, SetBy, FullSize, Fixed
  <2>7. MasterHeld'
    BY <2>1, <2>2, <2>3, PostAssumption
       DEF IInv, Typed, MasterHeld, At, HasMaster, TakesMaster, Us, Other
  <2> QED
    BY <2>4, <2>5, <2>6, <2>7 DEF IInv
<1>5. CASE SetPlaneDone(t)
  <2> DEFINE p == job[t].p  b == job[t].b  new == [job[t] EXCEPT !.at = "drop"]
  <2>1. /\ job[t].at = "setplane"
        /\ screen' = [screen EXCEPT ![p] = SetBy(b)]
        /\ asked' = [asked EXCEPT ![p] = SetBy(b)]
        /\ job' = [job EXCEPT ![t] = new]
        /\ UNCHANGED <<mode, dropped, master, fence, fenceFds, calls, signals>>
    BY <1>5 DEF SetPlaneDone, At, Goto
  <2>2. p \in Planes /\ b \in Bufs
    BY <2>1 DEF IInv, Aimed
  <2>3. new \in Jobs /\ new.at = "drop"
    BY <1>1 DEF Jobs, Places
  <2>4. job' \in [Threads -> Jobs] /\ job'[t] = new /\ \A u \in Threads \ {t} : job'[u] = job[u]
    BY <2>1, <2>3 DEF IInv, Typed
  <2> HIDE DEF new
  <2>5. /\ screen' \in [Planes -> PlaneState] /\ asked' \in [Planes -> PlaneState]
        /\ \A q \in Planes : /\ screen'[q] = IF q = p THEN SetBy(b) ELSE screen[q]
                             /\ asked'[q] = IF q = p THEN SetBy(b) ELSE asked[q]
    BY <2>1, <2>2, SetByWhole DEF IInv, Typed
  <2>6. Typed'
    BY <2>1, <2>4, <2>5 DEF IInv, Typed, Fixed
  <2>7. Aimed' /\ FilesHeld' /\ DeniedForAReason' /\ MasterHeld'
    BY <2>1, <2>3, <2>4 DEF IInv, Aimed, FilesHeld, DeniedForAReason, MasterHeld, At, HasMaster
  <2>8. WholeRequests'
    BY <2>1, <2>3, <2>4 DEF IInv, WholeRequests, At, SetBy, FullSize, Fixed
  <2>9. WholePlanes'
    <3> SUFFICES ASSUME ~dropped PROVE WholePlanes'
      BY <2>1 DEF WholePlanes
    <3>1. screen' = asked'
      BY <2>1 DEF IInv, WholePlanes
    <3>2. \A q \in Planes : screen'[q] \in {Off} \cup {SetBy(c) : c \in Bufs}
      BY <2>2, <2>5 DEF IInv, WholePlanes
    <3> QED
      BY <3>1, <3>2 DEF WholePlanes, SetBy, FullSize, Fixed
  <2> QED
    BY <2>6, <2>7, <2>8, <2>9 DEF IInv
<1>6. CASE SetPlaneFails(t)
  <2> DEFINE new == [job[t] EXCEPT !.at = IF master = Us THEN "refused" ELSE "denied"]
  <2>1. /\ job[t].at = "setplane"
        /\ job' = [job EXCEPT ![t] = new]
        /\ UNCHANGED <<mode, screen, asked, dropped, master, fence, fenceFds, calls, signals>>
    BY <1>6 DEF SetPlaneFails, At, Goto
  <2>2. /\ new \in Jobs /\ new.at \in {"denied", "refused"}
        /\ new.at = "denied" => master # Us
        /\ new.rivals = job[t].rivals /\ new.turnedDown = job[t].turnedDown
    BY <1>1 DEF Jobs, Places
  <2>3. new.at = "denied" => new.rivals \/ new.turnedDown
    BY <2>1, <2>2 DEF IInv, MasterHeld, At
  <2> HIDE DEF new
  <2> QED
    BY <2>1, <2>2, <2>3, InnerIInv DEF HasMaster, IInv, Typed
<1>7. CASE DropMaster(t)
  <2> DEFINE new(u) == IF u = t THEN Idle
                       ELSE [job[u] EXCEPT !.rivals = @ \/ (master = Us /\ At(u, "setplane"))]
  <2>1. /\ job[t].at \in {"drop", "denied", "refused"}
        /\ master' = IF master = Us THEN NoOne ELSE master
        /\ job' = [u \in Threads |-> new(u)]
        /\ UNCHANGED <<mode, screen, asked, dropped, fence, fenceFds, calls, signals>>
    BY <1>7 DEF DropMaster, DropsAt
  <2>2. /\ \A u \in Threads : new(u) \in Jobs
        /\ Idle.at = "idle"
        /\ \A u \in Threads \ {t} :
             /\ new(u).at = job[u].at /\ new(u).b = job[u].b
             /\ new(u).p = job[u].p /\ new(u).req = job[u].req
             /\ new(u).rivals = (job[u].rivals \/ (master = Us /\ At(u, "setplane")))
             /\ new(u).turnedDown = job[u].turnedDown
    <3>1. Idle.at = "idle"
      BY DEF Idle
    <3>2. ASSUME NEW u \in Threads \ {t}
          PROVE  /\ new(u) \in Jobs
                 /\ new(u).at = job[u].at /\ new(u).b = job[u].b
                 /\ new(u).p = job[u].p /\ new(u).req = job[u].req
                 /\ new(u).rivals = (job[u].rivals \/ (master = Us /\ At(u, "setplane")))
                 /\ new(u).turnedDown = job[u].turnedDown
      BY DEF IInv, Typed, Jobs
    <3> QED
      BY <3>1, <3>2, IdleTyped
  <2>3. /\ job' \in [Threads -> Jobs] /\ job'[t].at = "idle"
        /\ \A u \in Threads \ {t} :
             /\ job'[u].at = job[u].at /\ job'[u].b = job[u].b
             /\ job'[u].p = job[u].p /\ job'[u].req = job[u].req
             /\ job'[u].rivals = (job[u].rivals \/ (master = Us /\ At(u, "setplane")))
             /\ job'[u].turnedDown = job[u].turnedDown
    BY <2>1, <2>2
  <2>4. Typed'
    BY <2>1, <2>3 DEF IInv, Typed, Fixed
  <2>5. Aimed' /\ FilesHeld'
    BY <2>1, <2>3 DEF IInv, Aimed, FilesHeld
  <2>8. DeniedForAReason'
    BY <2>3 DEF IInv, DeniedForAReason, At
  <2>6. WholeRequests' /\ WholePlanes'
    BY <2>1, <2>3 DEF IInv, WholeRequests, WholePlanes, At, SetBy, FullSize, Fixed
  <2>7. MasterHeld'
    <3>1. master' # Us
      BY <2>1, PostAssumption DEF Us
    <3>2. ASSUME NEW u \in Threads, job'[u].at = "setplane"
          PROVE  job'[u].rivals \/ job'[u].turnedDown
      <4>1. u # t
        BY <2>3, <3>2
      <4>2. At(u, "setplane")
        BY <2>3, <3>2, <4>1 DEF At
      <4>3. master = Us \/ job[u].rivals \/ job[u].turnedDown
        BY <4>2 DEF IInv, MasterHeld
      <4>4. /\ job'[u].rivals = (job[u].rivals \/ (master = Us /\ At(u, "setplane")))
            /\ job'[u].turnedDown = job[u].turnedDown
        BY <2>3, <4>1
      <4> QED
        BY <4>2, <4>3, <4>4
    <3> QED
      BY <3>1, <3>2 DEF MasterHeld, At
  <2> QED
    BY <2>4, <2>5, <2>6, <2>7, <2>8 DEF IInv
<1>8. CASE Poll(t)
  <2> DEFINE new == [job[t] EXCEPT !.polled = PollResult(job[t].b), !.at = "close"]
  <2>1. /\ job[t].at = "poll"
        /\ job' = [job EXCEPT ![t] = new]
        /\ UNCHANGED <<mode, screen, asked, dropped, master, fence, fenceFds, calls, signals>>
    BY <1>8 DEF Poll, At, EndsPoll, PollResult
  <2>2. new \in Jobs /\ new.at = "close"
    BY <1>1 DEF Jobs, Places, PollResult
  <2> HIDE DEF new
  <2> QED
    BY <2>1, <2>2, InnerIInv DEF HasMaster, IInv, Typed
<1>9. CASE CloseFence(t)
  <2>1. Idle.at = "idle"
    BY DEF Idle
  <2> QED
    BY <1>9, <2>1, InnerIInv, IdleTyped
       DEF CloseFence, Closes, Finish, At, HasMaster, IInv, Typed
<1>10. CASE PollInterrupted(t)
  BY <1>10, <1>1, InnerIInv, PostAssumption DEF PollInterrupted, At, HasMaster, IInv, Typed
<1>11. CASE PollFails(t)
  <2> DEFINE new == [job[t] EXCEPT !.polled = "error", !.at = "close"]
  <2>1. /\ job[t].at = "poll"
        /\ job' = [job EXCEPT ![t] = new]
        /\ UNCHANGED <<mode, screen, asked, dropped, master, fence, fenceFds, calls, signals>>
    BY <1>11 DEF PollFails, At
  <2>2. new \in Jobs /\ new.at = "close"
    BY <1>1 DEF Jobs, Places
  <2> HIDE DEF new
  <2> QED
    BY <2>1, <2>2, InnerIInv DEF HasMaster, IInv, Typed
<1> QED
  BY <1>2, <1>3, <1>4, <1>5, <1>6, <1>7, <1>8, <1>9, <1>10, <1>11 DEF Step

LEMMA NextIInv == IInv /\ [Next]_vars => IInv'
<1> SUFFICES ASSUME IInv, [Next]_vars PROVE IInv'
  OBVIOUS
<1>1. CASE UNCHANGED vars
  BY <1>1 DEF vars, IInv, Typed, Aimed, FilesHeld, WholeRequests, WholePlanes, MasterHeld,
              DeniedForAReason, At, SetBy, FullSize
<1>2. CASE Next
  <2>1. Fixed
    BY <1>2, NextFixed
  <2>2. ASSUME NEW m \in Modes, ChangeMode(m) PROVE IInv'
    BY <2>1, <2>2, WorldIInv DEF ChangeMode, IInv, Typed
  <2>3. CASE OtherTakesMaster \/ OtherDropsMaster
    BY <2>1, <2>3, PostAssumption, WorldIInv
       DEF OtherTakesMaster, OtherDropsMaster, IInv, Typed, Us, Other
  <2>4. ASSUME NEW b \in Bufs, DecoderSignals(b) PROVE IInv'
    <3>1. fence' \in [Bufs -> BOOLEAN]
      BY <2>4 DEF DecoderSignals, IInv, Typed
    <3> QED
      BY <2>1, <2>4, <3>1, WorldIInv DEF DecoderSignals, IInv, Typed
  <2>5. ASSUME NEW t \in Threads, NEW b \in Bufs, NEW p \in Planes, NEW disable \in BOOLEAN,
               PostBuf(t, b, p, disable)
        PROVE  IInv'
    <3>1. PICK work \in Jobs :
            /\ Begin(t, work)
            /\ work.at = "commit" /\ work.b = b /\ work.p = p
            /\ dropped' \in BOOLEAN
            /\ ~dropped' => ~dropped /\ work.req \in {Off, SetBy(b)}
      BY <2>5, PostBufTyped DEF IInv
    <3> QED
      BY <2>1, <2>5, <3>1, BeginIInv DEF PostBuf
  <2>6. ASSUME NEW t \in Threads, NEW b \in Bufs, NEW p \in Planes, SetPlane(t, b, p)
        PROVE  IInv'
    <3> DEFINE work == [Idle EXCEPT !.at = "setmaster", !.b = b, !.p = p]
    <3>1. work \in Jobs /\ work.at = "setmaster" /\ work.b = b /\ work.p = p
      BY IdleTyped DEF Idle, Jobs, Places
    <3>2. Begin(t, work)
      BY <2>6 DEF SetPlane
    <3> HIDE DEF work
    <3> QED
      BY <2>1, <2>6, <3>1, <3>2, BeginIInv DEF SetPlane, IInv, Typed
  <2>7. ASSUME NEW t \in Threads, NEW b \in Bufs, WaitVideoFence(t, b) PROVE IInv'
    <3> DEFINE work == [Idle EXCEPT !.at = "poll", !.b = b]
    <3>1. work \in Jobs /\ work.at = "poll"
      BY IdleTyped DEF Idle, Jobs, Places
    <3>2. \/ Begin(t, work) /\ fenceFds' = fenceFds \cup {t}
          \/ Begin(t, Idle) /\ fenceFds' = fenceFds
      BY <2>7 DEF WaitVideoFence
    <3>3. Idle.at = "idle"
      BY DEF Idle
    <3> HIDE DEF work
    <3> QED
      BY <2>1, <2>7, <3>1, <3>2, <3>3, IdleTyped, BeginIInv DEF WaitVideoFence, IInv, Typed
  <2> QED
    BY <1>2, <2>1, <2>2, <2>3, <2>4, <2>5, <2>6, <2>7, StepIInv DEF Next
<1> QED
  BY <1>1, <1>2

THEOREM Invariance == Spec => []IInv
<1> QED
  BY InitIInv, NextIInv, PTL DEF Spec

-----------------------------------------------------------------------------
(* The properties.                                                         *)

(* Every variable has its type, and every sync file belongs to a thread    *)
(* that is still in drm_waitvideoFence.                                    *)
THEOREM TypeCorrect == Spec => []TypeOK
<1>1. IInv => TypeOK
  BY DEF IInv, Typed, FilesHeld, TypeOK, PlaneState, Jobs, Places
<1> QED
  BY <1>1, Invariance, PTL

(* Posts of any number of threads, and set_plane between them, never mix   *)
(* on a plane, as long as every property could be added to its request.    *)
THEOREM PlanesShowOneCall == Spec => []PlaneShowsOneCall
<1>1. IInv => PlaneShowsOneCall
  <2> SUFFICES ASSUME IInv, ~dropped PROVE PlaneShowsOneCall
    BY DEF PlaneShowsOneCall
  <2>1. ASSUME NEW p \in Planes, screen[p]["fb_id"] # 0
        PROVE  screen[p]["crtc_wh"] = IF full[screen[p]["fb_id"]] THEN initMode ELSE Window
    <3>1. PICK b \in Bufs : screen[p] = SetBy(b)
      BY <2>1, OffWhole DEF IInv, WholePlanes
    <3> QED
      BY <3>1, SetByWhole DEF IInv
  <2> QED
    BY <2>1 DEF PlaneShowsOneCall, IInv, WholePlanes
<1> QED
  BY <1>1, Invariance, PTL

(* The mastership is given up on every path of kms_set_plane, however many *)
(* threads take and drop it at once.                                       *)
THEOREM MasterAlwaysGivenUp == Spec => []MasterGivenUp
<1>1. IInv => MasterGivenUp
  BY DEF IInv, MasterHeld, MasterGivenUp, At, HasMaster
<1> QED
  BY <1>1, Invariance, PTL

(* kms_set_plane is denied the plane only because the kernel turned down   *)
(* its own drmSetMaster, the other process was master when it asked, or    *)
(* another thread's drop came in between, with any number of threads.      *)
THEOREM DenialsHaveReasons == Spec => []DeniedForAReason
<1>1. IInv => DeniedForAReason
  BY DEF IInv
<1> QED
  BY <1>1, Invariance, PTL

-----------------------------------------------------------------------------
(* How many steps of its own a thread's call still makes at most.          *)
Rank(at) ==
  CASE at = "setmaster" -> 3
    [] at \in {"setplane", "poll"} -> 2
    [] at \in {"commit", "drop", "denied", "refused", "close"} -> 1
    [] OTHER -> 0

Left(t) == Rank(job[t].at)

(* Each of its steps brings a call nearer to its end, and no step of       *)
(* another thread, of the other process or of a signal takes it back.      *)
Progress(t) ==
  /\ Step(t) \/ PollFails(t) => Left(t)' < Left(t)
  /\ ~At(t, "idle") => Left(t)' <= Left(t)

LEMMA Ranks ==
  /\ Rank("idle") = 0 /\ Rank("setmaster") = 3
  /\ Rank("setplane") = 2 /\ Rank("poll") = 2
  /\ Rank("commit") = 1 /\ Rank("drop") = 1 /\ Rank("denied") = 1
  /\ Rank("refused") = 1 /\ Rank("close") = 1
BY DEF Rank

LEMMA RankIsNat == \A at : Rank(at) \in Nat
BY DEF Rank

(* A step of a call: where it goes, and that the others stay.              *)
LEMMA CallStep ==
  ASSUME IInv, NEW t \in Threads, Step(t) \/ PollFails(t)
  PROVE  /\ Rank(job'[t].at) < Rank(job[t].at)
         /\ \A u \in Threads \ {t} : job'[u].at = job[u].at
<1>0. job \in [Threads -> Jobs] /\ Idle.at = "idle"
  BY DEF IInv, Typed, Idle
<1>1. CASE Commit(t) \/ CommitFails(t) \/ CloseFence(t)
  <2>1. job[t].at \in {"commit", "close"} /\ job' = [job EXCEPT ![t] = Idle]
    BY <1>1 DEF Commit, CommitFails, CloseFence, At, Finish
  <2> QED
    BY <1>0, <2>1, Ranks
<1>2. CASE SetMaster(t)
  <2>1. PICK granted \in BOOLEAN :
          job' = [job EXCEPT ![t].at = "setplane", ![t].rivals = master = Other,
                             ![t].turnedDown = master = NoOne /\ ~granted]
    BY <1>2 DEF SetMaster
  <2>2. job[t].at = "setmaster"
    BY <1>2 DEF SetMaster, At
  <2>3. job'[t].at = "setplane" /\ \A u \in Threads \ {t} : job'[u] = job[u]
    BY <1>0, <2>1 DEF Jobs
  <2> QED
    BY <2>2, <2>3, Ranks
<1>3. CASE SetPlaneDone(t) \/ SetPlaneFails(t)
  <2>1. PICK there \in {"drop", "refused", "denied"} : Goto(t, there)
    BY <1>3, Zenon DEF SetPlaneDone, SetPlaneFails
  <2>2. job[t].at = "setplane"
    BY <1>3 DEF SetPlaneDone, SetPlaneFails, At
  <2>3. job'[t].at = there /\ \A u \in Threads \ {t} : job'[u] = job[u]
    BY <1>0, <2>1 DEF Goto, Jobs
  <2> QED
    BY <2>1, <2>2, <2>3, Ranks
<1>4. CASE DropMaster(t)
  <2> DEFINE mine == master = Us /\ job[t].at \in DropsAt
  <2>1. /\ job[t].at \in {"drop", "denied", "refused"}
        /\ job' = [u \in Threads |->
                     IF u = t THEN Idle
                     ELSE [job[u] EXCEPT !.rivals = @ \/ (mine /\ At(u, "setplane"))]]
    BY <1>4 DEF DropMaster
  <2>2. job'[t] = Idle
    BY <2>1
  <2>3. ASSUME NEW u \in Threads \ {t} PROVE job'[u].at = job[u].at
    <3>1. job'[u] = [job[u] EXCEPT !.rivals = @ \/ (mine /\ At(u, "setplane"))]
      BY <2>1
    <3>2. job[u] \in Jobs
      BY <1>0
    <3> HIDE DEF mine
    <3> QED
      BY <3>1, <3>2 DEF Jobs
  <2> QED
    BY <1>0, <2>1, <2>2, <2>3, Ranks
<1>5. CASE Poll(t) \/ PollFails(t)
  <2>1. PICK outcome \in {"ready", "timeout", "error"} :
          job' = [job EXCEPT ![t].polled = outcome, ![t].at = "close"]
    BY <1>5, Zenon DEF Poll, PollFails, EndsPoll, PollResult
  <2>2. job[t].at = "poll"
    BY <1>5 DEF Poll, PollFails, At
  <2>3. job'[t].at = "close" /\ \A u \in Threads \ {t} : job'[u] = job[u]
    BY <1>0, <2>1 DEF Jobs
  <2> QED
    BY <2>2, <2>3, Ranks
<1> QED
  BY <1>1, <1>2, <1>3, <1>4, <1>5 DEF Step

(* A call that begins is that of a thread that was idle.                   *)
LEMMA BeginOthers ==
  ASSUME NEW t, NEW work, Begin(t, work)
  PROVE  At(t, "idle") /\ \A u \in Threads \ {t} : job'[u] = job[u]
BY DEF Begin

LEMMA ProgressStep == ASSUME IInv, [Next]_vars, NEW t \in Threads PROVE Progress(t)
<1>1. Step(t) \/ PollFails(t) => Left(t)' < Left(t)
  BY CallStep DEF Left
<1>2. ASSUME ~At(t, "idle") PROVE Left(t)' <= Left(t)
  <2>0. Rank(job[t].at) \in Nat /\ Rank(job'[t].at) \in Nat
    BY RankIsNat
  <2>1. CASE job' = job
    BY <2>0, <2>1 DEF Left
  <2>2. ASSUME NEW u \in Threads, NEW work, Begin(u, work) PROVE Left(t)' <= Left(t)
    <3>1. At(u, "idle") /\ \A v \in Threads \ {u} : job'[v] = job[v]
      BY <2>2, BeginOthers
    <3>2. u # t
      BY <1>2, <3>1
    <3>3. job'[t] = job[t]
      BY <3>1, <3>2
    <3> QED
      BY <2>0, <3>3 DEF Left
  <2>3. ASSUME NEW u \in Threads, Step(u) \/ PollFails(u) PROVE Left(t)' <= Left(t)
    <3>1. CASE u = t
      BY <1>1, <2>0, <2>3, <3>1 DEF Left
    <3>2. CASE u # t
      <4>1. job'[t].at = job[t].at
        BY <2>3, <3>2, CallStep
      <4> QED
        BY <2>0, <4>1 DEF Left
    <3> QED
      BY <3>1, <3>2
  <2>4. CASE UNCHANGED vars
    BY <2>1, <2>4 DEF vars
  <2>5. CASE \/ \E m \in Modes : ChangeMode(m)
             \/ OtherTakesMaster \/ OtherDropsMaster
             \/ \E b \in Bufs : DecoderSignals(b)
             \/ \E u \in Threads : PollInterrupted(u)
    BY <2>1, <2>5
       DEF ChangeMode, OtherTakesMaster, OtherDropsMaster, DecoderSignals, PollInterrupted
  <2>6. ASSUME NEW u \in Threads, NEW b \in Bufs, NEW p \in Planes, NEW disable \in BOOLEAN,
               PostBuf(u, b, p, disable) \/ SetPlane(u, b, p)
        PROVE  Left(t)' <= Left(t)
    <3>1. PICK work : Begin(u, work)
      BY <2>6, Zenon DEF PostBuf, SetPlane
    <3> QED
      BY <2>2, <3>1
  <2>7. ASSUME NEW u \in Threads, NEW b \in Bufs, WaitVideoFence(u, b)
        PROVE  Left(t)' <= Left(t)
    <3>1. PICK work : Begin(u, work)
      BY <2>7, Zenon DEF WaitVideoFence
    <3> QED
      BY <2>2, <3>1
  <2> QED
    BY <2>3, <2>4, <2>5, <2>6, <2>7 DEF Next
<1> QED
  BY <1>1, <1>2 DEF Progress

(* No call makes more than three steps of its own, whatever the other      *)
(* threads do between them, and a poll that fails or is over its time ends *)
(* it like one that is answered: what keeps a thread in the library is     *)
(* that it is not scheduled, or that signals do not cease.                 *)
THEOREM CallsProgress == Spec => [][\A t \in Threads : Progress(t)]_vars
<1>1. IInv /\ [Next]_vars => \A t \in Threads : Progress(t)
  BY ProgressStep
<1> QED
  BY <1>1, Invariance, PTL DEF Spec
=============================================================================
