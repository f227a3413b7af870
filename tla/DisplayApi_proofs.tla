-------------------------- MODULE DisplayApi_proofs --------------------------
(***************************************************************************)
(* Proofs about DisplayApi, for any number of threads, CRTCs, calls and    *)
(* changes, every set of properties, values, displays and rates.           *)
(*                                                                         *)
(* The argument for AnswersRight: a call that sets a property and was not  *)
(* disturbed is alone with it (Alone), so what its commands left in the    *)
(* kernel stays there (DoneHolds) and is what asked remembers, for the     *)
(* object that they reached, when it returns.  What asked remembers of an  *)
(* object is in the kernel, until a command to it is done (AskedHolds).    *)
(* So a call that reads, in one step or in two, finds it there (Reading).  *)
(***************************************************************************)
EXTENDS DisplayApi, TLAPS

Places ==
  {"idle", "open", "connect", "encoder", "set", "priority", "setmode", "get", "second",
   "getMode", "report", "pipe", "vblank", "close", "returned", "crashed"}

Job ==
  [at : Places, call : {"none", "set", "setmode", "get", "getMode", "report", "vblank"},
   e : EnProps \cup {"none"}, v : 0 .. 2, dir : {EnvDir, Default}, done : SUBSET Kernel,
   clean : BOOLEAN, sink : {"same", "changed"}, enc : BOOLEAN, crtc : Crtcs \cup {NoCrtc},
   ret : {Failed, 0}, out : 0 .. 2, set : SUBSET (Capabilities \cup Nat),
   pipe : 0 .. NCrtcs, waited : 0 .. 1]

Sets(j) == j.call \in {"set", "setmode"}

(* What the commands for e may set, on whichever CRTC HDMI is.             *)
Reach(e) ==
  IF e \in GetOnly THEN {}
  ELSE {Target(e, c) : c \in Crtcs} \cup (IF e = "HDCP_VERSION" THEN {Priority} ELSE {})

(* Where a call may be, and what it is then about.                         *)
JobFits(j) ==
  /\ j.at = "idle" => j.call = "none"
  /\ j.call \in {"none", "report"} => j.e = "none"
  /\ j.call \in {"get", "set"} => j.e \in EnProps \ {"MODE"}
  /\ j.call \in {"getMode", "setmode", "vblank"} => j.e = "MODE"
  /\ Sets(j) => j.v \in Values /\ j.done \subseteq Reach(j.e)
  /\ ~Sets(j) => j.done = {}
  /\ j.at \in {"open", "connect", "encoder"} => j.call \in {"set", "get", "getMode", "report"}
  /\ j.at \in {"set", "setmode", "get", "getMode", "report"} => j.call = j.at
  /\ j.at = "priority" => j.call = "set" /\ j.e = "HDCP_VERSION"
  /\ j.at = "second" => j.call = "get" /\ j.e \in TwoReads
  /\ j.at \in {"pipe", "vblank"} => j.call = "vblank"
  /\ j.at = "vblank" => j.pipe \in 0 .. NCrtcs - 1
  /\ j.at = "close" => j.call \in {"set", "get", "getMode", "report"}
  /\ j.at = "returned" /\ j.call = "vblank" /\ j.ret = 0 =>
       j.pipe \in 0 .. NCrtcs - 1 /\ j.waited = WaitsFor(j.pipe) /\ j.out # 0
  /\ j.ret = 0 => j.at \in {"close", "returned"}

(* A call that has opened a file or made a connector, and not yet closed.  *)
Holder(j) ==
  j.at \notin {"idle", "returned"} /\ j.call \in {"set", "get", "getMode", "report"}

Types ==
  /\ kernel \in [Kernel -> 0 .. 2]
  /\ sink \in Sinks
  /\ home \in Homes /\ lit \in Lights
  /\ files \cup conns \subseteq {t \in Threads : Holder(job[t])}
  /\ asked \in [Settings -> Values \cup {Unknown}]
  /\ job \in [Threads -> Job] /\ \A t \in Threads : JobFits(job[t])
  /\ calls \in 0 .. MaxCalls /\ changes \in 0 .. MaxChanges

(* Two calls of which one sets what the other is about disturb each other. *)
Alone ==
  \A t, u \in Threads :
    t # u /\ Sets(job[u]) /\ job[u].e = job[t].e => ~job[t].clean

(* What the command to target for e and v leaves in the kernel.            *)
Effect(e, v, target) ==
  IF target = Priority THEN kernel[target] = SendPriority(v)
  ELSE \/ kernel[target] = Send(e, v)
       \/ e = "CONTENT_PROTECTION" /\ v = 1 /\ kernel[target] = 2

(* What the commands of an undisturbed call left is still there.           *)
DoneHolds ==
  \A t \in Threads : Sets(job[t]) /\ job[t].clean =>
    \A k \in job[t].done : Effect(job[t].e, job[t].v, k)

(* No command of a call that has not returned has set k.                   *)
Quiet(k) == \A u \in Threads : job[u].done \cap Whole(k) = {}

(* What a property of an object was set to is in the kernel, in each of    *)
(* its commands' targets.                                                  *)
AskedHolds ==
  \A e \in EnProps \ GetOnly, c \in Crtcs :
    asked[Target(e, c)] # Unknown /\ Quiet(Target(e, c)) =>
      \A k \in Whole(Target(e, c)) : Effect(e, asked[Target(e, c)], k)

(* What a call has read after the first of two properties.                 *)
HalfRead(j) ==
  /\ j.e = "HDCP_VERSION" =>
       /\ Target("HDCP_VERSION", j.crtc) \in Settings
       /\ \/ asked[Target("HDCP_VERSION", j.crtc)] = Unknown
          \/ j.out = Send("HDCP_VERSION", asked[Target("HDCP_VERSION", j.crtc)])
  /\ j.e = "RX_HDR_CAP" /\ j.sink = "same" => j.set = HdrBits(sink)

(* What a call that reads and succeeds gives back, as AnswersRight has it. *)
RightAnswer(j) ==
  /\ j.call \in {"get", "getMode"} /\ j.e \notin GetOnly =>
       /\ Target(j.e, j.crtc) \in Settings
       /\ \/ asked[Target(j.e, j.crtc)] = Unknown
          \/ j.out = Meaning(j.e, asked[Target(j.e, j.crtc)])
          \/ j.e = "CONTENT_PROTECTION" /\ asked[Target(j.e, j.crtc)] = 1 /\ j.out = 2
  /\ j.call = "get" /\ j.sink = "same" =>
       /\ j.e = "RX_HDCP" => j.set = sink.hdcp
       /\ j.e = "RX_HDR_CAP" => j.set = sink.caps

(* The mode that a call for the vblank has found is that of its pipe.      *)
ModeRead(j) ==
  j.call = "vblank" /\ (j.at = "vblank" \/ j.ret = 0) /\ j.out # 0 =>
    j.out = kernel[Target("MODE", j.pipe + 1)]

(* What an undisturbed call has read is right, also between two reads.     *)
Reading ==
  \A t \in Threads : job[t].clean =>
    /\ At(t, "second") => HalfRead(job[t])
    /\ job[t].ret = 0 => RightAnswer(job[t])
    /\ ModeRead(job[t])

IInv == Types /\ Alone /\ DoneHolds /\ AskedHolds /\ Reading

-----------------------------------------------------------------------------
(* The name of a property's first target; no two have the same.            *)
NameOf(e) ==
  CASE e = "HDMI_ENABLE" -> "avmute" [] e = "HDCP_VERSION" -> "content type" [] OTHER -> e

LEMMA TargetParts ==
  ASSUME NEW e, NEW c
  PROVE  /\ Target(e, c)[1] = IF e \in OnCrtc THEN c ELSE Connector
         /\ Target(e, c)[2] = NameOf(e)
BY DEF Target, NameOf

LEMMA OtherParts ==
  Priority[1] = Connector /\ Priority[2] = "priority" /\ NoTarget[2] = ""
BY DEF Priority, NoTarget

LEMMA Names ==
  ASSUME NEW e \in EnPropNames
  PROVE  /\ NameOf(e) # "priority" /\ NameOf(e) # ""
         /\ NameOf(e) = "content type" <=> e = "HDCP_VERSION"
         /\ NameOf(e) = "CONTENT_PROTECTION" <=> e = "CONTENT_PROTECTION"
         /\ NameOf(e) = "MODE" <=> e = "MODE"
BY DEF NameOf, EnPropNames

LEMMA NamesDiffer ==
  ASSUME NEW e \in EnPropNames, NEW f \in EnPropNames, e # f
  PROVE  NameOf(e) # NameOf(f)
<1>1. ASSUME NEW g \in EnPropNames
      PROVE  /\ g \notin {"avmute", "content type"}
             /\ \/ g = "HDMI_ENABLE" /\ NameOf(g) = "avmute"
                \/ g = "HDCP_VERSION" /\ NameOf(g) = "content type"
                \/ g \notin {"HDMI_ENABLE", "HDCP_VERSION"} /\ NameOf(g) = g
  BY DEF NameOf, EnPropNames
<1>. QED
  BY <1>1

LEMMA SettingsAre ==
  ASSUME NEW e \in EnProps \ GetOnly, NEW c \in Crtcs
  PROVE  /\ Target(e, c) \in Settings /\ Target(e, c) \in Kernel
         /\ Target(e, c) \in Whole(Target(e, c)) /\ Target(e, c) # Priority
         /\ Target(e, c) \in Reach(e) /\ Whole(Target(e, c)) \subseteq Reach(e)
         /\ e = "HDCP_VERSION" <=> Priority \in Whole(Target(e, c))
         /\ Target(e, c)[2] = "MODE" <=> e = "MODE"
<1>1. e \in EnPropNames
  BY SinkAssumption
<1>2. Target(e, c)[2] = NameOf(e)
  BY TargetParts
<1>3. Target(e, c) # Priority
  <2>1. Target(e, c)[2] # Priority[2]
    BY <1>1, <1>2, OtherParts, Names
  <2>. QED
    BY <2>1
<1>4. Target(e, c)[2] = "content type" <=> e = "HDCP_VERSION"
  BY <1>1, <1>2, Names
<1>5. Target(e, c)[2] = "MODE" <=> e = "MODE"
  BY <1>1, <1>2, Names
<1>6. Target(e, c) \in Settings /\ Target(e, c) \in Kernel
  BY DEF Settings, Kernel
<1>7. Target(e, c) \in Reach(e)
  BY DEF Reach
<1>8. Whole(Target(e, c)) = {Target(e, c)} \cup (IF e = "HDCP_VERSION" THEN {Priority} ELSE {})
  BY <1>4 DEF Whole
<1>9. e = "HDCP_VERSION" => Priority \in Reach(e)
  BY DEF Reach
<1>10. Whole(Target(e, c)) \subseteq Reach(e)
  BY <1>7, <1>8, <1>9
<1>11. e = "HDCP_VERSION" <=> Priority \in Whole(Target(e, c))
  BY <1>3, <1>8
<1>12. Target(e, c) \in Whole(Target(e, c))
  BY <1>8
<1>. QED
  BY <1>3, <1>5, <1>6, <1>7, <1>10, <1>11, <1>12

(* The name of what a property's commands reach.                           *)
LEMMA ReachNames ==
  ASSUME NEW e \in EnProps, NEW k \in Reach(e)
  PROVE  /\ e \notin GetOnly
         /\ k[2] = NameOf(e) \/ (e = "HDCP_VERSION" /\ k = Priority /\ k[2] = "priority")
<1>1. CASE \E c \in Crtcs : k = Target(e, c)
  <2>1. PICK c \in Crtcs : k = Target(e, c)
    BY <1>1
  <2>. QED
    BY <2>1, TargetParts DEF Reach
<1>2. CASE e = "HDCP_VERSION" /\ k = Priority
  BY <1>2, OtherParts DEF Reach
<1>. QED
  BY <1>1, <1>2 DEF Reach

(* Properties do not share what they set in the kernel.                    *)
LEMMA ReachDiffers ==
  ASSUME NEW e \in EnProps, NEW f \in EnProps, e # f, NEW k \in Reach(e)
  PROVE  k \notin Reach(f)
<1>. SUFFICES ASSUME k \in Reach(f) PROVE FALSE
  OBVIOUS
<1>1. e \in EnPropNames /\ f \in EnPropNames
  BY SinkAssumption
<1>2. k[2] = NameOf(e) \/ (e = "HDCP_VERSION" /\ k[2] = "priority")
  BY ReachNames
<1>3. k[2] = NameOf(f) \/ (f = "HDCP_VERSION" /\ k[2] = "priority")
  BY ReachNames
<1>4. NameOf(e) # NameOf(f) /\ NameOf(e) # "priority" /\ NameOf(f) # "priority"
  BY <1>1, Names, NamesDiffer
<1>. QED
  BY <1>2, <1>3, <1>4

LEMMA ReachInKernel ==
  ASSUME NEW e \in EnProps PROVE Reach(e) \subseteq Kernel
<1>1. ASSUME NEW c \in Crtcs, e \notin GetOnly PROVE Target(e, c) \in Kernel
  BY <1>1, SettingsAre
<1>2. Priority \in Kernel
  BY DEF Kernel
<1>. QED
  BY <1>1, <1>2 DEF Reach

LEMMA KernelParts ==
  ASSUME NEW k \in Kernel
  PROVE  k[1] \in Crtcs \cup {Connector} /\ k[2] # ""
<1>1. CASE k = Priority
  <2>1. k[1] = Connector /\ k[2] = "priority"
    BY <1>1, OtherParts
  <2>. QED
    BY <2>1
<1>2. CASE k \in Settings
  <2>1. PICK f \in EnProps \ GetOnly, d \in Crtcs : k = Target(f, d)
    BY <1>2 DEF Settings
  <2>2. /\ k[1] = IF f \in OnCrtc THEN d ELSE Connector
        /\ k[2] = NameOf(f)
    BY <2>1, TargetParts
  <2>3. f \in EnPropNames
    BY SinkAssumption
  <2>. QED
    BY <2>2, <2>3, Names
<1>. QED
  BY <1>1, <1>2 DEF Kernel

(* A target that the kernel has is one that the property's commands reach. *)
LEMMA HeardIsReach ==
  ASSUME NEW e \in EnProps, NEW c \in Crtcs \cup {NoCrtc}, Target(e, c) \in Kernel,
         e \notin GetOnly
  PROVE  /\ \E d \in Crtcs : Target(e, c) = Target(e, d)
         /\ Target(e, c) \in Reach(e) /\ Target(e, c) \in Settings
<1>1. \E d \in Crtcs : Target(e, c) = Target(e, d)
  <2>1. CASE c \in Crtcs
    BY <2>1
  <2>2. CASE c = NoCrtc
    <3>1. NoCrtc \notin Crtcs \cup {Connector}
      BY SinkAssumption DEF NoCrtc, Crtcs, Connector
    <3>2. Target(e, c)[1] = IF e \in OnCrtc THEN c ELSE Connector
      BY TargetParts
    <3>3. Target(e, c)[1] \in Crtcs \cup {Connector}
      BY KernelParts
    <3>4. e \notin OnCrtc
      BY <2>2, <3>1, <3>2, <3>3
    <3>5. FirstCrtc \in Crtcs
      BY SinkAssumption DEF Crtcs, FirstCrtc
    <3>6. Target(e, c) = Target(e, FirstCrtc)
      BY <3>4 DEF Target
    <3>. QED
      BY <3>5, <3>6
  <2>. QED
    BY <2>1, <2>2
<1>. QED
  BY <1>1, SettingsAre

LEMMA SetTargetHeard ==
  ASSUME NEW e, NEW c, SetTarget(e, c) \in Kernel
  PROVE  e \notin GetOnly /\ SetTarget(e, c) = Target(e, c)
<1>1. NoTarget \notin Kernel
  <2>1. ASSUME NEW k \in Kernel PROVE k[2] # NoTarget[2]
    BY OtherParts, KernelParts
  <2>. QED
    BY <2>1
<1>. QED
  BY <1>1 DEF SetTarget

(* What is sent fits the kernel's properties.                              *)
LEMMA SentFits ==
  ASSUME NEW e, NEW v \in 0 .. 2
  PROVE  Send(e, v) \in 0 .. 2 /\ SendPriority(v) \in 0 .. 2
BY DEF Send, SendPriority

(* The masks and numbers give back what the display can do.                *)
LEMMA SinkDecoded ==
  ASSUME NEW s \in Sinks
  PROVE  /\ HDRSupportedList(HdrBits(s), DvBits(s)) = s.caps
         /\ HdcpVersions(HdcpNumber(s)) = s.hdcp
         /\ HdrBits(s) \subseteq Nat
<1>1. s.caps \subseteq Capabilities /\ s.hdcp \in {{}, {14}, {22}, {14, 22}}
  BY SinkAssumption
<1>a. /\ 0 \in HdrBits(s) <=> "HDR10PLUS" \in s.caps
      /\ 1 \in HdrBits(s) <=> "SDR" \in s.caps
      /\ 2 \in HdrBits(s) <=> "HDR10_TRADITIONAL" \in s.caps
      /\ 3 \in HdrBits(s) <=> "HDR10_ST2084" \in s.caps
      /\ 4 \in HdrBits(s) <=> "HDR_HLG" \in s.caps
  BY DEF HdrBits
<1>b. /\ DvBits(s) \cap {1, 3, 4} # {} <=> "DOLBYVISION_STD" \in s.caps
      /\ DvBits(s) \cap {5, 6, 7} # {} <=> "DOLBYVISION_LL" \in s.caps
  BY DEF DvBits
<1>2. ASSUME NEW c \in Capabilities
      PROVE  c \in HDRSupportedList(HdrBits(s), DvBits(s)) <=> c \in s.caps
  BY <1>a, <1>b DEF HDRSupportedList, Capabilities
<1>3. HDRSupportedList(HdrBits(s), DvBits(s)) \subseteq Capabilities
  BY DEF HDRSupportedList
<1>4. HdcpVersions(HdcpNumber(s)) = s.hdcp
  BY <1>1 DEF HdcpVersions, HdcpNumber
<1>5. HdrBits(s) \subseteq Nat
  <2>1. HdrBits(s) \subseteq 0 .. 4
    BY Zenon DEF HdrBits
  <2>. QED
    BY <2>1
<1>. QED
  BY <1>1, <1>2, <1>3, <1>4, <1>5

(* The inversion of HDMI_ENABLE and the two properties of the HDCP version *)
(* give back what was sent.                                                *)
LEMMA ReadInvertsSend ==
  ASSUME NEW e, NEW v \in 0 .. 2
  PROVE  /\ e # "HDCP_VERSION" => Read(e, Send(e, v), 0) = Meaning(e, v)
         /\ e = "HDCP_VERSION" => Read(e, Send(e, v), SendPriority(v)) = Meaning(e, v)
BY DEF Read, Send, SendPriority, Meaning

-----------------------------------------------------------------------------
(* What a job's cleanness is does not matter for where it may be.          *)
LEMMA CleanFree ==
  ASSUME NEW j \in Job, NEW c \in BOOLEAN, JobFits(j)
  PROVE  [j EXCEPT !.clean = c] \in Job /\ JobFits([j EXCEPT !.clean = c])
BY DEF Job, JobFits, Sets

(* A job that has what another one has, but for its cleanness.             *)
SameJob(j, k) ==
  /\ k.at = j.at /\ k.call = j.call /\ k.e = j.e /\ k.v = j.v
  /\ k.done = j.done /\ k.sink = j.sink /\ k.ret = j.ret
  /\ k.out = j.out /\ k.set = j.set /\ k.crtc = j.crtc /\ k.pipe = j.pipe
  /\ k.clean => j.clean

(* A call begins.                                                          *)
LEMMA BeginKeeps ==
  ASSUME NEW t \in Threads, NEW work \in Job, JobFits(work),
         work.at \notin {"idle", "second", "vblank"}, work.ret = Failed, work.done = {},
         IInv, Begin(t, work), UNCHANGED <<kernel, world, conns, asked>>, files' \subseteq files
  PROVE  IInv'
<1>. DEFINE about(u) == u # t /\ ~At(u, "idle") /\ job[u].e = work.e /\ work.e # "none"
            sets(w) == w.call \in {"set", "setmode"}
            alone == ~\E o \in Threads : about(o) /\ sets(job[o])
<1>. SUFFICES ASSUME Types, Alone, DoneHolds, AskedHolds, Reading
              PROVE  IInv'
  BY DEF IInv
<1>1. /\ At(t, "idle") /\ calls < MaxCalls /\ calls' = calls + 1
      /\ job' = [u \in Threads |->
           IF u = t THEN [work EXCEPT !.clean = alone]
           ELSE IF about(u) /\ sets(work) THEN [job[u] EXCEPT !.clean = FALSE]
           ELSE job[u]]
  BY DEF Begin
<1>2. \A u \in Threads : job[u] \in Job /\ JobFits(job[u])
  BY DEF Types
<1>3. Sets(work) <=> sets(work)
  BY DEF Sets
<1>4. Sets(work) => work.e \in EnProps /\ work.e # "none"
  BY SinkAssumption DEF JobFits, Sets, EnPropNames
<1>5. /\ job'[t] \in Job /\ JobFits(job'[t]) /\ SameJob(work, [job'[t] EXCEPT !.clean = work.clean])
      /\ job'[t].clean = alone
      /\ job'[t].at = work.at /\ job'[t].call = work.call /\ job'[t].e = work.e
      /\ job'[t].ret = Failed /\ job'[t].done = {}
  <2>1. job'[t] = [work EXCEPT !.clean = alone] /\ alone \in BOOLEAN
    BY <1>1
  <2>. HIDE DEF alone
  <2>2. job'[t] \in Job /\ JobFits(job'[t])
    BY <2>1, CleanFree
  <2>. QED
    BY <2>1, <2>2 DEF Job, SameJob
<1>6. ASSUME NEW u \in Threads, u # t
      PROVE  /\ job'[u] \in Job /\ JobFits(job'[u]) /\ SameJob(job[u], job'[u])
             /\ Sets(work) /\ job[u].e = work.e => ~job'[u].clean
  <2>1. job[u] \in Job /\ JobFits(job[u])
    BY <1>2
  <2>2. CASE about(u) /\ sets(work)
    <3>1. job'[u] = [job[u] EXCEPT !.clean = FALSE]
      BY <1>1, <1>6, <2>2
    <3>2. /\ job'[u] \in Job /\ JobFits(job'[u])
          /\ job'[u].clean = FALSE
          /\ job'[u].at = job[u].at /\ job'[u].call = job[u].call /\ job'[u].e = job[u].e
          /\ job'[u].v = job[u].v
          /\ job'[u].done = job[u].done /\ job'[u].sink = job[u].sink
          /\ job'[u].ret = job[u].ret
          /\ job'[u].out = job[u].out /\ job'[u].set = job[u].set
          /\ job'[u].crtc = job[u].crtc /\ job'[u].pipe = job[u].pipe
      <4>1. PICK j \in Job : j = job[u]
        BY <2>1
      <4>2. JobFits(j) /\ job'[u] = [j EXCEPT !.clean = FALSE]
        BY <2>1, <3>1, <4>1
      <4>3. PICK c \in BOOLEAN : c = FALSE
        OBVIOUS
      <4>4. job'[u] = [j EXCEPT !.clean = c]
        BY <4>2, <4>3
      <4>5. /\ job'[u] \in Job /\ JobFits(job'[u]) /\ job'[u].clean = c
            /\ job'[u].at = j.at /\ job'[u].call = j.call /\ job'[u].e = j.e
            /\ job'[u].v = j.v
            /\ job'[u].done = j.done /\ job'[u].sink = j.sink
            /\ job'[u].ret = j.ret
            /\ job'[u].out = j.out /\ job'[u].set = j.set
            /\ job'[u].crtc = j.crtc /\ job'[u].pipe = j.pipe
        <5>1. job'[u] \in Job /\ JobFits(job'[u])
          BY <4>2, <4>4, CleanFree
        <5>. QED
          BY <4>4, <5>1 DEF Job
      <4>. QED
        BY <4>1, <4>3, <4>5
    <3>. QED
      BY <3>2 DEF SameJob
  <2>3. CASE ~(about(u) /\ sets(work))
    <3>1. job'[u] = job[u]
      BY <1>1, <1>6, <2>3
    <3>2. Sets(work) => job[u].e # work.e
      <4>1. job[u].at = "idle" => job[u].e = "none"
        BY <2>1 DEF JobFits
      <4>. QED
        BY <1>3, <1>4, <1>6, <2>3, <4>1 DEF At
    <3>. QED
      BY <2>1, <3>1, <3>2 DEF SameJob
  <2>. QED
    BY <2>2, <2>3
<1>7. asked' = asked /\ kernel' = kernel /\ sink' = sink /\ home' = home /\ lit' = lit
      /\ job[t].done = {}
  BY <1>1, <1>2 DEF world, At, JobFits, Sets
<1>8. Types'
  <2>1. asked' \in [Settings -> Values \cup {Unknown}]
    BY <1>7 DEF Types
  <2>2. job' \in [Threads -> Job] /\ \A u \in Threads : JobFits(job'[u])
    <3>1. \A u \in Threads : job'[u] \in Job /\ JobFits(job'[u])
      BY <1>5, <1>6
    <3>2. job' = [u \in Threads |-> job'[u]]
      BY <1>1
    <3>. QED
      BY <3>1, <3>2
  <2>3. \A u \in Threads : u \in files' \cup conns' => u # t /\ Holder(job'[u])
    <3>1. t \notin files \cup conns
      BY <1>1 DEF Types, Holder, At
    <3>2. \A u \in files \cup conns : u \in Threads /\ Holder(job[u])
      BY DEF Types
    <3>. QED
      BY <1>6, <3>1, <3>2 DEF Holder, SameJob
  <2>4. files' \cup conns' \subseteq Threads
    BY DEF Types
  <2>5. calls' \in 0 .. MaxCalls
    BY <1>1, SinkAssumption DEF Types
  <2>6. /\ kernel' \in [Kernel -> 0 .. 2] /\ sink' \in Sinks /\ home' \in Homes
        /\ lit' \in Lights /\ changes' \in 0 .. MaxChanges
    BY DEF Types, world
  <2>. QED
    BY <2>1, <2>2, <2>3, <2>4, <2>5, <2>6 DEF Types
<1>9. Alone'
  <2>. SUFFICES ASSUME NEW r \in Threads, NEW u \in Threads, r # u,
                       Sets(job'[u]), job'[u].e = job'[r].e
                PROVE  ~job'[r].clean
    BY DEF Alone
  <2>1. CASE r = t
    <3>1. Sets(job[u]) /\ job[u].e = work.e
      BY <1>5, <1>6, <2>1 DEF SameJob, Sets
    <3>2. job[u].at # "idle" /\ job[u].e # "none"
      BY <1>2, <3>1, SinkAssumption DEF JobFits, Sets, EnPropNames
    <3>. QED
      BY <1>5, <2>1, <3>1, <3>2 DEF At, Sets
  <2>2. CASE u = t
    BY <1>5, <1>6, <2>2 DEF SameJob, Sets
  <2>3. CASE r # t /\ u # t
    BY <1>6, <2>3 DEF SameJob, Sets, Alone
  <2>. QED
    BY <2>1, <2>2, <2>3
<1>11. DoneHolds'
  BY <1>5, <1>6, <1>7 DEF DoneHolds, Effect, SameJob, Sets
<1>12. AskedHolds'
  <2>1. \A k : Quiet(k)' => Quiet(k)
    BY <1>5, <1>6, <1>7 DEF Quiet, SameJob
  <2>. QED
    BY <1>7, <2>1 DEF AskedHolds, Effect
<1>13. Reading'
  <2>. SUFFICES ASSUME NEW u \in Threads, job'[u].clean
                PROVE  /\ At(u, "second")' => HalfRead(job[u])'
                       /\ job'[u].ret = 0 => RightAnswer(job[u])'
                       /\ ModeRead(job[u])'
    BY DEF Reading
  <2>1. CASE u = t
    BY <1>5, <2>1 DEF At, Failed, ModeRead
  <2>2. CASE u # t
    <3>1. SameJob(job[u], job'[u]) /\ job[u].clean
      BY <1>6, <2>2 DEF SameJob
    <3>2. /\ At(u, "second") => HalfRead(job[u])
          /\ job[u].ret = 0 => RightAnswer(job[u])
          /\ ModeRead(job[u])
      BY <3>1 DEF Reading
    <3>3. At(u, "second")' => HalfRead(job[u])'
      BY <1>7, <3>1, <3>2 DEF HalfRead, At, SameJob
    <3>4. job'[u].ret = 0 => RightAnswer(job[u])'
      BY <1>7, <3>1, <3>2 DEF RightAnswer, SameJob
    <3>5. ModeRead(job[u])'
      BY <1>7, <3>1, <3>2 DEF ModeRead, SameJob
    <3>. QED
      BY <3>3, <3>4, <3>5
  <2>. QED
    BY <2>1, <2>2
<1>. QED
  BY <1>8, <1>9, <1>11, <1>12, <1>13 DEF IInv

(* A thread goes on with its call and sends nothing.                       *)
Moves(t, new) ==
  /\ new \in Job /\ JobFits(new)
  /\ job' = [job EXCEPT ![t] = new]
  /\ UNCHANGED <<kernel, world, asked, calls>>
  /\ files' \cup conns' \subseteq files \cup conns \cup {t}
  /\ t \in files' \cup conns' => Holder(new)
  /\ new.call = job[t].call /\ new.e = job[t].e /\ new.v = job[t].v
  /\ new.done = job[t].done /\ new.sink = job[t].sink
  /\ new.clean => job[t].clean
  /\ new.clean /\ new.at = "second" => HalfRead(new)
  /\ new.clean /\ new.ret = 0 => RightAnswer(new)
  /\ new.clean => ModeRead(new)

LEMMA MovesKeep ==
  ASSUME NEW t \in Threads, NEW new, IInv, Moves(t, new)
  PROVE  IInv'
<1>. SUFFICES ASSUME Types, Alone, DoneHolds, AskedHolds, Reading
              PROVE  IInv'
  BY DEF IInv
<1>1. /\ job'[t] = new
      /\ \A u \in Threads : u # t => job'[u] = job[u]
      /\ UNCHANGED <<kernel, sink, home, lit, changes, asked, calls>>
  BY DEF Moves, Types, world
<1>2. /\ new \in Job /\ JobFits(new)
      /\ new.call = job[t].call /\ new.e = job[t].e /\ new.v = job[t].v
      /\ new.done = job[t].done /\ new.sink = job[t].sink
      /\ new.clean => job[t].clean
  BY DEF Moves
<1>3. Types'
  <2>1. job' \in [Threads -> Job] /\ \A u \in Threads : JobFits(job'[u])
    BY <1>1, <1>2 DEF Types, Moves
  <2>2. \A u \in files' \cup conns' : u \in Threads /\ Holder(job'[u])
    <3>1. \A u \in files \cup conns : u \in Threads /\ Holder(job[u])
      BY DEF Types
    <3>. QED
      BY <1>1, <3>1 DEF Moves
  <2>. QED
    BY <1>1, <2>1, <2>2 DEF Types
<1>4. Alone'
  BY <1>1, <1>2 DEF Alone, Sets
<1>6. DoneHolds'
  BY <1>1, <1>2 DEF DoneHolds, Effect, Sets
<1>7. AskedHolds'
  <2>1. \A k : Quiet(k)' => Quiet(k)
    BY <1>1, <1>2 DEF Quiet
  <2>. QED
    BY <1>1, <2>1 DEF AskedHolds, Effect
<1>8. Reading'
  <2>. SUFFICES ASSUME NEW u \in Threads, job'[u].clean
                PROVE  /\ At(u, "second")' => HalfRead(job[u])'
                       /\ job'[u].ret = 0 => RightAnswer(job[u])'
                       /\ ModeRead(job[u])'
    BY DEF Reading
  <2>1. CASE u = t
    BY <1>1, <2>1 DEF Moves, At, HalfRead, RightAnswer, ModeRead
  <2>2. CASE u # t
    BY <1>1, <2>2 DEF Reading, At, HalfRead, RightAnswer, ModeRead
  <2>. QED
    BY <2>1, <2>2
<1>. QED
  BY <1>3, <1>4, <1>6, <1>7, <1>8 DEF IInv

(* A thread sends a command, which may be done.                            *)
Sends(t, new, target, did) ==
  /\ new \in Job /\ JobFits(new)
  /\ job' = [job EXCEPT ![t] = new]
  /\ UNCHANGED <<world, files, conns, asked, calls>>
  /\ t \in files \cup conns => Holder(new)
  /\ new.call = job[t].call /\ new.e = job[t].e /\ new.v = job[t].v
  /\ new.sink = job[t].sink /\ new.clean = job[t].clean
  /\ Sets(new)
  /\ did => /\ target \in Kernel /\ target \in Reach(new.e)
            /\ kernel' = [kernel EXCEPT ![target] = IF target = Priority THEN SendPriority(new.v)
                                                    ELSE Send(new.e, new.v)]
            /\ new.done = job[t].done \cup {target}
  /\ ~did => kernel' = kernel /\ new.done = job[t].done

(* The pipe of a call for the vblank that has found a mode is there.       *)
LEMMA PipeIsThere ==
  ASSUME NEW j \in Job, JobFits(j), j.call = "vblank", j.at = "vblank" \/ j.ret = 0
  PROVE  j.e = "MODE" /\ Target("MODE", j.pipe + 1) \in Kernel
         /\ Target("MODE", j.pipe + 1) \in Reach("MODE")
<1>1. j.pipe \in 0 .. NCrtcs - 1 /\ j.e = "MODE"
  BY DEF JobFits
<1>2. j.pipe + 1 \in Crtcs
  BY <1>1, SinkAssumption DEF Crtcs
<1>3. "MODE" \in EnProps \ GetOnly
  BY SinkAssumption DEF GetOnly
<1>. QED
  BY <1>1, <1>2, <1>3, SettingsAre

LEMMA SendsKeep ==
  ASSUME NEW t \in Threads, NEW new, NEW target, NEW did \in BOOLEAN,
         IInv, Sends(t, new, target, did)
  PROVE  IInv'
<1>. SUFFICES ASSUME Types, Alone, DoneHolds, AskedHolds, Reading
              PROVE  IInv'
  BY DEF IInv
<1>1. /\ job'[t] = new
      /\ \A u \in Threads : u # t => job'[u] = job[u]
      /\ UNCHANGED <<sink, home, lit, changes, files, conns, asked, calls>>
  BY DEF Sends, Types, world
<1>2. /\ new \in Job /\ JobFits(new) /\ Sets(new)
      /\ new.call = job[t].call /\ new.e = job[t].e /\ new.v = job[t].v
      /\ new.sink = job[t].sink /\ new.clean = job[t].clean
      /\ job[t].done \subseteq new.done /\ new.done \subseteq job[t].done \cup {target}
      /\ did => target \in Kernel /\ target \in Reach(new.e) /\ target \in new.done
      /\ ~did => new.done = job[t].done
      /\ new.e \in EnProps /\ new.v \in 0 .. 2 /\ Sets(job[t])
  BY SinkAssumption DEF Sends, Sets, JobFits
<1>3. /\ \A k \in Kernel : k # target => kernel'[k] = kernel[k]
      /\ \A k \in Kernel : ~did => kernel'[k] = kernel[k]
      /\ did => kernel'[target] = IF target = Priority THEN SendPriority(new.v)
                                  ELSE Send(new.e, new.v)
  BY DEF Sends, Types
<1>4. Types'
  <2>1. job' \in [Threads -> Job] /\ \A u \in Threads : JobFits(job'[u])
    BY <1>1, <1>2 DEF Types, Sends
  <2>2. \A u \in files' \cup conns' : u \in Threads /\ Holder(job'[u])
    <3>1. \A u \in files \cup conns : u \in Threads /\ Holder(job[u])
      BY DEF Types
    <3>. QED
      BY <1>1, <3>1 DEF Sends
  <2>3. kernel' \in [Kernel -> 0 .. 2]
    <3>1. Send(new.e, new.v) \in 0 .. 2 /\ SendPriority(new.v) \in 0 .. 2
      BY <1>2, SentFits
    <3>. QED
      BY <3>1 DEF Sends, Types
  <2>. QED
    BY <1>1, <2>1, <2>2, <2>3 DEF Types
<1>5. Alone'
  BY <1>1, <1>2 DEF Alone, Sets
<1>6. ASSUME NEW f \in EnProps, f # new.e, NEW k \in Kernel, k \in Reach(f)
      PROVE  kernel'[k] = kernel[k]
  BY <1>2, <1>3, <1>6, ReachDiffers
<1>7. DoneHolds'
  <2>. SUFFICES ASSUME NEW u \in Threads, Sets(job'[u]), job'[u].clean,
                       NEW k \in job'[u].done
                PROVE  Effect(job[u].e, job[u].v, k)'
    BY DEF DoneHolds
  <2>1. CASE u = t
    <3>1. k \in Kernel
      BY <1>1, <1>2, <2>1 DEF Job
    <3>2. CASE k = target /\ did
      BY <1>1, <1>3, <2>1, <3>2 DEF Effect
    <3>3. CASE ~(k = target /\ did)
      <4>1. k \in job[t].done
        BY <1>1, <1>2, <2>1, <3>3
      <4>2. Effect(job[t].e, job[t].v, k) /\ kernel'[k] = kernel[k]
        BY <1>1, <1>2, <1>3, <2>1, <3>1, <3>3, <4>1 DEF DoneHolds
      <4>. QED
        BY <1>1, <1>2, <2>1, <4>2 DEF Effect
    <3>. QED
      BY <3>2, <3>3
  <2>2. CASE u # t
    <3>1. job'[u] = job[u] /\ Sets(job[u]) /\ job[u].clean
      BY <1>1, <2>2
    <3>2. job[u].e # new.e
      BY <1>2, <2>2, <3>1 DEF Alone
    <3>3. k \in Kernel /\ k \in Reach(job[u].e) /\ job[u].e \in EnProps
      BY <3>1, SinkAssumption DEF Types, Job, JobFits, Sets
    <3>4. kernel'[k] = kernel[k]
      BY <1>6, <3>2, <3>3
    <3>5. Effect(job[u].e, job[u].v, k)
      BY <3>1 DEF DoneHolds
    <3>. QED
      BY <3>1, <3>4, <3>5 DEF Effect
  <2>. QED
    BY <2>1, <2>2
<1>8. AskedHolds'
  <2>. SUFFICES ASSUME NEW e \in EnProps \ GetOnly, NEW c \in Crtcs,
                       asked'[Target(e, c)] # Unknown, Quiet(Target(e, c))',
                       NEW k \in Whole(Target(e, c))
                PROVE  Effect(e, asked[Target(e, c)], k)'
    BY DEF AskedHolds
  <2>1. Quiet(Target(e, c))
    BY <1>1, <1>2 DEF Quiet
  <2>2. Effect(e, asked[Target(e, c)], k)
    BY <1>1, <2>1 DEF AskedHolds
  <2>3. k \in Kernel
    BY SettingsAre, ReachInKernel
  <2>4. did => k # target
    BY <1>1, <1>2 DEF Quiet
  <2>5. kernel'[k] = kernel[k]
    BY <1>3, <2>3, <2>4
  <2>. QED
    BY <1>1, <2>2, <2>5 DEF Effect
<1>9. Reading'
  <2>. SUFFICES ASSUME NEW u \in Threads, job'[u].clean
                PROVE  /\ At(u, "second")' => HalfRead(job[u])'
                       /\ job'[u].ret = 0 => RightAnswer(job[u])'
                       /\ ModeRead(job[u])'
    BY DEF Reading
  <2>1. CASE u = t
    BY <1>1, <1>2, <2>1 DEF At, HalfRead, RightAnswer, ModeRead, Sets, JobFits
  <2>2. CASE u # t
    <3>1. /\ At(u, "second")' => HalfRead(job[u])'
          /\ job'[u].ret = 0 => RightAnswer(job[u])'
      BY <1>1, <2>2 DEF Reading, At, HalfRead, RightAnswer
    <3>2. ModeRead(job[u]) /\ job'[u] = job[u] /\ job[u] \in Job /\ JobFits(job[u])
      BY <1>1, <2>2 DEF Reading, Types
    <3>3. ASSUME job[u].call = "vblank", job[u].at = "vblank" \/ job[u].ret = 0
          PROVE  kernel'[Target("MODE", job[u].pipe + 1)] = kernel[Target("MODE", job[u].pipe + 1)]
      <4>1. /\ job[u].e = "MODE" /\ Target("MODE", job[u].pipe + 1) \in Kernel
            /\ Target("MODE", job[u].pipe + 1) \in Reach("MODE")
        BY <3>2, <3>3, PipeIsThere
      <4>2. new.e # "MODE"
        BY <1>1, <1>2, <2>2, <4>1 DEF Alone
      <4>3. "MODE" \in EnProps
        BY SinkAssumption
      <4>. QED
        BY <1>6, <4>1, <4>2, <4>3
    <3>4. ModeRead(job[u])'
      BY <3>2, <3>3 DEF ModeRead
    <3>. QED
      BY <3>1, <3>4
  <2>. QED
    BY <2>1, <2>2
<1>. QED
  BY <1>4, <1>5, <1>7, <1>8, <1>9 DEF IInv

-----------------------------------------------------------------------------
(* A thread goes from one place to another with the job it has.            *)
LEMMA GotoKeeps ==
  ASSUME NEW t \in Threads, NEW there \in Places \ {"idle", "second", "vblank"}, IInv,
         Goto(t, there), UNCHANGED <<kernel, world, asked, calls>>,
         files' \cup conns' \subseteq files \cup conns \cup {t},
         JobFits([job[t] EXCEPT !.at = there]),
         t \in files' \cup conns' => Holder([job[t] EXCEPT !.at = there])
  PROVE  IInv'
<1>1. job \in [Threads -> Job] /\ job[t] \in Job
  BY DEF IInv, Types
<1>2. PICK new : new = [job[t] EXCEPT !.at = there]
  OBVIOUS
<1>3. /\ new \in Job /\ new.at = there /\ new.call = job[t].call /\ new.e = job[t].e
      /\ new.v = job[t].v /\ new.done = job[t].done /\ new.sink = job[t].sink
      /\ new.clean = job[t].clean /\ new.ret = job[t].ret /\ new.out = job[t].out
      /\ new.set = job[t].set /\ new.crtc = job[t].crtc /\ new.pipe = job[t].pipe
  BY <1>1, <1>2 DEF Job
<1>4. new.clean /\ new.ret = 0 => RightAnswer(new)
  <2>1. job[t].clean /\ job[t].ret = 0 => RightAnswer(job[t])
    BY DEF IInv, Reading
  <2>2. RightAnswer(job[t]) => RightAnswer(new)
    BY <1>3 DEF RightAnswer
  <2>. QED
    BY <1>3, <2>1, <2>2
<1>e. new.clean => ModeRead(new)
  BY <1>3 DEF IInv, Reading, ModeRead
<1>5. job' = [job EXCEPT ![t] = new]
  BY <1>1, <1>2 DEF Goto
<1>6. Moves(t, new)
  BY <1>2, <1>3, <1>4, <1>e, <1>5 DEF Moves
<1>. QED
  BY <1>6, MovesKeep

LEMMA OpenFdKeeps ==
  ASSUME NEW t \in Threads, IInv, OpenFd(t) PROVE IInv'
<1>1. PICK there \in {"connect", "close"} : Goto(t, there) /\ files' \subseteq files \cup {t}
  BY DEF OpenFd
<1>2. job[t] \in Job /\ JobFits(job[t]) /\ job[t].at = "open"
  BY DEF IInv, Types, OpenFd, At
<1>3. /\ JobFits([job[t] EXCEPT !.at = there])
      /\ Holder([job[t] EXCEPT !.at = there])
  BY <1>1, <1>2 DEF Job, JobFits, Sets, Holder, Failed
<1>. QED
  BY <1>1, <1>3, GotoKeeps DEF OpenFd, Places

LEMMA ConnectorCreateKeeps ==
  ASSUME NEW t \in Threads, IInv, ConnectorCreate(t) PROVE IInv'
<1>1. /\ job \in [Threads -> Job] /\ job[t] \in Job /\ JobFits(job[t])
      /\ job[t].at = "connect" /\ job[t].ret = Failed
  BY DEF IInv, Types, ConnectorCreate, At, JobFits, Job
<1>2. CASE Goto(t, "close") /\ UNCHANGED conns
  <2>1. JobFits([job[t] EXCEPT !.at = "close"]) /\ Holder([job[t] EXCEPT !.at = "close"])
    BY <1>1 DEF Job, JobFits, Sets, Holder, Failed
  <2>. QED
    BY <1>2, <2>1, GotoKeeps DEF ConnectorCreate, Places
<1>3. CASE /\ conns' = conns \cup {t}
           /\ job' = [job EXCEPT ![t].at = "encoder", ![t].enc = lit # NoCrtc]
  <2>1. PICK enc \in BOOLEAN : enc = (lit # NoCrtc)
    OBVIOUS
  <2>2. PICK new : new = [job[t] EXCEPT !.at = "encoder", !.enc = enc]
    OBVIOUS
  <2>3. /\ new \in Job /\ new.at = "encoder" /\ new.call = job[t].call /\ new.e = job[t].e
        /\ new.v = job[t].v /\ new.done = job[t].done /\ new.sink = job[t].sink
        /\ new.clean = job[t].clean /\ new.ret = Failed
    BY <1>1, <2>2, ZenonT(60) DEF Job, Places
  <2>4. JobFits(new) /\ Holder(new)
    BY <1>1, <2>3 DEF JobFits, Sets, Holder, Failed
  <2>5. job' = [job EXCEPT ![t] = new]
    BY <1>1, <1>3, <2>1, <2>2
  <2>6. ModeRead(new) /\ new.ret # 0
    BY <2>3 DEF ModeRead, Failed
  <2>7. UNCHANGED <<kernel, world, files, asked, calls>>
    BY DEF ConnectorCreate
  <2>8. Moves(t, new)
    BY <1>3, <2>3, <2>4, <2>5, <2>6, <2>7 DEF Moves
  <2>. QED
    BY <2>8, MovesKeep
<1>. QED
  BY <1>2, <1>3 DEF ConnectorCreate

(* The CRTC that a call works with is one of the device's, or none.        *)
LEMMA CrtcIsFound ==
  ASSUME IInv, NEW enc \in BOOLEAN, NEW failed \in BOOLEAN
  PROVE  CrtcFound(enc, failed) \in Crtcs \cup {NoCrtc}
<1>1. lit \in Crtcs \cup {NoCrtc}
  BY SinkAssumption DEF IInv, Types
<1>2. FirstCrtc \in Crtcs
  BY SinkAssumption DEF FirstCrtc, Crtcs
<1>. QED
  BY <1>1, <1>2 DEF CrtcFound

LEMMA ReadEncoderKeeps ==
  ASSUME NEW t \in Threads, IInv, ReadEncoder(t) PROVE IInv'
<1>1. job \in [Threads -> Job]
  BY DEF IInv, Types
<1>2. PICK j \in Job, call \in {"set", "get", "getMode", "report"} :
        /\ j = job[t] /\ JobFits(j) /\ call = j.call /\ j.at = "encoder" /\ j.ret = Failed
  <2>1. /\ job[t] \in Job /\ JobFits(job[t]) /\ job[t].at = "encoder"
        /\ job[t].ret = Failed /\ job[t].call \in {"set", "get", "getMode", "report"}
    BY DEF IInv, Types, ReadEncoder, At, JobFits, Job
  <2>. QED
    BY <2>1
<1>3. PICK failed \in BOOLEAN :
        job' = [job EXCEPT ![t].at = job[t].call, ![t].enc = FALSE,
                           ![t].crtc = CrtcFound(job[t].enc, failed)]
  BY DEF ReadEncoder
<1>4. PICK c \in Crtcs \cup {NoCrtc} : c = CrtcFound(j.enc, failed)
  BY CrtcIsFound DEF Job
<1>5. PICK no \in BOOLEAN : no = FALSE
  OBVIOUS
<1>6. PICK new : new = [j EXCEPT !.at = call, !.enc = no, !.crtc = c]
  OBVIOUS
<1>7. /\ new \in Job /\ new.at = call /\ new.call = call /\ new.e = j.e
      /\ new.v = j.v /\ new.done = j.done /\ new.sink = j.sink
      /\ new.clean = j.clean /\ new.ret = Failed
  <2>1. call \in Places
    BY DEF Places
  <2>. HIDE DEF Places
  <2>2. new \in Job
    BY <1>6, <2>1 DEF Job
  <2>. QED
    BY <1>2, <1>6, <2>2 DEF Job
<1>8. JobFits(new) /\ Holder(new)
  BY <1>2, <1>7 DEF JobFits, Sets, Holder, Failed
<1>9. job' = [job EXCEPT ![t] = new]
  <2>1. job' = [job EXCEPT ![t] = [job[t] EXCEPT !.at = job[t].call, !.enc = FALSE,
                                                 !.crtc = CrtcFound(job[t].enc, failed)]]
    BY <1>1, <1>3, Zenon
  <2>. QED
    BY <1>2, <1>4, <1>5, <1>6, <2>1
<1>10. ModeRead(new) /\ new.ret # 0 /\ new.at # "second"
  BY <1>7 DEF ModeRead, Failed
<1>11. UNCHANGED <<kernel, world, files, conns, asked, calls>>
  BY DEF ReadEncoder
<1>12. Moves(t, new)
  BY <1>2, <1>7, <1>8, <1>9, <1>10, <1>11 DEF Moves
<1>. QED
  BY <1>12, MovesKeep

LEMMA CloseKeeps ==
  ASSUME NEW t \in Threads, IInv, Close(t) PROVE IInv'
<1>1. job[t] \in Job /\ JobFits(job[t]) /\ job[t].at = "close"
  BY DEF IInv, Types, Close, At
<1>2. Goto(t, "returned") /\ files' = files \ {t} /\ conns' = conns \ {t}
  BY DEF Close, Destroys
<1>3. JobFits([job[t] EXCEPT !.at = "returned"])
  BY <1>1 DEF Job, JobFits, Sets, Failed
<1>. QED
  BY <1>2, <1>3, GotoKeeps DEF Close, Places

(* The steps in which a thread crashes.                                    *)
LEMMA CrashKeeps ==
  ASSUME NEW t \in Threads, IInv, At(t, "report") \/ At(t, "pipe"), Goto(t, "crashed"),
         UNCHANGED <<kernel, world, files, conns, asked, calls>>
  PROVE  IInv'
<1>1. job[t] \in Job /\ JobFits(job[t]) /\ job[t].at \in {"report", "pipe"}
  BY DEF IInv, Types, At
<1>2. JobFits([job[t] EXCEPT !.at = "crashed"])
  BY <1>1 DEF Job, JobFits, Sets, Failed
<1>3. t \in files \cup conns => Holder([job[t] EXCEPT !.at = "crashed"])
  BY <1>1 DEF IInv, Types, Holder, Job
<1>. QED
  BY <1>2, <1>3, GotoKeeps DEF Places

-----------------------------------------------------------------------------
(* While an undisturbed call reads a property, what asked remembers of it  *)
(* is in the kernel.                                                       *)
LEMMA Remembered ==
  ASSUME IInv, NEW t \in Threads, job[t].clean, ~Sets(job[t]),
         NEW e \in EnProps \ GetOnly, e = job[t].e,
         NEW c \in Crtcs \cup {NoCrtc}, Target(e, c) \in Kernel,
         asked[Target(e, c)] # Unknown
  PROVE  /\ \A k \in Whole(Target(e, c)) : Effect(e, asked[Target(e, c)], k)
         /\ Target(e, c) \in Settings /\ Target(e, c) \in Whole(Target(e, c))
         /\ Target(e, c) # Priority
         /\ e = "HDCP_VERSION" => Priority \in Whole(Target(e, c))
         /\ asked[Target(e, c)] \in 0 .. 2
<1>1. PICK d \in Crtcs : Target(e, c) = Target(e, d)
  BY HeardIsReach
<1>2. /\ Target(e, d) \in Settings /\ Target(e, d) \in Whole(Target(e, d))
      /\ Target(e, d) # Priority /\ Whole(Target(e, d)) \subseteq Reach(e)
      /\ e = "HDCP_VERSION" => Priority \in Whole(Target(e, d))
  BY SettingsAre
<1>3. ASSUME NEW u \in Threads, NEW k \in job[u].done PROVE k \notin Reach(e)
  <2>1. job[u] \in Job /\ JobFits(job[u])
    BY DEF IInv, Types
  <2>2. Sets(job[u]) /\ u # t
    BY <1>3, <2>1 DEF JobFits
  <2>3. job[u].e # e
    BY <2>2 DEF IInv, Alone
  <2>4. job[u].e \in EnProps /\ k \in Reach(job[u].e)
    BY <1>3, <2>1, <2>2, SinkAssumption DEF JobFits, Sets
  <2>. QED
    BY <2>3, <2>4, ReachDiffers
<1>4. Quiet(Target(e, d))
  BY <1>2, <1>3 DEF Quiet
<1>5. \A k \in Whole(Target(e, d)) : Effect(e, asked[Target(e, d)], k)
  BY <1>1, <1>4 DEF IInv, AskedHolds
<1>6. asked[Target(e, d)] \in 0 .. 2
  BY <1>1, <1>2, SinkAssumption DEF IInv, Types
<1>. QED
  BY <1>1, <1>2, <1>5, <1>6

(* The first property is read.                                             *)
LEMMA ReadFirstKeeps ==
  ASSUME NEW t \in Threads, IInv, ReadFirst(t) PROVE IInv'
<1>1. /\ job \in [Threads -> Job] /\ job[t] \in Job /\ JobFits(job[t])
      /\ job[t].at = "get" /\ job[t].call = "get" /\ job[t].e \in EnProps \ {"MODE"}
      /\ job[t].ret = Failed /\ ~Sets(job[t]) /\ job[t].crtc \in Crtcs \cup {NoCrtc}
      /\ kernel \in [Kernel -> 0 .. 2] /\ sink \in Sinks
  <2>1. /\ job \in [Threads -> Job] /\ job[t] \in Job /\ JobFits(job[t])
        /\ job[t].at = "get"
        /\ kernel \in [Kernel -> 0 .. 2] /\ sink \in Sinks
    BY DEF IInv, Types, ReadFirst, At
  <2>. QED
    BY <2>1 DEF Job, JobFits, Sets
<1>2. CASE Goto(t, "close")
  <2>1. JobFits([job[t] EXCEPT !.at = "close"]) /\ Holder([job[t] EXCEPT !.at = "close"])
    BY <1>1 DEF Job, JobFits, Sets, Failed, Holder
  <2>. QED
    BY <1>2, <2>1, GotoKeeps DEF ReadFirst, Places
<1>3. CASE ~Goto(t, "close")
  <2>. DEFINE e == job[t].e
              k == Target(e, job[t].crtc)
              set == CASE e = "RX_HDCP" -> HdcpVersions(HdcpNumber(sink))
                       [] e = "RX_HDR_CAP" -> HdrBits(sink)
                       [] OTHER -> {}
              out == IF e = "HDCP_VERSION" THEN kernel[k] ELSE Read(e, kernel[k], 0)
              read == IF e \in GetOnly THEN [job[t] EXCEPT !.set = set]
                      ELSE [job[t] EXCEPT !.out = out]
              after == IF e \in TwoReads THEN [read EXCEPT !.at = "second"]
                       ELSE [read EXCEPT !.at = "close", !.ret = 0]
  <2>1. job' = [job EXCEPT ![t] = after] /\ (e \in GetOnly \/ k \in Kernel)
    BY <1>3 DEF ReadFirst
  <2>2. set \in SUBSET (Capabilities \cup Nat)
    <3>1. HdcpVersions(HdcpNumber(sink)) \subseteq Nat
      BY DEF HdcpVersions
    <3>2. HdrBits(sink) \subseteq Nat
      BY <1>1, SinkDecoded
    <3>. QED
      BY <3>1, <3>2
  <2>3. e \notin GetOnly => kernel[k] \in 0 .. 2 /\ out \in 0 .. 2 /\ k \in Settings
    <3>1. e \notin GetOnly => kernel[k] \in 0 .. 2
      BY <1>1, <2>1
    <3>2. e \notin GetOnly => k \in Settings
      BY <1>1, <2>1, HeardIsReach
    <3>. QED
      BY <3>1, <3>2 DEF Read
  <2>. HIDE DEF set, out
  <2>4. PICK new : new = after
    OBVIOUS
  <2>5. /\ new \in Job /\ new.call = "get" /\ new.e = e
        /\ new.v = job[t].v /\ new.done = job[t].done /\ new.sink = job[t].sink
        /\ new.clean = job[t].clean /\ new.crtc = job[t].crtc
        /\ e \in GetOnly => new.set = set
        /\ e \notin GetOnly => new.out = out
        /\ e \in TwoReads => new.at = "second" /\ new.ret = Failed
        /\ e \notin TwoReads => new.at = "close" /\ new.ret = 0
    BY <1>1, <2>2, <2>3, <2>4 DEF Job, JobFits, Failed, Places
  <2>6. JobFits(new) /\ Holder(new)
    BY <1>1, <2>5 DEF JobFits, Sets, Failed, Holder
  <2>. HIDE DEF after, read
  <2>7. new.clean /\ new.at = "second" => HalfRead(new)
    <3>. SUFFICES ASSUME new.clean PROVE HalfRead(new)
      OBVIOUS
    <3>1. e = "HDCP_VERSION" =>
            k \in Settings /\ (asked[k] = Unknown \/ new.out = Send(e, asked[k]))
      <4>. SUFFICES ASSUME e = "HDCP_VERSION", asked[k] # Unknown
                    PROVE  new.out = Send(e, asked[k])
        BY <2>3 DEF GetOnly
      <4>1. new.out = kernel[k] /\ e \notin GetOnly
        BY <2>5 DEF out, GetOnly
      <4>2. k # Priority /\ Effect(e, asked[k], k)
        BY <1>1, <2>1, <2>5, <4>1, Remembered
      <4>. QED
        BY <4>1, <4>2 DEF Effect
    <3>2. e = "RX_HDR_CAP" => new.set = HdrBits(sink)
      BY <2>5 DEF set, GetOnly
    <3>. QED
      BY <2>5, <3>1, <3>2 DEF HalfRead
  <2>8. new.clean /\ new.ret = 0 => RightAnswer(new)
    <3>. SUFFICES ASSUME new.clean, new.ret = 0 PROVE RightAnswer(new)
      OBVIOUS
    <3>1. e \notin TwoReads
      BY <2>5 DEF Failed
    <3>2. e \notin GetOnly =>
            /\ k \in Settings
            /\ \/ asked[k] = Unknown
               \/ new.out = Meaning(e, asked[k])
               \/ e = "CONTENT_PROTECTION" /\ asked[k] = 1 /\ new.out = 2
      <4>. SUFFICES ASSUME e \notin GetOnly, asked[k] # Unknown
                    PROVE  \/ new.out = Meaning(e, asked[k])
                           \/ e = "CONTENT_PROTECTION" /\ asked[k] = 1 /\ new.out = 2
        BY <2>3
      <4>1. new.out = Read(e, kernel[k], 0) /\ e # "HDCP_VERSION"
        BY <2>5, <3>1 DEF out, TwoReads
      <4>2. k # Priority /\ Effect(e, asked[k], k) /\ asked[k] \in 0 .. 2
        BY <1>1, <2>1, <2>5, Remembered
      <4>3. CASE kernel[k] = Send(e, asked[k])
        BY <4>1, <4>2, <4>3, ReadInvertsSend
      <4>4. CASE e = "CONTENT_PROTECTION" /\ asked[k] = 1 /\ kernel[k] = 2
        BY <4>1, <4>4 DEF Read
      <4>. QED
        BY <4>2, <4>3, <4>4 DEF Effect
    <3>3. e = "RX_HDCP" => new.set = sink.hdcp
      BY <1>1, <2>5, SinkDecoded DEF set, GetOnly
    <3>4. e # "RX_HDR_CAP"
      BY <3>1 DEF TwoReads
    <3>. QED
      BY <2>5, <3>2, <3>3, <3>4 DEF RightAnswer
  <2>9. UNCHANGED <<kernel, world, files, conns, asked, calls>>
    BY DEF ReadFirst
  <2>10. ModeRead(new)
    BY <2>5 DEF ModeRead
  <2>11. Moves(t, new)
    BY <1>1, <2>1, <2>4, <2>5, <2>6, <2>7, <2>8, <2>9, <2>10 DEF Moves
  <2>. QED
    BY <2>11, MovesKeep
<1>. QED
  BY <1>2, <1>3

(* The second property is read, or cannot be.                              *)
LEMMA ReadSecondKeeps ==
  ASSUME NEW t \in Threads, IInv, ReadSecond(t) PROVE IInv'
<1>1. /\ job \in [Threads -> Job] /\ job[t] \in Job /\ JobFits(job[t])
      /\ job[t].at = "second" /\ job[t].call = "get" /\ job[t].e \in EnProps \ {"MODE"}
      /\ job[t].e \in TwoReads /\ ~Sets(job[t]) /\ job[t].crtc \in Crtcs \cup {NoCrtc}
      /\ kernel \in [Kernel -> 0 .. 2] /\ sink \in Sinks
  <2>1. /\ job \in [Threads -> Job] /\ job[t] \in Job /\ JobFits(job[t])
        /\ job[t].at = "second"
        /\ kernel \in [Kernel -> 0 .. 2] /\ sink \in Sinks
    BY DEF IInv, Types, ReadSecond, At
  <2>. QED
    BY <2>1 DEF Job, JobFits, Sets
<1>. DEFINE e == job[t].e
            k == Target(e, job[t].crtc)
            out(missing) == Read(e, job[t].out, IF missing THEN 0 ELSE kernel[Priority])
            set(missing) == HDRSupportedList(job[t].set, IF missing THEN {} ELSE DvBits(sink))
            read(missing) == IF e = "HDCP_VERSION" THEN [job[t] EXCEPT !.out = out(missing)]
                             ELSE [job[t] EXCEPT !.set = set(missing)]
            after(missing) == [read(missing) EXCEPT !.at = "close", !.ret = 0,
                                                    !.clean = @ /\ ~missing]
<1>2. PICK missing \in BOOLEAN : job' = [job EXCEPT ![t] = after(missing)]
  BY DEF ReadSecond
<1>3. out(missing) \in 0 .. 2
  <2>1. kernel[Priority] \in 0 .. 2 /\ job[t].out \in 0 .. 2
    BY <1>1 DEF Kernel, Job
  <2>. QED
    BY <2>1 DEF Read
<1>4. set(missing) \subseteq Capabilities
  BY DEF HDRSupportedList
<1>5. PICK o, s : o = out(missing) /\ s = set(missing)
  OBVIOUS
<1>6. PICK new : new = after(missing)
  OBVIOUS
<1>. HIDE DEF out, set
<1>7. /\ new \in Job /\ new.call = "get" /\ new.e = e
      /\ new.v = job[t].v /\ new.done = job[t].done /\ new.sink = job[t].sink
      /\ new.clean <=> job[t].clean /\ ~missing
      /\ new.crtc = job[t].crtc
      /\ e = "HDCP_VERSION" => new.out = o
      /\ e # "HDCP_VERSION" => new.set = s
      /\ new.at = "close" /\ new.ret = 0
  BY <1>1, <1>3, <1>4, <1>5, <1>6, ZenonT(60) DEF Job, JobFits, Places
<1>8. JobFits(new) /\ Holder(new)
  BY <1>1, <1>7 DEF JobFits, Sets, Failed, Holder
<1>. HIDE DEF after, read
<1>9. new.clean => RightAnswer(new)
  <2>. SUFFICES ASSUME new.clean PROVE RightAnswer(new)
    OBVIOUS
  <2>1. job[t].clean /\ ~missing /\ HalfRead(job[t])
    BY <1>1, <1>7 DEF IInv, Reading, At
  <2>2. ASSUME e = "HDCP_VERSION"
        PROVE  k \in Settings /\ (asked[k] = Unknown \/ new.out = Meaning(e, asked[k]))
    <3>. SUFFICES ASSUME asked[k] # Unknown PROVE new.out = Meaning(e, asked[k])
      BY <2>1, <2>2 DEF HalfRead
    <3>1. job[t].out = Send(e, asked[k]) /\ k \in Kernel /\ e \notin GetOnly
      BY <2>1, <2>2 DEF HalfRead, Kernel, GetOnly
    <3>2. kernel[Priority] = SendPriority(asked[k]) /\ asked[k] \in 0 .. 2
      BY <1>1, <2>1, <2>2, <3>1, Remembered DEF Effect
    <3>3. new.out = Read(e, job[t].out, kernel[Priority])
      BY <1>5, <1>7, <2>1, <2>2 DEF out
    <3>. QED
      BY <2>2, <3>1, <3>2, <3>3, ReadInvertsSend
  <2>3. ASSUME e = "RX_HDR_CAP", job[t].sink = "same"
        PROVE  new.set = sink.caps
    <3>1. new.set = HDRSupportedList(job[t].set, DvBits(sink))
      BY <1>5, <1>7, <2>1, <2>3 DEF set
    <3>2. job[t].set = HdrBits(sink)
      BY <2>1, <2>3 DEF HalfRead
    <3>. QED
      BY <1>1, <3>1, <3>2, SinkDecoded
  <2>4. e = "RX_HDR_CAP" \/ e = "HDCP_VERSION"
    BY <1>1 DEF TwoReads
  <2>. QED
    BY <1>7, <2>2, <2>3, <2>4 DEF RightAnswer, GetOnly
<1>10. UNCHANGED <<kernel, world, files, conns, asked, calls>>
  BY DEF ReadSecond
<1>11. ModeRead(new)
  BY <1>7 DEF ModeRead
<1>12. Moves(t, new)
  BY <1>1, <1>2, <1>6, <1>7, <1>8, <1>9, <1>10, <1>11 DEF Moves
<1>. QED
  BY <1>12, MovesKeep

(* The calls that answer with one value, or with what the connector has.   *)
LEMMA AnswerKeeps ==
  ASSUME NEW t \in Threads, NEW value \in 0 .. 2, NEW certain \in BOOLEAN, IInv,
         At(t, "getMode") \/ At(t, "report"), Answer(t, value, certain),
         At(t, "getMode") /\ certain => /\ Target("MODE", job[t].crtc) \in Kernel
                                         /\ value = kernel[Target("MODE", job[t].crtc)]
  PROVE  IInv'
<1>1. /\ job \in [Threads -> Job] /\ job[t] \in Job /\ JobFits(job[t])
      /\ job[t].at \in {"getMode", "report"} /\ job[t].call = job[t].at
      /\ ~Sets(job[t]) /\ job[t].crtc \in Crtcs \cup {NoCrtc}
      /\ kernel \in [Kernel -> 0 .. 2]
  <2>1. /\ job \in [Threads -> Job] /\ job[t] \in Job /\ JobFits(job[t])
        /\ job[t].at \in {"getMode", "report"} /\ kernel \in [Kernel -> 0 .. 2]
    BY DEF IInv, Types, At
  <2>. QED
    BY <2>1 DEF Job, JobFits, Sets
<1>2. PICK new : new = [job[t] EXCEPT !.at = "close", !.ret = 0, !.out = value,
                                      !.clean = @ /\ certain]
  OBVIOUS
<1>3. /\ new \in Job /\ new.call = job[t].call /\ new.e = job[t].e
      /\ new.v = job[t].v /\ new.done = job[t].done /\ new.sink = job[t].sink
      /\ new.clean <=> job[t].clean /\ certain
      /\ new.crtc = job[t].crtc /\ new.out = value /\ new.at = "close" /\ new.ret = 0
  BY <1>1, <1>2, ZenonT(60) DEF Job, Places
<1>4. job' = [job EXCEPT ![t] = new]
  BY <1>1, <1>2 DEF Answer
<1>5. JobFits(new) /\ Holder(new)
  BY <1>1, <1>3 DEF JobFits, Sets, Failed, Holder
<1>6. new.clean => RightAnswer(new)
  <2>. DEFINE k == Target("MODE", job[t].crtc)
  <2>1. ASSUME new.call = "getMode", new.clean
        PROVE  k \in Settings /\ (asked[k] = Unknown \/ new.out = Meaning("MODE", asked[k]))
    <3>1. "MODE" \in EnProps \ GetOnly /\ job[t].e = "MODE" /\ job[t].clean
      BY <1>1, <1>3, <2>1, SinkAssumption DEF GetOnly, JobFits
    <3>2. k \in Kernel /\ value = kernel[k]
      BY <1>1, <1>3, <2>1 DEF At
    <3>3. k \in Settings
      BY <1>1, <3>1, <3>2, HeardIsReach
    <3>4. ASSUME asked[k] # Unknown PROVE new.out = Meaning("MODE", asked[k])
      <4>1. k # Priority /\ Effect("MODE", asked[k], k)
        BY <1>1, <3>1, <3>2, <3>4, Remembered
      <4>. QED
        BY <1>3, <3>2, <4>1 DEF Effect, Send, Meaning
    <3>. QED
      BY <3>3, <3>4
  <2>2. new.call = "getMode" => new.e = "MODE"
    BY <1>5 DEF JobFits
  <2>3. new.call \in {"getMode", "report"}
    BY <1>1, <1>3
  <2>. QED
    BY <1>3, <2>1, <2>2, <2>3 DEF RightAnswer
<1>7. ModeRead(new)
  BY <1>1, <1>3 DEF ModeRead
<1>8. Moves(t, new)
  BY <1>3, <1>4, <1>5, <1>6, <1>7 DEF Moves, Answer
<1>. QED
  BY <1>8, MovesKeep

LEMMA GetModeKeeps ==
  ASSUME NEW t \in Threads, IInv, GetMode(t) PROVE IInv'
<1>. DEFINE k == Target("MODE", job[t].crtc)
<1>1. k \in Kernel => kernel[k] \in 0 .. 2
  BY DEF IInv, Types
<1>2. PICK value \in 0 .. 2, certain \in BOOLEAN :
        /\ Answer(t, value, certain)
        /\ certain => k \in Kernel /\ value = kernel[k]
  <2>1. CASE k \in Kernel /\ Answer(t, kernel[k], TRUE)
    BY <1>1, <2>1
  <2>2. CASE Answer(t, 0, FALSE)
    <3>1. PICK value \in 0 .. 2 : value = 0
      OBVIOUS
    <3>2. PICK certain \in BOOLEAN : certain = FALSE
      OBVIOUS
    <3>3. Answer(t, value, certain) /\ ~certain
      BY <2>2, <3>1, <3>2
    <3>. QED
      BY <3>3
  <2>. QED
    BY <2>1, <2>2 DEF GetMode
<1>. QED
  BY <1>2, AnswerKeeps DEF GetMode

LEMMA ReportKeeps ==
  ASSUME NEW t \in Threads, IInv, ReportCopy(t) \/ Report(t) PROVE IInv'
<1>1. CASE Report(t)
  <2>1. PICK certain \in BOOLEAN : certain = TRUE
    OBVIOUS
  <2>2. Answer(t, 0, certain) /\ At(t, "report")
    BY <1>1, <2>1 DEF Report
  <2>3. ~At(t, "getMode")
    BY <2>2 DEF At
  <2>. QED
    BY <2>2, <2>3, AnswerKeeps
<1>2. CASE /\ At(t, "report") /\ Goto(t, "crashed")
           /\ UNCHANGED <<kernel, world, files, conns, asked, calls>>
  BY <1>2, CrashKeeps
<1>. QED
  BY <1>1, <1>2 DEF ReportCopy

-----------------------------------------------------------------------------
(* meson_drm_get_vblank_time.                                              *)
LEMMA ModeOfPipeKeeps ==
  ASSUME NEW t \in Threads, IInv, ModeOfPipe(t) PROVE IInv'
<1>1. job \in [Threads -> Job] /\ kernel \in [Kernel -> 0 .. 2] /\ t \notin files \cup conns
  BY DEF IInv, Types, ModeOfPipe, At, JobFits, Holder
<1>2. PICK j \in Job : j = job[t] /\ JobFits(j) /\ j.at = "pipe" /\ j.call = "vblank"
  <2>1. job[t] \in Job /\ JobFits(job[t]) /\ job[t].at = "pipe" /\ job[t].call = "vblank"
    BY DEF IInv, Types, ModeOfPipe, At, JobFits
  <2>. QED
    BY <2>1
<1>3. PICK pipe \in 0 .. NCrtcs - 1 : pipe = PipeUsed(j.pipe)
  <2>1. 0 \in 0 .. NCrtcs - 1
    BY SinkAssumption
  <2>. QED
    BY <2>1 DEF PipeUsed
<1>4. kernel[Target("MODE", pipe + 1)] \in 0 .. 2
  <2>1. pipe + 1 \in Crtcs
    BY <1>3, SinkAssumption DEF Crtcs
  <2>2. "MODE" \in EnProps \ GetOnly
    BY SinkAssumption DEF GetOnly
  <2>3. Target("MODE", pipe + 1) \in Kernel
    BY <2>1, <2>2, SettingsAre
  <2>. QED
    BY <1>1, <2>3
<1>5. PICK mode \in 0 .. 2 :
        /\ mode = 0 \/ mode = kernel[Target("MODE", pipe + 1)]
        /\ job' = [job EXCEPT ![t].at = "vblank", ![t].pipe = pipe, ![t].out = mode]
  <2>1. PICK mode \in {kernel[Target("MODE", pipe + 1)], 0} :
          job' = [job EXCEPT ![t].at = "vblank", ![t].pipe = pipe, ![t].out = mode]
    BY <1>2, <1>3 DEF ModeOfPipe
  <2>2. mode \in 0 .. 2
    BY <1>4
  <2>. QED
    BY <2>1, <2>2
<1>6. PICK new : new = [j EXCEPT !.at = "vblank", !.pipe = pipe, !.out = mode]
  OBVIOUS
<1>7. /\ new \in Job /\ new.call = j.call /\ new.e = j.e
      /\ new.v = j.v /\ new.done = j.done /\ new.sink = j.sink
      /\ new.clean = j.clean /\ new.ret = j.ret /\ new.pipe = pipe
      /\ new.at = "vblank" /\ new.out = mode
  <2>1. pipe \in 0 .. NCrtcs /\ "vblank" \in Places
    BY SinkAssumption DEF Places
  <2>2. new \in Job
    BY <1>6, <2>1 DEF Job
  <2>. QED
    BY <1>6, <2>2 DEF Job
<1>8. job' = [job EXCEPT ![t] = new]
  BY <1>1, <1>2, <1>5, <1>6
<1>9. JobFits(new) /\ new.ret # 0
  BY <1>2, <1>7 DEF JobFits, Sets
<1>10. ModeRead(new)
  BY <1>5, <1>7 DEF ModeRead
<1>11. Moves(t, new)
  BY <1>1, <1>2, <1>7, <1>8, <1>9, <1>10 DEF Moves, ModeOfPipe
<1>. QED
  BY <1>11, MovesKeep

LEMMA WaitVBlankKeeps ==
  ASSUME NEW t \in Threads, IInv, WaitVBlank(t) PROVE IInv'
<1>1. job \in [Threads -> Job] /\ t \notin files \cup conns
  BY DEF IInv, Types, WaitVBlank, At, JobFits, Holder
<1>2. PICK j \in Job : /\ j = job[t] /\ JobFits(j) /\ j.at = "vblank" /\ j.call = "vblank"
                       /\ j.pipe \in 0 .. NCrtcs - 1
                       /\ j.clean => ModeRead(j)
  <2>1. /\ job[t] \in Job /\ JobFits(job[t]) /\ job[t].at = "vblank"
        /\ job[t].call = "vblank" /\ job[t].pipe \in 0 .. NCrtcs - 1
        /\ job[t].clean => ModeRead(job[t])
    BY DEF IInv, Types, Reading, WaitVBlank, At, JobFits
  <2>. QED
    BY <2>1
<1>3. ASSUME NEW waited \in 0 .. 1, NEW ret \in {Failed, 0},
             ret = 0 => waited = WaitsFor(j.pipe) /\ j.out # 0,
             job' = [job EXCEPT ![t] = [j EXCEPT !.at = "returned", !.waited = waited, !.ret = ret]]
      PROVE  IInv'
  <2>1. PICK new : new = [j EXCEPT !.at = "returned", !.waited = waited, !.ret = ret]
    OBVIOUS
  <2>2. /\ new \in Job /\ new.call = j.call /\ new.e = j.e
        /\ new.v = j.v /\ new.done = j.done /\ new.sink = j.sink
        /\ new.clean = j.clean /\ new.ret = ret /\ new.pipe = j.pipe
        /\ new.at = "returned" /\ new.waited = waited /\ new.out = j.out
    BY <1>2, <2>1 DEF Job, Places
  <2>3. JobFits(new)
    BY <1>2, <1>3, <2>2 DEF JobFits, Sets, Failed
  <2>r. RightAnswer(new)
    BY <1>2, <2>2 DEF RightAnswer
  <2>4. new.clean => ModeRead(new)
    BY <1>2, <2>2 DEF ModeRead
  <2>5. Moves(t, new)
    BY <1>1, <1>2, <1>3, <2>1, <2>2, <2>3, <2>r, <2>4 DEF Moves, WaitVBlank
  <2>. QED
    BY <2>5, MovesKeep
<1>4. CASE Goto(t, "returned")
  <2>1. job' = [job EXCEPT ![t] = [j EXCEPT !.at = "returned"]] /\ j.ret = Failed
    BY <1>1, <1>2, <1>4 DEF Goto, JobFits, Job
  <2>2. [j EXCEPT !.at = "returned"]
          = [j EXCEPT !.at = "returned", !.waited = j.waited, !.ret = Failed]
    BY <2>1 DEF Job
  <2>3. j.waited \in 0 .. 1 /\ Failed # 0
    BY DEF Job, Failed
  <2>. QED
    BY <1>3, <2>1, <2>2, <2>3
<1>5. CASE job' = [job EXCEPT ![t].at = "returned", ![t].waited = WaitsFor(job[t].pipe),
                     ![t].ret = IF job[t].out = 0 THEN Failed ELSE 0]
  <2>1. PICK ret \in {Failed, 0} : ret = IF j.out = 0 THEN Failed ELSE 0
    OBVIOUS
  <2>2. PICK waited \in 0 .. 1 : waited = WaitsFor(j.pipe)
    BY DEF WaitsFor
  <2>3. job' = [job EXCEPT ![t] = [j EXCEPT !.at = "returned", !.waited = waited, !.ret = ret]]
    BY <1>1, <1>2, <1>5, <2>1, <2>2
  <2>4. ret = 0 => j.out # 0
    BY <2>1 DEF Failed
  <2>. QED
    BY <1>3, <2>2, <2>3, <2>4
<1>. QED
  BY <1>4, <1>5 DEF WaitVBlank

-----------------------------------------------------------------------------
(* A command is sent: the call stays where it is, to send it once more, or *)
(* goes on as after has it.                                                *)
GoesOn(j, next) ==
  \E at \in {"priority", "close", "returned"}, ret \in {Failed, 0} :
    /\ next = [j EXCEPT !.at = at, !.ret = ret]
    /\ at = "priority" => j.call = "set" /\ j.e = "HDCP_VERSION" /\ ret = Failed
    /\ at = "close" => j.call = "set"
    /\ at = "returned" => j.call = "setmode"

LEMMA CommandKeeps ==
  ASSUME NEW t \in Threads, NEW target, NEW value, NEW after, IInv,
         job[t].at \in {"set", "priority", "setmode"},
         target \in Kernel => target \in Reach(job[t].e),
         value = IF target = Priority THEN SendPriority(job[t].v) ELSE Send(job[t].e, job[t].v),
         Command(t, target, value, after),
         \A o \in Outcomes : GoesOn(job[t], after[o])
  PROVE  IInv'
<1>1. /\ job \in [Threads -> Job] /\ job[t] \in Job /\ JobFits(job[t]) /\ Sets(job[t])
      /\ job[t].ret = Failed
      /\ t \in files \cup conns => job[t].call = "set"
  BY DEF IInv, Types, Job, JobFits, Sets, Holder
<1>2. PICK outcome \in Outcomes :
        /\ outcome \in {"done", "lost"} => target \in Kernel
        /\ LET did == outcome \in {"done", "lost"}
               work == IF did THEN [job[t] EXCEPT !.done = @ \cup {target}] ELSE job[t] IN
           /\ kernel' = IF did THEN [kernel EXCEPT ![target] = value] ELSE kernel
           /\ job' = [job EXCEPT ![t] =
                        IF outcome # "done" /\ work.dir # Default
                        THEN [work EXCEPT !.dir = NextDir(work.dir)]
                        ELSE [after[outcome] EXCEPT !.done = work.done, !.dir = EnvDir]]
           /\ UNCHANGED <<world, files, conns, asked, calls>>
  BY DEF Command, Outcomes
<1>3. PICK did \in BOOLEAN : did <=> outcome \in {"done", "lost"}
  OBVIOUS
<1>4. PICK done : done = IF did THEN job[t].done \cup {target} ELSE job[t].done
  OBVIOUS
<1>5. done \in SUBSET Kernel /\ done \subseteq Reach(job[t].e)
  BY <1>1, <1>2, <1>3, <1>4 DEF Job, JobFits
<1>6. PICK work : work = IF did THEN [job[t] EXCEPT !.done = @ \cup {target}] ELSE job[t]
  OBVIOUS
<1>7. /\ work \in Job /\ work.done = done /\ work.at = job[t].at /\ work.call = job[t].call
      /\ work.e = job[t].e /\ work.v = job[t].v /\ work.sink = job[t].sink
      /\ work.clean = job[t].clean /\ work.ret = job[t].ret /\ work.dir = job[t].dir
  <2>1. CASE did
    BY <1>1, <1>4, <1>5, <1>6, <2>1 DEF Job
  <2>2. CASE ~did
    BY <1>1, <1>4, <1>6, <2>2 DEF Job
  <2>. QED
    BY <2>1, <2>2
<1>8. PICK new : new = IF outcome # "done" /\ work.dir # Default
                       THEN [work EXCEPT !.dir = NextDir(work.dir)]
                       ELSE [after[outcome] EXCEPT !.done = work.done, !.dir = EnvDir]
  OBVIOUS
<1>9. /\ job' = [job EXCEPT ![t] = new]
      /\ kernel' = IF did THEN [kernel EXCEPT ![target] = value] ELSE kernel
  <2>1. CASE did
    <3>1. outcome \in {"done", "lost"} /\ work = [job[t] EXCEPT !.done = @ \cup {target}]
      BY <1>3, <1>6, <2>1
    <3>. QED
      BY <1>2, <1>8, <2>1, <3>1
  <2>2. CASE ~did
    <3>1. outcome \notin {"done", "lost"} /\ work = job[t]
      BY <1>3, <1>6, <2>2
    <3>. QED
      BY <1>2, <1>8, <2>2, <3>1
  <2>. QED
    BY <2>1, <2>2
<1>10. /\ new \in Job /\ new.done = done /\ new.call = job[t].call
       /\ new.e = job[t].e /\ new.v = job[t].v /\ new.sink = job[t].sink
       /\ new.clean = job[t].clean
       /\ \/ new.at = job[t].at /\ new.ret = Failed
          \/ /\ new.at = "priority" /\ new.ret = Failed
             /\ job[t].call = "set" /\ job[t].e = "HDCP_VERSION"
          \/ new.at = "close" /\ job[t].call = "set"
          \/ new.at = "returned" /\ job[t].call = "setmode"
  <2>1. CASE outcome # "done" /\ work.dir # Default
    BY <1>1, <1>7, <1>8, <2>1 DEF Job, NextDir
  <2>2. CASE ~(outcome # "done" /\ work.dir # Default)
    <3>1. PICK at \in {"priority", "close", "returned"}, ret \in {Failed, 0} :
            /\ after[outcome] = [job[t] EXCEPT !.at = at, !.ret = ret]
            /\ at = "priority" => job[t].call = "set" /\ job[t].e = "HDCP_VERSION" /\ ret = Failed
            /\ at = "close" => job[t].call = "set"
            /\ at = "returned" => job[t].call = "setmode"
      BY DEF GoesOn
    <3>2. PICK next : next = [job[t] EXCEPT !.at = at, !.ret = ret]
      OBVIOUS
    <3>3. new = [next EXCEPT !.done = done, !.dir = EnvDir]
      BY <1>7, <1>8, <2>2, <3>1, <3>2
    <3>4. /\ next \in Job /\ next.call = job[t].call
          /\ next.e = job[t].e /\ next.v = job[t].v /\ next.sink = job[t].sink
          /\ next.clean = job[t].clean /\ next.at = at /\ next.ret = ret
      BY <1>1, <3>2, ZenonT(60) DEF Job, Places
    <3>5. new \in Job /\ new.done = done
      <4>1. next \in Job /\ done \in SUBSET Kernel
        BY <1>5, <3>4
      <4>2. PICK sets : sets = SUBSET Kernel
        OBVIOUS
      <4>3. done \in sets
        BY <4>1, <4>2
      <4>. QED
        BY <3>3, <4>1, <4>2, <4>3 DEF Job
    <3>6. /\ new.call = next.call /\ new.e = next.e /\ new.v = next.v /\ new.sink = next.sink
          /\ new.clean = next.clean /\ new.at = next.at /\ new.ret = next.ret
      BY <3>3, <3>4 DEF Job
    <3>. QED
      BY <3>1, <3>4, <3>5, <3>6
  <2>. QED
    BY <2>1, <2>2
<1>11. JobFits(new)
  BY <1>1, <1>5, <1>10 DEF JobFits, Sets, Failed
<1>12. t \in files \cup conns => Holder(new)
  BY <1>1, <1>10 DEF Holder
<1>13. Sends(t, new, target, did)
  <2>1. Sets(new)
    BY <1>1, <1>10 DEF Sets
  <2>2. did => target \in Kernel /\ target \in Reach(new.e)
    BY <1>2, <1>3, <1>10
  <2>. QED
    BY <1>2, <1>4, <1>9, <1>10, <1>11, <1>12, <2>1, <2>2 DEF Sends
<1>. QED
  BY <1>13, SendsKeep

LEMMA SetFirstKeeps ==
  ASSUME NEW t \in Threads, IInv, SetFirst(t) PROVE IInv'
<1>1. /\ job[t] \in Job /\ JobFits(job[t]) /\ job[t].at = "set" /\ job[t].call = "set"
      /\ job[t].ret = Failed /\ job[t].e \in EnProps /\ job[t].crtc \in Crtcs \cup {NoCrtc}
  BY DEF IInv, Types, SetFirst, At, Job, JobFits
<1>2. PICK after : after = [o \in Outcomes |->
                  IF job[t].e = "HDCP_VERSION" THEN [job[t] EXCEPT !.at = "priority"]
                  ELSE [job[t] EXCEPT !.at = "close", !.ret = 0]]
  OBVIOUS
<1>3. ASSUME NEW o \in Outcomes PROVE GoesOn(job[t], after[o])
  <2>1. CASE job[t].e = "HDCP_VERSION"
    <3>1. after[o] = [job[t] EXCEPT !.at = "priority"]
      BY <1>2, <2>1
    <3>2. [job[t] EXCEPT !.at = "priority"] = [job[t] EXCEPT !.at = "priority", !.ret = Failed]
      BY <1>1 DEF Job
    <3>. QED
      BY <1>1, <2>1, <3>1, <3>2 DEF GoesOn
  <2>2. CASE job[t].e # "HDCP_VERSION"
    BY <1>1, <1>2, <2>2 DEF GoesOn
  <2>. QED
    BY <2>1, <2>2
<1>4. PICK target : target = SetTarget(job[t].e, job[t].crtc)
  OBVIOUS
<1>5. target # Priority /\ (target \in Kernel => target \in Reach(job[t].e))
  <2>1. target[2] # "priority"
    <3>0. job[t].e \in EnPropNames
      BY <1>1, SinkAssumption
    <3>1. PICK e \in EnPropNames : e = job[t].e
      BY <3>0
    <3>2. NameOf(e) # "priority"
      BY Names
    <3>3. CASE target = NoTarget
      BY <3>3, OtherParts
    <3>4. CASE target = Target(e, job[t].crtc)
      BY <3>2, <3>4, TargetParts
    <3>. QED
      BY <1>4, <3>1, <3>3, <3>4 DEF SetTarget
  <2>2. target # Priority
    BY <2>1, OtherParts
  <2>3. ASSUME target \in Kernel PROVE target \in Reach(job[t].e)
    BY <1>1, <1>4, <2>3, SetTargetHeard, HeardIsReach
  <2>. QED
    BY <2>2, <2>3
<1>6. Command(t, target, Send(job[t].e, job[t].v), after)
  BY <1>2, <1>4 DEF SetFirst
<1>. QED
  BY <1>1, <1>3, <1>5, <1>6, CommandKeeps

LEMMA SetSecondKeeps ==
  ASSUME NEW t \in Threads, IInv, SetSecond(t) PROVE IInv'
<1>1. /\ job[t] \in Job /\ job[t].at = "priority" /\ job[t].call = "set"
      /\ job[t].e = "HDCP_VERSION"
  BY DEF IInv, Types, SetSecond, At, JobFits
<1>2. PICK after : after = [o \in Outcomes |-> [job[t] EXCEPT !.at = "close", !.ret = 0]]
  OBVIOUS
<1>3. \A o \in Outcomes : GoesOn(job[t], after[o])
  BY <1>1, <1>2 DEF GoesOn
<1>4. Priority \in Reach(job[t].e)
  BY <1>1 DEF Reach, GetOnly
<1>5. Command(t, Priority, SendPriority(job[t].v), after)
  BY <1>2 DEF SetSecond
<1>. QED
  BY <1>1, <1>3, <1>4, <1>5, CommandKeeps

LEMMA SendModeKeeps ==
  ASSUME NEW t \in Threads, IInv, SendMode(t) PROVE IInv'
<1>1. /\ job[t] \in Job /\ job[t].at = "setmode" /\ job[t].call = "setmode"
      /\ job[t].e = "MODE"
  BY DEF IInv, Types, SendMode, At, JobFits
<1>2. PICK after : after = [o \in Outcomes |-> [job[t] EXCEPT !.at = "returned", !.ret = ModeDone(o)]]
  OBVIOUS
<1>3. ASSUME NEW o \in Outcomes PROVE GoesOn(job[t], after[o])
  BY <1>1, <1>2 DEF GoesOn, ModeDone
<1>4. PICK target : target = Target("MODE", lit)
  OBVIOUS
<1>5. target # Priority /\ (target \in Kernel => target \in Reach("MODE"))
  <2>1. "MODE" \in EnProps /\ "MODE" \notin GetOnly /\ lit \in Crtcs \cup {NoCrtc}
    BY SinkAssumption DEF GetOnly, IInv, Types
  <2>2. target[2] = "MODE"
    BY <1>4, TargetParts DEF NameOf
  <2>3. target # Priority
    BY <2>2, OtherParts
  <2>. QED
    BY <1>4, <2>1, <2>3, HeardIsReach
<1>6. Send("MODE", job[t].v) = job[t].v
  BY DEF Send
<1>7. Command(t, target, job[t].v, after)
  BY <1>2, <1>4 DEF SendMode
<1>. QED
  BY <1>1, <1>3, <1>5, <1>6, <1>7, CommandKeeps

-----------------------------------------------------------------------------
LEMMA IdleFits ==
  /\ Idle \in Job /\ JobFits(Idle) /\ ~Sets(Idle)
  /\ Idle.at = "idle" /\ Idle.call = "none" /\ Idle.e = "none" /\ Idle.ret = Failed
  /\ Idle.done = {} /\ Idle.clean = TRUE
<1>1. Idle.at \in Places
  BY DEF Idle, Places
<1>2. Idle \in Job
  BY <1>1, SinkAssumption DEF Idle, Job
<1>. QED
  BY <1>2 DEF Idle, JobFits, Sets, Failed

(* A call returns, and what it set is remembered if that is certain.       *)
LEMMA ReturnKeeps ==
  ASSUME NEW t \in Threads, IInv, Return(t) PROVE IInv'
<1>. SUFFICES ASSUME Types, Alone, DoneHolds, AskedHolds, Reading
              PROVE  IInv'
  BY DEF IInv
<1>. DEFINE j == job[t]
            sure(k) == j.clean /\ j.done = Whole(k)
<1>1. /\ job \in [Threads -> Job] /\ j \in Job /\ JobFits(j)
      /\ j.at = "returned" /\ t \notin files \cup conns
  BY DEF Types, Return, At, Holder
<1>2. /\ job'[t] = Idle
      /\ \A u \in Threads : u # t => job'[u] = job[u]
      /\ asked' = [k \in Settings |-> IF j.done \cap Whole(k) = {} THEN asked[k]
                                      ELSE IF sure(k) THEN j.v ELSE Unknown]
      /\ UNCHANGED <<kernel, sink, home, lit, changes, files, conns, calls>>
  BY <1>1 DEF Return, world
<1>3. PICK i : i = Idle
  OBVIOUS
<1>4. /\ i \in Job /\ JobFits(i) /\ ~Sets(i) /\ i.at = "idle" /\ i.e = "none"
      /\ i.ret = Failed /\ i.done = {} /\ i.call = "none" /\ job'[t] = i
  BY <1>2, <1>3, IdleFits
<1>5. \A u \in Threads : Sets(job[u]) => job[u].e \in EnProps /\ job[u].e # "none"
  BY SinkAssumption DEF Types, JobFits, Sets, EnPropNames
<1>6. j.done # {} => Sets(j) /\ j.e \in EnProps /\ j.v \in Values /\ j.done \subseteq Reach(j.e)
  BY <1>1, <1>5 DEF JobFits
<1>7. ASSUME NEW k \in Settings
      PROVE  /\ j.done \cap Whole(k) = {} => asked'[k] = asked[k]
             /\ j.done \cap Whole(k) # {} /\ asked'[k] # Unknown => sure(k) /\ asked'[k] = j.v
  BY <1>2
<1>. HIDE DEF sure
<1>8. Types'
  <2>1. job' \in [Threads -> Job] /\ \A u \in Threads : JobFits(job'[u])
    <3>1. \A u \in Threads : job'[u] \in Job /\ JobFits(job'[u])
      BY <1>2, <1>4 DEF Types
    <3>2. job' = [job EXCEPT ![t] = i]
      BY <1>3 DEF Return
    <3>. QED
      BY <1>1, <3>1, <3>2
  <2>2. \A u \in files' \cup conns' : u \in Threads /\ Holder(job'[u])
    BY <1>1, <1>2 DEF Types
  <2>3. asked' \in [Settings -> Values \cup {Unknown}]
    BY <1>2, <1>6 DEF Types
  <2>. QED
    BY <1>2, <2>1, <2>2, <2>3 DEF Types
<1>9. Alone'
  BY <1>2, <1>4, <1>5 DEF Alone
<1>10. DoneHolds'
  <2>. SUFFICES ASSUME NEW u \in Threads, Sets(job'[u]), job'[u].clean,
                       NEW k \in job'[u].done
                PROVE  Effect(job[u].e, job[u].v, k)'
    BY DEF DoneHolds
  <2>1. u # t /\ job'[u] = job[u]
    BY <1>2, <1>4
  <2>. QED
    BY <1>2, <2>1 DEF DoneHolds, Effect
<1>11. AskedHolds'
  <2>. SUFFICES ASSUME NEW e \in EnProps \ GetOnly, NEW c \in Crtcs,
                       asked'[Target(e, c)] # Unknown, Quiet(Target(e, c))',
                       NEW k \in Whole(Target(e, c))
                PROVE  Effect(e, asked[Target(e, c)], k)'
    BY DEF AskedHolds
  <2>1. Target(e, c) \in Settings /\ Whole(Target(e, c)) \subseteq Reach(e)
    BY SettingsAre
  <2>2. CASE j.done \cap Whole(Target(e, c)) = {}
    <3>1. asked'[Target(e, c)] = asked[Target(e, c)]
      BY <1>7, <2>1, <2>2
    <3>2. Quiet(Target(e, c))
      BY <1>2, <2>2 DEF Quiet
    <3>3. Effect(e, asked[Target(e, c)], k)
      BY <3>1, <3>2 DEF AskedHolds
    <3>. QED
      BY <1>2, <3>1, <3>3 DEF Effect
  <2>3. CASE j.done \cap Whole(Target(e, c)) # {}
    <3>1. sure(Target(e, c)) /\ asked'[Target(e, c)] = j.v
      BY <1>7, <2>1, <2>3
    <3>2. Sets(j) /\ j.clean /\ k \in j.done
      BY <1>6, <2>3, <3>1 DEF sure
    <3>3. j.e = e
      BY <1>6, <2>1, <2>3, ReachDiffers
    <3>4. Effect(e, j.v, k)
      BY <3>2, <3>3 DEF DoneHolds
    <3>. QED
      BY <1>2, <3>1, <3>4 DEF Effect
  <2>. QED
    BY <2>2, <2>3
<1>12. Reading'
  <2>. SUFFICES ASSUME NEW u \in Threads, job'[u].clean
                PROVE  /\ At(u, "second")' => HalfRead(job[u])'
                       /\ job'[u].ret = 0 => RightAnswer(job[u])'
                       /\ ModeRead(job[u])'
    BY DEF Reading
  <2>1. CASE u = t
    BY <1>4, <2>1 DEF At, Failed, ModeRead
  <2>2. CASE u # t
    <3>1. job'[u] = job[u] /\ job[u] \in Job /\ JobFits(job[u]) /\ job[u].clean
      BY <1>2, <2>2 DEF Types
    <3>2. /\ At(u, "second") => HalfRead(job[u])
          /\ job[u].ret = 0 => RightAnswer(job[u])
          /\ ModeRead(job[u])
      BY <3>1 DEF Reading
    <3>3. ASSUME job[u].e \in EnProps \ GetOnly, Target(job[u].e, job[u].crtc) \in Settings
          PROVE  asked'[Target(job[u].e, job[u].crtc)] = asked[Target(job[u].e, job[u].crtc)]
      <4>1. job[u].crtc \in Crtcs \cup {NoCrtc}
        BY <3>1 DEF Job
      <4>2. Target(job[u].e, job[u].crtc) \in Kernel
        BY <3>3 DEF Kernel
      <4>3. PICK d \in Crtcs : Target(job[u].e, job[u].crtc) = Target(job[u].e, d)
        BY <3>3, <4>1, <4>2, HeardIsReach
      <4>4. Whole(Target(job[u].e, d)) \subseteq Reach(job[u].e)
        BY <3>3, SettingsAre
      <4>5. j.done # {} => j.e # job[u].e
        BY <1>6, <2>2, <3>1 DEF Alone
      <4>6. j.done \cap Whole(Target(job[u].e, d)) = {}
        BY <1>6, <3>3, <4>4, <4>5, ReachDiffers
      <4>. QED
        BY <1>7, <3>3, <4>3, <4>6
    <3>4. At(u, "second")' => HalfRead(job[u])'
      <4>1. At(u, "second") /\ job[u].e = "HDCP_VERSION" => job[u].e \in EnProps \ GetOnly
        BY <3>1 DEF JobFits, At, GetOnly
      <4>. QED
        BY <1>2, <3>1, <3>2, <3>3, <4>1 DEF HalfRead, At
    <3>5. job'[u].ret = 0 => RightAnswer(job[u])'
      <4>1. job[u].call \in {"get", "getMode"} /\ job[u].e \notin GetOnly
              => job[u].e \in EnProps \ GetOnly
        BY <3>1, SinkAssumption DEF JobFits
      <4>. QED
        BY <1>2, <3>1, <3>2, <3>3, <4>1 DEF RightAnswer
    <3>6. ModeRead(job[u])'
      BY <1>2, <3>1, <3>2 DEF ModeRead
    <3>. QED
      BY <3>4, <3>5, <3>6
  <2>. QED
    BY <2>1, <2>2
<1>. QED
  BY <1>8, <1>9, <1>10, <1>11, <1>12 DEF IInv

LEMMA CallsKeep ==
  ASSUME NEW t \in Threads, IInv, Calls(t) PROVE IInv'
<1>1. PICK i \in Job : /\ i = Idle /\ JobFits(i) /\ i.at = "idle" /\ i.call = "none"
                       /\ i.e = "none" /\ i.ret = Failed /\ i.done = {}
  BY IdleFits
<1>2. ASSUME NEW e \in EnProps \ {"MODE"}, GetProp(t, e) PROVE IInv'
  <2>1. PICK work : work = [i EXCEPT !.at = "open", !.call = "get", !.e = e]
    OBVIOUS
  <2>2. /\ work \in Job /\ work.at = "open" /\ work.call = "get" /\ work.e = e
        /\ work.ret = Failed /\ work.done = {}
    BY <1>1, <1>2, <2>1, SinkAssumption, ZenonT(60) DEF Job, Places
  <2>3. JobFits(work)
    BY <1>2, <2>2 DEF JobFits, Sets, Failed
  <2>4. Begin(t, work) /\ UNCHANGED <<kernel, world, conns, asked>> /\ files' \subseteq files
    BY <1>1, <1>2, <2>1 DEF GetProp
  <2>. QED
    BY <2>2, <2>3, <2>4, BeginKeeps
<1>3. ASSUME NEW e \in EnProps \ {"MODE"}, NEW v \in Values, SetProp(t, e, v) PROVE IInv'
  <2>1. PICK work : work = [i EXCEPT !.at = "open", !.call = "set", !.e = e, !.v = v]
    OBVIOUS
  <2>2. /\ work \in Job /\ work.at = "open" /\ work.call = "set" /\ work.e = e
        /\ work.ret = Failed /\ work.done = {} /\ work.v = v
    BY <1>1, <1>3, <2>1, SinkAssumption, ZenonT(60) DEF Job, Places
  <2>3. JobFits(work)
    BY <1>3, <2>2 DEF JobFits, Sets, Failed
  <2>4. Begin(t, work) /\ UNCHANGED <<kernel, world, conns, asked>> /\ files' \subseteq files
    BY <1>1, <1>3, <2>1 DEF SetProp
  <2>. QED
    BY <2>2, <2>3, <2>4, BeginKeeps
<1>4. ASSUME NEW v \in Values, SetMode(t, v) PROVE IInv'
  <2>1. PICK work : work = [i EXCEPT !.at = "setmode", !.call = "setmode", !.e = "MODE", !.v = v]
    OBVIOUS
  <2>2. /\ work \in Job /\ work.at = "setmode" /\ work.call = "setmode" /\ work.e = "MODE"
        /\ work.ret = Failed /\ work.done = {} /\ work.v = v
    BY <1>1, <1>4, <2>1, SinkAssumption, ZenonT(60) DEF Job, Places
  <2>3. JobFits(work)
    BY <1>4, <2>2 DEF JobFits, Sets, Failed
  <2>4. Begin(t, work) /\ UNCHANGED <<kernel, world, conns, asked>> /\ files' \subseteq files
    BY <1>1, <1>4, <2>1 DEF SetMode
  <2>. QED
    BY <2>2, <2>3, <2>4, BeginKeeps
<1>5. ASSUME NEW q \in {"getMode", "report"}, Query(t, q) PROVE IInv'
  <2>e. PICK e \in {"MODE", "none"} : e = IF q = "getMode" THEN "MODE" ELSE "none"
    OBVIOUS
  <2>1. PICK work : work = [i EXCEPT !.at = "open", !.call = q, !.e = e]
    OBVIOUS
  <2>2. /\ work \in Job /\ work.at = "open" /\ work.call = q /\ work.e = e
        /\ work.ret = Failed /\ work.done = {}
    <3>1. /\ e \in EnProps \cup {"none"} /\ "open" \in Places
          /\ q \in {"none", "set", "setmode", "get", "getMode", "report", "vblank"}
      BY <1>5, SinkAssumption DEF Places
    <3>2. work \in Job
      BY <2>1, <3>1 DEF Job
    <3>. QED
      BY <1>1, <2>1, <3>2 DEF Job
  <2>3. JobFits(work)
    BY <1>5, <2>e, <2>2 DEF JobFits, Sets, Failed
  <2>4. Begin(t, work) /\ UNCHANGED <<kernel, world, conns, asked>> /\ files' \subseteq files
    BY <1>1, <1>5, <2>e, <2>1 DEF Query
  <2>. QED
    BY <2>2, <2>3, <2>4, BeginKeeps
<1>6. ASSUME NEW pipe \in 0 .. NCrtcs, GetVblankTime(t, pipe) PROVE IInv'
  <2>1. PICK work : work = [i EXCEPT !.at = "pipe", !.call = "vblank", !.e = "MODE", !.pipe = pipe]
    OBVIOUS
  <2>2. /\ work \in Job /\ work.at = "pipe" /\ work.call = "vblank" /\ work.e = "MODE"
        /\ work.ret = Failed /\ work.done = {}
    BY <1>1, <1>6, <2>1, SinkAssumption, ZenonT(60) DEF Job, Places
  <2>3. JobFits(work)
    BY <1>6, <2>2 DEF JobFits, Sets, Failed
  <2>4. Begin(t, work) /\ UNCHANGED <<kernel, world, conns, asked>> /\ files' \subseteq files
    BY <1>1, <1>6, <2>1 DEF GetVblankTime
  <2>. QED
    BY <2>2, <2>3, <2>4, BeginKeeps
<1>7. ASSUME InvalidProp(t) PROVE IInv'
  <2>1. PICK work : work = [i EXCEPT !.at = "returned"]
    OBVIOUS
  <2>2. /\ work \in Job /\ work.at = "returned" /\ work.call = "none" /\ work.e = "none"
        /\ work.ret = Failed /\ work.done = {}
    BY <1>1, <1>7, <2>1, SinkAssumption DEF Job, Places
  <2>3. JobFits(work)
    BY <1>7, <2>2 DEF JobFits, Sets, Failed
  <2>4. Begin(t, work) /\ UNCHANGED <<kernel, world, conns, asked>> /\ files' \subseteq files
    BY <1>1, <1>7, <2>1 DEF InvalidProp
  <2>. QED
    BY <2>2, <2>3, <2>4, BeginKeeps
<1>8. ASSUME InvalidPropCrashes(t) PROVE IInv'
  <2>1. PICK work : work = [i EXCEPT !.at = "crashed"]
    OBVIOUS
  <2>2. /\ work \in Job /\ work.at = "crashed" /\ work.call = "none" /\ work.e = "none"
        /\ work.ret = Failed /\ work.done = {}
    BY <1>1, <1>8, <2>1, SinkAssumption DEF Job, Places
  <2>3. JobFits(work)
    BY <1>8, <2>2 DEF JobFits, Sets, Failed
  <2>4. Begin(t, work) /\ UNCHANGED <<kernel, world, conns, asked>> /\ files' \subseteq files
    BY <1>1, <1>8, <2>1 DEF InvalidPropCrashes
  <2>. QED
    BY <2>2, <2>3, <2>4, BeginKeeps
<1>. QED
  BY <1>2, <1>3, <1>4, <1>5, <1>6, <1>7, <1>8 DEF Calls

-----------------------------------------------------------------------------
(* The rest of the world.                                                  *)
LEMMA ReplugKeeps ==
  ASSUME NEW s \in Sinks, IInv, Replug(s) PROVE IInv'
<1>. SUFFICES ASSUME Types, Alone, DoneHolds, AskedHolds, Reading
              PROVE  IInv'
  BY DEF IInv
<1>1. /\ job' = [u \in Threads |-> IF job[u].e \in {"RX_HDCP", "RX_HDR_CAP"}
                                    THEN [job[u] EXCEPT !.sink = "changed"] ELSE job[u]]
      /\ sink' = s /\ changes < MaxChanges /\ changes' = changes + 1
      /\ UNCHANGED <<kernel, home, lit, files, conns, asked, calls>>
  BY DEF Replug, Types
<1>2. ASSUME NEW u \in Threads
      PROVE  /\ job'[u] \in Job /\ JobFits(job'[u])
             /\ SameJob([job[u] EXCEPT !.sink = job'[u].sink], job'[u])
             /\ job'[u].at = job[u].at /\ job'[u].call = job[u].call /\ job'[u].e = job[u].e
             /\ job'[u].v = job[u].v /\ job'[u].done = job[u].done
             /\ job'[u].clean = job[u].clean /\ job'[u].ret = job[u].ret
             /\ job'[u].out = job[u].out /\ job'[u].crtc = job[u].crtc
             /\ job'[u].pipe = job[u].pipe
             /\ job[u].e \in {"RX_HDCP", "RX_HDR_CAP"} => job'[u].sink = "changed"
  <2>1. PICK j \in Job : j = job[u] /\ JobFits(j)
    BY DEF Types
  <2>2. CASE j.e \in {"RX_HDCP", "RX_HDR_CAP"}
    <3>1. PICK new : new = [j EXCEPT !.sink = "changed"]
      OBVIOUS
    <3>2. /\ new \in Job /\ new.at = j.at /\ new.call = j.call /\ new.e = j.e
          /\ new.v = j.v /\ new.done = j.done /\ new.clean = j.clean /\ new.ret = j.ret
          /\ new.out = j.out /\ new.set = j.set /\ new.sink = "changed"
          /\ new.pipe = j.pipe /\ new.waited = j.waited /\ new.crtc = j.crtc
      BY <3>1 DEF Job
    <3>3. JobFits(new)
      BY <2>1, <3>2 DEF JobFits, Sets
    <3>4. job'[u] = new
      BY <1>1, <2>1, <2>2, <3>1
    <3>5. SameJob([j EXCEPT !.sink = new.sink], new)
      BY <3>2 DEF SameJob, Job
    <3>. QED
      BY <2>1, <3>2, <3>3, <3>4, <3>5
  <2>3. CASE j.e \notin {"RX_HDCP", "RX_HDR_CAP"}
    BY <1>1, <2>1, <2>3 DEF SameJob, Job
  <2>. QED
    BY <2>2, <2>3
<1>3. Types'
  <2>1. job' \in [Threads -> Job] /\ \A u \in Threads : JobFits(job'[u])
    BY <1>1, <1>2
  <2>2. \A u \in files' \cup conns' : u \in Threads /\ Holder(job'[u])
    BY <1>1, <1>2 DEF Types, Holder
  <2>3. changes' \in 0 .. MaxChanges
    BY <1>1, SinkAssumption DEF Types
  <2>. QED
    BY <1>1, <2>1, <2>2, <2>3 DEF Types
<1>4. Alone'
  <2>. SUFFICES ASSUME NEW r \in Threads, NEW u \in Threads, r # u,
                       Sets(job'[u]), job'[u].e = job'[r].e
                PROVE  ~job'[r].clean
    BY DEF Alone
  <2>1. Sets(job[u]) /\ job[u].e = job[r].e
    BY <1>2 DEF Sets
  <2>2. ~job[r].clean
    BY <2>1 DEF Alone
  <2>. QED
    BY <1>2, <2>2
<1>5. DoneHolds'
  BY <1>1, <1>2 DEF DoneHolds, Effect, Sets
<1>6. AskedHolds'
  <2>1. \A k : Quiet(k)' => Quiet(k)
    BY <1>2 DEF Quiet
  <2>. QED
    BY <1>1, <2>1 DEF AskedHolds, Effect
<1>7. Reading'
  <2>. SUFFICES ASSUME NEW u \in Threads, job'[u].clean
                PROVE  /\ At(u, "second")' => HalfRead(job[u])'
                       /\ job'[u].ret = 0 => RightAnswer(job[u])'
                       /\ ModeRead(job[u])'
    BY DEF Reading
  <2>1. /\ At(u, "second") => HalfRead(job[u])
        /\ job[u].ret = 0 => RightAnswer(job[u])
        /\ ModeRead(job[u])
    BY <1>2 DEF Reading
  <2>2. At(u, "second")' => HalfRead(job[u])'
    BY <1>1, <1>2, <2>1 DEF HalfRead, At
  <2>3. job'[u].ret = 0 => RightAnswer(job[u])'
    BY <1>1, <1>2, <2>1 DEF RightAnswer
  <2>4. ModeRead(job[u])'
    BY <1>1, <1>2, <2>1 DEF ModeRead
  <2>. QED
    BY <2>2, <2>3, <2>4
<1>. QED
  BY <1>3, <1>4, <1>5, <1>6, <1>7 DEF IInv

LEMMA CompositorMovesKeeps ==
  ASSUME NEW d \in Homes, IInv, CompositorMoves(d) PROVE IInv'
<1>1. /\ home' = d /\ changes' \in 0 .. MaxChanges
      /\ UNCHANGED <<kernel, sink, lit, files, conns, asked, job, calls>>
  BY SinkAssumption DEF CompositorMoves, IInv, Types
<1>. QED
  BY <1>1 DEF IInv, Types, Alone, DoneHolds, AskedHolds, Quiet, Effect, Reading,
              HalfRead, RightAnswer, ModeRead, At

(* HDMI's CRTC changes, and with it the modes: the calls about them are    *)
(* disturbed, and what they were set to is forgotten.                      *)
LEMMA CrtcChangesKeeps ==
  ASSUME NEW c \in Lights, NEW m \in Values, IInv, CrtcChanges(c, m) PROVE IInv'
<1>. SUFFICES ASSUME Types, Alone, DoneHolds, AskedHolds, Reading
              PROVE  IInv'
  BY DEF IInv
<1>1. /\ lit' = c /\ changes < MaxChanges /\ changes' = changes + 1
      /\ kernel' = [k \in Kernel |->
           CASE k = Target("MODE", lit) -> 0 [] k = Target("MODE", c) -> m [] OTHER -> kernel[k]]
      /\ asked' = [k \in Settings |-> IF k[2] = "MODE" THEN Unknown ELSE asked[k]]
      /\ job' = [u \in Threads |-> IF job[u].e = "MODE" THEN [job[u] EXCEPT !.clean = FALSE]
                                    ELSE job[u]]
      /\ UNCHANGED <<sink, home, files, conns, calls>>
  BY DEF CrtcChanges
<1>2. ASSUME NEW u \in Threads
      PROVE  /\ job'[u] \in Job /\ JobFits(job'[u]) /\ SameJob(job[u], job'[u])
             /\ job'[u].clean => job[u].e # "MODE" /\ job'[u] = job[u]
  <2>1. PICK j \in Job : j = job[u] /\ JobFits(j)
    BY DEF Types
  <2>2. CASE j.e = "MODE"
    <3>1. PICK no \in BOOLEAN : no = FALSE
      OBVIOUS
    <3>2. PICK new : new = [j EXCEPT !.clean = no]
      OBVIOUS
    <3>3. job'[u] = new
      BY <1>1, <2>1, <2>2, <3>1, <3>2
    <3>4. new \in Job /\ JobFits(new)
      BY <2>1, <3>2, CleanFree
    <3>5. SameJob(j, new) /\ ~new.clean
      BY <3>1, <3>2 DEF SameJob, Job
    <3>. QED
      BY <2>1, <3>3, <3>4, <3>5
  <2>3. CASE j.e # "MODE"
    BY <1>1, <2>1, <2>3 DEF SameJob
  <2>. QED
    BY <2>2, <2>3
<1>3. ASSUME NEW k \in Kernel, k[2] # "MODE" PROVE kernel'[k] = kernel[k]
  <2>1. \A d : Target("MODE", d)[2] = "MODE"
    BY TargetParts DEF NameOf
  <2>. QED
    BY <1>1, <1>3, <2>1
<1>4. Types'
  <2>1. job' \in [Threads -> Job] /\ \A u \in Threads : JobFits(job'[u])
    BY <1>1, <1>2
  <2>2. \A u \in files' \cup conns' : u \in Threads /\ Holder(job'[u])
    BY <1>1, <1>2 DEF Types, Holder, SameJob
  <2>3. changes' \in 0 .. MaxChanges
    BY <1>1, SinkAssumption DEF Types
  <2>4. m \in 0 .. 2
    BY SinkAssumption
  <2>5. kernel' \in [Kernel -> 0 .. 2]
    BY <1>1, <2>4 DEF Types
  <2>6. asked' \in [Settings -> Values \cup {Unknown}]
    BY <1>1 DEF Types
  <2>. QED
    BY <1>1, <2>1, <2>2, <2>3, <2>5, <2>6 DEF Types
<1>5. Alone'
  <2>. SUFFICES ASSUME NEW r \in Threads, NEW u \in Threads, r # u,
                       Sets(job'[u]), job'[u].e = job'[r].e
                PROVE  ~job'[r].clean
    BY DEF Alone
  <2>1. Sets(job[u]) /\ job[u].e = job[r].e
    BY <1>2 DEF Sets, SameJob
  <2>2. ~job[r].clean
    BY <2>1 DEF Alone
  <2>. QED
    BY <1>2, <2>2
<1>6. DoneHolds'
  <2>. SUFFICES ASSUME NEW u \in Threads, Sets(job'[u]), job'[u].clean,
                       NEW k \in job'[u].done
                PROVE  Effect(job[u].e, job[u].v, k)'
    BY DEF DoneHolds
  <2>1. job'[u] = job[u] /\ job[u].e # "MODE" /\ job[u] \in Job /\ JobFits(job[u])
    BY <1>2
  <2>2. job[u].e \in EnProps /\ k \in Reach(job[u].e) /\ k \in Kernel
    BY <2>1, SinkAssumption DEF JobFits, Sets, Job
  <2>3. kernel'[k] = kernel[k]
    <3>1. k[2] = NameOf(job[u].e) \/ k[2] = "priority"
      BY <2>2, ReachNames
    <3>2. NameOf(job[u].e) # "MODE"
      BY <2>1, <2>2, Names, SinkAssumption
    <3>. QED
      BY <1>3, <2>2, <3>1, <3>2
  <2>4. Effect(job[u].e, job[u].v, k)
    BY <2>1 DEF DoneHolds
  <2>. QED
    BY <2>1, <2>3, <2>4 DEF Effect
<1>7. AskedHolds'
  <2>. SUFFICES ASSUME NEW e \in EnProps \ GetOnly, NEW d \in Crtcs,
                       asked'[Target(e, d)] # Unknown, Quiet(Target(e, d))',
                       NEW k \in Whole(Target(e, d))
                PROVE  Effect(e, asked[Target(e, d)], k)'
    BY DEF AskedHolds
  <2>1. /\ Target(e, d) \in Settings /\ Whole(Target(e, d)) \subseteq Reach(e)
        /\ Target(e, d)[2] = "MODE" <=> e = "MODE"
    BY SettingsAre
  <2>2. asked'[Target(e, d)] = asked[Target(e, d)] /\ e # "MODE"
    BY <1>1, <2>1
  <2>3. Quiet(Target(e, d))
    BY <1>2 DEF Quiet, SameJob
  <2>4. Effect(e, asked[Target(e, d)], k)
    BY <2>2, <2>3 DEF AskedHolds
  <2>5. kernel'[k] = kernel[k]
    <3>1. k \in Kernel /\ (k[2] = NameOf(e) \/ k[2] = "priority")
      BY <2>1, ReachNames, ReachInKernel
    <3>2. NameOf(e) # "MODE"
      BY <2>2, Names, SinkAssumption
    <3>. QED
      BY <1>3, <3>1, <3>2
  <2>. QED
    BY <2>2, <2>4, <2>5 DEF Effect
<1>8. Reading'
  <2>. SUFFICES ASSUME NEW u \in Threads, job'[u].clean
                PROVE  /\ At(u, "second")' => HalfRead(job[u])'
                       /\ job'[u].ret = 0 => RightAnswer(job[u])'
                       /\ ModeRead(job[u])'
    BY DEF Reading
  <2>1. job'[u] = job[u] /\ job[u].e # "MODE" /\ JobFits(job[u])
    BY <1>2 DEF Types
  <2>2. /\ At(u, "second") => HalfRead(job[u])
        /\ job[u].ret = 0 => RightAnswer(job[u])
        /\ job[u].call # "vblank"
    BY <2>1 DEF Reading, JobFits
  <2>3. ASSUME NEW e \in EnPropNames, e # "MODE", NEW d, Target(e, d) \in Settings
        PROVE  asked'[Target(e, d)] = asked[Target(e, d)]
    <3>0. NameOf(e) # "MODE" /\ Target(e, d)[2] = NameOf(e)
      <4>1. NameOf(e) # "MODE"
        BY <2>3, Names
      <4>2. Target(e, d)[2] = NameOf(e)
        BY TargetParts
      <4>. QED
        BY <4>1, <4>2
    <3>1. Target(e, d)[2] # "MODE"
      BY <3>0
    <3>. QED
      BY <1>1, <2>3, <3>1
  <2>4. At(u, "second")' => HalfRead(job[u])'
    <3>1. "HDCP_VERSION" \in EnPropNames
      BY DEF EnPropNames
    <3>2. Target("HDCP_VERSION", job[u].crtc) \in Settings
            => asked'[Target("HDCP_VERSION", job[u].crtc)] = asked[Target("HDCP_VERSION", job[u].crtc)]
      BY <2>3, <3>1
    <3>. QED
      BY <1>1, <2>1, <2>2, <3>2 DEF HalfRead, At
  <2>5. job'[u].ret = 0 => RightAnswer(job[u])'
    <3>1. job[u].call \in {"get", "getMode"} => job[u].e \in EnPropNames
      BY <2>1, SinkAssumption DEF JobFits, EnPropNames
    <3>. QED
      BY <1>1, <2>1, <2>2, <2>3, <3>1 DEF RightAnswer
  <2>6. ModeRead(job[u])'
    BY <2>1, <2>2 DEF ModeRead
  <2>. QED
    BY <2>4, <2>5, <2>6
<1>. QED
  BY <1>4, <1>5, <1>6, <1>7, <1>8 DEF IInv

(* Only content protection's commands write what the kernel changes.       *)
LEMMA KernelAuthenticatesKeeps ==
  ASSUME IInv, KernelAuthenticates PROVE IInv'
<1>. SUFFICES ASSUME Types, Alone, DoneHolds, AskedHolds, Reading
              PROVE  IInv'
  BY DEF IInv
<1>1. PICK cp \in Kernel :
        /\ cp[2] = "CONTENT_PROTECTION"
        /\ kernel[cp] = 1 /\ kernel' = [kernel EXCEPT ![cp] = 2]
        /\ UNCHANGED <<sink, home, lit, changes, files, conns, asked, job, calls>>
  <2>1. PICK cp : cp = Target("CONTENT_PROTECTION", FirstCrtc)
    OBVIOUS
  <2>2. cp[2] = "CONTENT_PROTECTION"
    BY <2>1, TargetParts DEF NameOf
  <2>. QED
    BY <2>1, <2>2 DEF KernelAuthenticates, world
<1>2. \A k \in Kernel : k # cp => kernel'[k] = kernel[k]
  BY <1>1 DEF Types
<1>3. ASSUME NEW e \in EnProps, NEW k \in Reach(e), NEW v \in 0 .. 2, Effect(e, v, k)
      PROVE  Effect(e, v, k)'
  <2>1. k \in Kernel
    BY ReachInKernel
  <2>2. CASE k # cp
    BY <1>2, <1>3, <2>1, <2>2 DEF Effect
  <2>3. CASE k = cp
    <3>1. e = "CONTENT_PROTECTION" /\ k # Priority
      <4>1. "CONTENT_PROTECTION" # "priority"
        OBVIOUS
      <4>2. k[2] = NameOf(e) /\ k # Priority
        BY <1>1, <2>3, <4>1, ReachNames, OtherParts
      <4>. QED
        BY <1>1, <2>3, <4>2, Names, SinkAssumption
    <3>2. Send(e, v) = v
      BY <3>1 DEF Send
    <3>3. v = 1
      BY <1>1, <1>3, <2>3, <3>1, <3>2 DEF Effect
    <3>. QED
      BY <1>1, <2>3, <3>1, <3>3 DEF Effect, Types
  <2>. QED
    BY <2>2, <2>3
<1>4. Types'
  BY <1>1 DEF Types
<1>5. Alone'
  BY <1>1 DEF Alone
<1>6. DoneHolds'
  <2>. SUFFICES ASSUME NEW u \in Threads, Sets(job[u]), job[u].clean, NEW k \in job[u].done
                PROVE  Effect(job[u].e, job[u].v, k)'
    BY <1>1 DEF DoneHolds
  <2>1. job[u].e \in EnProps /\ job[u].v \in 0 .. 2 /\ k \in Reach(job[u].e)
    BY SinkAssumption DEF Types, Job, JobFits, Sets
  <2>2. Effect(job[u].e, job[u].v, k)
    BY DEF DoneHolds
  <2>3. PICK e, v : e = job[u].e /\ v = job[u].v
    OBVIOUS
  <2>4. Effect(e, v, k)'
    BY <1>3, <2>1, <2>2, <2>3
  <2>. QED
    BY <1>1, <2>3, <2>4 DEF Effect
<1>7. AskedHolds'
  <2>. SUFFICES ASSUME NEW e \in EnProps \ GetOnly, NEW c \in Crtcs,
                       asked[Target(e, c)] # Unknown, Quiet(Target(e, c)),
                       NEW k \in Whole(Target(e, c))
                PROVE  Effect(e, asked[Target(e, c)], k)'
    BY <1>1 DEF AskedHolds, Quiet
  <2>1. Effect(e, asked[Target(e, c)], k)
    BY DEF AskedHolds
  <2>2. Target(e, c) \in Settings /\ k \in Reach(e)
    BY SettingsAre
  <2>3. PICK v \in 0 .. 2 : v = asked[Target(e, c)]
    BY <2>2, SinkAssumption DEF Types
  <2>4. Effect(e, v, k)'
    BY <1>3, <2>1, <2>2, <2>3
  <2>. QED
    BY <1>1, <2>3, <2>4 DEF Effect
<1>8. Reading'
  <2>. SUFFICES ASSUME NEW u \in Threads, job[u].clean PROVE ModeRead(job[u])'
    BY <1>1 DEF Reading, At, HalfRead, RightAnswer
  <2>1. ModeRead(job[u]) /\ job[u] \in Job /\ JobFits(job[u])
    BY DEF Reading, Types
  <2>2. ASSUME job[u].call = "vblank", job[u].at = "vblank" \/ job[u].ret = 0
        PROVE  kernel'[Target("MODE", job[u].pipe + 1)] = kernel[Target("MODE", job[u].pipe + 1)]
    <3>1. Target("MODE", job[u].pipe + 1) \in Kernel
      BY <2>1, <2>2, PipeIsThere
    <3>2. Target("MODE", job[u].pipe + 1)[2] = "MODE"
      BY TargetParts DEF NameOf
    <3>3. Target("MODE", job[u].pipe + 1) # cp
      BY <1>1, <3>2
    <3>. QED
      BY <1>2, <3>1, <3>3
  <2>. QED
    BY <1>1, <2>1, <2>2 DEF ModeRead
<1>. QED
  BY <1>4, <1>5, <1>6, <1>7, <1>8 DEF IInv

-----------------------------------------------------------------------------
LEMMA InitIInv == Init => IInv
<1>. SUFFICES ASSUME Init PROVE IInv
  OBVIOUS
<1>1. PICK i \in Job : /\ i = Idle /\ JobFits(i) /\ ~Sets(i) /\ i.at = "idle"
                       /\ i.ret = Failed /\ i.call = "none"
  BY IdleFits
<1>2. job = [t \in Threads |-> i]
  BY <1>1 DEF Init
<1>3. Types
  <2>0. PICK m \in Values, n \in OtherModes :
          kernel = [k \in Kernel |-> IF k[2] # "MODE" THEN 0 ELSE IF k[1] = lit THEN m ELSE n]
    BY DEF Init
  <2>1. 0 \in 0 .. 2 /\ m \in 0 .. 2 /\ n \in 0 .. 2
    <3>1. Values \subseteq 0 .. 2 /\ OtherModes \subseteq Values \cup {0}
      BY SinkAssumption
    <3>. QED
      BY <3>1
  <2>2. kernel \in [Kernel -> 0 .. 2]
    BY <2>0, <2>1
  <2>. QED
    BY <1>1, <1>2, <2>2, SinkAssumption DEF Init, Types
<1>4. Alone /\ DoneHolds
  BY <1>1, <1>2 DEF Alone, DoneHolds
<1>5. AskedHolds
  BY SettingsAre DEF Init, AskedHolds
<1>6. Reading
  BY <1>1, <1>2 DEF Reading, At, Failed, ModeRead
<1>. QED
  BY <1>3, <1>4, <1>5, <1>6 DEF IInv

LEMMA NextIInv == IInv /\ [Next]_vars => IInv'
<1>. SUFFICES ASSUME IInv, [Next]_vars PROVE IInv'
  OBVIOUS
<1>1. CASE Others
  BY <1>1, ReplugKeeps, CompositorMovesKeeps, CrtcChangesKeeps, KernelAuthenticatesKeeps
     DEF Others
<1>2. ASSUME NEW t \in Threads, Calls(t) PROVE IInv'
  BY <1>2, CallsKeep
<1>3. ASSUME NEW t \in Threads, Step(t) PROVE IInv'
  <2>1. CASE OpenFd(t) \/ ConnectorCreate(t) \/ ReadEncoder(t) \/ Close(t) \/ Return(t)
    BY <2>1, OpenFdKeeps, ConnectorCreateKeeps, ReadEncoderKeeps, CloseKeeps, ReturnKeeps
  <2>2. CASE SetFirst(t) \/ SetSecond(t) \/ SendMode(t)
    BY <2>2, SetFirstKeeps, SetSecondKeeps, SendModeKeeps
  <2>3. CASE ReadFirst(t) \/ ReadSecond(t) \/ GetMode(t)
    BY <2>3, ReadFirstKeeps, ReadSecondKeeps, GetModeKeeps
  <2>4. CASE \/ GetRxSupportedModes(t) \/ GetRxPreferredMode(t)
             \/ GetEDID(t) \/ GetConnection(t)
    BY <2>4, ReportKeeps
       DEF GetRxSupportedModes, GetRxPreferredMode, GetEDID, GetConnection
  <2>5. CASE ModeOfPipe(t)
    BY <2>5, ModeOfPipeKeeps
  <2>6. CASE ModeOfPipeCrashes(t)
    BY <2>6, CrashKeeps DEF ModeOfPipeCrashes
  <2>7. CASE WaitVBlank(t)
    BY <2>7, WaitVBlankKeeps
  <2>. QED
    BY <1>3, <2>1, <2>2, <2>3, <2>4, <2>5, <2>6, <2>7 DEF Step
<1>4. CASE UNCHANGED vars
  BY <1>4 DEF vars, IInv, Types, Alone, DoneHolds, AskedHolds, Quiet, Effect, Reading,
              HalfRead, RightAnswer, ModeRead, At
<1>. QED
  BY <1>1, <1>2, <1>3, <1>4 DEF Next

LEMMA Inductive == Spec => []IInv
BY InitIInv, NextIInv, PTL DEF Spec

(* Every variable has its type, and a thread outside of a call holds       *)
(* neither a file nor a connector, whichever call failed.                  *)
THEOREM TypeCorrect == Spec => []TypeOK
<1>1. IInv => TypeOK
  BY DEF IInv, Types, TypeOK, Job, Holder, At
<1>. QED
  BY <1>1, Inductive, PTL

(* What was last set of a property of the object that a call reads is what *)
(* it reads back, and what a display can do is what is reported, for calls *)
(* that no set call disturbed (meson_drm_set_prop, meson_drm_setMode,      *)
(* meson_drm_get_prop, meson_drm_getMode), on any number of CRTCs, of      *)
(* which each call finds HDMI's for itself.                                *)
THEOREM AnswersAreRight == Spec => []AnswersRight
<1>1. IInv => AnswersRight
  BY DEF IInv, Reading, RightAnswer, AnswersRight, SetReadsBack, SinkReported
<1>. QED
  BY <1>1, Inductive, PTL

(* Bounds of a quotient.                                                   *)
LEMMA Quotient ==
  ASSUME NEW n \in Nat, NEW d \in Nat \ {0}
  PROVE  n \div d \in Nat /\ (n \div d) * d <= n /\ n < (n \div d) * d + d
OBVIOUS

(* The interval of get_refresh_interval is within 0.6 microseconds of the  *)
(* time of a frame, at every rate.                                         *)
THEOREM RatesExact ==
  ASSUME NEW rate \in Nat \ {0}, NEW frac \in BOOLEAN
  PROVE  Exact(rate, frac)
<1>1. CASE frac /\ rate \in FracRates
  <2>1. rate = 24 \/ rate = 30 \/ rate = 60 \/ rate = 120 \/ rate = 240
    BY <1>1 DEF FracRates
  <2>. QED
    BY <1>1, <2>1, SMT DEF Exact, RefreshInterval, FracRates
<1>2. CASE ~(frac /\ rate \in FracRates)
  <2>1. PICK half \in Nat : half = rate \div 2 /\ 2 * half <= rate /\ rate <= 2 * half + 1
    BY SMT
  <2>2. PICK p \in Nat, q \in Nat :
          /\ q = (1000000 + half) \div rate /\ p = q * rate
          /\ p <= 1000000 + half /\ 1000000 + half < p + rate
    <3>1. PICK n \in Nat : n = 1000000 + half
      BY SMT
    <3>2. PICK q \in Nat : q = n \div rate /\ q * rate <= n /\ n < q * rate + rate
      BY Quotient
    <3>3. PICK p \in Nat : p = q * rate
      BY SMT
    <3>. QED
      BY <3>1, <3>2, <3>3, SMT
  <2>3. RefreshInterval(rate, frac) = q
    BY <1>2, <2>1, <2>2, SMT DEF RefreshInterval
  <2>4. RefreshInterval(rate, frac) * rate * 1000 - 1000000 * 1000 = 1000 * (p - 1000000)
    BY <2>2, <2>3, SMT
  <2>5. 10 * (1000 * (p - 1000000)) \in -6000 * rate .. 6000 * rate
    BY <2>1, <2>2, SMT
  <2>. QED
    BY <1>2, <2>4, <2>5, SMT DEF Exact
<1>. QED
  BY <1>1, <1>2

(* meson_drm_get_vblank_time waits on the CRTC whose interval it returns,  *)
(* of the first two, and the interval is that of a frame.                  *)
THEOREM VblankIsExact == Spec => []VblankExact
<1>1. IInv => VblankExact
  <2>. SUFFICES ASSUME IInv, NEW t \in Threads,
                       At(t, "returned"), job[t].call = "vblank", job[t].ret = 0
                PROVE  /\ job[t].pipe \in 0 .. 1 =>
                            /\ job[t].waited = job[t].pipe
                            /\ job[t].clean =>
                                 job[t].out = kernel[Target("MODE", job[t].waited + 1)]
                       /\ \A rate \in Rates, frac \in BOOLEAN : Exact(rate, frac)
    BY DEF VblankExact
  <2>1. job[t].waited = WaitsFor(job[t].pipe) /\ job[t].out # 0
    BY DEF IInv, Types, JobFits, At
  <2>2. job[t].pipe \in 0 .. 1 => job[t].waited = job[t].pipe
    BY <2>1 DEF WaitsFor
  <2>3. job[t].clean => job[t].out = kernel[Target("MODE", job[t].pipe + 1)]
    BY <2>1 DEF IInv, Reading, ModeRead
  <2>4. \A rate \in Rates, frac \in BOOLEAN : Exact(rate, frac)
    BY SinkAssumption, RatesExact
  <2>. QED
    BY <2>2, <2>3, <2>4
<1>. QED
  BY <1>1, Inductive, PTL

-----------------------------------------------------------------------------
LEMMA Ranks ==
  ASSUME NEW d
  PROVE  /\ Resend(d) \in 0 .. 1 /\ (d # Default => Resend(d) = 1) /\ Resend(Default) = 0
         /\ Rank("open", d) = 9 /\ Rank("connect", d) = 8 /\ Rank("encoder", d) = 7
         /\ Rank("set", d) = 5 + Resend(d)
         /\ Rank("get", d) = 4 /\ Rank("priority", d) = 3 + Resend(d)
         /\ Rank("second", d) = 3 /\ Rank("getMode", d) = 3 /\ Rank("report", d) = 3
         /\ Rank("pipe", d) = 3 /\ Rank("setmode", d) = 2 + Resend(d)
         /\ Rank("close", d) = 2 /\ Rank("vblank", d) = 2 /\ Rank("returned", d) = 1
         /\ Rank("idle", d) = 0 /\ Rank("crashed", d) = 0
BY DEF Rank, Resend

LEMMA RankIsNat == ASSUME NEW at, NEW d PROVE Rank(at, d) \in Nat
<1>1. Resend(d) \in Nat
  BY DEF Resend
<1>. HIDE DEF Resend
<1>. QED
  BY <1>1 DEF Rank

(* t's call gets the job new, the others keep theirs.                      *)
GoesTo(t, new) ==
  job'[t] = new /\ \A u \in Threads \ {t} : job'[u] = job[u]

LEMMA GotoGoesTo ==
  ASSUME IInv, NEW t \in Threads, NEW there, Goto(t, there)
  PROVE  job'[t].at = there /\ \A u \in Threads \ {t} : job'[u] = job[u]
<1>1. job \in [Threads -> Job] /\ job[t] \in Job
  BY DEF IInv, Types
<1>. QED
  BY <1>1 DEF Goto, Job

LeadTo(after, place) == \A o \in Outcomes : after[o] \in Job /\ after[o].at = place

(* A command is sent again, or the call goes on to the place after it.     *)
LEMMA CommandStep ==
  ASSUME IInv, NEW t \in Threads, NEW target, NEW value, NEW after, NEW place,
         Command(t, target, value, after), LeadTo(after, place)
  PROVE  /\ \A u \in Threads \ {t} : job'[u] = job[u]
         /\ \/ job'[t].at = job[t].at /\ job[t].dir # Default /\ job'[t].dir = Default
            \/ job'[t].at = place
<1>1. job \in [Threads -> Job] /\ job[t] \in Job
  BY DEF IInv, Types
<1>2. PICK outcome \in Outcomes :
        LET did == outcome \in {"done", "lost"}
            work == IF did THEN [job[t] EXCEPT !.done = @ \cup {target}] ELSE job[t] IN
        job' = [job EXCEPT ![t] =
                  IF outcome # "done" /\ work.dir # Default
                  THEN [work EXCEPT !.dir = NextDir(work.dir)]
                  ELSE [after[outcome] EXCEPT !.done = work.done, !.dir = EnvDir]]
  BY DEF Command, Outcomes
<1>3. PICK done : done = IF outcome \in {"done", "lost"} THEN job[t].done \cup {target}
                         ELSE job[t].done
  OBVIOUS
<1>4. PICK work : work = IF outcome \in {"done", "lost"} THEN [job[t] EXCEPT !.done = @ \cup {target}]
                         ELSE job[t]
  OBVIOUS
<1>5. work = [job[t] EXCEPT !.done = done]
  <2>1. CASE outcome \in {"done", "lost"}
    BY <1>3, <1>4, <2>1
  <2>2. CASE outcome \notin {"done", "lost"}
    <3>1. done = job[t].done /\ work = job[t]
      BY <1>3, <1>4, <2>2
    <3>. QED
      BY <1>1, <3>1 DEF Job
  <2>. QED
    BY <2>1, <2>2
<1>6. work.at = job[t].at /\ work.dir = job[t].dir
  BY <1>1, <1>5 DEF Job
<1>7. job' = [job EXCEPT ![t] =
                IF outcome # "done" /\ work.dir # Default
                THEN [work EXCEPT !.dir = NextDir(work.dir)]
                ELSE [after[outcome] EXCEPT !.done = work.done, !.dir = EnvDir]]
  <2>1. CASE outcome \in {"done", "lost"}
    <3>1. work = [job[t] EXCEPT !.done = @ \cup {target}]
      BY <1>4, <2>1
    <3>. QED
      BY <1>2, <2>1, <3>1
  <2>2. CASE outcome \notin {"done", "lost"}
    <3>1. work = job[t]
      BY <1>4, <2>2
    <3>. QED
      BY <1>2, <2>2, <3>1
  <2>. QED
    BY <2>1, <2>2
<1>8. \A u \in Threads \ {t} : job'[u] = job[u]
  BY <1>1, <1>7
<1>9. CASE outcome # "done" /\ work.dir # Default
  <2>1. job'[t] = [work EXCEPT !.dir = Default]
    BY <1>1, <1>7, <1>9 DEF NextDir
  <2>2. job'[t].at = work.at /\ job'[t].dir = Default
    BY <1>1, <1>5, <2>1 DEF Job
  <2>. QED
    BY <1>6, <1>8, <1>9, <2>2
<1>10. CASE ~(outcome # "done" /\ work.dir # Default)
  <2>1. job'[t] = [after[outcome] EXCEPT !.done = work.done, !.dir = EnvDir]
    BY <1>1, <1>7, <1>10
  <2>2. job'[t].at = place
    BY <2>1 DEF Job, LeadTo
  <2>. QED
    BY <1>8, <2>2
<1>. QED
  BY <1>9, <1>10

(* The commands of the calls that set.                                     *)
LEMMA SetStep ==
  ASSUME IInv, NEW t \in Threads, SetFirst(t) \/ SetSecond(t) \/ SendMode(t)
  PROVE  /\ \A u \in Threads \ {t} : job'[u] = job[u]
         /\ Rank(job'[t].at, job'[t].dir) < Rank(job[t].at, job[t].dir)
<1>1. job[t] \in Job
  BY DEF IInv, Types
<1>2. PICK d, e : d = job[t].dir /\ e = job'[t].dir
  OBVIOUS
<1>3. ASSUME NEW target, NEW value, NEW after, NEW place,
             Command(t, target, value, after), LeadTo(after, place)
      PROVE  /\ \A u \in Threads \ {t} : job'[u] = job[u]
             /\ \/ job'[t].at = job[t].at /\ d # Default /\ e = Default
                \/ job'[t].at = place
  <2>1. /\ \A u \in Threads \ {t} : job'[u] = job[u]
        /\ \/ job'[t].at = job[t].at /\ job[t].dir # Default /\ job'[t].dir = Default
           \/ job'[t].at = place
    BY <1>3, CommandStep
  <2>. QED
    BY <1>2, <2>1
<1>4. CASE SetFirst(t)
  <2>1. PICK after : after = [o \in Outcomes |->
                  IF job[t].e = "HDCP_VERSION" THEN [job[t] EXCEPT !.at = "priority"]
                  ELSE [job[t] EXCEPT !.at = "close", !.ret = 0]]
    OBVIOUS
  <2>2. /\ job[t].at = "set"
        /\ Command(t, SetTarget(job[t].e, job[t].crtc), Send(job[t].e, job[t].v), after)
    BY <1>4, <2>1 DEF SetFirst, At
  <2>3. PICK place \in {"priority", "close"} : LeadTo(after, place)
    <3>1. CASE job[t].e = "HDCP_VERSION"
      BY <1>1, <2>1, <3>1 DEF LeadTo, Job, Places
    <3>2. CASE job[t].e # "HDCP_VERSION"
      BY <1>1, <2>1, <3>2 DEF LeadTo, Job, Places
    <3>. QED
      BY <3>1, <3>2
  <2>4. /\ \A u \in Threads \ {t} : job'[u] = job[u]
        /\ \/ job'[t].at = "set" /\ d # Default /\ e = Default
           \/ job'[t].at \in {"priority", "close"}
    BY <1>3, <2>2, <2>3
  <2>. QED
    BY <1>2, <2>2, <2>4, Ranks
<1>5. CASE SetSecond(t)
  <2>1. PICK after : after = [o \in Outcomes |-> [job[t] EXCEPT !.at = "close", !.ret = 0]]
    OBVIOUS
  <2>2. job[t].at = "priority" /\ Command(t, Priority, SendPriority(job[t].v), after)
    BY <1>5, <2>1 DEF SetSecond, At
  <2>3. LeadTo(after, "close")
    BY <1>1, <2>1, ZenonT(60) DEF LeadTo, Job, Places
  <2>4. /\ \A u \in Threads \ {t} : job'[u] = job[u]
        /\ \/ job'[t].at = "priority" /\ d # Default /\ e = Default
           \/ job'[t].at = "close"
    BY <1>3, <2>2, <2>3
  <2>. QED
    BY <1>2, <2>2, <2>4, Ranks
<1>6. CASE SendMode(t)
  <2>1. PICK after : after = [o \in Outcomes |-> [job[t] EXCEPT !.at = "returned", !.ret = ModeDone(o)]]
    OBVIOUS
  <2>2. job[t].at = "setmode" /\ Command(t, Target("MODE", lit), job[t].v, after)
    BY <1>6, <2>1 DEF SendMode, At
  <2>3. LeadTo(after, "returned")
    <3>. SUFFICES ASSUME NEW o \in Outcomes PROVE after[o] \in Job /\ after[o].at = "returned"
      BY DEF LeadTo
    <3>1. PICK ret \in {Failed, 0} : ret = ModeDone(o)
      BY DEF ModeDone
    <3>2. after[o] = [job[t] EXCEPT !.at = "returned", !.ret = ret]
      BY <2>1, <3>1
    <3>. QED
      BY <1>1, <3>2 DEF Job, Places
  <2>4. /\ \A u \in Threads \ {t} : job'[u] = job[u]
        /\ \/ job'[t].at = "setmode" /\ d # Default /\ e = Default
           \/ job'[t].at = "returned"
    BY <1>3, <2>2, <2>3
  <2>. QED
    BY <1>2, <2>2, <2>4, Ranks
<1>. QED
  BY <1>4, <1>5, <1>6

(* Where the other steps of a call lead.                                   *)
LEMMA CallStep ==
  ASSUME IInv, NEW t \in Threads, Step(t)
  PROVE  /\ \A u \in Threads \ {t} : job'[u] = job[u]
         /\ Rank(job'[t].at, job'[t].dir) < Rank(job[t].at, job[t].dir)
<1>1. job \in [Threads -> Job] /\ job[t] \in Job /\ JobFits(job[t])
  BY DEF IInv, Types
<1>2. PICK d, e : d = job[t].dir /\ e = job'[t].dir
  OBVIOUS
<1>3. CASE OpenFd(t)
  <2>1. PICK there \in {"connect", "close"} : Goto(t, there)
    BY <1>3 DEF OpenFd
  <2>2. job[t].at = "open"
    BY <1>3 DEF OpenFd, At
  <2>. QED
    BY <1>2, <2>1, <2>2, GotoGoesTo, Ranks
<1>4. CASE ConnectorCreate(t)
  <2>1. job[t].at = "connect"
    BY <1>4 DEF ConnectorCreate, At
  <2>2. CASE Goto(t, "close")
    BY <1>2, <2>1, <2>2, GotoGoesTo, Ranks
  <2>3. CASE ~Goto(t, "close")
    <3>1. PICK enc : job' = [job EXCEPT ![t].at = "encoder", ![t].enc = enc]
      BY <1>4, <2>3, Zenon DEF ConnectorCreate
    <3>2. job'[t].at = "encoder" /\ \A u \in Threads \ {t} : job'[u] = job[u]
      BY <1>1, <3>1 DEF Job
    <3>. QED
      BY <1>2, <2>1, <3>2, Ranks
  <2>. QED
    BY <2>2, <2>3
<1>17. CASE ReadEncoder(t)
  <2>1. job[t].at = "encoder" /\ job[t].call \in {"set", "get", "getMode", "report"}
    BY <1>1, <1>17 DEF ReadEncoder, At, JobFits
  <2>2. PICK there, crtc :
          /\ there = job[t].call
          /\ job' = [job EXCEPT ![t].at = there, ![t].enc = FALSE, ![t].crtc = crtc]
    BY <1>17, Zenon DEF ReadEncoder
  <2>3. job'[t].at = there /\ \A u \in Threads \ {t} : job'[u] = job[u]
    BY <1>1, <2>2 DEF Job
  <2>4. there \in {"set", "get", "getMode", "report"}
    BY <2>1, <2>2
  <2>5. Rank(there, e) < 7 /\ Rank(job[t].at, d) = 7
    BY <2>1, <2>4, Ranks
  <2>. QED
    BY <1>2, <2>3, <2>5
<1>5. CASE Close(t)
  <2>1. Goto(t, "returned") /\ job[t].at = "close"
    BY <1>5 DEF Close, At
  <2>. QED
    BY <1>2, <2>1, GotoGoesTo, Ranks
<1>6. CASE Return(t)
  <2>1. job[t].at = "returned" /\ job' = [job EXCEPT ![t] = Idle]
    BY <1>6 DEF Return, At
  <2>2. job'[t].at = "idle" /\ \A u \in Threads \ {t} : job'[u] = job[u]
    BY <1>1, <2>1 DEF Idle
  <2>. QED
    BY <1>2, <2>1, <2>2, Ranks
<1>7. CASE SetFirst(t) \/ SetSecond(t) \/ SendMode(t)
  BY <1>7, SetStep
<1>8. CASE ReadFirst(t)
  <2>1. job[t].at = "get"
    BY <1>8 DEF ReadFirst, At
  <2>2. CASE Goto(t, "close")
    BY <1>2, <2>1, <2>2, GotoGoesTo, Ranks
  <2>3. CASE ~Goto(t, "close")
    <3>1. PICK set, out, read :
            /\ read = IF job[t].e \in GetOnly THEN [job[t] EXCEPT !.set = set]
                      ELSE [job[t] EXCEPT !.out = out]
            /\ job' = [job EXCEPT ![t] = IF job[t].e \in TwoReads THEN [read EXCEPT !.at = "second"]
                                         ELSE [read EXCEPT !.at = "close", !.ret = 0]]
      BY <1>8, <2>3, Zenon DEF ReadFirst
    <3>2. /\ job'[t] = IF job[t].e \in TwoReads THEN [read EXCEPT !.at = "second"]
                       ELSE [read EXCEPT !.at = "close", !.ret = 0]
          /\ \A u \in Threads \ {t} : job'[u] = job[u]
      BY <1>1, <3>1
    <3>3. job'[t].at \in {"second", "close"}
      BY <1>1, <3>1, <3>2 DEF Job
    <3>. QED
      BY <1>2, <2>1, <3>2, <3>3, Ranks
  <2>. QED
    BY <2>2, <2>3
<1>9. CASE ReadSecond(t)
  <2>1. job[t].at = "second"
    BY <1>9 DEF ReadSecond, At
  <2>. DEFINE prop == job[t].e
              out(missing) == Read(prop, job[t].out, IF missing THEN 0 ELSE kernel[Priority])
              set(missing) == HDRSupportedList(job[t].set, IF missing THEN {} ELSE DvBits(sink))
              read(missing) == IF prop = "HDCP_VERSION" THEN [job[t] EXCEPT !.out = out(missing)]
                               ELSE [job[t] EXCEPT !.set = set(missing)]
              after(missing) == [read(missing) EXCEPT !.at = "close", !.ret = 0,
                                                      !.clean = @ /\ ~missing]
  <2>2. PICK missing \in BOOLEAN : job' = [job EXCEPT ![t] = after(missing)]
    BY <1>9 DEF ReadSecond
  <2>3. PICK new : new = after(missing)
    OBVIOUS
  <2>. HIDE DEF out, set
  <2>4. job' = [job EXCEPT ![t] = new]
    BY <2>2, <2>3
  <2>5. new.at = "close"
    BY <1>1, <2>3 DEF Job
  <2>6. job'[t] = new /\ \A u \in Threads \ {t} : job'[u] = job[u]
    BY <1>1, <2>4
  <2>. QED
    BY <1>2, <2>1, <2>5, <2>6, Ranks
<1>10. ASSUME NEW value, NEW certain, Answer(t, value, certain)
       PROVE  job'[t].at = "close" /\ \A u \in Threads \ {t} : job'[u] = job[u]
  <2>1. PICK clean : job' = [job EXCEPT ![t].at = "close", ![t].ret = 0, ![t].out = value,
                                        ![t].clean = clean]
    <3>1. PICK clean : clean = (job[t].clean /\ certain)
      OBVIOUS
    <3>2. job' = [job EXCEPT ![t] = [job[t] EXCEPT !.at = "close", !.ret = 0, !.out = value,
                                                   !.clean = clean]]
      BY <1>1, <1>10, <3>1 DEF Answer
    <3>. QED
      BY <1>1, <3>2
  <2>. QED
    BY <1>1, <2>1 DEF Job
<1>11. CASE GetMode(t)
  <2>1. job[t].at = "getMode"
    BY <1>11 DEF GetMode, At
  <2>2. PICK value, certain : Answer(t, value, certain)
    BY <1>11 DEF GetMode
  <2>3. job'[t].at = "close" /\ \A u \in Threads \ {t} : job'[u] = job[u]
    BY <1>10, <2>2
  <2>. QED
    BY <1>2, <2>1, <2>3, Ranks
<1>12. CASE Report(t) \/ ReportCopy(t)
  <2>1. job[t].at = "report"
    BY <1>12 DEF Report, ReportCopy, At
  <2>2. CASE Goto(t, "crashed")
    BY <1>2, <2>1, <2>2, GotoGoesTo, Ranks
  <2>3. CASE ~Goto(t, "crashed")
    <3>1. Answer(t, 0, TRUE)
      BY <1>12, <2>3 DEF Report, ReportCopy
    <3>2. job'[t].at = "close" /\ \A u \in Threads \ {t} : job'[u] = job[u]
      BY <1>10, <3>1
    <3>. QED
      BY <1>2, <2>1, <3>2, Ranks
  <2>. QED
    BY <2>2, <2>3
<1>13. CASE ModeOfPipe(t)
  <2>1. job[t].at = "pipe"
    BY <1>13 DEF ModeOfPipe, At
  <2>2. PICK mode, pipe :
          job' = [job EXCEPT ![t].at = "vblank", ![t].pipe = pipe, ![t].out = mode]
    BY <1>13 DEF ModeOfPipe
  <2>3. job'[t].at = "vblank" /\ \A u \in Threads \ {t} : job'[u] = job[u]
    BY <1>1, <2>2 DEF Job
  <2>. QED
    BY <1>2, <2>1, <2>3, Ranks
<1>14. CASE ModeOfPipeCrashes(t)
  <2>1. job[t].at = "pipe" /\ Goto(t, "crashed")
    BY <1>14 DEF ModeOfPipeCrashes, At
  <2>. QED
    BY <1>2, <2>1, GotoGoesTo, Ranks
<1>15. CASE WaitVBlank(t)
  <2>1. job[t].at = "vblank"
    BY <1>15 DEF WaitVBlank, At
  <2>2. CASE Goto(t, "returned")
    BY <1>2, <2>1, <2>2, GotoGoesTo, Ranks
  <2>3. CASE ~Goto(t, "returned")
    <3>1. PICK pipe, ret :
            job' = [job EXCEPT ![t].at = "returned", ![t].waited = pipe, ![t].ret = ret]
      BY <1>15, <2>3, Zenon DEF WaitVBlank
    <3>2. job'[t].at = "returned" /\ \A u \in Threads \ {t} : job'[u] = job[u]
      BY <1>1, <3>1 DEF Job
    <3>. QED
      BY <1>2, <2>1, <3>2, Ranks
  <2>. QED
    BY <2>2, <2>3
<1>16. Report(t) \/ ReportCopy(t)
         <=> GetRxSupportedModes(t) \/ GetRxPreferredMode(t) \/ GetEDID(t) \/ GetConnection(t)
  BY DEF GetRxSupportedModes, GetRxPreferredMode, GetEDID, GetConnection
<1>. QED
  BY <1>3, <1>4, <1>5, <1>6, <1>7, <1>8, <1>9, <1>11, <1>12, <1>13, <1>14, <1>15, <1>16, <1>17
     DEF Step

(* A call that begins is that of a thread that was idle.                   *)
LEMMA BeginOthers ==
  ASSUME IInv, NEW u \in Threads, NEW work, Begin(u, work), NEW t \in Threads, ~At(t, "idle")
  PROVE  job'[t].at = job[t].at /\ job'[t].dir = job[t].dir
<1>1. job[t] \in Job
  BY DEF IInv, Types
<1>2. u # t
  BY DEF Begin
<1>3. job'[t] = job[t] \/ job'[t] = [job[t] EXCEPT !.clean = FALSE]
  BY <1>2, Zenon DEF Begin
<1>. QED
  BY <1>1, <1>3 DEF Job

LEMMA ProgressStep == ASSUME IInv, [Next]_vars, NEW t \in Threads PROVE Progress(t)
<1>1. Left(t) = Rank(job[t].at, job[t].dir) /\ Left(t)' = Rank(job'[t].at, job'[t].dir)
  BY DEF Left
<1>2. Rank(job[t].at, job[t].dir) \in Nat /\ Rank(job'[t].at, job'[t].dir) \in Nat
  BY RankIsNat
<1>3. Step(t) => Left(t)' < Left(t)
  BY <1>1, CallStep
<1>4. ASSUME ~At(t, "idle") PROVE Left(t)' <= Left(t)
  <2>1. ASSUME job'[t].at = job[t].at, job'[t].dir = job[t].dir PROVE Left(t)' <= Left(t)
    BY <1>1, <1>2, <2>1
  <2>2. ASSUME NEW u \in Threads, NEW work, Begin(u, work) PROVE Left(t)' <= Left(t)
    BY <1>4, <2>1, <2>2, BeginOthers
  <2>3. ASSUME NEW u \in Threads, Step(u) PROVE Left(t)' <= Left(t)
    <3>1. CASE u = t
      BY <1>1, <1>2, <1>3, <2>3, <3>1
    <3>2. CASE u # t
      BY <2>1, <2>3, <3>2, CallStep
    <3>. QED
      BY <3>1, <3>2
  <2>4. ASSUME NEW u \in Threads, Calls(u) PROVE Left(t)' <= Left(t)
    <3>1. PICK work : Begin(u, work)
      BY <2>4, Zenon
         DEF Calls, GetProp, SetProp, SetMode, Query, GetVblankTime, InvalidProp,
             InvalidPropCrashes
    <3>. QED
      BY <2>2, <3>1
  <2>5. CASE Others
    <3>1. CASE job' = job
      BY <2>1, <3>1
    <3>2. CASE \E s \in Sinks : Replug(s)
      <4>1. job[t] \in Job
        BY DEF IInv, Types
      <4>2. job'[t] = job[t] \/ job'[t] = [job[t] EXCEPT !.sink = "changed"]
        BY <3>2, Zenon DEF Replug
      <4>3. job'[t].at = job[t].at /\ job'[t].dir = job[t].dir
        BY <4>1, <4>2 DEF Job
      <4>. QED
        BY <2>1, <4>3
    <3>3. CASE \E c \in Lights, m \in Values : CrtcChanges(c, m)
      <4>1. job[t] \in Job
        BY DEF IInv, Types
      <4>2. job'[t] = job[t] \/ job'[t] = [job[t] EXCEPT !.clean = FALSE]
        BY <3>3, Zenon DEF CrtcChanges
      <4>3. job'[t].at = job[t].at /\ job'[t].dir = job[t].dir
        BY <4>1, <4>2 DEF Job
      <4>. QED
        BY <2>1, <4>3
    <3>. QED
      BY <2>5, <3>1, <3>2, <3>3 DEF Others, CompositorMoves, KernelAuthenticates
  <2>6. CASE UNCHANGED vars
    BY <2>1, <2>6 DEF vars
  <2>. QED
    BY <2>3, <2>4, <2>5, <2>6 DEF Next
<1>. QED
  <2>1. Left(t) \in Nat /\ Left(t)' \in Nat
    BY <1>1, RankIsNat
  <2>2. Left(t)' <= Left(t) => Left(t)' < Left(t) \/ Left(t)' = Left(t)
    BY <2>1
  <2>3. Left(t)' = Left(t) => ~Step(t)
    BY <2>1, <1>3
  <2>. QED
    BY <1>4, <2>2, <2>3 DEF Progress

(* A call makes at most nine steps of its own: no answer of the            *)
(* compositor, however often it is lost or the compositor moves, lets a    *)
(* command be sent more than twice, and no other thread's call keeps it.   *)
THEOREM CallsProgress == Spec => CallsEnd
<1>1. IInv /\ [Next]_vars => \A t \in Threads : Progress(t)
  BY ProgressStep
<1>. QED
  BY <1>1, Inductive, PTL DEF Spec, CallsEnd
=============================================================================
