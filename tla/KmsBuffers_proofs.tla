------------------------- MODULE KmsBuffers_proofs --------------------------
(***************************************************************************)
(* The safety properties of KmsBuffers, for every number of threads,       *)
(* buffers, memory objects and descriptors; those that hold whatever the   *)
(* client does first, then those that need a careful client, with the      *)
(* refinement of BufferPool.                                               *)
(***************************************************************************)
EXTENDS KmsBuffers, FiniteSetTheorems, WellFoundedInduction, TLAPS

-----------------------------------------------------------------------------
(* What a thread's place in a call says about the buffer it works on.      *)
Building == {"create", "export", "import", "addfb", "done"}
Freeing  == {"close", "rmfb", "destroy"}

(* The planes whose handle the buffer of a call has.                       *)
Keeps(j, k) ==
  \/ j.at \in {"addfb", "done", "close", "rmfb"}
  \/ j.at \in {"create", "import"} /\ k < j.k
  \/ j.at = "export" /\ k <= j.k
  \/ j.at = "destroy" /\ k >= j.k
KeepsFds(j) == j.at \in {"create", "export", "import", "addfb", "done", "close"}
KeepsFb(j)  == j.at \in {"done", "close", "rmfb"}

StageOK(j, bf) ==
  /\ j.at \in Building => bf.st = "building"
  /\ j.at \in Freeing => bf.st = "freeing"
  /\ j.at \in {"create", "export", "import"} => j.k \in 1 .. bf.nbo
  /\ j.at = "rmfb" => j.k = 1
  /\ j.at = "destroy" => j.k \in 1 .. bf.nbo + 1
  /\ \A k \in 1 .. bf.nbo : Keeps(j, k) \/ j.at = "destroy" => bf.bo[k] \in Numbers
  /\ j.at \in {"create", "export"} => \A k \in 1 .. 2 : k >= j.k => bf.fd[k] = 0
  /\ j.at = "import" => /\ \A k \in 1 .. bf.nbo : bf.fd[k] \in Fds
                        /\ bf.imported /\ bf.node = "primary"
  /\ j.at \in {"create", "export", "import", "addfb"} => bf.fb = 0

Typed ==
  /\ handle \in [Nodes -> [Numbers -> Objects \cup {None}]]
  /\ fdTab \in [Fds -> Objects \cup {None}]
  /\ fbTab \in [Numbers -> SUBSET Objects]
  /\ allocOnly \in BOOLEAN
  /\ clientFds \subseteq Fds
  /\ buf \in [Bufs -> Buf]
  /\ job \in [Threads -> Job]
  /\ dropped \in [handles : SUBSET (Nodes \X Numbers), fds : SUBSET Fds]

(* A buffer that a call works on has one such call.                        *)
Stages ==
  \A t \in Threads :
    /\ At(t, "idle") => job[t].b = None
    /\ ~At(t, "idle") => /\ job[t].b \in Bufs
                         /\ StageOK(job[t], buf[job[t].b])
                         /\ \A u \in Threads \ {t} : job[u].b # job[t].b

LiveOK == \A b \in Bufs : buf[b].st = "live" => \A k \in PlanesOf(b) : buf[b].bo[k] \in Numbers

(* A file has one handle for an object.                                    *)
OneHandle == \A nd \in Nodes : \A h, g \in Numbers :
               handle[nd][h] = handle[nd][g] /\ handle[nd][h] # None => h = g

(* What a buffer has in the kernel: handles, descriptors, a framebuffer.   *)
Owns(b, k) == /\ k \in PlanesOf(b)
              /\ buf[b].st = "live" \/ \E t \in Threads : job[t].b = b /\ Keeps(job[t], k)
HasFds(b)  == buf[b].st = "live" \/ \E t \in Threads : job[t].b = b /\ KeepsFds(job[t])
HasFb(b)   == buf[b].st = "live" \/ \E t \in Threads : job[t].b = b /\ KeepsFb(job[t])

FdsKept == \A f \in Fds \ clientFds : fdTab[f] # None =>
             f \in dropped.fds \/ \E b \in Bufs : HasFds(b) /\ f \in Range(buf[b].fd)
FbsKept == \A n \in Numbers : fbTab[n] # {} => \E b \in Bufs : HasFb(b) /\ buf[b].fb = n

IInv == Typed /\ Stages /\ LiveOK /\ OneHandle /\ FdsKept /\ FbsKept

-----------------------------------------------------------------------------
(* With a careful client.                                                  *)
OwnsFd(b, k) == HasFds(b) /\ k \in 1 .. 2 /\ buf[b].fd[k] # 0

HandlesRight ==
  \A b \in Bufs : \A k \in 1 .. 2 : Owns(b, k) =>
    /\ buf[b].obj[k] \in Objects /\ buf[b].bo[k] \in Numbers
    /\ buf[b].node = Node
    /\ handle[Node][buf[b].bo[k]] = buf[b].obj[k]
OwnMemory ==
  \A b, c \in Bufs : \A k, j \in 1 .. 2 :
    Owns(b, k) /\ Owns(c, j) /\ buf[b].obj[k] = buf[c].obj[j] => b = c /\ k = j
HandlesKept ==
  \A nd \in Nodes : \A h \in Numbers : handle[nd][h] # None =>
    \/ <<nd, h>> \in dropped.handles
    \/ \E b \in Bufs : \E k \in 1 .. 2 : Owns(b, k) /\ buf[b].node = nd /\ buf[b].bo[k] = h

OneFd == \A f, g \in Fds : fdTab[f] = fdTab[g] /\ fdTab[f] # None => f = g
FdsRight ==
  \A b \in Bufs : \A k \in 1 .. 2 : OwnsFd(b, k) =>
    /\ buf[b].fd[k] \in Fds \ clientFds
    /\ fdTab[buf[b].fd[k]] # None
    /\ Owns(b, k) => fdTab[buf[b].fd[k]] = buf[b].obj[k]
    /\ \A c \in Bufs : \A j \in 1 .. 2 :
         /\ OwnsFd(c, j) /\ buf[b].fd[k] = buf[c].fd[j] => b = c /\ k = j
         /\ Owns(c, j) /\ buf[c].obj[j] = fdTab[buf[b].fd[k]] => b = c /\ k = j
ClientFdsOpen == \A f \in clientFds : fdTab[f] # None
FdOfObject ==
  \A b \in Bufs : \A k \in 1 .. 2 : \A f \in Fds :
    Owns(b, k) /\ fdTab[f] = buf[b].obj[k] => OwnsFd(b, k) /\ f = buf[b].fd[k]

FbsRight ==
  \A b \in Bufs : HasFb(b) /\ buf[b].fb # 0 =>
    fbTab[buf[b].fb] = {buf[b].obj[k] : k \in PlanesOf(b)} /\ PlanesOf(b) # {}

FlagRight ==
  /\ \A b \in Bufs : buf[b].st # "lost"
  /\ \A b \in Bufs : buf[b].st # "free" /\ buf[b].imported => ~allocOnly
  /\ \A t \in Threads : /\ At(t, "addfb") => ~allocOnly
                        /\ At(t, "destroy") \/ At(t, "rmfb") => job[t].node = Node

HandlesInv == HandlesRight /\ OwnMemory /\ HandlesKept
FdsInv     == OneFd /\ FdsRight /\ ClientFdsOpen /\ FdOfObject
CInv       == HandlesInv /\ FdsInv /\ FbsRight /\ FlagRight

(* The client takes no liberties.                                          *)
Careful == Liberties = {}

-----------------------------------------------------------------------------
(* The kernel's choice of a number: the lowest that is free.               *)
LEMMA LowestIn ==
  ASSUME NEW S \in SUBSET Nat, S # {}
  PROVE  Lowest(S) \in S
<1> DEFINE R == OpToRel(<, Nat)
<1>1. PICK n \in S : \A m \in S : ~(<<m, n>> \in R)
  <2>1. IsWellFoundedOn(R, Nat)
    BY NatLessThanWellFounded
  <2> HIDE DEF R
  <2> QED
    BY <2>1, WFMin
<1>2. ASSUME NEW m \in S PROVE n <= m
  <2>1. ~(<<m, n>> \in R)
    BY <1>1
  <2> QED
    BY <2>1 DEF OpToRel
<1> QED
  BY <1>2 DEF Lowest

LEMMA NumbersNat == Cardinality(Objects) \in Nat /\ Numbers \subseteq Nat \ {0}
                    /\ MaxFd \in Nat /\ Fds \subseteq Nat \ {0}
BY BufAssumption, FS_CardinalityType DEF Numbers, Fds

LEMMA FreeHandle ==
  ASSUME Typed, NEW nd \in Nodes, FreeIn(handle[nd], None) # {}
  PROVE  Lowest(FreeIn(handle[nd], None)) \in {h \in Numbers : handle[nd][h] = None}
<1>1. FreeIn(handle[nd], None) = {h \in Numbers : handle[nd][h] = None}
  BY DEF Typed, FreeIn
<1> QED
  BY <1>1, LowestIn, NumbersNat

LEMMA FreeFd ==
  ASSUME Typed, FreeIn(fdTab, None) # {}
  PROVE  Lowest(FreeIn(fdTab, None)) \in {f \in Fds : fdTab[f] = None}
<1>1. FreeIn(fdTab, None) = {f \in Fds : fdTab[f] = None}
  BY DEF Typed, FreeIn
<1> QED
  BY <1>1, LowestIn, NumbersNat

LEMMA FreeFb ==
  ASSUME Typed, FreeIn(fbTab, {}) # {}
  PROVE  Lowest(FreeIn(fbTab, {})) \in {n \in Numbers : fbTab[n] = {}}
<1>1. FreeIn(fbTab, {}) = {n \in Numbers : fbTab[n] = {}}
  BY DEF Typed, FreeIn
<1> QED
  BY <1>1, LowestIn, NumbersNat

-----------------------------------------------------------------------------
(* A step of thread t on buffer b: nj and nb are what the job and the      *)
(* buffer become.                                                          *)
CallStep(t, b, nj, nb) ==
  /\ nj \in Job /\ nb \in Buf
  /\ buf' = [buf EXCEPT ![b] = nb] /\ job' = [job EXCEPT ![t] = nj]
  /\ job[t].b \in {b, None}
  /\ \A u \in Threads \ {t} : job[u].b # b
  /\ \/ nj.at = "idle" /\ nj.b = None
     \/ nj.at # "idle" /\ nj.b = b /\ StageOK(nj, nb)
  /\ nb.st = "live" => \A k \in 1 .. nb.nbo : nb.bo[k] \in Numbers

(* It changes what that buffer has, and nothing about the others.          *)
Framed(t, b, nj, nb) ==
  /\ buf'[b] = nb /\ job'[t] = nj
  /\ \A u \in Threads \ {t} : job'[u] = job[u]
  /\ \A c \in Bufs \ {b} :
       /\ buf'[c] = buf[c]
       /\ HasFds(c)' <=> HasFds(c)
       /\ HasFb(c)' <=> HasFb(c)
       /\ \A k \in 1 .. 2 : Owns(c, k)' <=> Owns(c, k)
  /\ HasFds(b) <=> buf[b].st = "live" \/ KeepsFds(job[t])
  /\ HasFds(b)' <=> nb.st = "live" \/ KeepsFds(nj)
  /\ HasFb(b) <=> buf[b].st = "live" \/ KeepsFb(job[t])
  /\ HasFb(b)' <=> nb.st = "live" \/ KeepsFb(nj)
  /\ \A k \in 1 .. 2 :
       /\ Owns(b, k) <=> k <= buf[b].nbo /\ (buf[b].st = "live" \/ Keeps(job[t], k))
       /\ Owns(b, k)' <=> k <= nb.nbo /\ (nb.st = "live" \/ Keeps(nj, k))

LEMMA CallFrame ==
  ASSUME Typed, Stages, LiveOK,
         NEW t \in Threads, NEW b \in Bufs, NEW nj, NEW nb, CallStep(t, b, nj, nb)
  PROVE  /\ buf' \in [Bufs -> Buf] /\ job' \in [Threads -> Job]
         /\ Stages' /\ LiveOK'
         /\ Framed(t, b, nj, nb)
<1>1. /\ buf' \in [Bufs -> Buf] /\ job' \in [Threads -> Job]
      /\ buf'[b] = nb /\ job'[t] = nj
      /\ \A u \in Threads \ {t} : job'[u] = job[u]
      /\ \A c \in Bufs \ {b} : buf'[c] = buf[c]
  BY DEF Typed, CallStep
<1>2. None \notin Bufs
  BY BufAssumption
<1>3. \A u \in Threads : job[u].b \in Bufs => \A v \in Threads \ {u} : job[v].b # job[u].b
  BY <1>2 DEF Stages
<1>4. Stages'
  <2> SUFFICES ASSUME NEW u \in Threads
               PROVE  /\ At(u, "idle")' => job'[u].b = None
                      /\ ~At(u, "idle")' =>
                           /\ job'[u].b \in Bufs
                           /\ StageOK(job'[u], buf'[job'[u].b])
                           /\ \A v \in Threads \ {u} : job'[v].b # job'[u].b
    BY DEF Stages, StageOK, Keeps
  <2>1. CASE u = t
    BY <1>1, <1>2, <2>1 DEF CallStep, At
  <2>2. CASE u # t
    <3>1. At(u, "idle")' => job'[u].b = None
      BY <1>1, <2>2 DEF Stages, At
    <3>2. ASSUME ~At(u, "idle")'
          PROVE  /\ job'[u].b \in Bufs \ {b}
                 /\ StageOK(job[u], buf[job[u].b])
                 /\ \A v \in Threads \ {u} : job[v].b # job[u].b
      BY <1>1, <2>2, <3>2 DEF CallStep, Stages, At
    <3>3. ASSUME ~At(u, "idle")' PROVE \A v \in Threads \ {u} : job'[v].b # job'[u].b
      BY <1>1, <1>2, <2>2, <3>2, <3>3 DEF CallStep
    <3> QED
      BY <1>1, <2>2, <3>1, <3>2, <3>3
  <2> QED
    BY <2>1, <2>2
<1>5. LiveOK'
  BY <1>1 DEF CallStep, LiveOK, PlanesOf
<1>6. \A c \in Bufs \ {b} :
        /\ HasFds(c)' <=> HasFds(c)
        /\ HasFb(c)' <=> HasFb(c)
        /\ \A k \in 1 .. 2 : Owns(c, k)' <=> Owns(c, k)
  BY <1>1, <1>2 DEF HasFds, HasFb, Owns, PlanesOf, CallStep
<1>7. \A k \in 1 .. 2 : ~Keeps(job[t], k) \/ job[t].b = b
  BY <1>2 DEF Stages, CallStep, Keeps, At
<1>8. (~KeepsFds(job[t]) /\ ~KeepsFb(job[t])) \/ job[t].b = b
  BY <1>2 DEF Stages, CallStep, KeepsFds, KeepsFb, At
<1>9. \A u \in Threads \ {t} : job'[u].b # b /\ job[u].b # b
  BY <1>1 DEF CallStep
<1>10. /\ HasFds(b) <=> buf[b].st = "live" \/ KeepsFds(job[t])
       /\ HasFds(b)' <=> nb.st = "live" \/ KeepsFds(nj)
       /\ HasFb(b) <=> buf[b].st = "live" \/ KeepsFb(job[t])
       /\ HasFb(b)' <=> nb.st = "live" \/ KeepsFb(nj)
  BY <1>1, <1>8, <1>9 DEF HasFds, HasFb, CallStep, KeepsFds, KeepsFb
<1>11. \A k \in 1 .. 2 :
         /\ Owns(b, k) <=> k <= buf[b].nbo /\ (buf[b].st = "live" \/ Keeps(job[t], k))
         /\ Owns(b, k)' <=> k <= nb.nbo /\ (nb.st = "live" \/ Keeps(nj, k))
  BY <1>1, <1>7, <1>9 DEF Owns, PlanesOf, CallStep, Keeps, Typed, Buf
<1> QED
  BY <1>1, <1>4, <1>5, <1>6, <1>10, <1>11 DEF Framed

-----------------------------------------------------------------------------
(* What a step does to each part of the invariant, given its effect on the *)
(* buffer it is about.                                                     *)

(* Descriptors and framebuffers are not lost by a step that leaves the     *)
(* tables alone.                                                           *)
LEMMA KeptSame ==
  ASSUME NEW t \in Threads, NEW b \in Bufs, NEW nj, NEW nb, Framed(t, b, nj, nb),
         OneHandle, FdsKept, FbsKept,
         UNCHANGED kernel, clientFds \subseteq clientFds', dropped.fds \subseteq dropped'.fds,
         HasFds(b) => \A f \in Range(buf[b].fd) \cap Fds :
           f \in dropped'.fds \cup clientFds' \/ (HasFds(b)' /\ f \in Range(nb.fd)),
         HasFb(b) => HasFb(b)' /\ nb.fb = buf[b].fb
  PROVE  OneHandle' /\ FdsKept' /\ FbsKept'
<1>1. OneHandle'
  BY DEF OneHandle, kernel
<1>2. FdsKept'
  <2> SUFFICES ASSUME NEW f \in Fds \ clientFds', fdTab[f] # None, f \notin dropped'.fds
               PROVE  \E c \in Bufs : HasFds(c)' /\ f \in Range(buf'[c].fd)
    BY DEF FdsKept, kernel
  <2>1. PICK c \in Bufs : HasFds(c) /\ f \in Range(buf[c].fd)
    BY DEF FdsKept
  <2> QED
    BY <2>1 DEF Framed
<1>3. FbsKept'
  BY DEF FbsKept, Framed, kernel
<1> QED
  BY <1>1, <1>2, <1>3

(* The handles: a step that changes none, and after which the buffer has   *)
(* fewer only if they are dropped; one that makes one; one that destroys   *)
(* one.                                                                    *)
LEMMA HandlesSame ==
  ASSUME NEW t \in Threads, NEW b \in Bufs, NEW nj, NEW nb, Framed(t, b, nj, nb),
         HandlesInv, UNCHANGED <<handle, allocOnly>>,
         dropped.handles \subseteq dropped'.handles,
         \A k \in 1 .. 2 : Owns(b, k)' =>
           Owns(b, k) /\ nb.bo[k] = buf[b].bo[k] /\ nb.obj[k] = buf[b].obj[k] /\ nb.node = buf[b].node,
         \A k \in 1 .. 2 : Owns(b, k) =>
           Owns(b, k)' \/ <<buf[b].node, buf[b].bo[k]>> \in dropped'.handles
  PROVE  HandlesInv'
<1> USE DEF HandlesInv
<1>1. Node' = Node
  BY DEF Node
<1>2. \A c \in Bufs : \A k \in 1 .. 2 : Owns(c, k)' =>
        /\ Owns(c, k) /\ buf'[c].bo[k] = buf[c].bo[k]
        /\ buf'[c].obj[k] = buf[c].obj[k] /\ buf'[c].node = buf[c].node
  BY DEF Framed
<1>3. HandlesRight'
  BY <1>1, <1>2 DEF HandlesRight
<1>4. OwnMemory'
  BY <1>2 DEF OwnMemory
<1>5. HandlesKept'
  <2> SUFFICES ASSUME NEW nd \in Nodes, NEW h \in Numbers, handle[nd][h] # None,
                      <<nd, h>> \notin dropped'.handles
               PROVE  \E c \in Bufs : \E k \in 1 .. 2 :
                        Owns(c, k)' /\ buf'[c].node = nd /\ buf'[c].bo[k] = h
    BY DEF HandlesKept
  <2>1. PICK c \in Bufs, k \in 1 .. 2 : Owns(c, k) /\ buf[c].node = nd /\ buf[c].bo[k] = h
    BY DEF HandlesKept
  <2>2. Owns(c, k)'
    BY <2>1 DEF Framed
  <2> QED
    BY <1>2, <2>1, <2>2
<1> QED
  BY <1>3, <1>4, <1>5

LEMMA HandlesGain ==
  ASSUME NEW t \in Threads, NEW b \in Bufs, NEW nj, NEW nb, Framed(t, b, nj, nb),
         HandlesInv, UNCHANGED <<allocOnly, dropped>>,
         NEW k \in 1 .. 2, NEW o \in Objects, NEW h \in Numbers,
         \A nd \in Nodes, g \in Numbers :
           handle'[nd][g] = IF nd = Node /\ g = h THEN o ELSE handle[nd][g],
         handle[Node][h] \in {None, o},
         \A c \in Bufs : \A i \in 1 .. 2 : Owns(c, i) => buf[c].obj[i] # o,
         ~Owns(b, k), nb.node = Node, nb.bo[k] = h, nb.obj[k] = o,
         \A i \in 1 .. 2 \ {k} : nb.bo[i] = buf[b].bo[i] /\ nb.obj[i] = buf[b].obj[i],
         \A i \in 1 .. 2 : Owns(b, i)' <=> Owns(b, i) \/ i = k
  PROVE  HandlesInv'
<1> USE DEF HandlesInv
<1>1. Node' = Node /\ Node \in Nodes
  BY DEF Node, Nodes
<1>2. \A c \in Bufs : \A i \in 1 .. 2 : Owns(c, i)' =>
        \/ c = b /\ i = k
        \/ /\ c # b \/ i # k
           /\ Owns(c, i) /\ buf'[c].bo[i] = buf[c].bo[i]
           /\ buf'[c].obj[i] = buf[c].obj[i] /\ buf'[c].node = buf[c].node
  BY DEF Framed, HandlesRight
<1>3. buf'[b].bo[k] = h /\ buf'[b].obj[k] = o /\ buf'[b].node = Node /\ Owns(b, k)'
  BY DEF Framed
<1>4. None # o
  BY BufAssumption
<1>5. HandlesRight'
  <2> SUFFICES ASSUME NEW c \in Bufs, NEW i \in 1 .. 2, Owns(c, i)'
               PROVE  /\ buf'[c].obj[i] \in Objects /\ buf'[c].bo[i] \in Numbers
                      /\ buf'[c].node = Node
                      /\ handle'[Node][buf'[c].bo[i]] = buf'[c].obj[i]
    BY <1>1 DEF HandlesRight
  <2>1. CASE c = b /\ i = k
    BY <1>1, <1>3, <2>1
  <2>2. CASE ~(c = b /\ i = k)
    <3>1. /\ Owns(c, i) /\ buf'[c].bo[i] = buf[c].bo[i]
          /\ buf'[c].obj[i] = buf[c].obj[i] /\ buf'[c].node = buf[c].node
      BY <1>2, <2>2
    <3>2. /\ buf[c].obj[i] \in Objects /\ buf[c].bo[i] \in Numbers /\ buf[c].node = Node
          /\ handle[Node][buf[c].bo[i]] = buf[c].obj[i] /\ buf[c].obj[i] # o
      BY <3>1 DEF HandlesRight
    <3>3. buf[c].bo[i] # h
      BY <1>4, <3>2, BufAssumption
    <3> QED
      BY <1>1, <3>1, <3>2, <3>3
  <2> QED
    BY <2>1, <2>2
<1>6. OwnMemory'
  BY <1>2, <1>3 DEF OwnMemory
<1>7. HandlesKept'
  <2> SUFFICES ASSUME NEW nd \in Nodes, NEW g \in Numbers, handle'[nd][g] # None,
                      <<nd, g>> \notin dropped.handles
               PROVE  \E c \in Bufs : \E i \in 1 .. 2 :
                        Owns(c, i)' /\ buf'[c].node = nd /\ buf'[c].bo[i] = g
    BY DEF HandlesKept
  <2>1. CASE nd = Node /\ g = h
    BY <1>3, <2>1
  <2>2. CASE ~(nd = Node /\ g = h)
    <3>1. PICK c \in Bufs, i \in 1 .. 2 : Owns(c, i) /\ buf[c].node = nd /\ buf[c].bo[i] = g
      BY <2>2 DEF HandlesKept
    <3>2. Owns(c, i)'
      BY <3>1 DEF Framed
    <3>3. c # b \/ i # k
      BY <3>1
    <3> QED
      BY <1>2, <3>1, <3>2, <3>3
  <2> QED
    BY <2>1, <2>2
<1> QED
  BY <1>5, <1>6, <1>7

LEMMA HandlesLose ==
  ASSUME NEW t \in Threads, NEW b \in Bufs, NEW nj, NEW nb, Framed(t, b, nj, nb),
         HandlesInv, UNCHANGED <<allocOnly, dropped>>, nb = buf[b],
         NEW k \in 1 .. 2, Owns(b, k),
         \A nd \in Nodes, g \in Numbers :
           handle'[nd][g] = IF nd = Node /\ g = buf[b].bo[k] THEN None ELSE handle[nd][g],
         \A i \in 1 .. 2 : Owns(b, i)' <=> Owns(b, i) /\ i # k
  PROVE  HandlesInv'
<1> USE DEF HandlesInv
<1>1. Node' = Node /\ Node \in Nodes
  BY DEF Node, Nodes
<1>2. \A c \in Bufs : buf'[c] = buf[c]
  BY DEF Framed
<1>3. \A c \in Bufs : \A i \in 1 .. 2 : Owns(c, i)' <=> Owns(c, i) /\ ~(c = b /\ i = k)
  BY DEF Framed
<1>4. HandlesRight'
  <2> SUFFICES ASSUME NEW c \in Bufs, NEW i \in 1 .. 2, Owns(c, i), ~(c = b /\ i = k)
               PROVE  handle'[Node][buf[c].bo[i]] = buf[c].obj[i]
    BY <1>1, <1>2, <1>3 DEF HandlesRight
  <2>1. buf[c].bo[i] # buf[b].bo[k]
    BY DEF HandlesRight, OwnMemory
  <2> QED
    BY <1>1, <2>1 DEF HandlesRight
<1>5. OwnMemory'
  BY <1>2, <1>3 DEF OwnMemory
<1>6. HandlesKept'
  <2> SUFFICES ASSUME NEW nd \in Nodes, NEW g \in Numbers, handle'[nd][g] # None,
                      <<nd, g>> \notin dropped.handles
               PROVE  \E c \in Bufs : \E i \in 1 .. 2 :
                        Owns(c, i)' /\ buf'[c].node = nd /\ buf'[c].bo[i] = g
    BY DEF HandlesKept
  <2>1. handle[nd][g] # None /\ ~(nd = Node /\ g = buf[b].bo[k])
    OBVIOUS
  <2>2. PICK c \in Bufs, i \in 1 .. 2 : Owns(c, i) /\ buf[c].node = nd /\ buf[c].bo[i] = g
    BY <2>1 DEF HandlesKept
  <2>3. ~(c = b /\ i = k)
    BY <2>1, <2>2 DEF HandlesRight
  <2> QED
    BY <1>2, <1>3, <2>2, <2>3
<1> QED
  BY <1>4, <1>5, <1>6

(* The descriptors: a step that changes none, after which the buffer has   *)
(* what it had or neither memory nor descriptors ...                       *)
LEMMA FdsSame ==
  ASSUME NEW t \in Threads, NEW b \in Bufs, NEW nj, NEW nb, Framed(t, b, nj, nb),
         FdsInv, UNCHANGED <<fdTab, clientFds>>,
         \A k \in 1 .. 2 : Owns(b, k)' =>
           /\ Owns(b, k) /\ nb.obj[k] = buf[b].obj[k]
           /\ OwnsFd(b, k) => OwnsFd(b, k)',
         \A k \in 1 .. 2 : OwnsFd(b, k)' => OwnsFd(b, k) /\ nb.fd[k] = buf[b].fd[k]
  PROVE  FdsInv'
<1> USE DEF FdsInv
<1>1. \A c \in Bufs : \A k \in 1 .. 2 : OwnsFd(c, k)' => OwnsFd(c, k) /\ buf'[c].fd[k] = buf[c].fd[k]
  BY DEF OwnsFd, Framed
<1>2. \A c \in Bufs : \A k \in 1 .. 2 : Owns(c, k)' =>
        /\ Owns(c, k) /\ buf'[c].obj[k] = buf[c].obj[k]
        /\ OwnsFd(c, k) => OwnsFd(c, k)'
  BY DEF OwnsFd, Framed
<1>3. FdsRight'
  BY <1>1, <1>2 DEF FdsRight
<1>4. FdOfObject'
  BY <1>1, <1>2 DEF FdOfObject
<1> QED
  BY <1>3, <1>4 DEF OneFd, ClientFdsOpen

(* ... one that gives the buffer memory, of which it is known who has the  *)
(* descriptor ...                                                          *)
LEMMA FdsNewObject ==
  ASSUME NEW t \in Threads, NEW b \in Bufs, NEW nj, NEW nb, Framed(t, b, nj, nb),
         FdsInv, UNCHANGED <<fdTab, clientFds>>,
         NEW k \in 1 .. 2, NEW o \in Objects, nb.obj[k] = o, nb.fd = buf[b].fd,
         HasFds(b)' <=> HasFds(b),
         \A i \in 1 .. 2 \ {k} : nb.obj[i] = buf[b].obj[i],
         \A i \in 1 .. 2 : Owns(b, i)' <=> Owns(b, i) \/ i = k,
         OwnsFd(b, k) => fdTab[buf[b].fd[k]] = o,
         \A f \in Fds : fdTab[f] = o => OwnsFd(b, k) /\ f = buf[b].fd[k]
  PROVE  FdsInv'
<1> USE DEF FdsInv
<1>1. \A c \in Bufs : \A i \in 1 .. 2 : (OwnsFd(c, i)' <=> OwnsFd(c, i)) /\ buf'[c].fd[i] = buf[c].fd[i]
  BY DEF OwnsFd, Framed
<1>2. \A c \in Bufs : \A i \in 1 .. 2 : Owns(c, i)' =>
        \/ c = b /\ i = k
        \/ Owns(c, i) /\ buf'[c].obj[i] = buf[c].obj[i]
  BY DEF Framed
<1>3. buf'[b].obj[k] = o
  BY DEF Framed
<1>4. FdsRight'
  <2> SUFFICES ASSUME NEW c \in Bufs, NEW i \in 1 .. 2, OwnsFd(c, i)
               PROVE  /\ buf[c].fd[i] \in Fds \ clientFds
                      /\ fdTab[buf[c].fd[i]] # None
                      /\ Owns(c, i)' => fdTab[buf[c].fd[i]] = buf'[c].obj[i]
                      /\ \A d \in Bufs : \A j \in 1 .. 2 :
                           /\ OwnsFd(d, j) /\ buf[c].fd[i] = buf[d].fd[j] => c = d /\ i = j
                           /\ Owns(d, j)' /\ buf'[d].obj[j] = fdTab[buf[c].fd[i]] => c = d /\ i = j
    BY <1>1 DEF FdsRight
  <2>1. buf[c].fd[i] \in Fds \ clientFds /\ fdTab[buf[c].fd[i]] # None
    BY DEF FdsRight
  <2>2. ASSUME NEW d \in Bufs, NEW j \in 1 .. 2, OwnsFd(d, j), buf[c].fd[i] = buf[d].fd[j]
        PROVE  c = d /\ i = j
    BY <2>2 DEF FdsRight
  <2>3. ASSUME NEW d \in Bufs, NEW j \in 1 .. 2, Owns(d, j)', buf'[d].obj[j] = fdTab[buf[c].fd[i]]
        PROVE  c = d /\ i = j
    <3>1. CASE d = b /\ j = k
      <4>1. OwnsFd(b, k) /\ buf[c].fd[i] = buf[b].fd[k]
        BY <1>3, <2>1, <2>3, <3>1
      <4> QED
        BY <2>2, <3>1, <4>1
    <3>2. CASE ~(d = b /\ j = k)
      BY <1>2, <2>3, <3>2 DEF FdsRight
    <3> QED
      BY <3>1, <3>2
  <2>4. Owns(c, i)' => fdTab[buf[c].fd[i]] = buf'[c].obj[i]
    BY <1>2, <1>3 DEF FdsRight
  <2> QED
    BY <2>1, <2>2, <2>3, <2>4
<1>5. FdOfObject'
  BY <1>1, <1>2, <1>3 DEF FdOfObject
<1> QED
  BY <1>4, <1>5 DEF OneFd, ClientFdsOpen

(* ... one that exports a plane of it ...                                  *)
LEMMA FdsGain ==
  ASSUME NEW t \in Threads, NEW b \in Bufs, NEW nj, NEW nb, Framed(t, b, nj, nb),
         FdsInv, OwnMemory, UNCHANGED clientFds, clientFds \subseteq Fds, None \notin Objects,
         NEW k \in 1 .. 2, NEW o \in Objects, NEW f \in Fds, fdTab[f] = None,
         Owns(b, k), buf[b].obj[k] = o, ~OwnsFd(b, k),
         \A g \in Fds : fdTab'[g] = IF g = f THEN o ELSE fdTab[g],
         HasFds(b) /\ HasFds(b)', nb.fd[k] = f, nb.obj = buf[b].obj,
         \A i \in 1 .. 2 \ {k} : nb.fd[i] = buf[b].fd[i],
         \A i \in 1 .. 2 : Owns(b, i)' <=> Owns(b, i)
  PROVE  FdsInv'
<1> USE DEF FdsInv
<1>1. f # 0
  BY NumbersNat
<1>2. \A c \in Bufs : \A i \in 1 .. 2 : OwnsFd(c, i)' =>
        \/ c = b /\ i = k /\ buf'[c].fd[i] = f
        \/ OwnsFd(c, i) /\ buf'[c].fd[i] = buf[c].fd[i] /\ ~(c = b /\ i = k)
  BY DEF OwnsFd, Framed
<1>3. \A c \in Bufs : \A i \in 1 .. 2 : OwnsFd(c, i) => OwnsFd(c, i)'
  BY DEF OwnsFd, Framed
<1>4. OwnsFd(b, k)' /\ buf'[b].fd[k] = f
  BY <1>1 DEF OwnsFd, Framed
<1>5. \A c \in Bufs : \A i \in 1 .. 2 : (Owns(c, i)' <=> Owns(c, i)) /\ buf'[c].obj[i] = buf[c].obj[i]
  BY DEF Framed
<1>6. \A g \in Fds : fdTab[g] # o
  BY DEF FdOfObject
<1>7. f \notin clientFds
  BY DEF ClientFdsOpen
<1>8. \A c \in Bufs : \A i \in 1 .. 2 : OwnsFd(c, i) => buf[c].fd[i] # f /\ buf[c].fd[i] \in Fds
  BY DEF FdsRight
<1>9. OneFd'
  BY <1>6 DEF OneFd
<1>10. ClientFdsOpen'
  BY <1>7 DEF ClientFdsOpen, FdsRight
<1>11. FdOfObject'
  <2> SUFFICES ASSUME NEW c \in Bufs, NEW i \in 1 .. 2, NEW g \in Fds,
                      Owns(c, i), fdTab'[g] = buf[c].obj[i]
               PROVE  OwnsFd(c, i)' /\ g = buf'[c].fd[i]
    BY <1>5 DEF FdOfObject
  <2>1. CASE g = f
    <3>1. c = b /\ i = k
      BY <2>1 DEF OwnMemory
    <3> QED
      BY <1>4, <2>1, <3>1
  <2>2. CASE g # f
    <3>1. OwnsFd(c, i) /\ g = buf[c].fd[i]
      BY <2>2 DEF FdOfObject
    <3> QED
      BY <1>2, <1>3, <3>1
  <2> QED
    BY <2>1, <2>2
<1>12. FdsRight'
  <2> SUFFICES ASSUME NEW c \in Bufs, NEW i \in 1 .. 2, OwnsFd(c, i)'
               PROVE  /\ buf'[c].fd[i] \in Fds \ clientFds
                      /\ fdTab'[buf'[c].fd[i]] # None
                      /\ Owns(c, i) => fdTab'[buf'[c].fd[i]] = buf[c].obj[i]
                      /\ \A d \in Bufs : \A j \in 1 .. 2 :
                           /\ OwnsFd(d, j)' /\ buf'[c].fd[i] = buf'[d].fd[j] => c = d /\ i = j
                           /\ Owns(d, j) /\ buf[d].obj[j] = fdTab'[buf'[c].fd[i]] => c = d /\ i = j
    BY <1>5 DEF FdsRight
  <2>1. CASE c = b /\ i = k
    <3>1. buf'[c].fd[i] = f /\ fdTab'[f] = o
      BY <1>4, <2>1
    <3>2. \A d \in Bufs : \A j \in 1 .. 2 : Owns(d, j) /\ buf[d].obj[j] = o => d = b /\ j = k
      BY DEF OwnMemory
    <3> QED
      BY <1>2, <1>7, <1>8, <2>1, <3>1, <3>2
  <2>2. CASE ~(c = b /\ i = k)
    <3>1. /\ OwnsFd(c, i) /\ buf'[c].fd[i] = buf[c].fd[i]
          /\ buf[c].fd[i] # f /\ buf[c].fd[i] \in Fds
      BY <1>2, <1>8, <2>2
    <3>2. fdTab'[buf[c].fd[i]] = fdTab[buf[c].fd[i]]
      BY <3>1
    <3> QED
      BY <1>2, <3>1, <3>2 DEF FdsRight
  <2> QED
    BY <2>1, <2>2
<1> QED
  BY <1>9, <1>10, <1>11, <1>12

(* ... and one that closes those of the buffer.                            *)
LEMMA FdsLose ==
  ASSUME NEW t \in Threads, NEW b \in Bufs, NEW nj, NEW nb, Framed(t, b, nj, nb),
         FdsInv, UNCHANGED clientFds, clientFds \subseteq Fds, None \notin Objects,
         \A c \in Bufs : \A i \in 1 .. 2 : Owns(c, i) => buf[c].obj[i] \in Objects,
         nb = buf[b], buf[b].fd \in [1 .. 2 -> Fds \cup {0}], HasFds(b) /\ ~HasFds(b)',
         \A f \in Fds : fdTab'[f] = IF f \in Range(buf[b].fd) THEN None ELSE fdTab[f],
         \A i \in 1 .. 2 : Owns(b, i)' <=> Owns(b, i)
  PROVE  FdsInv'
<1> USE DEF FdsInv
<1>1. \A c \in Bufs : buf'[c] = buf[c]
  BY DEF Framed
<1>2. \A c \in Bufs : \A i \in 1 .. 2 : OwnsFd(c, i)' <=> OwnsFd(c, i) /\ c # b
  BY <1>1 DEF OwnsFd, Framed
<1>3. \A c \in Bufs : \A i \in 1 .. 2 : Owns(c, i)' <=> Owns(c, i)
  BY DEF Framed
<1>4. \A f \in Fds : f \in Range(buf[b].fd) <=> \E i \in 1 .. 2 : OwnsFd(b, i) /\ buf[b].fd[i] = f
  BY NumbersNat DEF Range, OwnsFd
<1>5. OneFd'
  BY DEF OneFd
<1>6. ClientFdsOpen'
  BY <1>4 DEF ClientFdsOpen, FdsRight
<1>7. FdOfObject'
  <2> SUFFICES ASSUME NEW c \in Bufs, NEW i \in 1 .. 2, NEW f \in Fds,
                      Owns(c, i), fdTab'[f] = buf[c].obj[i]
               PROVE  c # b /\ OwnsFd(c, i) /\ f = buf[c].fd[i]
    BY <1>1, <1>2, <1>3 DEF FdOfObject
  <2>1. f \notin Range(buf[b].fd) /\ fdTab[f] = buf[c].obj[i]
    OBVIOUS
  <2>2. OwnsFd(c, i) /\ f = buf[c].fd[i]
    BY <2>1 DEF FdOfObject
  <2> QED
    BY <1>4, <2>1, <2>2
<1>8. FdsRight'
  <2> SUFFICES ASSUME NEW c \in Bufs, NEW i \in 1 .. 2, OwnsFd(c, i), c # b
               PROVE  fdTab'[buf[c].fd[i]] = fdTab[buf[c].fd[i]]
    BY <1>1, <1>2, <1>3 DEF FdsRight
  <2>1. buf[c].fd[i] \in Fds /\ buf[c].fd[i] \notin Range(buf[b].fd)
    BY <1>4 DEF FdsRight
  <2> QED
    BY <2>1
<1> QED
  BY <1>5, <1>6, <1>7, <1>8

LEMMA FbsSame ==
  ASSUME NEW t \in Threads, NEW b \in Bufs, NEW nj, NEW nb, Framed(t, b, nj, nb),
         FbsRight, UNCHANGED fbTab,
         HasFb(b)' /\ nb.fb # 0 =>
           HasFb(b) /\ nb.fb = buf[b].fb /\ nb.obj = buf[b].obj /\ nb.nbo = buf[b].nbo
  PROVE  FbsRight'
<1> SUFFICES ASSUME NEW c \in Bufs, HasFb(c)', buf'[c].fb # 0
             PROVE  /\ fbTab[buf'[c].fb] = {buf'[c].obj[k] : k \in 1 .. buf'[c].nbo}
                    /\ 1 .. buf'[c].nbo # {}
  BY DEF FbsRight, PlanesOf
<1>1. /\ HasFb(c) /\ buf'[c].fb = buf[c].fb
      /\ buf'[c].obj = buf[c].obj /\ buf'[c].nbo = buf[c].nbo
  BY DEF Framed
<1> QED
  BY <1>1 DEF FbsRight, PlanesOf

LEMMA FlagSame ==
  ASSUME NEW t \in Threads, NEW b \in Bufs, NEW nj, NEW nb, Framed(t, b, nj, nb),
         FlagRight, UNCHANGED allocOnly,
         nb.st # "lost", nb.st # "free" /\ nb.imported => ~allocOnly, nj.at = "addfb" => ~allocOnly,
         nj.at \in {"destroy", "rmfb"} => nj.node = Node
  PROVE  FlagRight'
<1>1. Node' = Node
  BY DEF Node
<1>2. \A c \in Bufs : buf'[c].st # "lost" /\ (buf'[c].st # "free" /\ buf'[c].imported => ~allocOnly)
  BY DEF FlagRight, Framed
<1>3. \A u \in Threads : /\ job'[u].at = "addfb" => ~allocOnly
                         /\ job'[u].at = "destroy" \/ job'[u].at = "rmfb" => job'[u].node = Node
  BY DEF FlagRight, Framed, At
<1> QED
  BY <1>1, <1>2, <1>3 DEF FlagRight, At

(* What is known of a thread inside a call.                                *)
LEMMA InCall ==
  ASSUME IInv, NEW t \in Threads, ~At(t, "idle")
  PROVE  \E b \in Bufs : /\ job[t].b = b /\ job[t] \in Job /\ buf[b] \in Buf
                         /\ StageOK(job[t], buf[b])
                         /\ \A u \in Threads \ {t} : job[u].b # b
BY DEF IInv, Typed, Stages

LEMMA FlagNode == Node \in Nodes
BY DEF Node, Nodes

-----------------------------------------------------------------------------
(* The steps that make a buffer.                                           *)
LEMMA CreateBoStep ==
  ASSUME IInv, NEW t \in Threads, CreateBo(t)
  PROVE  IInv' /\ (CInv => CInv')
<1> USE DEF IInv
<1>1. job[t].at = "create"
  BY DEF CreateBo, At
<1>2. PICK b \in Bufs : /\ job[t].b = b /\ job[t] \in Job /\ buf[b] \in Buf
                        /\ StageOK(job[t], buf[b])
                        /\ \A u \in Threads \ {t} : job[u].b # b
  BY <1>1, InCall DEF At
<1>3. PICK k \in 1 .. 2 : job[t].k = k /\ k <= buf[b].nbo
  BY <1>1, <1>2 DEF StageOK, Buf
<1>4. PICK o \in Unused \ Foreign, h \in Numbers :
        /\ handle[Node][h] = None
        /\ handle' = [handle EXCEPT ![Node][h] = o]
        /\ buf' = [buf EXCEPT ![b].bo[k] = h, ![b].obj[k] = o, ![b].node = Node]
  BY <1>2, <1>3, FreeHandle, FlagNode DEF CreateBo
<1>5. UNCHANGED <<fdTab, fbTab, allocOnly, clientFds, dropped>>
  BY DEF CreateBo
<1> DEFINE nb == [buf[b] EXCEPT !.bo[k] = h, !.obj[k] = o, !.node = Node]
           nj == [job[t] EXCEPT !.at = "export"]
<1>6. /\ nb \in Buf /\ nb.st = buf[b].st /\ nb.nbo = buf[b].nbo /\ nb.node = Node
      /\ nb.fd = buf[b].fd /\ nb.fb = buf[b].fb /\ nb.imported = buf[b].imported
      /\ \A i \in 1 .. 2 : /\ nb.bo[i] = IF i = k THEN h ELSE buf[b].bo[i]
                           /\ nb.obj[i] = IF i = k THEN o ELSE buf[b].obj[i]
  BY <1>2, FlagNode DEF Buf, Unused
<1>7. nj \in Job /\ nj.at = "export" /\ nj.b = b /\ nj.k = k
  BY <1>2, <1>3 DEF Job
<1>8. buf' = [buf EXCEPT ![b] = nb] /\ job' = [job EXCEPT ![t] = nj]
  BY <1>2, <1>3, <1>4 DEF Buf, Typed, CreateBo, Goto
<1> HIDE DEF nb, nj
<1>9. StageOK(nj, nb)
  <2>1. \A i \in 1 .. nb.nbo : Keeps(nj, i) => nb.bo[i] \in Numbers
    BY <1>1, <1>2, <1>3, <1>6, <1>7 DEF StageOK, Keeps, Buf
  <2> QED
    BY <1>1, <1>2, <1>3, <1>6, <1>7, <2>1 DEF StageOK, Building, Freeing
<1>10. buf[b].st = "building"
  BY <1>1, <1>2 DEF StageOK, Building
<1>11. /\ buf' \in [Bufs -> Buf] /\ job' \in [Threads -> Job]
       /\ Stages' /\ LiveOK'
       /\ Framed(t, b, nj, nb)
  <2>1. CallStep(t, b, nj, nb)
    BY <1>2, <1>6, <1>7, <1>8, <1>9, <1>10 DEF CallStep
  <2> QED
    BY <2>1, CallFrame
<1>12. /\ HasFds(b) /\ HasFds(b)' /\ ~HasFb(b) /\ ~HasFb(b)'
       /\ \A i \in 1 .. 2 : /\ Owns(b, i) <=> i < k
                            /\ Owns(b, i)' <=> Owns(b, i) \/ i = k
  BY <1>1, <1>2, <1>3, <1>6, <1>7, <1>10, <1>11 DEF Framed, Keeps, KeepsFds, KeepsFb, Buf
<1>13. \A nd \in Nodes, g \in Numbers :
         handle'[nd][g] = IF nd = Node /\ g = h THEN o ELSE handle[nd][g]
  BY <1>4, FlagNode DEF Typed
<1>14. /\ o \in Objects /\ None \notin Objects
       /\ \A nd \in Nodes, g \in Numbers : handle[nd][g] # o
       /\ \A f \in Fds : fdTab[f] # o
  BY BufAssumption DEF Typed, Unused, InUse, Range
<1>15. IInv'
  <2>1. handle' \in [Nodes -> [Numbers -> Objects \cup {None}]]
    BY <1>4, <1>14, FlagNode DEF Typed
  <2>2. Typed'
    BY <1>5, <1>11, <2>1 DEF Typed
  <2>3. OneHandle'
    BY <1>13, <1>14 DEF OneHandle
  <2>4. FdsKept' /\ FbsKept'
    BY <1>5, <1>6, <1>11, <1>12 DEF FdsKept, FbsKept, Framed
  <2> QED
    BY <1>11, <2>2, <2>3, <2>4
<1>16. ASSUME CInv PROVE CInv'
  <2>1. \A c \in Bufs : \A i \in 1 .. 2 : Owns(c, i) => buf[c].obj[i] # o
    BY <1>14, <1>16, FlagNode DEF CInv, HandlesInv, HandlesRight
  <2>2. HandlesInv'
    BY <1>4, <1>5, <1>6, <1>11, <1>12, <1>13, <1>14, <1>16, <2>1, HandlesGain DEF CInv
  <2>3. ~OwnsFd(b, k)
    BY <1>1, <1>2, <1>3 DEF StageOK, OwnsFd
  <2>4. FdsInv'
    BY <1>5, <1>6, <1>11, <1>12, <1>14, <1>16, <2>3, FdsNewObject DEF CInv
  <2>5. FbsRight'
    BY <1>5, <1>11, <1>12, <1>16, FbsSame DEF CInv
  <2>6. FlagRight'
    BY <1>5, <1>6, <1>7, <1>10, <1>11, <1>16, FlagSame DEF CInv, FlagRight
  <2> QED
    BY <2>2, <2>4, <2>5, <2>6 DEF CInv
<1> QED
  BY <1>15, <1>16

(* A struct that is freed and a thread that returns.                       *)
LEMMA Ended ==
  /\ NoBuf \in Buf /\ NoBuf.st = "free" /\ NoBuf.nbo = 0 /\ NoBuf.fb = 0 /\ ~NoBuf.imported
  /\ NoBuf.node = "primary"
  /\ \A i \in 1 .. 2 : NoBuf.fd[i] = 0 /\ NoBuf.bo[i] = 0 /\ NoBuf.obj[i] = None
  /\ Idle \in Job /\ Idle.at = "idle" /\ Idle.b = None
BY DEF NoBuf, Buf, Idle, Job, Nodes

LEMMA DropEffect ==
  ASSUME Typed, NEW t \in Threads, NEW b \in Bufs, job[t].b = b,
         job[t].k # 1 => buf[b].bo[1] \in Numbers,
         NEW fds \in SUBSET (Fds \cup {0}), Drop(t, fds)
  PROVE  /\ dropped' \in [handles : SUBSET (Nodes \X Numbers), fds : SUBSET Fds]
         /\ dropped.handles \subseteq dropped'.handles /\ dropped.fds \subseteq dropped'.fds
         /\ job[t].k # 1 => /\ <<buf[b].node, buf[b].bo[1]>> \in dropped'.handles
                            /\ fds \ {0} \subseteq dropped'.fds
<1>1. buf[b].node \in Nodes
  BY DEF Typed, Buf
<1>2. CASE job[t].k = 1
  BY <1>2 DEF Drop, Typed
<1>3. CASE job[t].k # 1
  <2>1. dropped' = [handles |-> dropped.handles \cup {<<buf[b].node, buf[b].bo[1]>>},
                    fds     |-> dropped.fds \cup (fds \ {0})]
    BY <1>3 DEF Drop
  <2>2. dropped.handles \subseteq Nodes \X Numbers /\ dropped.fds \subseteq Fds
    BY DEF Typed
  <2>3. <<buf[b].node, buf[b].bo[1]>> \in Nodes \X Numbers
    BY <1>1, <1>3
  <2>4. dropped'.handles = dropped.handles \cup {<<buf[b].node, buf[b].bo[1]>>}
        /\ dropped'.fds = dropped.fds \cup (fds \ {0})
    BY <2>1
  <2>5. dropped' \in [handles : SUBSET (Nodes \X Numbers), fds : SUBSET Fds]
    BY <2>1, <2>2, <2>3
  <2> QED
    BY <2>4, <2>5
<1> QED
  BY <1>2, <1>3

LEMMA CreateBoFailsStep ==
  ASSUME IInv, NEW t \in Threads, CreateBoFails(t)
  PROVE  IInv' /\ (CInv => CInv')
<1> USE DEF IInv
<1>1. job[t].at = "create"
  BY DEF CreateBoFails, At
<1>2. PICK b \in Bufs : /\ job[t].b = b /\ job[t] \in Job /\ buf[b] \in Buf
                        /\ StageOK(job[t], buf[b])
                        /\ \A u \in Threads \ {t} : job[u].b # b
  BY <1>1, InCall DEF At
<1>3. PICK k \in 1 .. 2 : job[t].k = k /\ k <= buf[b].nbo
  BY <1>1, <1>2 DEF StageOK, Buf
<1>4. /\ k # 1 => buf[b].bo[1] \in Numbers
      /\ \A i \in 1 .. 2 : i >= k => buf[b].fd[i] = 0
      /\ buf[b].st = "building"
  BY <1>1, <1>2, <1>3 DEF StageOK, Keeps, Building, Buf
<1>5. /\ buf' = [buf EXCEPT ![b] = NoBuf] /\ job' = [job EXCEPT ![t] = Idle]
      /\ Drop(t, {buf[b].fd[1]})
      /\ UNCHANGED <<kernel, allocOnly, clientFds>>
  BY <1>2 DEF CreateBoFails, Return
<1>6. /\ buf' \in [Bufs -> Buf] /\ job' \in [Threads -> Job]
      /\ Stages' /\ LiveOK'
      /\ Framed(t, b, Idle, NoBuf)
  <2>1. CallStep(t, b, Idle, NoBuf)
    BY <1>2, <1>5, Ended DEF CallStep
  <2> QED
    BY <2>1, CallFrame
<1>7. /\ dropped' \in [handles : SUBSET (Nodes \X Numbers), fds : SUBSET Fds]
      /\ dropped.handles \subseteq dropped'.handles /\ dropped.fds \subseteq dropped'.fds
      /\ k # 1 => /\ <<buf[b].node, buf[b].bo[1]>> \in dropped'.handles
                  /\ {buf[b].fd[1]} \ {0} \subseteq dropped'.fds
  <2>1. {buf[b].fd[1]} \in SUBSET (Fds \cup {0})
    BY <1>2 DEF Buf
  <2> QED
    BY <1>2, <1>3, <1>4, <1>5, <2>1, DropEffect
<1>8. /\ HasFds(b) /\ ~HasFds(b)' /\ ~HasFb(b) /\ ~HasFb(b)'
      /\ \A i \in 1 .. 2 : (Owns(b, i) <=> i < k) /\ ~Owns(b, i)'
  BY <1>1, <1>2, <1>3, <1>4, <1>6, Ended DEF Framed, Keeps, KeepsFds, KeepsFb, Buf
<1>9. IInv'
  <2>1. Typed'
    BY <1>5, <1>6, <1>7 DEF Typed, kernel
  <2>2. \A f \in Range(buf[b].fd) \cap Fds : f \in dropped'.fds
    <3>1. \A i \in 1 .. 2 : buf[b].fd[i] \in Fds => i = 1 /\ k # 1
      BY <1>3, <1>4, NumbersNat
    <3> QED
      BY <1>2, <1>7, <3>1, NumbersNat DEF Range, Buf
  <2>3. OneHandle' /\ FdsKept' /\ FbsKept'
    BY <1>5, <1>6, <1>7, <1>8, <2>2, KeptSame
  <2> QED
    BY <1>6, <2>1, <2>3
<1>10. ASSUME CInv PROVE CInv'
  <2>1. HandlesInv'
    <3>1. UNCHANGED <<handle, allocOnly>>
      BY <1>5 DEF kernel
    <3>2. \A i \in 1 .. 2 : Owns(b, i) => <<buf[b].node, buf[b].bo[i]>> \in dropped'.handles
      BY <1>3, <1>7, <1>8
    <3> QED
      BY <1>6, <1>7, <1>8, <1>10, <3>1, <3>2, HandlesSame DEF CInv
  <2>2. FdsInv'
    BY <1>5, <1>6, <1>8, <1>10, FdsSame DEF CInv, kernel, OwnsFd
  <2>3. FbsRight'
    BY <1>5, <1>6, <1>8, <1>10, FbsSame DEF CInv, kernel
  <2>4. FlagRight'
    BY <1>5, <1>6, <1>10, FlagSame, Ended DEF CInv
  <2> QED
    BY <2>1, <2>2, <2>3, <2>4 DEF CInv
<1> QED
  BY <1>9, <1>10

(* What follows the last plane, or the next plane.                         *)
LEMMA AfterPlaneEffect ==
  ASSUME IInv, NEW t \in Threads, NEW b \in Bufs, NEW k \in 1 .. 2,
         job[t].at = "export", job[t].b = b, job[t].k = k, buf[b] \in Buf, k <= buf[b].nbo,
         AfterPlane(t)
  PROVE  \E nj \in Job :
           /\ job' = [job EXCEPT ![t] = nj]
           /\ nj.b = b /\ nj.k = k + 1
           /\ nj.at = IF k < buf[b].nbo THEN "create" ELSE AfterBos
<1> DEFINE at == IF k < buf[b].nbo THEN "create" ELSE AfterBos
           nj == [job[t] EXCEPT !.at = at, !.k = k + 1]
<1>1. job[t] \in Job /\ at \in {"create", "done", "addfb"}
  BY DEF IInv, Typed, AfterBos
<1>3. job' = [job EXCEPT ![t] = nj]
  BY DEF AfterPlane, IInv, Typed
<1> HIDE DEF at
<1>2. nj \in Job /\ nj.b = b /\ nj.k = k + 1 /\ nj.at = at
  <2>1. k + 1 \in 0 .. 3
    OBVIOUS
  <2> HIDE DEF IInv
  <2>2. nj.b = b /\ nj.k = k + 1 /\ nj.at = at
    BY <1>1 DEF Job
  <2> QED
    BY <1>1, <2>1, <2>2 DEF Job
<1> HIDE DEF nj
<1> QED
  BY <1>2, <1>3 DEF at

LEMMA ExportBoStep ==
  ASSUME IInv, NEW t \in Threads, ExportBo(t)
  PROVE  IInv' /\ (CInv => CInv')
<1> USE DEF IInv
<1>1. job[t].at = "export"
  BY DEF ExportBo, At
<1>2. PICK b \in Bufs : /\ job[t].b = b /\ job[t] \in Job /\ buf[b] \in Buf
                        /\ StageOK(job[t], buf[b])
                        /\ \A u \in Threads \ {t} : job[u].b # b
  BY <1>1, InCall DEF At
<1>3. PICK k \in 1 .. 2 : job[t].k = k /\ k <= buf[b].nbo
  BY <1>1, <1>2 DEF StageOK, Buf
<1>4. /\ \A i \in 1 .. buf[b].nbo : i <= k => buf[b].bo[i] \in Numbers
      /\ \A i \in 1 .. 2 : i >= k => buf[b].fd[i] = 0
      /\ buf[b].st = "building" /\ buf[b].fb = 0
  BY <1>1, <1>2, <1>3 DEF StageOK, Keeps, Building, Buf
<1>5. PICK o \in Objects : o = handle[Node][buf[b].bo[k]]
  BY <1>2, <1>3, <1>4, FlagNode DEF ExportBo, Typed
<1>6. PICK f \in Fds :
        /\ fdTab[f] = None
        /\ fdTab' = [fdTab EXCEPT ![f] = o]
        /\ buf' = [buf EXCEPT ![b].fd[k] = f]
  BY <1>2, <1>3, <1>5, FreeFd DEF ExportBo
<1>7. PICK nj \in Job : /\ job' = [job EXCEPT ![t] = nj]
                        /\ nj.b = b /\ nj.k = k + 1
                        /\ nj.at = IF k < buf[b].nbo THEN "create" ELSE AfterBos
  BY <1>1, <1>2, <1>3, AfterPlaneEffect DEF ExportBo
<1>8. UNCHANGED <<handle, fbTab, allocOnly, clientFds, dropped>>
  BY DEF ExportBo
<1> DEFINE nb == [buf[b] EXCEPT !.fd[k] = f]
<1>9. /\ nb \in Buf /\ nb.st = buf[b].st /\ nb.nbo = buf[b].nbo /\ nb.node = buf[b].node
      /\ nb.bo = buf[b].bo /\ nb.obj = buf[b].obj /\ nb.fb = 0 /\ nb.imported = buf[b].imported
      /\ \A i \in 1 .. 2 : nb.fd[i] = IF i = k THEN f ELSE buf[b].fd[i]
  BY <1>2, <1>4 DEF Buf
<1>10. buf' = [buf EXCEPT ![b] = nb]
  BY <1>2, <1>6 DEF Buf, Typed
<1> HIDE DEF nb
<1>11. /\ nj.at \in {"create", "addfb", "done"}
       /\ nj.at = "create" => k < buf[b].nbo
       /\ nj.at # "create" => k = buf[b].nbo
       /\ nj.at = "addfb" => ~allocOnly
  BY <1>2, <1>3, <1>7 DEF AfterBos, Buf
<1>12. StageOK(nj, nb)
  <2>1. \A i \in 1 .. nb.nbo : Keeps(nj, i) => nb.bo[i] \in Numbers
    BY <1>2, <1>3, <1>4, <1>7, <1>9, <1>11 DEF Keeps, Buf
  <2>2. nj.at = "create" => nj.k \in 1 .. nb.nbo /\ \A i \in 1 .. 2 : i >= nj.k => nb.fd[i] = 0
    BY <1>2, <1>3, <1>4, <1>7, <1>9, <1>11 DEF Buf
  <2> QED
    BY <1>4, <1>7, <1>9, <1>11, <2>1, <2>2 DEF StageOK, Building, Freeing
<1>13. /\ buf' \in [Bufs -> Buf] /\ job' \in [Threads -> Job]
       /\ Stages' /\ LiveOK'
       /\ Framed(t, b, nj, nb)
  <2>1. CallStep(t, b, nj, nb)
    BY <1>2, <1>4, <1>7, <1>9, <1>10, <1>11, <1>12 DEF CallStep
  <2> QED
    BY <2>1, CallFrame
<1>14. /\ HasFds(b) /\ HasFds(b)' /\ ~HasFb(b)
       /\ \A i \in 1 .. 2 : /\ Owns(b, i) <=> i <= k
                            /\ Owns(b, i)' <=> Owns(b, i)
  BY <1>1, <1>2, <1>3, <1>4, <1>7, <1>9, <1>11, <1>13 DEF Framed, Keeps, KeepsFds, KeepsFb, Buf
<1>15. \A g \in Fds : fdTab'[g] = IF g = f THEN o ELSE fdTab[g]
  BY <1>6 DEF Typed
<1>16. IInv'
  <2>1. Typed'
    BY <1>6, <1>8, <1>13 DEF Typed
  <2>2. OneHandle' /\ FbsKept'
    BY <1>8, <1>13, <1>14 DEF OneHandle, FbsKept, Framed
  <2>3. f \in Range(nb.fd) /\ \A g \in Fds : g \in Range(buf[b].fd) => g \in Range(nb.fd)
    BY <1>2, <1>3, <1>4, <1>9, NumbersNat DEF Range, Buf
  <2>4. FdsKept'
    <3> SUFFICES ASSUME NEW g \in Fds \ clientFds, fdTab'[g] # None, g \notin dropped.fds
                 PROVE  \E c \in Bufs : HasFds(c)' /\ g \in Range(buf'[c].fd)
      BY <1>8 DEF FdsKept
    <3>1. CASE g = f
      BY <1>13, <1>14, <2>3, <3>1 DEF Framed
    <3>2. CASE g # f
      <4>1. PICK c \in Bufs : HasFds(c) /\ g \in Range(buf[c].fd)
        BY <1>15, <3>2 DEF FdsKept
      <4> QED
        BY <1>13, <1>14, <2>3, <4>1 DEF Framed
    <3> QED
      BY <3>1, <3>2
  <2> QED
    BY <1>13, <2>1, <2>2, <2>4
<1>17. ASSUME CInv PROVE CInv'
  <2>1. HandlesInv'
    BY <1>8, <1>9, <1>13, <1>14, <1>17, HandlesSame DEF CInv
  <2>2. Owns(b, k) /\ buf[b].obj[k] = o /\ ~OwnsFd(b, k)
    <3>1. Owns(b, k)
      BY <1>14
    <3> QED
      BY <1>4, <1>5, <1>17, <3>1 DEF CInv, HandlesInv, HandlesRight, OwnsFd
  <2>3. FdsInv'
    <3>1. clientFds \subseteq Fds /\ None \notin Objects /\ OwnMemory
      BY <1>17, BufAssumption DEF Typed, CInv, HandlesInv
    <3> QED
      BY <1>6, <1>8, <1>9, <1>13, <1>14, <1>15, <1>17, <2>2, <3>1, FdsGain DEF CInv
  <2>4. FbsRight'
    BY <1>8, <1>9, <1>13, <1>17, FbsSame DEF CInv
  <2>5. FlagRight'
    BY <1>4, <1>8, <1>9, <1>11, <1>13, <1>17, FlagSame DEF CInv, FlagRight
  <2> QED
    BY <2>1, <2>3, <2>4, <2>5 DEF CInv
<1> QED
  BY <1>16, <1>17

LEMMA ExportBoFailsStep ==
  ASSUME IInv, NEW t \in Threads, ExportBoFails(t)
  PROVE  IInv' /\ (CInv => CInv')
<1> USE DEF IInv
<1>1. job[t].at = "export"
  BY DEF ExportBoFails, At
<1>2. PICK b \in Bufs : /\ job[t].b = b /\ job[t] \in Job /\ buf[b] \in Buf
                        /\ StageOK(job[t], buf[b])
                        /\ \A u \in Threads \ {t} : job[u].b # b
  BY <1>1, InCall DEF At
<1>3. PICK k \in 1 .. 2 : job[t].k = k /\ k <= buf[b].nbo
  BY <1>1, <1>2 DEF StageOK, Buf
<1>4. /\ \A i \in 1 .. buf[b].nbo : i <= k => buf[b].bo[i] \in Numbers
      /\ \A i \in 1 .. 2 : i >= k => buf[b].fd[i] = 0
      /\ buf[b].st = "building" /\ buf[b].fb = 0
  BY <1>1, <1>2, <1>3 DEF StageOK, Keeps, Building, Buf
<1>5. PICK nj \in Job : /\ job' = [job EXCEPT ![t] = nj]
                        /\ nj.b = b /\ nj.k = k + 1
                        /\ nj.at = IF k < buf[b].nbo THEN "create" ELSE AfterBos
  BY <1>1, <1>2, <1>3, AfterPlaneEffect DEF ExportBoFails
<1>6. UNCHANGED <<kernel, allocOnly, clientFds, buf, dropped>>
  BY DEF ExportBoFails
<1>7. /\ nj.at \in {"create", "addfb", "done"}
      /\ nj.at = "create" => k < buf[b].nbo
      /\ nj.at # "create" => k = buf[b].nbo
      /\ nj.at = "addfb" => ~allocOnly
  BY <1>2, <1>3, <1>5 DEF AfterBos, Buf
<1>8. StageOK(nj, buf[b])
  <2>1. \A i \in 1 .. buf[b].nbo : Keeps(nj, i) => buf[b].bo[i] \in Numbers
    BY <1>2, <1>3, <1>4, <1>5, <1>7 DEF Keeps, Buf
  <2>2. nj.at = "create" => nj.k \in 1 .. buf[b].nbo /\ \A i \in 1 .. 2 : i >= nj.k => buf[b].fd[i] = 0
    BY <1>2, <1>3, <1>4, <1>5, <1>7 DEF Buf
  <2> QED
    BY <1>4, <1>5, <1>7, <2>1, <2>2 DEF StageOK, Building, Freeing
<1>9. /\ buf' \in [Bufs -> Buf] /\ job' \in [Threads -> Job]
      /\ Stages' /\ LiveOK'
      /\ Framed(t, b, nj, buf[b])
  <2>1. buf' = [buf EXCEPT ![b] = buf[b]]
    BY <1>6 DEF Typed
  <2>2. CallStep(t, b, nj, buf[b])
    BY <1>2, <1>4, <1>5, <1>7, <1>8, <2>1 DEF CallStep
  <2> QED
    BY <2>2, CallFrame
<1>10. /\ HasFds(b) /\ HasFds(b)' /\ ~HasFb(b)
       /\ \A i \in 1 .. 2 : Owns(b, i)' <=> Owns(b, i)
  BY <1>1, <1>2, <1>3, <1>4, <1>5, <1>7, <1>9 DEF Framed, Keeps, KeepsFds, KeepsFb, Buf
<1>11. IInv'
  <2>1. Typed'
    BY <1>6, <1>9 DEF Typed, kernel
  <2>2. OneHandle' /\ FdsKept' /\ FbsKept'
    BY <1>6, <1>9, <1>10, KeptSame
  <2> QED
    BY <1>9, <2>1, <2>2
<1>12. ASSUME CInv PROVE CInv'
  <2>1. HandlesInv'
    BY <1>6, <1>9, <1>10, <1>12, HandlesSame DEF CInv, kernel
  <2>2. FdsInv'
    BY <1>6, <1>9, <1>10, <1>12, FdsSame DEF CInv, kernel, OwnsFd
  <2>3. FbsRight'
    BY <1>4, <1>6, <1>9, <1>12, FbsSame DEF CInv, kernel
  <2>4. FlagRight'
    BY <1>4, <1>6, <1>7, <1>9, <1>12, FlagSame DEF CInv, FlagRight
  <2> QED
    BY <2>1, <2>2, <2>3, <2>4 DEF CInv
<1> QED
  BY <1>11, <1>12

LEMMA AddFbStep ==
  ASSUME IInv, NEW t \in Threads, AddFb(t)
  PROVE  IInv' /\ (CInv => CInv')
<1> USE DEF IInv
<1>1. job[t].at = "addfb"
  BY DEF AddFb, At
<1>2. PICK b \in Bufs : /\ job[t].b = b /\ job[t] \in Job /\ buf[b] \in Buf
                        /\ StageOK(job[t], buf[b])
                        /\ \A u \in Threads \ {t} : job[u].b # b
  BY <1>1, InCall DEF At
<1>3. /\ \A i \in 1 .. buf[b].nbo : buf[b].bo[i] \in Numbers
      /\ buf[b].st = "building" /\ buf[b].fb = 0
  BY <1>1, <1>2 DEF StageOK, Keeps, Building
<1> DEFINE held == {handle["primary"][buf[b].bo[k]] : k \in 1 .. buf[b].nbo}
<1>4. held # {} /\ None \notin held
  BY <1>2 DEF AddFb
<1>5. PICK n \in Numbers :
        /\ fbTab[n] = {}
        /\ fbTab' = [fbTab EXCEPT ![n] = held]
        /\ buf' = [buf EXCEPT ![b].fb = n]
  <2>1. LET n == Lowest(FreeIn(fbTab, {}))
        IN  fbTab' = [fbTab EXCEPT ![n] = held] /\ buf' = [buf EXCEPT ![b].fb = n]
    BY ONLY <1>2, AddFb(t) DEF AddFb
  <2>2. FreeIn(fbTab, {}) # {}
    BY DEF AddFb
  <2> QED
    BY <2>1, <2>2, FreeFb
<1>6. UNCHANGED <<handle, fdTab, allocOnly, clientFds, dropped>>
  BY DEF AddFb
<1>7. held \subseteq Objects
  BY <1>3, <1>4 DEF Typed, Nodes
<1> HIDE DEF held
<1> DEFINE nb == [buf[b] EXCEPT !.fb = n]
           nj == [job[t] EXCEPT !.at = "done"]
<1>8. /\ nb \in Buf /\ nb.st = buf[b].st /\ nb.nbo = buf[b].nbo /\ nb.node = buf[b].node
      /\ nb.bo = buf[b].bo /\ nb.obj = buf[b].obj /\ nb.fd = buf[b].fd /\ nb.fb = n
      /\ nb.imported = buf[b].imported
  BY <1>2 DEF Buf
<1>9. nj \in Job /\ nj.at = "done" /\ nj.b = b
  BY <1>2 DEF Job
<1>10. buf' = [buf EXCEPT ![b] = nb] /\ job' = [job EXCEPT ![t] = nj]
  BY <1>5 DEF Buf, Typed, AddFb, Goto
<1> HIDE DEF nb, nj
<1>11. /\ buf' \in [Bufs -> Buf] /\ job' \in [Threads -> Job]
       /\ Stages' /\ LiveOK'
       /\ Framed(t, b, nj, nb)
  <2>1. StageOK(nj, nb)
    BY <1>3, <1>8, <1>9 DEF StageOK, Keeps, Building, Freeing
  <2>2. CallStep(t, b, nj, nb)
    BY <1>2, <1>3, <1>8, <1>9, <1>10, <2>1 DEF CallStep
  <2> QED
    BY <2>2, CallFrame
<1>12. /\ HasFds(b) /\ HasFds(b)' /\ ~HasFb(b) /\ HasFb(b)'
       /\ \A i \in 1 .. 2 : /\ Owns(b, i) <=> i <= buf[b].nbo
                            /\ Owns(b, i)' <=> Owns(b, i)
  BY <1>1, <1>2, <1>3, <1>8, <1>9, <1>11 DEF Framed, Keeps, KeepsFds, KeepsFb
<1>13. \A m \in Numbers : fbTab'[m] = IF m = n THEN held ELSE fbTab[m]
  BY <1>5 DEF Typed
<1>14. IInv'
  <2>1. Typed'
    BY <1>5, <1>6, <1>7, <1>11 DEF Typed
  <2>2. OneHandle' /\ FdsKept'
    BY <1>6, <1>8, <1>11, <1>12 DEF OneHandle, FdsKept, Framed
  <2>3. FbsKept'
    BY <1>8, <1>11, <1>12, <1>13 DEF FbsKept, Framed
  <2> QED
    BY <1>11, <2>1, <2>2, <2>3
<1>15. ASSUME CInv PROVE CInv'
  <2>1. HandlesInv'
    BY <1>6, <1>8, <1>11, <1>12, <1>15, HandlesSame DEF CInv
  <2>2. FdsInv'
    BY <1>6, <1>8, <1>11, <1>12, <1>15, FdsSame DEF CInv, OwnsFd, Framed
  <2>3. FbsRight'
    <3>1. Node = "primary"
      BY <1>1, <1>15 DEF CInv, FlagRight, At, Node
    <3>2. \A k \in 1 .. buf[b].nbo : k \in 1 .. 2 /\ handle["primary"][buf[b].bo[k]] = buf[b].obj[k]
      BY <1>2, <1>12, <1>15, <3>1 DEF CInv, HandlesInv, HandlesRight, Buf
    <3>3. held = {nb.obj[k] : k \in 1 .. nb.nbo}
      BY <1>8, <3>2 DEF held
    <3>4. 1 .. nb.nbo # {}
      BY <1>4, <1>8 DEF held
    <3> SUFFICES ASSUME NEW c \in Bufs, HasFb(c)', buf'[c].fb # 0
                 PROVE  /\ fbTab'[buf'[c].fb] = {buf'[c].obj[k] : k \in 1 .. buf'[c].nbo}
                        /\ 1 .. buf'[c].nbo # {}
      BY DEF FbsRight, PlanesOf
    <3>5. CASE c = b
      <4>1. buf'[c] = nb /\ fbTab'[n] = held
        BY <1>11, <1>13, <3>5 DEF Framed
      <4> QED
        BY <1>8, <3>3, <3>4, <4>1
    <3>6. CASE c # b
      <4>1. HasFb(c) /\ buf'[c] = buf[c]
        BY <1>11, <3>6 DEF Framed
      <4>2. /\ fbTab[buf[c].fb] = {buf[c].obj[k] : k \in 1 .. buf[c].nbo}
            /\ 1 .. buf[c].nbo # {}
        BY <1>15, <4>1 DEF CInv, FbsRight, PlanesOf
      <4>3. buf[c].fb \in Numbers
        BY <4>1 DEF Typed, Buf
      <4>4. buf[c].fb # n
        BY <1>5, <4>2
      <4> QED
        BY <1>13, <4>1, <4>2, <4>3, <4>4
    <3> QED
      BY <3>5, <3>6
  <2>4. FlagRight'
    BY <1>3, <1>6, <1>8, <1>9, <1>11, <1>15, FlagSame DEF CInv, FlagRight
  <2> QED
    BY <2>1, <2>2, <2>3, <2>4 DEF CInv
<1> QED
  BY <1>14, <1>15

(* Steps after which the buffer has in the kernel what it had before.      *)
LEMMA NothingLost ==
  ASSUME IInv, NEW t \in Threads, NEW b \in Bufs, NEW nj, NEW nb,
         UNCHANGED <<kernel, allocOnly, clientFds, dropped>>,
         CallStep(t, b, nj, nb), buf[b].st # "free",
         nb.nbo = buf[b].nbo, nb.bo = buf[b].bo, nb.obj = buf[b].obj, nb.node = buf[b].node,
         nb.fd = buf[b].fd, nb.fb = buf[b].fb, nb.imported = buf[b].imported,
         HasFds(b) => nb.st = "live" \/ KeepsFds(nj),
         nb.st = "live" \/ KeepsFds(nj) => HasFds(b),
         HasFb(b) => nb.st = "live" \/ KeepsFb(nj),
         nb.st = "live" \/ KeepsFb(nj) => HasFb(b) \/ nb.fb = 0,
         \A i \in 1 .. 2 : i <= nb.nbo => (Owns(b, i) <=> nb.st = "live" \/ Keeps(nj, i)),
         nb.st # "lost", nj.at \notin {"addfb", "destroy", "rmfb"}
  PROVE  IInv' /\ (CInv => CInv')
<1> USE DEF IInv
<1>1. /\ buf' \in [Bufs -> Buf] /\ job' \in [Threads -> Job]
      /\ Stages' /\ LiveOK'
      /\ Framed(t, b, nj, nb)
  BY CallFrame
<1>2. /\ HasFds(b)' <=> HasFds(b)
      /\ HasFb(b) => HasFb(b)'
      /\ HasFb(b)' => HasFb(b) \/ nb.fb = 0
      /\ \A i \in 1 .. 2 : Owns(b, i)' <=> Owns(b, i)
  BY <1>1 DEF Framed
<1>3. IInv'
  <2>1. Typed'
    BY <1>1 DEF Typed, kernel
  <2>2. OneHandle' /\ FdsKept' /\ FbsKept'
    BY <1>1, <1>2, KeptSame
  <2> QED
    BY <1>1, <2>1, <2>2
<1>4. ASSUME CInv PROVE CInv'
  <2>1. HandlesInv'
    BY <1>1, <1>2, <1>4, HandlesSame DEF CInv, kernel
  <2>2. FdsInv'
    BY <1>1, <1>2, <1>4, FdsSame DEF CInv, kernel, OwnsFd, Framed
  <2>3. FbsRight'
    BY <1>1, <1>2, <1>4, FbsSame DEF CInv, kernel
  <2>4. FlagRight'
    BY <1>1, <1>4, FlagSame DEF CInv, FlagRight
  <2> QED
    BY <2>1, <2>2, <2>3, <2>4 DEF CInv
<1> QED
  BY <1>3, <1>4

LEMMA AddFbFailsStep ==
  ASSUME IInv, NEW t \in Threads, AddFbFails(t)
  PROVE  IInv' /\ (CInv => CInv')
<1> USE DEF IInv
<1>1. job[t].at = "addfb"
  BY DEF AddFbFails, At
<1>2. PICK b \in Bufs : /\ job[t].b = b /\ job[t] \in Job /\ buf[b] \in Buf
                        /\ StageOK(job[t], buf[b])
                        /\ \A u \in Threads \ {t} : job[u].b # b
  BY <1>1, InCall DEF At
<1>3. /\ \A i \in 1 .. buf[b].nbo : buf[b].bo[i] \in Numbers
      /\ buf[b].st = "building" /\ buf[b].fb = 0
  BY <1>1, <1>2 DEF StageOK, Keeps, Building
<1> DEFINE nb == IF buf[b].imported THEN buf[b] ELSE [buf[b] EXCEPT !.st = "freeing"]
           nj == [job[t] EXCEPT !.at = IF buf[b].imported THEN "done" ELSE "close"]
<1>4. /\ nb \in Buf /\ nb.nbo = buf[b].nbo /\ nb.node = buf[b].node
      /\ nb.bo = buf[b].bo /\ nb.obj = buf[b].obj /\ nb.fd = buf[b].fd /\ nb.fb = buf[b].fb
      /\ nb.imported = buf[b].imported
      /\ nb.st = IF buf[b].imported THEN "building" ELSE "freeing"
  BY <1>2, <1>3 DEF Buf
<1>5. nj \in Job /\ nj.b = b /\ nj.at = IF buf[b].imported THEN "done" ELSE "close"
  <2>1. CASE buf[b].imported
    BY <1>2, <2>1 DEF Job
  <2>2. CASE ~buf[b].imported
    BY <1>2, <2>2 DEF Job
  <2> QED
    BY <2>1, <2>2
<1>6. buf' = [buf EXCEPT ![b] = nb] /\ job' = [job EXCEPT ![t] = nj]
  BY <1>2 DEF Typed, AddFbFails, Goto
<1> HIDE DEF nb, nj
<1>7. StageOK(nj, nb)
  BY <1>3, <1>4, <1>5 DEF StageOK, Keeps, Building, Freeing
<1>8. CallStep(t, b, nj, nb)
  BY <1>2, <1>3, <1>4, <1>5, <1>6, <1>7 DEF CallStep
<1>9. /\ HasFds(b) /\ ~HasFb(b)
      /\ \A i \in 1 .. 2 : i <= buf[b].nbo => Owns(b, i)
  BY <1>1, <1>2, <1>3, <1>8, CallFrame DEF Framed, Keeps, KeepsFds, KeepsFb
<1>10. UNCHANGED <<kernel, allocOnly, clientFds, dropped>>
  BY DEF AddFbFails
<1> QED
  BY <1>3, <1>4, <1>5, <1>8, <1>9, <1>10, NothingLost DEF Keeps, KeepsFds, KeepsFb

LEMMA BufReadyStep ==
  ASSUME IInv, NEW t \in Threads, BufReady(t)
  PROVE  IInv' /\ (CInv => CInv')
<1> USE DEF IInv
<1>1. job[t].at = "done"
  BY DEF BufReady, At
<1>2. PICK b \in Bufs : /\ job[t].b = b /\ job[t] \in Job /\ buf[b] \in Buf
                        /\ StageOK(job[t], buf[b])
                        /\ \A u \in Threads \ {t} : job[u].b # b
  BY <1>1, InCall DEF At
<1>3. /\ \A i \in 1 .. buf[b].nbo : buf[b].bo[i] \in Numbers
      /\ buf[b].st = "building"
  BY <1>1, <1>2 DEF StageOK, Keeps, Building
<1> DEFINE nb == [buf[b] EXCEPT !.st = "live"]
<1>4. /\ nb \in Buf /\ nb.nbo = buf[b].nbo /\ nb.node = buf[b].node
      /\ nb.bo = buf[b].bo /\ nb.obj = buf[b].obj /\ nb.fd = buf[b].fd /\ nb.fb = buf[b].fb
      /\ nb.imported = buf[b].imported /\ nb.st = "live"
  BY <1>2 DEF Buf
<1>5. buf' = [buf EXCEPT ![b] = nb] /\ job' = [job EXCEPT ![t] = Idle]
  BY <1>2 DEF BufReady, Return
<1> HIDE DEF nb
<1>6. CallStep(t, b, Idle, nb)
  BY <1>2, <1>3, <1>4, <1>5, Ended DEF CallStep
<1>7. /\ HasFds(b) /\ HasFb(b)
      /\ \A i \in 1 .. 2 : i <= buf[b].nbo => Owns(b, i)
  BY <1>1, <1>2, <1>6, CallFrame DEF Framed, Keeps, KeepsFds, KeepsFb
<1>8. UNCHANGED <<kernel, allocOnly, clientFds, dropped>>
  BY DEF BufReady
<1> QED
  BY <1>3, <1>4, <1>6, <1>7, <1>8, Ended, NothingLost

-----------------------------------------------------------------------------
(* The calls that begin.                                                   *)
LEMMA IdleCall ==
  ASSUME IInv, NEW t \in Threads, NEW b \in Bufs, At(t, "idle"), buf[b].st \in {"free", "live"}
  PROVE  /\ job[t].at = "idle" /\ job[t].b = None /\ buf[b] \in Buf
         /\ \A u \in Threads : job[u].b # b
<1>1. ASSUME NEW u \in Threads, job[u].b = b PROVE FALSE
  <2>1. ~At(u, "idle")
    BY <1>1, BufAssumption DEF IInv, Stages
  <2>2. StageOK(job[u], buf[b]) /\ job[u] \in Job
    BY <1>1, <2>1 DEF IInv, Stages, Typed
  <2> QED
    BY <2>1, <2>2 DEF StageOK, Job, Building, Freeing, At
<1> QED
  BY <1>1 DEF IInv, Stages, Typed, At

LEMMA AllocBufStep ==
  ASSUME IInv, NEW t \in Threads, NEW b \in Bufs, NEW n \in Planes, AllocBuf(t, b, n)
  PROVE  IInv' /\ (CInv => CInv')
<1> USE DEF IInv
<1>1. /\ job[t].at = "idle" /\ job[t].b = None /\ buf[b] \in Buf
      /\ \A u \in Threads : job[u].b # b
      /\ buf[b].st = "free"
  BY IdleCall DEF AllocBuf
<1>2. n \in 0 .. 2
  BY BufAssumption
<1> DEFINE at == IF n > 0 THEN "create" ELSE AfterBos
           nb == [NoBuf EXCEPT !.st = "building", !.nbo = n]
           nj == [Idle EXCEPT !.at = at, !.b = b, !.k = 1]
<1>3. buf' = [buf EXCEPT ![b] = nb] /\ job' = [job EXCEPT ![t] = nj]
      /\ UNCHANGED <<kernel, allocOnly, clientFds, dropped>>
  BY DEF AllocBuf
<1>4. /\ nb \in Buf /\ nb.st = "building" /\ nb.nbo = n /\ nb.fb = 0 /\ ~nb.imported
      /\ \A i \in 1 .. 2 : nb.fd[i] = 0
  BY <1>2, Ended DEF Buf
<1>5. at \in {"create", "addfb", "done"} /\ (at = "addfb" => ~allocOnly)
      /\ (at = "create" => n > 0) /\ (at # "create" => n = 0)
  BY <1>2 DEF AfterBos
<1> HIDE DEF at
<1>6. nj \in Job /\ nj.at = at /\ nj.b = b /\ nj.k = 1
  <2> HIDE DEF IInv
  <2>1. nj.at = at /\ nj.b = b /\ nj.k = 1 /\ nj.node = Idle.node
    BY Ended DEF Job
  <2>2. 1 \in 0 .. 3
    OBVIOUS
  <2>3. nj \in Job
    BY <1>5, <2>1, <2>2, Ended DEF Job
  <2> QED
    BY <2>1, <2>3
<1> HIDE DEF nb, nj
<1>7. StageOK(nj, nb)
  BY <1>2, <1>4, <1>5, <1>6 DEF StageOK, Keeps, Building, Freeing
<1>8. /\ buf' \in [Bufs -> Buf] /\ job' \in [Threads -> Job]
      /\ Stages' /\ LiveOK'
      /\ Framed(t, b, nj, nb)
  <2>1. CallStep(t, b, nj, nb)
    BY <1>1, <1>3, <1>4, <1>5, <1>6, <1>7 DEF CallStep
  <2> QED
    BY <2>1, CallFrame
<1>9. /\ ~HasFds(b) /\ ~HasFb(b)
      /\ \A i \in 1 .. 2 : ~Owns(b, i) /\ ~Owns(b, i)'
  BY <1>1, <1>2, <1>4, <1>5, <1>6, <1>8 DEF Framed, Keeps, KeepsFds, KeepsFb
<1>10. IInv'
  <2>1. Typed'
    BY <1>3, <1>8 DEF Typed, kernel
  <2>2. OneHandle' /\ FdsKept' /\ FbsKept'
    BY <1>3, <1>8, <1>9, KeptSame
  <2> QED
    BY <1>8, <2>1, <2>2
<1>11. ASSUME CInv PROVE CInv'
  <2>1. HandlesInv'
    BY <1>3, <1>8, <1>9, <1>11, HandlesSame DEF CInv, kernel
  <2>2. FdsInv'
    BY <1>3, <1>4, <1>8, <1>9, <1>11, FdsSame DEF CInv, kernel, OwnsFd, Framed
  <2>3. FbsRight'
    BY <1>3, <1>4, <1>8, <1>11, FbsSame DEF CInv, kernel
  <2>4. FlagRight'
    BY <1>3, <1>4, <1>5, <1>6, <1>8, <1>11, FlagSame DEF CInv
  <2> QED
    BY <2>1, <2>2, <2>3, <2>4 DEF CInv
<1> QED
  BY <1>10, <1>11

LEMMA ImportBufStep ==
  ASSUME IInv, NEW t \in Threads, NEW b \in Bufs, NEW fds \in FdLists, ImportBuf(t, b, fds)
  PROVE  IInv' /\ (Careful /\ CInv => CInv')
<1> USE DEF IInv
<1>1. /\ job[t].at = "idle" /\ job[t].b = None /\ buf[b] \in Buf
      /\ \A u \in Threads : job[u].b # b
      /\ buf[b].st = "free"
  BY IdleCall DEF ImportBuf
<1>2. PICK n \in 1 .. 2 : fds \in [1 .. n -> clientFds]
  <2>1. PICK n \in Planes \ {0} : fds \in [1 .. n -> clientFds]
    BY DEF FdLists
  <2>2. n \in 1 .. 2
    BY BufAssumption
  <2> QED
    BY <2>1, <2>2
<1>3. Cardinality(DOMAIN fds) = n
  <2>1. DOMAIN fds = 1 .. n /\ n \in Int /\ 1 \in Int
    BY <1>2
  <2>2. Cardinality(1 .. n) = IF 1 > n THEN 0 ELSE n - 1 + 1
    BY <2>1, FS_Interval
  <2> QED
    BY <1>2, <2>1, <2>2
<1> DEFINE fd == [k \in 1 .. 2 |-> IF k \in DOMAIN fds THEN fds[k] ELSE 0]
           nb == [NoBuf EXCEPT !.st = "building", !.nbo = n, !.imported = TRUE, !.fd = fd]
           nj == [Idle EXCEPT !.at = "import", !.b = b, !.k = 1]
<1>4. /\ buf' = [buf EXCEPT ![b] = nb] /\ job' = [job EXCEPT ![t] = nj]
      /\ clientFds' = clientFds \ Range(fds)
      /\ UNCHANGED <<kernel, allocOnly, dropped>>
  BY <1>3 DEF ImportBuf
<1>5. /\ clientFds \subseteq Fds
      /\ fd \in [1 .. 2 -> Fds \cup {0}]
      /\ \A i \in 1 .. 2 : /\ i <= n => fd[i] \in clientFds /\ fd[i] = fds[i]
                           /\ i > n => fd[i] = 0
      /\ \A f : f \in Range(fds) <=> \E i \in 1 .. n : f = fd[i]
  <2>1. clientFds \subseteq Fds
    BY DEF Typed
  <2>2. DOMAIN fds = 1 .. n /\ \A i \in 1 .. n : fds[i] \in clientFds
    BY <1>2
  <2>3. \A i \in 1 .. 2 : fd[i] = IF i <= n THEN fds[i] ELSE 0
    BY <1>2, <2>2
  <2>4. \A i \in 1 .. 2 : fd[i] \in Fds \cup {0}
    BY <2>1, <2>2, <2>3
  <2>5. fd \in [1 .. 2 -> Fds \cup {0}]
    BY <2>4
  <2> HIDE DEF fd
  <2>6. \A f : f \in Range(fds) <=> \E i \in 1 .. n : f = fd[i]
    BY <2>2, <2>3 DEF Range
  <2> QED
    BY <2>1, <2>2, <2>3, <2>5, <2>6
<1> HIDE DEF fd
<1>6. /\ nb \in Buf /\ nb.st = "building" /\ nb.nbo = n /\ nb.fb = 0 /\ nb.imported
      /\ nb.fd = fd /\ nb.node = "primary"
  <2> HIDE DEF IInv
  <2>1. /\ nb.st = "building" /\ nb.nbo = n /\ nb.fb = 0 /\ nb.imported = TRUE
        /\ nb.fd = fd /\ nb.node = "primary"
    BY Ended DEF Buf
  <2>2. n \in 0 .. 2 /\ TRUE \in BOOLEAN
    BY <1>2
  <2>3. nb \in Buf
    BY <1>5, <2>1, <2>2, Ended DEF Buf
  <2> QED
    BY <2>1, <2>3
<1>7. nj \in Job /\ nj.at = "import" /\ nj.b = b /\ nj.k = 1
  <2> HIDE DEF IInv
  <2>1. nj.at = "import" /\ nj.b = b /\ nj.k = 1 /\ nj.node = Idle.node
    BY Ended DEF Job
  <2>2. 1 \in 0 .. 3
    OBVIOUS
  <2>3. nj \in Job
    BY <2>1, <2>2, Ended DEF Job
  <2> QED
    BY <2>1, <2>3
<1> HIDE DEF nb, nj
<1>8. StageOK(nj, nb)
  BY <1>2, <1>5, <1>6, <1>7 DEF StageOK, Keeps, Building, Freeing
<1>9. /\ buf' \in [Bufs -> Buf] /\ job' \in [Threads -> Job]
      /\ Stages' /\ LiveOK'
      /\ Framed(t, b, nj, nb)
  <2>1. CallStep(t, b, nj, nb)
    BY <1>1, <1>4, <1>6, <1>7, <1>8 DEF CallStep
  <2> QED
    BY <2>1, CallFrame
<1>10. /\ ~HasFds(b) /\ HasFds(b)' /\ ~HasFb(b) /\ ~HasFb(b)'
       /\ \A i \in 1 .. 2 : ~Owns(b, i) /\ ~Owns(b, i)'
  BY <1>1, <1>2, <1>6, <1>7, <1>9 DEF Framed, Keeps, KeepsFds, KeepsFb
<1>11. IInv'
  <2>1. Typed'
    BY <1>4, <1>5, <1>9 DEF Typed, kernel
  <2>2. OneHandle' /\ FbsKept'
    BY <1>4, <1>9, <1>10 DEF OneHandle, FbsKept, Framed, kernel
  <2>3. FdsKept'
    <3> SUFFICES ASSUME NEW f \in Fds \ clientFds', fdTab[f] # None, f \notin dropped.fds
                 PROVE  \E c \in Bufs : HasFds(c)' /\ f \in Range(buf'[c].fd)
      BY <1>4 DEF FdsKept, kernel
    <3>1. CASE f \in Range(fds)
      <4>1. f \in Range(nb.fd)
        BY <1>2, <1>5, <1>6, <3>1 DEF Range
      <4> QED
        BY <1>9, <1>10, <4>1 DEF Framed
    <3>2. CASE f \notin Range(fds)
      BY <1>4, <1>9, <1>10, <3>2 DEF FdsKept, Framed
    <3> QED
      BY <3>1, <3>2
  <2> QED
    BY <1>9, <2>1, <2>2, <2>3
<1>12. ASSUME Careful, CInv PROVE CInv'
  <2>1. HandlesInv'
    BY <1>4, <1>9, <1>10, <1>12, HandlesSame DEF CInv, kernel
  <2>2. /\ \A c \in Bufs : \A i \in 1 .. 2 : (Owns(c, i)' <=> Owns(c, i))
        /\ \A c \in Bufs : \A i \in 1 .. 2 : Owns(c, i) => buf'[c] = buf[c]
        /\ \A c \in Bufs \ {b} : \A i \in 1 .. 2 : (OwnsFd(c, i)' <=> OwnsFd(c, i)) /\ buf'[c] = buf[c]
        /\ \A i \in 1 .. 2 : OwnsFd(b, i)' => i <= n /\ buf'[b].fd[i] = fds[i] /\ fds[i] \in clientFds
        /\ \A i \in 1 .. 2 : ~OwnsFd(b, i)
    BY <1>5, <1>6, <1>9, <1>10 DEF Framed, OwnsFd
  <2>3. OneFd' /\ ClientFdsOpen'
    BY <1>4, <1>12 DEF CInv, FdsInv, OneFd, ClientFdsOpen, kernel
  <2>4. FdOfObject'
    BY <1>4, <1>12, <2>2 DEF CInv, FdsInv, FdOfObject, kernel
  <2>5. FdsRight'
    <3> SUFFICES ASSUME NEW c \in Bufs, NEW i \in 1 .. 2, OwnsFd(c, i)'
                 PROVE  /\ buf'[c].fd[i] \in Fds \ clientFds'
                        /\ fdTab[buf'[c].fd[i]] # None
                        /\ Owns(c, i) => fdTab[buf'[c].fd[i]] = buf'[c].obj[i]
                        /\ \A d \in Bufs : \A j \in 1 .. 2 :
                             /\ OwnsFd(d, j)' /\ buf'[c].fd[i] = buf'[d].fd[j] => c = d /\ i = j
                             /\ Owns(d, j) /\ buf'[d].obj[j] = fdTab[buf'[c].fd[i]] => c = d /\ i = j
      BY <1>4, <2>2 DEF FdsRight, kernel
    <3>1. ASSUME NEW d \in Bufs \ {b}, NEW j \in 1 .. 2, OwnsFd(d, j)
          PROVE  buf[d].fd[j] \in Fds \ clientFds
      BY <1>12, <3>1 DEF CInv, FdsInv, FdsRight
    <3>2. CASE c = b
      <4>1. i <= n /\ buf'[b].fd[i] = fds[i] /\ fds[i] \in clientFds /\ fds[i] \in Range(fds)
        BY <1>2, <2>2, <3>2 DEF Range
      <4>2. fdTab[fds[i]] # None
        BY <1>12, <4>1 DEF CInv, FdsInv, ClientFdsOpen
      <4>3. ASSUME NEW d \in Bufs, NEW j \in 1 .. 2, OwnsFd(d, j)', fds[i] = buf'[d].fd[j]
            PROVE  d = b /\ i = j
        <5>1. d = b
          BY <2>2, <3>1, <4>1, <4>3
        <5>2. j <= n /\ fds[i] = fds[j]
          BY <2>2, <4>3, <5>1
        <5> QED
          BY <1>2, <4>1, <5>1, <5>2 DEF ImportBuf, IsInjective
      <4>4. ASSUME NEW d \in Bufs, NEW j \in 1 .. 2, Owns(d, j), buf[d].obj[j] = fdTab[fds[i]]
            PROVE  FALSE
        <5>1. fdTab[fds[i]] \notin Range(buf[d].obj)
          BY <1>12, <4>1 DEF ImportBuf, Importable, Careful
        <5>2. buf[d].obj \in [1 .. 2 -> Objects \cup {None}]
          BY DEF Typed, Buf
        <5> QED
          BY <4>4, <5>1, <5>2 DEF Range
      <4> QED
        BY <1>4, <1>5, <1>10, <2>2, <3>2, <4>1, <4>2, <4>3, <4>4
    <3>3. CASE c # b
      <4>1. OwnsFd(c, i) /\ buf'[c] = buf[c] /\ buf[c].fd[i] \in Fds \ clientFds
        BY <2>2, <3>1, <3>3
      <4>2. ASSUME NEW d \in Bufs, NEW j \in 1 .. 2, OwnsFd(d, j)', buf[c].fd[i] = buf'[d].fd[j]
            PROVE  c = d /\ i = j
        <5>1. d # b
          BY <2>2, <4>1, <4>2
        <5> QED
          BY <1>12, <2>2, <4>1, <4>2, <5>1 DEF CInv, FdsInv, FdsRight
      <4> QED
        BY <1>4, <1>12, <2>2, <4>1, <4>2 DEF CInv, FdsInv, FdsRight
    <3> QED
      BY <3>2, <3>3
  <2>6. FbsRight'
    BY <1>4, <1>9, <1>10, <1>12, FbsSame DEF CInv, kernel
  <2>7. FlagRight'
    <3>1. ~allocOnly
      BY <1>12 DEF ImportBuf, Careful
    <3> QED
      BY <1>4, <1>6, <1>7, <1>9, <1>12, <3>1, FlagSame DEF CInv
  <2> QED
    BY <2>1, <2>3, <2>4, <2>5, <2>6, <2>7 DEF CInv, FdsInv
<1> QED
  BY <1>11, <1>12

(* A file has a handle for an object, or a number free for one: it has as  *)
(* many numbers as there are objects.                                      *)
LEMMA HandleForObject ==
  ASSUME Typed, OneHandle, NEW o \in Objects
  PROVE  \E h \in Numbers :
           /\ HandleFor("primary", o) = h
           /\ handle["primary"][h] \in {None, o}
           /\ \A g \in Numbers : handle["primary"][g] = o => g = h
<1> DEFINE hs == handle["primary"]
<1>1. "primary" \in Nodes /\ hs \in [Numbers -> Objects \cup {None}] /\ None # o
  BY BufAssumption DEF Typed, Nodes
<1>2. CASE o \in Range(hs)
  <2>1. \E h \in Numbers : hs[h] = o
    BY <1>1, <1>2 DEF Range
  <2> QED
    BY <1>1, <1>2, <2>1 DEF HandleFor, OneHandle
<1>3. CASE o \notin Range(hs)
  <2>1. \A h \in Numbers : hs[h] # o
    BY <1>1, <1>3 DEF Range
  <2>2. FreeIn(hs, None) # {}
    <3> SUFFICES ASSUME \A h \in Numbers : hs[h] # None
                 PROVE  FALSE
      BY <1>1 DEF FreeIn
    <3>1. hs \in [Numbers -> Objects \ {o}]
      BY <1>1, <2>1
    <3>2. /\ IsFiniteSet(Objects \ {o})
          /\ Cardinality(Objects \ {o}) = Cardinality(Objects) - 1
          /\ Cardinality(Objects) \in Nat /\ Cardinality(Objects \ {o}) \in Nat
      BY BufAssumption, FS_RemoveElement, FS_CardinalityType
    <3>3. IsFiniteSet(Numbers) /\ Cardinality(Numbers) = Cardinality(Objects)
      <4> DEFINE n == Cardinality(Objects)
      <4>1. n \in Int /\ 1 \in Int /\ n >= 1
        BY <3>2
      <4> HIDE DEF n
      <4>2. IsFiniteSet(1 .. n) /\ Cardinality(1 .. n) = IF 1 > n THEN 0 ELSE n - 1 + 1
        BY <4>1, FS_Interval
      <4>3. Cardinality(1 .. n) = n
        BY <4>1, <4>2
      <4> QED
        BY <4>2, <4>3 DEF Numbers, n
    <3>4. Cardinality(Objects \ {o}) < Cardinality(Numbers)
      BY <3>2, <3>3
    <3> HIDE DEF hs
    <3>5. \E x, y \in Numbers : x # y /\ hs[x] = hs[y]
      BY <3>1, <3>2, <3>3, <3>4, FS_PigeonHole
    <3> QED
      BY <1>1, <3>5 DEF OneHandle, hs
  <2>3. Lowest(FreeIn(hs, None)) \in {h \in Numbers : hs[h] = None}
    BY <1>1, <2>2, FreeHandle
  <2> QED
    BY <1>3, <2>1, <2>3 DEF HandleFor
<1> QED
  BY <1>2, <1>3

LEMMA ImportBoStep ==
  ASSUME IInv, NEW t \in Threads, ImportBo(t)
  PROVE  IInv' /\ (CInv => CInv')
<1> USE DEF IInv
<1>1. job[t].at = "import"
  BY DEF ImportBo, At
<1>2. PICK b \in Bufs : /\ job[t].b = b /\ job[t] \in Job /\ buf[b] \in Buf
                        /\ StageOK(job[t], buf[b])
                        /\ \A u \in Threads \ {t} : job[u].b # b
  BY <1>1, InCall DEF At
<1>3. PICK k \in 1 .. 2 : job[t].k = k /\ k <= buf[b].nbo
  BY <1>1, <1>2 DEF StageOK, Buf
<1>4. /\ \A i \in 1 .. buf[b].nbo : i < k => buf[b].bo[i] \in Numbers
      /\ \A i \in 1 .. buf[b].nbo : buf[b].fd[i] \in Fds
      /\ buf[b].imported /\ buf[b].node = "primary"
      /\ buf[b].st = "building" /\ buf[b].fb = 0
  BY <1>1, <1>2, <1>3 DEF StageOK, Keeps, Building
<1>5. PICK o \in Objects : o = fdTab[buf[b].fd[k]]
  <2>1. buf[b].fd[k] \in Fds
    BY <1>2, <1>3, <1>4 DEF Buf
  <2>2. fdTab[buf[b].fd[k]] # None
    BY <1>2, <1>3 DEF ImportBo
  <2> QED
    BY <2>1, <2>2 DEF Typed
<1>6. PICK h \in Numbers :
        /\ handle["primary"][h] \in {None, o}
        /\ \A g \in Numbers : handle["primary"][g] = o => g = h
        /\ handle' = [handle EXCEPT !["primary"][h] = o]
        /\ buf' = [buf EXCEPT ![b].bo[k] = h, ![b].obj[k] = o]
  <2>1. LET h == HandleFor("primary", o)
        IN  /\ handle' = [handle EXCEPT !["primary"][h] = o]
            /\ buf' = [buf EXCEPT ![b].bo[k] = h, ![b].obj[k] = o]
    BY ONLY <1>2, <1>3, <1>5, ImportBo(t) DEF ImportBo
  <2> QED
    BY <2>1, HandleForObject
<1>7. /\ job' = [job EXCEPT ![t].at = IF k < buf[b].nbo THEN "import" ELSE "addfb",
                            ![t].k = k + 1]
      /\ UNCHANGED <<fdTab, fbTab, allocOnly, clientFds, dropped>>
  BY <1>2, <1>3 DEF ImportBo
<1> DEFINE at == IF k < buf[b].nbo THEN "import" ELSE "addfb"
           nb == [buf[b] EXCEPT !.bo[k] = h, !.obj[k] = o]
           nj == [job[t] EXCEPT !.at = at, !.k = k + 1]
<1>8. /\ nb \in Buf /\ nb.st = buf[b].st /\ nb.nbo = buf[b].nbo /\ nb.node = buf[b].node
      /\ nb.fd = buf[b].fd /\ nb.fb = buf[b].fb /\ nb.imported = buf[b].imported
      /\ \A i \in 1 .. 2 : /\ nb.bo[i] = IF i = k THEN h ELSE buf[b].bo[i]
                           /\ nb.obj[i] = IF i = k THEN o ELSE buf[b].obj[i]
  BY <1>2 DEF Buf
<1>9. buf' = [buf EXCEPT ![b] = nb] /\ job' = [job EXCEPT ![t] = nj]
  BY <1>6, <1>7 DEF Buf, Typed
<1>10. /\ at \in {"import", "addfb"}
       /\ at = "import" => k < buf[b].nbo
       /\ at = "addfb" => k = buf[b].nbo
  BY <1>2, <1>3 DEF Buf
<1> HIDE DEF at
<1>11. nj \in Job /\ nj.at = at /\ nj.b = b /\ nj.k = k + 1
  <2> HIDE DEF IInv
  <2>1. nj.at = at /\ nj.b = b /\ nj.k = k + 1
    BY <1>2 DEF Job
  <2>2. k + 1 \in 0 .. 3
    OBVIOUS
  <2>3. nj \in Job
    BY <1>2, <1>10, <2>1, <2>2 DEF Job
  <2> QED
    BY <2>1, <2>3
<1> HIDE DEF nb, nj
<1>12. StageOK(nj, nb)
  <2>1. \A i \in 1 .. nb.nbo : Keeps(nj, i) => nb.bo[i] \in Numbers
    BY <1>2, <1>3, <1>4, <1>8, <1>10, <1>11 DEF Keeps, Buf
  <2>2. nj.at = "import" => nj.k \in 1 .. nb.nbo
    BY <1>2, <1>3, <1>8, <1>10, <1>11 DEF Buf
  <2> QED
    BY <1>4, <1>8, <1>10, <1>11, <2>1, <2>2 DEF StageOK, Building, Freeing
<1>13. /\ buf' \in [Bufs -> Buf] /\ job' \in [Threads -> Job]
       /\ Stages' /\ LiveOK'
       /\ Framed(t, b, nj, nb)
  <2>1. CallStep(t, b, nj, nb)
    BY <1>2, <1>4, <1>8, <1>9, <1>10, <1>11, <1>12 DEF CallStep
  <2> QED
    BY <2>1, CallFrame
<1>14. /\ HasFds(b) /\ HasFds(b)' /\ ~HasFb(b) /\ ~HasFb(b)'
       /\ \A i \in 1 .. 2 : /\ Owns(b, i) <=> i < k
                            /\ Owns(b, i)' <=> Owns(b, i) \/ i = k
  BY <1>1, <1>2, <1>3, <1>4, <1>8, <1>10, <1>11, <1>13 DEF Framed, Keeps, KeepsFds, KeepsFb, Buf
<1>15. "primary" \in Nodes
       /\ \A nd \in Nodes, g \in Numbers :
            handle'[nd][g] = IF nd = "primary" /\ g = h THEN o ELSE handle[nd][g]
  BY <1>6 DEF Typed, Nodes
<1>16. IInv'
  <2>1. handle' \in [Nodes -> [Numbers -> Objects \cup {None}]]
    BY <1>6 DEF Typed
  <2>2. Typed'
    BY <1>7, <1>13, <2>1 DEF Typed
  <2>3. OneHandle'
    <3> SUFFICES ASSUME NEW nd \in Nodes, NEW x \in Numbers, NEW y \in Numbers,
                        handle'[nd][x] = handle'[nd][y], handle'[nd][x] # None
                 PROVE  x = y
      BY DEF OneHandle
    <3> QED
      BY <1>6, <1>15 DEF OneHandle
  <2>4. FdsKept' /\ FbsKept'
    BY <1>7, <1>8, <1>13, <1>14 DEF FdsKept, FbsKept, Framed
  <2> QED
    BY <1>13, <2>2, <2>3, <2>4
<1>17. ASSUME CInv PROVE CInv'
  <2>1. ~allocOnly /\ Node = "primary"
    BY <1>4, <1>17 DEF CInv, FlagRight, Node
  <2>2. buf[b].fd[k] \in Fds /\ OwnsFd(b, k)
    BY <1>2, <1>3, <1>4, <1>14, NumbersNat DEF OwnsFd, Buf
  <2>3. \A c \in Bufs : \A i \in 1 .. 2 : Owns(c, i) => buf[c].obj[i] # o
    BY <1>5, <1>14, <1>17, <2>2 DEF CInv, FdsInv, FdsRight
  <2>4. \A f \in Fds : fdTab[f] = o => f = buf[b].fd[k]
    BY <1>5, <1>17, <2>2, BufAssumption DEF CInv, FdsInv, OneFd
  <2>5. HandlesInv'
    BY <1>4, <1>6, <1>7, <1>8, <1>13, <1>14, <1>15, <1>17, <2>1, <2>3, HandlesGain DEF CInv
  <2>6. FdsInv'
    BY <1>5, <1>7, <1>8, <1>13, <1>14, <1>17, <2>2, <2>4, FdsNewObject DEF CInv
  <2>7. FbsRight'
    BY <1>7, <1>13, <1>14, <1>17, FbsSame DEF CInv
  <2>8. FlagRight'
    BY <1>4, <1>7, <1>8, <1>10, <1>11, <1>13, <1>17, <2>1, FlagSame DEF CInv
  <2> QED
    BY <2>5, <2>6, <2>7, <2>8 DEF CInv
<1> QED
  BY <1>16, <1>17

LEMMA ImportBoFailsStep ==
  ASSUME IInv, NEW t \in Threads, ImportBoFails(t)
  PROVE  IInv' /\ (CInv => CInv')
<1> USE DEF IInv
<1>1. job[t].at = "import"
  BY DEF ImportBoFails, At
<1>2. PICK b \in Bufs : /\ job[t].b = b /\ job[t] \in Job /\ buf[b] \in Buf
                        /\ StageOK(job[t], buf[b])
                        /\ \A u \in Threads \ {t} : job[u].b # b
  BY <1>1, InCall DEF At
<1>3. PICK k \in 1 .. 2 : job[t].k = k /\ k <= buf[b].nbo
  BY <1>1, <1>2 DEF StageOK, Buf
<1>4. /\ k # 1 => buf[b].bo[1] \in Numbers
      /\ buf[b].st = "building" /\ buf[b].fb = 0
  BY <1>1, <1>2, <1>3 DEF StageOK, Keeps, Building, Buf
<1>5. /\ buf' = [buf EXCEPT ![b] = NoBuf] /\ job' = [job EXCEPT ![t] = Idle]
      /\ clientFds' = clientFds \cup {f \in Range(buf[b].fd) : f # 0}
      /\ Drop(t, {})
      /\ UNCHANGED <<kernel, allocOnly>>
  BY <1>2 DEF ImportBoFails, Return
<1>6. /\ buf' \in [Bufs -> Buf] /\ job' \in [Threads -> Job]
      /\ Stages' /\ LiveOK'
      /\ Framed(t, b, Idle, NoBuf)
  <2>1. CallStep(t, b, Idle, NoBuf)
    BY <1>2, <1>5, Ended DEF CallStep
  <2> QED
    BY <2>1, CallFrame
<1>7. /\ dropped' \in [handles : SUBSET (Nodes \X Numbers), fds : SUBSET Fds]
      /\ dropped.handles \subseteq dropped'.handles /\ dropped.fds \subseteq dropped'.fds
      /\ k # 1 => <<buf[b].node, buf[b].bo[1]>> \in dropped'.handles
  BY <1>2, <1>3, <1>4, <1>5, DropEffect
<1>8. /\ HasFds(b) /\ ~HasFds(b)' /\ ~HasFb(b) /\ ~HasFb(b)'
      /\ \A i \in 1 .. 2 : (Owns(b, i) <=> i < k) /\ ~Owns(b, i)'
  BY <1>1, <1>2, <1>3, <1>4, <1>6, Ended DEF Framed, Keeps, KeepsFds, KeepsFb, Buf
<1>9. \A f \in Fds : f \in Range(buf[b].fd) <=> \E i \in 1 .. 2 : OwnsFd(b, i) /\ buf[b].fd[i] = f
  BY <1>2, <1>8, NumbersNat DEF Range, OwnsFd, Buf
<1>10. clientFds' \subseteq Fds /\ clientFds \subseteq Fds
       /\ \A f \in Fds : f \in clientFds' <=> f \in clientFds \/ f \in Range(buf[b].fd)
  <2>1. Range(buf[b].fd) \subseteq Fds \cup {0}
    BY <1>2 DEF Range, Buf
  <2>2. clientFds \subseteq Fds /\ 0 \notin Fds
    BY NumbersNat DEF Typed
  <2> QED
    BY <1>5, <2>1, <2>2
<1>11. IInv'
  <2>1. Typed'
    BY <1>5, <1>6, <1>7, <1>10 DEF Typed, kernel
  <2>2. OneHandle' /\ FdsKept' /\ FbsKept'
    BY <1>5, <1>6, <1>7, <1>8, <1>10, KeptSame
  <2> QED
    BY <1>6, <2>1, <2>2
<1>12. ASSUME CInv PROVE CInv'
  <2>1. HandlesInv'
    <3>1. UNCHANGED <<handle, allocOnly>>
      BY <1>5 DEF kernel
    <3>2. \A i \in 1 .. 2 : Owns(b, i) => <<buf[b].node, buf[b].bo[i]>> \in dropped'.handles
      BY <1>3, <1>7, <1>8
    <3> QED
      BY <1>6, <1>7, <1>8, <1>12, <3>1, <3>2, HandlesSame DEF CInv
  <2>2. /\ fdTab' = fdTab
        /\ \A c \in Bufs : \A i \in 1 .. 2 : Owns(c, i)' => Owns(c, i) /\ c # b /\ buf'[c] = buf[c]
        /\ \A c \in Bufs : \A i \in 1 .. 2 : OwnsFd(c, i)' => OwnsFd(c, i) /\ c # b /\ buf'[c] = buf[c]
        /\ \A c \in Bufs \ {b} : \A i \in 1 .. 2 : OwnsFd(c, i) => OwnsFd(c, i)'
    BY <1>5, <1>6, <1>8 DEF Framed, OwnsFd, kernel
  <2>3. OneFd' /\ FdOfObject'
    BY <1>12, <2>2 DEF CInv, FdsInv, OneFd, FdOfObject
  <2>4. ClientFdsOpen'
    BY <1>9, <1>10, <1>12, <2>2 DEF CInv, FdsInv, ClientFdsOpen, FdsRight
  <2>5. FdsRight'
    <3> SUFFICES ASSUME NEW c \in Bufs, NEW i \in 1 .. 2, OwnsFd(c, i)'
                 PROVE  buf[c].fd[i] \in Fds \ clientFds'
      BY <1>12, <2>2 DEF CInv, FdsInv, FdsRight
    <3>1. buf[c].fd[i] \in Fds \ clientFds /\ buf[c].fd[i] \notin Range(buf[b].fd)
      BY <1>9, <1>12, <2>2 DEF CInv, FdsInv, FdsRight
    <3> QED
      BY <1>10, <3>1
  <2>6. FbsRight'
    BY <1>5, <1>6, <1>8, <1>12, FbsSame DEF CInv, kernel
  <2>7. FlagRight'
    BY <1>5, <1>6, <1>12, FlagSame, Ended DEF CInv
  <2> QED
    BY <2>1, <2>3, <2>4, <2>5, <2>6, <2>7 DEF CInv, FdsInv
<1> QED
  BY <1>11, <1>12

-----------------------------------------------------------------------------
(* drm_free_buf.                                                           *)
LEMMA FreeBufStep ==
  ASSUME IInv, NEW t \in Threads, NEW b \in Bufs, FreeBuf(t, b)
  PROVE  IInv' /\ (CInv => CInv')
<1> USE DEF IInv
<1>1. /\ job[t].at = "idle" /\ job[t].b = None /\ buf[b] \in Buf
      /\ \A u \in Threads : job[u].b # b
      /\ buf[b].st = "live"
  BY IdleCall DEF FreeBuf
<1> DEFINE nb == [buf[b] EXCEPT !.st = "freeing"]
           nj == [Idle EXCEPT !.at = "close", !.b = b, !.k = 1]
<1>2. buf' = [buf EXCEPT ![b] = nb] /\ job' = [job EXCEPT ![t] = nj]
      /\ UNCHANGED <<kernel, allocOnly, clientFds, dropped>>
  BY DEF FreeBuf, Typed
<1>3. /\ nb \in Buf /\ nb.nbo = buf[b].nbo /\ nb.node = buf[b].node
      /\ nb.bo = buf[b].bo /\ nb.obj = buf[b].obj /\ nb.fd = buf[b].fd /\ nb.fb = buf[b].fb
      /\ nb.imported = buf[b].imported /\ nb.st = "freeing"
  BY <1>1 DEF Buf
<1>4. nj \in Job /\ nj.at = "close" /\ nj.b = b
  <2> HIDE DEF IInv
  <2>1. nj.at = "close" /\ nj.b = b /\ nj.k = 1 /\ nj.node = Idle.node
    BY Ended DEF Job
  <2>2. 1 \in 0 .. 3
    OBVIOUS
  <2>3. nj \in Job
    BY <2>1, <2>2, Ended DEF Job
  <2> QED
    BY <2>1, <2>3
<1> HIDE DEF nb, nj
<1>5. CallStep(t, b, nj, nb)
  <2>1. \A k \in 1 .. buf[b].nbo : buf[b].bo[k] \in Numbers
    BY <1>1 DEF LiveOK, PlanesOf
  <2>2. StageOK(nj, nb)
    BY <1>3, <1>4, <2>1 DEF StageOK, Keeps, Building, Freeing
  <2> QED
    BY <1>1, <1>2, <1>3, <1>4, <2>2 DEF CallStep
<1>6. /\ HasFds(b) /\ HasFb(b)
      /\ \A i \in 1 .. 2 : i <= buf[b].nbo => Owns(b, i)
  BY <1>1, <1>5, CallFrame DEF Framed
<1> QED
  BY <1>1, <1>2, <1>3, <1>4, <1>5, <1>6, NothingLost DEF Keeps, KeepsFds, KeepsFb

LEMMA CloseFdsStep ==
  ASSUME IInv, NEW t \in Threads, CloseFds(t)
  PROVE  IInv' /\ (CInv => CInv')
<1> USE DEF IInv
<1>1. job[t].at = "close"
  BY DEF CloseFds, At
<1>2. PICK b \in Bufs : /\ job[t].b = b /\ job[t] \in Job /\ buf[b] \in Buf
                        /\ StageOK(job[t], buf[b])
                        /\ \A u \in Threads \ {t} : job[u].b # b
  BY <1>1, InCall DEF At
<1>3. /\ \A i \in 1 .. buf[b].nbo : buf[b].bo[i] \in Numbers
      /\ buf[b].st = "freeing"
  BY <1>1, <1>2 DEF StageOK, Keeps, Freeing
<1> DEFINE nj == [job[t] EXCEPT !.at = "rmfb", !.k = 1, !.node = Node]
<1>4. /\ buf' = [buf EXCEPT ![b] = buf[b]] /\ job' = [job EXCEPT ![t] = nj]
      /\ fdTab' = [f \in Fds |-> IF f \in Range(buf[b].fd) THEN None ELSE fdTab[f]]
      /\ UNCHANGED <<handle, fbTab, allocOnly, clientFds, dropped>>
  BY <1>2 DEF CloseFds, FreeNode, FdsOf, Typed
<1>5. nj \in Job /\ nj.at = "rmfb" /\ nj.b = b /\ nj.k = 1 /\ nj.node = Node
  <2> HIDE DEF IInv
  <2>1. nj.at = "rmfb" /\ nj.b = b /\ nj.k = 1 /\ nj.node = Node
    BY <1>2 DEF Job
  <2>2. 1 \in 0 .. 3
    OBVIOUS
  <2>3. nj \in Job
    BY <1>2, <2>1, <2>2, FlagNode DEF Job
  <2> QED
    BY <2>1, <2>3
<1> HIDE DEF nj
<1>6. /\ buf' \in [Bufs -> Buf] /\ job' \in [Threads -> Job]
      /\ Stages' /\ LiveOK'
      /\ Framed(t, b, nj, buf[b])
  <2>1. StageOK(nj, buf[b])
    BY <1>3, <1>5 DEF StageOK, Keeps, Building, Freeing
  <2>2. CallStep(t, b, nj, buf[b])
    BY <1>2, <1>3, <1>4, <1>5, <2>1 DEF CallStep
  <2> QED
    BY <2>2, CallFrame
<1>7. /\ HasFds(b) /\ ~HasFds(b)' /\ (HasFb(b)' <=> HasFb(b))
      /\ \A i \in 1 .. 2 : Owns(b, i)' <=> Owns(b, i)
  BY <1>1, <1>3, <1>5, <1>6 DEF Framed, Keeps, KeepsFds, KeepsFb
<1>8. IInv'
  <2>1. fdTab' \in [Fds -> Objects \cup {None}]
    BY <1>4 DEF Typed
  <2>2. Typed'
    BY <1>4, <1>6, <2>1 DEF Typed
  <2>3. OneHandle' /\ FbsKept'
    BY <1>4, <1>6, <1>7 DEF OneHandle, FbsKept, Framed
  <2>4. FdsKept'
    <3> SUFFICES ASSUME NEW f \in Fds \ clientFds, fdTab'[f] # None, f \notin dropped.fds
                 PROVE  \E c \in Bufs : HasFds(c)' /\ f \in Range(buf'[c].fd)
      BY <1>4 DEF FdsKept
    <3>1. f \notin Range(buf[b].fd) /\ fdTab[f] # None
      BY <1>4
    <3>2. PICK c \in Bufs : HasFds(c) /\ f \in Range(buf[c].fd)
      BY <3>1 DEF FdsKept
    <3> QED
      BY <1>6, <3>1, <3>2 DEF Framed
  <2> QED
    BY <1>6, <2>2, <2>3, <2>4
<1>9. ASSUME CInv PROVE CInv'
  <2>1. HandlesInv'
    BY <1>4, <1>6, <1>7, <1>9, HandlesSame DEF CInv
  <2>2. FdsInv'
    <3>1. clientFds \subseteq Fds /\ None \notin Objects
          /\ buf[b].fd \in [1 .. 2 -> Fds \cup {0}]
          /\ \A c \in Bufs : \A i \in 1 .. 2 : Owns(c, i) => buf[c].obj[i] \in Objects
          /\ \A f \in Fds : fdTab'[f] = IF f \in Range(buf[b].fd) THEN None ELSE fdTab[f]
      BY <1>2, <1>4, <1>9, BufAssumption DEF Typed, Buf, CInv, HandlesInv, HandlesRight
    <3> QED
      BY <1>4, <1>6, <1>7, <1>9, <3>1, FdsLose DEF CInv
  <2>3. FbsRight'
    BY <1>4, <1>6, <1>7, <1>9, FbsSame DEF CInv
  <2>4. FlagRight'
    BY <1>3, <1>4, <1>5, <1>6, <1>9, FlagSame DEF CInv, FlagRight
  <2> QED
    BY <2>1, <2>2, <2>3, <2>4 DEF CInv
<1> QED
  BY <1>8, <1>9

LEMMA RmFbStep ==
  ASSUME IInv, NEW t \in Threads, RmFb(t)
  PROVE  IInv' /\ (CInv => CInv')
<1> USE DEF IInv
<1>1. job[t].at = "rmfb"
  BY DEF RmFb, At
<1>2. PICK b \in Bufs : /\ job[t].b = b /\ job[t] \in Job /\ buf[b] \in Buf
                        /\ StageOK(job[t], buf[b])
                        /\ \A u \in Threads \ {t} : job[u].b # b
  BY <1>1, InCall DEF At
<1>3. /\ \A i \in 1 .. buf[b].nbo : buf[b].bo[i] \in Numbers
      /\ buf[b].st = "freeing" /\ job[t].k = 1
  BY <1>1, <1>2 DEF StageOK, Keeps, Freeing
<1> DEFINE nj == [job[t] EXCEPT !.at = "destroy"]
<1>4. /\ buf' = [buf EXCEPT ![b] = buf[b]] /\ job' = [job EXCEPT ![t] = nj]
      /\ fbTab' = [n \in Numbers |-> IF n = buf[b].fb THEN {} ELSE fbTab[n]]
      /\ UNCHANGED <<handle, fdTab, allocOnly, clientFds, dropped>>
  BY <1>2 DEF RmFb, Goto, Typed
<1>5. nj \in Job /\ nj.at = "destroy" /\ nj.b = b /\ nj.k = 1 /\ nj.node = job[t].node
  BY <1>2, <1>3 DEF Job
<1> HIDE DEF nj
<1>6. /\ buf' \in [Bufs -> Buf] /\ job' \in [Threads -> Job]
      /\ Stages' /\ LiveOK'
      /\ Framed(t, b, nj, buf[b])
  <2>1. nj.k \in 1 .. buf[b].nbo + 1
    BY <1>2, <1>5 DEF Buf
  <2>2. StageOK(nj, buf[b])
    BY <1>3, <1>5, <2>1 DEF StageOK, Building, Freeing
  <2>3. CallStep(t, b, nj, buf[b])
    BY <1>2, <1>3, <1>4, <1>5, <2>2 DEF CallStep
  <2> QED
    BY <2>3, CallFrame
<1>7. /\ ~HasFds(b) /\ ~HasFds(b)' /\ HasFb(b) /\ ~HasFb(b)'
      /\ \A i \in 1 .. 2 : Owns(b, i)' <=> Owns(b, i)
  BY <1>1, <1>3, <1>5, <1>6 DEF Framed, Keeps, KeepsFds, KeepsFb
<1>8. \A n \in Numbers : fbTab'[n] = IF n = buf[b].fb THEN {} ELSE fbTab[n]
  BY <1>4
<1>9. IInv'
  <2>1. fbTab' \in [Numbers -> SUBSET Objects]
    BY <1>4 DEF Typed
  <2>2. Typed'
    BY <1>4, <1>6, <2>1 DEF Typed
  <2>3. OneHandle' /\ FdsKept'
    BY <1>4, <1>6, <1>7 DEF OneHandle, FdsKept, Framed
  <2>4. FbsKept'
    <3> SUFFICES ASSUME NEW n \in Numbers, fbTab'[n] # {}
                 PROVE  \E c \in Bufs : HasFb(c)' /\ buf'[c].fb = n
      BY DEF FbsKept
    <3>1. n # buf[b].fb /\ fbTab[n] # {}
      BY <1>8
    <3>2. PICK c \in Bufs : HasFb(c) /\ buf[c].fb = n
      BY <3>1 DEF FbsKept
    <3> QED
      BY <1>6, <3>1, <3>2 DEF Framed
  <2> QED
    BY <1>6, <2>2, <2>3, <2>4
<1>10. ASSUME CInv PROVE CInv'
  <2>1. HandlesInv'
    BY <1>4, <1>6, <1>7, <1>10, HandlesSame DEF CInv
  <2>2. FdsInv'
    BY <1>4, <1>6, <1>7, <1>10, FdsSame DEF CInv, OwnsFd, Framed
  <2>3. FbsRight'
    <3> SUFFICES ASSUME NEW c \in Bufs, HasFb(c)', buf'[c].fb # 0
                 PROVE  /\ fbTab'[buf'[c].fb] = {buf'[c].obj[k] : k \in 1 .. buf'[c].nbo}
                        /\ 1 .. buf'[c].nbo # {}
      BY DEF FbsRight, PlanesOf
    <3>1. c # b /\ HasFb(c) /\ buf'[c] = buf[c] /\ buf[c].fb \in Numbers
          /\ buf[c] \in Buf
      BY <1>6, <1>7 DEF Framed, Typed, Buf
    <3>2. /\ fbTab[buf[c].fb] = {buf[c].obj[k] : k \in 1 .. buf[c].nbo}
          /\ 1 .. buf[c].nbo # {}
      BY <1>10, <3>1 DEF CInv, FbsRight, PlanesOf
    <3>3. buf[c].fb # buf[b].fb
      <4> SUFFICES ASSUME buf[c].fb = buf[b].fb PROVE FALSE
        OBVIOUS
      <4>1. fbTab[buf[b].fb] = {buf[b].obj[k] : k \in 1 .. buf[b].nbo}
        BY <1>7, <1>10, <3>1 DEF CInv, FbsRight, PlanesOf
      <4>2. PICK i \in 1 .. buf[c].nbo, j \in 1 .. buf[b].nbo : buf[c].obj[i] = buf[b].obj[j]
        BY <3>2, <4>1
      <4>3. i \in 1 .. 2 /\ j \in 1 .. 2 /\ j <= buf[b].nbo
        BY <1>2, <3>1 DEF Buf
      <4>4. Owns(c, i)
        BY <3>1 DEF Owns, HasFb, KeepsFb, Keeps, PlanesOf
      <4>5. Owns(b, j)
        BY <1>1, <1>6, <4>3 DEF Framed, Keeps
      <4> QED
        BY <1>10, <3>1, <4>2, <4>3, <4>4, <4>5 DEF CInv, HandlesInv, OwnMemory
    <3> QED
      BY <1>8, <3>1, <3>2, <3>3
  <2>4. FlagRight'
    <3>1. job[t].node = Node
      BY <1>1, <1>10 DEF CInv, FlagRight, At
    <3> QED
      BY <1>3, <1>4, <1>5, <1>6, <1>10, <3>1, FlagSame DEF CInv, FlagRight
  <2> QED
    BY <2>1, <2>2, <2>3, <2>4 DEF CInv
<1> QED
  BY <1>9, <1>10

LEMMA DestroyBoStep ==
  ASSUME IInv, NEW t \in Threads, DestroyBo(t)
  PROVE  IInv' /\ (CInv => CInv')
<1> USE DEF IInv
<1>1. job[t].at = "destroy"
  BY DEF DestroyBo, At
<1>2. PICK b \in Bufs : /\ job[t].b = b /\ job[t] \in Job /\ buf[b] \in Buf
                        /\ StageOK(job[t], buf[b])
                        /\ \A u \in Threads \ {t} : job[u].b # b
  BY <1>1, InCall DEF At
<1>3. PICK k \in 1 .. 2 : job[t].k = k /\ k <= buf[b].nbo
  BY <1>1, <1>2 DEF StageOK, Buf, DestroyBo
<1>4. /\ \A i \in 1 .. buf[b].nbo : buf[b].bo[i] \in Numbers
      /\ buf[b].st = "freeing"
  BY <1>1, <1>2 DEF StageOK, Freeing
<1> DEFINE nd == job[t].node
           nj == [job[t] EXCEPT !.k = k + 1]
<1>5. /\ buf' = [buf EXCEPT ![b] = buf[b]] /\ job' = [job EXCEPT ![t] = nj]
      /\ handle' = [handle EXCEPT ![nd][buf[b].bo[k]] = None]
      /\ UNCHANGED <<fdTab, fbTab, allocOnly, clientFds, dropped>>
  BY <1>2, <1>3 DEF DestroyBo, HandleToDestroy, Typed
<1>6. nj \in Job /\ nj.at = "destroy" /\ nj.b = b /\ nj.k = k + 1 /\ nj.node = nd
  BY <1>1, <1>2, <1>3 DEF Job
<1>7. nd \in Nodes
  BY <1>2 DEF Job
<1> HIDE DEF nj, nd
<1>8. /\ buf' \in [Bufs -> Buf] /\ job' \in [Threads -> Job]
      /\ Stages' /\ LiveOK'
      /\ Framed(t, b, nj, buf[b])
  <2>1. nj.k \in 1 .. buf[b].nbo + 1
    BY <1>2, <1>3, <1>6 DEF Buf
  <2>2. StageOK(nj, buf[b])
    BY <1>4, <1>6, <2>1 DEF StageOK, Building, Freeing
  <2>3. CallStep(t, b, nj, buf[b])
    BY <1>2, <1>4, <1>5, <1>6, <2>2 DEF CallStep
  <2> QED
    BY <2>3, CallFrame
<1>9. /\ ~HasFds(b) /\ ~HasFds(b)' /\ ~HasFb(b) /\ ~HasFb(b)'
      /\ \A i \in 1 .. 2 : /\ Owns(b, i) <=> i <= buf[b].nbo /\ i >= k
                           /\ Owns(b, i)' <=> Owns(b, i) /\ i # k
  BY <1>1, <1>2, <1>3, <1>4, <1>6, <1>8 DEF Framed, Keeps, KeepsFds, KeepsFb, Buf
<1>10. buf[b].bo[k] \in Numbers
       /\ \A x \in Nodes, g \in Numbers :
            handle'[x][g] = IF x = nd /\ g = buf[b].bo[k] THEN None ELSE handle[x][g]
  BY <1>3, <1>4, <1>5, <1>7, <1>2 DEF Typed, Buf
<1>11. IInv'
  <2>1. handle' \in [Nodes -> [Numbers -> Objects \cup {None}]]
    BY <1>5, <1>7, <1>10 DEF Typed
  <2>2. Typed'
    BY <1>5, <1>8, <2>1 DEF Typed
  <2>3. OneHandle'
    BY <1>10 DEF OneHandle
  <2>4. FdsKept' /\ FbsKept'
    BY <1>5, <1>8, <1>9 DEF FdsKept, FbsKept, Framed
  <2> QED
    BY <1>8, <2>2, <2>3, <2>4
<1>12. ASSUME CInv PROVE CInv'
  <2>1. nd = Node
    BY <1>1, <1>12 DEF CInv, FlagRight, At, nd
  <2>2. Owns(b, k)
    BY <1>3, <1>9
  <2>3. HandlesInv'
    BY <1>5, <1>8, <1>9, <1>10, <1>12, <2>1, <2>2, HandlesLose DEF CInv
  <2>4. FdsInv'
    BY <1>5, <1>8, <1>9, <1>12, FdsSame DEF CInv, OwnsFd, Framed
  <2>5. FbsRight'
    BY <1>5, <1>8, <1>9, <1>12, FbsSame DEF CInv
  <2>6. FlagRight'
    BY <1>4, <1>5, <1>6, <1>8, <1>12, <2>1, FlagSame DEF CInv, FlagRight
  <2> QED
    BY <2>3, <2>4, <2>5, <2>6 DEF CInv
<1> QED
  BY <1>11, <1>12

(* The call leaves with the struct as it is; with a careful client it does *)
(* not come to that.                                                       *)
LEMMA DestroyBoFailsStep ==
  ASSUME IInv, NEW t \in Threads, DestroyBoFails(t)
  PROVE  IInv' /\ (CInv => CInv')
<1> USE DEF IInv
<1>1. job[t].at = "destroy"
  BY DEF DestroyBoFails, At
<1>2. PICK b \in Bufs : /\ job[t].b = b /\ job[t] \in Job /\ buf[b] \in Buf
                        /\ StageOK(job[t], buf[b])
                        /\ \A u \in Threads \ {t} : job[u].b # b
  BY <1>1, InCall DEF At
<1>3. PICK k \in 1 .. 2 : job[t].k = k /\ k <= buf[b].nbo
  BY <1>1, <1>2 DEF StageOK, Buf, DestroyBoFails
<1>4. /\ buf[b].st = "freeing"
      /\ job[t].node = "render" /\ handle["render"][buf[b].bo[k]] = None
  BY <1>1, <1>2, <1>3 DEF StageOK, Freeing, DestroyBoFails, HandleToDestroy
<1> DEFINE nb == [buf[b] EXCEPT !.st = "lost"]
<1>5. nb \in Buf /\ nb.st = "lost" /\ nb.nbo = buf[b].nbo
  BY <1>2 DEF Buf
<1>6. /\ buf' = [buf EXCEPT ![b] = nb] /\ job' = [job EXCEPT ![t] = Idle]
      /\ UNCHANGED <<kernel, allocOnly, clientFds, dropped>>
  BY <1>2 DEF DestroyBoFails, Return
<1> HIDE DEF nb
<1>7. /\ buf' \in [Bufs -> Buf] /\ job' \in [Threads -> Job]
      /\ Stages' /\ LiveOK'
      /\ Framed(t, b, Idle, nb)
  <2>1. CallStep(t, b, Idle, nb)
    BY <1>2, <1>5, <1>6, Ended DEF CallStep
  <2> QED
    BY <2>1, CallFrame
<1>8. /\ ~HasFds(b) /\ ~HasFb(b)
      /\ \A i \in 1 .. 2 : Owns(b, i) <=> i <= buf[b].nbo /\ i >= k
  BY <1>1, <1>2, <1>3, <1>4, <1>7 DEF Framed, Keeps, KeepsFds, KeepsFb, Buf
<1>9. IInv'
  <2>1. Typed'
    BY <1>6, <1>7 DEF Typed, kernel
  <2>2. OneHandle' /\ FdsKept' /\ FbsKept'
    BY <1>6, <1>7, <1>8, KeptSame
  <2> QED
    BY <1>7, <2>1, <2>2
<1>10. ASSUME CInv PROVE FALSE
  <2>1. Node = "render"
    BY <1>1, <1>4, <1>10 DEF CInv, FlagRight, At
  <2>2. Owns(b, k)
    BY <1>3, <1>8
  <2>3. handle[Node][buf[b].bo[k]] \in Objects
    BY <1>10, <2>2 DEF CInv, HandlesInv, HandlesRight
  <2> QED
    BY <1>4, <2>1, <2>3, BufAssumption
<1> QED
  BY <1>9, <1>10

LEMMA FreeDoneStep ==
  ASSUME IInv, NEW t \in Threads, FreeDone(t)
  PROVE  IInv' /\ (CInv => CInv')
<1> USE DEF IInv
<1>1. job[t].at = "destroy"
  BY DEF FreeDone, At
<1>2. PICK b \in Bufs : /\ job[t].b = b /\ job[t] \in Job /\ buf[b] \in Buf
                        /\ StageOK(job[t], buf[b])
                        /\ \A u \in Threads \ {t} : job[u].b # b
  BY <1>1, InCall DEF At
<1>3. buf[b].st = "freeing" /\ job[t].k > buf[b].nbo
  BY <1>1, <1>2 DEF StageOK, Freeing, FreeDone
<1>4. /\ buf' = [buf EXCEPT ![b] = NoBuf] /\ job' = [job EXCEPT ![t] = Idle]
      /\ UNCHANGED <<kernel, allocOnly, clientFds, dropped>>
  BY <1>2 DEF FreeDone, Return
<1>5. /\ buf' \in [Bufs -> Buf] /\ job' \in [Threads -> Job]
      /\ Stages' /\ LiveOK'
      /\ Framed(t, b, Idle, NoBuf)
  <2>1. CallStep(t, b, Idle, NoBuf)
    BY <1>2, <1>4, Ended DEF CallStep
  <2> QED
    BY <2>1, CallFrame
<1>6. /\ ~HasFds(b) /\ ~HasFds(b)' /\ ~HasFb(b) /\ ~HasFb(b)'
      /\ \A i \in 1 .. 2 : ~Owns(b, i) /\ ~Owns(b, i)'
  BY <1>1, <1>2, <1>3, <1>5, Ended DEF Framed, Keeps, KeepsFds, KeepsFb, Buf, Job
<1>7. IInv'
  <2>1. Typed'
    BY <1>4, <1>5 DEF Typed, kernel
  <2>2. OneHandle' /\ FdsKept' /\ FbsKept'
    BY <1>4, <1>5, <1>6, KeptSame
  <2> QED
    BY <1>5, <2>1, <2>2
<1>8. ASSUME CInv PROVE CInv'
  <2>1. HandlesInv'
    BY <1>4, <1>5, <1>6, <1>8, HandlesSame DEF CInv, kernel
  <2>2. FdsInv'
    BY <1>4, <1>5, <1>6, <1>8, FdsSame DEF CInv, kernel, OwnsFd, Framed
  <2>3. FbsRight'
    BY <1>4, <1>5, <1>6, <1>8, FbsSame DEF CInv, kernel
  <2>4. FlagRight'
    BY <1>4, <1>5, <1>8, FlagSame, Ended DEF CInv, kernel
  <2> QED
    BY <2>1, <2>2, <2>3, <2>4 DEF CInv
<1> QED
  BY <1>7, <1>8

-----------------------------------------------------------------------------
(* The client's own steps change no buffer and no call.                    *)
LEMMA ClientFrame ==
  ASSUME UNCHANGED <<buf, job>>
  PROVE  /\ Stages' = Stages /\ LiveOK' = LiveOK
         /\ \A b \in Bufs : HasFds(b)' = HasFds(b) /\ HasFb(b)' = HasFb(b)
         /\ \A b, k : Owns(b, k)' = Owns(b, k) /\ OwnsFd(b, k)' = OwnsFd(b, k)
         /\ \A b : PlanesOf(b)' = PlanesOf(b)
         /\ \A t : \A here : At(t, here)' = At(t, here)
BY DEF Stages, LiveOK, HasFds, HasFb, Owns, OwnsFd, PlanesOf, At

LEMMA OthersSame ==
  ASSUME UNCHANGED <<handle, fbTab, allocOnly, buf, job, dropped>>
  PROVE  HandlesInv' = HandlesInv /\ FbsRight' = FbsRight /\ FlagRight' = FlagRight
<1>1. HandlesInv' = HandlesInv
  BY DEF HandlesInv, HandlesRight, OwnMemory, HandlesKept, Owns, PlanesOf, Node
<1>2. FbsRight' = FbsRight /\ FlagRight' = FlagRight
  BY DEF FbsRight, FlagRight, HasFb, PlanesOf, At, Node
<1> QED
  BY <1>1, <1>2

LEMMA SetAllocOnlyStep ==
  ASSUME IInv, NEW flag \in BOOLEAN, SetAllocOnly(flag)
  PROVE  IInv' /\ (Careful /\ CInv => CInv')
<1>1. allocOnly' = flag /\ UNCHANGED <<kernel, clientFds, buf, job, dropped>>
  BY DEF SetAllocOnly
<1>2. /\ Stages' = Stages /\ LiveOK' = LiveOK
      /\ \A b \in Bufs : HasFds(b)' = HasFds(b) /\ HasFb(b)' = HasFb(b)
      /\ \A b, k : Owns(b, k)' = Owns(b, k) /\ OwnsFd(b, k)' = OwnsFd(b, k)
      /\ \A b : PlanesOf(b)' = PlanesOf(b)
      /\ \A t : \A here : At(t, here)' = At(t, here)
  BY <1>1, ClientFrame
<1>3. IInv'
  BY <1>1, <1>2 DEF IInv, Typed, OneHandle, FdsKept, FbsKept, kernel
<1>4. ASSUME Careful, CInv PROVE CInv'
  <2>1. \A b \in Bufs : buf[b].st = "free"
    BY <1>4 DEF SetAllocOnly, Careful
  <2>2. \A t \in Threads : At(t, "idle")
    <3> SUFFICES ASSUME NEW t \in Threads, ~At(t, "idle") PROVE FALSE
      OBVIOUS
    <3>1. PICK b \in Bufs : job[t] \in Job /\ StageOK(job[t], buf[b])
      BY InCall
    <3> QED
      BY <2>1, <3>1 DEF StageOK, Building, Freeing, Job, At
  <2>3. \A b \in Bufs : \A k \in 1 .. 2 : ~Owns(b, k)
    BY <2>1, <2>2 DEF Owns, Keeps, At
  <2>4. \A b \in Bufs : ~HasFb(b)
    BY <2>1, <2>2 DEF HasFb, KeepsFb, At
  <2>5. \A b \in Bufs : ~HasFds(b)
    BY <2>1, <2>2 DEF HasFds, KeepsFds, At
  <2>6. HandlesInv'
    BY <1>1, <1>2, <1>4, <2>3 DEF CInv, HandlesInv, HandlesRight, OwnMemory, HandlesKept, kernel
  <2>7. FdsInv'
    BY <1>1, <1>2, <1>4 DEF CInv, FdsInv, OneFd, FdsRight, ClientFdsOpen, FdOfObject, kernel
  <2>8. FbsRight'
    BY <1>1, <1>2, <2>4 DEF FbsRight
  <2>9. FlagRight'
    BY <1>1, <1>2, <1>4, <2>1, <2>2 DEF CInv, FlagRight, At
  <2> QED
    BY <2>6, <2>7, <2>8, <2>9 DEF CInv
<1> QED
  BY <1>3, <1>4

LEMMA ReceiveFdStep ==
  ASSUME IInv, NEW o \in Objects, ReceiveFd(o)
  PROVE  IInv' /\ (CInv => CInv')
<1>1. PICK f \in Fds :
        /\ fdTab[f] = None
        /\ fdTab' = [fdTab EXCEPT ![f] = o] /\ clientFds' = clientFds \cup {f}
  BY FreeFd DEF ReceiveFd, IInv
<1>2. UNCHANGED <<handle, fbTab, allocOnly, buf, job, dropped>>
  BY DEF ReceiveFd
<1>3. /\ Stages' = Stages /\ LiveOK' = LiveOK
      /\ \A b \in Bufs : HasFds(b)' = HasFds(b) /\ HasFb(b)' = HasFb(b)
      /\ \A b, k : Owns(b, k)' = Owns(b, k) /\ OwnsFd(b, k)' = OwnsFd(b, k)
      /\ \A b : PlanesOf(b)' = PlanesOf(b)
      /\ \A t : \A here : At(t, here)' = At(t, here)
  BY <1>2, ClientFrame
<1>4. \A g \in Fds : fdTab'[g] = IF g = f THEN o ELSE fdTab[g]
  BY <1>1 DEF IInv, Typed
<1>5. IInv'
  <2>1. Typed'
    BY <1>1, <1>2 DEF IInv, Typed
  <2>2. OneHandle' /\ FdsKept' /\ FbsKept'
    BY <1>1, <1>2, <1>3, <1>4 DEF IInv, OneHandle, FdsKept, FbsKept
  <2> QED
    BY <1>3, <2>1, <2>2 DEF IInv
<1>6. ASSUME CInv PROVE CInv'
  <2>1. /\ None # o
        /\ \A g \in Fds : fdTab[g] # o
        /\ \A nd \in Nodes, h \in Numbers : handle[nd][h] # o
    BY BufAssumption DEF IInv, Typed, ReceiveFd, Unused, InUse, Range
  <2>2. \A c \in Bufs : \A k \in 1 .. 2 : Owns(c, k) => buf[c].obj[k] # o
    BY <1>6, <2>1, FlagNode DEF CInv, HandlesInv, HandlesRight
  <2>3. \A c \in Bufs : \A k \in 1 .. 2 : OwnsFd(c, k) => buf[c].fd[k] # f /\ buf[c].fd[k] \in Fds \ clientFds
    BY <1>1, <1>6 DEF CInv, FdsInv, FdsRight
  <2>4. HandlesInv' /\ FbsRight' /\ FlagRight'
    BY <1>2, <1>6, OthersSame DEF CInv
  <2>5. OneFd' /\ ClientFdsOpen'
    BY <1>1, <1>4, <1>6, <2>1 DEF CInv, FdsInv, OneFd, ClientFdsOpen, IInv, Typed
  <2>6. FdOfObject'
    BY <1>2, <1>3, <1>4, <1>6, <2>2 DEF CInv, FdsInv, FdOfObject
  <2>7. FdsRight'
    <3> SUFFICES ASSUME NEW c \in Bufs, NEW k \in 1 .. 2, OwnsFd(c, k)
                 PROVE  /\ fdTab'[buf[c].fd[k]] = fdTab[buf[c].fd[k]]
                        /\ buf[c].fd[k] \in Fds \ clientFds'
      BY <1>2, <1>3, <1>6 DEF CInv, FdsInv, FdsRight
    <3> QED
      BY <1>1, <1>4, <2>3
  <2> QED
    BY <2>4, <2>5, <2>6, <2>7 DEF CInv, FdsInv
<1> QED
  BY <1>5, <1>6

LEMMA CloseFdStep ==
  ASSUME IInv, NEW f \in Fds, CloseFd(f)
  PROVE  IInv' /\ (CInv => CInv')
<1>1. /\ f \in clientFds
      /\ fdTab' = [fdTab EXCEPT ![f] = None] /\ clientFds' = clientFds \ {f}
      /\ UNCHANGED <<handle, fbTab, allocOnly, buf, job, dropped>>
  BY DEF CloseFd
<1>2. /\ Stages' = Stages /\ LiveOK' = LiveOK
      /\ \A b \in Bufs : HasFds(b)' = HasFds(b) /\ HasFb(b)' = HasFb(b)
      /\ \A b, k : Owns(b, k)' = Owns(b, k) /\ OwnsFd(b, k)' = OwnsFd(b, k)
      /\ \A b : PlanesOf(b)' = PlanesOf(b)
      /\ \A t : \A here : At(t, here)' = At(t, here)
  BY <1>1, ClientFrame
<1>3. \A g \in Fds : fdTab'[g] = IF g = f THEN None ELSE fdTab[g]
  BY <1>1 DEF IInv, Typed
<1>4. IInv'
  <2>1. Typed'
    BY <1>1 DEF IInv, Typed
  <2>2. OneHandle' /\ FdsKept' /\ FbsKept'
    BY <1>1, <1>2, <1>3 DEF IInv, OneHandle, FdsKept, FbsKept
  <2> QED
    BY <1>2, <2>1, <2>2 DEF IInv
<1>5. ASSUME CInv PROVE CInv'
  <2>1. HandlesInv' /\ FbsRight' /\ FlagRight'
    BY <1>1, <1>5, OthersSame DEF CInv
  <2>2. OneFd' /\ ClientFdsOpen'
    BY <1>1, <1>3, <1>5 DEF CInv, FdsInv, OneFd, ClientFdsOpen, IInv, Typed
  <2>3. None \notin Objects
    BY BufAssumption
  <2>4. FdOfObject'
    BY <1>1, <1>2, <1>3, <1>5, <2>3 DEF CInv, FdsInv, FdOfObject, HandlesInv, HandlesRight
  <2>5. FdsRight'
    <3> SUFFICES ASSUME NEW c \in Bufs, NEW k \in 1 .. 2, OwnsFd(c, k)
                 PROVE  /\ fdTab'[buf[c].fd[k]] = fdTab[buf[c].fd[k]]
                        /\ buf[c].fd[k] \in Fds \ clientFds'
      BY <1>1, <1>2, <1>5 DEF CInv, FdsInv, FdsRight
    <3>1. buf[c].fd[k] \in Fds \ clientFds
      BY <1>5 DEF CInv, FdsInv, FdsRight
    <3> QED
      BY <1>1, <1>3, <3>1
  <2> QED
    BY <2>1, <2>2, <2>4, <2>5 DEF CInv, FdsInv
<1> QED
  BY <1>4, <1>5

LEMMA DupFdStep ==
  ASSUME IInv, NEW f \in Fds, DupFd(f)
  PROVE  IInv' /\ ~Careful
<1>1. PICK g \in Fds :
        /\ fdTab[g] = None
        /\ fdTab' = [fdTab EXCEPT ![g] = fdTab[f]] /\ clientFds' = clientFds \cup {g}
  BY FreeFd DEF DupFd, IInv
<1>2. UNCHANGED <<handle, fbTab, allocOnly, buf, job, dropped>>
  BY DEF DupFd
<1>3. /\ Stages' = Stages /\ LiveOK' = LiveOK
      /\ \A b \in Bufs : HasFds(b)' = HasFds(b) /\ HasFb(b)' = HasFb(b)
      /\ \A b, k : Owns(b, k)' = Owns(b, k) /\ OwnsFd(b, k)' = OwnsFd(b, k)
      /\ \A b : PlanesOf(b)' = PlanesOf(b)
      /\ \A t : \A here : At(t, here)' = At(t, here)
  BY <1>2, ClientFrame
<1>4. \A h \in Fds : fdTab'[h] = IF h = g THEN fdTab[f] ELSE fdTab[h]
  BY <1>1 DEF IInv, Typed
<1>5. Typed'
  BY <1>1, <1>2 DEF IInv, Typed
<1>6. OneHandle' /\ FdsKept' /\ FbsKept'
  BY <1>1, <1>2, <1>3, <1>4 DEF IInv, OneHandle, FdsKept, FbsKept
<1> QED
  BY <1>3, <1>5, <1>6 DEF IInv, DupFd, Careful

-----------------------------------------------------------------------------
(* Both parts of the invariant are inductive: the first whatever the       *)
(* client does, the second with a careful one.                             *)
LEMMA InitInvs == Init => IInv /\ CInv
<1> SUFFICES ASSUME Init PROVE IInv /\ CInv
  OBVIOUS
<1>1. \A b \in Bufs : buf[b] = NoBuf
  BY DEF Init
<1>2. \A t \in Threads : job[t] = Idle
  BY DEF Init
<1>3. /\ \A nd \in Nodes, h \in Numbers : handle[nd][h] = None
      /\ \A f \in Fds : fdTab[f] = None
      /\ \A n \in Numbers : fbTab[n] = {}
      /\ clientFds = {} /\ allocOnly = FALSE
      /\ dropped.handles = {} /\ dropped.fds = {}
  BY DEF Init
<1>4. Typed
  BY Ended DEF Init, Typed
<1>5. Stages /\ LiveOK
  BY <1>1, <1>2, Ended DEF Stages, LiveOK, At
<1>6. OneHandle /\ FdsKept /\ FbsKept
  BY <1>3 DEF OneHandle, FdsKept, FbsKept
<1>7. \A b \in Bufs : /\ ~HasFds(b) /\ ~HasFb(b)
                      /\ \A k \in 1 .. 2 : ~Owns(b, k) /\ ~OwnsFd(b, k)
  BY <1>1, <1>2, Ended DEF HasFds, HasFb, Owns, OwnsFd, Keeps, KeepsFds, KeepsFb
<1>8. HandlesInv
  BY <1>3, <1>7 DEF HandlesInv, HandlesRight, OwnMemory, HandlesKept
<1>9. FdsInv
  BY <1>3, <1>7 DEF FdsInv, OneFd, FdsRight, ClientFdsOpen, FdOfObject
<1>10. FbsRight /\ FlagRight
  BY <1>1, <1>2, <1>3, <1>7, Ended DEF FbsRight, FlagRight, At
<1> QED
  BY <1>4, <1>5, <1>6, <1>8, <1>9, <1>10 DEF IInv, CInv

LEMMA NextInvs ==
  ASSUME IInv, [Next]_vars
  PROVE  IInv' /\ (Careful /\ CInv => CInv')
<1>1. CASE UNCHANGED vars
  <2>1. UNCHANGED <<buf, job>>
    BY <1>1 DEF vars
  <2>2. IInv'
    BY <1>1, <2>1, ClientFrame DEF vars, kernel, IInv, Typed, OneHandle, FdsKept, FbsKept
  <2>3. CInv => CInv'
    BY <1>1, <2>1, ClientFrame
    DEF vars, kernel, CInv, HandlesInv, HandlesRight, OwnMemory, HandlesKept, FdsInv, OneFd,
        FdsRight, ClientFdsOpen, FdOfObject, FbsRight, FlagRight, Node
  <2> QED
    BY <2>2, <2>3
<1>2. ASSUME NEW flag \in BOOLEAN, SetAllocOnly(flag) PROVE IInv' /\ (Careful /\ CInv => CInv')
  BY <1>2, SetAllocOnlyStep
<1>3. ASSUME NEW o \in Objects, ReceiveFd(o) PROVE IInv' /\ (Careful /\ CInv => CInv')
  BY <1>3, ReceiveFdStep
<1>4. ASSUME NEW f \in Fds, CloseFd(f) \/ DupFd(f) PROVE IInv' /\ (Careful /\ CInv => CInv')
  BY <1>4, CloseFdStep, DupFdStep
<1>5. ASSUME NEW t \in Threads, NEW b \in Bufs,
             \/ \E n \in Planes : AllocBuf(t, b, n)
             \/ \E fds \in FdLists : ImportBuf(t, b, fds)
             \/ FreeBuf(t, b)
      PROVE  IInv' /\ (Careful /\ CInv => CInv')
  BY <1>5, AllocBufStep, ImportBufStep, FreeBufStep
<1>6. ASSUME NEW t \in Threads, Step(t) PROVE IInv' /\ (Careful /\ CInv => CInv')
  BY <1>6, CreateBoStep, CreateBoFailsStep, ExportBoStep, ExportBoFailsStep, AddFbStep,
     AddFbFailsStep, BufReadyStep, ImportBoStep, ImportBoFailsStep, CloseFdsStep, RmFbStep,
     DestroyBoStep, DestroyBoFailsStep, FreeDoneStep DEF Step
<1> QED
  BY <1>1, <1>2, <1>3, <1>4, <1>5, <1>6 DEF Next

(* Every reachable state satisfies the invariant, whatever the client does *)
(* with alloc_only, imports and descriptors between the library's calls.   *)
THEOREM Invariance == Spec => []IInv
<1>1. Init => IInv
  BY InitInvs
<1>2. IInv /\ [Next]_vars => IInv'
  BY NextInvs
<1> QED
  BY <1>1, <1>2, PTL DEF Spec

(* The types, and no two calls ever work on the same struct drm_buf; a     *)
(* call that is under way has one that its client does not have yet, or no *)
(* longer.                                                                 *)
THEOREM TypeCorrect == Spec => []TypeOK
<1>1. ASSUME IInv PROVE TypeOK
  <2>1. ASSUME NEW t \in Threads, ~At(t, "idle")
        PROVE  /\ buf[job[t].b].st \in {"building", "freeing"}
               /\ \A u \in Threads \ {t} : job[u].b # job[t].b
    <3>1. StageOK(job[t], buf[job[t].b]) /\ job[t] \in Job
      BY <1>1, <2>1 DEF IInv, Stages, Typed
    <3> QED
      BY <1>1, <2>1, <3>1 DEF IInv, Stages, StageOK, Building, Freeing, Job, At
  <2> QED
    BY <1>1, <2>1 DEF IInv, Typed, TypeOK
<1> QED
  BY <1>1, Invariance, PTL

(* Whatever the client does, and wherever a call fails, every dma-buf      *)
(* descriptor and every framebuffer of the library belongs to a buffer     *)
(* that is in use or on its way, but for the descriptor of a first plane   *)
(* whose call gave up at its second.                                       *)
THEOREM FdsAndFbsNotLost == Spec => []FdsAndFbsReleased
<1>1. ASSUME IInv PROVE FdsAndFbsReleased
  <2>1. ASSUME NEW b \in Bufs, HasFds(b) \/ HasFb(b) PROVE b \in Allocated
    <3>1. CASE buf[b].st = "live"
      BY <3>1 DEF Allocated
    <3>2. CASE buf[b].st # "live"
      <4>1. PICK t \in Threads : job[t].b = b /\ (KeepsFds(job[t]) \/ KeepsFb(job[t]))
        BY <2>1, <3>2 DEF HasFds, HasFb
      <4>2. ~At(t, "idle")
        BY <4>1 DEF KeepsFds, KeepsFb, At
      <4>3. StageOK(job[t], buf[b])
        BY <1>1, <4>1, <4>2 DEF IInv, Stages
      <4> QED
        BY <4>1, <4>3 DEF StageOK, KeepsFds, KeepsFb, Building, Freeing, Allocated
    <3> QED
      BY <3>1, <3>2
  <2>2. LostFds \subseteq dropped.fds
    BY <1>1, <2>1 DEF IInv, FdsKept, LostFds
  <2>3. LostFbs = {}
    BY <1>1, <2>1 DEF IInv, FbsKept, LostFbs
  <2> QED
    BY <2>2, <2>3 DEF FdsAndFbsReleased
<1> QED
  BY <1>1, Invariance, PTL

-----------------------------------------------------------------------------
(* With a careful client, every reachable state satisfies the invariant on *)
(* who owns which handle, descriptor and framebuffer.                      *)
THEOREM CarefulInvariance == Careful => (Spec => [](IInv /\ CInv))
<1> SUFFICES ASSUME Careful PROVE Spec => [](IInv /\ CInv)
  OBVIOUS
<1>1. Init => IInv /\ CInv
  BY InitInvs
<1>2. IInv /\ CInv /\ [Next]_vars => (IInv /\ CInv)'
  BY NextInvs
<1> QED
  BY <1>1, <1>2, PTL DEF Spec

(* A buffer the client has keeps its memory, its descriptors and its       *)
(* framebuffer while other threads allocate, import, fail and free.        *)
THEOREM LiveBuffersStayUsable == Careful => (Spec => []LiveBuffersUsable)
<1> SUFFICES ASSUME Careful PROVE Spec => []LiveBuffersUsable
  OBVIOUS
<1>1. ASSUME IInv, CInv PROVE LiveBuffersUsable
  <2> SUFFICES ASSUME NEW b \in Bufs, buf[b].st = "live"
               PROVE  /\ \A k \in PlanesOf(b) :
                           /\ handle[buf[b].node][buf[b].bo[k]] = buf[b].obj[k]
                           /\ buf[b].fd[k] # 0 => fdTab[buf[b].fd[k]] = buf[b].obj[k]
                      /\ buf[b].fb # 0 => fbTab[buf[b].fb] = {buf[b].obj[k] : k \in PlanesOf(b)}
    BY DEF LiveBuffersUsable
  <2>1. ASSUME NEW k \in PlanesOf(b)
        PROVE  /\ handle[buf[b].node][buf[b].bo[k]] = buf[b].obj[k]
               /\ buf[b].fd[k] # 0 => fdTab[buf[b].fd[k]] = buf[b].obj[k]
    <3>1. k \in 1 .. 2
      BY <1>1 DEF IInv, Typed, Buf, PlanesOf
    <3>2. Owns(b, k) /\ (buf[b].fd[k] # 0 => OwnsFd(b, k))
      BY <3>1 DEF Owns, OwnsFd, HasFds
    <3> QED
      BY <1>1, <3>1, <3>2 DEF CInv, HandlesInv, HandlesRight, FdsInv, FdsRight
  <2>2. buf[b].fb # 0 => fbTab[buf[b].fb] = {buf[b].obj[k] : k \in PlanesOf(b)}
    BY <1>1 DEF CInv, FbsRight, HasFb
  <2> QED
    BY <2>1, <2>2
<1> QED
  BY <1>1, CarefulInvariance, PTL

(* With a careful client no GEM handle is left without a buffer but that   *)
(* of a first plane whose call gave up at its second.                      *)
THEOREM HandlesNotLost == Careful => (Spec => []HandlesLeakOnlyOnGivingUp)
<1> SUFFICES ASSUME Careful PROVE Spec => []HandlesLeakOnlyOnGivingUp
  OBVIOUS
<1>1. ASSUME IInv, CInv PROVE HandlesLeakOnlyOnGivingUp
  <2> SUFFICES ASSUME NEW nh \in LostHandles, nh \notin dropped.handles PROVE FALSE
    BY DEF HandlesLeakOnlyOnGivingUp
  <2>1. PICK nd \in Nodes, h \in Numbers : nh = <<nd, h>>
    BY DEF LostHandles
  <2>2. /\ handle[nd][h] # None
        /\ \A b \in Allocated : nd = buf[b].node => h \notin Range(buf[b].bo)
    BY <2>1 DEF LostHandles
  <2>3. PICK b \in Bufs, k \in 1 .. 2 : Owns(b, k) /\ buf[b].node = nd /\ buf[b].bo[k] = h
    BY <1>1, <2>1, <2>2 DEF CInv, HandlesInv, HandlesKept
  <2>4. h \in Range(buf[b].bo)
    BY <1>1, <2>3 DEF IInv, Typed, Buf, Range
  <2>5. b \in Allocated
    <3>1. CASE buf[b].st = "live"
      BY <3>1 DEF Allocated
    <3>2. CASE buf[b].st # "live"
      <4>1. PICK t \in Threads : job[t].b = b /\ Keeps(job[t], k)
        BY <2>3, <3>2 DEF Owns
      <4>2. ~At(t, "idle")
        BY <4>1 DEF Keeps, At
      <4>3. StageOK(job[t], buf[b])
        BY <1>1, <4>1, <4>2 DEF IInv, Stages
      <4> QED
        BY <4>1, <4>3 DEF StageOK, Keeps, Building, Freeing, Allocated
    <3> QED
      BY <3>1, <3>2
  <2> QED
    BY <2>2, <2>3, <2>4, <2>5
<1> QED
  BY <1>1, CarefulInvariance, PTL

-----------------------------------------------------------------------------
(* The refinement of BufferPool: what its variables are here.              *)
Memory(b) == IF buf[b].st = "live" THEN {buf[b].obj[k] : k \in PlanesOf(b)} ELSE {}
Taken     == Objects \ Unused

TakenOK ==
  \A o \in Objects : o \in Taken <=>
    \/ \E nd \in Nodes, h \in Numbers : handle[nd][h] = o
    \/ \E f \in Fds : fdTab[f] = o
    \/ \E n \in Numbers : o \in fbTab[n]
MemoryOK ==
  /\ \A b \in Bufs : Memory(b) \subseteq Taken /\ Memory(b) \subseteq Objects
  /\ \A b, c \in Bufs : b # c => Memory(b) \cap Memory(c) = {}

LEMMA TakenIs == IInv => TakenOK
BY DEF IInv, Typed, TakenOK, Taken, Unused, InUse, Range

LEMMA MemoryRight == IInv /\ CInv => MemoryOK
<1> SUFFICES ASSUME IInv, CInv PROVE MemoryOK
  OBVIOUS
<1>1. ASSUME NEW b \in Bufs, NEW o \in Memory(b)
      PROVE  \E k \in 1 .. 2 : Owns(b, k) /\ buf[b].obj[k] = o
  <2>1. PICK k \in PlanesOf(b) : buf[b].st = "live" /\ buf[b].obj[k] = o
    BY DEF Memory
  <2>2. k \in 1 .. 2
    BY DEF IInv, Typed, Buf, PlanesOf
  <2> QED
    BY <2>1, <2>2 DEF Owns
<1>2. ASSUME NEW b \in Bufs, NEW o \in Memory(b) PROVE o \in Taken /\ o \in Objects
  <2>1. PICK k \in 1 .. 2 : Owns(b, k) /\ buf[b].obj[k] = o
    BY <1>1
  <2>2. o \in Objects /\ \E h \in Numbers : handle[Node][h] = o
    BY <2>1 DEF CInv, HandlesInv, HandlesRight
  <2> QED
    BY <2>2, TakenIs, FlagNode DEF TakenOK
<1>3. ASSUME NEW b \in Bufs, NEW c \in Bufs, NEW o \in Memory(b) \cap Memory(c) PROVE b = c
  BY <1>1 DEF CInv, HandlesInv, OwnMemory
<1> QED
  BY <1>2, <1>3 DEF MemoryOK

(* Memory that is no longer in use was no live buffer's.                   *)
LEMMA PoolRelease ==
  ASSUME IInv', CInv', \A b \in Bufs : Memory(b)' = Memory(b),
         \A o \in Objects : o \in Taken' => o \in Taken
  PROVE  Pool!Next
<1>1. MemoryOK'
  BY MemoryRight, PTL
<1> DEFINE S == Taken \ Taken'
<1>2. S \in SUBSET Objects /\ \A b \in Bufs : S \cap Memory(b) = {}
  BY <1>1 DEF Taken, MemoryOK
<1>3. Taken' = Taken \ S
  BY DEF Taken
<1>4. [b \in Bufs |-> Memory(b)]' = [b \in Bufs |-> Memory(b)]
  OBVIOUS
<1> HIDE DEF S
<1>5. Pool!Release(S)
  BY <1>2, <1>3, <1>4 DEF Pool!Release, Memory, Taken
<1> QED
  BY <1>2, <1>5 DEF Pool!Next

(* A step inside a call takes no buffer from a client; it gives one only   *)
(* when the call returns.                                                  *)
LEMMA MemorySame ==
  ASSUME IInv, NEW t \in Threads, Step(t), ~BufReady(t)
  PROVE  \A c \in Bufs : Memory(c)' = Memory(c)
<1> USE DEF IInv
<1>1. ~At(t, "idle")
  BY DEF Step, CreateBo, CreateBoFails, ExportBo, ExportBoFails, AddFb, AddFbFails, ImportBo,
         ImportBoFails, CloseFds, RmFb, DestroyBo, DestroyBoFails, FreeDone, At
<1>2. PICK b \in Bufs : job[t].b = b /\ job[t] \in Job /\ buf[b] \in Buf /\ StageOK(job[t], buf[b])
  BY <1>1, InCall
<1>3. buf[b].st # "live"
  BY <1>1, <1>2 DEF StageOK, Building, Freeing, Job, At
<1>4. (\A c \in Bufs \ {b} : buf'[c] = buf[c]) /\ buf'[b].st # "live"
  <2>1. CASE CreateBo(t)
    <3> DEFINE h == Lowest(FreeIn(handle[Node], None))
               k == job[t].k
    <3>1. PICK o \in Unused \ Foreign :
            buf' = [buf EXCEPT ![b].bo[k] = h, ![b].obj[k] = o, ![b].node = Node]
      BY <1>2, <2>1 DEF CreateBo
    <3> HIDE DEF h, k
    <3> QED
      BY <1>2, <1>3, <3>1 DEF Typed, Buf
  <2>2. CASE CreateBoFails(t) \/ ImportBoFails(t) \/ FreeDone(t)
    BY <1>2, <2>2, Ended DEF CreateBoFails, ImportBoFails, FreeDone, Typed
  <2>3. CASE ExportBo(t)
    BY <1>2, <1>3, <2>3 DEF ExportBo, Typed, Buf
  <2>7. CASE AddFb(t)
    BY <1>2, <1>3, <2>7 DEF AddFb, Typed, Buf
  <2>8. CASE ImportBo(t)
    BY <1>2, <1>3, <2>8 DEF ImportBo, Typed, Buf
  <2>4. CASE AddFbFails(t)
    BY <1>2, <1>3, <2>4 DEF AddFbFails, Typed, Buf
  <2>5. CASE DestroyBoFails(t)
    BY <1>2, <2>5 DEF DestroyBoFails, Typed, Buf
  <2>6. CASE ExportBoFails(t) \/ CloseFds(t) \/ RmFb(t) \/ DestroyBo(t)
    BY <1>2, <1>3, <2>6 DEF ExportBoFails, CloseFds, RmFb, DestroyBo
  <2> QED
    BY <2>1, <2>2, <2>3, <2>4, <2>5, <2>6, <2>7, <2>8 DEF Step
<1> QED
  BY <1>3, <1>4 DEF Memory, PlanesOf

(* A kernel call of the library puts memory in use only by creating it:    *)
(* the others hand on what is in use, or let it go.                        *)
LEMMA TakenShrinks ==
  ASSUME IInv, IInv', NEW t \in Threads, Step(t), ~CreateBo(t), NEW o \in Objects, o \in Taken'
  PROVE  o \in Taken
<1> USE DEF IInv
<1>1. TakenOK /\ TakenOK'
  BY TakenIs, PTL
<1> SUFFICES \/ \E nd \in Nodes, h \in Numbers : handle[nd][h] = o
             \/ \E f \in Fds : fdTab[f] = o
             \/ \E n \in Numbers : o \in fbTab[n]
  BY <1>1 DEF TakenOK
<1>2. \/ \E nd \in Nodes, h \in Numbers : handle'[nd][h] = o
      \/ \E f \in Fds : fdTab'[f] = o
      \/ \E n \in Numbers : o \in fbTab'[n]
  BY <1>1 DEF TakenOK
<1>3. None # o
  BY BufAssumption
<1>4. CASE UNCHANGED kernel
  BY <1>2, <1>4 DEF kernel
<1>5. ASSUME ~At(t, "idle")
      PROVE  \E b \in Bufs : job[t].b = b /\ job[t] \in Job /\ buf[b] \in Buf /\ StageOK(job[t], buf[b])
  BY <1>5, InCall
<1>6. CASE ExportBo(t)
  <2>1. job[t].at = "export"
    BY <1>6 DEF ExportBo, At
  <2>2. PICK b \in Bufs : job[t].b = b /\ job[t] \in Job /\ buf[b] \in Buf /\ StageOK(job[t], buf[b])
    BY <1>5, <2>1 DEF At
  <2>3. PICK k \in 1 .. 2 : job[t].k = k /\ buf[b].bo[k] \in Numbers
    BY <2>1, <2>2 DEF StageOK, Keeps, Buf
  <2>4. PICK f \in Fds : fdTab' = [fdTab EXCEPT ![f] = handle[Node][buf[b].bo[k]]]
    BY <1>6, <2>2, <2>3, FreeFd DEF ExportBo
  <2>5. UNCHANGED <<handle, fbTab>>
    BY <1>6 DEF ExportBo
  <2>6. \A g \in Fds : fdTab'[g] = IF g = f THEN handle[Node][buf[b].bo[k]] ELSE fdTab[g]
    BY <2>4 DEF Typed
  <2> QED
    BY <1>2, <2>3, <2>5, <2>6, FlagNode
<1>7. CASE AddFb(t)
  <2>1. job[t].at = "addfb"
    BY <1>7 DEF AddFb, At
  <2>2. PICK b \in Bufs : job[t].b = b /\ job[t] \in Job /\ buf[b] \in Buf /\ StageOK(job[t], buf[b])
    BY <1>5, <2>1 DEF At
  <2>3. \A k \in 1 .. buf[b].nbo : buf[b].bo[k] \in Numbers
    BY <2>1, <2>2 DEF StageOK, Keeps
  <2> DEFINE held == {handle["primary"][buf[b].bo[k]] : k \in 1 .. buf[b].nbo}
  <2>4. PICK m \in Numbers : fbTab' = [fbTab EXCEPT ![m] = held]
    BY <1>7, <2>2, FreeFb DEF AddFb
  <2>5. UNCHANGED <<handle, fdTab>>
    BY <1>7 DEF AddFb
  <2>6. \A n \in Numbers : fbTab'[n] = IF n = m THEN held ELSE fbTab[n]
    BY <2>4 DEF Typed
  <2>7. o \in held => \E h \in Numbers : handle["primary"][h] = o
    BY <2>3
  <2> HIDE DEF held
  <2> QED
    BY <1>2, <2>5, <2>6, <2>7 DEF Nodes
<1>8. CASE ImportBo(t)
  <2>1. job[t].at = "import"
    BY <1>8 DEF ImportBo, At
  <2>2. PICK b \in Bufs : job[t].b = b /\ job[t] \in Job /\ buf[b] \in Buf /\ StageOK(job[t], buf[b])
    BY <1>5, <2>1 DEF At
  <2>3. PICK k \in 1 .. 2 : job[t].k = k /\ buf[b].fd[k] \in Fds
    BY <2>1, <2>2 DEF StageOK, Buf
  <2>4. PICK h : handle' = [handle EXCEPT !["primary"][h] = fdTab[buf[b].fd[k]]]
    BY <1>8, <2>2, <2>3 DEF ImportBo
  <2>5. UNCHANGED <<fdTab, fbTab>>
    BY <1>8 DEF ImportBo
  <2>6. \A nd \in Nodes, g \in Numbers : handle'[nd][g] \in {handle[nd][g], fdTab[buf[b].fd[k]]}
    BY <2>4 DEF Typed, Nodes
  <2> QED
    BY <1>2, <2>3, <2>5, <2>6
<1>9. CASE CloseFds(t)
  BY <1>2, <1>3, <1>9 DEF CloseFds, Typed
<1>10. CASE RmFb(t)
  BY <1>2, <1>10 DEF RmFb, Typed
<1>11. CASE DestroyBo(t)
  <2>1. \A nd \in Nodes, g \in Numbers : handle'[nd][g] \in {handle[nd][g], None}
    BY <1>11 DEF DestroyBo, Typed, Nodes
  <2>2. UNCHANGED <<fdTab, fbTab>>
    BY <1>11 DEF DestroyBo
  <2> QED
    BY <1>2, <1>3, <2>1, <2>2
<1>12. CASE \/ CreateBoFails(t) \/ ExportBoFails(t) \/ AddFbFails(t) \/ BufReady(t)
            \/ ImportBoFails(t) \/ DestroyBoFails(t) \/ FreeDone(t)
  BY <1>4, <1>12 DEF CreateBoFails, ExportBoFails, AddFbFails, BufReady, ImportBoFails,
                     DestroyBoFails, FreeDone
<1> QED
  BY <1>6, <1>7, <1>8, <1>9, <1>10, <1>11, <1>12 DEF Step

LEMMA PoolStep ==
  ASSUME Careful, IInv, CInv, [Next]_vars
  PROVE  [Pool!Next]_(Pool!poolVars)
<1>1. IInv' /\ CInv'
  BY NextInvs
<1>2. TakenOK /\ TakenOK' /\ MemoryOK /\ MemoryOK'
  BY <1>1, TakenIs, MemoryRight, PTL
<1>3. ASSUME \A b \in Bufs : Memory(b)' = Memory(b), \A o \in Objects : o \in Taken' => o \in Taken
      PROVE  Pool!Next
  BY <1>1, <1>3, PoolRelease
<1>4. ASSUME NEW o \in Objects, o \notin Taken, \A b \in Bufs : Memory(b)' = Memory(b),
             \A p \in Objects : p \in Taken' <=> p \in Taken \/ p = o
      PROVE  Pool!Next
  <2>1. Taken' = Taken \cup {o}
    BY <1>4 DEF Taken
  <2>2. [b \in Bufs |-> Memory(b)]' = [b \in Bufs |-> Memory(b)]
    BY <1>4
  <2>3. Pool!Take(o)
    BY <1>4, <2>1, <2>2 DEF Pool!Take, Memory, Taken
  <2> QED
    BY <2>3 DEF Pool!Next
<1>5. UNCHANGED kernel => Taken' = Taken
  BY DEF Taken, Unused, InUse, kernel
<1>6. UNCHANGED buf => \A b \in Bufs : Memory(b)' = Memory(b)
  BY DEF Memory, PlanesOf
<1>7. CASE UNCHANGED vars
  BY <1>3, <1>5, <1>6, <1>7 DEF vars
<1>8. ASSUME NEW flag \in BOOLEAN, SetAllocOnly(flag) PROVE Pool!Next
  BY <1>3, <1>5, <1>6, <1>8 DEF SetAllocOnly
<1>9. ASSUME NEW o \in Objects, ReceiveFd(o) PROVE Pool!Next
  <2>1. PICK f \in Fds : fdTab[f] = None /\ fdTab' = [fdTab EXCEPT ![f] = o]
    BY <1>9, FreeFd DEF ReceiveFd, IInv
  <2>2. \A g \in Fds : fdTab'[g] = IF g = f THEN o ELSE fdTab[g]
    BY <2>1 DEF IInv, Typed
  <2>3. UNCHANGED <<handle, fbTab, buf>> /\ o \notin Taken
    BY <1>9 DEF ReceiveFd, Taken
  <2>4. None \notin Objects
    BY BufAssumption
  <2>5. \A p \in Objects : p \in Taken' <=> p \in Taken \/ p = o
    BY <1>2, <2>1, <2>2, <2>3, <2>4 DEF TakenOK
  <2> QED
    BY <1>4, <1>6, <2>3, <2>5
<1>10. ASSUME NEW f \in Fds, CloseFd(f) PROVE Pool!Next
  <2>1. \A g \in Fds : fdTab'[g] = IF g = f THEN None ELSE fdTab[g]
    BY <1>10 DEF CloseFd, IInv, Typed
  <2>2. UNCHANGED <<handle, fbTab, buf>> /\ None \notin Objects
    BY <1>10, BufAssumption DEF CloseFd
  <2>3. \A o \in Objects : o \in Taken' => o \in Taken
    BY <1>2, <2>1, <2>2 DEF TakenOK
  <2> QED
    BY <1>3, <1>6, <2>2, <2>3
<1>11. ASSUME NEW f \in Fds, DupFd(f) PROVE FALSE
  BY <1>11 DEF DupFd, Careful
<1>12. ASSUME NEW t \in Threads, NEW b \in Bufs,
              (\E n \in Planes : AllocBuf(t, b, n)) \/ (\E fds \in FdLists : ImportBuf(t, b, fds))
       PROVE  Pool!Next
  <2>1. UNCHANGED kernel /\ buf[b].st = "free"
    BY <1>12 DEF AllocBuf, ImportBuf
  <2>2. (\A c \in Bufs \ {b} : buf'[c] = buf[c]) /\ buf'[b].st = "building"
    <3>1. ASSUME NEW n \in Planes, AllocBuf(t, b, n)
          PROVE  (\A c \in Bufs \ {b} : buf'[c] = buf[c]) /\ buf'[b].st = "building"
      BY <3>1, Ended DEF AllocBuf, IInv, Typed, Buf
    <3>2. ASSUME NEW fds \in FdLists, ImportBuf(t, b, fds)
          PROVE  (\A c \in Bufs \ {b} : buf'[c] = buf[c]) /\ buf'[b].st = "building"
      BY <3>2, Ended DEF ImportBuf, IInv, Typed, Buf
    <3> QED
      BY <1>12, <3>1, <3>2
  <2>3. \A c \in Bufs : Memory(c)' = Memory(c)
    BY <2>1, <2>2 DEF Memory, PlanesOf
  <2> QED
    BY <1>3, <1>5, <2>1, <2>3
<1>13. ASSUME NEW t \in Threads, NEW b \in Bufs, FreeBuf(t, b) PROVE Pool!Next
  <2>1. UNCHANGED kernel /\ (\A c \in Bufs \ {b} : buf'[c] = buf[c]) /\ buf'[b].st = "freeing"
    BY <1>13 DEF FreeBuf, IInv, Typed, Buf
  <2>2. \A c \in Bufs : Memory(c)' = IF c = b THEN {} ELSE Memory(c)
    BY <2>1 DEF Memory, PlanesOf
  <2>3. [c \in Bufs |-> Memory(c)]' = [[c \in Bufs |-> Memory(c)] EXCEPT ![b] = {}]
    BY <2>2
  <2>4. Taken' = Taken
    BY <1>5, <2>1
  <2>5. Pool!Withdraw(b)
    BY <2>3, <2>4 DEF Pool!Withdraw, Memory, Taken
  <2> QED
    BY <2>5 DEF Pool!Next
<1>14. ASSUME NEW t \in Threads, BufReady(t) PROVE Pool!Next
  <2>1. job[t].at = "done"
    BY <1>14 DEF BufReady, At
  <2>2. PICK b \in Bufs : job[t].b = b /\ buf[b] \in Buf /\ StageOK(job[t], buf[b])
    BY <2>1, InCall DEF At
  <2>3. UNCHANGED kernel /\ \A c \in Bufs \ {b} : buf'[c] = buf[c]
    BY <1>14, <2>2 DEF BufReady
  <2>4. Memory(b) = {} /\ \A c \in Bufs \ {b} : Memory(c)' = Memory(c)
    BY <2>1, <2>2, <2>3 DEF StageOK, Building, Memory, PlanesOf
  <2>5. Taken' = Taken
    BY <1>5, <2>3
  <2>6. PICK S \in SUBSET Objects : S = Memory(b)'
    BY <1>2 DEF MemoryOK
  <2>7. S \subseteq Taken /\ \A c \in Bufs : S \cap Memory(c) = {}
    BY <1>2, <2>4, <2>5, <2>6 DEF MemoryOK
  <2>8. [c \in Bufs |-> Memory(c)]' = [[c \in Bufs |-> Memory(c)] EXCEPT ![b] = S]
    BY <2>4, <2>6
  <2>9. Pool!Give(b, S)
    BY <2>4, <2>5, <2>7, <2>8 DEF Pool!Give, Memory, Taken
  <2> QED
    BY <2>9 DEF Pool!Next
<1>15. ASSUME NEW t \in Threads, CreateBo(t) PROVE Pool!Next
  <2>1. PICK o \in Unused \ Foreign, h \in Numbers :
          handle[Node][h] = None /\ handle' = [handle EXCEPT ![Node][h] = o]
    BY <1>15, FreeHandle, FlagNode DEF CreateBo, IInv
  <2>2. \A nd \in Nodes, g \in Numbers :
          handle'[nd][g] = IF nd = Node /\ g = h THEN o ELSE handle[nd][g]
    BY <2>1, FlagNode DEF IInv, Typed
  <2>3. UNCHANGED <<fdTab, fbTab>>
    BY <1>15 DEF CreateBo
  <2>4. o \in Objects /\ o \notin Taken /\ None \notin Objects
    BY <2>1, BufAssumption DEF Taken, Unused
  <2>5. \A p \in Objects : p \in Taken' <=> p \in Taken \/ p = o
    BY <1>2, <2>1, <2>2, <2>3, <2>4, FlagNode DEF TakenOK
  <2>6. \A c \in Bufs : Memory(c)' = Memory(c)
    <3>1. Step(t) /\ ~BufReady(t)
      BY <1>15 DEF Step, CreateBo, BufReady, At
    <3> QED
      BY <3>1, MemorySame
  <2> QED
    BY <1>4, <2>4, <2>5, <2>6
<1>16. ASSUME NEW t \in Threads, Step(t) PROVE Pool!Next
  <2>1. CASE BufReady(t)
    BY <1>14, <2>1
  <2>2. CASE CreateBo(t)
    BY <1>15, <2>2
  <2>3. CASE ~BufReady(t) /\ ~CreateBo(t)
    <3>1. \A c \in Bufs : Memory(c)' = Memory(c)
      BY <1>16, <2>3, MemorySame
    <3>2. \A o \in Objects : o \in Taken' => o \in Taken
      BY <1>1, <1>16, <2>3, TakenShrinks
    <3> QED
      BY <1>3, <3>1, <3>2
  <2> QED
    BY <2>1, <2>2, <2>3
<1> QED
  BY <1>7, <1>8, <1>9, <1>10, <1>11, <1>12, <1>13, <1>16 DEF Next

(* The buffers of drm_alloc_buf, drm_import_buf and drm_free_buf are a     *)
(* BufferPool: the memory of a buffer is its own from the call that        *)
(* returns it until the call that gives it back, whatever other threads    *)
(* are doing, however many buffers and descriptors there are.              *)
THEOREM BuffersAreAPool == Careful => (Spec => PoolSpec)
<1> SUFFICES ASSUME Careful PROVE Spec => PoolSpec
  OBVIOUS
<1>1. Init => Pool!Init
  <2> SUFFICES ASSUME Init PROVE Pool!Init
    OBVIOUS
  <2>1. \A b \in Bufs : Memory(b) = {}
    BY Ended DEF Init, Memory
  <2>2. Taken = {}
    BY InitInvs, TakenIs, BufAssumption DEF TakenOK, Init, Taken
  <2> QED
    BY <2>1, <2>2 DEF Pool!Init, Memory, Taken
<1>2. IInv /\ CInv /\ [Next]_vars => [Pool!Next]_(Pool!poolVars)
  BY PoolStep
<1> QED
  BY <1>1, <1>2, CarefulInvariance, PTL DEF Spec, PoolSpec, Pool!Spec

(* What a BufferPool promises holds in every step of one.                  *)
LEMMA PoolKeepsApart == Pool!Exclusive /\ [Pool!Next]_(Pool!poolVars) => Pool!Exclusive'
<1> SUFFICES ASSUME Pool!Exclusive, [Pool!Next]_(Pool!poolVars) PROVE Pool!Exclusive'
  OBVIOUS
<1> DEFINE owned == [b \in Bufs |-> IF buf[b].st = "live"
                                    THEN {buf[b].obj[k] : k \in PlanesOf(b)} ELSE {}]
           inUse == Objects \ Unused
           Apart == /\ \A b, c \in Bufs : b # c => owned[b] \cap owned[c] = {}
                    /\ \A b \in Bufs : owned[b] \subseteq inUse
<1>1. Apart /\ DOMAIN owned = Bufs
  BY DEF Pool!Exclusive
<1>2. (Pool!Exclusive)' <=> Apart'
  BY DEF Pool!Exclusive
<1>3. \/ owned' = owned /\ inUse' = inUse
      \/ \E o \in Objects : inUse' = inUse \cup {o} /\ owned' = owned
      \/ \E S \in SUBSET Objects : /\ \A c \in Bufs : S \cap owned[c] = {}
                                   /\ inUse' = inUse \ S /\ owned' = owned
      \/ \E b \in Bufs : owned' = [owned EXCEPT ![b] = {}] /\ inUse' = inUse
      \/ \E b \in Bufs, S \in SUBSET Objects :
           /\ S \subseteq inUse /\ \A c \in Bufs : S \cap owned[c] = {}
           /\ owned' = [owned EXCEPT ![b] = S] /\ inUse' = inUse
  BY DEF Pool!Next, Pool!Take, Pool!Release, Pool!Withdraw, Pool!Give, Pool!poolVars
<1> HIDE DEF owned, inUse
<1>4. CASE owned' = owned /\ inUse' = inUse
  BY <1>1, <1>2, <1>4
<1>5. ASSUME NEW o \in Objects, inUse' = inUse \cup {o}, owned' = owned PROVE Apart'
  BY <1>1, <1>5
<1>6. ASSUME NEW S \in SUBSET Objects, \A c \in Bufs : S \cap owned[c] = {},
             inUse' = inUse \ S, owned' = owned
      PROVE  Apart'
  BY <1>1, <1>6
<1>7. ASSUME NEW b \in Bufs, owned' = [owned EXCEPT ![b] = {}], inUse' = inUse PROVE Apart'
  BY <1>1, <1>7
<1>8. ASSUME NEW b \in Bufs, NEW S \in SUBSET Objects,
             S \subseteq inUse, \A c \in Bufs : S \cap owned[c] = {},
             owned' = [owned EXCEPT ![b] = S], inUse' = inUse
      PROVE  Apart'
  <2>1. \A c \in Bufs : owned'[c] = IF c = b THEN S ELSE owned[c]
    BY <1>1, <1>8
  <2> QED
    BY <1>1, <1>8, <2>1
<1> QED
  BY <1>2, <1>3, <1>4, <1>5, <1>6, <1>7, <1>8

(* So a careful client's buffers never share memory, and no memory is free *)
(* that a buffer of the client's has: what drm_alloc_buf and drm_free_buf  *)
(* promise, from their being a BufferPool alone.                           *)
THEOREM PoolExclusive == Careful => (Spec => []Pool!Exclusive)
<1> SUFFICES ASSUME Careful PROVE Spec => []Pool!Exclusive
  OBVIOUS
<1>1. Pool!Init => Pool!Exclusive
  BY DEF Pool!Init, Pool!Exclusive
<1>2. Spec => PoolSpec
  BY BuffersAreAPool
<1> QED
  BY <1>1, <1>2, PoolKeepsApart, PTL DEF PoolSpec, Pool!Spec
=============================================================================
