----------------------------- MODULE KmsBuffers ------------------------------
(***************************************************************************)
(* Buffers of the display library: drm_alloc_buf, drm_import_buf and       *)
(* drm_free_buf of src/meson/meson_drm_kms.c with the buffer objects of    *)
(* src/meson/meson_drm.c, against the kernel's tables of GEM handles,      *)
(* dma-buf descriptors and framebuffers.                                   *)
(*                                                                         *)
(* The display has two DRM files, the primary node (drm_fd, dev->fd) and   *)
(* the render node (dev->render_fd); each numbers its handles on its own.  *)
(* alloc_only selects the file, and it is read again at every use.  Each   *)
(* kernel call is a step, so that calls of several threads interleave.     *)
(* Numbers are given out from the lowest free one, as the kernel does; 0   *)
(* is no handle, no descriptor (the C code's -1) and no framebuffer.       *)
(***************************************************************************)
EXTENDS Integers, FiniteSets, Functions

CONSTANTS
  Threads,     (* threads of the client                                     *)
  Bufs,        (* places for a struct drm_buf on the heap                   *)
  Objects,     (* GEM objects: the memory of one plane                      *)
  Foreign,     (* those that other processes make and hand over             *)
  None,        (* no object, no buffer                                      *)
  MaxFd,       (* bound: dma-buf descriptors the process may hold           *)
  Planes,      (* planes of the formats used: 1 for ARGB8888, UYVY, YUYV,   *)
               (* 2 for NV12, NV21, 0 for a format that is not supported    *)
  Liberties    (* what a client does beyond careful use, see below          *)

(* "switch": changes alloc_only while buffers exist.                       *)
(* "import": imports into a display that is alloc_only.                    *)
(* "alias":  imports a dma-buf that one of its buffers has already, or one *)
(*           dma-buf as both planes.                                       *)
AllLiberties == {"switch", "import", "alias"}

ASSUME BufAssumption ==
  /\ None \notin Objects \cup Bufs
  /\ IsFiniteSet(Objects)
  /\ MaxFd \in Nat \ {0}
  /\ Planes \subseteq 0 .. 2
  /\ Foreign \subseteq Objects
  /\ Liberties \subseteq AllLiberties

Nodes   == {"primary", "render"}
Numbers == 1 .. Cardinality(Objects)   \* handles, and framebuffers
Fds     == 1 .. MaxFd

VARIABLES
  handle,     (* handle[node][h]: the object of a GEM handle                *)
  fdTab,      (* fdTab[f]: the object of a dma-buf descriptor               *)
  fbTab,      (* fbTab[n]: the objects a framebuffer holds, {} if none      *)
  allocOnly,  (* drm_display.alloc_only                                     *)
  clientFds,  (* descriptors the client got elsewhere and still owns        *)
  buf,        (* the struct drm_buf at each place                           *)
  job,        (* what each thread is doing inside the library               *)
  dropped     (* history: what calls that gave up at their second plane     *)
              (* left behind                                                *)

kernel == <<handle, fdTab, fbTab>>
vars   == <<kernel, allocOnly, clientFds, buf, job, dropped>>

(* bo[k], fd[k], fb as in the struct; obj and node record which object     *)
(* plane k was given and in which file its handle is: what the code relies *)
(* on and does not write down.                                             *)
NoBuf == [st |-> "free", nbo |-> 0, bo |-> <<0, 0>>, fd |-> <<0, 0>>, fb |-> 0,
          obj |-> <<None, None>>, node |-> "primary", imported |-> FALSE]
Idle  == [at |-> "idle", b |-> None, k |-> 0, node |-> "primary"]

-----------------------------------------------------------------------------
(* The kernel.                                                             *)
FreeIn(tab, empty) == {n \in DOMAIN tab : tab[n] = empty}
Lowest(S) == CHOOSE n \in S : \A m \in S : n <= m

InUse(o) ==
  \/ \E nd \in Nodes : o \in Range(handle[nd])
  \/ o \in Range(fdTab)
  \/ \E n \in Numbers : o \in fbTab[n]

Unused == {o \in Objects : ~InUse(o)}

(* PRIME_FD_TO_HANDLE: a file has one handle for an object.                *)
HandleFor(node, o) ==
  IF o \in Range(handle[node])
  THEN CHOOSE h \in Numbers : handle[node][h] = o
  ELSE Lowest(FreeIn(handle[node], None))

-----------------------------------------------------------------------------
(* The file that the flag selects, wherever the code reads it.             *)
Node == IF allocOnly THEN "render" ELSE "primary"

At(t, here) == job[t].at = here
Goto(t, there) == job' = [job EXCEPT ![t].at = there]
Return(t) == job' = [job EXCEPT ![t] = Idle]

Init ==
  /\ handle = [nd \in Nodes |-> [h \in Numbers |-> None]]
  /\ fdTab = [f \in Fds |-> None]
  /\ fbTab = [n \in Numbers |-> {}]
  /\ allocOnly = FALSE
  /\ clientFds = {}
  /\ buf = [b \in Bufs |-> NoBuf]
  /\ job = [t \in Threads |-> Idle]
  /\ dropped = [handles |-> {}, fds |-> {}]

(* The client: drm_set_alloc_only_flag.                                    *)
SetAllocOnly(flag) ==
  /\ flag # allocOnly
  /\ "switch" \in Liberties \/ \A b \in Bufs : buf[b].st = "free"
  /\ allocOnly' = flag
  /\ UNCHANGED <<kernel, clientFds, buf, job, dropped>>

(* The client gets a dma-buf of another process (a decoder, a compositor). *)
ReceiveFd(o) ==
  /\ o \in Unused \cap Foreign
  /\ FreeIn(fdTab, None) # {}
  /\ LET f == Lowest(FreeIn(fdTab, None))
     IN  fdTab' = [fdTab EXCEPT ![f] = o] /\ clientFds' = clientFds \cup {f}
  /\ UNCHANGED <<handle, fbTab, allocOnly, buf, job, dropped>>

(* It closes one, or it makes a second descriptor of a dma-buf it knows.   *)
CloseFd(f) ==
  /\ f \in clientFds
  /\ fdTab' = [fdTab EXCEPT ![f] = None]
  /\ clientFds' = clientFds \ {f}
  /\ UNCHANGED <<handle, fbTab, allocOnly, buf, job, dropped>>

DupFd(f) ==
  /\ "alias" \in Liberties
  /\ fdTab[f] # None
  /\ FreeIn(fdTab, None) # {}
  /\ LET g == Lowest(FreeIn(fdTab, None))
     IN  fdTab' = [fdTab EXCEPT ![g] = fdTab[f]] /\ clientFds' = clientFds \cup {g}
  /\ UNCHANGED <<handle, fbTab, allocOnly, buf, job, dropped>>

-----------------------------------------------------------------------------
(* Line 314: an alloc_only display makes no framebuffer.                   *)
AfterBos == IF allocOnly THEN "done" ELSE "addfb"

(* kms_alloc_buf.  A format that is not supported has no planes.           *)
AllocBuf(t, b, n) ==
  /\ At(t, "idle")
  /\ buf[b].st = "free"
  /\ buf' = [buf EXCEPT ![b] = [NoBuf EXCEPT !.st = "building", !.nbo = n]]
  /\ job' = [job EXCEPT ![t] = [Idle EXCEPT
               !.at = IF n > 0 THEN "create" ELSE AfterBos, !.b = b, !.k = 1]]
  /\ UNCHANGED <<kernel, allocOnly, clientFds, dropped>>

(* alloc_bo, meson_bo_create: MESON_GEM_CREATE.                            *)
CreateBo(t) ==
  LET b == job[t].b  k == job[t].k IN
  /\ At(t, "create")
  /\ \E o \in Unused \ Foreign :
       LET h == Lowest(FreeIn(handle[Node], None)) IN
       /\ FreeIn(handle[Node], None) # {}
       /\ handle' = [handle EXCEPT ![Node][h] = o]
       /\ buf' = [buf EXCEPT ![b].bo[k] = h, ![b].obj[k] = o, ![b].node = Node]
  /\ Goto(t, "export")
  /\ UNCHANGED <<fdTab, fbTab, allocOnly, clientFds, dropped>>

(* The first plane of a buffer that is given up at its second.             *)
Drop(t, fds) ==
  LET b == job[t].b IN
  dropped' = IF job[t].k = 1 THEN dropped
             ELSE [handles |-> dropped.handles \cup {<<buf[b].node, buf[b].bo[1]>>},
                   fds     |-> dropped.fds \cup (fds \ {0})]

(* Mutant: kms_alloc_buf does not look at the result of alloc_bos.         *)
CreateBoIgnored(t) ==
  /\ At(t, "create")
  /\ buf' = [buf EXCEPT ![job[t].b].st = "live"]
  /\ Drop(t, {buf[job[t].b].fd[1]})
  /\ Return(t)
  /\ UNCHANGED <<kernel, allocOnly, clientFds>>

(* It fails: alloc_bos returns -1, and kms_alloc_buf frees the struct only. *)
CreateBoFails(t) ==
  /\ At(t, "create")
  /\ buf' = [buf EXCEPT ![job[t].b] = NoBuf]
  /\ Drop(t, {buf[job[t].b].fd[1]})
  /\ Return(t)
  /\ UNCHANGED <<kernel, allocOnly, clientFds>>

AfterPlane(t) ==
  job' = [job EXCEPT
    ![t].at = IF job[t].k < buf[job[t].b].nbo THEN "create" ELSE AfterBos,
    ![t].k = job[t].k + 1]

(* meson_bo_dmabuf: PRIME_HANDLE_TO_FD; a failure is stored as the fd.     *)
ExportBo(t) ==
  LET b == job[t].b  k == job[t].k  o == handle[Node][buf[b].bo[k]] IN
  /\ At(t, "export")
  /\ o # None
  /\ FreeIn(fdTab, None) # {}
  /\ LET f == Lowest(FreeIn(fdTab, None)) IN
     /\ fdTab' = [fdTab EXCEPT ![f] = o]
     /\ buf' = [buf EXCEPT ![b].fd[k] = f]
  /\ AfterPlane(t)
  /\ UNCHANGED <<handle, fbTab, allocOnly, clientFds, dropped>>

ExportBoFails(t) ==
  /\ At(t, "export")
  /\ AfterPlane(t)
  /\ UNCHANGED <<kernel, allocOnly, clientFds, buf, dropped>>

(* add_framebuffer on drm_fd.                                              *)
AddFb(t) ==
  LET b == job[t].b
      held == {handle["primary"][buf[b].bo[k]] : k \in 1 .. buf[b].nbo} IN
  /\ At(t, "addfb")
  /\ held # {} /\ None \notin held
  /\ FreeIn(fbTab, {}) # {}
  /\ LET n == Lowest(FreeIn(fbTab, {})) IN
     /\ fbTab' = [fbTab EXCEPT ![n] = held]
     /\ buf' = [buf EXCEPT ![b].fb = n]
  /\ Goto(t, "done")
  /\ UNCHANGED <<handle, fdTab, allocOnly, clientFds, dropped>>

(* Mutant: kms_alloc_buf only frees the struct.                            *)
AddFbFailsNoFree(t) ==
  /\ At(t, "addfb")
  /\ buf' = [buf EXCEPT ![job[t].b] = NoBuf]
  /\ Return(t)
  /\ UNCHANGED <<kernel, allocOnly, clientFds, dropped>>

(* Mutant: kms_alloc_buf frees the buffer and returns it.                  *)
AddFbFailsReturnsBuf(t) ==
  /\ At(t, "addfb")
  /\ Goto(t, "close")
  /\ buf' = [buf EXCEPT ![job[t].b].st = "live"]
  /\ UNCHANGED <<kernel, allocOnly, clientFds, dropped>>

(* It fails: kms_alloc_buf goes on to free_buf, kms_import_buf ignores it.  *)
AddFbFails(t) ==
  LET b == job[t].b IN
  /\ At(t, "addfb")
  /\ IF buf[b].imported
     THEN Goto(t, "done") /\ UNCHANGED buf
     ELSE Goto(t, "close") /\ buf' = [buf EXCEPT ![b].st = "freeing"]
  /\ UNCHANGED <<kernel, allocOnly, clientFds, dropped>>

(* The call returns the buffer.                                            *)
BufReady(t) ==
  /\ At(t, "done")
  /\ buf' = [buf EXCEPT ![job[t].b].st = "live"]
  /\ Return(t)
  /\ UNCHANGED <<kernel, allocOnly, clientFds, dropped>>

-----------------------------------------------------------------------------
(* A careful client imports dma-bufs that are not in one of its buffers,   *)
(* a different one for each plane.                                         *)
Importable(fds) ==
  \/ "alias" \in Liberties
  \/ /\ \A f \in Range(fds), b \in Bufs : fdTab[f] \notin Range(buf[b].obj)
     /\ \A j, k \in DOMAIN fds : j # k => fdTab[fds[j]] # fdTab[fds[k]]

(* kms_import_buf: the struct takes over the client's descriptors.         *)
ImportBuf(t, b, fds) ==
  /\ At(t, "idle")
  /\ buf[b].st = "free"
  /\ ~allocOnly \/ "import" \in Liberties
  /\ Range(fds) \subseteq clientFds
  /\ IsInjective(fds)
  /\ Importable(fds)
  /\ buf' = [buf EXCEPT ![b] = [NoBuf EXCEPT
               !.st = "building", !.nbo = Cardinality(DOMAIN fds), !.imported = TRUE,
               !.fd = [k \in 1 .. 2 |-> IF k \in DOMAIN fds THEN fds[k] ELSE 0]]]
  /\ clientFds' = clientFds \ Range(fds)
  /\ job' = [job EXCEPT ![t] = [Idle EXCEPT !.at = "import", !.b = b, !.k = 1]]
  /\ UNCHANGED <<kernel, allocOnly, dropped>>

(* meson_bo_import: PRIME_FD_TO_HANDLE, always on dev->fd.                 *)
ImportBo(t) ==
  LET b == job[t].b  k == job[t].k  o == fdTab[buf[b].fd[k]] IN
  /\ At(t, "import")
  /\ o # None
  /\ LET h == HandleFor("primary", o) IN
     /\ handle' = [handle EXCEPT !["primary"][h] = o]
     /\ buf' = [buf EXCEPT ![b].bo[k] = h, ![b].obj[k] = o]
  /\ job' = [job EXCEPT ![t].at = IF k < buf[b].nbo THEN "import" ELSE "addfb",
                        ![t].k = k + 1]
  /\ UNCHANGED <<fdTab, fbTab, allocOnly, clientFds, dropped>>

(* It fails: kms_import_buf returns NULL and frees nothing; the client     *)
(* still has its descriptors.                                              *)
ImportBoFails(t) ==
  LET b == job[t].b  IN
  /\ At(t, "import")
  /\ buf' = [buf EXCEPT ![b] = NoBuf]
  /\ clientFds' = clientFds \cup {f \in Range(buf[b].fd) : f # 0}
  /\ Drop(t, {})
  /\ Return(t)
  /\ UNCHANGED <<kernel, allocOnly>>

-----------------------------------------------------------------------------
(* drm_free_buf, kms_free_buf, free_buf.                                   *)
FreeBuf(t, b) ==
  /\ At(t, "idle")
  /\ buf[b].st = "live"
  /\ buf' = [buf EXCEPT ![b].st = "freeing"]
  /\ job' = [job EXCEPT ![t] = [Idle EXCEPT !.at = "close", !.b = b, !.k = 1]]
  /\ UNCHANGED <<kernel, allocOnly, clientFds, dropped>>

(* Line 132: the file whose handles are destroyed.                         *)
FreeNode == Node

(* Mutant: one descriptor for the whole buffer.                            *)
FirstFdOf(b) == {buf[b].fd[1]}

FdsOf(b) == Range(buf[b].fd)

(* close of the planes' descriptors; then the file for the handles is read. *)
CloseFds(t) ==
  LET b == job[t].b IN
  /\ At(t, "close")
  /\ fdTab' = [f \in Fds |-> IF f \in FdsOf(b) THEN None ELSE fdTab[f]]
  /\ job' = [job EXCEPT ![t].at = "rmfb", ![t].k = 1, ![t].node = FreeNode]
  /\ UNCHANGED <<handle, fbTab, allocOnly, clientFds, buf, dropped>>

(* drmModeRmFB, or MESON_RMFB if the display is frozen.                    *)
RmFb(t) ==
  LET b == job[t].b IN
  /\ At(t, "rmfb")
  /\ fbTab' = [n \in Numbers |-> IF n = buf[b].fb THEN {} ELSE fbTab[n]]
  /\ Goto(t, "destroy")
  /\ UNCHANGED <<handle, fdTab, allocOnly, clientFds, buf, dropped>>

(* Mutant: the handle is set once, before the loop over the planes.        *)
FirstHandle(b, k) == buf[b].bo[1]

HandleToDestroy(b, k) == buf[b].bo[k]

(* MODE_DESTROY_DUMB.  The render node refuses it with EACCES and gets a   *)
(* GEM_CLOSE; if there is no such handle, that fails and free_buf leaves   *)
(* with the struct as it is.  On the primary node no error is looked at.   *)
DestroyBo(t) ==
  LET b == job[t].b  k == job[t].k  h == HandleToDestroy(b, k)  nd == job[t].node IN
  /\ At(t, "destroy")
  /\ k <= buf[b].nbo
  /\ handle[nd][h] # None \/ nd = "primary"
  /\ handle' = [handle EXCEPT ![nd][h] = None]
  /\ job' = [job EXCEPT ![t].k = k + 1]
  /\ UNCHANGED <<fdTab, fbTab, allocOnly, clientFds, buf, dropped>>

DestroyBoFails(t) ==
  LET b == job[t].b  k == job[t].k IN
  /\ At(t, "destroy")
  /\ k <= buf[b].nbo
  /\ job[t].node = "render" /\ handle["render"][HandleToDestroy(b, k)] = None
  /\ buf' = [buf EXCEPT ![b].st = "lost"]
  /\ Return(t)
  /\ UNCHANGED <<kernel, allocOnly, clientFds, dropped>>

(* free(buf).                                                              *)
FreeDone(t) ==
  LET b == job[t].b IN
  /\ At(t, "destroy")
  /\ job[t].k > buf[b].nbo
  /\ buf' = [buf EXCEPT ![b] = NoBuf]
  /\ Return(t)
  /\ UNCHANGED <<kernel, allocOnly, clientFds, dropped>>

-----------------------------------------------------------------------------
(* The steps a thread takes inside a call.                                 *)
Step(t) ==
  \/ CreateBo(t) \/ CreateBoFails(t) \/ ExportBo(t) \/ ExportBoFails(t)
  \/ AddFb(t) \/ AddFbFails(t) \/ BufReady(t)
  \/ ImportBo(t) \/ ImportBoFails(t)
  \/ CloseFds(t) \/ RmFb(t) \/ DestroyBo(t) \/ DestroyBoFails(t) \/ FreeDone(t)

FdLists == UNION {[1 .. n -> clientFds] : n \in Planes \ {0}}

Next ==
  \/ \E flag \in BOOLEAN : SetAllocOnly(flag)
  \/ \E o \in Objects : ReceiveFd(o)
  \/ \E f \in Fds : CloseFd(f) \/ DupFd(f)
  \/ \E t \in Threads, b \in Bufs :
       \/ \E n \in Planes : AllocBuf(t, b, n)
       \/ \E fds \in FdLists : ImportBuf(t, b, fds)
       \/ FreeBuf(t, b)
  \/ \E t \in Threads : Step(t)

Spec == Init /\ [][Next]_vars

-----------------------------------------------------------------------------
(* Every variable has its type, and a thread inside a call has a buffer to *)
(* itself that the client does not have.                                   *)
Buf == [st : {"free", "building", "live", "freeing", "lost"}, nbo : 0 .. 2,
        bo : [1 .. 2 -> Numbers \cup {0}], fd : [1 .. 2 -> Fds \cup {0}],
        fb : Numbers \cup {0}, obj : [1 .. 2 -> Objects \cup {None}],
        node : Nodes, imported : BOOLEAN]
Job == [at : {"idle", "create", "export", "import", "addfb", "done",
              "close", "rmfb", "destroy"},
        b : Bufs \cup {None}, k : 0 .. 3, node : Nodes]

TypeOK ==
  /\ handle \in [Nodes -> [Numbers -> Objects \cup {None}]]
  /\ fdTab \in [Fds -> Objects \cup {None}]
  /\ fbTab \in [Numbers -> SUBSET Objects]
  /\ allocOnly \in BOOLEAN
  /\ clientFds \subseteq Fds
  /\ buf \in [Bufs -> Buf]
  /\ job \in [Threads -> Job]
  /\ \A t \in Threads : ~At(t, "idle") =>
       /\ buf[job[t].b].st \in {"building", "freeing"}
       /\ \A u \in Threads \ {t} : job[u].b # job[t].b
  /\ dropped \in [handles : SUBSET (Nodes \X Numbers), fds : SUBSET Fds]

(* The buffers that drm_alloc_buf and drm_import_buf returned and that     *)
(* were not given to drm_free_buf keep their memory, their descriptors and *)
(* their framebuffer, whatever is called on other buffers meanwhile.       *)
PlanesOf(b) == 1 .. buf[b].nbo
LiveBuffersUsable ==
  \A b \in Bufs : buf[b].st = "live" =>
    /\ \A k \in PlanesOf(b) :
         /\ handle[buf[b].node][buf[b].bo[k]] = buf[b].obj[k]
         /\ buf[b].fd[k] # 0 => fdTab[buf[b].fd[k]] = buf[b].obj[k]
    /\ buf[b].fb # 0 => fbTab[buf[b].fb] = {buf[b].obj[k] : k \in PlanesOf(b)}

(* What the kernel still keeps for the process and no buffer refers to     *)
(* that is in use or on its way.                                           *)
Allocated == {b \in Bufs : buf[b].st \notin {"free", "lost"}}
LostHandles ==
  {nh \in Nodes \X Numbers :
     /\ handle[nh[1]][nh[2]] # None
     /\ \A b \in Allocated : nh[1] = buf[b].node => nh[2] \notin Range(buf[b].bo)}
LostFds ==
  {f \in Fds \ clientFds :
     fdTab[f] # None /\ \A b \in Allocated : f \notin Range(buf[b].fd)}
LostFbs ==
  {n \in Numbers : fbTab[n] # {} /\ \A b \in Allocated : n # buf[b].fb}

(* No handle is left behind but that of the first plane of a call that     *)
(* gave up at its second (lines 306-311, 427-431): every other failure,    *)
(* and drm_free_buf, releases all that the buffer had, from the file that  *)
(* its handles are in; it never leaves at line 157 with a buffer half      *)
(* released.                                                               *)
HandlesLeakOnlyOnGivingUp == LostHandles \subseteq dropped.handles

(* Descriptors leak only there too, and framebuffers never, whatever       *)
(* liberties the client takes: free_buf has closed and removed them by the *)
(* time it finds out that it cannot destroy a handle (line 155).           *)
FdsAndFbsReleased ==
  /\ LostFds \subseteq dropped.fds
  /\ LostFbs = {}

(* "If handle was from drmPrimeFDToHandle, then fd is connected as render, *)
(* we have to use drm_gem_close to release it." (lines 152-154): freeing   *)
(* an imported buffer releases its handles.                                *)
ImportsReleased ==
  [][\A b \in Bufs :
       buf[b].imported /\ buf[b].st = "freeing" /\ buf'[b].st # "freeing" =>
         \A k \in PlanesOf(b) : buf[b].obj[k] \notin Range(handle'["primary"])]_vars

(* The buffers promise what BufferPool says: a buffer's memory is its own  *)
(* from the call that returns it until the call that gives it back.        *)
Pool == INSTANCE BufferPool WITH
  owned <- [b \in Bufs |-> IF buf[b].st = "live"
                           THEN {buf[b].obj[k] : k \in PlanesOf(b)} ELSE {}],
  inUse <- Objects \ Unused
PoolSpec == Pool!Spec
=============================================================================
