# Verification of libdrm-meson

TLA+ models of the display support library for Amlogic (meson) DRM devices and
its companions: `src/meson` (the library), `src/drm-setcrtc` (a service that
sets a mode) and `src/drm-tests` (test programs and the library `bsdrm`).
The models are checked with TLC on small instances; theorems about them are
proved with TLAPS for all values of the constants.

    tlc -workers 2 -config MCAsyncCommit_commit.cfg MCAsyncCommit
    tlapm AsyncCommit_proofs.tla

`PROJECT.json` holds the list of runs, the source lines of every definition,
one mutant per checked property, the hazards and the theorems.

## 1. Inventory

| component | state | operations | interacts with | what must hold |
|---|---|---|---|---|
| asynchronous atomic commit (`meson_drm_async_commit.c`) | a sorted copy of the request, counters, four arrays | sort, remove duplicates, flatten, ioctl | `kms_post_buf` builds the request | writes stay in the arrays; what the kernel reads is what the caller set |
| display buffers (`meson_drm_kms.c`, `meson_drm.c`, `meson_drm_util.c`) | GEM handles of two DRM files, dma-buf descriptors, framebuffers, `alloc_only` | allocate, import, free, post | kernel tables, other threads, other processes' buffers | a live buffer keeps its memory; nothing is lost in the kernel |
| display initialisation | arrays of connector, CRTC and plane states | open, populate, unwind | kernel | unwinding releases what was acquired |
| event monitor (`meson_drm_event.c`) | flag `isMonitoringAlive`, callback, two threads with their netlink sockets and the state they reported last | start, stop, register, receive, report | kernel uevents, settings API, application callback | the last report is true; a stopped monitor is silent and ends |
| settings API (`meson_drm_settings.c`) | a request that the caller owns, connectors it opens for one call | setters, getters, `changeMode` | connector and property caches | what was set reads back and is shown; every connector is released |
| connector and property caches (`libdrm_meson_*.c`) | copies of modes, EDID, connection, property values | create, update, destroy, getters | kernel | the parts of a copy fit each other |
| display API (`meson_drm_display.c`) | none of its own | property sets through the compositor's console, vblank times | compositor, caches | what was set reads back, through pairs of properties too; intervals are right at odd rates |
| `drm_setcrtc` | resources, `user_stop` | wait for a mode, commit, stop on a signal | kernel, signals | sets a mode when there is one; ends when told to |
| `bsdrm` | pipes, devices, mappings | search for a pipe, open, map | kernel | not modelled, see section 5 |
| test programs, GL helpers, logging, vendored headers | - | - | - | not modelled: straight input and output, or external code |

Hard behaviours of this code: threads of the application meet in the kernel's
tables of numbers (handles, descriptors) with no lock in the library; one flag,
`alloc_only`, is read again at every use; kernel calls fail between others that
succeeded; uevents are queued, delayed and lost while the status is read
directly; detached threads outlive the call that stops them; a loop changes the
list it runs over, and arrays are sized by one loop and filled by another.

## 2. The modules and what is left

| module | models | run |
|---|---|---|
| `AsyncCommit`, refining `AtomicRequest` | one atomic commit | `async`, `async_duplicates` |
| `KmsBuffers`, refining `BufferPool` | buffers, in two DRM files of one process | `kms_threads`, `kms_liberties`, `kms_import` |
| `DisplayEvents` | the monitor's threads and sockets | `events` |
| `KmsInit` | opening, populating and destroying a display | `init` |
| `PostBuffer` | posting, setting a plane, waiting for a fence | `post` |
| `DisplayApi` | the calls of applications, and the compositor they go through | `api` |
| `ConnectorCache` and `PropertyCache`, composed in `Caches` | the copies of the kernel's objects | `caches` |
| `Settings` | requests built by setters, and their commit | `settings` |
| `SetCrtc` | the program `drm_setcrtc` | `setcrtc` |

The theorems are in `AsyncCommit_proofs`, `Caches_proofs`, `DisplayApi_proofs`,
`DisplayEvents_proofs`, `KmsBuffers_proofs`, `KmsInit_proofs`,
`PostBuffer_proofs` and `Settings_proofs`. A module `MC<module>` gives an
instance its constants, a `.cfg` of that name its bounds and properties.

`KmsBuffers` is shown to implement `BufferPool`, and `AsyncCommit` to implement
`AtomicRequest`, in which a commit is one step. `Settings` uses what
`ConnectorCache` promises (`CrtcOf` is the CRTC of a connector read in one go), `PostBuffer` the tables that
`KmsInit` fills, and both take the commit as one step: the states they share are
constant while the others run, and a product of the models would only multiply
states.

Every invariant that a run checks is also a theorem, and so are both refinements.
What is left is to prove the invariants of `KmsBuffers` without `Careful` for the
parts that its liberties do not touch, and to model the byte layouts that the
models abstract from (sizes and pitches of buffers, the fourcc tables).

## 3. Modules

### AsyncCommit (`meson_drm_async_commit.c`)

One action per stretch of `drmModeAsyncAtomicCommit` between two tests of a
loop: `ReturnEarly` (lines 71-79), `Sort` (77-88), `Dedupe` (one round of the
first loop), `AllocArrays` (any of the four allocations may fail), `Flatten`
(one round of the second), `Ioctl`, and the caller's `AddProperty` and
`FreeRequest`. Indices count from 1. `i`, `countObjs`, `lastObj`, `objIdx` and
the arrays are the C variables; `items` is `sorted->items` up to the cursor.
`Compare` computes with unsigned numbers of width `2 * Half`. `SortOrders` is
every order `qsort` may produce; in lists up to `StableUpTo` only the one that
keeps equal items in order, as glibc's merge sort does for lists that fit its
buffer.

Checked: `async` takes two objects, two properties, two values and requests of
up to four sets (`MaxItems`), sorted stably up to three and in any order at
four: this has triples, pairs
of pairs, and a duplicate at either end of the list, which is all that the loop
distinguishes. `Half = 4` puts the ids just under the width where the comparison
wraps. `async_duplicates` shows that a property set three times is sent
twice, against the comment on line 87: after `memmove` the loop advances over
the item that took the free place. `DedupeHalves` says what the code does
instead: n sets leave (n + 1) / 2. That the last set still wins under
a stable sort (`LastSetWins`) is because the earlier of two is removed.

`CommitsAtOnce` is the refinement of `AtomicRequest`: all that the caller sees is
the request, the result, and, once the call has returned 0, what the kernel
makes of the arrays (`Effect(Decoded)`, the last value per property). Mapped so,
the loops are stutters, and the step that returns is the abstract `Commit`: every
property of the request has a value set for it, the last one if the sort is
stable, or there is an error and nothing has changed.

### KmsBuffers and BufferPool (`meson_drm_kms.c`, `meson_drm.c`, `meson_drm_util.c`)

Kernel state: `handle` per DRM file, descriptors, framebuffers; numbers are
given out from the lowest free one, as the kernel does, so a number that is
released twice hits the next owner. Each kernel call is an action
(`CreateBo`, `ExportBo`, `ImportBo`, `AddFb`, `CloseFds`, `RmFb`, `DestroyBo`
and their failures), `job[t]` says where in which call a thread is. `Node` is the
file that `alloc_only` selects, read wherever the code reads it. `obj`, `node`
and `dropped` are history.

`Liberties` name what a client may do beyond careful use: change `alloc_only`
while it has buffers, import into an `alloc_only` display, import one dma-buf
twice. Without them:

- `kms_threads`: two threads, two buffers of one or two planes, or imported,
  two objects of one's own and a foreign one, and two descriptors, so that
  numbers run out and are reused. A live buffer keeps handles, descriptors and
  framebuffer (`LiveBuffersUsable`); the system implements `BufferPool` (a
  buffer's memory is its own) under the mapping `owned`, `inUse`. A handle that
  no buffer has is that of a first plane whose second failed (lines 306-311,
  427-431): this leak is real and is what `dropped` records; all else is
  released, so a careful client's free never leaves through the early return of
  line 162 (`HandlesLeakOnlyOnGivingUp`).
- `kms_liberties`: all three liberties, buffers of two planes. Handles may be
  destroyed twice or on the wrong file, and `free_buf` may leave in the middle
  (`DestroyBoFails`), but descriptors and framebuffers are released, because
  that happens first.
- `kms_import` shows the disagreement with the comment on lines 152-154: an
  imported handle is on the primary node (`meson_drm.c:182`), an `alloc_only`
  display looks for it on the render node and gives up.

Bounds: threads, buffers, objects, `MaxFd`. Two of each suffices for one thread
to disturb another's buffer. Symmetry is used for threads, buffers and objects
in `kms_threads`, which has no liveness property (own and foreign objects
separately). That a free comes to its end is not stated as liveness: every step
of a thread leads forward, there is no loop but the one over planes.

### DisplayEvents (`meson_drm_event.c`)

`alive` and `cb` are the two globals; `thr[t]` is a thread with its socket `q`.
A thread's program counter stops at the test of the flag, in `select`, before
the status is read, and before the callback is called: the points where
another thread or the kernel can change what it relies on. `ConnectorChanges`
changes the kernel's state and queues a uevent, `SendUevent` delivers it to each
monitor that receives; a full socket overruns, reports this once (`pending`) and
takes nothing until it is empty (`draining`). `SendNoise` are uevents the thread
ignores. `Start` may be called while the threads of an earlier start are still
there; `MayFail` allows failures to create a thread, open the monitor and read
the connector.

`events`: two threads of each kind of which any two exist (`MaxThreads`), that
is one start, or two of which the second overlaps or follows the first one or
loses a thread; sockets of one uevent, two changes, one uevent of noise (enough
to fill a socket with it), one stop.

- `ThreadReportCurrent` (drm) and `HdcpReportCurrent` (hdmitx) say that a thread
  with nothing left to read has reported the status as it is now. Exempt are a
  thread that was never woken (the monitor reports changes, not the state at its
  start), one whose last report found no callback, and one whose last uevent of
  interest was lost to an overrun with no other in the queue: the code has no
  remedy for that.
- `ViewCurrent` says the same of what the application sees, and needs that no
  two monitors ever overlapped; with two, an old thread may deliver its event
  after a new one. For HDCP it needs a thread that has reported once: `preHdcp`
  starts at 0, so a monitor started again while HDCP is authenticated never
  reports the failure that follows. (TLC found this as a counterexample to the
  first form of `ViewCurrent`.)
- `AtMostOneLateCallback`: a stopped monitor calls back at most once per thread.
- `StopEndsThreads`: under weak fairness of every thread (`FairSpec`; a scheduler
  that runs detached threads), a stop ends every thread unless a start overtakes
  it. It is the time limit of `select` that makes this true.

The connector can be read in this run (`MayFail` has no "read"). When it cannot,
the status is `MESON_UNKNOWNCONNECTION`, which line 147 tests as a truth value:
the application is told CONNECTED. The queue bound, `MaxChanges`, `MaxNoise`,
`MaxStops` and `MaxThreads` are bounds of the instances only. The two descriptors
closed twice (lines 168-170) are not modelled. The runs of buffers and events
check for deadlock; counters that run out leave `SetAllocOnly`, `Register` and
`SelectTimeout` enabled. The other runs model calls that end, with a bound on
their number, and do not.

### KmsInit (`meson_drm_kms.c`, `meson_drm.c`)

`device` is what the kernel has: connectors and planes in order with what the
code asks of them, and a number of CRTCs. `pc` is where `drm_kms_init_resource`
is, `i` the loop of one of the three populate functions, `heap` the blocks that
are allocated (named by what they are and by their index), `states` the tables
of the display. Every call of the kernel's and every allocation may fail: the
code then goes to one of its labels (`Unwind` and what follows it) or on, or
follows a null pointer (the actions `...Crashes`). `Post` is what the posting
calls read of the tables, `Destroy` is `kms_destroy_display`.

- `init` takes seven devices: one with all the entries the tables have, one with
  the least, one without a video plane, one with nothing but a TV, and one each
  with a connector, a CRTC or a plane more than the table.
- None of the loops looks at the size of its table. `Overrun` is the write past
  the end; what the program does then is not defined, and the model ends there
  (`pc = "overrun"`).
- `AllReleased`: wherever initialising fails, files and memory are released but
  the states and properties of objects (the code frees none of them on that
  path); and after `drm_destroy_display` only states of planes that could not be
  read stay.
- `TypeOK` has that each table holds states of objects that belong into it.
- `CrashNeedsFault`: if every call succeeds and the device has the objects a post
  needs, no null pointer is followed; and a table is overrun only on a device
  that has more objects of its sort, TVs not counted, than it has entries.

`Devices` bounds the instance. One counter per table is enough: the loops treat
their objects one by one.

### PostBuffer (`meson_drm_kms.c`, `meson_drm_util.c`)

`screen` is what each plane shows, `asked` the request of the last call that was
taken, `mode` and `initMode` the mode now and the one that was read at
initialisation; `master` is the kernel's; `job[t]` says where a thread is in
`kms_post_buf`, `kms_set_plane` or `drm_waitvideoFence`. The environment is
another process that takes and drops the mastership and sets modes, and the
video decoder.

- `PlaneShowsOneCall`: a plane shows the properties of one call, never a mixture
  of two threads' or of an earlier call's, unless a property could not be added
  (`dropped`), which the code does not look at; a full-screen buffer is shown in
  the size of the mode at initialisation, whatever the mode is now.
- `MasterGivenUp`, `DeniedForAReason`: what three calls without a lock come to.
  The kernel may turn a request for the mastership down though nobody has it (an
  application without the privilege), and grants it to nobody while another
  process is master. A set plane is denied for one of three reasons: the other
  process was master when it was asked for, another thread of the client dropped
  it in between, or the kernel turned it down.
- `WaitEnds`: `poll` starts its 3 seconds anew after each signal, so the wait
  ends if signals do (`MaxSignals`). Fairness: weak for each thread inside the
  library; neither the decoder nor the other process is fair.

Two threads, two buffers, one plane, two calls: any two calls may interleave.

### DisplayApi (`meson_drm_display.c`)

A call of a thread opens the device, reads the connector and its encoder, does
its work and closes; each is an action. Which CRTC HDMI is on is asked anew by
every call (`ReadEncoder`); a connector without an encoder, or one that cannot
be read, gets the first CRTC of the device (`CrtcFound`), and an encoder that has
been taken off its CRTC meanwhile gives 0, which is no object. `CrtcChanges`
turns HDMI off, on, or moves it. A property is an object and a name (`Target`).
A set goes through `Command`: the compositor listens in one directory (`home`) or
in neither, may refuse, may do the command and lose the answer; a command without
a good answer is sent again to the default directory. HDCP takes two commands and
two reads. `InvalidProp` is the path on which `goto out` skips the initialisation
of `conn` and `drmFd`: any file of another thread may be closed, or the program
crashes. After a crash nothing moves.

- `AnswersRight`: what was set of the object that a get reads is read back, for
  values that pass through the inversion of `HDMI_ENABLE`, through the two
  properties of the HDCP version, and through commands sent twice; HDR modes and
  HDCP versions are the display's, through the kernel's words and the masks that
  take them apart. It speaks of calls that no other set call met (`clean`) and of
  sets that the compositor did in full (`done`): `meson_drm_set_prop` returns 0
  also when none was done (lines 390 and 400), which
  `meson_drm_display_test.c:256` takes for a success. A property of a CRTC that
  was set while HDMI was off, or before it was moved, is a property of another
  object than the one a later get reads, and the code has no remedy for that.
- `VblankExact`: the interval is right to 0.6 microseconds, with and without the
  factor 1000/1001 (checked for the rates of the instance, proved for every
  rate). Of the first two pipes, and of one that is not there, the pipe waited
  for is the one whose mode gives the interval. Line 711 sets a flag for the
  second pipe only: a call for the third one waits on the first and returns the
  interval of the third. The device of the run has three CRTCs, and the property
  makes no claim on the third one's wait.
- `CallsEnd`: `Left` counts the steps that a call has left; every step of its own
  takes it down and no step of anybody else puts it up. A command that is refused
  or whose answer is lost is sent twice and no more, wherever the compositor moves.
  It is an action property, which needs no fairness and keeps the symmetry of the
  threads: that a call returns follows for a thread that goes on running, and is
  not checked as a liveness property, for which TLC needs too long on this
  instance. `TypeOK` has that nothing stays open.

Two threads, two calls, one change; six properties, one for each way through the
two switches and one of a CRTC (`EOTF`); two values; three CRTCs, of which HDMI may
have the second or none. Threads are alike (`Symmetry`). `MCInit` starts with one
of the displays and the compositor in the directory of the environment; the
change may bring the other display or directory.

### ConnectorCache, PropertyCache, Caches (`libdrm_meson_*.c`)

`cache` and `prop` are the structs, `heap` and `pheap` the blocks they point to,
`seen` and `snap` what the call under way has read. The kernel changes between
two reads: of the connector, of its encoder (`ReadEncoder`), of the blob, and of
a property (`Replug`, `Relight`, `Rewrite`). The number of a blob that is gone
may be given to any other blob. `Caches` puts a program around both that does one
call at a time.

- `HeapExact`: between calls the heap is what the structs point to, after any
  sequence of create, update and destroy with failures in them.
- `CacheIsSink` says of which read each part of the struct is. Modes and state
  are those of the connector as the last call read it; the CRTC is the one HDMI
  was on then, if it was on one and was not moved before the encoder was read;
  the EDID is that of the same display if the display stayed, and may be any
  other blob's data if it did not. The physical size is that of the display at
  creation: `mesonConnectorUpdate` does not refresh it (lines 224-292), and it
  leaves the length of an EDID that is gone and the CRTC of an encoder that is
  gone. `mesonPrimaryPlaneCreate` gives the size of a primary plane.
- `CopyIsRead`: values and arrays of a property are those of its last read, and
  where they are used without being there, memory was short.
- `TypeOK` has that the CRTC in the struct is one of the device's, and 0 only if
  HDMI was turned off while a call read it.

`mesonPropertyUpdateValue` writes the kernel's flags over the type that
`mesonPropertyCreate` kept (line 169); the model does so too (`Flags`, `TypeOf`),
and the properties say nothing of the type. Three calls suffice for create,
update, update or destroy; two changes for a blob number that comes back, or for
a display and a CRTC that change in one call. `MCInit` leaves the second display,
and HDMI on the CRTC that is also the fallback, to the changes.

### Settings (`meson_drm_settings.c`)

`req` is the request of the caller, in order; `Set` is the way of all setters,
one operator each with its object and property. `ChangeMode` adds up to four
items, each of which may fail. `Commit` is the kernel taking all of it or
nothing, and also a caller that frees it. `asked` and `shown` are history: what
calls that returned 0 have asked for, as wishes of a connector. A wish replaces
the connector's own earlier one for the same thing, and overrides (`over`) that
of another connector on the same CRTC. The getters are operators.

- `SetReadsBack`: after a commit every getter answers, for the setter's
  connector, what the setter was given, as long as the connector has the object.
  A setter for a connector that is off goes to the first CRTC, which may show
  another display: what was set for that one is then overridden, and its getter
  answers what the later call has set. The request of a mode change that failed
  half-way is exempt (`half`): what it had added stays and is committed.
- `ChangedModeShows`: the mode asked for is the mode that `meson_drm_getModeInfo`
  tells, unless a mode change for another connector came to the CRTC; also for
  the default connector; CVBS does not share its CRTC with HDMI unless there was
  no memory.
- `TypeOK` has the ranges of all getters for whatever the kernel reports, and
  that a connector is left undestroyed only where memory ran out (line 656).
  `meson_drm_getPreferredMode` fills in size and scan of the preferred mode and
  leaves the rate as the caller had it (lines 185-192): the mode it gives is a
  supported one but for its rate.

Getters of single properties give 0, which is also a value, when the property
cannot be read (lines 1255 and 1337), where `meson_drm_settings_test.c:176`
tests for -1. Two calls to a request make every pair of setters meet; two
connectors on two CRTCs that may be off, on their own, or on each other's. HDR
policy, color space and `ACTIVE` have two values each, so that two calls for one
object differ; the other setters have one, of their own where the range allows.

### SetCrtc (`drm_setcrtc.c`)

The definitions of the specification have names of their own (`MainInit`,
`MainNext`, `MainSpec`, `MainFairSpec`) so that its proofs can stand beside
those of `KmsInit`. `place` follows `main`; a round of its loop frees what the
last one has read (`AfterFree`), reads again (`GetResources`, of which any part
may fail) and looks for the mode. `live` counts what libdrm has allocated, up to `MaxLeak`.

- `RoundsFreed`: CRTCs, connectors, planes and the properties of CRTCs and planes
  are freed however many rounds there were. Encoders and framebuffers behind an
  unreadable one, and the properties of connectors, are not freed by the code.
- `ZeroMeansSet`: an exit status of 0 means that the mode is set (if there was
  memory and no signal came), and the mode is one asked for. With `-C 0` it does
  not: no object 0 is found, only the connector's `CRTC_ID` is committed, the
  kernel takes that for a connector that is off, and the program ends with 0;
  the property says that no mode is set then.
- `RetryEnds`: with weak fairness of the program's steps, the retries end if the
  connector chosen comes to have the mode and keeps it. The choice of the first
  round stays: another connector is not looked at.

The option to run as a service has no effect: line 581 sets `user_stop` just
before `while (!user_stop)`, so `AfterCommit` is the way out and lines 585-610
are never run. The options of the run: `-c` either connector, one that is not
there, or none; `-C` the CRTC, 0, a connector, an id that is not there, or none;
the preferred mode, a name, or a name and a rate; service or not. Two faults and
one change of displays: a fault in one round and another in the next. `MCInit`
gives the second connector two of the three lists of modes at first.

## 4. Proofs

`AsyncCommit_proofs` proves for every set of ids and values and every
`MaxItems`:

- `TypeCorrect`: `Spec => []TypeOK`.
- `BoundsSafe`: `Spec => []WritesInBounds`. The invariant needs a strengthening:
  during the first loop `countObjs` is the number of object changes in
  the prefix it has passed, during the second `objIdx` is that of the prefix and
  `Len(objs)` that of the whole list. `ObjChanges(s, n)` is the cardinality
  of the set of positions at which the object differs from the one before, so
  that no recursion is needed; removing the earlier of two equal neighbours
  does not change it. `IInv` is `TypeOK` with these counts.
- `RequestKept`: `Spec => []RequestPreserved`: sorting and removing duplicates
  neither lose a property nor make up a value (no run lists it, as the refinement
  below contains it).
- `LastValueWins`: `Spec => []LastSetWins`. With an order that keeps equal items
  the last set of each property stays the last one through the sort, and the
  loop never removes it: what it removes has an equal neighbour behind it.
- `DuplicatesHalved`: `Spec => []DedupeHalves`. The comparison brings the sets of
  one property together (`Together`), and each round of the loop keeps one of
  them and passes two, so that the list up to `i` has half of them and the list
  from `i` on still has the others.
- `ArraysDecode`: `Spec => []ArraysDecodeToList`. `Filled(n)` says what the second
  loop has written after `n` items: each item's values at its place and its object
  in the slot `Slot(k)`, the number of objects met up to item `k`, and in
  `countProps` how many items fell into each slot. The sort puts objects in
  order (`Ordered`), so an object has one slot, and the items up to slot `o` are
  the first `Upto[o]` of the list, which is how the kernel finds them.
- `CommitIsAtomic`: `Spec => CommitsAtOnce`, the refinement of `AtomicRequest`.
  The theorems above meet here: `ArraysDecode` says that the kernel reads the
  list, `RequestKept` that the list has the properties and values of the request,
  `LastValueWins` which of them; what a step before or after the ioctl changes of
  the arrays the caller does not see.
- `CommitsAllOrNothing`: `Spec => []Atomic!AllOrNothing`, from the steps of
  `AtomicRequest` alone and the refinement.
- `CommitProgresses`: a commit of n sets takes at most 2n + 5 steps.

They rest on `IdAssumption` (ids are not 0), which libdrm enforces when a
property is added, and on the library's theorems on finite sets and sequences.

`KmsBuffers_proofs` proves for every set of threads, buffers, own and foreign
objects, every `MaxFd` and number of planes:

- `TypeCorrect` and `FdsAndFbsNotLost`, whatever the liberties of the client.
  `IInv` says where a buffer stands at each step of a call (`Stages`: which of
  its planes have handles, descriptors, a framebuffer already or still), that
  a live buffer is complete (`LiveOK`), that a file has one handle for an object
  (`OneHandle`), and that each descriptor and framebuffer in use belongs to the
  client, to a buffer or to `dropped` (`FdsKept`, `FbsKept`).
- `LiveBuffersStayUsable`, `HandlesNotLost` and `BuffersAreAPool` (the
  refinement of `BufferPool`) for a client without liberties (`Careful`): with
  `import` or `switch` they are false, as `kms_import` shows for one case. The
  numbers that the library keeps are reused by the kernel as soon as they are
  released, so an invariant about live buffers alone is not inductive: `CInv`
  says which object each number of each allocated buffer stands for, that no
  two buffers, nor a buffer and the client, have one number
  (`OwnMemory`, `OneFd`, `ClientFdsOpen`), and that a buffer half freed has lost
  its memory plane by plane. A number is always left for `CreateBo`
  and `ImportBo` because a file has at most one handle for an object
  (`HandleForObject`).
- `PoolExclusive`: what `BufferPool` promises (`Pool!Exclusive`: no two buffers
  share memory) follows from its own steps alone, and by the refinement holds of
  a careful client's buffers.

They rest on `BufAssumption`: finitely many objects, room for a descriptor, at
most two planes, and `None` is neither an object nor a buffer.

`KmsInit_proofs` proves for every device, however many objects it has, and
whichever calls fail: `TypeCorrect`, `EndsReleased` (`AllReleased`) and
`CrashesHaveFaults` (`CrashNeedsFault`). What an array holds is bounded, or
known exactly if nothing was passed over, by the objects its loop has come past
(`Past`, `Filled`), which is also why a round that finds no room has more
objects before it than there are entries; `Held` says at which labels a block or
a file may still be there, `StatesKept` that a state which is in no array is that
of a plane that was not read. They rest on `DeviceAssumption`: the types of what
a kernel reports.

`PostBuffer_proofs` proves for any number of threads, planes, buffers and calls:

- `TypeCorrect`, `PlanesShowOneCall`, `MasterAlwaysGivenUp`, `DenialsHaveReasons`.
  `IInv` says that a call that is to show something has its buffer and its plane
  (`Aimed`), that, until a property could not be added, a request on its way to
  the commit has every property of one buffer or of none (`WholeRequests`), so
  that a plane never keeps an old one (`WholePlanes`), and that the client is
  master only while a thread is on its way to `drmDropMaster`, and still is if
  that thread had no rival (`MasterHeld`).

- `CallsProgress`: a call takes at most three steps of its own, but for signals
  that interrupt its `poll`.

They rest on `PostAssumption`: sizes are not 0, and `NoOne` is neither a buffer
nor one of the two masters.

`DisplayEvents_proofs` proves for any number of threads, changes, uevents,
starts and stops and any size of the sockets:

- `TypeCorrect`: `Spec => []TypeOK`.
- `LateCallbacks`: `Spec => []AtMostOneLateCallback`. `LateInv` says where a
  thread that has called back late can be: on its way to the flag or closing.
- `ReportsCurrent`: `Spec => []ThreadReportCurrent` if the connector can be
  read (`"read" \notin MayFail`; without it the theorem is false: a status that
  cannot be read is reported as CONNECTED). A property of settled threads is not
  inductive. `Knows(t)` follows a change from the kernel to the report: while no
  hotplug is announced to `t` (to be sent, queued, lost or just taken) its event
  is the status; what it told is its event unless it is about to tell it; and
  the status it compares with is the one its event was made from, which is why
  it may skip an equal one.
- `HdcpReportsCurrent`: `Spec => []HdcpReportCurrent`. A uevent of hdmitx carries
  the state instead of announcing it, so `KnowsHdcp(t)` says where the state
  is: in the last such uevent that is still to be sent, else, unless that one
  was lost, in the last one in the socket, else in what the thread has taken.
- `ViewsCurrent`: `Spec => []ViewCurrent`, under the assumption of
  `ReportsCurrent`. `ViewInv`: without an overlap there is one thread of each
  kind, and what the application got last is what this thread told.
- `StopProgresses`: after a stop a thread takes at most five more steps, unless
  a start sets the flag again.

They rest on `EventAssumption`: a thread is of one kind and a socket holds at
least one uevent.

`DisplayApi_proofs` proves for any set of values, displays and rates and any
number of CRTCs, threads, calls and changes, whichever of their steps fail:

- `TypeCorrect` and `AnswersAreRight` (`AnswersRight`). A set call that no other
  one met is alone with its property from its begin to its end (`Alone`), so what
  its commands have done is still there when it returns (`DoneHolds`); what is
  remembered as set of an object is in the kernel until somebody touches that
  object's property (`AskedHolds`), and a read that began while it was there
  finds it in one step or in two (`Reading`). That reading inverts what a set has
  sent is a lemma about the two conversions (`ReadInvertsSend`).
- `RatesExact` and `VblankIsExact` (`VblankExact`): an argument about the two
  divisions, for every rate, and that the mode read is the pipe's own CRTC's.
- `CallsProgress` (`CallsEnd`): a call takes at most nine steps of its own; the
  compositor can make it send a command twice, not three times.

They rest on `SinkAssumption`: the properties are those of the library's enum
with values 0 to 2, there is a CRTC and HDMI is on one or off, rates are not 0,
displays say what the kernel can say.

`Caches_proofs` proves for every device, property and display and any number of
calls and changes: `TypeCorrect`, `HeapIsExact` (`HeapExact`), `CachesAreSinks`
(`CacheIsSink`) and `CopiesAreReads` (`CopyIsRead`). In the middle of a call the
heap is not what the structs point to; `CacheHeap` and `PropHeap` say for each
step by which block they differ, which is the one that the rest of the call
allocates or frees. A blob has another number after one change of the display
and may have the old one again after two, so that until the display changes the
blob found by the number that was read is the display's (`SeenBlob`,
`EdidSeen`). HDMI is on the CRTC that the connector was read with until it is
moved (`SeenCrtc`). They rest on
`CacheAssumption` (`SinksFit`, `KernelsFit`): there is a CRTC, and what the
kernel tells are numbers.

`Settings_proofs` proves for every device, list of modes and set of values and
any number of calls, requests and reports of the kernel:

- `TypeCorrect`, `SettersReadBack` (`SetReadsBack`), `ModesShow`
  (`ChangedModeShows`). What was committed is not an inductive property: the
  next commit may change it, and must then replace or override it. `LastOfAsked` says
  that what a call has asked for is the last item of its property in the
  request, `ItemsAsked` that each item has somebody who asked for it; together
  they make `ShownHolds` (what was asked for and taken is what the kernel has)
  hold after a commit. A mode change that fails half-way breaks both and is
  exempt (`half`). `HdmiOff` follows the CRTC that CVBS takes from HDMIA.

They rest on `SettingsAssumption`: objects have numbers of their own, every
driver has `CRTC_ID`, `MODE_ID` and `ACTIVE`, clients pass values of the header's
enumerations, and the kernel by itself changes no property that a call sets, but
for the state of content protection.

`SetCrtc` is proved about in `KmsInit_proofs` too, because both modules are about
reading the kernel's objects and giving them back. For every kernel, any options,
number of rounds, faults and changes:

- `RoundsAreFreed` (`MainSpec => []RoundsFreed`) and `ZeroIsSet`
  (`MainSpec => []ZeroMeansSet`). What is live is exactly what the last round
  read (`LiveIsGot`), which is what the cleanup frees although it stops at the
  first object that was not read: of these kinds all or none are read. The mode
  found is one of the list read last and fits (`ModeFound`), a request whose
  properties were all added is whole or names no mode (`Requested`), and only the
  kernel's acceptance leads to 0 (`Zero`).
- `RetryProgresses`: while the chosen connector has the mode, every step of the
  program brings it nearer to its end, at most ten steps for a round that a
  fault spoils.

They rest on `SetCrtcAssumption` (`KernelLists`): the lists of the kernel are
sequences, and the bounds of the instance are numbers.

The liveness properties (`CommitReturns`, `StopEndsThreads`, `WaitEnds`,
`RetryEnds`) are only model-checked: fairness is defined with
ENABLED, which is beyond the prover. The part of them that is not about fairness
is proved, for every value of the constants, in the theorems on progress above (for
the display API it is all that is claimed): each defines a measure `Left`, a
bounded number, that every step of the call's own thread takes down and no step
of anybody else puts up. The exceptions are those of the properties themselves:
a signal that interrupts `poll` leaves the measure as it is, a new start of the
monitor and a display that loses the mode asked for may put it up. What is left
to TLC is that until the end one of those steps is possible, and that weak
fairness then takes it.

The other properties that a run expects to hold are all theorems.

## 5. Not modelled

In modelled components: `drm_alloc_bufs` and `drm_free_bufs` (the latter frees
pointers into the middle of an allocation, which has no defined outcome), buffer
sizes and pitches; `meson_bo_destroy`, which nothing calls; the result of
`kms_set_plane`, never set when it succeeds; descriptors of the event monitor;
getters of the settings API that return one property as it is (HDR and DV
capabilities, ids, DPMS, sizes, timings) or a name, and the ioctls for zorder and mute;
parsing of options and printing. `MESON_RMFB` and `drmModeRmFB` are not told
apart.

`bsdrm` and the test programs: straight-line programs that open a device, draw
and exit. They exercise a driver, keep no state between calls, and nothing in
the library depends on them. Drawing and GL helpers, logging, vendored headers
and build files have no behaviour of their own to check.
