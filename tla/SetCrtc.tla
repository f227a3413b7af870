------------------------------- MODULE SetCrtc -------------------------------
(***************************************************************************)
(* The program drm_setcrtc (src/drm-setcrtc/drm_setcrtc.c): it reads the   *)
(* kernel's objects every three seconds until a connector has the mode     *)
(* that is asked for, sets it with one atomic commit, and ends.            *)
(***************************************************************************)
EXTENDS Integers, Sequences, FiniteSets

CONSTANTS
  Conns,       (* sequence of the connectors' numbers                       *)
  CrtcSeq,     (* sequence of the CRTCs' numbers                            *)
  Objects,     (* Objects[kind]: how many the kernel has, for Kinds         *)
  Lists,       (* the lists of modes that a connector can come to have      *)
  Asked,       (* the options -m and -p: records of name and rate           *)
  ConnArgs,    (* the numbers given by -c,                                  *)
  CrtcArgs,    (* and by -C                                                 *)
  MaxFaults,   (* bound: calls that fail                                    *)
  MaxLeak,     (* bound: leaked things that are told apart                  *)
  MaxChanges   (* bound: changes of the displays                            *)

Kinds   == {"crtc", "encoder", "connector", "fb", "plane"}
Default == -1

(* The kernel's lists: modes have a name, a rate and a flag.               *)
KernelLists ==
  /\ Conns \in Seq(Nat \ {0}) /\ CrtcSeq \in Seq(Nat \ {0})
  /\ Objects \in [Kinds -> Nat]
  /\ Objects["crtc"] = Len(CrtcSeq) /\ Objects["connector"] = Len(Conns)
  /\ Lists \subseteq Seq([name : STRING, rate : Nat, preferred : BOOLEAN])
  /\ MaxLeak \in Nat /\ MaxFaults \in Nat

ASSUME SetCrtcAssumption == KernelLists

VARIABLES
  place,       (* where main is; "crashed", "exited"                        *)
  opt,         (* the options: connector, CRTC, mode and service            *)
  modes,       (* modes[c]: the kernel's list of the connector's modes      *)
  read,        (* read[c]: the lists that get_resources has read            *)
  res,         (* what dev.resources is: "none", "full" or "noPlanes"       *)
  live,        (* live[what]: things of libdrm that are not freed           *)
  got,         (* got[kind]: the objects that could be read                 *)
  mode,        (* the mode found, or NoMode                                 *)
  req,         (* the properties that the request has                       *)
  set,         (* the mode that the kernel was made to show                 *)
  ret, stop,   (* ret and user_stop                                         *)
  told,        (* history: a signal has come                                *)
  short,       (* history: libdrm had no memory for a property              *)
  failures, changes

mainVars == <<place, opt, modes, read, res, live, got, mode, req, set, ret, stop, told,
              short, failures, changes>>

NoMode == [name |-> "", rate |-> 0, preferred |-> FALSE]
Whats  == Kinds \cup {"crtcProps", "connectorProps", "planeProps"}
ConnSet == {Conns[n] : n \in DOMAIN Conns}
CrtcIds == {CrtcSeq[n] : n \in DOMAIN CrtcSeq}
At(p)   == place = p
GoOn(p) == place' = p

MainInit ==
  /\ place = "open" /\ modes \in [ConnSet -> Lists]
  /\ opt \in [conn : ConnArgs \cup {Default}, crtc : CrtcArgs \cup {Default}, want : Asked,
             service : BOOLEAN]
  /\ read = [c \in ConnSet |-> <<>>] /\ res = "none"
  /\ live = [w \in Whats |-> 0] /\ got = [k \in Kinds |-> {}]
  /\ mode = NoMode /\ req = {} /\ set = NoMode
  /\ ret = 0 /\ stop = FALSE /\ told = FALSE /\ short = FALSE
  /\ failures = 0 /\ changes = 0

Failure == failures < MaxFaults /\ failures' = failures + 1

(* drmOpen and the atomic capability.                                      *)
Open ==
  /\ At("open")
  /\ \/ GoOn("round") /\ UNCHANGED <<ret, failures>>
     \/ Failure /\ GoOn("exited") /\ ret' = -1
  /\ UNCHANGED <<opt, modes, read, res, live, got, mode, req, set, stop, told, short, changes>>

-----------------------------------------------------------------------------
(* free_resource stops at the first object that could not be read.         *)
Freed(k) == {n \in got[k] : 1 .. n \subseteq got[k]}

(* Mutant: the properties of planes are not freed.                         *)
FreedPropsNoPlane == {"crtcProps"}

FreedProps == {"crtcProps", "planeProps"}

(* free_resources: the properties of connectors stay.                      *)
AfterFree ==
  LET left(w) == IF w \in Kinds THEN live[w] - Cardinality(Freed(w))
                 ELSE IF w \in FreedProps THEN 0 ELSE live[w]
  IN  IF res = "none" THEN live
      ELSE [w \in Whats |-> IF left(w) > MaxLeak THEN MaxLeak ELSE left(w)]

(* What get_resources holds when it ends well, or without the planes.      *)
Holds(all, planes) ==
  [w \in Whats |->
     CASE w \in Kinds \ {"plane"} -> Cardinality(all[w])
       [] w = "plane" -> IF planes THEN Cardinality(all[w]) ELSE 0
       [] w = "crtcProps" -> Objects["crtc"]
       [] w = "connectorProps" -> Objects["connector"]
       [] OTHER -> IF planes THEN Objects["plane"] ELSE 0]

(* A round begins by freeing what the one before has read.  Encoders and   *)
(* framebuffers may be unreadable; a connector, CRTC or plane that is not  *)
(* read is used through a null pointer, and so are the arrays of CRTCs,    *)
(* connectors and planes by the cleanup when there is no memory for them.  *)
GetResources ==
  /\ At("round")
  /\ LET all == [k \in Kinds |-> 1 .. Objects[k]] IN
     \/ /\ got' = all /\ res' = "full" /\ read' = modes /\ GoOn("check")
        /\ live' = [w \in Whats |-> AfterFree[w] + Holds(all, TRUE)[w]]
        /\ UNCHANGED failures
     \/ \E kind \in {"encoder", "fb"} : \E n \in all[kind] :
          LET part == [all EXCEPT ![kind] = @ \ {n}] IN
          /\ Failure /\ got' = part /\ res' = "full" /\ read' = modes /\ GoOn("check")
          /\ live' = [w \in Whats |-> AfterFree[w] + Holds(part, TRUE)[w]]
     \/ /\ Failure /\ got' = [all EXCEPT !["plane"] = {}] /\ res' = "noPlanes" /\ read' = modes
        /\ live' = [w \in Whats |-> AfterFree[w] + Holds(all, FALSE)[w]] /\ GoOn("check")
     \/ /\ Failure /\ got' = [k \in Kinds |-> {}] /\ res' = "none" /\ live' = AfterFree
        /\ GoOn("check") /\ UNCHANGED read
     \/ Failure /\ GoOn("crashed") /\ UNCHANGED <<got, res, live, read>>
  /\ UNCHANGED <<opt, modes, mode, req, set, ret, stop, told, short, changes>>

(* Nothing to work with: wait, and read again.                             *)
NoResources ==
  /\ At("check") /\ (res = "none" \/ Conns = <<>> \/ CrtcSeq = <<>>)
  /\ ret' = -1 /\ GoOn("wait")
  /\ UNCHANGED <<opt, modes, read, res, live, got, mode, req, set, stop, told, short,
                 failures, changes>>

Fits(m, want) ==
  IF want.name = "" THEN m.preferred
  ELSE m.name = want.name /\ (want.rate = 0 \/ m.rate = want.rate)

FirstFit(list, want) ==
  LET all == {n \in DOMAIN list : Fits(list[n], want)}
  IN  IF all = {} THEN NoMode ELSE list[CHOOSE n \in all : \A k \in all : n <= k]

(* A number given by -c that no connector has is looked for in vain.       *)
ListOf(lists, c) == IF c \in ConnSet THEN lists[c] ELSE <<>>

(* The first connector and CRTC of the first round stay the choice.        *)
Choose ==
  /\ At("check") /\ res # "none" /\ Conns # <<>> /\ CrtcSeq # <<>>
  /\ opt' = [opt EXCEPT !.conn = IF @ = Default THEN Conns[1] ELSE @,
                        !.crtc = IF @ = Default THEN CrtcSeq[1] ELSE @]
  /\ mode' = FirstFit(ListOf(read, opt'.conn), opt.want)
  /\ GoOn(IF mode' = NoMode THEN "wait" ELSE "found")
  /\ UNCHANGED <<modes, read, res, live, got, req, set, ret, stop, told, short, failures,
                 changes>>

(* Mutant: need_wait_connection is not reset when a round begins.          *)
AgainAlways == IF stop THEN "out" ELSE "round"

(* The end of a round: wait_connection sleeps, or a mode was found.        *)
Again ==
  IF stop THEN "out" ELSE IF At("found") THEN "set" ELSE "round"

Wait ==
  /\ place \in {"wait", "found"} /\ GoOn(Again)
  /\ UNCHANGED <<opt, modes, read, res, live, got, mode, req, set, ret, stop, told, short,
                 failures, changes>>

-----------------------------------------------------------------------------
(* Only a CRTC has the last two properties; nothing that is not found, the *)
(* object or the property, stops the program.  A number that neither CRTC  *)
(* nor connector has is looked for among the planes, of which the list may *)
(* be missing.                                                             *)
Whole == {"CRTC_ID"} \cup IF opt.crtc \in CrtcIds THEN {"MODE_ID", "ACTIVE"} ELSE {}
Looked == opt.crtc \in CrtcIds \cup ConnSet \/ res = "full"

(* The request: a property that the object lacks or for which there is no  *)
(* memory is only reported, and so is a blob that could not be made; a     *)
(* request that could not be allocated is committed as NULL; an object     *)
(* with properties but no memory for their names is a null pointer.        *)
AddProperties ==
  /\ At("set")
  /\ \/ Looked /\ req' = Whole /\ GoOn("commit") /\ UNCHANGED <<short, failures>>
     \/ \E kept \in (SUBSET Whole) \ {Whole} :
          Looked /\ Failure /\ short' = TRUE /\ req' = kept /\ GoOn("commit")
     \/ /\ Failure /\ opt.crtc \in CrtcIds /\ req' = {"CRTC_ID", "noMode", "ACTIVE"}
        /\ GoOn("commit") /\ UNCHANGED short
     \/ Looked /\ Failure /\ req' = {"noRequest"} /\ GoOn("commit") /\ UNCHANGED short
     \/ Failure /\ GoOn("crashed") /\ UNCHANGED <<req, short>>
     \/ ~Looked /\ GoOn("crashed") /\ UNCHANGED <<req, short, failures>>
  /\ UNCHANGED <<opt, modes, read, res, live, got, mode, set, ret, stop, told, changes>>

(* Mutant: the result of the commit is not kept.                           *)
RetOf(taken) == 0

ResultOf(taken) == IF taken THEN 0 ELSE -1

(* user_stop is set before the loop of the service looks at it.            *)
AfterCommit == "out"

(* The kernel makes no CRTC active without a mode, and puts a connector on *)
(* a CRTC there is or, by 0, on none, which it refuses for one that is on. *)
Refused == \/ req \cap {"noMode", "noRequest"} # {}
           \/ "CRTC_ID" \in req /\ opt.crtc \notin CrtcIds \cup {0}

(* drmModeAtomicCommit: an empty request is taken.                         *)
Commit ==
  /\ At("commit")
  /\ \E taken \in BOOLEAN :
       /\ (taken => ~Refused) /\ (req = {} => taken)
       /\ IF taken \/ Refused \/ opt.crtc = 0 THEN UNCHANGED failures ELSE Failure
       /\ ret' = ResultOf(taken)
       /\ set' = IF taken /\ req = {"CRTC_ID", "MODE_ID", "ACTIVE"} THEN mode ELSE set
       /\ GoOn(IF taken THEN AfterCommit ELSE "out")
       /\ stop' = (stop \/ (taken /\ opt.service))
  /\ UNCHANGED <<opt, modes, read, res, live, got, mode, req, told, short, changes>>

Out ==
  /\ At("out") /\ GoOn("exited") /\ live' = AfterFree /\ res' = "none"
  /\ UNCHANGED <<opt, modes, read, got, mode, req, set, ret, stop, told, short, failures,
                 changes>>

(* SIGINT and SIGTERM.                                                     *)
SignalHandle ==
  /\ place \notin {"crashed", "exited"} /\ ~told /\ stop' = TRUE /\ told' = TRUE
  /\ UNCHANGED <<place, opt, modes, read, res, live, got, mode, req, set, ret, short, failures,
                 changes>>

(* A display is plugged, changed or unplugged.                             *)
Replug ==
  /\ changes < MaxChanges /\ changes' = changes + 1
  /\ \E c \in ConnSet, list \in Lists : modes' = [modes EXCEPT ![c] = list]
  /\ UNCHANGED <<place, opt, read, res, live, got, mode, req, set, ret, stop, told, short,
                 failures>>

MainStep == \/ Open \/ GetResources \/ NoResources \/ Choose \/ Wait \/ AddProperties
            \/ Commit \/ Out
MainNext == MainStep \/ SignalHandle \/ Replug

MainSpec     == MainInit /\ [][MainNext]_mainVars
MainFairSpec == MainSpec /\ WF_mainVars(MainStep)

-----------------------------------------------------------------------------
(* What a round has read is freed by the next one or at the end, but the   *)
(* connectors' properties and what lies behind an object that could not be *)
(* read.                                                                   *)
RoundsFreed ==
  res = "none" /\ ~At("crashed") =>
    \A w \in {"crtc", "connector", "plane", "crtcProps", "planeProps"} : live[w] = 0

(* The program's 0 means, if no signal has come and every property could   *)
(* be added, that the kernel shows the mode that was found; but not with   *)
(* -C 0, by which no mode is ever set, for all that the program ends with  *)
(* 0 if the kernel takes it.  A mode that is set is one that the chosen    *)
(* connector had when it was last read, and is what the options ask for,   *)
(* in every later round too.                                               *)
ZeroMeansSet ==
  /\ At("exited") /\ ret = 0 /\ ~told /\ ~short =>
       IF opt.crtc = 0 THEN set = NoMode ELSE set = mode /\ set # NoMode
  /\ set # NoMode =>
       /\ \E n \in DOMAIN read[opt.conn] : read[opt.conn][n] = set
       /\ IF opt.want.name = "" THEN set.preferred
          ELSE set.name = opt.want.name /\ opt.want.rate \in {0, set.rate}

Chosen == IF opt.conn = Default THEN Conns[1] ELSE opt.conn

(* If the connector of the choice comes to have the mode and keeps it, the *)
(* retries come to an end.                                                 *)
RetryEnds ==
  (<>[](FirstFit(ListOf(modes, Chosen), opt.want) # NoMode))
    => <>(place \in {"exited", "crashed"})

=============================================================================
