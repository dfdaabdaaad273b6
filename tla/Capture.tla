------------------------------ MODULE Capture ------------------------------
(***************************************************************************)
(* internal/capture: one Capturer, from Run to the end of Stop.            *)
(*                                                                         *)
(* Goroutines: Poll (pollCursorEdge), one monitor per opened descriptor    *)
(* (monitorDevice; its thread name is the descriptor), and Main, the       *)
(* reconnect loop of cmd/mwb: Run, then network.ReceiveLoop, whose packets *)
(* may call SetActive(true), then Stop.                                    *)
(*                                                                         *)
(* A critical section of c.mu that calls nothing is one step; mu is a      *)
(* variable because handleRel holds it across SendPacket.  grabMu is held  *)
(* for a whole applyIsolation, which is several steps.  Abstracted: pixel  *)
(* positions (zones, as far as the code compares them), the Y axis and     *)
(* acceleration, packet contents, the 100 ms clocks (grace may end at any  *)
(* time, the debounce may have elapsed or not), the recentering of the     *)
(* pointer (it falls between the change of active and the wait for grabMu, *)
(* two steps here) and OnActivated (the clipboard's).                      *)
(***************************************************************************)
EXTENDS Naturals, FiniteSets

CONSTANTS
  Paths,     \* /dev/input/event* names
  Targets,   \* the paths isGrabTarget accepts: physical keyboards, pointers
  Files,     \* descriptors; each names the goroutine that monitors it too
  Poll,      \* the goroutine of pollCursorEdge
  Main,      \* the goroutine of the reconnect loop
  NoFile,    \* no entry of the devices map, no descriptor
  NoPath,    \* the path of a descriptor not in use
  Nobody,    \* no goroutine holds the mutex
  X11Ready,  \* FALSE: the devices are listed, but newX11Pointer fails
  MaxPlugs   \* bound: how often a device is plugged in

Threads == Files \cup {Poll, Main}

ASSUME CaptureAssumption ==
  /\ Targets \subseteq Paths
  /\ Poll \notin Files /\ Main \notin Files /\ Poll # Main
  /\ NoFile \notin Threads /\ NoPath \notin Paths
  /\ Nobody \notin Threads
  /\ X11Ready \in BOOLEAN
  /\ MaxPlugs \in Nat

VARIABLES
  active,      \* c.active: the cursor is on this machine
  grace,       \* less than 100 ms have passed since c.switchSent
  canSwitch,   \* c.canSwitch: the local edge is armed
  canReturn,   \* c.canReturn: the remote edge is armed
  seen,        \* pollCursorEdge's x, by its zones
  devices,     \* c.devices: path -> descriptor
  grabbed,     \* the descriptors whose trackedDevice.grabbed is true
  stopCh,      \* c.stopCh is closed
  stopped,     \* c.stopped
  mu, grabMu,  \* holders of c.mu and c.grabMu
  pc,          \* where each goroutine is
  todo,        \* per thread: the listed paths addDevice has yet to be called on
  newFile,     \* per thread: the descriptor addDevice has opened, not inserted
  suppress,    \* applyIsolation's suppress (of the holder of grabMu)
  pending,     \* setIsolation's pending
  cur,         \* the device whose ioctl succeeded and whose flag is not set yet
  node,        \* kernel and udev: each /dev/input node
  plugs,       \* how often a node appeared
  fd,          \* kernel: the state of each descriptor
  at,          \* the path each descriptor was opened on (f.Name())
  alive,       \* descriptors open on a node that still exists
  kgrab,       \* kernel: descriptors that hold EVIOCGRAB
  seenAway,    \* history: the pointer was seen away from the edge since it came
  wentInside,  \* history: the remote cursor was deep inside since it went there
  steady,      \* history: nodes there, and readable, ever since the rescan of
               \* the last pass, if that pass was to suppress
  refused      \* history: grabs the kernel refused in the last isolation pass

ownVars   == <<active, grace, canSwitch, canReturn>>
devVars   == <<devices, fd, at, alive>>
grabVars  == <<grabbed, kgrab, refused>>
passVars  == <<suppress, pending, cur>>
nodeVars  == <<node, plugs, steady>>
addVars   == <<todo, newFile>>
stopVars  == <<stopCh, stopped>>
histVars  == <<seenAway, wentInside>>
vars == <<ownVars, seen, devVars, grabVars, passVars, nodeVars, addVars,
          stopVars, histVars, mu, grabMu, pc>>

\* Local pointer: x <= 1 is "edge", x > rearmDistance is "away".
Zones == {"edge", "near", "away"}
\* Remote pointer after a motion: at the return edge, up to the landing point, or
\* beyond it.
RemoteZones == {"edge", "entry", "inside"}

\* The steps of applyIsolation, from the wait for grabMu on.
AddPcs  == {"open", "insert"}
PassPcs == {"lock", "list", "prune", "pick", "ioctl", "note"}
PollPcs == {"off", "idle", "arm", "switch"}
MonPcs  == {"off", "top", "read", "grace", "handle", "sending"}
MainPcs == {"run", "loop", "activate", "closing", "stopping", "wait", "done",
            "panic"}

TypeOK ==
  /\ active \in BOOLEAN /\ grace \in BOOLEAN
  /\ canSwitch \in BOOLEAN /\ canReturn \in BOOLEAN
  /\ seen \in Zones
  /\ devices \in [Paths -> Files \cup {NoFile}]
  /\ grabbed \in SUBSET Files /\ kgrab \in SUBSET Files
  /\ alive \in SUBSET Files /\ refused \in SUBSET Files
  /\ stopCh \in BOOLEAN /\ stopped \in BOOLEAN
  /\ mu \in Files \cup {Nobody}
  /\ grabMu \in Threads \cup {Nobody}
  /\ pc \in [Threads -> PassPcs \cup AddPcs \cup PollPcs \cup MonPcs \cup MainPcs]
  /\ pc[Poll] \in PollPcs \cup PassPcs \cup AddPcs
  /\ pc[Main] \in MainPcs \cup PassPcs \cup AddPcs
  /\ \A f \in Files : pc[f] \in MonPcs \cup PassPcs \cup AddPcs
  /\ todo \in [Threads -> SUBSET Paths]
  /\ newFile \in [Threads -> Files \cup {NoFile}]
  /\ suppress \in BOOLEAN
  /\ pending \in SUBSET Files
  /\ cur \in Files \cup {NoFile}
  /\ node \in [Paths -> {"absent", "raw", "ready"}]
  /\ plugs \in 0..MaxPlugs
  /\ fd \in [Files -> {"free", "opening", "open", "closed"}]
  /\ at \in [Files -> Paths \cup {NoPath}]
  /\ seenAway \in BOOLEAN /\ wentInside \in BOOLEAN
  /\ steady \in SUBSET Paths

-----------------------------------------------------------------------------
Listed == {p \in Paths : node[p] # "absent"}
Ready  == {p \in Paths : node[p] = "ready"}

Tracked == {f \in Files : \E p \in Paths : devices[p] = f}
TrackedTargets == {f \in Files : \E p \in Targets : devices[p] = f}

\* Where a goroutine goes on once applyIsolation has returned.
Home(t) == CASE t = Poll -> "idle"
             [] t = Main -> "loop"
             [] OTHER    -> "top"

Goto(t, l) == pc' = [pc EXCEPT ![t] = l]

(***************************************************************************)
(* New, then the point at which main.go calls Run.                         *)
(***************************************************************************)
Init ==
  /\ active = TRUE /\ grace = FALSE
  /\ canSwitch = TRUE /\ canReturn = FALSE
  /\ seen = "near"
  /\ devices = [p \in Paths |-> NoFile]
  /\ grabbed = {} /\ kgrab = {} /\ alive = {} /\ refused = {}
  /\ stopCh = FALSE /\ stopped = FALSE
  /\ mu = Nobody /\ grabMu = Nobody
  /\ pc = [t \in Threads |-> IF t = Main THEN "run" ELSE "off"]
  /\ todo = [t \in Threads |-> {}]
  /\ newFile = [t \in Threads |-> NoFile]
  /\ suppress = FALSE /\ pending = {} /\ cur = NoFile
  /\ node \in [Paths -> {"absent", "ready"}]
  /\ plugs = 0
  /\ fd = [f \in Files |-> "free"]
  /\ at = [f \in Files |-> NoPath]
  /\ seenAway = TRUE /\ wentInside = FALSE
  /\ steady = {}

-----------------------------------------------------------------------------
(***************************************************************************)
(* Run and addDevice.  Run starts the poll before it adds the devices.     *)
(***************************************************************************)
RunStart ==
  /\ pc[Main] = "run"
  /\ X11Ready
  /\ pc' = [pc EXCEPT ![Main] = "open", ![Poll] = "idle"]
  /\ todo' = [todo EXCEPT ![Main] = Listed]
  /\ UNCHANGED <<ownVars, seen, devVars, grabVars, passVars, nodeVars,
                 newFile, stopVars, histVars, mu, grabMu>>

\* Run returns an error: the devices cannot be listed, or (X11Ready is FALSE)
\* the display not reached.  main.go logs it and goes on to ReceiveLoop.
RunFails ==
  /\ pc[Main] = "run"
  /\ Goto(Main, "loop")
  /\ UNCHANGED <<ownVars, seen, devVars, grabVars, passVars, nodeVars,
                 addVars, stopVars, histVars, mu, grabMu>>

\* addDevice returns early: path known, capturer stopped, or open(2) failed.
SkipDevice(t, p) ==
  /\ pc[t] = "open" /\ p \in todo[t] /\ mu = Nobody
  /\ devices[p] # NoFile \/ stopped \/ node[p] # "ready"
  /\ todo' = [todo EXCEPT ![t] = @ \ {p}]
  /\ UNCHANGED <<ownVars, seen, devVars, grabVars, passVars, nodeVars,
                 newFile, stopVars, histVars, mu, grabMu, pc>>

OpenDevice(t, p, f) ==
  /\ pc[t] = "open" /\ p \in todo[t] /\ mu = Nobody
  /\ devices[p] = NoFile /\ ~stopped /\ node[p] = "ready"
  /\ fd[f] = "free"
  /\ fd' = [fd EXCEPT ![f] = "opening"]
  /\ at' = [at EXCEPT ![f] = p]
  /\ alive' = alive \cup {f}
  /\ newFile' = [newFile EXCEPT ![t] = f]
  /\ todo' = [todo EXCEPT ![t] = @ \ {p}]
  /\ Goto(t, "insert")
  /\ UNCHANGED <<ownVars, seen, devices, grabVars, passVars, nodeVars,
                 stopVars, histVars, mu, grabMu>>

\* Mutant: only the map is checked a second time, not stopped.
InsertUnchecked(t) ==
  LET f == newFile[t]
  IN /\ pc[t] = "insert" /\ mu = Nobody /\ devices[at[f]] = NoFile
     /\ newFile' = [newFile EXCEPT ![t] = NoFile]
     /\ devices' = [devices EXCEPT ![at[f]] = f]
     /\ fd' = [fd EXCEPT ![f] = "open"]
     /\ pc' = [pc EXCEPT ![t] = "open", ![f] = "top"]
     /\ UNCHANGED <<alive, at, ownVars, seen, grabVars, passVars, nodeVars, todo,
                    stopVars, histVars, mu, grabMu>>

\* Under c.mu again: stopped and the map are checked a second time.
InsertDevice(t) ==
  LET f == newFile[t]
      p == at[f]
  IN /\ pc[t] = "insert" /\ mu = Nobody
     /\ newFile' = [newFile EXCEPT ![t] = NoFile]
     /\ \/ /\ stopped \/ devices[p] # NoFile
           /\ fd' = [fd EXCEPT ![f] = "free"]
           /\ at' = [at EXCEPT ![f] = NoPath]
           /\ alive' = alive \ {f}
           /\ Goto(t, "open")
           /\ UNCHANGED devices
        \/ /\ ~stopped /\ devices[p] = NoFile
           /\ devices' = [devices EXCEPT ![p] = f]
           /\ fd' = [fd EXCEPT ![f] = "open"]
           /\ pc' = [pc EXCEPT ![t] = "open", ![f] = "top"]
           /\ UNCHANGED <<alive, at>>
     /\ UNCHANGED <<ownVars, seen, grabVars, passVars, nodeVars, todo,
                    stopVars, histVars, mu, grabMu>>

\* The last device has been added: Run returns, or refreshDevices does.
AllAdded(t) ==
  /\ pc[t] = "open" /\ todo[t] = {}
  /\ Goto(t, IF grabMu = t THEN "pick" ELSE "loop")
  /\ UNCHANGED <<ownVars, seen, devVars, grabVars, passVars, nodeVars,
                 addVars, stopVars, histVars, mu, grabMu>>

-----------------------------------------------------------------------------
(***************************************************************************)
(* applyIsolation.  The direction is read from c.active inside grabMu.     *)
(***************************************************************************)
\* Mutant: the caller's direction, as in the releaseInput this code replaced.
LockWithDirection(t) ==
  /\ pc[t] = "lock" /\ grabMu = Nobody /\ mu = Nobody
  /\ grabMu' = t
  /\ suppress' = (t = Poll)
  /\ Goto(t, IF t = Poll THEN "list" ELSE "pick")
  /\ UNCHANGED <<ownVars, seen, devVars, grabVars, pending, cur, nodeVars,
                 addVars, stopVars, histVars, mu>>

LockIsolation(t) ==
  /\ pc[t] = "lock" /\ grabMu = Nobody /\ mu = Nobody
  /\ grabMu' = t
  /\ suppress' = ~active
  /\ steady' = IF active THEN {} ELSE steady
  /\ Goto(t, IF active THEN "pick" ELSE "list")
  /\ UNCHANGED <<ownVars, seen, devVars, grabVars, pending, cur, node,
                 plugs, addVars, stopVars, histVars, mu>>

\* refreshDevices: the scan of /dev/input.
ListDevices(t) ==
  /\ pc[t] = "list"
  /\ todo' = [todo EXCEPT ![t] = Listed]
  /\ steady' = Ready
  /\ Goto(t, "prune")
  /\ UNCHANGED <<ownVars, seen, devVars, grabVars, passVars, node, plugs,
                 newFile, stopVars, histVars, mu, grabMu>>

\* The scan fails: the tracked set stays as it is.
ScanFails(t) ==
  /\ pc[t] = "list"
  /\ steady' = {}
  /\ Goto(t, "pick")
  /\ UNCHANGED <<ownVars, seen, devVars, grabVars, passVars, node, plugs, addVars,
                 stopVars, histVars, mu, grabMu>>

\* The descriptors F are closed; one that no entry names and no goroutine
\* monitors can be used again.
Close(F) ==
  LET over == {f \in F : pc'[f] = "off" /\ \A p \in Paths : devices'[p] # f}
  IN /\ fd' = [f \in Files |-> IF f \in over THEN "free"
                               ELSE IF f \in F THEN "closed" ELSE fd[f]]
     /\ at' = [f \in Files |-> IF f \in over THEN NoPath ELSE at[f]]
     /\ alive' = alive \ F
     /\ kgrab' = kgrab \ F
     /\ grabbed' = grabbed \ {f \in F : \A p \in Paths : devices'[p] # f}

\* refreshDevices: entries whose node is not listed are dropped and closed.
PruneDevices(t) ==
  LET gone == {f \in Tracked : at[f] \notin todo[t]}
  IN /\ pc[t] = "prune" /\ mu = Nobody
     /\ \/ /\ stopped
           /\ todo' = [todo EXCEPT ![t] = {}]
           /\ Goto(t, "pick")
           /\ UNCHANGED <<devVars, grabbed, kgrab>>
        \/ /\ ~stopped
           /\ devices' = [p \in Paths |-> IF p \in todo[t] THEN devices[p] ELSE NoFile]
           /\ Goto(t, "open")
           /\ Close(gone)
           /\ UNCHANGED todo
     /\ UNCHANGED <<ownVars, seen, refused, passVars, nodeVars, newFile,
                    stopVars, histVars, mu, grabMu>>

\* Mutant: map entries without a descriptor are not left out.
PickEveryEntry(t) ==
  /\ pc[t] = "pick" /\ mu = Nobody
  /\ pending' = {devices[p] : p \in Targets}
  /\ refused' = {}
  /\ Goto(t, "ioctl")
  /\ UNCHANGED <<ownVars, seen, devVars, grabbed, kgrab, suppress, cur,
                 nodeVars, addVars, stopVars, histVars, mu, grabMu>>

\* setIsolation: the devices that are not in the wanted state yet.
PickPending(t) ==
  /\ pc[t] = "pick" /\ mu = Nobody
  /\ pending' = {f \in TrackedTargets : (f \in grabbed) # suppress}
  /\ refused' = {}
  /\ Goto(t, "ioctl")
  /\ UNCHANGED <<ownVars, seen, devVars, grabbed, kgrab, suppress, cur,
                 nodeVars, addVars, stopVars, histVars, mu, grabMu>>

\* setIsolation: EVIOCGRAB on one device succeeds ...
Ioctl(t, f) ==
  /\ pc[t] = "ioctl" /\ f \in pending
  /\ f \in alive
  /\ kgrab' = IF suppress THEN kgrab \cup {f} ELSE kgrab \ {f}
  /\ cur' = f
  /\ Goto(t, "note")
  /\ UNCHANGED <<ownVars, seen, devVars, grabbed, refused, suppress,
                 pending, nodeVars, addVars, stopVars, histVars, mu, grabMu>>

\* ... or fails: the node is gone, the descriptor closed, or another client of
\* the node holds the grab (EBUSY; a release is never refused).
IoctlFails(t, f) ==
  /\ pc[t] = "ioctl" /\ f \in pending
  /\ \/ f \notin alive /\ UNCHANGED refused
     \/ f \in alive /\ suppress /\ refused' = refused \cup {f}
  /\ pending' = pending \ {f}
  /\ UNCHANGED <<ownVars, seen, devVars, grabbed, kgrab, suppress, cur,
                 nodeVars, addVars, stopVars, histVars, mu, grabMu, pc>>

\* Mutant: the flag is cleared on release but not set on a grab.
NoteReleaseOnly(t) ==
  /\ pc[t] = "note" /\ mu = Nobody
  /\ grabbed' = IF suppress THEN grabbed ELSE grabbed \ {cur}
  /\ pending' = pending \ {cur}
  /\ cur' = NoFile
  /\ Goto(t, "ioctl")
  /\ UNCHANGED <<ownVars, seen, devVars, kgrab, refused, suppress,
                 nodeVars, addVars, stopVars, histVars, mu, grabMu>>

NoteGrab(t) ==
  /\ pc[t] = "note" /\ mu = Nobody
  /\ grabbed' = IF suppress THEN grabbed \cup {cur} ELSE grabbed \ {cur}
  /\ pending' = pending \ {cur}
  /\ cur' = NoFile
  /\ Goto(t, "ioctl")
  /\ UNCHANGED <<ownVars, seen, devVars, kgrab, refused, suppress,
                 nodeVars, addVars, stopVars, histVars, mu, grabMu>>

\* Mutant: an early return that skips the unlock.
ReturnLocked(t) ==
  /\ pc[t] = "ioctl" /\ pending = {}
  /\ suppress' = FALSE
  /\ Goto(t, Home(t))
  /\ UNCHANGED <<ownVars, seen, devVars, grabVars, pending, cur, nodeVars,
                 addVars, stopVars, histVars, mu, grabMu>>

UnlockIsolation(t) ==
  /\ pc[t] = "ioctl" /\ pending = {}
  /\ grabMu' = Nobody
  /\ suppress' = FALSE
  /\ Goto(t, Home(t))
  /\ UNCHANGED <<ownVars, seen, devVars, grabVars, pending, cur, nodeVars,
                 addVars, stopVars, histVars, mu>>

-----------------------------------------------------------------------------
(***************************************************************************)
(* pollCursorEdge.  A tick with the cursor away from this machine, or with *)
(* a failed position query, changes nothing.                               *)
(***************************************************************************)
PollTick ==
  /\ pc[Poll] = "idle" /\ mu = Nobody
  /\ active
  /\ seen' \in Zones
  /\ seenAway' = (seenAway \/ seen' = "away")
  /\ Goto(Poll, "arm")
  /\ UNCHANGED <<ownVars, devVars, grabVars, passVars, nodeVars, addVars,
                 stopVars, wentInside, mu, grabMu>>

PollArm ==
  /\ pc[Poll] = "arm" /\ mu = Nobody
  /\ canSwitch' = (canSwitch \/ seen = "away")
  /\ \/ canSwitch' /\ seen = "edge" /\ Goto(Poll, "switch")
     \/ Goto(Poll, "idle")   \* not at the edge, not armed, or debounced
  /\ seen' = "near"
  /\ UNCHANGED <<active, grace, canReturn, devVars, grabVars,
                 passVars, nodeVars, addVars, stopVars, histVars, mu, grabMu>>

\* Mutant: canReturn keeps what the last visit left.
SwitchOutStale ==
  /\ pc[Poll] = "switch" /\ mu = Nobody
  /\ active' = FALSE
  /\ grace' = TRUE
  /\ wentInside' = FALSE
  /\ Goto(Poll, "lock")
  /\ UNCHANGED <<canReturn, canSwitch, seen, devVars, grabVars, passVars,
                 nodeVars, addVars, stopVars, seenAway, mu, grabMu>>

SwitchOut ==
  /\ pc[Poll] = "switch" /\ mu = Nobody
  /\ active' = FALSE
  /\ grace' = TRUE
  /\ canReturn' = FALSE
  /\ wentInside' = FALSE
  /\ Goto(Poll, "lock")
  /\ UNCHANGED <<canSwitch, seen, devVars, grabVars, passVars, nodeVars,
                 addVars, stopVars, seenAway, mu, grabMu>>

PollExits ==
  /\ pc[Poll] = "idle" /\ stopCh
  /\ Goto(Poll, "off")
  /\ UNCHANGED <<ownVars, seen, devVars, grabVars, passVars, nodeVars,
                 addVars, stopVars, histVars, mu, grabMu>>

-----------------------------------------------------------------------------
(***************************************************************************)
(* SetActive(true), the way back that packets, the hotkey and absolute     *)
(* events take.                                                            *)
(***************************************************************************)
\* Mutant: the local edge stays armed.
SetActiveArmed(t) ==
  /\ IF active
       THEN /\ Goto(t, Home(t))
            /\ UNCHANGED <<ownVars, seenAway>>
       ELSE /\ active' = TRUE
            /\ grace' = FALSE
            /\ canReturn' = FALSE
            /\ seenAway' = FALSE
            /\ Goto(t, "lock")
            /\ UNCHANGED canSwitch
  /\ UNCHANGED wentInside

SetActive(t) ==
  /\ IF active
       THEN /\ Goto(t, Home(t))
            /\ UNCHANGED <<ownVars, seenAway>>
       ELSE /\ active' = TRUE
            /\ grace' = FALSE
            /\ canSwitch' = FALSE
            /\ canReturn' = FALSE
            /\ seenAway' = FALSE
            /\ Goto(t, "lock")
  /\ UNCHANGED wentInside

-----------------------------------------------------------------------------
(***************************************************************************)
(* monitorDevice, handleEvent, handleRel, handleKey of descriptor f.  An   *)
(* event is read and ownership checked, then the grace period, then the    *)
(* event is handled: locks of c.mu with gaps between them.  What the event *)
(* is, is chosen when it is handled.                                       *)
(***************************************************************************)
\* The top of the loop looks at stopCh, then the goroutine parks in Read.
EnterRead(f) ==
  /\ pc[f] = "top" /\ ~stopCh
  /\ Goto(f, "read")
  /\ UNCHANGED <<ownVars, seen, devVars, grabVars, passVars, nodeVars, addVars,
                 stopVars, histVars, mu, grabMu>>

\* An event that arrives while the cursor is here is dropped: no step.
ReadEvent(f) ==
  /\ pc[f] = "read" /\ fd[f] = "open" /\ f \in alive /\ mu = Nobody
  /\ ~active
  /\ Goto(f, "grace")
  /\ UNCHANGED <<ownVars, seen, devVars, grabVars, passVars, nodeVars, addVars,
                 stopVars, histVars, mu, grabMu>>

\* One read returns up to 32 events: the next one is handled without a look at
\* stopCh, and after the descriptor has been closed as well.
NextOfBatch(f) ==
  /\ pc[f] = "top" /\ mu = Nobody
  /\ ~active
  /\ Goto(f, "grace")
  /\ UNCHANGED <<ownVars, seen, devVars, grabVars, passVars, nodeVars, addVars,
                 stopVars, histVars, mu, grabMu>>

CheckGrace(f) ==
  /\ pc[f] = "grace" /\ mu = Nobody
  /\ Goto(f, IF grace THEN "top" ELSE "handle")
  /\ UNCHANGED <<ownVars, seen, devVars, grabVars, passVars, nodeVars,
                 addVars, stopVars, histVars, mu, grabMu>>

\* handleRel does not look at c.active again.
AtReturnEdge(z) == canReturn /\ z = "edge"

\* Mutant: applyIsolation is called with c.mu held.
SwitchBackLocked(f) ==
  /\ pc[f] = "handle" /\ mu = Nobody
  /\ AtReturnEdge("edge")
  /\ active' = TRUE
  /\ grace' = FALSE
  /\ canSwitch' = FALSE
  /\ seenAway' = (seenAway /\ active)
  /\ mu' = f
  /\ Goto(f, "lock")
  /\ UNCHANGED <<canReturn, seen, devVars, grabVars, passVars, nodeVars,
                 addVars, stopVars, wentInside, grabMu>>

\* Mutant: canSwitch is not reset on this way back.
SwitchBackArmed(f) ==
  /\ pc[f] = "handle" /\ mu = Nobody
  /\ AtReturnEdge("edge")
  /\ active' = TRUE
  /\ grace' = FALSE
  /\ seenAway' = (seenAway /\ active)
  /\ Goto(f, "lock")
  /\ UNCHANGED <<canSwitch, canReturn, seen, devVars, grabVars, passVars,
                 nodeVars, addVars, stopVars, wentInside, mu, grabMu>>

\* The remote cursor hits the shared edge: local control, then isolation.
SwitchBack(f) ==
  /\ pc[f] = "handle" /\ mu = Nobody
  /\ AtReturnEdge("edge")
  /\ active' = TRUE
  /\ grace' = FALSE
  /\ canSwitch' = FALSE
  /\ seenAway' = (seenAway /\ active)
  /\ Goto(f, "lock")
  /\ UNCHANGED <<canReturn, seen, devVars, grabVars, passVars, nodeVars,
                 addVars, stopVars, wentInside, mu, grabMu>>

\* Any other motion is forwarded with c.mu held.
MoveRemote(f, z) ==
  /\ pc[f] = "handle" /\ mu = Nobody
  /\ ~AtReturnEdge(z)
  /\ canReturn' = (canReturn \/ z = "inside")
  /\ wentInside' = (wentInside \/ z = "inside")
  /\ mu' = f
  /\ Goto(f, "sending")
  /\ UNCHANGED <<active, grace, canSwitch, seen, devVars, grabVars, passVars,
                 nodeVars, addVars, stopVars, seenAway, grabMu>>

Wheel(f) ==
  /\ pc[f] = "handle" /\ mu = Nobody
  /\ mu' = f
  /\ Goto(f, "sending")
  /\ UNCHANGED <<ownVars, seen, devVars, grabVars, passVars, nodeVars,
                 addVars, stopVars, histVars, grabMu>>

\* SendPacket comes back: sent, failed, or its write deadline passed.
Sent(f) ==
  /\ pc[f] = "sending"
  /\ mu' = Nobody
  /\ Goto(f, "top")
  /\ UNCHANGED <<ownVars, seen, devVars, grabVars, passVars, nodeVars,
                 addVars, stopVars, histVars, grabMu>>

\* A key or a button is forwarded, or dropped if the cursor has come back.
ForwardKey(f) ==
  /\ pc[f] = "handle" /\ mu = Nobody
  /\ Goto(f, "top")
  /\ UNCHANGED <<ownVars, seen, devVars, grabVars, passVars, nodeVars,
                 addVars, stopVars, histVars, mu, grabMu>>

\* Ctrl+Alt+Right, or an absolute motion, which cannot be forwarded.
ReturnEvent(f) ==
  /\ pc[f] = "handle" /\ mu = Nobody
  /\ SetActive(f)
  /\ UNCHANGED <<seen, devVars, grabVars, passVars, nodeVars, addVars,
                 stopVars, mu, grabMu>>

\* stopCh is closed, or the read fails; the deferred Close runs.
MonitorExits(f) ==
  /\ \/ pc[f] = "top" /\ stopCh
     \/ pc[f] = "read" /\ (fd[f] = "closed" \/ f \notin alive)
  /\ Goto(f, "off")
  /\ UNCHANGED devices
  /\ Close({f})
  /\ UNCHANGED <<ownVars, seen, refused, passVars, nodeVars, addVars, stopVars,
                 histVars, mu, grabMu>>

-----------------------------------------------------------------------------
(***************************************************************************)
(* Main: ReceiveLoop with the callbacks main.go installs, then Stop.       *)
(***************************************************************************)
\* NextMachine or MachineSwitched, and AcceptsReclaim or AcceptsActivation finds
\* that it belongs to the shared edge.
RecvReturn ==
  /\ pc[Main] = "loop" /\ mu = Nobody
  /\ Goto(Main, "activate")
  /\ UNCHANGED <<ownVars, seen, devVars, grabVars, passVars, nodeVars,
                 addVars, stopVars, histVars, mu, grabMu>>

\* OnReclaimed or OnActivated; OnBecameActive has run in between.
RecvActivate ==
  /\ pc[Main] = "activate" /\ mu = Nobody
  /\ SetActive(Main)
  /\ UNCHANGED <<seen, devVars, grabVars, passVars, nodeVars, addVars,
                 stopVars, mu, grabMu>>

ConnectionLost ==
  /\ pc[Main] = "loop"
  /\ Goto(Main, "closing")
  /\ UNCHANGED <<ownVars, seen, devVars, grabVars, passVars, nodeVars,
                 addVars, stopVars, histVars, mu, grabMu>>

CloseStopCh ==
  /\ pc[Main] = "closing"
  /\ stopCh' = TRUE
  /\ Goto(Main, "stopping")
  /\ UNCHANGED <<ownVars, seen, devVars, grabVars, passVars, nodeVars,
                 addVars, stopped, histVars, mu, grabMu>>

\* Mutant: the map is emptied, but no descriptor is closed.
StopWithoutClose ==
  /\ pc[Main] = "stopping" /\ mu = Nobody
  /\ stopped' = TRUE
  /\ devices' = [p \in Paths |-> NoFile]
  /\ Goto(Main, "wait")
  /\ UNCHANGED <<fd, at, alive, grabVars, ownVars, seen, passVars, nodeVars,
                 addVars, stopCh, histVars, mu, grabMu>>

\* Under c.mu every tracked descriptor is closed.  After a failed Run c.pointer
\* is an interface that holds a nil *x11Pointer: it is not nil, and its Close
\* dereferences it.
StopDevices ==
  /\ pc[Main] = "stopping" /\ mu = Nobody
  /\ stopped' = TRUE
  /\ devices' = [p \in Paths |-> NoFile]
  /\ Goto(Main, IF X11Ready THEN "wait" ELSE "panic")
  /\ Close(Tracked)
  /\ UNCHANGED <<ownVars, seen, refused, passVars, nodeVars, addVars, stopCh,
                 histVars, mu, grabMu>>

\* c.wg counts the poll and every monitor.
WaitGroup ==
  /\ pc[Main] = "wait"
  /\ pc[Poll] = "off" /\ \A f \in Files : pc[f] = "off"
  /\ Goto(Main, "done")
  /\ UNCHANGED <<ownVars, seen, devVars, grabVars, passVars, nodeVars,
                 addVars, stopVars, histVars, mu, grabMu>>

-----------------------------------------------------------------------------
(***************************************************************************)
(* The environment: nodes come, udev makes them readable, nodes go; time.  *)
(***************************************************************************)
Plug(p) ==
  /\ node[p] = "absent" /\ plugs < MaxPlugs
  /\ node' = [node EXCEPT ![p] = "raw"]
  /\ plugs' = plugs + 1
  /\ UNCHANGED <<ownVars, seen, devVars, grabVars, passVars, steady, addVars,
                 stopVars, histVars, mu, grabMu, pc>>

UdevReady(p) ==
  /\ node[p] = "raw"
  /\ node' = [node EXCEPT ![p] = "ready"]
  /\ UNCHANGED <<ownVars, seen, devVars, grabVars, passVars, plugs, steady,
                 addVars, stopVars, histVars, mu, grabMu, pc>>

\* The kernel drops the grabs; the descriptors stay open until they are closed.
Unplug(p) ==
  LET dead == {f \in alive : at[f] = p}
  IN /\ node[p] # "absent"
     /\ node' = [node EXCEPT ![p] = "absent"]
     /\ steady' = steady \ {p}
     /\ alive' = alive \ dead
     /\ kgrab' = kgrab \ dead
     /\ UNCHANGED <<ownVars, seen, devices, fd, at, grabbed, refused, passVars,
                    plugs, addVars, stopVars, histVars, mu, grabMu, pc>>

GraceEnds ==
  /\ grace
  /\ grace' = FALSE
  /\ UNCHANGED <<active, canSwitch, canReturn, seen, devVars,
                 grabVars, passVars, nodeVars, addVars, stopVars, histVars, mu,
                 grabMu, pc>>

\* After Stop nothing of this Capturer runs any more.
Terminated == pc[Main] \in {"done", "panic"} /\ UNCHANGED vars

-----------------------------------------------------------------------------
AddDevice(t) ==
  \/ \E p \in Paths : SkipDevice(t, p)
  \/ \E p \in Paths, f \in Files : OpenDevice(t, p, f)
  \/ InsertDevice(t)
  \/ AllAdded(t)

ApplyIsolation(t) ==
  \/ LockIsolation(t)
  \/ ListDevices(t)
  \/ ScanFails(t)
  \/ PruneDevices(t)
  \/ PickPending(t)
  \/ \E f \in Files : Ioctl(t, f) \/ IoctlFails(t, f)
  \/ NoteGrab(t)
  \/ UnlockIsolation(t)

HandleEvent(f) ==
  \/ EnterRead(f)
  \/ CheckGrace(f)
  \/ SwitchBack(f)
  \/ \E z \in RemoteZones : MoveRemote(f, z)
  \/ Wheel(f)
  \/ Sent(f)
  \/ ForwardKey(f)
  \/ ReturnEvent(f)

PollStep == PollArm \/ SwitchOut
StopStep == CloseStopCh \/ StopDevices \/ WaitGroup
RunStep  == RunStart \/ RunFails

Environment ==
  \/ \E p \in Paths : Plug(p) \/ UdevReady(p) \/ Unplug(p)
  \/ GraceEnds

Next ==
  \/ RunStep
  \/ \E t \in Threads : AddDevice(t) \/ ApplyIsolation(t)
  \/ PollTick \/ PollStep \/ PollExits
  \/ \E f \in Files : \/ ReadEvent(f)
                      \/ NextOfBatch(f)
                      \/ HandleEvent(f)
                      \/ MonitorExits(f)
  \/ RecvReturn \/ RecvActivate \/ ConnectionLost
  \/ StopStep
  \/ Environment
  \/ Terminated

Spec == Init /\ [][Next]_vars

-----------------------------------------------------------------------------
(***************************************************************************)
(* Fairness.  The Go scheduler runs every goroutine that can go on, a Go   *)
(* mutex starves no waiter, SendPacket returns by its write deadline, and  *)
(* select picks a closed stopCh after finitely many ticks.  Nothing makes  *)
(* events, packets, plugging or the loss of the connection happen.         *)
(***************************************************************************)
PollRuns    == PollStep \/ AddDevice(Poll) \/ ApplyIsolation(Poll)
MainRuns    == RunStep \/ RecvActivate \/ StopStep \/ AddDevice(Main)
                 \/ ApplyIsolation(Main)
MonitorRuns(f) == HandleEvent(f) \/ AddDevice(f) \/ ApplyIsolation(f)

Fairness ==
  /\ SF_vars(PollRuns) /\ SF_vars(PollExits)
  /\ SF_vars(MainRuns)
  /\ \A f \in Files : SF_vars(MonitorRuns(f)) /\ SF_vars(MonitorExits(f))

FairSpec == Spec /\ Fairness

-----------------------------------------------------------------------------
InPass(t) == pc[t] \in PassPcs \/ (pc[t] \in AddPcs /\ grabMu = t)

\* No isolation pass is running or about to run.
Settled == \A t \in Threads : ~InPass(t)

(***************************************************************************)
(* The Capturer keeps the promise of module Ownership: grabs change only   *)
(* while a hand-over is settling, which ends with no grab left on a        *)
(* machine that owns its cursor, and the cursor leaves only after it was   *)
(* seen away from the edge ("must move away from an edge before switching  *)
(* can re-arm", capture_linux.go applyIsolation and pollCursorEdge).       *)
(***************************************************************************)
Own == INSTANCE Ownership WITH Devices <- Files, armed <- seenAway,
                               grabbed <- kgrab, settling <- ~Settled
KeepsOwnership == Own!OSpec

(***************************************************************************)
(* The user is never left without keyboard or mouse: once no applyIsolation*)
(* is under way on a machine that owns its cursor, the kernel holds no     *)
(* grab of ours, whatever was unplugged, refused or overtaken meanwhile.   *)
(***************************************************************************)
LocalInputFree == active /\ Settled => kgrab = {}

(***************************************************************************)
(* No dual cursor: once switching out has settled, each keyboard or        *)
(* pointer that was there and readable at the rescan, and still is, is     *)
(* tracked, and grabbed unless the kernel refused or its descriptor died.  *)
(***************************************************************************)
NoLocalLeak ==
  ~active /\ Settled /\ ~stopped =>
    \A p \in steady \cap Targets :
      /\ devices[p] # NoFile
      /\ devices[p] \in alive => devices[p] \in kgrab \cup refused

(***************************************************************************)
(* The same with what architecture.md adds ("the tracked device set must   *)
(* be refreshed before isolation so newly connected hardware cannot leak   *)
(* local movement"): a dead descriptor is no excuse.                       *)
(***************************************************************************)
RefreshedSetIsLive ==
  ~active /\ Settled /\ ~stopped =>
    \A p \in steady \cap Targets : devices[p] \in kgrab \cup refused

(***************************************************************************)
(* The descriptor map, the kernel and the flags agree: a grab is held only *)
(* through a live descriptor that is tracked as a target, and outside the  *)
(* two steps of one ioctl the flag of a live device tells its grab.        *)
(***************************************************************************)
GrabsTracked ==
  /\ kgrab \subseteq TrackedTargets \cap alive
  /\ \A f \in alive \ {cur} : f \in kgrab <=> f \in grabbed

(***************************************************************************)
(* No immediate bounce back (handleRel's canReturn): motion returns the    *)
(* cursor only after it was deep inside the remote screen on this visit,   *)
(* even when the event was read during an earlier visit.                   *)
(***************************************************************************)
NoBounceBack ==
  [][~active /\ (\E f \in Files : SwitchBack(f)) => wentInside]_vars

(***************************************************************************)
(* No immediate bounce out (pollCursorEdge's canSwitch).                   *)
(***************************************************************************)
NoBounceOut == [][active /\ ~active' => seenAway]_vars

(***************************************************************************)
(* When Stop returns, every descriptor is closed, so no grab survives, and *)
(* no goroutine holds a mutex.                                             *)
(***************************************************************************)
StoppedClean ==
  pc[Main] = "done" =>
    /\ kgrab = {} /\ \A f \in Files : fd[f] = "free"
    /\ mu = Nobody /\ grabMu = Nobody

(***************************************************************************)
(* A cursor that comes back brings the local input back with it.           *)
(***************************************************************************)
InputReturns == active ~> ~active \/ kgrab = {}

(***************************************************************************)
(* A cursor that leaves is followed by an isolation pass that finishes.    *)
(***************************************************************************)
SuppressionCompletes == ~active ~> active \/ Settled

(***************************************************************************)
(* Stop waits for all goroutines and returns.                              *)
(***************************************************************************)
StopDrains == stopCh ~> pc[Main] = "done"

=============================================================================
