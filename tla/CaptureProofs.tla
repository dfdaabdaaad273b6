--------------------------- MODULE CaptureProofs ---------------------------
(***************************************************************************)
(* Theorems of module Capture, for any devices, descriptors and plugging.  *)
(***************************************************************************)
EXTENDS Capture, TLAPS

(***************************************************************************)
(* applyIsolation runs under grabMu: past the wait for the lock, a         *)
(* goroutine holds it, and the device being noted is a real one.           *)
(***************************************************************************)
HolderInv ==
  /\ \A t \in Threads :
       pc[t] \in {"list", "prune", "pick", "ioctl", "note"} => grabMu = t
  /\ \A t \in Threads \ {Main} : pc[t] \in AddPcs => grabMu = t
  /\ \A t \in Threads : pc[t] = "note" => cur \in Files

TypeInv == TypeOK /\ HolderInv

\* The map names f, under the path f was opened on.
Named(f) == at[f] \in Paths /\ devices[at[f]] = f

(***************************************************************************)
(* The descriptors: one that addDevice has opened is known to it alone     *)
(* until it is in the map, one that is open is in the map under the path   *)
(* it was opened on, and the map never names one that is free.             *)
(***************************************************************************)
DescInv ==
  /\ \A t \in Threads : pc[t] = "insert" <=> newFile[t] # NoFile
  /\ \A t \in Threads : newFile[t] # NoFile =>
       fd[newFile[t]] = "opening" /\ at[newFile[t]] \in Paths
  /\ \A t, u \in Threads : newFile[t] = newFile[u] => t = u \/ newFile[t] = NoFile
  /\ \A p \in Paths : devices[p] # NoFile =>
       at[devices[p]] = p /\ fd[devices[p]] \in {"open", "closed"}
  /\ \A f \in Files : fd[f] = "open" => Named(f)
  /\ \A f \in alive : fd[f] \in {"opening", "open"}
  /\ \A f \in Files : pc[f] # "off" => fd[f] \in {"open", "closed"}
  /\ stopped => \A p \in Paths : devices[p] = NoFile
  /\ pc[Main] = "run" => \A t \in Threads \ {Main} : pc[t] = "off"

(***************************************************************************)
(* The grabs: who holds grabMu is inside applyIsolation, only there is a   *)
(* list of pending devices, which the map keeps naming until Stop, and a   *)
(* flag differs from the kernel's grab only for the device being noted.    *)
(***************************************************************************)
GrabInv ==
  /\ grabMu \in Threads =>
       pc[grabMu] \in {"list", "prune", "pick", "ioctl", "note"} \cup AddPcs
  /\ \A f \in kgrab : f \in alive /\ fd[f] = "open" /\ at[f] \in Targets
  /\ pending # {} => grabMu \in Threads /\ pc[grabMu] \in {"ioctl", "note"}
  /\ \A f \in pending :
       fd[f] # "opening" /\ (stopped \/ (Named(f) /\ at[f] \in Targets))
  /\ cur # NoFile =>
       cur \in pending /\ grabMu \in Threads /\ pc[grabMu] = "note"
  /\ cur \in alive => (cur \in kgrab <=> suppress)
  /\ \A f \in alive \ {cur} : f \in kgrab <=> f \in grabbed
  /\ \A f \in grabbed : fd[f] # "opening" /\ (stopped \/ Named(f))

(***************************************************************************)
(* The direction: while the cursor is here and no goroutine waits to bring *)
(* the isolation up to date, whoever is at it is releasing, and every grab *)
(* that is left is on its list; when nobody is at it, none is left.        *)
(***************************************************************************)
FreeInv ==
  active /\ (\A t \in Threads : pc[t] # "lock") =>
    /\ grabMu = Nobody => kgrab = {}
    /\ grabMu # Nobody =>
         /\ ~suppress
         /\ pc[grabMu] \in {"pick", "ioctl", "note"}
         /\ pc[grabMu] # "pick" => kgrab \subseteq pending

(***************************************************************************)
(* Shutdown: the lock of a forwarding goroutine, the descriptors that are  *)
(* closed but still in use, and how far Stop has come.                     *)
(***************************************************************************)
StopInv ==
  /\ mu \in Files => pc[mu] = "sending"
  /\ \A f \in Files : fd[f] = "opening" => \E t \in Threads : newFile[t] = f
  /\ \A f \in Files : fd[f] = "closed" => pc[f] # "off" \/ Named(f)
  /\ pc[Main] \in {"wait", "done"} => stopped
  /\ pc[Main] = "done" => pc[Poll] = "off" /\ \A f \in Files : pc[f] = "off"

(***************************************************************************)
(* The edges: whenever the poll may switch out, it has seen the pointer    *)
(* away from the edge since the cursor came, and the remote edge is armed  *)
(* only by a motion of the same visit.                                     *)
(***************************************************************************)
EdgeInv ==
  /\ canReturn => wentInside
  /\ canSwitch => seenAway
  /\ pc[Poll] = "arm" /\ seen = "away" => seenAway
  /\ pc[Poll] \in {"arm", "switch"} => active
  /\ pc[Poll] = "switch" => seenAway

USE CaptureAssumption DEF CaptureAssumption, Threads, ownVars, devVars, grabVars, passVars, nodeVars,
    addVars, stopVars, histVars, Goto, Home

LEMMA TypeInit == Init => TypeInv
<1> SUFFICES ASSUME Init PROVE TypeInv
  OBVIOUS
<1>1. pc \in [Threads -> PassPcs \cup AddPcs \cup PollPcs \cup MonPcs \cup MainPcs]
  BY DEF Init, MainPcs, MonPcs
<1>2. /\ pc[Poll] \in PollPcs /\ pc[Main] \in MainPcs
      /\ \A f \in Files : pc[f] \in MonPcs
  BY DEF Init, PollPcs, MainPcs, MonPcs
<1>3. node \in [Paths -> {"absent", "raw", "ready"}]
  BY DEF Init
<1>4. /\ devices \in [Paths -> Files \cup {NoFile}]
      /\ todo \in [Threads -> SUBSET Paths]
      /\ newFile \in [Threads -> Files \cup {NoFile}]
      /\ fd \in [Files -> {"free", "opening", "open", "closed"}]
      /\ at \in [Files -> Paths \cup {NoPath}]
  BY DEF Init
<1>5. plugs \in 0..MaxPlugs
  BY DEF Init
<1>6. TypeOK
  BY <1>1, <1>2, <1>3, <1>4, <1>5 DEF Init, TypeOK, Zones
<1>7. HolderInv
  BY DEF Init, HolderInv, AddPcs
<1>8. QED BY <1>6, <1>7 DEF TypeInv

LEMMA TypeAddDevice ==
  ASSUME TypeInv, NEW t \in Threads, AddDevice(t)
  PROVE  TypeInv'
<1> USE DEF TypeInv, TypeOK, HolderInv, PassPcs, AddPcs, PollPcs, MonPcs, MainPcs,
            Zones
<1>1. ASSUME NEW p \in Paths, SkipDevice(t, p) PROVE TypeInv'
  BY <1>1 DEF SkipDevice
<1>2. ASSUME NEW p \in Paths, NEW f \in Files, OpenDevice(t, p, f) PROVE TypeInv'
  BY <1>2 DEF OpenDevice
<1>3. CASE InsertDevice(t)
  BY <1>3 DEF InsertDevice
<1>4. CASE AllAdded(t)
  BY <1>4 DEF AllAdded
<1>5. QED BY <1>1, <1>2, <1>3, <1>4 DEF AddDevice

LEMMA TypeApplyIsolation ==
  ASSUME TypeInv, NEW t \in Threads, ApplyIsolation(t)
  PROVE  TypeInv'
<1> USE DEF TypeInv, TypeOK, HolderInv, PassPcs, AddPcs, PollPcs, MonPcs, MainPcs,
            Zones
<1>1. CASE LockIsolation(t)
  BY <1>1 DEF LockIsolation
<1>2. CASE ListDevices(t)
  BY <1>2 DEF ListDevices, Listed, Ready
<1>3. CASE ScanFails(t)
  BY <1>3 DEF ScanFails
<1>4. CASE PruneDevices(t)
  BY <1>4 DEF PruneDevices, Close, Tracked
<1>5. CASE PickPending(t)
  BY <1>5 DEF PickPending, TrackedTargets
<1>6. ASSUME NEW f \in Files, Ioctl(t, f) PROVE TypeInv'
  BY <1>6 DEF Ioctl
<1>7. ASSUME NEW f \in Files, IoctlFails(t, f) PROVE TypeInv'
  BY <1>7 DEF IoctlFails
<1>8. CASE NoteGrab(t)
  BY <1>8 DEF NoteGrab
<1>9. CASE UnlockIsolation(t)
  <2>1. suppress' \in BOOLEAN
    BY <1>9 DEF UnlockIsolation
  <2>2. QED BY <1>9, <2>1 DEF UnlockIsolation
<1>10. QED
  BY <1>1, <1>2, <1>3, <1>4, <1>5, <1>6, <1>7, <1>8, <1>9 DEF ApplyIsolation

LEMMA TypePoll ==
  ASSUME TypeInv, PollTick \/ PollStep \/ PollExits
  PROVE  TypeInv'
<1> USE DEF TypeInv, TypeOK, HolderInv, PassPcs, AddPcs, PollPcs, MonPcs, MainPcs,
            Zones
<1>1. CASE PollTick
  BY <1>1 DEF PollTick
<1>2. CASE PollArm
  BY <1>2 DEF PollArm
<1>3. CASE SwitchOut
  <2>1. active' \in BOOLEAN /\ grace' \in BOOLEAN /\ canReturn' \in BOOLEAN /\ wentInside' \in BOOLEAN
    BY <1>3 DEF SwitchOut
  <2>2. QED BY <1>3, <2>1 DEF SwitchOut
<1>4. CASE PollExits
  BY <1>4 DEF PollExits
<1>5. QED BY <1>1, <1>2, <1>3, <1>4 DEF PollStep

LEMMA TypeMonitor ==
  ASSUME TypeInv, NEW f \in Files,
         ReadEvent(f) \/ NextOfBatch(f) \/ HandleEvent(f) \/ MonitorExits(f)
  PROVE  TypeInv'
<1> USE DEF TypeInv, TypeOK, HolderInv, PassPcs, AddPcs, PollPcs, MonPcs, MainPcs,
            Zones
<1>1. CASE ReadEvent(f) \/ NextOfBatch(f)
  BY <1>1 DEF ReadEvent, NextOfBatch
<1>2. CASE EnterRead(f) \/ CheckGrace(f)
  BY <1>2 DEF EnterRead, CheckGrace
<1>3. CASE SwitchBack(f)
  <2>1. active' \in BOOLEAN /\ grace' \in BOOLEAN /\ canSwitch' \in BOOLEAN /\ seenAway' \in BOOLEAN
    BY <1>3 DEF SwitchBack
  <2>2. QED BY <1>3, <2>1 DEF SwitchBack
<1>4. ASSUME NEW z \in RemoteZones, MoveRemote(f, z) PROVE TypeInv'
  BY <1>4 DEF MoveRemote, RemoteZones
<1>5. CASE Wheel(f) \/ Sent(f) \/ ForwardKey(f)
  BY <1>5 DEF Wheel, Sent, ForwardKey
<1>6. CASE ReturnEvent(f)
  <2>1. /\ active' \in BOOLEAN /\ grace' \in BOOLEAN
        /\ canSwitch' \in BOOLEAN /\ canReturn' \in BOOLEAN
        /\ seenAway' \in BOOLEAN
    BY <1>6 DEF ReturnEvent, SetActive
  <2>2. QED BY <1>6, <2>1 DEF ReturnEvent, SetActive
<1>7. CASE MonitorExits(f)
  BY <1>7 DEF MonitorExits, Close
<1>8. QED
  BY <1>1, <1>2, <1>3, <1>4, <1>5, <1>6, <1>7 DEF HandleEvent

LEMMA TypeMain ==
  ASSUME TypeInv, RunStep \/ RecvReturn \/ RecvActivate \/ ConnectionLost \/ StopStep
  PROVE  TypeInv'
<1> USE DEF TypeInv, TypeOK, HolderInv, PassPcs, AddPcs, PollPcs, MonPcs, MainPcs,
            Zones
<1>1. CASE RunStart
  BY <1>1 DEF RunStart, Listed
<1>2. CASE RunFails \/ RecvReturn \/ ConnectionLost \/ WaitGroup
  BY <1>2 DEF RunFails, RecvReturn, ConnectionLost, WaitGroup
<1>5. CASE CloseStopCh
  BY <1>5 DEF CloseStopCh
<1>3. CASE RecvActivate
  <2>1. /\ active' \in BOOLEAN /\ grace' \in BOOLEAN
        /\ canSwitch' \in BOOLEAN /\ canReturn' \in BOOLEAN
        /\ seenAway' \in BOOLEAN
    BY <1>3 DEF RecvActivate, SetActive
  <2>2. QED BY <1>3, <2>1 DEF RecvActivate, SetActive
<1>4. CASE StopDevices
  BY <1>4 DEF StopDevices, Close, Tracked
<1>6. QED BY <1>1, <1>2, <1>3, <1>4, <1>5 DEF RunStep, StopStep

LEMMA TypeEnvironment ==
  ASSUME TypeInv, Environment
  PROVE  TypeInv'
<1> USE DEF TypeInv, TypeOK, HolderInv, Zones
<1>1. ASSUME NEW p \in Paths, Plug(p) PROVE TypeInv'
  BY <1>1 DEF Plug
<1>2. ASSUME NEW p \in Paths, UdevReady(p) PROVE TypeInv'
  BY <1>2 DEF UdevReady
<1>3. ASSUME NEW p \in Paths, Unplug(p) PROVE TypeInv'
  BY <1>3 DEF Unplug
<1>4. CASE GraceEnds
  <2>1. grace' \in BOOLEAN
    BY <1>4 DEF GraceEnds
  <2>2. QED BY <1>4, <2>1 DEF GraceEnds
<1>5. QED BY <1>1, <1>2, <1>3, <1>4 DEF Environment

LEMMA TypeStep == TypeInv /\ [Next]_vars => TypeInv'
<1> SUFFICES ASSUME TypeInv, [Next]_vars PROVE TypeInv'
  OBVIOUS
<1>1. CASE UNCHANGED vars
  BY <1>1 DEF vars, TypeInv, TypeOK, HolderInv
<1>2. CASE Next
  BY <1>1, <1>2, TypeAddDevice, TypeApplyIsolation, TypePoll, TypeMonitor, TypeMain,
     TypeEnvironment DEF Next, Terminated
<1>3. QED BY <1>1, <1>2

(***************************************************************************)
(* Every variable keeps its type, whichever goroutines interleave.         *)
(***************************************************************************)
THEOREM TypeCorrect == Spec => []TypeOK
<1>1. Spec => []TypeInv
  BY TypeInit, TypeStep, PTL DEF Spec
<1>2. TypeInv => TypeOK
  BY DEF TypeInv
<1>3. QED BY <1>1, <1>2, PTL

LEMMA DescAddDevice ==
  ASSUME TypeInv, DescInv, NEW t \in Threads, AddDevice(t)
  PROVE  DescInv'
<1> USE DEF TypeInv, TypeOK, DescInv, Named, PassPcs, AddPcs, PollPcs, MonPcs, MainPcs
<1>1. ASSUME NEW p \in Paths, SkipDevice(t, p) PROVE DescInv'
  BY <1>1 DEF SkipDevice
<1>2. ASSUME NEW p \in Paths, NEW f \in Files, OpenDevice(t, p, f) PROVE DescInv'
  BY <1>2 DEF OpenDevice
<1>3. CASE InsertDevice(t)
  BY <1>3 DEF InsertDevice
<1>4. CASE AllAdded(t)
  BY <1>4 DEF AllAdded
<1>5. QED BY <1>1, <1>2, <1>3, <1>4 DEF AddDevice

\* The descriptors refreshDevices closes.
Gone(t) == {f \in Tracked : at[f] \notin todo[t]}

\* What a step of refreshDevices does to each path and each descriptor.
LEMMA PruneFacts ==
  ASSUME TypeInv, DescInv, NEW t \in Threads, PruneDevices(t), ~stopped
  PROVE
    /\ \A p \in Paths : devices'[p] = IF p \in todo[t] THEN devices[p] ELSE NoFile
    /\ \A f \in Files : f \notin Gone(t) => fd'[f] = fd[f] /\ at'[f] = at[f]
    /\ \A f \in Gone(t) : /\ fd[f] \in {"open", "closed"}
                          /\ \A p \in Paths : devices'[p] # f
    /\ \A f \in Gone(t) : pc[f] = "off" => fd'[f] = "free"
    /\ \A f \in Gone(t) : pc[f] # "off" => fd'[f] = "closed" /\ at'[f] = at[f]
    /\ \A p \in Paths : devices[p] # NoFile /\ p \in todo[t] => devices[p] \notin Gone(t)
    /\ \A f \in Files : Named(f) /\ f \notin Gone(t) => at[f] \in todo[t]
    /\ alive' = alive \ Gone(t) /\ kgrab' = kgrab \ Gone(t)
    /\ grabbed' = grabbed \ Gone(t)
    /\ newFile' = newFile /\ stopped' = stopped
    /\ pc[t] = "prune" /\ pc' = [pc EXCEPT ![t] = "open"]
    /\ suppress' = suppress /\ pending' = pending /\ cur' = cur /\ grabMu' = grabMu
<1> USE DEF TypeInv, TypeOK, DescInv, Named, Gone
<1>1. \A p \in Paths : devices'[p] = IF p \in todo[t] THEN devices[p] ELSE NoFile
  BY DEF PruneDevices
<1>2. \A f \in Gone(t) : fd[f] \in {"open", "closed"} /\ \A p \in Paths : devices'[p] # f
  BY <1>1 DEF Tracked
<1>3. pc[t] = "prune" /\ pc' = [pc EXCEPT ![t] = "open"]
  BY DEF PruneDevices
<1>4. /\ \A f \in Files : f \notin Gone(t) => fd'[f] = fd[f] /\ at'[f] = at[f]
      /\ \A f \in Gone(t) : pc[f] = "off" => fd'[f] = "free"
      /\ \A f \in Gone(t) : pc[f] # "off" => fd'[f] = "closed" /\ at'[f] = at[f]
  <2> DEFINE gone == Gone(t)
             over == {f \in gone : pc'[f] = "off" /\ \A p \in Paths : devices'[p] # f}
  <2>1. /\ fd' = [f \in Files |-> IF f \in over THEN "free"
                                 ELSE IF f \in gone THEN "closed" ELSE fd[f]]
        /\ at' = [f \in Files |-> IF f \in over THEN NoPath ELSE at[f]]
    BY DEF PruneDevices, Close
  <2>2. \A f \in Files : f \in over <=> f \in gone /\ pc[f] = "off"
    BY <1>2, <1>3 DEF Tracked
  <2>3. \A f \in gone : f \in Files
    BY DEF Tracked
  <2> HIDE DEF over, gone
  <2>4. ASSUME NEW f \in Files
        PROVE  /\ fd'[f] = IF f \in over THEN "free"
                          ELSE IF f \in gone THEN "closed" ELSE fd[f]
               /\ at'[f] = IF f \in over THEN NoPath ELSE at[f]
    BY <2>1
  <2>5. /\ \A f \in Files : f \notin gone => fd'[f] = fd[f] /\ at'[f] = at[f]
        /\ \A f \in gone : pc[f] = "off" => fd'[f] = "free"
        /\ \A f \in gone : pc[f] # "off" => fd'[f] = "closed" /\ at'[f] = at[f]
    BY <2>2, <2>3, <2>4
  <2>6. QED BY <2>5 DEF gone
<1>5. /\ \A p \in Paths : devices[p] # NoFile /\ p \in todo[t] => devices[p] \notin Gone(t)
      /\ \A f \in Files : Named(f) /\ f \notin Gone(t) => at[f] \in todo[t]
  BY DEF Tracked
<1>6. alive' = alive \ Gone(t) /\ kgrab' = kgrab \ Gone(t)
  BY DEF PruneDevices, Close
<1>7. grabbed' = grabbed \ Gone(t)
  BY <1>2 DEF PruneDevices, Close
<1>8. /\ newFile' = newFile /\ stopped' = stopped /\ grabMu' = grabMu
      /\ suppress' = suppress /\ pending' = pending /\ cur' = cur
  BY DEF PruneDevices
<1>9. QED BY <1>1, <1>2, <1>3, <1>4, <1>5, <1>6, <1>7, <1>8

LEMMA DescApplyIsolation ==
  ASSUME TypeInv, DescInv, NEW t \in Threads, ApplyIsolation(t)
  PROVE  DescInv'
<1> USE DEF TypeInv, TypeOK, DescInv, Named, PassPcs, AddPcs, PollPcs, MonPcs, MainPcs
<1>1. CASE LockIsolation(t) \/ ListDevices(t) \/ ScanFails(t) \/ PickPending(t)
  BY <1>1 DEF LockIsolation, ListDevices, ScanFails, PickPending
<1>2. CASE PruneDevices(t)
  <2>1. CASE stopped
    BY <1>2, <2>1 DEF PruneDevices
  <2>2. CASE ~stopped
    BY <1>2, <2>2, PruneFacts
  <2>3. QED BY <2>1, <2>2
<1>3. ASSUME NEW f \in Files, Ioctl(t, f) \/ IoctlFails(t, f) PROVE DescInv'
  BY <1>3 DEF Ioctl, IoctlFails
<1>4. CASE NoteGrab(t) \/ UnlockIsolation(t)
  BY <1>4 DEF NoteGrab, UnlockIsolation
<1>5. QED BY <1>1, <1>2, <1>3, <1>4 DEF ApplyIsolation

LEMMA DescPoll ==
  ASSUME TypeInv, DescInv, PollTick \/ PollStep \/ PollExits
  PROVE  DescInv'
BY DEF TypeInv, TypeOK, DescInv, Named, PollPcs, PollTick, PollStep, PollArm,
       SwitchOut, PollExits

LEMMA DescMonitor ==
  ASSUME TypeInv, DescInv, NEW f \in Files,
         ReadEvent(f) \/ NextOfBatch(f) \/ HandleEvent(f) \/ MonitorExits(f)
  PROVE  DescInv'
<1> USE DEF TypeInv, TypeOK, DescInv, Named, PassPcs, AddPcs, MonPcs
<1>1. CASE ReadEvent(f) \/ NextOfBatch(f)
  BY <1>1 DEF ReadEvent, NextOfBatch
<1>2. CASE EnterRead(f) \/ CheckGrace(f) \/ SwitchBack(f)
  BY <1>2 DEF EnterRead, CheckGrace, SwitchBack
<1>3. ASSUME NEW z \in RemoteZones, MoveRemote(f, z) PROVE DescInv'
  BY <1>3 DEF MoveRemote
<1>4. CASE Wheel(f) \/ Sent(f) \/ ForwardKey(f)
  BY <1>4 DEF Wheel, Sent, ForwardKey
<1>5. CASE ReturnEvent(f)
  BY <1>5 DEF ReturnEvent, SetActive
<1>6. CASE MonitorExits(f)
  BY <1>6 DEF MonitorExits, Close
<1>7. QED
  BY <1>1, <1>2, <1>3, <1>4, <1>5, <1>6 DEF HandleEvent

LEMMA DescMain ==
  ASSUME TypeInv, DescInv,
         RunStep \/ RecvReturn \/ RecvActivate \/ ConnectionLost \/ StopStep
  PROVE  DescInv'
<1> USE DEF TypeInv, TypeOK, DescInv, Named, PassPcs, AddPcs, MainPcs
<1>1. CASE RunStep
  <2>1. CASE RunStart
    BY <2>1 DEF RunStart
  <2>2. CASE RunFails
    BY <2>2 DEF RunFails
  <2>3. QED BY <1>1, <2>1, <2>2 DEF RunStep
<1>2. CASE RecvReturn \/ ConnectionLost \/ CloseStopCh \/ WaitGroup
  BY <1>2 DEF RecvReturn, ConnectionLost, CloseStopCh, WaitGroup
<1>3. CASE RecvActivate
  BY <1>3 DEF RecvActivate, SetActive
<1>4. CASE StopDevices
  BY <1>4 DEF StopDevices, Close, Tracked
<1>5. QED BY <1>1, <1>2, <1>3, <1>4 DEF StopStep

LEMMA DescEnvironment ==
  ASSUME TypeInv, DescInv, Environment
  PROVE  DescInv'
BY DEF TypeInv, TypeOK, DescInv, Named, Environment, Plug, UdevReady, Unplug, GraceEnds

LEMMA DescStep == TypeInv /\ DescInv /\ [Next]_vars => DescInv'
<1> SUFFICES ASSUME TypeInv, DescInv, [Next]_vars PROVE DescInv'
  OBVIOUS
<1>1. CASE UNCHANGED vars
  BY <1>1 DEF vars, DescInv, Named
<1>2. CASE Next
  BY <1>1, <1>2, DescAddDevice, DescApplyIsolation, DescPoll, DescMonitor, DescMain,
     DescEnvironment DEF Next, Terminated
<1>3. QED BY <1>1, <1>2

LEMMA GrabAddDevice ==
  ASSUME TypeInv, DescInv, GrabInv, NEW t \in Threads, AddDevice(t)
  PROVE  GrabInv'
<1> USE DEF TypeInv, TypeOK, HolderInv, DescInv, GrabInv, Named, AddPcs
<1>1. ASSUME NEW p \in Paths, SkipDevice(t, p) PROVE GrabInv'
  BY <1>1 DEF SkipDevice
<1>2. ASSUME NEW p \in Paths, NEW f \in Files, OpenDevice(t, p, f) PROVE GrabInv'
  BY <1>2 DEF OpenDevice
<1>3. CASE InsertDevice(t)
  BY <1>3 DEF InsertDevice
<1>4. CASE AllAdded(t)
  BY <1>4 DEF AllAdded
<1>5. QED BY <1>1, <1>2, <1>3, <1>4 DEF AddDevice

LEMMA GrabApplyIsolation ==
  ASSUME TypeInv, DescInv, GrabInv, NEW t \in Threads, ApplyIsolation(t)
  PROVE  GrabInv'
<1> USE DEF TypeInv, TypeOK, HolderInv, DescInv, GrabInv, Named, AddPcs
<1>1. CASE LockIsolation(t)
  BY <1>1 DEF LockIsolation
<1>2. CASE ListDevices(t) \/ ScanFails(t)
  BY <1>2 DEF ListDevices, ScanFails
<1>3. CASE PruneDevices(t)
  <2>1. CASE stopped
    BY <1>3, <2>1 DEF PruneDevices
  <2>2. CASE ~stopped
    BY <1>3, <2>2, PruneFacts
  <2>3. QED BY <2>1, <2>2
<1>4. CASE PickPending(t)
  BY <1>4 DEF PickPending, TrackedTargets
<1>5. ASSUME NEW f \in Files, Ioctl(t, f) PROVE GrabInv'
  BY <1>5 DEF Ioctl
<1>6. ASSUME NEW f \in Files, IoctlFails(t, f) PROVE GrabInv'
  BY <1>6 DEF IoctlFails
<1>7. CASE NoteGrab(t)
  BY <1>7 DEF NoteGrab
<1>8. CASE UnlockIsolation(t)
  BY <1>8 DEF UnlockIsolation
<1>9. QED
  BY <1>1, <1>2, <1>3, <1>4, <1>5, <1>6, <1>7, <1>8 DEF ApplyIsolation

LEMMA GrabPoll ==
  ASSUME TypeInv, DescInv, GrabInv, PollTick \/ PollStep \/ PollExits
  PROVE  GrabInv'
BY DEF TypeInv, TypeOK, HolderInv, GrabInv, Named, AddPcs, PollTick, PollStep, PollArm,
       SwitchOut, PollExits

LEMMA GrabMonitor ==
  ASSUME TypeInv, DescInv, GrabInv, NEW f \in Files,
         ReadEvent(f) \/ NextOfBatch(f) \/ HandleEvent(f) \/ MonitorExits(f)
  PROVE  GrabInv'
<1> USE DEF TypeInv, TypeOK, HolderInv, DescInv, GrabInv, Named, AddPcs
<1>1. CASE ReadEvent(f) \/ NextOfBatch(f)
  BY <1>1 DEF ReadEvent, NextOfBatch
<1>2. CASE EnterRead(f) \/ CheckGrace(f) \/ SwitchBack(f)
  BY <1>2 DEF EnterRead, CheckGrace, SwitchBack
<1>3. ASSUME NEW z \in RemoteZones, MoveRemote(f, z) PROVE GrabInv'
  BY <1>3 DEF MoveRemote
<1>4. CASE Wheel(f) \/ Sent(f) \/ ForwardKey(f)
  BY <1>4 DEF Wheel, Sent, ForwardKey
<1>5. CASE ReturnEvent(f)
  BY <1>5 DEF ReturnEvent, SetActive
<1>6. CASE MonitorExits(f)
  BY <1>6 DEF MonitorExits, Close
<1>7. QED
  BY <1>1, <1>2, <1>3, <1>4, <1>5, <1>6 DEF HandleEvent

LEMMA GrabMain ==
  ASSUME TypeInv, DescInv, GrabInv,
         RunStep \/ RecvReturn \/ RecvActivate \/ ConnectionLost \/ StopStep
  PROVE  GrabInv'
<1> USE DEF TypeInv, TypeOK, HolderInv, DescInv, GrabInv, Named, AddPcs
<1>1. CASE RunStep
  <2>1. CASE RunStart
    BY <2>1 DEF RunStart
  <2>2. CASE RunFails
    BY <2>2 DEF RunFails
  <2>3. QED BY <1>1, <2>1, <2>2 DEF RunStep
<1>2. CASE RecvReturn \/ ConnectionLost \/ CloseStopCh \/ WaitGroup
  BY <1>2 DEF RecvReturn, ConnectionLost, CloseStopCh, WaitGroup
<1>3. CASE RecvActivate
  BY <1>3 DEF RecvActivate, SetActive
<1>4. CASE StopDevices
  BY <1>4 DEF StopDevices, Close, Tracked
<1>5. QED BY <1>1, <1>2, <1>3, <1>4 DEF StopStep

LEMMA GrabEnvironment ==
  ASSUME TypeInv, DescInv, GrabInv, Environment
  PROVE  GrabInv'
BY DEF TypeInv, TypeOK, GrabInv, Named, Environment, Plug, UdevReady, Unplug, GraceEnds

LEMMA GrabStep == TypeInv /\ DescInv /\ GrabInv /\ [Next]_vars => GrabInv'
<1> SUFFICES ASSUME TypeInv, DescInv, GrabInv, [Next]_vars PROVE GrabInv'
  OBVIOUS
<1>1. CASE UNCHANGED vars
  BY <1>1 DEF vars, GrabInv, Named
<1>2. CASE Next
  BY <1>1, <1>2, GrabAddDevice, GrabApplyIsolation, GrabPoll, GrabMonitor, GrabMain,
     GrabEnvironment DEF Next, Terminated
<1>3. QED BY <1>1, <1>2

LEMMA ShutAddDevice ==
  ASSUME TypeInv, DescInv, GrabInv, StopInv, NEW t \in Threads, AddDevice(t)
  PROVE  StopInv'
<1> USE DEF TypeInv, TypeOK, HolderInv, DescInv, StopInv, Named, PassPcs, AddPcs, PollPcs, MonPcs,
            MainPcs
<1>1. ASSUME NEW p \in Paths, SkipDevice(t, p) PROVE StopInv'
  BY <1>1 DEF SkipDevice
<1>2. ASSUME NEW p \in Paths, NEW f \in Files, OpenDevice(t, p, f) PROVE StopInv'
  BY <1>2 DEF OpenDevice
<1>3. CASE InsertDevice(t)
  BY <1>3 DEF InsertDevice
<1>4. CASE AllAdded(t)
  BY <1>4 DEF AllAdded
<1>5. QED BY <1>1, <1>2, <1>3, <1>4 DEF AddDevice

LEMMA ShutApplyIsolation ==
  ASSUME TypeInv, DescInv, GrabInv, StopInv, NEW t \in Threads, ApplyIsolation(t)
  PROVE  StopInv'
<1> USE DEF TypeInv, TypeOK, HolderInv, DescInv, StopInv, Named, PassPcs, AddPcs, PollPcs, MonPcs,
            MainPcs
<1>1. CASE LockIsolation(t)
  BY <1>1 DEF LockIsolation
<1>2. CASE ListDevices(t) \/ ScanFails(t)
  BY <1>2 DEF ListDevices, ScanFails
<1>3. CASE PruneDevices(t)
  <2>1. CASE stopped
    BY <1>3, <2>1 DEF PruneDevices
  <2>2. CASE ~stopped
    <3>1. mu' = mu /\ (mu \in Files => pc'[mu] = pc[mu])
      BY <1>3 DEF PruneDevices
    <3>2. \A f \in Files : fd'[f] = "opening" => \E u \in Threads : newFile'[u] = f
      BY <1>3, <2>2, PruneFacts
    <3>3. \A f \in Files : fd'[f] = "closed" => pc'[f] # "off" \/ Named(f)'
      BY <1>3, <2>2, PruneFacts
    <3>4. pc'[Main] \notin {"wait", "done"}
      BY <1>3, <2>2, PruneFacts
    <3>5. QED BY <3>1, <3>2, <3>3, <3>4
  <2>3. QED BY <2>1, <2>2
<1>4. CASE PickPending(t)
  BY <1>4 DEF PickPending, TrackedTargets
<1>5. ASSUME NEW f \in Files, Ioctl(t, f) PROVE StopInv'
  BY <1>5 DEF Ioctl
<1>6. ASSUME NEW f \in Files, IoctlFails(t, f) PROVE StopInv'
  BY <1>6 DEF IoctlFails
<1>7. CASE NoteGrab(t)
  BY <1>7 DEF NoteGrab
<1>8. CASE UnlockIsolation(t)
  BY <1>8 DEF UnlockIsolation
<1>9. QED
  BY <1>1, <1>2, <1>3, <1>4, <1>5, <1>6, <1>7, <1>8 DEF ApplyIsolation

LEMMA ShutPoll ==
  ASSUME TypeInv, DescInv, GrabInv, StopInv, PollTick \/ PollStep \/ PollExits
  PROVE  StopInv'
<1> USE DEF TypeInv, TypeOK, HolderInv, DescInv, StopInv, Named, PassPcs, AddPcs, PollPcs, MonPcs,
            MainPcs
<1>1. CASE PollTick \/ PollExits
  BY <1>1 DEF PollTick, PollExits
<1>2. CASE PollArm
  BY <1>2 DEF PollArm
<1>3. CASE SwitchOut
  BY <1>3 DEF SwitchOut
<1>4. QED BY <1>1, <1>2, <1>3 DEF PollStep

LEMMA ShutMonitor ==
  ASSUME TypeInv, DescInv, GrabInv, StopInv, NEW f \in Files,
         ReadEvent(f) \/ NextOfBatch(f) \/ HandleEvent(f) \/ MonitorExits(f)
  PROVE  StopInv'
<1> USE DEF TypeInv, TypeOK, HolderInv, DescInv, StopInv, Named, PassPcs, AddPcs, PollPcs, MonPcs,
            MainPcs
<1>1. CASE ReadEvent(f) \/ NextOfBatch(f)
  BY <1>1 DEF ReadEvent, NextOfBatch
<1>2. CASE EnterRead(f) \/ CheckGrace(f) \/ SwitchBack(f)
  BY <1>2 DEF EnterRead, CheckGrace, SwitchBack
<1>3. ASSUME NEW z \in RemoteZones, MoveRemote(f, z) PROVE StopInv'
  BY <1>3 DEF MoveRemote
<1>4. CASE Wheel(f) \/ Sent(f) \/ ForwardKey(f)
  BY <1>4 DEF Wheel, Sent, ForwardKey
<1>5. CASE ReturnEvent(f)
  BY <1>5 DEF ReturnEvent, SetActive
<1>6. CASE MonitorExits(f)
  BY <1>6 DEF MonitorExits, Close
<1>7. QED
  BY <1>1, <1>2, <1>3, <1>4, <1>5, <1>6 DEF HandleEvent

LEMMA ShutMain ==
  ASSUME TypeInv, DescInv, GrabInv, StopInv,
         RunStep \/ RecvReturn \/ RecvActivate \/ ConnectionLost \/ StopStep
  PROVE  StopInv'
<1> USE DEF TypeInv, TypeOK, HolderInv, DescInv, StopInv, Named, PassPcs, AddPcs, PollPcs, MonPcs,
            MainPcs
<1>1. CASE RunStep
  BY <1>1 DEF RunStep, RunStart, RunFails
<1>2. CASE RecvReturn \/ ConnectionLost \/ CloseStopCh \/ WaitGroup
  BY <1>2 DEF RecvReturn, ConnectionLost, CloseStopCh, WaitGroup
<1>3. CASE RecvActivate
  BY <1>3 DEF RecvActivate, SetActive
<1>4. CASE StopDevices
  BY <1>4 DEF StopDevices, Close, Tracked
<1>5. QED BY <1>1, <1>2, <1>3, <1>4 DEF StopStep

LEMMA ShutEnvironment ==
  ASSUME TypeInv, DescInv, GrabInv, StopInv, Environment
  PROVE  StopInv'
BY DEF TypeInv, TypeOK, HolderInv, DescInv, StopInv, Named, PassPcs, AddPcs, PollPcs, MonPcs,
            MainPcs, Environment, Plug, UdevReady, Unplug, GraceEnds

LEMMA ShutStep == TypeInv /\ DescInv /\ GrabInv /\ StopInv /\ [Next]_vars => StopInv'
<1> SUFFICES ASSUME TypeInv, DescInv, GrabInv, StopInv, [Next]_vars PROVE StopInv'
  OBVIOUS
<1>1. CASE UNCHANGED vars
  BY <1>1 DEF vars, StopInv, Named
<1>2. CASE Next
  BY <1>1, <1>2, ShutAddDevice, ShutApplyIsolation, ShutPoll, ShutMonitor, ShutMain,
     ShutEnvironment DEF Next, Terminated
<1>3. QED BY <1>1, <1>2

\* A step that moves neither the goroutine that holds grabMu nor one that waits for
\* it, and grabs nothing.
Aside ==
  /\ active' = active /\ suppress' = suppress
  /\ pending' = pending /\ grabMu' = grabMu
  /\ kgrab' \subseteq kgrab
  /\ \A t \in Threads : pc[t] = "lock" => pc'[t] = "lock"
  /\ grabMu \in Threads => pc'[grabMu] = pc[grabMu]

LEMMA FreeAside == TypeInv /\ FreeInv /\ Aside => FreeInv'
BY DEF TypeInv, TypeOK, FreeInv, Aside

LEMMA FreeAddDevice ==
  ASSUME TypeInv, DescInv, GrabInv, FreeInv, NEW t \in Threads, AddDevice(t)
  PROVE  FreeInv'
<1> USE DEF TypeInv, TypeOK, HolderInv, GrabInv, FreeInv, AddPcs
<1>1. ASSUME NEW p \in Paths, SkipDevice(t, p) PROVE FreeInv'
  BY <1>1 DEF SkipDevice
<1>2. ASSUME NEW p \in Paths, NEW f \in Files, OpenDevice(t, p, f) PROVE FreeInv'
  BY <1>2 DEF OpenDevice
<1>3. CASE InsertDevice(t)
  <2>1. pc[t] = "insert" /\ newFile[t] \in Files /\ pc[newFile[t]] = "off"
    BY <1>3 DEF InsertDevice, DescInv
  <2>2. CASE grabMu = t
    <3>1. active' = active /\ \A u \in Threads : pc[u] = "lock" => pc'[u] = "lock"
      BY <1>3, <2>1 DEF InsertDevice
    <3>2. QED BY <2>1, <2>2, <3>1
  <2>3. CASE grabMu # t
    <3>1. Aside
      BY <1>3, <2>1, <2>3 DEF InsertDevice, Aside
    <3>2. QED BY <3>1, FreeAside
  <2>4. QED BY <2>2, <2>3
<1>4. CASE AllAdded(t)
  BY <1>4 DEF AllAdded
<1>5. QED BY <1>1, <1>2, <1>3, <1>4 DEF AddDevice

LEMMA FreeApplyIsolation ==
  ASSUME TypeInv, DescInv, GrabInv, FreeInv, NEW t \in Threads, ApplyIsolation(t)
  PROVE  FreeInv'
<1> USE DEF TypeInv, TypeOK, HolderInv, GrabInv, FreeInv, AddPcs
<1>1. CASE LockIsolation(t)
  BY <1>1 DEF LockIsolation
<1>2. CASE ListDevices(t) \/ ScanFails(t) \/ PruneDevices(t)
  <2>1. grabMu = t /\ pc[t] \in {"list", "prune"}
    BY <1>2 DEF ListDevices, ScanFails, PruneDevices
  <2>2. active' = active /\ \A u \in Threads : pc[u] = "lock" => pc'[u] = "lock"
    BY <1>2 DEF ListDevices, ScanFails, PruneDevices
  <2>3. QED BY <2>1, <2>2
<1>4. CASE PickPending(t)
  <2>1. grabMu = t /\ grabMu' = t /\ cur = NoFile /\ pc'[t] = "ioctl"
    BY <1>4 DEF PickPending
  <2>2. active' = active /\ suppress' = suppress /\ kgrab' = kgrab
    BY <1>4 DEF PickPending
  <2>3. \A u \in Threads : pc[u] = "lock" => pc'[u] = "lock"
    BY <1>4 DEF PickPending
  <2>4. \A f \in kgrab : f \in TrackedTargets /\ f \in grabbed
    BY <2>1 DEF TrackedTargets, DescInv, Named
  <2>5. ~suppress => kgrab \subseteq pending'
    BY <1>4, <2>4 DEF PickPending
  <2>6. QED BY <2>1, <2>2, <2>3, <2>5
<1>5. ASSUME NEW f \in Files, Ioctl(t, f) PROVE FreeInv'
  BY <1>5 DEF Ioctl
<1>6. ASSUME NEW f \in Files, IoctlFails(t, f) PROVE FreeInv'
  BY <1>6 DEF IoctlFails
<1>7. CASE NoteGrab(t)
  BY <1>7 DEF NoteGrab
<1>8. CASE UnlockIsolation(t)
  BY <1>8 DEF UnlockIsolation
<1>9. QED
  BY <1>1, <1>2, <1>4, <1>5, <1>6, <1>7, <1>8 DEF ApplyIsolation

LEMMA FreePoll ==
  ASSUME TypeInv, GrabInv, FreeInv, PollTick \/ PollStep \/ PollExits
  PROVE  FreeInv'
<1> USE DEF TypeInv, TypeOK, GrabInv, AddPcs
<1>1. CASE PollTick \/ PollExits
  <2>1. Aside
    BY <1>1 DEF PollTick, PollExits, Aside
  <2>2. QED BY <2>1, FreeAside
<1>2. CASE PollArm
  <2>1. Aside
    BY <1>2 DEF PollArm, Aside
  <2>2. QED BY <2>1, FreeAside
<1>3. CASE SwitchOut
  BY <1>3 DEF SwitchOut, FreeInv
<1>4. QED BY <1>1, <1>2, <1>3 DEF PollStep

LEMMA FreeMonitor ==
  ASSUME TypeInv, GrabInv, FreeInv, NEW f \in Files,
         ReadEvent(f) \/ NextOfBatch(f) \/ HandleEvent(f) \/ MonitorExits(f)
  PROVE  FreeInv'
<1> USE DEF TypeInv, TypeOK, GrabInv, AddPcs
<1>1. CASE ReadEvent(f) \/ NextOfBatch(f)
  <2>1. Aside
    BY <1>1 DEF ReadEvent, NextOfBatch, Aside
  <2>2. QED BY <2>1, FreeAside
<1>2. CASE EnterRead(f) \/ CheckGrace(f)
  <2>1. Aside
    BY <1>2 DEF EnterRead, CheckGrace, Aside
  <2>2. QED BY <2>1, FreeAside
<1>3. CASE SwitchBack(f)
  <2>1. pc'[f] = "lock"
    BY <1>3 DEF SwitchBack
  <2>2. QED BY <2>1 DEF FreeInv
<1>4. ASSUME NEW z \in RemoteZones, MoveRemote(f, z) PROVE FreeInv'
  <2>1. Aside
    BY <1>4 DEF MoveRemote, Aside
  <2>2. QED BY <2>1, FreeAside
<1>5. CASE Wheel(f) \/ Sent(f) \/ ForwardKey(f)
  <2>1. Aside
    BY <1>5 DEF Wheel, Sent, ForwardKey, Aside
  <2>2. QED BY <2>1, FreeAside
<1>6. CASE ReturnEvent(f)
  <2>1. CASE active
    <3>1. Aside
      BY <1>6, <2>1 DEF ReturnEvent, SetActive, Aside
    <3>2. QED BY <3>1, FreeAside
  <2>2. CASE ~active
    <3>1. pc'[f] = "lock"
      BY <1>6, <2>2 DEF ReturnEvent, SetActive
    <3>2. QED BY <3>1 DEF FreeInv
  <2>3. QED BY <2>1, <2>2
<1>7. CASE MonitorExits(f)
  <2>1. Aside
    BY <1>7 DEF MonitorExits, Close, Aside
  <2>2. QED BY <2>1, FreeAside
<1>8. QED
  BY <1>1, <1>2, <1>3, <1>4, <1>5, <1>6, <1>7 DEF HandleEvent

LEMMA FreeMain ==
  ASSUME TypeInv, DescInv, GrabInv, FreeInv,
         RunStep \/ RecvReturn \/ RecvActivate \/ ConnectionLost \/ StopStep
  PROVE  FreeInv'
<1> USE DEF TypeInv, TypeOK, GrabInv, AddPcs
<1>1. CASE RunStart
  <2>1. Aside
    BY <1>1 DEF RunStart, DescInv, Aside
  <2>2. QED BY <2>1, FreeAside
<1>2. CASE RunFails \/ RecvReturn \/ ConnectionLost
  <2>1. Aside
    BY <1>2 DEF RunFails, RecvReturn, ConnectionLost, Aside
  <2>2. QED BY <2>1, FreeAside
<1>3. CASE RecvActivate
  <2>1. CASE active
    <3>1. Aside
      BY <1>3, <2>1 DEF RecvActivate, SetActive, Aside
    <3>2. QED BY <3>1, FreeAside
  <2>2. CASE ~active
    <3>1. pc'[Main] = "lock"
      BY <1>3, <2>2 DEF RecvActivate, SetActive
    <3>2. QED BY <3>1 DEF FreeInv
  <2>3. QED BY <2>1, <2>2
<1>4. CASE CloseStopCh \/ WaitGroup
  <2>1. Aside
    BY <1>4 DEF CloseStopCh, WaitGroup, Aside
  <2>2. QED BY <2>1, FreeAside
<1>5. CASE StopDevices
  <2>1. Aside
    BY <1>5 DEF StopDevices, Close, Aside
  <2>2. QED BY <2>1, FreeAside
<1>6. QED BY <1>1, <1>2, <1>3, <1>4, <1>5 DEF RunStep, StopStep

LEMMA FreeEnvironment ==
  ASSUME TypeInv, FreeInv, Environment
  PROVE  FreeInv'
<1>1. Aside
  BY DEF TypeInv, TypeOK, Aside, Environment, Plug, UdevReady, Unplug, GraceEnds
<1>2. QED BY <1>1, FreeAside

LEMMA FreeStep == TypeInv /\ DescInv /\ GrabInv /\ FreeInv /\ [Next]_vars => FreeInv'
<1> SUFFICES ASSUME TypeInv, DescInv, GrabInv, FreeInv, [Next]_vars PROVE FreeInv'
  OBVIOUS
<1>1. CASE UNCHANGED vars
  BY <1>1 DEF vars, FreeInv
<1>2. CASE Next
  BY <1>1, <1>2, FreeAddDevice, FreeApplyIsolation, FreePoll, FreeMonitor, FreeMain,
     FreeEnvironment DEF Next, Terminated
<1>3. QED BY <1>1, <1>2

LEMMA EdgeStep == TypeInv /\ EdgeInv /\ [Next]_vars => EdgeInv'
<1> SUFFICES ASSUME TypeInv, EdgeInv, [Next]_vars PROVE EdgeInv'
  OBVIOUS
<1> USE DEF TypeInv, TypeOK, EdgeInv, AddPcs
<1>1. CASE UNCHANGED vars
  BY <1>1 DEF vars
<1>2. ASSUME NEW t \in Threads, AddDevice(t) PROVE EdgeInv'
  <2>1. ASSUME NEW p \in Paths, SkipDevice(t, p) PROVE EdgeInv'
    BY <2>1 DEF SkipDevice
  <2>2. ASSUME NEW p \in Paths, NEW f \in Files, OpenDevice(t, p, f) PROVE EdgeInv'
    BY <2>2 DEF OpenDevice
  <2>3. CASE InsertDevice(t)
    BY <2>3 DEF InsertDevice
  <2>4. CASE AllAdded(t)
    BY <2>4 DEF AllAdded
  <2>5. QED BY <1>2, <2>1, <2>2, <2>3, <2>4 DEF AddDevice
<1>3. ASSUME NEW t \in Threads, ApplyIsolation(t) PROVE EdgeInv'
  BY <1>3 DEF ApplyIsolation, LockIsolation, ListDevices, ScanFails, PruneDevices,
              PickPending, Ioctl, IoctlFails, NoteGrab, UnlockIsolation
<1>4. CASE PollTick
  BY <1>4 DEF PollTick
<1>5. CASE PollArm
  BY <1>5 DEF PollArm
<1>6. CASE SwitchOut \/ PollExits
  BY <1>6 DEF SwitchOut, PollExits
<1>7. ASSUME NEW f \in Files, ReadEvent(f) \/ NextOfBatch(f) \/ MonitorExits(f)
      PROVE  EdgeInv'
  BY <1>7 DEF ReadEvent, NextOfBatch, MonitorExits
<1>8. ASSUME NEW f \in Files, HandleEvent(f) PROVE EdgeInv'
  <2>1. CASE EnterRead(f) \/ CheckGrace(f) \/ Wheel(f) \/ Sent(f) \/ ForwardKey(f)
    BY <2>1 DEF EnterRead, CheckGrace, Wheel, Sent, ForwardKey
  <2>2. CASE SwitchBack(f)
    BY <2>2 DEF SwitchBack
  <2>3. ASSUME NEW z \in RemoteZones, MoveRemote(f, z) PROVE EdgeInv'
    BY <2>3 DEF MoveRemote
  <2>4. CASE ReturnEvent(f)
    BY <2>4 DEF ReturnEvent, SetActive
  <2>5. QED BY <1>8, <2>1, <2>2, <2>3, <2>4 DEF HandleEvent
<1>9. CASE RunStep \/ RecvReturn \/ ConnectionLost \/ StopStep
  BY <1>9 DEF RunStep, RunStart, RunFails, RecvReturn, ConnectionLost, StopStep,
              CloseStopCh, StopDevices, WaitGroup
<1>10. CASE RecvActivate
  BY <1>10 DEF RecvActivate, SetActive
<1>11. CASE Environment
  BY <1>11 DEF Environment, Plug, UdevReady, Unplug, GraceEnds
<1>12. QED
  BY <1>1, <1>2, <1>3, <1>4, <1>5, <1>6, <1>7, <1>8, <1>9, <1>10, <1>11
     DEF Next, PollStep, Terminated

-----------------------------------------------------------------------------
CaptureInv == TypeInv /\ DescInv /\ GrabInv /\ FreeInv /\ StopInv /\ EdgeInv

LEMMA InvInit == Init => CaptureInv
<1> SUFFICES ASSUME Init PROVE CaptureInv
  OBVIOUS
<1>1. TypeInv
  BY TypeInit
<1>2. \A t \in Threads : pc[t] = IF t = Main THEN "run" ELSE "off"
  BY DEF Init
<1>3. DescInv
  BY <1>2 DEF Init, DescInv, Named
<1>4. GrabInv /\ FreeInv
  BY DEF Init, GrabInv, FreeInv
<1>5. StopInv
  BY <1>2 DEF Init, StopInv
<1>6. EdgeInv
  BY <1>2 DEF Init, EdgeInv
<1>7. QED BY <1>1, <1>3, <1>4, <1>5, <1>6 DEF CaptureInv

LEMMA InvStep == CaptureInv /\ [Next]_vars => CaptureInv'
BY TypeStep, DescStep, GrabStep, FreeStep, ShutStep, EdgeStep DEF CaptureInv

LEMMA InvAlways == Spec => []CaptureInv
BY InvInit, InvStep, PTL DEF Spec

\* While nobody is in an isolation pass, nobody holds grabMu or waits for it.
LEMMA SettledFree ==
  ASSUME CaptureInv, Settled
  PROVE  grabMu = Nobody /\ \A t \in Threads : pc[t] # "lock"
BY DEF CaptureInv, TypeInv, TypeOK, GrabInv, Settled, InPass, PassPcs

LEMMA CaptureInput == CaptureInv => LocalInputFree
BY SettledFree DEF CaptureInv, FreeInv, LocalInputFree

(***************************************************************************)
(* The user always gets keyboard and mouse back: FreeInv, read when no     *)
(* isolation pass is running.                                              *)
(***************************************************************************)
THEOREM InputFree == Spec => []LocalInputFree
BY CaptureInput, InvAlways, PTL

(***************************************************************************)
(* The kernel's grabs, the map and the flags agree.                        *)
(***************************************************************************)
THEOREM GrabsAgree == Spec => []GrabsTracked
<1>1. CaptureInv => GrabsTracked
  BY DEF CaptureInv, TypeInv, TypeOK, DescInv, GrabInv, Named, GrabsTracked, TrackedTargets
<1>2. QED BY <1>1, InvAlways, PTL

(***************************************************************************)
(* Stop leaves no descriptor open and no mutex held.                       *)
(***************************************************************************)
THEOREM StopIsClean == Spec => []StoppedClean
<1>1. ASSUME CaptureInv PROVE StoppedClean
  <2> SUFFICES ASSUME pc[Main] = "done"
      PROVE kgrab = {} /\ (\A f \in Files : fd[f] = "free") /\ mu = Nobody /\ grabMu = Nobody
    BY DEF StoppedClean
  <2> USE <1>1 DEF CaptureInv, TypeInv, TypeOK
  <2>1. stopped /\ \A t \in Threads \ {Main} : pc[t] = "off"
    BY DEF StopInv
  <2>2. mu = Nobody /\ grabMu = Nobody
    BY <2>1 DEF StopInv, GrabInv, AddPcs
  <2>3. \A t \in Threads : newFile[t] = NoFile
    BY <2>1 DEF DescInv
  <2>4. \A f \in Files : ~Named(f)
    BY <2>1 DEF DescInv, Named
  <2>5. \A f \in Files : fd[f] = "free"
    BY <2>1, <2>3, <2>4 DEF DescInv, StopInv
  <2>6. kgrab = {}
    BY <2>5 DEF GrabInv
  <2>7. QED BY <2>2, <2>5, <2>6
<1>2. QED BY <1>1, InvAlways, PTL

(***************************************************************************)
(* Who waits for whom: for the holder of c.mu, for the holder of grabMu    *)
(* (and, with grabMu, for c.mu), and Stop for whoever is still running.    *)
(***************************************************************************)
MuPcs == {"open", "insert", "lock", "prune", "pick", "note", "arm", "switch",
          "grace", "handle", "activate", "stopping"}
WaitsFor(t, u) == \/ pc[t] \in MuPcs /\ u = mu
                  \/ pc[t] = "lock" /\ u = grabMu
                  \/ t = Main /\ pc[t] = "wait" /\ u # Main /\ pc[u] # "off"

(***************************************************************************)
(* Nobody waits in a circle: Stop for a goroutine, that one for grabMu,    *)
(* its holder for c.mu is the longest chain there is.  handleRel has let   *)
(* go of c.mu before it calls applyIsolation, and who forwards a motion    *)
(* under c.mu asks for no other lock.                                      *)
(***************************************************************************)
NoWaitCycle ==
  \A t, u, v, w, x \in Threads :
    ~(WaitsFor(t, u) /\ WaitsFor(u, v) /\ WaitsFor(v, w) /\ WaitsFor(w, x))

THEOREM LocksOrdered == Spec => []NoWaitCycle
<1>1. ASSUME CaptureInv PROVE NoWaitCycle
  <2> USE <1>1 DEF CaptureInv, TypeInv, TypeOK
  <2>1. ASSUME NEW t \in Threads, NEW u \in Threads, mu = t PROVE ~WaitsFor(t, u)
    BY <2>1 DEF StopInv, WaitsFor, MuPcs
  <2>2. ASSUME NEW t \in Threads, NEW u \in Threads, grabMu = t, WaitsFor(t, u) PROVE mu = u
    <3>1. pc[t] \in {"list", "prune", "pick", "ioctl", "note"} \cup AddPcs
      BY <2>2 DEF GrabInv
    <3>2. QED BY <2>2, <3>1 DEF WaitsFor, AddPcs
  <2>3. ASSUME NEW t \in Threads, NEW u \in Threads, WaitsFor(t, u)
        PROVE  u = mu \/ u = grabMu \/ (t = Main /\ u # Main)
    BY <2>3 DEF WaitsFor
  <2>4. ASSUME NEW t \in Threads, NEW u \in Threads, NEW v \in Threads,
               WaitsFor(t, u), WaitsFor(u, v), u # Main \/ t # Main
        PROVE  v = mu \/ v = grabMu
    BY <2>1, <2>2, <2>3, <2>4
  <2>5. QED BY <2>1, <2>2, <2>3, <2>4 DEF NoWaitCycle
<1>2. QED BY <1>1, InvAlways, PTL

(***************************************************************************)
(* While Stop waits, some goroutine can go on, unless all have returned:   *)
(* stopCh is closed, and a reader's descriptor is.  The places at which a  *)
(* goroutine can go on are those whose guard does not wait for another.    *)
(***************************************************************************)
CanGoOn(t) == \/ pc[t] \in {"list", "ioctl", "sending"}
              \/ pc[t] \in MuPcs \ {"lock"} /\ mu = Nobody
              \/ pc[t] = "lock" /\ mu = Nobody /\ grabMu = Nobody
              \/ pc[t] \in {"top", "idle"} /\ stopCh
              \/ pc[t] = "read" /\ fd[t] = "closed"
StopGoesOn ==
  pc[Main] = "wait" =>
    \/ \A t \in Threads \ {Main} : pc[t] = "off"
    \/ \E t \in Threads \ {Main} : CanGoOn(t)

ClosingInv == pc[Main] \in {"stopping", "wait"} => stopCh

LEMMA ClosingStep == TypeInv /\ ClosingInv /\ [Next]_vars => ClosingInv'
<1> SUFFICES ASSUME TypeInv, ClosingInv, [Next]_vars PROVE ClosingInv'
  OBVIOUS
<1> USE DEF TypeInv, TypeOK, ClosingInv
<1>1. ASSUME NEW t \in Threads, AddDevice(t) PROVE ClosingInv'
  BY <1>1 DEF AddDevice, SkipDevice, OpenDevice, InsertDevice, AllAdded
<1>2. ASSUME NEW t \in Threads, ApplyIsolation(t) PROVE ClosingInv'
  BY <1>2 DEF ApplyIsolation, LockIsolation, ListDevices, ScanFails, PruneDevices,
              PickPending, Ioctl, IoctlFails, NoteGrab, UnlockIsolation
<1>3. CASE PollTick \/ PollStep \/ PollExits
  BY <1>3 DEF PollTick, PollStep, PollArm, SwitchOut, PollExits
<1>4. ASSUME NEW f \in Files,
             ReadEvent(f) \/ NextOfBatch(f) \/ HandleEvent(f) \/ MonitorExits(f)
      PROVE  ClosingInv'
  BY <1>4 DEF ReadEvent, NextOfBatch, HandleEvent, EnterRead, CheckGrace, SwitchBack,
              MoveRemote, Wheel, Sent, ForwardKey, ReturnEvent, SetActive, MonitorExits
<1>5. CASE RunStep \/ RecvReturn \/ RecvActivate \/ ConnectionLost \/ StopStep
  BY <1>5 DEF RunStep, RunStart, RunFails, RecvReturn, RecvActivate, SetActive,
              ConnectionLost, StopStep, CloseStopCh, StopDevices, WaitGroup
<1>6. CASE Environment \/ Terminated \/ UNCHANGED vars
  BY <1>6 DEF Environment, Plug, UdevReady, Unplug, GraceEnds, Terminated, vars
<1>7. QED BY <1>1, <1>2, <1>3, <1>4, <1>5, <1>6 DEF Next

THEOREM StopIsNotStuck == Spec => []StopGoesOn
<1>1. ASSUME CaptureInv, ClosingInv PROVE StopGoesOn
  <2> SUFFICES ASSUME pc[Main] = "wait", NEW t \in Threads \ {Main}, pc[t] # "off"
               PROVE  \E u \in Threads \ {Main} : CanGoOn(u)
    BY DEF StopGoesOn
  <2> USE <1>1 DEF CaptureInv, TypeInv, TypeOK
  <2>1. CASE mu # Nobody
    <3>1. mu \in Threads \ {Main} /\ CanGoOn(mu)
      BY <2>1 DEF StopInv, CanGoOn
    <3>2. QED BY <3>1
  <2>2. CASE mu = Nobody /\ grabMu # Nobody
    <3>1. pc[grabMu] \in {"list", "prune", "pick", "ioctl", "note"} \cup AddPcs
      BY <2>2 DEF GrabInv
    <3>2. grabMu \in Threads \ {Main} /\ CanGoOn(grabMu)
      BY <2>2, <3>1 DEF CanGoOn, MuPcs, AddPcs
    <3>3. QED BY <3>2
  <2>3. CASE mu = Nobody /\ grabMu = Nobody
    <3>1. stopCh /\ stopped
      BY DEF ClosingInv, StopInv
    <3>2. t \in Files => fd[t] = "closed"
      BY <3>1 DEF DescInv, Named
    <3>3. CanGoOn(t)
      <4>1. CASE t = Poll
        BY <2>3, <3>1, <4>1 DEF CanGoOn, MuPcs, PollPcs, PassPcs, AddPcs
      <4>2. CASE t \in Files
        BY <2>3, <3>1, <3>2, <4>2 DEF CanGoOn, MuPcs, MonPcs, PassPcs, AddPcs
      <4>3. QED BY <4>1, <4>2
    <3>4. QED BY <3>3
  <2>4. QED BY <2>1, <2>2, <2>3
<1>2. Init => ClosingInv
  BY DEF Init, ClosingInv
<1>3. CaptureInv => TypeInv
  BY DEF CaptureInv
<1>4. QED BY <1>1, <1>2, <1>3, ClosingStep, InvAlways, PTL DEF Spec

(***************************************************************************)
(* The cursor leaves only after it was seen away from the local edge.      *)
(***************************************************************************)
THEOREM NoBounceOutAlways == Spec => NoBounceOut
<1>1. ASSUME CaptureInv, [Next]_vars PROVE [active /\ ~active' => seenAway]_vars
  <2> SUFFICES ASSUME Next, active, ~active' PROVE seenAway
    BY <1>1
  <2>1. SwitchOut
    <3>1. ASSUME NEW t \in Threads PROVE ~AddDevice(t) /\ ~ApplyIsolation(t)
      <4>1. ~AddDevice(t)
        BY DEF AddDevice, SkipDevice, OpenDevice, InsertDevice, AllAdded
      <4>2. ~ApplyIsolation(t)
        BY DEF ApplyIsolation, LockIsolation, ListDevices, ScanFails, PruneDevices,
               PickPending, Ioctl, IoctlFails, NoteGrab, UnlockIsolation
      <4>3. QED BY <4>1, <4>2
    <3>2. ~(PollTick \/ PollArm \/ PollExits)
      BY DEF PollTick, PollArm, PollExits
    <3>3. ASSUME NEW f \in Files
          PROVE  ~(ReadEvent(f) \/ NextOfBatch(f) \/ HandleEvent(f) \/ MonitorExits(f))
      BY DEF ReadEvent, NextOfBatch, HandleEvent, EnterRead, CheckGrace, SwitchBack,
             MoveRemote, Wheel, Sent, ForwardKey, ReturnEvent, SetActive, MonitorExits
    <3>4. ~(RunStep \/ RecvReturn \/ RecvActivate \/ ConnectionLost \/ StopStep)
      BY DEF RunStep, RunStart, RunFails, RecvReturn, RecvActivate, SetActive,
             ConnectionLost, StopStep, CloseStopCh, StopDevices, WaitGroup
    <3>5. ~(Environment \/ Terminated)
      BY DEF Environment, Plug, UdevReady, Unplug, GraceEnds, Terminated, vars
    <3>6. QED BY <3>1, <3>2, <3>3, <3>4, <3>5 DEF Next, PollStep
  <2>2. QED BY <1>1, <2>1 DEF SwitchOut, CaptureInv, EdgeInv
<1>2. QED BY <1>1, InvAlways, PTL DEF Spec, NoBounceOut

(***************************************************************************)
(* The cursor comes back by motion only after it was deep inside the       *)
(* remote screen on this visit.                                            *)
(***************************************************************************)
THEOREM NoBounceBackAlways == Spec => NoBounceBack
<1>1. ASSUME CaptureInv, [Next]_vars
      PROVE  [~active /\ (\E f \in Files : SwitchBack(f)) => wentInside]_vars
  BY <1>1 DEF SwitchBack, AtReturnEdge, CaptureInv, EdgeInv
<1>2. QED BY <1>1, InvAlways, PTL DEF Spec, NoBounceBack

(***************************************************************************)
(* No keyboard or pointer leaks into the local desktop while the cursor is *)
(* on the other machine.                                                   *)
(***************************************************************************)

\* Where the holder of grabMu is; "none" while there is none.
At == IF grabMu \in Threads THEN pc[grabMu] ELSE "none"

(***************************************************************************)
(* Refreshing: a node that has been readable since the rescan has an entry *)
(* in the map, or is still on the way into it.                             *)
(***************************************************************************)
RefreshInv ==
  /\ \A p \in steady : node[p] = "ready"
  /\ ~stopped => \A p \in steady :
       /\ At = "prune" => p \in todo[grabMu]
       /\ At \in AddPcs => \/ devices[p] # NoFile
                           \/ p \in todo[grabMu]
                           \/ At = "insert" /\ at[newFile[grabMu]] = p
       /\ At \notin {"prune"} \cup AddPcs => devices[p] # NoFile

\* The grab of p's device is held, refused, or on the list.
Covered(p) == devices[p] \in alive => devices[p] \in kgrab \cup refused \cup pending

(***************************************************************************)
(* Suppressing: while the cursor is away and no goroutine waits for        *)
(* grabMu, the pass under way suppresses, and from the moment it has its   *)
(* list each such keyboard or pointer is covered.                          *)
(***************************************************************************)
SuppressInv ==
  ~active /\ ~stopped /\ (\A t \in Threads : pc[t] # "lock") =>
    /\ grabMu # Nobody => suppress
    /\ At \in {"none", "ioctl", "note"} => \A p \in steady \cap Targets : Covered(p)

LEMMA RefreshAddDevice ==
  ASSUME TypeInv, DescInv, GrabInv, RefreshInv, NEW t \in Threads, AddDevice(t)
  PROVE  RefreshInv'
<1> USE DEF TypeInv, TypeOK, HolderInv, DescInv, GrabInv, Named, RefreshInv, At, AddPcs
<1>1. ASSUME NEW p \in Paths, SkipDevice(t, p) PROVE RefreshInv'
  BY <1>1 DEF SkipDevice
<1>2. ASSUME NEW p \in Paths, NEW f \in Files, OpenDevice(t, p, f) PROVE RefreshInv'
  BY <1>2 DEF OpenDevice
<1>3. CASE InsertDevice(t)
  BY <1>3 DEF InsertDevice
<1>4. CASE AllAdded(t)
  BY <1>4 DEF AllAdded
<1>5. QED BY <1>1, <1>2, <1>3, <1>4 DEF AddDevice

LEMMA RefreshApplyIsolation ==
  ASSUME TypeInv, DescInv, GrabInv, RefreshInv, NEW t \in Threads, ApplyIsolation(t)
  PROVE  RefreshInv'
<1> USE DEF TypeInv, TypeOK, HolderInv, DescInv, GrabInv, Named, RefreshInv, At, AddPcs
<1>1. CASE LockIsolation(t)
  BY <1>1 DEF LockIsolation
<1>2. CASE ListDevices(t)
  BY <1>2 DEF ListDevices, Listed, Ready
<1>3. CASE ScanFails(t)
  BY <1>3 DEF ScanFails
<1>4. CASE PruneDevices(t)
  <2>1. CASE stopped
    BY <1>4, <2>1 DEF PruneDevices
  <2>2. CASE ~stopped
    <3>1. UNCHANGED <<steady, node, active, todo>>
      BY <1>4, <2>2 DEF PruneDevices
    <3>2. QED BY <1>4, <2>2, <3>1, PruneFacts
  <2>3. QED BY <2>1, <2>2
<1>5. CASE PickPending(t)
  BY <1>5 DEF PickPending, TrackedTargets
<1>6. ASSUME NEW f \in Files, Ioctl(t, f) \/ IoctlFails(t, f) PROVE RefreshInv'
  BY <1>6 DEF Ioctl, IoctlFails
<1>7. CASE NoteGrab(t)
  BY <1>7 DEF NoteGrab
<1>8. CASE UnlockIsolation(t)
  BY <1>8 DEF UnlockIsolation
<1>9. QED
  BY <1>1, <1>2, <1>3, <1>4, <1>5, <1>6, <1>7, <1>8 DEF ApplyIsolation

LEMMA RefreshPoll ==
  ASSUME TypeInv, DescInv, GrabInv, RefreshInv, PollTick \/ PollStep \/ PollExits
  PROVE  RefreshInv'
<1> USE DEF TypeInv, TypeOK, HolderInv, DescInv, GrabInv, Named, RefreshInv, At, AddPcs
<1>1. CASE PollTick \/ PollExits
  BY <1>1 DEF PollTick, PollExits
<1>2. CASE PollArm
  BY <1>2 DEF PollArm
<1>3. CASE SwitchOut
  BY <1>3 DEF SwitchOut
<1>4. QED BY <1>1, <1>2, <1>3 DEF PollStep

LEMMA RefreshMonitor ==
  ASSUME TypeInv, DescInv, GrabInv, RefreshInv, NEW f \in Files,
         ReadEvent(f) \/ NextOfBatch(f) \/ HandleEvent(f) \/ MonitorExits(f)
  PROVE  RefreshInv'
<1> USE DEF TypeInv, TypeOK, HolderInv, DescInv, GrabInv, Named, RefreshInv, At, AddPcs
<1>1. CASE ReadEvent(f) \/ NextOfBatch(f)
  BY <1>1 DEF ReadEvent, NextOfBatch
<1>2. CASE EnterRead(f) \/ CheckGrace(f)
  BY <1>2 DEF EnterRead, CheckGrace
<1>3. CASE SwitchBack(f)
  BY <1>3 DEF SwitchBack
<1>4. ASSUME NEW z \in RemoteZones, MoveRemote(f, z) PROVE RefreshInv'
  BY <1>4 DEF MoveRemote
<1>5. CASE Wheel(f) \/ Sent(f) \/ ForwardKey(f)
  BY <1>5 DEF Wheel, Sent, ForwardKey
<1>6. CASE ReturnEvent(f)
  BY <1>6 DEF ReturnEvent, SetActive
<1>7. CASE MonitorExits(f)
  BY <1>7 DEF MonitorExits, Close
<1>8. QED
  BY <1>1, <1>2, <1>3, <1>4, <1>5, <1>6, <1>7 DEF HandleEvent

LEMMA RefreshMain ==
  ASSUME TypeInv, DescInv, GrabInv, RefreshInv,
         RunStep \/ RecvReturn \/ RecvActivate \/ ConnectionLost \/ StopStep
  PROVE  RefreshInv'
<1> USE DEF TypeInv, TypeOK, HolderInv, DescInv, GrabInv, Named, RefreshInv, At, AddPcs
<1>1. CASE RunStart
  BY <1>1 DEF RunStart
<1>2. CASE RunFails \/ RecvReturn \/ ConnectionLost
  BY <1>2 DEF RunFails, RecvReturn, ConnectionLost
<1>3. CASE RecvActivate
  BY <1>3 DEF RecvActivate, SetActive
<1>4. CASE CloseStopCh \/ WaitGroup
  BY <1>4 DEF CloseStopCh, WaitGroup
<1>5. CASE StopDevices
  BY <1>5 DEF StopDevices
<1>6. QED BY <1>1, <1>2, <1>3, <1>4, <1>5 DEF RunStep, StopStep

LEMMA RefreshEnvironment ==
  ASSUME TypeInv, DescInv, GrabInv, RefreshInv, Environment
  PROVE  RefreshInv'
<1> USE DEF TypeInv, TypeOK, HolderInv, DescInv, GrabInv, Named, RefreshInv, At, AddPcs
<1>1. ASSUME NEW p \in Paths, Plug(p) \/ UdevReady(p) PROVE RefreshInv'
  BY <1>1 DEF Plug, UdevReady
<1>2. ASSUME NEW p \in Paths, Unplug(p) PROVE RefreshInv'
  BY <1>2 DEF Unplug
<1>3. CASE GraceEnds
  BY <1>3 DEF GraceEnds
<1>4. QED BY <1>1, <1>2, <1>3 DEF Environment

LEMMA RefreshStep ==
  CaptureInv /\ RefreshInv /\ [Next]_vars => RefreshInv'
<1> SUFFICES ASSUME CaptureInv, RefreshInv, [Next]_vars PROVE RefreshInv'
  OBVIOUS
<1> USE DEF CaptureInv
<1>1. CASE UNCHANGED vars
  BY <1>1 DEF vars, RefreshInv, At, Covered
<1>2. CASE Next
  BY <1>1, <1>2, RefreshAddDevice, RefreshApplyIsolation, RefreshPoll, RefreshMonitor, RefreshMain,
     RefreshEnvironment DEF Next, Terminated
<1>3. QED BY <1>1, <1>2

LEMMA SuppressAddDevice ==
  ASSUME TypeInv, DescInv, GrabInv, RefreshInv, SuppressInv, NEW t \in Threads, AddDevice(t)
  PROVE  SuppressInv'
<1> USE DEF TypeInv, TypeOK, HolderInv, DescInv, GrabInv, Named, RefreshInv, At, AddPcs,
            SuppressInv, Covered
<1>1. ASSUME NEW p \in Paths, SkipDevice(t, p) PROVE SuppressInv'
  BY <1>1 DEF SkipDevice
<1>2. ASSUME NEW p \in Paths, NEW f \in Files, OpenDevice(t, p, f) PROVE SuppressInv'
  BY <1>2 DEF OpenDevice
<1>3. CASE InsertDevice(t)
  BY <1>3 DEF InsertDevice
<1>4. CASE AllAdded(t)
  BY <1>4 DEF AllAdded
<1>5. QED BY <1>1, <1>2, <1>3, <1>4 DEF AddDevice

LEMMA SuppressApplyIsolation ==
  ASSUME TypeInv, DescInv, GrabInv, RefreshInv, SuppressInv, NEW t \in Threads, ApplyIsolation(t)
  PROVE  SuppressInv'
<1> USE DEF TypeInv, TypeOK, HolderInv, DescInv, GrabInv, Named, RefreshInv, At, AddPcs,
            SuppressInv, Covered
<1>1. CASE LockIsolation(t)
  BY <1>1 DEF LockIsolation
<1>2. CASE ListDevices(t)
  BY <1>2 DEF ListDevices, Listed, Ready
<1>3. CASE ScanFails(t)
  BY <1>3 DEF ScanFails
<1>4. CASE PruneDevices(t)
  <2>1. CASE stopped
    BY <1>4, <2>1 DEF PruneDevices
  <2>2. CASE ~stopped
    <3>1. UNCHANGED <<steady, node, active, todo>>
      BY <1>4, <2>2 DEF PruneDevices
    <3>2. QED BY <1>4, <2>2, <3>1, PruneFacts
  <2>3. QED BY <2>1, <2>2
<1>5. CASE PickPending(t)
  BY <1>5 DEF PickPending, TrackedTargets
<1>6. ASSUME NEW f \in Files, Ioctl(t, f) \/ IoctlFails(t, f) PROVE SuppressInv'
  BY <1>6 DEF Ioctl, IoctlFails
<1>7. CASE NoteGrab(t)
  BY <1>7 DEF NoteGrab
<1>8. CASE UnlockIsolation(t)
  BY <1>8 DEF UnlockIsolation
<1>9. QED
  BY <1>1, <1>2, <1>3, <1>4, <1>5, <1>6, <1>7, <1>8 DEF ApplyIsolation

LEMMA SuppressPoll ==
  ASSUME TypeInv, DescInv, GrabInv, RefreshInv, SuppressInv, PollTick \/ PollStep \/ PollExits
  PROVE  SuppressInv'
<1> USE DEF TypeInv, TypeOK, HolderInv, DescInv, GrabInv, Named, RefreshInv, At, AddPcs,
            SuppressInv, Covered
<1>1. CASE PollTick \/ PollExits
  BY <1>1 DEF PollTick, PollExits
<1>2. CASE PollArm
  BY <1>2 DEF PollArm
<1>3. CASE SwitchOut
  BY <1>3 DEF SwitchOut
<1>4. QED BY <1>1, <1>2, <1>3 DEF PollStep

LEMMA SuppressMonitor ==
  ASSUME TypeInv, DescInv, GrabInv, RefreshInv, SuppressInv, NEW f \in Files,
         ReadEvent(f) \/ NextOfBatch(f) \/ HandleEvent(f) \/ MonitorExits(f)
  PROVE  SuppressInv'
<1> USE DEF TypeInv, TypeOK, HolderInv, DescInv, GrabInv, Named, RefreshInv, At, AddPcs,
            SuppressInv, Covered
<1>1. CASE ReadEvent(f) \/ NextOfBatch(f)
  BY <1>1 DEF ReadEvent, NextOfBatch
<1>2. CASE EnterRead(f) \/ CheckGrace(f)
  BY <1>2 DEF EnterRead, CheckGrace
<1>3. CASE SwitchBack(f)
  BY <1>3 DEF SwitchBack
<1>4. ASSUME NEW z \in RemoteZones, MoveRemote(f, z) PROVE SuppressInv'
  BY <1>4 DEF MoveRemote
<1>5. CASE Wheel(f) \/ Sent(f) \/ ForwardKey(f)
  BY <1>5 DEF Wheel, Sent, ForwardKey
<1>6. CASE ReturnEvent(f)
  BY <1>6 DEF ReturnEvent, SetActive
<1>7. CASE MonitorExits(f)
  BY <1>7 DEF MonitorExits, Close
<1>8. QED
  BY <1>1, <1>2, <1>3, <1>4, <1>5, <1>6, <1>7 DEF HandleEvent

LEMMA SuppressMain ==
  ASSUME TypeInv, DescInv, GrabInv, RefreshInv, SuppressInv,
         RunStep \/ RecvReturn \/ RecvActivate \/ ConnectionLost \/ StopStep
  PROVE  SuppressInv'
<1> USE DEF TypeInv, TypeOK, HolderInv, DescInv, GrabInv, Named, RefreshInv, At, AddPcs,
            SuppressInv, Covered
<1>1. CASE RunStart
  BY <1>1 DEF RunStart
<1>2. CASE RunFails \/ RecvReturn \/ ConnectionLost
  BY <1>2 DEF RunFails, RecvReturn, ConnectionLost
<1>3. CASE RecvActivate
  BY <1>3 DEF RecvActivate, SetActive
<1>4. CASE CloseStopCh \/ WaitGroup
  BY <1>4 DEF CloseStopCh, WaitGroup
<1>5. CASE StopDevices
  BY <1>5 DEF StopDevices
<1>6. QED BY <1>1, <1>2, <1>3, <1>4, <1>5 DEF RunStep, StopStep

LEMMA SuppressEnvironment ==
  ASSUME TypeInv, DescInv, GrabInv, RefreshInv, SuppressInv, Environment
  PROVE  SuppressInv'
<1> USE DEF TypeInv, TypeOK, HolderInv, DescInv, GrabInv, Named, RefreshInv, At, AddPcs,
            SuppressInv, Covered
<1>1. ASSUME NEW p \in Paths, Plug(p) \/ UdevReady(p) PROVE SuppressInv'
  BY <1>1 DEF Plug, UdevReady
<1>2. ASSUME NEW p \in Paths, Unplug(p) PROVE SuppressInv'
  BY <1>2 DEF Unplug
<1>3. CASE GraceEnds
  BY <1>3 DEF GraceEnds
<1>4. QED BY <1>1, <1>2, <1>3 DEF Environment

LEMMA SuppressStep ==
  CaptureInv /\ RefreshInv /\ SuppressInv /\ [Next]_vars => SuppressInv'
<1> SUFFICES ASSUME CaptureInv, RefreshInv, SuppressInv, [Next]_vars PROVE SuppressInv'
  OBVIOUS
<1> USE DEF CaptureInv
<1>1. CASE UNCHANGED vars
  BY <1>1 DEF vars, SuppressInv, At, Covered
<1>2. CASE Next
  BY <1>1, <1>2, SuppressAddDevice, SuppressApplyIsolation, SuppressPoll, SuppressMonitor, SuppressMain,
     SuppressEnvironment DEF Next, Terminated
<1>3. QED BY <1>1, <1>2

(***************************************************************************)
(* Once switching out has settled, every keyboard and pointer that was     *)
(* readable at the rescan, and still is, is tracked, and grabbed unless    *)
(* the kernel refused or its descriptor died.                              *)
(***************************************************************************)
THEOREM NoLeak == Spec => []NoLocalLeak
<1> DEFINE LeakInv == CaptureInv /\ RefreshInv /\ SuppressInv
<1>1. Init => LeakInv
  BY InvInit DEF Init, RefreshInv, SuppressInv, At, AddPcs
<1>2. LeakInv /\ [Next]_vars => LeakInv'
  BY InvStep, RefreshStep, SuppressStep
<1>3. ASSUME LeakInv PROVE NoLocalLeak
  <2> SUFFICES ASSUME ~active, Settled, ~stopped, NEW p \in steady \cap Targets
      PROVE  /\ devices[p] # NoFile
             /\ devices[p] \in alive => devices[p] \in kgrab \cup refused
    BY DEF NoLocalLeak
  <2>1. grabMu = Nobody /\ \A t \in Threads : pc[t] # "lock"
    BY <1>3, SettledFree
  <2>2. At = "none"
    BY <2>1 DEF At
  <2>3. pending = {}
    BY <1>3, <2>1 DEF CaptureInv, GrabInv
  <2>4. devices[p] # NoFile
    BY <1>3, <2>2 DEF RefreshInv, AddPcs
  <2>5. Covered(p)
    BY <1>3, <2>1, <2>2 DEF SuppressInv
  <2>6. QED BY <2>3, <2>4, <2>5 DEF Covered
<1>4. QED BY <1>1, <1>2, <1>3, PTL DEF Spec

-----------------------------------------------------------------------------
(***************************************************************************)
(* The Capturer implements module Ownership: each of its steps changes the *)
(* owner, adjusts the suppressed devices while a hand-over is settling,    *)
(* settles it, or leaves all that alone.                                   *)
(***************************************************************************)

USE DEF PassPcs, AddPcs

\* A step that neither changes the owner nor grabs, and keeps whoever is in an
\* isolation pass in it and everybody else out.
Unowned ==
  /\ active' = active /\ seenAway' = seenAway
  /\ kgrab' \subseteq kgrab
  /\ Settled' <=> Settled

LEMMA UnownedStep == Unowned => [Own!ONext]_(Own!ovars)
BY DEF Unowned, Own!ONext, Own!Vanish, Own!ovars

\* A pass does not end before its holder leaves it.
LEMMA SettledHolder ==
  CaptureInv => (Settled <=> grabMu = Nobody /\ \A t \in Threads : pc[t] # "lock")
<1> SUFFICES ASSUME CaptureInv
    PROVE Settled <=> grabMu = Nobody /\ \A t \in Threads : pc[t] # "lock"
  OBVIOUS
<1> USE DEF CaptureInv, TypeInv, TypeOK, HolderInv, GrabInv
<1>1. ASSUME Settled PROVE grabMu = Nobody /\ \A t \in Threads : pc[t] # "lock"
  BY <1>1, SettledFree
<1>2. ASSUME grabMu = Nobody, \A t \in Threads : pc[t] # "lock" PROVE Settled
  BY <1>2 DEF Settled, InPass
<1>3. QED BY <1>1, <1>2

\* The steps that keep both the holder of grabMu and those who wait for it.
LEMMA KeepSettled ==
  ASSUME CaptureInv, CaptureInv', grabMu' = grabMu,
         \A t \in Threads : pc[t] = "lock" <=> pc'[t] = "lock"
  PROVE  Settled' <=> Settled
<1>1. Settled <=> grabMu = Nobody /\ \A t \in Threads : pc[t] # "lock"
  BY SettledHolder
<1>2. (CaptureInv => (Settled <=> grabMu = Nobody /\ \A t \in Threads : pc[t] # "lock"))'
  BY SettledHolder, PTL
<1>3. Settled' <=> grabMu' = Nobody /\ \A t \in Threads : pc'[t] # "lock"
  BY <1>2
<1>4. QED BY <1>1, <1>3

\* A goroutine that waits for grabMu keeps the hand-over open.
LEMMA LockUnsettled ==
  ASSUME NEW t \in Threads, pc'[t] = "lock"
  PROVE  ~Settled'
BY DEF Settled, InPass

Step == [Own!ONext]_(Own!ovars)

LEMMA RefineAddDevice ==
  ASSUME CaptureInv, CaptureInv', NEW t \in Threads, AddDevice(t)
  PROVE  Step
<1> USE DEF CaptureInv, TypeInv, TypeOK
<1>1. /\ active' = active /\ seenAway' = seenAway /\ kgrab' = kgrab /\ grabMu' = grabMu
      /\ pc[t] \in {"open", "insert"}
  BY DEF AddDevice, SkipDevice, OpenDevice, InsertDevice, AllAdded
<1>2. \A u \in Threads : pc[u] = "lock" <=> pc'[u] = "lock"
  <2>1. ASSUME NEW p \in Paths, SkipDevice(t, p) \/ \E f \in Files : OpenDevice(t, p, f)
        PROVE  \A u \in Threads : pc[u] = "lock" <=> pc'[u] = "lock"
    BY <2>1 DEF SkipDevice, OpenDevice
  <2>2. CASE InsertDevice(t)
    <3>1. newFile[t] \in Files /\ pc[newFile[t]] = "off"
      BY <2>2 DEF InsertDevice, DescInv
    <3>2. QED BY <2>2, <3>1 DEF InsertDevice
  <2>3. CASE AllAdded(t)
    BY <2>3 DEF AllAdded
  <2>4. QED BY <2>1, <2>2, <2>3 DEF AddDevice
<1>3. Unowned
  BY <1>1, <1>2, KeepSettled DEF Unowned
<1>4. QED BY <1>3, UnownedStep DEF Step

LEMMA RefineIsolation ==
  ASSUME CaptureInv, CaptureInv', NEW t \in Threads, ApplyIsolation(t)
  PROVE  Step
<1> USE DEF CaptureInv, TypeInv, TypeOK, HolderInv
<1>1. ~Settled /\ active' = active /\ seenAway' = seenAway
  <2>1. pc[t] \in PassPcs
    BY DEF ApplyIsolation, LockIsolation, ListDevices, ScanFails, PruneDevices,
           PickPending, Ioctl, IoctlFails, NoteGrab, UnlockIsolation
  <2>2. active' = active /\ seenAway' = seenAway
    BY DEF ApplyIsolation, LockIsolation, ListDevices, ScanFails, PruneDevices,
           PickPending, Ioctl, IoctlFails, NoteGrab, UnlockIsolation
  <2>3. QED BY <2>1, <2>2 DEF Settled, InPass
<1>2. CASE \E f \in Files : Ioctl(t, f)
  <2>1. PICK f \in Files : Ioctl(t, f)
    BY <1>2
  <2>2. ~Settled'
    BY <2>1 DEF Ioctl, Settled, InPass
  <2>3. kgrab' \in {kgrab \cup {f}, kgrab \ {f}}
    BY <2>1 DEF Ioctl
  <2>4. QED BY <1>1, <2>2, <2>3 DEF Step, Own!ONext, Own!Adjust, Own!ovars
<1>3. CASE UnlockIsolation(t)
  <2>1. kgrab' = kgrab
    BY <1>3 DEF UnlockIsolation
  <2>2. CASE ~Settled'
    BY <1>1, <2>1, <2>2 DEF Step, Own!ovars
  <2>3. CASE Settled'
    <3>1. (CaptureInv => LocalInputFree)'
      BY CaptureInput, PTL
    <3>2. active' => kgrab' = {}
      BY <2>3, <3>1 DEF LocalInputFree
    <3>3. QED BY <1>1, <2>1, <2>3, <3>2 DEF Step, Own!ONext, Own!Settle, Own!ovars
  <2>4. QED BY <2>2, <2>3
<1>4. CASE PruneDevices(t)
  <2>1. ~Settled'
    BY <1>4 DEF PruneDevices, Settled, InPass
  <2>2. kgrab' \subseteq kgrab
    BY <1>4 DEF PruneDevices, Close
  <2>3. QED BY <1>1, <2>1, <2>2, UnownedStep DEF Unowned, Step
<1>5. CASE \/ LockIsolation(t) \/ ListDevices(t) \/ ScanFails(t) \/ PickPending(t)
           \/ NoteGrab(t) \/ \E f \in Files : IoctlFails(t, f)
  <2>1. kgrab' = kgrab /\ pc'[t] \in PassPcs
    BY <1>5 DEF LockIsolation, ListDevices, ScanFails, PickPending, NoteGrab, IoctlFails
  <2>2. ~Settled'
    BY <2>1 DEF Settled, InPass
  <2>3. QED BY <1>1, <2>1, <2>2 DEF Step, Own!ovars
<1>6. QED BY <1>2, <1>3, <1>4, <1>5 DEF ApplyIsolation

LEMMA RefinePoll ==
  ASSUME CaptureInv, CaptureInv', PollTick \/ PollStep \/ PollExits
  PROVE  Step
<1> USE DEF CaptureInv, TypeInv, TypeOK
<1>1. CASE PollTick
  <2>1. Settled' <=> Settled
    BY <1>1, KeepSettled DEF PollTick
  <2>2. QED BY <1>1, <2>1 DEF PollTick, Step, Own!ONext, Own!Rearm, Own!ovars
<1>2. CASE PollArm \/ PollExits
  <2>1. Settled' <=> Settled
    BY <1>2, KeepSettled DEF PollArm, PollExits
  <2>2. QED BY <1>2, <2>1, UnownedStep DEF PollArm, PollExits, Unowned, Step
<1>3. CASE SwitchOut
  <2>1. ~Settled'
    BY <1>3, LockUnsettled DEF SwitchOut
  <2>2. active /\ seenAway
    BY <1>3 DEF SwitchOut, EdgeInv
  <2>3. QED BY <1>3, <2>1, <2>2 DEF SwitchOut, Step, Own!ONext, Own!Leave, Own!ovars
<1>4. QED BY <1>1, <1>2, <1>3 DEF PollStep

\* SetActive(true): the cursor arrives, or was here.
LEMMA RefineSetActive ==
  ASSUME CaptureInv, CaptureInv', NEW t \in Threads, SetActive(t),
         pc[t] # "lock", kgrab' = kgrab, grabMu' = grabMu
  PROVE  Step
<1> USE DEF CaptureInv, TypeInv, TypeOK
<1>1. CASE active
  <2>1. Settled' <=> Settled
    BY <1>1, KeepSettled DEF SetActive
  <2>2. QED BY <1>1, <2>1, UnownedStep DEF SetActive, Unowned, Step
<1>2. CASE ~active
  <2>1. ~Settled'
    BY <1>2, LockUnsettled DEF SetActive
  <2>2. QED BY <1>2, <2>1 DEF SetActive, Step, Own!ONext, Own!Arrive, Own!ovars
<1>3. QED BY <1>1, <1>2

LEMMA RefineMonitor ==
  ASSUME CaptureInv, CaptureInv', NEW f \in Files,
         ReadEvent(f) \/ NextOfBatch(f) \/ HandleEvent(f) \/ MonitorExits(f)
  PROVE  Step
<1> USE DEF CaptureInv, TypeInv, TypeOK
<1>1. CASE SwitchBack(f)
  <2>1. ~Settled'
    BY <1>1, LockUnsettled DEF SwitchBack
  <2>2. CASE active
    BY <1>1, <2>1, <2>2 DEF SwitchBack, Step, Own!ONext, Own!Repeat, Own!ovars
  <2>3. CASE ~active
    BY <1>1, <2>1, <2>3 DEF SwitchBack, Step, Own!ONext, Own!Arrive, Own!ovars
  <2>4. QED BY <2>2, <2>3
<1>2. CASE ReturnEvent(f)
  BY <1>2, RefineSetActive DEF ReturnEvent
<1>3. CASE \/ ReadEvent(f) \/ NextOfBatch(f) \/ EnterRead(f) \/ CheckGrace(f)
           \/ Wheel(f) \/ Sent(f) \/ ForwardKey(f)
  <2>1. Settled' <=> Settled
    BY <1>3, KeepSettled
       DEF ReadEvent, NextOfBatch, EnterRead, CheckGrace, Wheel, Sent, ForwardKey
  <2>2. UNCHANGED <<active, seenAway, kgrab>>
    BY <1>3 DEF ReadEvent, NextOfBatch, EnterRead, CheckGrace, Wheel, Sent, ForwardKey
  <2>3. QED BY <2>1, <2>2, UnownedStep DEF Unowned, Step
<1>4. ASSUME NEW z \in RemoteZones, MoveRemote(f, z) PROVE Step
  <2>1. Settled' <=> Settled
    BY <1>4, KeepSettled DEF MoveRemote
  <2>2. QED BY <1>4, <2>1, UnownedStep DEF MoveRemote, Unowned, Step
<1>5. CASE MonitorExits(f)
  <2>1. Settled' <=> Settled
    BY <1>5, KeepSettled DEF MonitorExits
  <2>2. QED BY <1>5, <2>1, UnownedStep DEF MonitorExits, Close, Unowned, Step
<1>6. QED BY <1>1, <1>2, <1>3, <1>4, <1>5 DEF HandleEvent

LEMMA RefineMain ==
  ASSUME CaptureInv, CaptureInv',
         RunStep \/ RecvReturn \/ RecvActivate \/ ConnectionLost \/ StopStep
  PROVE  Step
<1> USE DEF CaptureInv, TypeInv, TypeOK
<1>1. CASE RecvActivate
  BY <1>1, RefineSetActive DEF RecvActivate
<1>2. CASE RunStart
  <2>1. Settled' <=> Settled
    BY <1>2, KeepSettled DEF RunStart, DescInv
  <2>2. QED BY <1>2, <2>1, UnownedStep DEF RunStart, Unowned, Step
<1>3. CASE RunFails \/ RecvReturn \/ ConnectionLost \/ CloseStopCh \/ WaitGroup
  <2>1. Settled' <=> Settled
    BY <1>3, KeepSettled DEF RunFails, RecvReturn, ConnectionLost, CloseStopCh, WaitGroup
  <2>2. UNCHANGED <<active, seenAway, kgrab>>
    BY <1>3 DEF RunFails, RecvReturn, ConnectionLost, CloseStopCh, WaitGroup
  <2>3. QED BY <2>1, <2>2, UnownedStep DEF Unowned, Step
<1>4. CASE StopDevices
  <2>1. Settled' <=> Settled
    BY <1>4, KeepSettled DEF StopDevices
  <2>2. QED BY <1>4, <2>1, UnownedStep DEF StopDevices, Close, Unowned, Step
<1>5. QED BY <1>1, <1>2, <1>3, <1>4 DEF RunStep, StopStep

LEMMA RefineEnvironment ==
  ASSUME CaptureInv, CaptureInv', Environment
  PROVE  Step
<1>1. UNCHANGED <<active, seenAway, grabMu, pc>> /\ kgrab' \subseteq kgrab
  BY DEF Environment, Plug, UdevReady, Unplug, GraceEnds
<1>2. Settled' <=> Settled
  BY <1>1 DEF Settled, InPass
<1>3. QED BY <1>1, <1>2, UnownedStep DEF Unowned, Step

(***************************************************************************)
(* Every behaviour of the Capturer is one that Ownership allows.           *)
(***************************************************************************)
THEOREM Refinement == Spec => KeepsOwnership
<1>1. Init => Own!OInit
  BY DEF Init, Own!OInit, Settled, InPass
<1>2. ASSUME CaptureInv, CaptureInv', [Next]_vars PROVE [Own!ONext]_(Own!ovars)
  <2>1. CASE UNCHANGED vars
    <3>1. UNCHANGED <<active, seenAway, kgrab, grabMu, pc>>
      BY <2>1 DEF vars
    <3>2. QED BY <3>1 DEF Own!ovars, Settled, InPass
  <2>2. CASE Next
    BY <1>2, <2>1, <2>2, RefineAddDevice, RefineIsolation, RefinePoll, RefineMonitor,
       RefineMain, RefineEnvironment DEF Next, Terminated, Step
  <2>3. QED BY <1>2, <2>1, <2>2
<1>3. QED BY <1>1, <1>2, InvAlways, PTL DEF Spec, KeepsOwnership, Own!OSpec
=============================================================================
