----------------------------- MODULE FilesProofs -----------------------------
(***************************************************************************)
(* Proofs about module Files, for any number of transfers, managers and    *)
(* slots, and any sizes: what the selection names is there and complete.   *)
(* The argument is about who receives: fileMu lets one transfer of a       *)
(* manager in, so that as long as no two managers have received at the     *)
(* same time, nobody else can touch the stage of the one that receives.    *)
(***************************************************************************)
EXTENDS Files, FiniteSetTheorems, Integers, TLAPS

USE FilesAssumption DEF FilesAssumption

Receiving == {"header", "inline", "body", "renamed", "published"}

TypeInv ==
  /\ pc \in [Transfers -> Phases] /\ mgr \in [Transfers -> 0..MaxManagers]
  /\ size \in [Transfers -> Int] /\ written \in [Transfers -> Int]
  /\ consumed \in [Transfers -> Int]
  /\ fileMu \in [Managers -> Transfers \cup {None}]
  /\ disk \in [Transfers -> {"none", "empty", "part", "file"}]
  /\ selection \in Transfers \cup {None} /\ latest \in Transfers \cup {None}
  /\ cur \in 0..MaxManagers /\ active \in 0..MaxManagers
  /\ overlapped \in BOOLEAN /\ crashed \in BOOLEAN

\* fileMu names the transfer of its manager that receives.
HoldInv ==
  /\ \A t \in Transfers : pc[t] \in Receiving \cup {"waiting"} => mgr[t] \in Managers
  /\ \A t \in Transfers : pc[t] \in Receiving => fileMu[mgr[t]] = t
  /\ \A m \in Managers : fileMu[m] # None => pc[fileMu[m]] \in Receiving /\ mgr[fileMu[m]] = m

\* One transfer at a time, as long as managers have not overlapped.
SoleInv ==
  ~overlapped => \A t, u \in Transfers :
                   pc[t] \in Receiving /\ pc[u] \in Receiving => t = u

\* What has been named is not received any more.
NamedInv ==
  /\ \A t \in Transfers : t = selection \/ t = latest => pc[t] \in {"published", "done"}
  /\ ~overlapped => \A t \in Transfers : pc[t] = "published" =>
                      latest = t /\ selection \in {t, None}

\* What has been renamed is complete, and so is what the selection names.
Complete(t) == disk[t] = "file" /\ written[t] = size[t]
WholeInv ==
  ~overlapped => \A t \in Transfers :
                   pc[t] \in {"renamed", "published"} \/ t = selection => Complete(t)

\* A stage on the disk is being received, was published last, or is about to
\* be removed.
CleanInv ==
  ~overlapped /\ ~crashed =>
    \A t \in Transfers : disk[t] # "none" =>
      \/ t = latest \/ pc[t] \in Receiving
      \/ \E u \in Transfers : pc[u] = "published"

FilesInv == TypeInv /\ HoldInv /\ SoleInv /\ NamedInv /\ WholeInv /\ CleanInv

LEMMA FilesInit == Init => FilesInv
<1> SUFFICES ASSUME Init PROVE FilesInv
  OBVIOUS
<1>1. TypeInv
  <2>1. 0 \in 0..MaxManagers
    OBVIOUS
  <2>2. /\ pc \in [Transfers -> Phases] /\ mgr \in [Transfers -> 0..MaxManagers]
        /\ disk \in [Transfers -> {"none", "empty", "part", "file"}]
        /\ fileMu \in [Managers -> Transfers \cup {None}]
    BY <2>1 DEF Init, Phases
  <2>3. /\ size \in [Transfers -> Int] /\ written \in [Transfers -> Int]
        /\ consumed \in [Transfers -> Int]
    BY DEF Init
  <2>4. cur \in 0..MaxManagers /\ active \in 0..MaxManagers
    BY <2>1 DEF Init
  <2>5. QED BY <2>2, <2>3, <2>4 DEF Init, TypeInv
<1>2. HoldInv /\ SoleInv /\ NamedInv /\ WholeInv /\ CleanInv
  BY DEF Init, HoldInv, SoleInv, NamedInv, WholeInv, CleanInv, Receiving
<1>3. QED BY <1>1, <1>2 DEF FilesInv

-----------------------------------------------------------------------------
\* Before a transfer holds fileMu.

LEMMA OutsideInv ==
  ASSUME FilesInv, NEW t \in Transfers, Accept(t) \/ Acknowledge(t) \/ OnFile(t)
  PROVE  FilesInv'
<1>1. UNCHANGED <<size, consumed, written, fileMu, disk, selection, latest, cur, active,
                  overlapped, crashed>>
  BY DEF Accept, Acknowledge, OnFile, bodyVars, mainVars, histVars
<1>2. pc[t] \in {"none", "setup", "acked"}
  BY DEF Accept, Acknowledge, OnFile
<1>3. PICK p \in {"setup", "acked", "waiting", "done"} :
        pc' = [pc EXCEPT ![t] = p] /\ (p = "waiting" => mgr' = [mgr EXCEPT ![t] = active] /\ active # 0)
  BY DEF Accept, Acknowledge, OnFile, Goto, Leaves
<1>4. /\ mgr' \in [Transfers -> 0..MaxManagers]
      /\ \A u \in Transfers \ {t} : mgr'[u] = mgr[u]
      /\ p = "waiting" => mgr'[t] \in Managers
  <2>1. 0 \in 0..MaxManagers /\ active \in 0..MaxManagers /\ (active # 0 => active \in Managers)
    BY DEF FilesInv, TypeInv, Managers
  <2>2. mgr \in [Transfers -> 0..MaxManagers]
    BY DEF FilesInv, TypeInv
  <2>3. mgr' = mgr \/ mgr' = [mgr EXCEPT ![t] = 0] \/ mgr' = [mgr EXCEPT ![t] = active]
    BY DEF Accept, Acknowledge, OnFile, Leaves
  <2>4. QED BY <1>3, <2>1, <2>2, <2>3
<1>5. /\ pc' \in [Transfers -> Phases] /\ pc'[t] = p
      /\ \A u \in Transfers \ {t} : pc'[u] = pc[u]
  BY <1>3 DEF FilesInv, TypeInv, Phases
<1>6. TypeInv'
  BY <1>1, <1>4, <1>5 DEF FilesInv, TypeInv
<1>7. pc[t] \notin Receiving /\ p \notin Receiving /\ pc[t] \notin {"published", "done"}
  BY <1>2 DEF Receiving
<1>8. HoldInv'
  BY <1>1, <1>4, <1>5, <1>7 DEF FilesInv, TypeInv, HoldInv
<1>9. SoleInv' /\ NamedInv'
  BY <1>1, <1>5, <1>7 DEF FilesInv, SoleInv, NamedInv
<1>10. WholeInv' /\ CleanInv'
  BY <1>1, <1>5, <1>7 DEF FilesInv, WholeInv, Complete, CleanInv, Receiving
<1>11. QED BY <1>6, <1>8, <1>9, <1>10 DEF FilesInv

\* fileMu is free: nobody of this manager receives.
LEMMA LockInv == ASSUME FilesInv, NEW t \in Transfers, Lock(t) PROVE FilesInv'
<1> DEFINE m == mgr[t]
<1>1. /\ pc[t] = "waiting" /\ fileMu[m] = None /\ m \in Managers
      /\ fileMu' = [fileMu EXCEPT ![m] = t] /\ disk' = [disk EXCEPT ![t] = "empty"]
      /\ overlapped' = (overlapped \/ \E n \in Managers \ {m} : fileMu[n] # None)
      /\ pc' = [pc EXCEPT ![t] = "header"]
      /\ UNCHANGED <<mgr, size, consumed, written, selection, latest, cur, active, crashed>>
  BY DEF Lock, Busy, Goto, bodyVars, mainVars, FilesInv, HoldInv
<1>2. /\ pc' \in [Transfers -> Phases] /\ pc'[t] = "header"
      /\ \A u \in Transfers \ {t} : pc'[u] = pc[u]
  BY <1>1 DEF FilesInv, TypeInv, Phases
<1>3. /\ fileMu' \in [Managers -> Transfers \cup {None}] /\ fileMu'[m] = t
      /\ \A n \in Managers \ {m} : fileMu'[n] = fileMu[n]
      /\ disk' \in [Transfers -> {"none", "empty", "part", "file"}]
      /\ \A u \in Transfers \ {t} : disk'[u] = disk[u]
  BY <1>1 DEF FilesInv, TypeInv
<1>4. TypeInv'
  BY <1>1, <1>2, <1>3 DEF FilesInv, TypeInv
<1>5. t # None /\ pc[t] \notin Receiving /\ "header" \in Receiving
  BY <1>1 DEF Receiving
<1>6. HoldInv'
  <2>1. ASSUME NEW u \in Transfers, pc'[u] \in Receiving PROVE fileMu'[mgr'[u]] = u
    <3>1. CASE u = t
      BY <1>1, <1>3, <3>1
    <3>2. CASE u # t
      <4>1. pc[u] \in Receiving /\ mgr[u] \in Managers /\ fileMu[mgr[u]] = u
        BY <1>2, <2>1, <3>2 DEF FilesInv, HoldInv
      <4>2. mgr[u] # m
        BY <1>1, <4>1
      <4>3. QED BY <1>1, <1>3, <4>1, <4>2
    <3>3. QED BY <3>1, <3>2
  <2>2. \A u \in Transfers : pc'[u] \in Receiving \cup {"waiting"} => mgr'[u] \in Managers
    BY <1>1, <1>2 DEF FilesInv, HoldInv
  <2>3. ASSUME NEW n \in Managers, fileMu'[n] # None
        PROVE  pc'[fileMu'[n]] \in Receiving /\ mgr'[fileMu'[n]] = n
    <3>1. CASE n = m
      BY <1>1, <1>2, <1>3, <1>5, <3>1
    <3>2. CASE n # m
      <4>1. /\ fileMu'[n] = fileMu[n] /\ fileMu[n] \in Transfers
            /\ pc[fileMu[n]] \in Receiving /\ mgr[fileMu[n]] = n
        BY <1>3, <2>3, <3>2 DEF FilesInv, TypeInv, HoldInv
      <4>2. fileMu[n] # t
        BY <1>5, <4>1
      <4>3. QED BY <1>1, <1>2, <4>1, <4>2
    <3>3. QED BY <3>1, <3>2
  <2>4. QED BY <2>1, <2>2, <2>3 DEF HoldInv
<1>7. SoleInv'
  <2>1. ASSUME ~overlapped', NEW u \in Transfers, pc[u] \in Receiving PROVE FALSE
    <3>1. mgr[u] \in Managers /\ fileMu[mgr[u]] = u
      BY <2>1 DEF FilesInv, HoldInv
    <3>2. u # None
      OBVIOUS
    <3>3. QED BY <1>1, <2>1, <3>1, <3>2
  <2>2. QED BY <1>2, <2>1 DEF SoleInv
<1>8. ~overlapped' => ~overlapped
  BY <1>1
<1>9. t # selection /\ t # latest
  BY <1>1 DEF FilesInv, NamedInv
<1>10. NamedInv' /\ WholeInv'
  BY <1>1, <1>2, <1>3, <1>8, <1>9 DEF FilesInv, NamedInv, WholeInv, Complete
<1>11. CleanInv'
  BY <1>1, <1>2, <1>3, <1>5, <1>8 DEF FilesInv, CleanInv, Receiving
<1>12. QED BY <1>4, <1>6, <1>7, <1>10, <1>11 DEF FilesInv

-----------------------------------------------------------------------------
\* The holder of fileMu.

\* The deferred calls of HandleFileChannel.
LEMMA ReturnsInv ==
  ASSUME FilesInv, NEW t \in Transfers, pc[t] \in Receiving, Returns(t)
  PROVE  /\ pc' \in [Transfers -> Phases] /\ mgr' \in [Transfers -> 0..MaxManagers]
         /\ fileMu' \in [Managers -> Transfers \cup {None}]
         /\ pc'[t] = "done" /\ \A u \in Transfers \ {t} : pc'[u] = pc[u]
         /\ HoldInv'
<1> DEFINE m == mgr[t]
<1>1. /\ fileMu' = [fileMu EXCEPT ![m] = None] /\ pc' = [pc EXCEPT ![t] = "done"]
      /\ mgr' = [mgr EXCEPT ![t] = 0] /\ m \in Managers /\ fileMu[m] = t
  BY DEF Returns, Leaves, Goto, FilesInv, HoldInv
<1>2. /\ pc' \in [Transfers -> Phases] /\ pc'[t] = "done"
      /\ \A u \in Transfers \ {t} : pc'[u] = pc[u]
  BY <1>1 DEF FilesInv, TypeInv, Phases
<1>3. /\ mgr' \in [Transfers -> 0..MaxManagers]
      /\ \A u \in Transfers \ {t} : mgr'[u] = mgr[u]
  BY <1>1 DEF FilesInv, TypeInv
<1>4. /\ fileMu' \in [Managers -> Transfers \cup {None}] /\ fileMu'[m] = None
      /\ \A n \in Managers \ {m} : fileMu'[n] = fileMu[n]
  BY <1>1 DEF FilesInv, TypeInv
<1>5. HoldInv'
  <2>1. ASSUME NEW u \in Transfers, pc'[u] \in Receiving \cup {"waiting"}
        PROVE  u # t /\ pc'[u] = pc[u] /\ mgr'[u] = mgr[u] /\ mgr[u] \in Managers
    BY <1>2, <1>3, <2>1 DEF FilesInv, HoldInv, Receiving
  <2>2. ASSUME NEW u \in Transfers, pc'[u] \in Receiving PROVE fileMu'[mgr'[u]] = u
    <3>1. u # t /\ pc[u] \in Receiving /\ mgr'[u] = mgr[u] /\ mgr[u] \in Managers
      BY <2>1, <2>2
    <3>2. fileMu[mgr[u]] = u
      BY <3>1 DEF FilesInv, HoldInv
    <3>3. QED BY <1>1, <1>4, <3>1, <3>2
  <2>3. ASSUME NEW n \in Managers, fileMu'[n] # None
        PROVE  pc'[fileMu'[n]] \in Receiving /\ mgr'[fileMu'[n]] = n
    <3>1. /\ n # m /\ fileMu'[n] = fileMu[n] /\ fileMu[n] \in Transfers
          /\ pc[fileMu[n]] \in Receiving /\ mgr[fileMu[n]] = n
      BY <1>4, <2>3 DEF FilesInv, TypeInv, HoldInv
    <3>2. fileMu[n] # t
      BY <3>1
    <3>3. QED BY <1>2, <1>3, <3>1, <3>2
  <2>4. QED BY <2>1, <2>2, <2>3 DEF HoldInv
<1>6. QED BY <1>2, <1>3, <1>4, <1>5

\* A transfer that fails, or whose content is not a file, is no stage anybody
\* has named.
LEMMA DiscardInv == ASSUME FilesInv, NEW t \in Transfers, Fails(t) \/ Inline(t) PROVE FilesInv'
<1>1. /\ pc[t] \in {"header", "inline", "body", "renamed"} /\ Discard(t)
      /\ UNCHANGED <<selection, latest, cur, active, overlapped, crashed>>
  BY DEF Fails, Inline, mainVars, histVars
<1>2. pc[t] \in Receiving /\ t # selection /\ t # latest
  BY <1>1 DEF Receiving, FilesInv, NamedInv
<1>3. /\ pc' \in [Transfers -> Phases] /\ mgr' \in [Transfers -> 0..MaxManagers]
      /\ fileMu' \in [Managers -> Transfers \cup {None}]
      /\ pc'[t] = "done" /\ \A u \in Transfers \ {t} : pc'[u] = pc[u]
      /\ HoldInv'
  BY <1>1, <1>2, ReturnsInv DEF Discard
<1>4. /\ disk' \in [Transfers -> {"none", "empty", "part", "file"}] /\ disk'[t] = "none"
      /\ size' \in [Transfers -> Int] /\ written' \in [Transfers -> Int]
      /\ consumed' \in [Transfers -> Int]
      /\ \A u \in Transfers \ {t} :
           disk'[u] = disk[u] /\ size'[u] = size[u] /\ written'[u] = written[u]
  BY <1>1 DEF Discard, FilesInv, TypeInv
<1>5. TypeInv'
  BY <1>1, <1>3, <1>4 DEF FilesInv, TypeInv
<1>6. SoleInv' /\ NamedInv'
  BY <1>1, <1>3 DEF FilesInv, SoleInv, NamedInv, Receiving
<1>7. WholeInv'
  BY <1>1, <1>2, <1>3, <1>4 DEF FilesInv, WholeInv, Complete
<1>8. CleanInv'
  BY <1>1, <1>3, <1>4 DEF FilesInv, CleanInv
<1>9. QED BY <1>3, <1>5, <1>6, <1>7, <1>8 DEF FilesInv

\* A step of the holder that changes its place among those who receive.
LEMMA StaysInv ==
  ASSUME FilesInv, NEW t \in Transfers, NEW p \in Receiving, pc[t] \in Receiving,
         pc' = [pc EXCEPT ![t] = p], UNCHANGED <<mgr, fileMu, overlapped>>
  PROVE  /\ pc' \in [Transfers -> Phases] /\ HoldInv' /\ SoleInv'
         /\ pc'[t] = p /\ \A u \in Transfers \ {t} : pc'[u] = pc[u]
<1>1. /\ pc' \in [Transfers -> Phases] /\ pc'[t] = p
      /\ \A u \in Transfers \ {t} : pc'[u] = pc[u]
  BY DEF FilesInv, TypeInv, Phases, Receiving
<1>2. \A u \in Transfers : pc'[u] \in Receiving <=> pc[u] \in Receiving
  BY <1>1
<1>3. \A u \in Transfers : pc'[u] = "waiting" <=> pc[u] = "waiting"
  BY <1>1 DEF Receiving
<1>4. SoleInv'
  BY <1>2 DEF FilesInv, SoleInv
<1>5. HoldInv'
  <2>1. \A u \in Transfers : pc'[u] \in Receiving \cup {"waiting"} => mgr'[u] \in Managers
    BY <1>2, <1>3 DEF FilesInv, HoldInv
  <2>2. \A u \in Transfers : pc'[u] \in Receiving => fileMu'[mgr'[u]] = u
    BY <1>2 DEF FilesInv, HoldInv
  <2>3. \A n \in Managers : fileMu'[n] # None =>
          fileMu[n] \in Transfers /\ pc'[fileMu'[n]] \in Receiving /\ mgr'[fileMu'[n]] = n
    BY <1>2 DEF FilesInv, TypeInv, HoldInv
  <2>4. QED BY <2>1, <2>2, <2>3 DEF HoldInv
<1>6. QED BY <1>1, <1>4, <1>5

LEMMA AlignedInt == \A n \in Int : Aligned(n) \in Int
BY DEF Aligned

\* The header, the blocks and the rename: nobody has named this stage yet.
LEMMA ReceiveInv ==
  ASSUME FilesInv, NEW t \in Transfers, Header(t) \/ Chunk(t) \/ Rename(t)
  PROVE  FilesInv'
<1>1. /\ pc[t] \in {"header", "body"}
      /\ UNCHANGED <<mgr, fileMu, selection, latest, cur, active, overlapped, crashed>>
  BY DEF Header, Chunk, Rename, mainVars, histVars
<1>2. PICK p \in {"inline", "body", "renamed"} :
        pc' = [pc EXCEPT ![t] = p] /\ (p = "renamed" => Rename(t))
  <2>1. CASE Header(t)
    BY <2>1 DEF Header, Goto
  <2>2. CASE Chunk(t)
    BY <2>2 DEF Chunk, FilesInv, TypeInv
  <2>3. CASE Rename(t)
    BY <2>3 DEF Rename, Goto
  <2>4. QED BY <2>1, <2>2, <2>3
<1>3. p \in Receiving /\ pc[t] \in Receiving /\ t # selection /\ t # latest
  BY <1>1 DEF Receiving, FilesInv, NamedInv
<1>4. /\ pc' \in [Transfers -> Phases] /\ HoldInv' /\ SoleInv'
      /\ pc'[t] = p /\ \A u \in Transfers \ {t} : pc'[u] = pc[u]
  BY <1>1, <1>2, <1>3, StaysInv
<1>5. /\ size' \in [Transfers -> Int] /\ written' \in [Transfers -> Int]
      /\ consumed' \in [Transfers -> Int]
      /\ disk' \in [Transfers -> {"none", "empty", "part", "file"}]
      /\ \A u \in Transfers \ {t} :
           disk'[u] = disk[u] /\ size'[u] = size[u] /\ written'[u] = written[u]
  <2>1. CASE Header(t)
    BY <2>1 DEF Header, bodyVars, FilesInv, TypeInv
  <2>2. CASE Chunk(t)
    <3> DEFINE want == Least(Aligned(size[t]) - consumed[t], Buffer)
               keep == Keep(size[t], consumed[t], want)
    <3>1. /\ size[t] \in Int /\ consumed[t] \in Int /\ written[t] \in Int
          /\ Aligned(size[t]) \in Int
      BY AlignedInt DEF FilesInv, TypeInv
    <3>2. want \in Int /\ keep \in Int
      BY <3>1 DEF Least, Keep
    <3>3. /\ consumed' = [consumed EXCEPT ![t] = consumed[t] + want]
          /\ written' = [written EXCEPT ![t] = written[t] + keep]
          /\ UNCHANGED <<size, disk>>
      BY <2>2 DEF Chunk
    <3>4. consumed[t] + want \in Int /\ written[t] + keep \in Int
      BY <3>1, <3>2
    <3> HIDE DEF want, keep
    <3>5. QED BY <3>3, <3>4 DEF FilesInv, TypeInv
  <2>3. CASE Rename(t)
    BY <2>3 DEF Rename, bodyVars, FilesInv, TypeInv
  <2>4. QED BY <2>1, <2>2, <2>3
<1>6. TypeInv'
  BY <1>1, <1>4, <1>5 DEF FilesInv, TypeInv
<1>7. NamedInv'
  BY <1>1, <1>2, <1>3, <1>4 DEF FilesInv, NamedInv
<1>8. WholeInv'
  <2>1. ASSUME p = "renamed" PROVE disk'[t] = "file" /\ written'[t] = size'[t]
    BY <1>2, <2>1 DEF Rename, Whole, bodyVars, FilesInv, TypeInv
  <2>2. ASSUME ~overlapped', NEW u \in Transfers,
               pc'[u] \in {"renamed", "published"} \/ u = selection'
        PROVE  disk'[u] = "file" /\ written'[u] = size'[u]
    <3>1. CASE u = t
      BY <1>1, <1>2, <1>3, <1>4, <2>1, <2>2, <3>1
    <3>2. CASE u # t
      BY <1>1, <1>4, <1>5, <2>2, <3>2 DEF FilesInv, WholeInv, Complete
    <3>3. QED BY <3>1, <3>2
  <2>3. QED BY <2>2 DEF WholeInv, Complete
<1>9. CleanInv'
  BY <1>1, <1>2, <1>3, <1>4, <1>5 DEF FilesInv, CleanInv
<1>10. QED BY <1>4, <1>6, <1>7, <1>8, <1>9 DEF FilesInv

\* Publication: the selection names what has been renamed.
LEMMA PublishInv == ASSUME FilesInv, NEW t \in Transfers, Publish(t) PROVE FilesInv'
<1>1. /\ pc[t] = "renamed" /\ pc' = [pc EXCEPT ![t] = "published"]
      /\ selection' = t /\ latest' = t
      /\ UNCHANGED <<mgr, size, consumed, written, fileMu, disk, cur, active, overlapped, crashed>>
  BY DEF Publish, Goto, bodyVars, mainVars, histVars
<1>2. pc[t] \in Receiving /\ "published" \in Receiving
  BY <1>1 DEF Receiving
<1>3. /\ pc' \in [Transfers -> Phases] /\ HoldInv' /\ SoleInv'
      /\ pc'[t] = "published" /\ \A u \in Transfers \ {t} : pc'[u] = pc[u]
  BY <1>1, <1>2, StaysInv
<1>4. TypeInv'
  BY <1>1, <1>3 DEF FilesInv, TypeInv
<1>5. NamedInv'
  <2>1. \A u \in Transfers : pc'[u] = "published" /\ ~overlapped => u = t
    BY <1>1, <1>2, <1>3 DEF FilesInv, SoleInv, Receiving
  <2>2. QED BY <1>1, <1>3, <2>1 DEF NamedInv
<1>6. WholeInv'
  BY <1>1, <1>3 DEF FilesInv, WholeInv, Complete
<1>7. CleanInv'
  BY <1>1, <1>3 DEF CleanInv
<1>8. QED BY <1>3, <1>4, <1>5, <1>6, <1>7 DEF FilesInv

\* The clean-up after a publication removes everything but the stage that the
\* selection names, if it still names one.
LEMMA CleanUpInv == ASSUME FilesInv, NEW t \in Transfers, CleanUp(t) PROVE FilesInv'
<1>1. /\ pc[t] = "published" /\ Returns(t) /\ crashed' = FALSE
      /\ disk' = [u \in Transfers |-> IF u = t THEN disk[u] ELSE "none"]
      /\ UNCHANGED <<size, consumed, written, selection, latest, cur, active, overlapped>>
  BY DEF CleanUp, RemoveOthers, bodyVars, mainVars
<1>2. pc[t] \in Receiving
  BY <1>1 DEF Receiving
<1>3. /\ pc' \in [Transfers -> Phases] /\ mgr' \in [Transfers -> 0..MaxManagers]
      /\ fileMu' \in [Managers -> Transfers \cup {None}]
      /\ pc'[t] = "done" /\ \A u \in Transfers \ {t} : pc'[u] = pc[u]
      /\ HoldInv'
  BY <1>1, <1>2, ReturnsInv
<1>4. disk' \in [Transfers -> {"none", "empty", "part", "file"}]
  BY <1>1 DEF FilesInv, TypeInv
<1>5. TypeInv'
  BY <1>1, <1>3, <1>4 DEF FilesInv, TypeInv
<1>6. SoleInv' /\ NamedInv'
  BY <1>1, <1>3 DEF FilesInv, SoleInv, NamedInv, Receiving
<1>7. ~overlapped => latest = t /\ selection \in {t, None}
  BY <1>1 DEF FilesInv, NamedInv
<1>8. ~overlapped => \A u \in Transfers \ {t} : pc[u] \notin Receiving
  BY <1>2 DEF FilesInv, SoleInv
<1>9. WholeInv'
  <2>1. ASSUME ~overlapped', NEW u \in Transfers,
               pc'[u] \in {"renamed", "published"} \/ u = selection'
        PROVE  disk'[u] = "file" /\ written'[u] = size'[u]
    <3>1. u = t
      BY <1>1, <1>3, <1>7, <1>8, <2>1 DEF Receiving
    <3>2. Complete(t)
      BY <1>1, <2>1 DEF FilesInv, WholeInv
    <3>3. QED BY <1>1, <3>1, <3>2 DEF Complete
  <2>2. QED BY <2>1 DEF WholeInv, Complete
<1>10. CleanInv'
  BY <1>1, <1>7 DEF CleanInv
<1>11. QED BY <1>3, <1>5, <1>6, <1>9, <1>10 DEF FilesInv

-----------------------------------------------------------------------------
\* The rest of the program, the user and crashes.

LEMMA ElsewhereInv ==
  ASSUME FilesInv, SendStarts \/ Dialled \/ Written \/ WriteStalls \/ MainLoop
  PROVE  FilesInv'
<1>1. UNCHANGED <<pc, mgr, size, consumed, written, fileMu, disk, selection, latest,
                  overlapped, crashed>>
  BY DEF SendStarts, Dialled, Written, WriteStalls, MainLoop, bodyVars, histVars
<1>2. cur' \in 0..MaxManagers /\ active' \in 0..MaxManagers
  <2>1. /\ cur \in 0..MaxManagers /\ active \in 0..MaxManagers
        /\ 0 \in 0..MaxManagers /\ (cur < MaxManagers => cur + 1 \in 0..MaxManagers)
    BY DEF FilesInv, TypeInv
  <2>2. CASE MainLoop
    BY <2>1, <2>2 DEF MainLoop, Connect, Disconnect
  <2>3. CASE SendStarts \/ Dialled \/ Written \/ WriteStalls
    BY <2>1, <2>3 DEF SendStarts, Dialled, Written, WriteStalls, mainVars
  <2>4. QED BY <2>2, <2>3
<1>3. TypeInv'
  BY <1>1, <1>2 DEF FilesInv, TypeInv
<1>4. QED BY <1>1, <1>3 DEF FilesInv, HoldInv, SoleInv, NamedInv, WholeInv, Complete, CleanInv

LEMMA CopyInv == ASSUME FilesInv, Copy PROVE FilesInv'
<1>1. /\ selection' = None
      /\ UNCHANGED <<pc, mgr, size, consumed, written, fileMu, disk, latest, cur, active,
                     overlapped, crashed>>
  BY DEF Copy, bodyVars, mainVars, histVars
<1>2. \A t \in Transfers : t # None
  OBVIOUS
<1>3. QED BY <1>1, <1>2 DEF FilesInv, TypeInv, HoldInv, SoleInv, NamedInv, WholeInv, Complete, CleanInv

\* What is on the disk survives, and so does the selection.
LEMMA CrashInv == ASSUME FilesInv, Crash PROVE FilesInv'
<1>1. /\ pc' = [t \in Transfers |-> IF pc[t] = "none" THEN "none" ELSE "done"]
      /\ mgr' = [t \in Transfers |-> 0] /\ fileMu' = [m \in Managers |-> None]
      /\ active' = 0 /\ crashed' = TRUE
      /\ UNCHANGED <<size, consumed, written, disk, selection, latest, cur, overlapped>>
  BY DEF Crash, bodyVars
<1>2. pc' \in [Transfers -> Phases] /\ \A t \in Transfers : pc'[t] \in {"none", "done"}
  BY <1>1 DEF Phases
<1>3. TypeInv'
  BY <1>1, <1>2 DEF FilesInv, TypeInv
<1>4. HoldInv' /\ SoleInv'
  BY <1>1, <1>2 DEF HoldInv, SoleInv, Receiving
<1>5. NamedInv'
  <2>1. \A t \in Transfers : t = selection \/ t = latest => pc'[t] = "done"
    BY <1>1 DEF FilesInv, NamedInv
  <2>2. QED BY <1>1, <1>2, <2>1 DEF NamedInv
<1>6. WholeInv' /\ CleanInv'
  BY <1>1, <1>2 DEF FilesInv, WholeInv, Complete, CleanInv
<1>7. QED BY <1>3, <1>4, <1>5, <1>6 DEF FilesInv

LEMMA FilesNext == FilesInv /\ [Next]_vars => FilesInv'
<1> SUFFICES ASSUME FilesInv, [Next]_vars PROVE FilesInv'
  OBVIOUS
<1>1. CASE \E t \in Transfers : Accept(t) \/ Lock(t) \/ Own(t) \/ Peer(t)
  BY <1>1, OutsideInv, LockInv, DiscardInv, ReceiveInv, PublishInv, CleanUpInv DEF Own, Peer
<1>2. CASE SendStarts \/ Dialled \/ Written \/ WriteStalls \/ MainLoop
  BY <1>2, ElsewhereInv
<1>3. CASE Crash \/ Copy
  BY <1>3, CrashInv, CopyInv
<1>4. CASE UNCHANGED vars
  <2>1. UNCHANGED <<pc, mgr, size, consumed, written, fileMu, disk, selection, latest, cur, active,
                    overlapped, crashed>>
    BY <1>4 DEF vars, bodyVars, mainVars, histVars
  <2>2. QED BY <2>1 DEF FilesInv, TypeInv, HoldInv, SoleInv, NamedInv, WholeInv, Complete, CleanInv
<1>5. QED BY <1>1, <1>2, <1>3, <1>4 DEF Next

-----------------------------------------------------------------------------
\* Receive renames only what is complete, and neither a failure nor the removal
\* of other stages nor a crash touches the stage that the selection names, with
\* any number of transfers, managers and slots.
THEOREM SelectionBacked == Spec => []Backed
<1>1. FilesInv => Backed
  BY DEF FilesInv, TypeInv, WholeInv, Complete, Backed
<1>2. QED BY <1>1, FilesInit, FilesNext, PTL DEF Spec

\* What HandleFileChannel leaves on the disk, when nobody receives, is the file
\* published last.
THEOREM StagesRemoved == Spec => []StagesCleaned
<1>1. FilesInv => StagesCleaned
  BY DEF FilesInv, TypeInv, CleanInv, StagesCleaned, Receiving
<1>2. QED BY <1>1, FilesInit, FilesNext, PTL DEF Spec

-----------------------------------------------------------------------------
\* The bytes of a transfer.  What was read is a number of whole blocks, what
\* was written is all of it that lies within the announced size.

IsBlocks(n) == \E k \in Nat : n = k * Block
BytesOf(s, c, w) == /\ s \in Sizes \cup {0} /\ c \in Nat /\ IsBlocks(c)
                    /\ c <= Aligned(s) /\ w = Least(c, s)
BytesInv == \A t \in Transfers : BytesOf(size[t], consumed[t], written[t])

LEMMA TimesMonotone ==
  ASSUME NEW a \in Nat, NEW b \in Nat, a <= b
  PROVE  a * Block <= b * Block
<1>1. PICK d \in Nat : b = a + d
  <2>1. b - a \in Nat /\ b = a + (b - a)
    OBVIOUS
  <2>2. QED BY <2>1
<1>2. b * Block = a * Block + d * Block /\ d * Block >= 0 /\ a * Block \in Int
  BY <1>1
<1>3. QED BY <1>2

\* alignedLen rounds up to whole blocks, by less than one.
LEMMA AlignedBlocks ==
  ASSUME NEW n \in Nat
  PROVE  Aligned(n) \in Nat /\ IsBlocks(Aligned(n)) /\ n <= Aligned(n) /\ Aligned(n) < n + Block
<1> DEFINE q == (n + Block - 1) \div Block
<1>1. n + Block - 1 \in Nat /\ Block \in Nat /\ Block > 0
  OBVIOUS
<1>2. q \in Nat /\ q * Block <= n + Block - 1 /\ n + Block - 1 < q * Block + Block
  BY <1>1
<1>3. q * Block \in Nat
  BY <1>1, <1>2
<1>4. Aligned(n) = q * Block
  BY DEF Aligned
<1> HIDE DEF q
<1>5. QED BY <1>1, <1>2, <1>3, <1>4 DEF IsBlocks

LEMMA BlocksLess ==
  ASSUME NEW a \in Nat, NEW b \in Nat, IsBlocks(a), IsBlocks(b), a < b
  PROVE  a + Block <= b
<1>1. PICK i \in Nat : a = i * Block
  BY DEF IsBlocks
<1>2. PICK j \in Nat : b = j * Block
  BY DEF IsBlocks
<1>3. i < j
  BY <1>1, <1>2, TimesMonotone
<1>4. (i + 1) * Block <= j * Block
  BY <1>3, TimesMonotone
<1>5. (i + 1) * Block = i * Block + Block
  OBVIOUS
<1>6. QED BY <1>1, <1>2, <1>4, <1>5

\* A round of readAligned reads whole blocks.
LEMMA ReadBlocks ==
  ASSUME NEW a \in Nat, NEW b \in Nat, IsBlocks(a), IsBlocks(b), a < b
  PROVE  /\ Least(b - a, Buffer) \in Nat
         /\ IsBlocks(a + Least(b - a, Buffer)) /\ a + Least(b - a, Buffer) <= b
<1>1. PICK i \in Nat : a = i * Block
  BY DEF IsBlocks
<1>2. PICK m \in Nat : Buffer = m * Block
  <2> DEFINE d == Buffer \div Block
             r == Buffer % Block
  <2>1. Block \in Nat /\ Block > 0 /\ Buffer \in Nat /\ r = 0
    OBVIOUS
  <2>2. d \in Nat /\ Buffer = Block * d + r
    BY <2>1
  <2> HIDE DEF d, r
  <2>3. Block * d = d * Block
    BY <2>1, <2>2
  <2>4. Buffer = d * Block
    BY <2>1, <2>2, <2>3
  <2>5. QED BY <2>2, <2>4
<1>3. CASE b - a < Buffer
  BY <1>3 DEF Least
<1>4. CASE ~(b - a < Buffer)
  <2>1. (i + m) * Block = i * Block + m * Block /\ i + m \in Nat
    OBVIOUS
  <2>2. IsBlocks(a + Buffer)
    BY <1>1, <1>2, <2>1 DEF IsBlocks
  <2>3. Least(b - a, Buffer) = Buffer
    BY <1>4 DEF Least
  <2>4. Buffer \in Nat /\ a + Buffer <= b
    BY <1>4
  <2>5. QED BY <2>2, <2>3, <2>4
<1>5. QED BY <1>3, <1>4

LEMMA SizesNat == \A n \in Sizes \cup {0} : n \in Nat
OBVIOUS

LEMMA ChunkBytes ==
  ASSUME FilesInv, BytesInv, NEW t \in Transfers, Chunk(t)
  PROVE  BytesInv'
<1> DEFINE s == size[t]
           c == consumed[t]
           want == Least(Aligned(s) - c, Buffer)
<1>1. /\ want > 0 /\ size' = size
      /\ consumed' = [consumed EXCEPT ![t] = c + want]
      /\ written' = [written EXCEPT ![t] = written[t] + Least(want, s - c)]
  BY DEF Chunk, Keep
<1>2. /\ s \in Nat /\ s \in Sizes \cup {0} /\ c \in Nat /\ IsBlocks(c) /\ c <= Aligned(s)
      /\ written[t] = Least(c, s)
  <2>1. BytesOf(s, c, written[t])
    BY DEF BytesInv
  <2>2. s \in Nat
    BY <2>1, SizesNat DEF BytesOf
  <2>3. QED BY <2>1, <2>2 DEF BytesOf
<1>3. Aligned(s) \in Nat /\ IsBlocks(Aligned(s)) /\ s <= Aligned(s) /\ Aligned(s) < s + Block
  BY <1>2, AlignedBlocks
<1>4. c < Aligned(s)
  BY <1>1, <1>2, <1>3 DEF Least
<1>5. c < s
  <2>1. c + Block <= Aligned(s)
    BY <1>2, <1>3, <1>4, BlocksLess
  <2>2. QED BY <1>2, <1>3, <2>1
<1>6. want \in Nat /\ IsBlocks(c + want) /\ c + want <= Aligned(s)
  BY <1>2, <1>3, <1>4, ReadBlocks
<1> HIDE DEF want
<1>7. written[t] + Least(want, s - c) = Least(c + want, s)
  BY <1>2, <1>5, <1>6 DEF Least
<1>8. BytesOf(s, c + want, Least(c + want, s))
  BY <1>2, <1>6 DEF BytesOf
<1>9. ASSUME NEW u \in Transfers PROVE BytesOf(size'[u], consumed'[u], written'[u])
  <2>1. consumed \in [Transfers -> Int] /\ written \in [Transfers -> Int]
    BY DEF FilesInv, TypeInv
  <2>2. CASE u = t
    BY <1>1, <1>7, <1>8, <2>1, <2>2
  <2>3. CASE u # t
    BY <1>1, <2>1, <2>3 DEF BytesInv
  <2>4. QED BY <2>2, <2>3
<1>10. QED BY <1>9 DEF BytesInv

\* Nothing has been read of a file of any size that has just been announced.
LEMMA FreshBytes == \A n \in Sizes \cup {0} : BytesOf(n, 0, 0)
<1> SUFFICES ASSUME NEW n \in Sizes \cup {0} PROVE BytesOf(n, 0, 0)
  OBVIOUS
<1>1. n \in Nat /\ 0 = 0 * Block
  OBVIOUS
<1>2. Aligned(n) \in Nat
  BY <1>1, AlignedBlocks
<1>3. QED BY <1>1, <1>2 DEF BytesOf, IsBlocks, Least

LEMMA BytesNext == FilesInv /\ BytesInv /\ [Next]_vars => BytesInv'
<1> SUFFICES ASSUME FilesInv, BytesInv, [Next]_vars PROVE BytesInv'
  OBVIOUS
<1>1. ASSUME NEW t \in Transfers, Chunk(t) PROVE BytesInv'
  BY <1>1, ChunkBytes
<1>2. ASSUME NEW t \in Transfers, NEW n \in Sizes \cup {0},
             size' = [size EXCEPT ![t] = n], consumed' = [consumed EXCEPT ![t] = 0],
             written' = [written EXCEPT ![t] = 0]
      PROVE  BytesInv'
  BY <1>2, FreshBytes DEF FilesInv, TypeInv, BytesInv
<1>3. CASE UNCHANGED bodyVars
  BY <1>3 DEF bodyVars, BytesInv
<1>4. ASSUME NEW t \in Transfers, Fails(t) \/ Inline(t) \/ Header(t) PROVE BytesInv'
  <2>1. CASE UNCHANGED bodyVars
    BY <1>3, <2>1
  <2>2. CASE \E n \in Sizes \cup {0} :
               /\ size' = [size EXCEPT ![t] = n] /\ consumed' = [consumed EXCEPT ![t] = 0]
               /\ written' = [written EXCEPT ![t] = 0]
    BY <1>2, <2>2
  <2>3. QED BY <1>4, <2>1, <2>2 DEF Fails, Inline, Header, Discard
<1>5. ASSUME NEW t \in Transfers,
             \/ Accept(t) \/ Acknowledge(t) \/ OnFile(t) \/ Lock(t)
             \/ Rename(t) \/ Publish(t) \/ CleanUp(t)
      PROVE  UNCHANGED bodyVars
  BY <1>5 DEF Accept, Acknowledge, OnFile, Lock, Rename, Publish, CleanUp
<1>6. CASE \/ SendStarts \/ Dialled \/ Written \/ WriteStalls \/ MainLoop \/ Crash \/ Copy
           \/ UNCHANGED vars
  BY <1>3, <1>6 DEF SendStarts, Dialled, Written, WriteStalls, MainLoop, Crash, Copy, vars
<1>7. QED BY <1>1, <1>3, <1>4, <1>5, <1>6 DEF Next, Own, Peer

-----------------------------------------------------------------------------
\* The slots: one for each transfer that was accepted and has not returned.

InSlot == {t \in Transfers : pc[t] \notin {"none", "done"}}
SlotInv == IsFiniteSet(InSlot) /\ pending = Cardinality(InSlot) /\ pending <= Slots

LEMMA SlotKept ==
  ASSUME FilesInv, SlotInv, pending' = pending, NEW t \in Transfers, NEW p,
         pc' = [pc EXCEPT ![t] = p],
         pc[t] \in {"none", "done"} <=> p \in {"none", "done"}
  PROVE  SlotInv'
<1>1. InSlot' = InSlot
  BY DEF InSlot, FilesInv, TypeInv
<1>2. QED BY <1>1 DEF SlotInv

LEMMA SlotBack ==
  ASSUME FilesInv, SlotInv, NEW t \in Transfers, Leaves(t), pc[t] \notin {"none", "done"}
  PROVE  SlotInv'
<1>1. t \in InSlot /\ InSlot' = InSlot \ {t} /\ pending' = pending - 1
  BY DEF Leaves, Goto, InSlot, FilesInv, TypeInv
<1>2. IsFiniteSet(InSlot \ {t}) /\ Cardinality(InSlot \ {t}) = Cardinality(InSlot) - 1
  BY <1>1, FS_RemoveElement DEF SlotInv
<1>3. Cardinality(InSlot) \in Nat
  BY FS_CardinalityType DEF SlotInv
<1>4. QED BY <1>1, <1>2, <1>3 DEF SlotInv

LEMMA AcceptSlot == ASSUME FilesInv, SlotInv, NEW t \in Transfers, Accept(t) PROVE SlotInv'
<1>1. CASE pending < Slots /\ Goto(t, "setup") /\ pending' = pending + 1
  <2>1. t \notin InSlot /\ InSlot' = InSlot \cup {t}
    BY <1>1 DEF Accept, Goto, InSlot, FilesInv, TypeInv
  <2>2. IsFiniteSet(InSlot \cup {t}) /\ Cardinality(InSlot \cup {t}) = Cardinality(InSlot) + 1
    BY <2>1, FS_AddElement DEF SlotInv
  <2>3. Cardinality(InSlot) \in Nat
    BY FS_CardinalityType DEF SlotInv
  <2>4. QED BY <1>1, <2>1, <2>2, <2>3 DEF SlotInv
<1>2. CASE Goto(t, "done") /\ UNCHANGED pending
  <2>1. InSlot' = InSlot
    BY <1>2 DEF Accept, Goto, InSlot, FilesInv, TypeInv
  <2>2. QED BY <1>2, <2>1 DEF SlotInv
<1>3. QED BY <1>1, <1>2 DEF Accept

LEMMA TransferSlot ==
  ASSUME FilesInv, SlotInv, NEW t \in Transfers, Lock(t) \/ Own(t) \/ Peer(t)
  PROVE  SlotInv'
<1>1. pc[t] \notin {"none", "done"}
  BY DEF Lock, Own, Peer, Rename, Publish, CleanUp, OnFile, Acknowledge, Header, Inline, Chunk, Fails
<1>2. CASE Leaves(t)
  BY <1>1, <1>2, SlotBack
<1>3. ASSUME pending' = pending, NEW p \in Phases \ {"none", "done"}, Goto(t, p) PROVE SlotInv'
  BY <1>1, <1>3, SlotKept DEF Goto
<1>4. CASE Chunk(t)
  BY <1>4 DEF Chunk, SlotInv, InSlot
<1>5. CASE ~Leaves(t) /\ ~Chunk(t)
  <2>1. pending' = pending /\ \E p \in Phases \ {"none", "done"} : Goto(t, p)
    BY <1>5 DEF Lock, Own, Peer, Rename, Publish, CleanUp, OnFile, Acknowledge, Header, Inline,
       Fails, Discard, Returns, Phases
  <2>2. QED BY <1>3, <2>1
<1>6. QED BY <1>2, <1>4, <1>5

LEMMA SlotNext == FilesInv /\ SlotInv /\ [Next]_vars => SlotInv'
<1> SUFFICES ASSUME FilesInv, SlotInv, [Next]_vars PROVE SlotInv'
  OBVIOUS
<1>1. CASE \E t \in Transfers : Accept(t) \/ Lock(t) \/ Own(t) \/ Peer(t)
  BY <1>1, AcceptSlot, TransferSlot
<1>2. CASE \/ SendStarts \/ Dialled \/ Written \/ WriteStalls \/ MainLoop \/ Copy
           \/ UNCHANGED vars
  <2>1. UNCHANGED <<pc, pending>>
    BY <1>2 DEF SendStarts, Dialled, Written, WriteStalls, MainLoop, Copy, vars
  <2>2. QED BY <2>1 DEF SlotInv, InSlot
<1>3. CASE Crash
  <2>1. InSlot' = {} /\ pending' = 0
    BY <1>3 DEF Crash, InSlot, FilesInv, TypeInv
  <2>2. QED BY <2>1, FS_EmptySet DEF SlotInv
<1>4. QED BY <1>1, <1>2, <1>3 DEF Next

-----------------------------------------------------------------------------
\* The main loop and the outbound transfer.

MainInv == /\ phase \in {"down", "starting", "up", "stopping"} /\ cur \in 0..MaxManagers
           /\ machine = (IF phase = "down" THEN 0 ELSE cur)
           /\ active = (IF phase = "up" THEN cur ELSE 0)
OutInv == /\ out \in {"none", "dial", "body"} /\ left \in 0..SendBlocks /\ sends \in 0..MaxSends
          /\ out # "none" => left > 0

LEMMA MainNext == MainInv /\ OutInv /\ [Next]_vars => MainInv' /\ OutInv'
<1> SUFFICES ASSUME MainInv, OutInv, [Next]_vars PROVE MainInv' /\ OutInv'
  OBVIOUS
<1>1. CASE UNCHANGED mainVars /\ UNCHANGED outVars
  BY <1>1 DEF mainVars, outVars, MainInv, OutInv
<1>2. CASE MainLoop
  <2>1. MainInv'
    BY <1>2 DEF MainLoop, Connect, Disconnect, MainInv
  <2>2. QED BY <1>2, <2>1 DEF MainLoop, outVars, OutInv
<1>3. CASE SendStarts \/ Dialled \/ Written \/ WriteStalls
  <2>1. OutInv'
    BY <1>3 DEF SendStarts, Dialled, Written, WriteStalls, OutInv
  <2>2. UNCHANGED mainVars
    BY <1>3 DEF SendStarts, Dialled, Written, WriteStalls
  <2>3. QED BY <2>1, <2>2 DEF mainVars, MainInv
<1>4. CASE Crash
  BY <1>4 DEF Crash, MainInv, OutInv
<1>5. ASSUME NEW t \in Transfers, Accept(t) \/ Lock(t) \/ Own(t) \/ Peer(t)
      PROVE  UNCHANGED mainVars /\ UNCHANGED outVars
  BY <1>5 DEF Own, Peer, Accept, Lock, Rename, Publish, CleanUp, OnFile, Acknowledge, Header,
     Inline, Chunk, Fails
<1>6. CASE Copy \/ UNCHANGED vars
  BY <1>1, <1>6 DEF Copy, vars
<1>7. QED BY <1>1, <1>2, <1>3, <1>4, <1>5, <1>6 DEF Next

TypedInv == FilesInv /\ BytesInv /\ SlotInv /\ MainInv /\ OutInv

LEMMA TypedInit == Init => TypedInv
<1> SUFFICES ASSUME Init PROVE TypedInv
  OBVIOUS
<1>1. BytesInv
  BY FreshBytes DEF Init, BytesInv
<1>2. SlotInv
  <2>1. InSlot = {}
    BY DEF Init, InSlot
  <2>2. QED BY <2>1, FS_EmptySet DEF Init, SlotInv
<1>3. MainInv /\ OutInv
  BY DEF Init, MainInv, OutInv
<1>4. QED BY <1>1, <1>2, <1>3, FilesInit DEF TypedInv

LEMMA TypedAlways == Spec => []TypedInv
<1>1. TypedInv /\ [Next]_vars => TypedInv'
  BY FilesNext, BytesNext, SlotNext, MainNext DEF TypedInv
<1>2. QED BY <1>1, TypedInit, PTL DEF Spec

-----------------------------------------------------------------------------
\* Receive never writes more than was announced nor reads beyond the last block,
\* and the listener never takes more slots than it has, for any sizes, blocks,
\* buffers and crashes.
THEOREM Typed == Spec => []TypeOK
<1>1. TypedInv => TypeOK
  <2> SUFFICES ASSUME TypedInv PROVE TypeOK
    OBVIOUS
  <2>1. ASSUME NEW t \in Transfers
        PROVE  /\ size[t] \in Sizes \cup {0} /\ written[t] \in 0..size[t]
               /\ consumed[t] \in 0..Aligned(size[t])
    <3>1. /\ size[t] \in Sizes \cup {0} /\ consumed[t] \in Nat
          /\ consumed[t] <= Aligned(size[t]) /\ written[t] = Least(consumed[t], size[t])
      BY DEF TypedInv, BytesInv, BytesOf
    <3>2. size[t] \in Nat
      BY <3>1, SizesNat
    <3>3. Aligned(size[t]) \in Nat
      BY <3>2, AlignedBlocks
    <3>4. QED BY <3>1, <3>2, <3>3 DEF Least
  <2>2. pending \in 0..Slots
    BY FS_CardinalityType DEF TypedInv, SlotInv
  <2>3. machine \in {0, cur} /\ active \in {0, cur}
    BY DEF TypedInv, MainInv
  <2>4. QED BY <2>1, <2>2, <2>3 DEF TypedInv, FilesInv, TypeInv, MainInv, OutInv, TypeOK
<1>2. QED BY <1>1, TypedAlways, PTL

\* readAligned has written exactly the announced size when it has read the last
\* block, whatever the size, the block and the buffer: the comparison of the two
\* in Receive never refuses a file that the peer has sent to its end.
LastBlock == \A t \in Transfers : consumed[t] = Aligned(size[t]) => written[t] = size[t]

THEOREM LastBlockIsWhole == Spec => []LastBlock
<1>1. TypedInv => LastBlock
  <2> SUFFICES ASSUME TypedInv, NEW t \in Transfers, consumed[t] = Aligned(size[t])
               PROVE  written[t] = size[t]
    BY DEF LastBlock
  <2>1. size[t] \in Nat /\ written[t] = Least(consumed[t], size[t])
    BY SizesNat DEF TypedInv, BytesInv, BytesOf
  <2>2. size[t] <= consumed[t] /\ consumed[t] \in Nat
    BY <2>1, AlignedBlocks
  <2>3. QED BY <2>1, <2>2 DEF Least
<1>2. QED BY <1>1, TypedAlways, PTL

\* The slots taken are those of the transfers that were accepted and have not
\* returned (the deferred release in ListenFileChannel), through refusals,
\* failures and crashes; and fileMu, which they wait for, is held by a transfer
\* that has a stage and a step of its own to take, never by one that waits.
SlotsAccounted ==
  /\ pending = Cardinality(InSlot)
  /\ \A m \in Managers : fileMu[m] # None => pc[fileMu[m]] \in Receiving

THEOREM SlotsHeld == Spec => []SlotsAccounted
<1>1. TypedInv => SlotsAccounted
  BY DEF TypedInv, SlotInv, FilesInv, HoldInv, SlotsAccounted
<1>2. QED BY <1>1, TypedAlways, PTL
=============================================================================
