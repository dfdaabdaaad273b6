---------------------------- MODULE UpdateProofs ----------------------------
(***************************************************************************)
(* Proofs about module Update, for any number of processes, releases, runs *)
(* and backup names.  The argument is about inodes: a process writes only  *)
(* one that no other process writes and that is not the binary, and the    *)
(* one it renames has been written, synced and made executable before.     *)
(***************************************************************************)
EXTENDS Update, SequenceTheorems, TLAPS

Inode == [version : Versions, data : {"empty", "part", "whole"}, synced : BOOLEAN,
          mode : {"private", "exec"}]
Filling == {"write", "sync", "chmod", "rename"}
Labels  == Filling \cup {"ended", "download", "backup", "create"}

TypeInv ==
  /\ inodes \in Seq(Inode) /\ dest \in 1..Len(inodes)
  /\ backup \in [Names -> Nat] /\ tmp \in [Processes -> Nat]
  /\ pc \in [Processes -> Labels]
  /\ current \in [Processes -> Versions] /\ rel \in [Processes -> Versions]
  /\ attempt \in [Processes -> 1..Attempts] /\ saved \in [Processes -> Nat]
  /\ latest \in Versions /\ replaced \subseteq Nat \ {0}

\* What has been done to the temporary file of a process.
DoneBy(p) ==
  LET i == inodes[tmp[p]] IN
  /\ pc[p] \in {"sync", "chmod", "rename"} => i.data = "whole"
  /\ pc[p] \in {"chmod", "rename"} => i.synced
  /\ pc[p] = "rename" => i.mode = "exec"

\* Temporary files are inodes of their own.
TmpInv ==
  /\ \A p \in Processes : pc[p] \in Filling =>
       tmp[p] \in 1..Len(inodes) /\ tmp[p] # dest /\ DoneBy(p)
  /\ \A p, q \in Processes :
       p # q /\ pc[p] \in Filling /\ pc[q] \in Filling => tmp[p] # tmp[q]

\* A backup that a process relies on is there.
Kept(i) == \E n \in Names : backup[n] = i
SavedInv == \A p \in Processes : saved[p] # 0 => Kept(saved[p])

UpdateInv == TypeInv /\ TmpInv /\ DestWhole /\ SavedInv /\ RollbackKept

USE UpdateAssumption DEF UpdateAssumption

LEMMA InodeSeq ==
  ASSUME NEW s \in Seq(Inode)
  PROVE  DOMAIN s = 1..Len(s) /\ Len(s) \in Nat /\ \A i \in 1..Len(s) : s[i] \in Inode
BY LenProperties, ElementOfSeq

LEMMA UpdateInit == Init => UpdateInv
<1> SUFFICES ASSUME Init PROVE UpdateInv
  OBVIOUS
<1>1. PICK v \in Versions : inodes = <<Binary(v)>> /\ latest \in v..MaxVersion
  BY DEF Init
<1>2. Binary(v) \in Inode
  BY DEF Binary, Inode
<1>3. inodes \in Seq(Inode) /\ Len(inodes) = 1 /\ inodes[1] = Binary(v)
  BY <1>1, <1>2
<1>4. latest \in Versions /\ 0 \in Versions /\ 1 \in 1..Attempts
  BY <1>1 DEF Versions
<1>5. TypeInv
  BY <1>3, <1>4 DEF Init, TypeInv, Labels
<1>6. TmpInv /\ SavedInv /\ RollbackKept
  BY DEF Init, TmpInv, SavedInv, RollbackKept, Filling
<1>7. DestWhole
  BY <1>3 DEF Init, DestWhole, Binary
<1>8. QED BY <1>5, <1>6, <1>7 DEF UpdateInv

-----------------------------------------------------------------------------
\* Steps that leave every inode where it is.

\* A process gives up, is killed, or goes on without touching the directory.
Quiet(p, l) ==
  /\ pc' = [pc EXCEPT ![p] = l]
  /\ tmp' = tmp \/ tmp' = [tmp EXCEPT ![p] = 0]
  /\ UNCHANGED <<inodes, dest, backup, replaced>>

\* Inodes, names and other processes are as before.
LEMMA QuietInv ==
  ASSUME UpdateInv, NEW p \in Processes, NEW l \in Labels \ Filling, Quiet(p, l)
  PROVE  TmpInv' /\ DestWhole' /\ RollbackKept' /\ pc' \in [Processes -> Labels]
         /\ tmp' \in [Processes -> Nat]
<1>1. /\ pc' \in [Processes -> Labels] /\ tmp' \in [Processes -> Nat]
      /\ pc'[p] \notin Filling
      /\ \A q \in Processes \ {p} : pc'[q] = pc[q] /\ tmp'[q] = tmp[q]
  <2>1. pc \in [Processes -> Labels] /\ tmp \in [Processes -> Nat] /\ l \in Labels
    BY DEF UpdateInv, TypeInv
  <2>2. /\ pc' \in [Processes -> Labels] /\ pc'[p] = l
        /\ \A q \in Processes \ {p} : pc'[q] = pc[q]
    BY <2>1 DEF Quiet
  <2>3. tmp' \in [Processes -> Nat] /\ \A q \in Processes \ {p} : tmp'[q] = tmp[q]
    BY <2>1 DEF Quiet
  <2>4. QED BY <2>2, <2>3
<1>2. UNCHANGED <<inodes, dest, backup, replaced>>
  BY DEF Quiet
<1>3. TmpInv'
  BY <1>1, <1>2 DEF UpdateInv, TmpInv, DoneBy
<1>4. DestWhole' /\ RollbackKept'
  BY <1>2 DEF UpdateInv, DestWhole, RollbackKept
<1>5. QED BY <1>1, <1>3, <1>4

LEMMA BeginInv == ASSUME UpdateInv, NEW p \in Processes, Begin(p) PROVE UpdateInv'
<1>1. /\ Quiet(p, "download") /\ UNCHANGED <<inodes, dest, backup, tmp, latest, replaced>>
      /\ current' = [current EXCEPT ![p] = inodes[dest].version]
      /\ rel' = [rel EXCEPT ![p] = latest]
      /\ attempt' = [attempt EXCEPT ![p] = 1]
      /\ saved' = [saved EXCEPT ![p] = 0]
  BY DEF Begin, Quiet, Goto, files
<1>2. inodes[dest].version \in Versions
  BY InodeSeq DEF UpdateInv, TypeInv, Inode
<1>3. "download" \in Labels \ Filling
  BY DEF Labels, Filling
<1>4. /\ TmpInv' /\ DestWhole' /\ RollbackKept' /\ pc' \in [Processes -> Labels]
      /\ tmp' \in [Processes -> Nat]
  BY <1>1, <1>3, QuietInv
<1>5. TypeInv'
  <2>1. /\ current' \in [Processes -> Versions] /\ rel' \in [Processes -> Versions]
        /\ saved' \in [Processes -> Nat]
    BY <1>1, <1>2 DEF UpdateInv, TypeInv
  <2>2. attempt' \in [Processes -> 1..Attempts]
    BY <1>1 DEF UpdateInv, TypeInv
  <2>3. QED BY <1>1, <1>4, <2>1, <2>2 DEF UpdateInv, TypeInv
<1>6. SavedInv'
  BY <1>1 DEF UpdateInv, TypeInv, SavedInv, Kept
<1>7. QED BY <1>4, <1>5, <1>6 DEF UpdateInv

LEMMA EndsInv ==
  ASSUME UpdateInv, NEW p \in Processes, Download(p) \/ Fails(p) \/ Killed(p)
  PROVE  UpdateInv'
<1>1. PICK l \in {"backup", "ended"} : Quiet(p, l)
  BY DEF Download, Fails, Killed, Quiet, Goto, files
<1>2. UNCHANGED <<inodes, dest, backup, current, rel, attempt, saved, latest, replaced>>
  BY DEF Download, Fails, Killed, files, local
<1>3. l \in Labels \ Filling
  BY DEF Labels, Filling
<1>4. /\ TmpInv' /\ DestWhole' /\ RollbackKept' /\ pc' \in [Processes -> Labels]
      /\ tmp' \in [Processes -> Nat]
  BY <1>1, <1>3, QuietInv
<1>5. TypeInv' /\ SavedInv'
  BY <1>2, <1>4 DEF UpdateInv, TypeInv, SavedInv, Kept
<1>6. QED BY <1>4, <1>5 DEF UpdateInv

\* A free name is taken, so no backup is lost.
LEMMA LinkInv == ASSUME UpdateInv, NEW p \in Processes, Link(p) PROVE UpdateInv'
<1> DEFINE n == <<current[p], attempt[p]>>
<1>1. n \in Names /\ backup \in [Names -> Nat] /\ dest \in Nat \ {0}
  BY InodeSeq DEF UpdateInv, TypeInv, Names
<1>2. /\ pc[p] = "backup"
      /\ UNCHANGED <<inodes, dest, tmp, current, rel, latest, replaced>>
  BY DEF Link
<1>3. \/ /\ backup[n] = 0 /\ backup' = [backup EXCEPT ![n] = dest]
         /\ saved' = [saved EXCEPT ![p] = dest]
         /\ pc' = [pc EXCEPT ![p] = "create"] /\ attempt' = attempt
      \/ /\ attempt[p] < Attempts /\ attempt' = [attempt EXCEPT ![p] = @ + 1]
         /\ UNCHANGED <<backup, saved, pc>>
      \/ pc' = [pc EXCEPT ![p] = "ended"] /\ UNCHANGED <<backup, saved, attempt>>
  BY DEF Link, Free, Goto
<1>4. TypeInv'
  <2>1. backup' \in [Names -> Nat] /\ saved' \in [Processes -> Nat]
    BY <1>1, <1>3 DEF UpdateInv, TypeInv
  <2>2. pc' \in [Processes -> Labels]
    BY <1>3 DEF UpdateInv, TypeInv, Labels
  <2>3. attempt' \in [Processes -> 1..Attempts]
    <3>1. attempt \in [Processes -> 1..Attempts]
      BY DEF UpdateInv, TypeInv
    <3>2. attempt[p] < Attempts => attempt[p] + 1 \in 1..Attempts
      BY <3>1
    <3>3. QED BY <1>3, <3>1, <3>2
  <2>4. QED BY <1>2, <2>1, <2>2, <2>3 DEF UpdateInv, TypeInv
<1>5. TmpInv' /\ DestWhole'
  <2>1. \A q \in Processes : pc'[q] \in Filling => pc'[q] = pc[q]
    BY <1>3 DEF UpdateInv, TypeInv, Filling
  <2>2. QED BY <1>2, <2>1 DEF UpdateInv, TmpInv, DoneBy, DestWhole
<1>6. \A m \in Names : backup[m] # 0 => backup'[m] = backup[m]
  BY <1>1, <1>3
<1>7. SavedInv'
  <2>1. ASSUME NEW q \in Processes, saved'[q] # 0 PROVE \E m \in Names : backup'[m] = saved'[q]
    <3>1. CASE saved'[q] = saved[q]
      <4>1. PICK m \in Names : backup[m] = saved[q]
        BY <2>1, <3>1 DEF UpdateInv, SavedInv, Kept
      <4>2. QED BY <1>6, <2>1, <3>1, <4>1
    <3>2. CASE saved'[q] # saved[q]
      <4>1. saved' = [saved EXCEPT ![p] = dest] /\ backup' = [backup EXCEPT ![n] = dest]
        BY <1>3, <3>2
      <4>2. saved'[q] = dest
        BY <3>2, <4>1 DEF UpdateInv, TypeInv
      <4>3. backup'[n] = dest
        BY <1>1, <4>1
      <4>4. QED BY <1>1, <4>2, <4>3
    <3>3. QED BY <3>1, <3>2
  <2>2. QED BY <2>1 DEF SavedInv, Kept
<1>8. RollbackKept'
  <2>1. ASSUME NEW i \in replaced PROVE \E m \in Names : backup'[m] = i
    <3>1. PICK m \in Names : backup[m] = i
      BY DEF UpdateInv, RollbackKept
    <3>2. i # 0
      BY DEF UpdateInv, TypeInv
    <3>3. QED BY <1>6, <3>1, <3>2
  <2>2. QED BY <1>2, <2>1 DEF RollbackKept
<1>9. QED BY <1>4, <1>5, <1>7, <1>8 DEF UpdateInv

-----------------------------------------------------------------------------
\* Steps that change inodes or what the names stand for.

\* The temporary file is an inode of its own, with nothing in it.
LEMMA CreateInv == ASSUME UpdateInv, NEW p \in Processes, Create(p) PROVE UpdateInv'
<1> DEFINE new == [version |-> rel[p], data |-> "empty", synced |-> FALSE, mode |-> "private"]
<1>1. /\ pc[p] = "create" /\ inodes' = Append(inodes, new)
      /\ tmp' = [tmp EXCEPT ![p] = Len(inodes) + 1]
      /\ pc' = [pc EXCEPT ![p] = "write"]
      /\ UNCHANGED <<dest, backup, current, rel, attempt, saved, latest, replaced>>
  BY DEF Create, Goto, local
<1>2. new \in Inode
  BY DEF UpdateInv, TypeInv, Inode
<1>3. /\ inodes' \in Seq(Inode) /\ Len(inodes) \in Nat /\ Len(inodes') = Len(inodes) + 1
      /\ \A i \in 1..Len(inodes) : inodes'[i] = inodes[i]
  BY <1>1, <1>2, AppendProperties, InodeSeq DEF UpdateInv, TypeInv
<1>4. /\ tmp' \in [Processes -> Nat] /\ tmp'[p] = Len(inodes) + 1 /\ pc'[p] = "write"
      /\ pc' \in [Processes -> Labels]
      /\ \A q \in Processes \ {p} : tmp'[q] = tmp[q] /\ pc'[q] = pc[q]
  BY <1>1, <1>3 DEF UpdateInv, TypeInv, Labels, Filling
<1>5. dest \in 1..Len(inodes)
  BY DEF UpdateInv, TypeInv
<1>6. TypeInv'
  BY <1>1, <1>3, <1>4, <1>5 DEF UpdateInv, TypeInv
<1>7. TmpInv'
  <2>1. \A q \in Processes \ {p} : pc[q] \in Filling => tmp[q] \in 1..Len(inodes)
    BY DEF UpdateInv, TmpInv
  <2>2. QED BY <1>1, <1>3, <1>4, <1>5, <2>1 DEF UpdateInv, TmpInv, DoneBy
<1>8. DestWhole' /\ SavedInv' /\ RollbackKept'
  BY <1>1, <1>3, <1>5 DEF UpdateInv, DestWhole, SavedInv, Kept, RollbackKept
<1>9. QED BY <1>6, <1>7, <1>8 DEF UpdateInv

\* A step of replaceBinary changes one inode, which is nobody else's.
LEMMA FillInv ==
  ASSUME UpdateInv, NEW p \in Processes, Write(p) \/ Sync(p) \/ Chmod(p)
  PROVE  UpdateInv'
<1> DEFINE t == tmp[p]
<1>1. /\ pc[p] \in Filling /\ t \in 1..Len(inodes) /\ t # dest /\ DoneBy(p)
      /\ inodes \in Seq(Inode) /\ Len(inodes) \in Nat /\ inodes[t] \in Inode
      /\ dest \in 1..Len(inodes)
  BY InodeSeq DEF Write, Sync, Chmod, Filling, UpdateInv, TmpInv, TypeInv
<1>2. UNCHANGED <<dest, backup, tmp, current, rel, attempt, saved, latest, replaced>>
  BY DEF Write, Sync, Chmod, local
<1>3. PICK i \in Inode, l \in Filling :
        /\ inodes' = [inodes EXCEPT ![t] = i] /\ pc' = [pc EXCEPT ![p] = l]
        /\ l \in {"sync", "chmod", "rename"} => i.data = "whole"
        /\ l \in {"chmod", "rename"} => i.synced
        /\ l = "rename" => i.mode = "exec"
  <2>1. CASE Write(p) /\ inodes[t].data = "empty"
    <3>1. [inodes[t] EXCEPT !.data = "part"] \in Inode
      BY <1>1 DEF Inode
    <3>2. pc = [pc EXCEPT ![p] = "write"]
      BY <2>1 DEF Write, UpdateInv, TypeInv
    <3>3. QED BY <2>1, <3>1, <3>2 DEF Write, Filling
  <2>2. CASE Write(p) /\ inodes[t].data = "part"
    <3>1. /\ [inodes[t] EXCEPT !.data = "whole"] \in Inode
          /\ [inodes[t] EXCEPT !.data = "whole"].data = "whole"
      BY <1>1 DEF Inode
    <3>2. QED BY <2>2, <3>1 DEF Write, Goto, Filling
  <2>3. CASE Sync(p)
    <3>1. /\ [inodes[t] EXCEPT !.synced = TRUE] \in Inode
          /\ [inodes[t] EXCEPT !.synced = TRUE].synced
          /\ [inodes[t] EXCEPT !.synced = TRUE].data = "whole"
      BY <1>1, <2>3 DEF Inode, Sync, DoneBy
    <3>2. QED BY <2>3, <3>1 DEF Sync, Synced, Goto, Filling
  <2>4. CASE Chmod(p)
    <3>1. /\ [inodes[t] EXCEPT !.mode = "exec"] \in Inode
          /\ [inodes[t] EXCEPT !.mode = "exec"].mode = "exec"
          /\ [inodes[t] EXCEPT !.mode = "exec"].synced
          /\ [inodes[t] EXCEPT !.mode = "exec"].data = "whole"
      BY <1>1, <2>4 DEF Inode, Chmod, DoneBy
    <3>2. QED BY <2>4, <3>1 DEF Chmod, Goto, Filling
  <2>5. QED BY <2>1, <2>2, <2>3, <2>4 DEF Write
<1>4. /\ inodes' \in Seq(Inode) /\ Len(inodes') = Len(inodes) /\ inodes'[t] = i
      /\ \A j \in 1..Len(inodes) \ {t} : inodes'[j] = inodes[j]
  BY <1>1, <1>3, ExceptSeq
<1>5. /\ pc' \in [Processes -> Labels] /\ pc'[p] = l
      /\ \A q \in Processes \ {p} : pc'[q] = pc[q]
  BY <1>3 DEF UpdateInv, TypeInv, Labels
<1>6. TypeInv'
  BY <1>2, <1>4, <1>5 DEF UpdateInv, TypeInv
<1>7. TmpInv'
  <2>1. DoneBy(p)' /\ tmp'[p] \in 1..Len(inodes') /\ tmp'[p] # dest'
    BY <1>1, <1>2, <1>3, <1>4, <1>5 DEF DoneBy
  <2>2. ASSUME NEW q \in Processes \ {p}, pc'[q] \in Filling
        PROVE  DoneBy(q)' /\ tmp'[q] \in 1..Len(inodes') /\ tmp'[q] # dest'
    <3>1. pc[q] \in Filling /\ tmp[q] \in 1..Len(inodes) /\ tmp[q] # dest /\ DoneBy(q)
          /\ tmp[q] # t
      BY <1>1, <1>5, <2>2 DEF UpdateInv, TmpInv
    <3>2. QED BY <1>2, <1>4, <1>5, <3>1 DEF DoneBy
  <2>3. \A q, r \in Processes :
          q # r /\ pc'[q] \in Filling /\ pc'[r] \in Filling => tmp'[q] # tmp'[r]
    BY <1>1, <1>2, <1>5 DEF UpdateInv, TmpInv
  <2>4. QED BY <2>1, <2>2, <2>3 DEF TmpInv
<1>8. DestWhole' /\ SavedInv' /\ RollbackKept'
  BY <1>1, <1>2, <1>4 DEF UpdateInv, DestWhole, SavedInv, Kept, RollbackKept
<1>9. QED BY <1>6, <1>7, <1>8 DEF UpdateInv

LEMMA RenameInv == ASSUME UpdateInv, NEW p \in Processes, Rename(p) PROVE UpdateInv'
<1>1. /\ pc[p] = "rename" /\ dest' = tmp[p] /\ tmp' = [tmp EXCEPT ![p] = 0]
      /\ pc' = [pc EXCEPT ![p] = "ended"]
      /\ replaced' = IF saved[p] = dest THEN replaced \cup {dest} ELSE replaced
      /\ UNCHANGED <<inodes, backup, current, rel, attempt, saved, latest>>
  BY DEF Rename, Goto, local
<1>2. /\ tmp[p] \in 1..Len(inodes) /\ DoneBy(p)
      /\ \A q \in Processes \ {p} : pc[q] \in Filling => tmp[q] # tmp[p]
  BY <1>1 DEF UpdateInv, TmpInv, Filling
<1>3. /\ pc' \in [Processes -> Labels] /\ tmp' \in [Processes -> Nat]
      /\ pc'[p] \notin Filling
      /\ \A q \in Processes \ {p} : pc'[q] = pc[q] /\ tmp'[q] = tmp[q]
  BY <1>1 DEF UpdateInv, TypeInv, Labels, Filling
<1>4. dest \in Nat \ {0}
  BY InodeSeq DEF UpdateInv, TypeInv
<1>5. TypeInv'
  BY <1>1, <1>2, <1>3, <1>4 DEF UpdateInv, TypeInv
<1>6. TmpInv'
  BY <1>1, <1>2, <1>3 DEF UpdateInv, TmpInv, DoneBy
<1>7. DestWhole'
  BY <1>1, <1>2 DEF DoneBy, DestWhole
<1>8. SavedInv'
  BY <1>1 DEF UpdateInv, SavedInv, Kept
<1>9. RollbackKept'
  <2>1. saved[p] = dest => \E n \in Names : backup[n] = dest
    BY <1>4 DEF UpdateInv, SavedInv, Kept
  <2>2. QED BY <1>1, <2>1 DEF UpdateInv, RollbackKept
<1>10. QED BY <1>5, <1>6, <1>7, <1>8, <1>9 DEF UpdateInv

\* The binary has been synced, so it survives.
LEMMA PowerLossInv == ASSUME UpdateInv, PowerLoss PROVE UpdateInv'
<1>1. /\ pc' = [p \in Processes |-> "ended"] /\ tmp' = [p \in Processes |-> 0]
      /\ inodes' = [i \in DOMAIN inodes |->
                      IF inodes[i].synced THEN inodes[i]
                      ELSE [inodes[i] EXCEPT !.data = "empty"]]
      /\ UNCHANGED <<dest, backup, current, rel, attempt, saved, latest, replaced>>
  BY DEF PowerLoss, local
<1>2. /\ DOMAIN inodes = 1..Len(inodes) /\ Len(inodes) \in Nat
      /\ \A i \in 1..Len(inodes) : inodes[i] \in Inode
      /\ dest \in 1..Len(inodes)
  BY InodeSeq DEF UpdateInv, TypeInv
<1>3. inodes' \in Seq(Inode) /\ Len(inodes') = Len(inodes)
  <2>1. \A i \in 1..Len(inodes) :
          (IF inodes[i].synced THEN inodes[i] ELSE [inodes[i] EXCEPT !.data = "empty"]) \in Inode
    BY <1>2 DEF Inode
  <2>2. QED BY <1>1, <1>2, <2>1, IsASeq
<1>4. inodes'[dest] = inodes[dest]
  BY <1>1, <1>2 DEF UpdateInv, DestWhole
<1>5. TypeInv'
  BY <1>1, <1>2, <1>3 DEF UpdateInv, TypeInv, Labels
<1>6. TmpInv'
  BY <1>1 DEF TmpInv, Filling
<1>7. DestWhole'
  BY <1>1, <1>4 DEF UpdateInv, DestWhole
<1>8. SavedInv' /\ RollbackKept'
  BY <1>1 DEF UpdateInv, SavedInv, Kept, RollbackKept
<1>9. QED BY <1>5, <1>6, <1>7, <1>8 DEF UpdateInv

LEMMA UpdateNext == UpdateInv /\ [Next]_vars => UpdateInv'
<1> SUFFICES ASSUME UpdateInv, [Next]_vars PROVE UpdateInv'
  OBVIOUS
<1>1. CASE \E p \in Processes : Step(p) \/ Killed(p)
  BY <1>1, BeginInv, EndsInv, LinkInv, CreateInv, FillInv, RenameInv DEF Step
<1>2. CASE PowerLoss
  BY <1>2, PowerLossInv
<1>3. CASE Published
  <2>1. UNCHANGED <<inodes, dest, backup, tmp, pc, current, rel, attempt, saved, replaced>>
    BY <1>3 DEF Published, files, local
  <2>2. latest' \in Versions
    BY <1>3 DEF Published, UpdateInv, TypeInv, Versions
  <2>3. QED BY <2>1, <2>2 DEF UpdateInv, TypeInv, TmpInv, DoneBy, DestWhole, SavedInv, Kept,
            RollbackKept
<1>4. CASE UNCHANGED vars
  <2>1. UNCHANGED <<inodes, dest, backup, tmp, pc, current, rel, attempt, saved, latest, replaced>>
    BY <1>4 DEF vars, files, local
  <2>2. QED BY <2>1 DEF UpdateInv, TypeInv, TmpInv, DoneBy, DestWhole, SavedInv, Kept,
            RollbackKept
<1>5. QED BY <1>1, <1>2, <1>3, <1>4 DEF Next

-----------------------------------------------------------------------------
\* replaceBinary writes, syncs and makes executable what it then renames, so a
\* kill, a failure or a power loss at any point leaves a whole binary, with any
\* number of updates at the same time.
THEOREM BinaryWhole == Spec => []DestWhole
<1>1. UpdateInv => DestWhole
  BY DEF UpdateInv
<1>2. QED BY <1>1, UpdateInit, UpdateNext, PTL DEF Spec

\* backupBinary links only to names that are free, so a binary that was backed
\* up and replaced can be rolled back to for ever.
THEOREM BackupsKept == Spec => []RollbackKept
<1>1. UpdateInv => RollbackKept
  BY DEF UpdateInv
<1>2. QED BY <1>1, UpdateInit, UpdateNext, PTL DEF Spec
=============================================================================
