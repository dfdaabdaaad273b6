------------------------------- MODULE Update -------------------------------
(***************************************************************************)
(* internal/selfupdate: "mwb update", run by one or more processes, any of *)
(* which may be killed, on a machine that may lose its power.              *)
(*                                                                         *)
(* The directory of the binary is three kinds of names for inodes: the     *)
(* binary itself, its backups, and a temporary file per process.           *)
(*                                                                         *)
(* Abstracted: a version is a number, 0 for a build from source; whatever  *)
(* stops an update before it touches the directory (no permission, a       *)
(* package manager's binary, a missing asset, the network) just ends it.   *)
(*                                                                         *)
(* External: the releases, the network, and the disk, where what was       *)
(* written and not synced may be lost with the power.                      *)
(***************************************************************************)
EXTENDS Naturals, Sequences

CONSTANTS
  Processes,
  MaxVersion,     \* bound: releases
  Attempts,       \* maxBackupAttempts (100)
  MaxRuns         \* bound: how often "mwb update" is run

ASSUME UpdateAssumption ==
  /\ MaxVersion \in Nat /\ Attempts \in Nat \ {0} /\ MaxRuns \in Nat

Versions == 0..MaxVersion
Names == Versions \X (1..Attempts)    \* mwb-<version>.bak, .bak.1, ...

VARIABLES
  inodes,   \* [version, data, synced, mode] of every inode, by its number
  dest,     \* the inode of the binary
  backup,   \* the inode of each backup name, 0 when the name is free
  tmp,      \* the inode of each process's temporary file, or 0
  pc,       \* where each process is
  current,  \* opts.CurrentVersion of each process
  rel,      \* the release it found
  attempt,  \* the backup name it tries next
  saved,    \* the inode it backed up, or 0
  latest,   \* external: the latest release
  replaced, \* history: inodes that were backed up and replaced
  runs      \* count, bounded

files == <<inodes, dest, backup, tmp>>
local == <<current, rel, attempt, saved>>
vars  == <<files, pc, local, latest, replaced, runs>>

Binary(v) == [version |-> v, data |-> "whole", synced |-> TRUE, mode |-> "exec"]

Init == /\ \E v \in Versions : inodes = <<Binary(v)>> /\ latest \in v..MaxVersion
        /\ dest = 1
        /\ backup = [n \in Names |-> 0]
        /\ tmp = [p \in Processes |-> 0]
        /\ pc = [p \in Processes |-> "ended"]
        /\ current = [p \in Processes |-> 0]
        /\ rel = [p \in Processes |-> 0]
        /\ attempt = [p \in Processes |-> 1]
        /\ saved = [p \in Processes |-> 0]
        /\ replaced = {} /\ runs = 0

Goto(p, l) == pc' = [pc EXCEPT ![p] = l]

-----------------------------------------------------------------------------
\* IsNewer: a build from source is older than any release.
IsNewer(v, w) == w > v
\* validateInstallVersion and the comparison that follows it.
Wanted(v, w, force) == force \/ (v # 0 /\ IsNewer(v, w))

\* The user runs the installed binary; the release is looked up.
Begin(p) ==
  /\ pc[p] = "ended" /\ runs < MaxRuns /\ runs' = runs + 1
  /\ current' = [current EXCEPT ![p] = inodes[dest].version]
  /\ rel' = [rel EXCEPT ![p] = latest]
  /\ attempt' = [attempt EXCEPT ![p] = 1]
  /\ saved' = [saved EXCEPT ![p] = 0]
  /\ \E force \in BOOLEAN :
       /\ Wanted(current'[p], latest, force)
       /\ Goto(p, "download")
  /\ UNCHANGED <<files, latest, replaced>>

\* download: what arrives must have the checksum of the release.
Download(p) ==
  /\ pc[p] = "download"
  /\ Goto(p, "backup") \/ Goto(p, "ended")
  /\ UNCHANGED <<files, local, latest, replaced, runs>>

\* Mutant: the backup replaces one of the same name.
MayTake(n) == TRUE
\* os.Link fails when the name exists.
Free(n) == backup[n] = 0

\* backupBinary, one name at a time.
Link(p) ==
  LET n == <<current[p], attempt[p]>>
  IN /\ pc[p] = "backup"
     /\ \/ /\ Free(n)
           /\ backup' = [backup EXCEPT ![n] = dest]
           /\ saved' = [saved EXCEPT ![p] = dest]
           /\ Goto(p, "create") /\ UNCHANGED attempt
        \/ /\ ~Free(n) /\ attempt[p] < Attempts
           /\ attempt' = [attempt EXCEPT ![p] = @ + 1]
           /\ UNCHANGED <<backup, saved, pc>>
        \/ /\ ~Free(n) /\ attempt[p] = Attempts
           /\ Goto(p, "ended") /\ UNCHANGED <<backup, saved, attempt>>
     /\ UNCHANGED <<inodes, dest, tmp, current, rel, latest, replaced, runs>>

\* replaceBinary: CreateTemp, Write, Sync, Chmod, Rename.
Create(p) ==
  /\ pc[p] = "create"
  /\ inodes' = Append(inodes, [version |-> rel[p], data |-> "empty",
                               synced |-> FALSE, mode |-> "private"])
  /\ tmp' = [tmp EXCEPT ![p] = Len(inodes) + 1]
  /\ Goto(p, "write")
  /\ UNCHANGED <<dest, backup, local, latest, replaced, runs>>

Write(p) ==
  /\ pc[p] = "write"
  /\ \/ inodes[tmp[p]].data = "empty"
        /\ inodes' = [inodes EXCEPT ![tmp[p]].data = "part"] /\ UNCHANGED pc
     \/ inodes[tmp[p]].data = "part"
        /\ inodes' = [inodes EXCEPT ![tmp[p]].data = "whole"] /\ Goto(p, "sync")
  /\ UNCHANGED <<dest, backup, tmp, local, latest, replaced, runs>>

\* Mutant: the file is renamed without having been synced.
NotSynced(p) == UNCHANGED inodes
\* tmp.Sync.
Synced(p) == inodes' = [inodes EXCEPT ![tmp[p]].synced = TRUE]

Sync(p) == /\ pc[p] = "sync" /\ Synced(p) /\ Goto(p, "chmod")
           /\ UNCHANGED <<dest, backup, tmp, local, latest, replaced, runs>>

Chmod(p) == /\ pc[p] = "chmod"
            /\ inodes' = [inodes EXCEPT ![tmp[p]].mode = "exec"]
            /\ Goto(p, "rename")
            /\ UNCHANGED <<dest, backup, tmp, local, latest, replaced, runs>>

Rename(p) ==
  /\ pc[p] = "rename"
  /\ dest' = tmp[p] /\ tmp' = [tmp EXCEPT ![p] = 0]
  /\ replaced' = IF saved[p] = dest THEN replaced \cup {dest} ELSE replaced
  /\ Goto(p, "ended")
  /\ UNCHANGED <<inodes, backup, local, latest, runs>>

\* A step fails: the temporary file is removed.
Fails(p) == /\ pc[p] \in {"backup", "create", "write", "sync", "chmod", "rename"}
            /\ tmp' = [tmp EXCEPT ![p] = 0] /\ Goto(p, "ended")
            /\ UNCHANGED <<inodes, dest, backup, local, latest, replaced, runs>>

-----------------------------------------------------------------------------
\* The world outside.

\* A process is killed: its temporary file stays, with no name of interest.
Killed(p) == /\ pc[p] # "ended" /\ Goto(p, "ended")
             /\ tmp' = [tmp EXCEPT ![p] = 0]
             /\ UNCHANGED <<inodes, dest, backup, local, latest, replaced, runs>>

\* Every process is gone, and the bytes that were not synced may be, too.
PowerLoss ==
  /\ \E p \in Processes : pc[p] # "ended"
  /\ pc' = [p \in Processes |-> "ended"] /\ tmp' = [p \in Processes |-> 0]
  /\ inodes' = [i \in DOMAIN inodes |->
                  IF inodes[i].synced THEN inodes[i]
                  ELSE [inodes[i] EXCEPT !.data = "empty"]]
  /\ UNCHANGED <<dest, backup, local, latest, replaced, runs>>

Published == /\ latest < MaxVersion /\ latest' = latest + 1
             /\ UNCHANGED <<files, pc, local, replaced, runs>>

Step(p) == Begin(p) \/ Download(p) \/ Link(p) \/ Create(p) \/ Write(p)
             \/ Sync(p) \/ Chmod(p) \/ Rename(p) \/ Fails(p)
Next == \/ \E p \in Processes : Step(p) \/ Killed(p)
        \/ PowerLoss \/ Published

Spec == Init /\ [][Next]_vars

-----------------------------------------------------------------------------
\* A crash at any point leaves either the old binary or a new one, never a
\* half-written file: whatever was killed, failed or lost with the power, and
\* however many updates run at the same time, the binary is whole, on the disk
\* and executable.
DestWhole == /\ inodes[dest].data = "whole"
             /\ inodes[dest].synced
             /\ inodes[dest].mode = "exec"

\* Every binary that was replaced by the process that had backed it up can
\* still be rolled back to, however often the same version was replaced.  (Of
\* two updates at the same time the second replaces a binary it did not back
\* up: that one is lost.)
RollbackKept == \A i \in replaced : \E n \in Names : backup[n] = i
=============================================================================
