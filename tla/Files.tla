------------------------------- MODULE Files -------------------------------
(***************************************************************************)
(* The file channel.  Inbound: ListenFileChannel and serveFileChannel      *)
(* (internal/network/filelisten.go), main's onFile, HandleFileChannel      *)
(* (internal/clipboard/remote_files_linux.go) and Receive (internal/       *)
(* filetransfer/stream.go).  Outbound: FileSender.Send, which the          *)
(* clipboard manager's Stop waits for.  A clipboard manager lives as long  *)
(* as a control connection; a transfer outlives both.                      *)
(*                                                                         *)
(* Abstracted: every transfer has a stage directory of its own, so the     *)
(* name inside it never collides; a content is the number of its bytes;    *)
(* a directory can always be removed.                                      *)
(*                                                                         *)
(* External: the peers' sockets, the selection (whose owner, a forked      *)
(* xclip, outlives the process), the user, the disk, crashes.              *)
(***************************************************************************)
EXTENDS Naturals, FiniteSets

CONSTANTS
  Transfers, None,
  Slots,           \* maxPendingHandshakes
  Block, Buffer,   \* blockSize, copyBufSize, in bytes
  Sizes,           \* the sizes of announced files
  MaxManagers,     \* bound: clipboard managers, one per control connection
  MaxSends,        \* bound: outbound transfers
  SendBlocks       \* bound: writes of an outbound transfer

ASSUME FilesAssumption ==
  /\ None \notin Transfers /\ Slots \in Nat \ {0}
  /\ Block \in Nat \ {0} /\ Buffer \in Nat \ {0} /\ Buffer % Block = 0
  /\ Sizes \subseteq Nat /\ MaxManagers \in Nat \ {0}
  /\ MaxSends \in Nat /\ SendBlocks \in Nat \ {0}

Managers == 1..MaxManagers
Phases == {"none", "setup", "acked", "waiting", "header", "inline", "body",
           "renamed", "published", "done"}

VARIABLES
  pc,        \* where the goroutine of each transfer is
  mgr,       \* the manager whose HandleFileChannel it called
  size, consumed, written,   \* readAligned
  pending,   \* the slots taken
  fileMu,    \* per manager: who holds its fileMu
  disk,      \* per transfer: what its stage directory holds
  selection, \* external: the staged file the selection names, or None
  latest,    \* history: the staged file published last
  phase,     \* where the main loop is
  cur,       \* the manager of this connection, and its machine ID
  machine, active,           \* activeMachineID, activeClip; 0 for none
  out, left, sends,          \* the outbound transfer, its writes left; a count
  overlapped, \* history: two managers have received at the same time
  crashed     \* history: a crash, and nothing published since

bodyVars == <<size, consumed, written>>
mainVars == <<phase, cur, machine, active>>
outVars  == <<out, left, sends>>
histVars == <<overlapped, crashed>>
vars == <<pc, mgr, bodyVars, pending, fileMu, disk, selection, latest,
          mainVars, outVars, histVars>>

Init == /\ pc = [t \in Transfers |-> "none"]
        /\ mgr = [t \in Transfers |-> 0]
        /\ size = [t \in Transfers |-> 0]
        /\ consumed = [t \in Transfers |-> 0]
        /\ written = [t \in Transfers |-> 0]
        /\ pending = 0
        /\ fileMu = [m \in Managers |-> None]
        /\ disk = [t \in Transfers |-> "none"]
        /\ selection = None /\ latest = None
        /\ phase = "down" /\ cur = 0 /\ machine = 0 /\ active = 0
        /\ out = "none" /\ left = 0 /\ sends = 0
        /\ overlapped = FALSE /\ crashed = FALSE

Goto(t, p) == pc' = [pc EXCEPT ![t] = p]

-----------------------------------------------------------------------------
\* ListenFileChannel and serveFileChannel.

\* Which of the transfers to come is the next to be accepted is immaterial.
Comes == CHOOSE t \in {u \in Transfers : pc[u] = "none"} : TRUE

\* A connection beyond the limit is closed at once.
Accept(t) ==
  /\ pc[t] = "none" /\ t = Comes
  /\ \/ pending < Slots /\ Goto(t, "setup") /\ pending' = pending + 1
     \/ pending = Slots /\ Goto(t, "done") /\ UNCHANGED pending
  /\ UNCHANGED <<mgr, bodyVars, fileMu, disk, selection, latest, mainVars,
                 outVars, histVars>>

\* Mutant: a transfer that was not acknowledged keeps its slot.
LeavesInSlot(t) == /\ Goto(t, "done") /\ mgr' = [mgr EXCEPT ![t] = 0]
                   /\ UNCHANGED pending
\* The goroutine returns, its slot comes back.
Leaves(t) == /\ Goto(t, "done") /\ mgr' = [mgr EXCEPT ![t] = 0]
             /\ pending' = pending - 1

\* The stream setup or the header fails, or ten seconds have passed; else the
\* header is answered in the name of the control connection, if there is one.
Acknowledge(t) ==
  /\ pc[t] = "setup"
  /\ \/ Leaves(t)
     \/ machine # 0 /\ Goto(t, "acked") /\ UNCHANGED <<mgr, pending>>
  /\ UNCHANGED <<bodyVars, fileMu, disk, selection, latest, mainVars,
                 outVars, histVars>>

\* onFile: a pull is refused, and a push without a manager.
OnFile(t) ==
  /\ pc[t] = "acked"
  /\ \/ Leaves(t)
     \/ /\ active # 0 /\ mgr' = [mgr EXCEPT ![t] = active]
        /\ Goto(t, "waiting") /\ UNCHANGED pending
  /\ UNCHANGED <<bodyVars, fileMu, disk, selection, latest, mainVars, outVars,
                 histVars>>

-----------------------------------------------------------------------------
\* HandleFileChannel and Receive.

Busy(m) == fileMu[m] # None

\* fileMu, and a new stage directory.
Lock(t) ==
  /\ pc[t] = "waiting" /\ ~Busy(mgr[t])
  /\ fileMu' = [fileMu EXCEPT ![mgr[t]] = t]
  /\ disk' = [disk EXCEPT ![t] = "empty"]
  /\ overlapped' = (overlapped \/ \E m \in Managers \ {mgr[t]} : Busy(m))
  /\ Goto(t, "header")
  /\ UNCHANGED <<mgr, bodyVars, pending, selection, latest, mainVars, outVars,
                 crashed>>

\* The deferred calls: fileMu is released and the slot given back.
Returns(t) == /\ fileMu' = [fileMu EXCEPT ![mgr[t]] = None]
              /\ Leaves(t)

\* The stage directory of a transfer that failed is removed.
Discard(t) == /\ Returns(t)
              /\ disk' = [disk EXCEPT ![t] = "none"]
              /\ size' = [size EXCEPT ![t] = 0]
              /\ consumed' = [consumed EXCEPT ![t] = 0]
              /\ written' = [written EXCEPT ![t] = 0]

\* Anything can fail until the selection is set: the header, a refusal, the
\* free space, the peer's bytes, a write, the rename, xclip.
Fails(t) ==
  /\ pc[t] \in {"header", "inline", "body", "renamed"}
  /\ Discard(t)
  /\ UNCHANGED <<selection, latest, mainVars, outVars, histVars>>

\* The header names a text or an image, or a file for which there is room.
Header(t) ==
  /\ pc[t] = "header"
  /\ \/ Goto(t, "inline") /\ UNCHANGED <<bodyVars, disk>>
     \/ \E n \in Sizes :
          /\ size' = [size EXCEPT ![t] = n]
          /\ consumed' = [consumed EXCEPT ![t] = 0]
          /\ written' = [written EXCEPT ![t] = 0]
          /\ disk' = [disk EXCEPT ![t] = "part"]
          /\ Goto(t, "body")
  /\ UNCHANGED <<mgr, pending, fileMu, selection, latest, mainVars, outVars,
                 histVars>>

\* The content goes to HandleFileChannelPayload (module Clipboard).
Inline(t) == /\ pc[t] = "inline" /\ Discard(t)
             /\ UNCHANGED <<selection, latest, mainVars,
                            outVars, histVars>>

Least(a, b) == IF a < b THEN a ELSE b
\* alignedLen.
Aligned(n) == ((n + Block - 1) \div Block) * Block

\* Mutant: the padding is written, too.
KeepAll(n, done, want) == want
\* The bytes of a read that lie within the announced size.
Keep(n, done, want) == Least(want, n - done)

\* One round of readAligned: whole blocks are read, padding is not written.
Chunk(t) ==
  LET want == Least(Aligned(size[t]) - consumed[t], Buffer)
      keep == Keep(size[t], consumed[t], want)
  IN /\ pc[t] = "body" /\ want > 0
     /\ consumed' = [consumed EXCEPT ![t] = @ + want]
     /\ written' = [written EXCEPT ![t] = @ + keep]
     /\ UNCHANGED <<pc, mgr, size, pending, fileMu, disk, selection, latest,
                    mainVars, outVars, histVars>>

\* Mutant: the rename does not wait for the last block.
WholeButBlock(t) == consumed[t] + Block >= Aligned(size[t])
\* The loop of readAligned is over, and the size is the announced one.
Whole(t) == consumed[t] = Aligned(size[t]) /\ written[t] = size[t]

Rename(t) ==
  /\ pc[t] = "body" /\ Whole(t)
  /\ disk' = [disk EXCEPT ![t] = "file"]
  /\ Goto(t, "renamed")
  /\ UNCHANGED <<mgr, bodyVars, pending, fileMu, selection, latest, mainVars,
                 outVars, histVars>>

\* setFileClipboard.
Publish(t) ==
  /\ pc[t] = "renamed"
  /\ selection' = t /\ latest' = t
  /\ Goto(t, "published")
  /\ UNCHANGED <<mgr, bodyVars, pending, fileMu, disk, mainVars, outVars,
                 histVars>>

\* Mutant: the others are not removed.
KeepsOthers(t) == disk
\* removeOtherStages.
RemoveOthers(t) == [u \in Transfers |-> IF u = t THEN disk[u] ELSE "none"]

CleanUp(t) ==
  /\ pc[t] = "published"
  /\ disk' = RemoveOthers(t) /\ crashed' = FALSE
  /\ Returns(t)
  /\ UNCHANGED <<bodyVars, selection, latest, mainVars, outVars,
                 overlapped>>

-----------------------------------------------------------------------------
\* FileSender.Send, started by the poll and tracked by the manager's WaitGroup.

SendStarts == /\ phase \in {"up", "stopping"} /\ out = "none"
              /\ sends < MaxSends /\ sends' = sends + 1
              /\ out' = "dial" /\ left' = SendBlocks
              /\ UNCHANGED <<pc, mgr, bodyVars, pending, fileMu, disk,
                             selection, latest, mainVars, histVars>>

\* DialFile answers within its timeout.
Dialled == /\ out = "dial"
           /\ out' \in {"body", "none"}
           /\ UNCHANGED <<pc, mgr, bodyVars, pending, fileMu, disk, selection,
                          latest, mainVars, left, sends, histVars>>

\* The peer reads what was written.
Written == /\ out = "body" /\ left' = left - 1
           /\ out' = IF left = 1 THEN "none" ELSE "body"
           /\ UNCHANGED <<pc, mgr, bodyVars, pending, fileMu, disk, selection,
                          latest, mainVars, sends, histVars>>

\* Mutant: a write has no deadline.
NoDeadline == FALSE
\* idleWriter: a write that is not finished in sixty seconds fails.
IdleTimeout == out = "body"

WriteStalls == /\ IdleTimeout /\ out' = "none"
               /\ UNCHANGED <<pc, mgr, bodyVars, pending, fileMu, disk,
                              selection, latest, mainVars, left, sends,
                              histVars>>

-----------------------------------------------------------------------------
\* The main loop and the process.

\* A control connection: its machine ID is stored before its manager.
Connect == \/ /\ phase = "down" /\ cur < MaxManagers
              /\ phase' = "starting" /\ cur' = cur + 1 /\ machine' = cur + 1
              /\ UNCHANGED active
           \/ /\ phase = "starting"
              /\ phase' = "up" /\ active' = cur /\ UNCHANGED <<cur, machine>>

\* activeClip is taken back before Stop, activeMachineID after it.
Disconnect == \/ /\ phase = "up" /\ phase' = "stopping" /\ active' = 0
                 /\ UNCHANGED <<cur, machine>>
              \/ /\ phase = "stopping" /\ out = "none"
                 /\ phase' = "down" /\ machine' = 0 /\ UNCHANGED <<cur, active>>

MainLoop == /\ Connect \/ Disconnect
            /\ UNCHANGED <<pc, mgr, bodyVars, pending, fileMu, disk, selection,
                           latest, outVars, histVars>>

\* The process dies and is started again: stages and selection are as it left
\* them, every transfer is over.
Crash ==
  /\ cur < MaxManagers /\ \E t \in Transfers : pc[t] \notin {"none", "done"}
  /\ pc' = [t \in Transfers |-> IF pc[t] = "none" THEN "none" ELSE "done"]
  /\ mgr' = [t \in Transfers |-> 0]
  /\ pending' = 0 /\ fileMu' = [m \in Managers |-> None]
  /\ phase' = "down" /\ machine' = 0 /\ active' = 0
  /\ out' = "none" /\ left' = 0 /\ crashed' = TRUE
  /\ UNCHANGED <<bodyVars, disk, selection, latest, cur, sends, overlapped>>

\* The user copies something else.
Copy == /\ selection # None /\ selection' = None
        /\ UNCHANGED <<pc, mgr, bodyVars, pending, fileMu, disk, latest,
                       mainVars, outVars, histVars>>

Own(t)  == Rename(t) \/ Publish(t) \/ CleanUp(t) \/ OnFile(t)
Peer(t) == Acknowledge(t) \/ Header(t) \/ Inline(t) \/ Chunk(t) \/ Fails(t)

Next == \/ \E t \in Transfers : Accept(t) \/ Lock(t) \/ Own(t) \/ Peer(t)
        \/ SendStarts \/ Dialled \/ Written \/ WriteStalls
        \/ MainLoop \/ Crash \/ Copy

\* Some goroutine runs as long as one can; a mutex is handed on; a peer with
\* open transfers sends the next bytes of one or closes it.  Nothing makes the
\* peer read what we send.
Fairness ==
  /\ WF_vars(\E t \in Transfers : Own(t))
  /\ WF_vars(\E t \in Transfers : Peer(t))
  /\ SF_vars(\E t \in Transfers : Lock(t))
  /\ WF_vars(Dialled) /\ WF_vars(WriteStalls)
  /\ WF_vars(MainLoop /\ phase = "stopping")

Spec == Init /\ [][Next]_vars /\ Fairness

-----------------------------------------------------------------------------
\* Each variable has its type; no more is written than was announced, no more
\* is read than its blocks, and no more slots are taken than there are.
TypeOK ==
  /\ pc \in [Transfers -> Phases]
  /\ mgr \in [Transfers -> 0..MaxManagers]
  /\ \A t \in Transfers : /\ size[t] \in Sizes \cup {0}
                          /\ written[t] \in 0..size[t]
                          /\ consumed[t] \in 0..Aligned(size[t])
  /\ pending \in 0..Slots
  /\ fileMu \in [Managers -> Transfers \cup {None}]
  /\ disk \in [Transfers -> {"none", "empty", "part", "file"}]
  /\ selection \in Transfers \cup {None} /\ latest \in Transfers \cup {None}
  /\ phase \in {"down", "starting", "up", "stopping"}
  /\ cur \in 0..MaxManagers /\ machine \in {0, cur} /\ active \in {0, cur}
  /\ out \in {"none", "dial", "body"} /\ left \in 0..SendBlocks
  /\ sends \in 0..MaxSends /\ overlapped \in BOOLEAN /\ crashed \in BOOLEAN

\* A staged file that the selection names is there, complete, byte for byte as
\* long as announced, whatever failed, was cut short or crashed since: a paste
\* finds it.  Not when the managers of two connections receive at the same
\* time: each holds its own fileMu, and one removes the stage of the other.
Backed == (~overlapped /\ selection # None)
            => /\ disk[selection] = "file"
               /\ written[selection] = size[selection]

\* With no transfer under way nothing is left on the disk but the file
\* published last; what a crash left is removed by the next publication.
StagesCleaned ==
  ((\A t \in Transfers : pc[t] \in {"none", "setup", "acked", "waiting", "done"})
     /\ ~overlapped /\ ~crashed)
    => {t \in Transfers : disk[t] # "none"} \subseteq {latest}

\* Every slot of the listener comes back: a transfer that was accepted ends, in
\* whatever order others hold fileMu, the connection is lost or transfers fail.
SlotsComeBack == \A n \in 1..Slots : pending = n ~> pending < n

\* Stop returns although the peer has stopped reading a file we send, so the
\* reconnect loop goes on.
StopReturns == phase = "stopping" ~> phase # "stopping"
=============================================================================
