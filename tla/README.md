# mwb in TLA+

mwb lets a Linux machine share keyboard, mouse, clipboard and files with a
Windows machine that runs PowerToys' Mouse Without Borders. This directory
models its Go code in TLA+, checks the models with TLC on small instances, and
proves the main results with TLAPS for every size.

## 1. The system

| Component | State | Operations | Hard behaviours | What makes it correct |
| --- | --- | --- | --- | --- |
| Capture and isolation (`internal/capture`) | who owns the cursor (`active`), the two edge gates (`canSwitch`, `canReturn`), the tracked descriptors and their grabs, `stopped` | `Run`, `addDevice`, `pollCursorEdge`, `monitorDevice`, `applyIsolation`, `SetActive`, `Stop` | one goroutine per device, a poll and the receive loop under two mutexes; hotplug; refused ioctls; `Stop` at any time | the owner of the cursor has its input, nothing leaks while the cursor is away, no bouncing, `Stop` returns and leaves nothing |
| Main loop (`cmd/mwb`) | current connection, handler callbacks, active clipboard manager, machine identity | reconnect, wire, receive, tear down | dialled and accepted connection race; late goroutines of the former connection | one connection at a time; teardown never wipes the successor |
| Dialling and listening (`network/client.go`) | pending handshakes, queue of accepted connections | `ConnectWithRetry`, `ListenAndAccept` | a queued connection grows stale; slots must come back | accepted connections are used or closed |
| Packet stream (`protocol`, `Conn.SendPacket`) | cipher chains, packet identifier, `sendMu` | send, receive | concurrent senders, a write cut by its deadline | the peer decodes what was sent, in order |
| Handshake, file channel (`client.go`, `filelisten.go`, `filesend.go`) | challenge, packets read | `doHandshake`, `finishControlSetup` | peer's packets in any order, limit of 20 | success only after the right acknowledgement |
| Receive loop, heartbeat (`receiver.go`) | – | dispatch, reply, beat | a failed beat ends the goroutine | replies match requests |
| Inbound handler (`handler.go`) | deferred Ctrl | inject mouse and keys, clipboard, activation | order of Ctrl, AltGr and their releases; state kept across connections | every key pressed is released |
| Clipboard (`clipboard_linux.go`) | hash of the last content, echo window, reassembly buffer | poll, send, ask, chunk, end | concurrent sends interleave; limits; echo | no echo; what is set is what was sent |
| File staging (`remote_files_linux.go`) | stage directories, selection owner | stage, publish, clean up | overlapping transfers, two managers on one root | the published file exists |
| File transfer (`internal/filetransfer`) | – (pure) | header, names, alignment | zero, block multiples, short reads | both ends agree on sizes; names are safe |
| Input (`internal/input`), configuration | tables | lookups, uinput writes | – | – |
| Self-update (`internal/selfupdate`) | binary, backup, temporary file | download, verify, back up, replace | crash between steps, backup limit | a runnable binary at every moment |

How they interact: the main loop makes one `Capturer` and one clipboard
`Manager` per connection, and installs callbacks of both in the `Handler` that
`ReceiveLoop` calls for each packet. The capturer and the manager send through
`Conn.SendPacket`, under `sendMu`. A packet `NextMachine` or `MachineSwitched`
that fits the shared edge calls `Capturer.SetActive(true)`. When the connection
ends the loop calls `Capturer.Stop`, then `Manager.Stop`, then closes it.

`PROJECT.json` lists the components with their status and, under `hazards`, the
places of the code that are hard to test, each with the properties that cover it
or the reason why none does.

## 2. What is modelled

| Module | What it is |
| --- | --- |
| `Ownership` | abstract specification: an owner of the cursor, suppressed devices, hand-overs that settle |
| `Capture` | `internal/capture`: one `Capturer` from `Run` to the end of `Stop`, with the calls of the main loop |
| `MCCapture`, `Capture*.cfg` | instances for TLC |
| `CaptureProofs` | proofs: inductive invariant and safety, no circular waiting, `Capture` implements `Ownership` |
| `Steering` | the same component pixel by pixel: positions, landing and return geometry, keys and the hotkey |
| `Link`, `MCLink` | the reconnect loop against the diallers and the listener |
| `Session` | one control connection: setup, concurrent senders, receive loop, heartbeat, teardown |
| `Pipe` | abstract specification: what an encrypted connection promises its reader; `Session` implements it |
| `Inbound` | `handler.go`: what is injected for the Windows machine's keyboard and pointer |
| `Clipboard` | `clipboard_linux.go`: one `Manager` |
| `Files` | the file channel: listener, staging, receiving, publishing, sending |
| `Update` | `mwb update` on a disk |
| `LinkProofs`, `SessionProofs`, `InboundProofs`, `ClipboardProofs`, `FilesProofs`, `UpdateProofs`, `SteeringProofs` | proofs about the module of that name |

The modules meet where the code's components do. `Link` hands a connection to the
loop and treats its setup and session as steps that end; `Session` is that setup
and session, and ends under the assumptions `Link` makes; the goroutines of
`Capture` and `Clipboard` are what `Session` calls senders, and its `InputStops`
is what their `Stop` brings about for those it waits for. `Files` delivers to the
manager of `Clipboard` (`FromChannel` there is `Publish` and `Inline` here) and
follows the two variables of the main loop that decide whether it may. `Steering`
computes the zones that `Capture` takes as given, and decides what `Capture`
leaves open in `RecvReturn`.

### Capture and the code

A goroutine is a member of `Threads`: `Poll` (`pollCursorEdge`), `Main` (the
reconnect loop, with `ReceiveLoop` inside) and one monitor for each descriptor,
named by the descriptor. `pc` says where each is. A section under `c.mu` that
calls nothing is one step, enabled when `mu` is free; where the code keeps `c.mu`
across `SendPacket` (`handleRel`) the model has two steps and `mu` is held between
them. Reads outside the lock, and each gap between two lock regions, are steps
of their own: `handleEvent` looks at ownership, then at the grace period, then
handles the event, and other goroutines run in between.

| State | Code |
| --- | --- |
| `active`, `canSwitch`, `canReturn`, `grace` | the fields `active`, `canSwitch`, `canReturn`; `switchSent` less than 100 ms old |
| `devices`, `grabbed` | the map `devices`, and `trackedDevice.grabbed` |
| `fd`, `at`, `alive`, `kgrab`, `node` | kernel: descriptors, what they are open on, whether that node still exists, exclusive grabs, nodes and their permissions |
| `mu`, `grabMu` | the two mutexes |
| `todo`, `newFile`, `suppress`, `pending`, `cur` | local variables of `addDevice`, `applyIsolation`, `setIsolation` |
| `seenAway`, `wentInside`, `steady`, `refused` | history, read by properties only |

| Actions | Code |
| --- | --- |
| `RunStart`, `RunFails` | `Run` |
| `SkipDevice`, `OpenDevice`, `InsertDevice`, `AllAdded` | `addDevice`, called by `Run` and by `refreshDevices` |
| `LockIsolation`, `UnlockIsolation` | `applyIsolation` |
| `ListDevices`, `ScanFails`, `PruneDevices` | `refreshDevices` |
| `PickPending`, `Ioctl`, `IoctlFails`, `NoteGrab` | `setIsolation`, `setGrab` |
| `PollTick`, `PollArm`, `SwitchOut`, `PollExits` | `pollCursorEdge` |
| `EnterRead`, `ReadEvent`, `NextOfBatch`, `MonitorExits` | `monitorDevice` |
| `CheckGrace`, `MoveRemote`, `Wheel`, `Sent`, `SwitchBack`, `ForwardKey`, `ReturnEvent` | `handleEvent`, `handleRel`, `handleKey` |
| `RecvReturn`, `RecvActivate`, `ConnectionLost` | the callbacks of `main.go`, the end of `ReceiveLoop` |
| `CloseStopCh`, `StopDevices`, `WaitGroup` | `Stop` |
| `Plug`, `UdevReady`, `Unplug`, `GraceEnds` | environment |

Abstractions: positions are zones, as far as the code compares them; the kind
of an event is chosen when it is handled; packets have no contents; clocks may
have run out or not; a tick or an event that changes nothing is not a step. A
return packet may be accepted whenever one can arrive: `AcceptsReclaim` and
`AcceptsActivation` only narrow that. A descriptor is used again once it is
closed and neither an entry nor a goroutine refers to it.

### Link and the code

| State | Code |
| --- | --- |
| `where`, `alive` | each socket: who holds it, and whether its other end is there |
| `loop`, `active`, `cur` | the reconnect loop, its `conn`, the dialler of this round |
| `dial`, `has`, `stop` | the goroutine of `connectWithRetry`, its `conn`, its closed `connectStop` |
| `pending`, `queue` | `pending` and `connCh` of `ListenAndAccept` |

`StartRound`, `TakeOutbound`, `TakeInbound`, `SessionEnds`, `CloseActive` are
the loop of `main.go`; `ConnectSucceeds` … `LoserCloses` `connectWithRetry`;
`Accept`, `AcceptEnds`, `Handshaken`, `Enqueue` `ListenAndAccept`. The peer can
be dialled, can dial, or both (`reach`). At times peer or network are unsteady
(`Unsettles`, `Settles`): then a dial or a setup fails, and connections break one
by one wherever they are (`Breaks`); a restart of the peer is the case in which all
of them do. An inbound connection that loses the race stays in the channel
of one and is taken by a later round, dead or alive: `Recovers` says that the loop
gets through such rounds.

### Session and the code

| State | Code |
| --- | --- |
| `pc`, `greeted`, `nreads` | `newSecureStream`, the two loops of `doHandshake`, `finishControlSetup`, `ReceiveLoop`, teardown |
| `at`, `load` | each goroutine's place in `SendPacket`, its packet |
| `joined` | which senders of capture and clipboard are in a wait group |
| `nextID`, `writer` | `Conn.nextID`, `sendMu` |
| `sealed`, `lost` | the order of encryption, and whether encrypted bytes are missing on the wire |
| `stop` | `ReceiveLoop`'s channel |
| `out`, `in`, `peer`, `early` | the socket's two directions and PowerToys |

During the setup the loop is the only sender and a packet is one step. Then
`SendPacket` is five: test and reset of `nextID`, increment, lock and
encryption, write or deadline. A packet carries whether it will decrypt: CBC
makes that a matter of every earlier byte having arrived. Which of the senders
`Stop` waits for is chosen when they start: the monitors and the two polls are in
a wait group, the burst of entry packets (`capture_linux.go:543`) and the answer to
a `ClipboardAsk` (`clipboard_linux.go:120`) are not. `Verified` and `Refused` are the
comparison of an acknowledgement with the challenge. The peer is PowerToys
as the code and its comments describe it: it reads our prefix before it writes
its own (`client.go:146`), answers a handshake, rightly or not, refuses a packet it cannot
validate, drops a client that sends no heartbeat (`receiver.go:14`).

### Inbound and the code

`down`, `buttons`, `inX`, `lastInX`, `inSeeded`, `pendingCtrl`, `pendingCtrlCode`,
`suppressCtrlUp` are the fields of `Handler` and the state of the two uinput
devices. `CtrlDown`, `CtrlUp`, `AltGrDown`, `LetterDown`, `KeyUp` are the branches
of `handlePendingCtrl` and `handleKeyboard`, `FlushFirst` the start of
`HandlePacket`, `MoveInbound` is the function of that name. The cursor arrives by
`MachineSwitched`, which resets `inSeeded`, or by `NextMachine`, which does not;
`arrived` remembers by which, until the first move. The environment is a user with
two Ctrls and the keyboard hook of Windows, which adds a left Ctrl to each AltGr.

### Clipboard and the code

| State | Code |
| --- | --- |
| `lastHash`, `quiet` | `lastHash`; `justSet` less than three seconds old |
| `poll`, `got`, `senders`, `answer` | the goroutines of `pollClipboard`, of `sendText`, `sendImage`, `OnFileCopy`, of `sendClipboard` |
| `apply` | the steps of `handleRemoteData`, per goroutine that applies |
| `receiving`, `recvIsImage`, `first`, `size` | `recvBuf` and its flags |
| `pending`, `fresh`, `asking` | `pendingPull`, `pendingAt`, `HandleActivation` before its `SendPacket` |
| `clip`, `by` | external: the selection and its origin |

Recording the hash, setting the selection and marking it are separate steps, and so
are the poll's queries for files, image and text, each an `xclip` of its own, and its
comparison; `xclip` fails where it can. `Fits` and `Decoded` have both limits of a
stream: `maxRecvBuf` as it comes, `maxDecompressedSize` (`Bloated`) once inflated. An
Ask is answered with the text the selection offers, which for a copied file is its
path (`OfferedText`). `by` and
`from` follow a content to its origin, so that an echo is visible as such.

### Files and the code

`Accept`, `Acknowledge`, `OnFile` are `ListenFileChannel`, `serveFileChannel` and
the callback in `main.go`; `Lock`, `Header`, `Chunk`, `Rename` are
`HandleFileChannel` and `Receive`, with `readAligned` counted in bytes;
`Publish`, `RemoveOthers`, `CleanUp` its end. `Fails` may happen wherever an
error returns. `SendStarts` … `WriteStalls` are `FileSender.Send`. `Connect` and
`Disconnect` are the order in which `main.go` sets and clears `activeMachineID`
and `activeClip`. A crash ends every goroutine and leaves disk and selection.

### Update and the code

Inodes with data, sync state and mode; names for them (`dest`, `backup`, `tmp`).
`Begin` is `Run` up to the download, then one action per system call of
`backupBinary` and `replaceBinary`. `Killed` and `PowerLoss` may come between
any two.

### Steering and the code

`EntryInset`, `SafeEntryX`, `RemoteEntryInset`, `RemoteEntryX`, `ReturnMargin`
are the arithmetic of the functions of those names, `Away`, `AtEdge`,
`RemoteAway`, `AtRemoteEdge` the comparisons of `pollCursorEdge` and
`handleRel`. Each handler is one step here, its interleavings are `Capture`'s, except
for a key: `ReadKey`, `TestActive`, `TestGrace`, `HandleKey`, `SendKey` are the read,
the two tests of `handleEvent`, `handleKey` with its own test, and `SendPacket`, with
the other goroutines in between, because no lock is held from one to the next.
`held` is the user's hands as far as they were read, `win` what Windows believes.

## 3. Runs

| Run | Instance | Shows |
| --- | --- | --- |
| `capture_replug` | one pointer, two descriptors, one reappearance; 0.9 M states | `TypeOK`, `StoppedClean`, `LocalInputFree`, `NoLocalLeak`, `GrabsTracked`, `NoBounceBack`, `NoBounceOut`, `KeepsOwnership` |
| `capture_liveness` | one pointer, one descriptor, fairness; 38 k states | `InputReturns`, `SuppressionCompletes`, `StopDrains` |
| `capture_replug_leak` | as the first | violates `RefreshedSetIsLive` |
| `capture_no_x11` | as the second, without X11 | violates `StopDrains` |
| `link` | four sockets, two of them accepted, two diallers, one slot, connections that fail and break one by one; fairness; 55 k states | `EachHeldOnce`, `LosersEnd`, `Recovers` |
| `session` | two handshakes of four reads, three goroutines that send, buffers of one packet; fairness; 0.24 M states | `IDsPositive`, `StreamIsPipe`, `SetupSucceeds`, `LostEndsSession` |
| `session_close` | as `session` | violates `NoSendAfterClose` |
| `inbound` | both Ctrls, AltGr and a letter, five positions; 0.37 M states | `NoStuckKeys`, `AltGrIsNotCtrl`, `ShortcutHasCtrl`, `EntrySnaps` |
| `clipboard` | the user copies a file or an image too large to send inline, the peer sends a text, an image, one that inflates too far, a text over the limit and a file; fairness; 0.75 M states | `NoEcho`, `OnePull`, `CopyIsSent`, `ReceivedIsSent` |
| `files` | three transfers of empty files or of three bytes, two slots, two connections or one and a crash; fairness; 0.2 M states | `Backed`, `StagesCleaned`, `SlotsComeBack`, `StopReturns` |
| `update` | two processes, three updates, two backup names, three versions; 0.2 M states | `DestWhole`, `RollbackKept` |
| `steering` | nine pairs of widths, both edges, three keys; 6.2 M states | `NoBounce`, `KeysFollow` |

`capture_replug` and the runs of `Link`, `Session`, `Inbound`, `Clipboard` and
`Files` check their module's `TypeOK`. Where it bounds something
(identifiers, the position of the pointer, the receive buffer, the bytes written,
the slots) the bound is what the code promises.

**Bounds of `Capture`.** Nothing bounds the number of switches, isolation passes, events or
packets: the state space is finite without that, so arbitrarily long histories
are covered. `MaxPlugs` bounds how often a node appears. One is enough for a
device to go and come back under its name during a pass, between two passes and
after `Stop`; a device may disappear any time. Two descriptors let a former
one be alive in its goroutine while its successor is opened, which may be when udev
has not yet made the node readable. The runs have one device; a grab that fails for one
device and succeeds for another, and devices that are not targets, are left to the
proofs, which are about any number of either. Runs that use symmetry check safety only.

**Bounds of the others.** `Link`: a socket for the loop, one for a dialler, and
two accepted, so that a dead connection can wait in the channel while a live one
takes the only slot, behind which the listener refuses, and another is dialled; peer
and network become unsteady without bound. `Session`:
the constants keep the code's relations (more reads than handshakes and early
packets; the reset of the identifier leaves room for one increment per goroutine)
at the smallest sizes at which they matter; packets of a session are unbounded in
number. `Inbound`: nothing is bounded but the width of the axis. `Clipboard`:
`MaxMoves` counts what user, peer and failures do together; three suffice for
a copy between two streams, or a copy and a beat around a failure. `Room` of two
packets makes a stream of four overflow exactly between packets. `Files`: a size
of three with blocks of two has a padded last block, one of zero has none; three transfers and two slots
fill the listener; a second connection lets two managers coexist.
`Update`: the third run meets a taken backup name twice, so the limit is reached.
`Steering`: widths from two pixels on, where every minimum and maximum of the
geometry takes either branch; keys and motion are unbounded, and one key event is under
way at a time, as the keyboard's monitor is one goroutine.

**Fairness** of `Capture` (`FairSpec`). Each goroutine that can go on does: the Go scheduler
is preemptive, and a Go mutex in starvation mode hands itself to the oldest
waiter, hence strong fairness of steps that need a mutex. `SendPacket` returns
because it sets a write deadline of 500 ms. The poll's `select` with a closed
`stopCh` and a ticker picks the former eventually (strong fairness of
`PollExits`). A failing or blocked `read` returns when the descriptor is closed:
descriptors are opened non-blocking and served by the runtime's poller. Nothing
makes a user move the mouse, a packet arrive, a connection fail or a device
appear. `InputReturns` and `SuppressionCompletes` therefore speak only of what
must follow from a hand-over, and `StopDrains` starts at `Stop`.

Of the others: goroutines run, a mutex is not passed over for ever, `select`
with a closed stop channel takes it eventually.

* `Session`: a live peer reads and answers within the ten seconds of the setup's
  deadline; TCP keepalive finds a peer that has vanished; PowerToys drops a
  client without heartbeats. Nothing makes it talk or leave.
* `Link`: dialling and setup have deadlines, so each succeeds or fails; a steady peer
  that dials keeps dialling, and some of its connections get through the setup
  (strong fairness of `Accept` and `Handshaken` while steady). `Recovers` assumes that
  peer and network stay steady from some time on; `LosersEnd` does not.
* `Clipboard`: an `xclip` call returns within its five seconds.
* `Files`: a peer with an open inbound transfer sends its next bytes or closes:
  the code clears the deadline (`filelisten.go:146`), so a peer that does neither
  holds its slot and `fileMu`. Nothing makes the peer read what is sent:
  `StopReturns` rests on the idle deadline alone.

Assumed besides: writes to uinput succeed; the two packets of an AltGr event are
adjacent; the peer sends one clipboard stream after the other; the kernel orders
a rename after the file's synced data, and a power loss undoes a rename at most to
the old binary.

## 4. Findings

* `capture_replug_leak`: `refreshDevices` drops entries whose *path* is not
  listed. A device that disappears and comes back under the same name before the
  next rescan is still listed, so its entry with the dead descriptor stays,
  `addDevice` skips it as known, and it is neither monitored nor grabbed, then or
  later. `docs/architecture.md:135` promises the opposite. `NoLocalLeak` is
  the same statement with dead descriptors excepted; it holds, and is proved.
* `capture_no_x11`: when `newX11Pointer` fails, `Run` has already stored its nil
  `*x11Pointer` in the interface field `pointer`. `main.go` logs the error and
  goes on; `Stop` finds the field not nil, calls `Close`, and panics instead of
  waiting for the goroutines.
* `session_close`: the comment at `main.go:309` says that stopping capture first
  prevents a `SendPacket` after `conn.Close()`. It does for the goroutines in a wait
  group. The burst of entry packets (`capture_linux.go:543-556`) is in none, nor is
  the answer to a `ClipboardAsk` (`clipboard_linux.go:120`): either may be inside
  `SendPacket` when the connection is closed. Its write then fails, and nothing comes of it.

What else the code does that one may not expect, found while the properties were
stated; each is an exception written into a property, or a hazard of
`PROJECT.json` without one:

* A poll that overlaps the application of remote content sends that content back
  (`NoEcho`, exception `disturbed`).
* Two managers that receive at the same time remove each other's stage; the
  selection then names a file that is gone (`Backed`, exception `overlapped`).
* `handlePendingCtrl` remembers one Ctrl: with one held back, the other one's press
  replaces it, and the release of either presses and releases the one let go of and
  forgets the other (`handler.go:293-316`). A Ctrl still held is then up here, and the
  next letter has none (`ShortcutHasCtrl`, exception `both`).
* A `NextMachine` brings the cursor in without resetting `inSeeded`: entering within
  the jump threshold of the last reported position, the pointer moves on from where
  it was left (`EntrySnaps`, second disjunct).
* After Ctrl and AltGr were held together, `suppressCtrlUp` may swallow the
  release of a Ctrl the user pressed, which stays down (`NoStuckKeys`, exception
  `mixed`).
* Keys down on Windows when the cursor comes back stay down there, the hotkey's own
  Ctrl and Alt included; so does a key whose press has passed the tests of ownership
  (`capture_linux.go:816` and `1011`) when another goroutine brings the cursor back, and
  is sent after that (`1037`), since its release stays local (`KeysFollow`, exception
  `carried`). Keys down here when the connection is lost stay down here.
* A ClipboardAsk while a file is on the clipboard is answered with the file's path as
  text, and the poll sends the path, too, if its query for files failed or the file
  was copied between its queries.
* The branch of `ListenAndAccept` that serves a file channel on the control port
  (`client.go:492-518`) is never entered by a peer that opens with a header: `RecvPacket`
  accepts only packets with the stamp of the key.
* Autorepeat clears the hotkey's flags, and a modifier released locally leaves its
  flag set.
* The rest of an image beyond `maxRecvBuf` is taken for raw image data.
* Of two updates at the same time the second replaces a binary it has not backed
  up, possibly a newer one.

## 5. Proofs

### Capture

All theorems are about `Spec` for every `Paths`, `Targets`, `Files` (finite or
not) under `CaptureAssumption`: targets are paths, threads and descriptors do not
coincide with each other or with the "none" values.

`CaptureInv` in `CaptureProofs` is the inductive invariant. None of the properties
is inductive; its parts are

* `TypeInv`: `TypeOK` without what the other parts imply;
* `HolderInv`: which program locations hold which mutex, and that at most one
  goroutine is inside a pass;
* `DescInv`: where a descriptor can be: free and known to nobody, being opened by
  exactly one goroutine, tracked at the path it was opened on, or closed with its
  goroutine yet to leave. It makes the map injective, and says who will close
  each open descriptor;
* `GrabInv`: who may hold a grab, the flag against the kernel, and the one device
  (`cur`) between its ioctl and its flag;
* `FreeInv`: while the machine owns its cursor, either some goroutine is about to
  enter a pass, or one is in it and every grab left is still in `pending`, or
  there is none. This is what the reading of `c.active` inside `grabMu` buys, and
  the reason a late pass is harmless;
* `StopInv`: after `stopped` nothing is inserted, and after `closing` the main
  goroutine does not go back;
* `EdgeInv`: each gate implies its history variable.

| Theorem | States |
| --- | --- |
| `TypeCorrect`, `InputFree`, `GrabsAgree`, `StopIsClean` | `Spec => []Inv` for `TypeOK`, `LocalInputFree`, `GrabsTracked`, `StoppedClean` |
| `NoBounceOutAlways`, `NoBounceBackAlways` | the two action properties |
| `NoLeak` | `Spec => []NoLocalLeak`; adds `RefreshInv` and `SuppressInv`: at each step of a suppressing pass, every device steady since its rescan is still to be added, already tracked, still pending, or grabbed, refused or dead |
| `LocksOrdered` | no goroutine, `Stop` included, waits in a circle: every chain of waiting for `c.mu`, `grabMu` or the wait group has at most three links |
| `StopIsNotStuck` | while `Stop` waits, either all goroutines have returned or one is where it waits for no other |
| `Refinement` | `Spec => KeepsOwnership`: each step of `Capture` maps to a step of `Ownership` or a stutter |

`LocksOrdered` and `StopIsNotStuck` are what can be proved of `StopDrains` and of the hazard
at `capture_linux.go:926` without fairness: they follow from `StopInv` (who holds
`c.mu` is in `SendPacket`), `GrabInv` (who holds `grabMu` is inside the pass, never
waiting for it) and `ClosingInv` (`stopCh` is closed before `Stop` waits). What
`CanGoOn` calls a place where a goroutine can go on is written out as the guards
of the steps, since `ENABLED` cannot be reasoned about.

### Link

`LinkProofs`: `Typed` (`TypeOK`), `HeldOnce` (`EachHeldOnce`), `RoundsOwned`, for any
finite set of sockets, any diallers and any number of slots. `EachHeldOnce` is not
inductive: whose hand a socket is in follows from what each goroutine is doing, and
those of former rounds are still there. `LinkInv` adds

* `DiallerInv`: a dialler has a connection exactly while it offers one, no two
  have the same;
* `QueueInv`, `ActiveInv`: the channel of one and the loop's `conn` name the socket
  that is there;
* `RoundInv`: the loop has a connection exactly from winning to closing it, and every
  dialler but that of the round that selects has been stopped. `RoundsOwned` states
  this by itself: it is the safety half of `LosersEnd`;
* `SlotInv`: `pending` counts the sockets in the listener's hands.

### Session

`SessionProofs` assumes `SessionAssumption`, what the code's constants satisfy: more
reads than handshakes and early packets together, buffers of at least one, and
between `WrapAt` and `MaxID` room for one increment by each goroutine but one, of
which there are finitely many. `SessionInv` adds to `TypeOK`:

* `IDInv`: `nextID` plus the increments that goroutines have tested for and not made
  is at most `WrapAt` plus their number less one. The test and the increment are not
  one step, so a bound on `nextID` alone is not inductive;
* `PlaceInv`: during the setup the loop alone sends;
* `SealInv`: only the holder of `sendMu` has a packet that is encrypted and not
  written, and it is the only such packet: encrypting and writing are one step of
  `Pipe`.

| Theorem | States |
| --- | --- |
| `Typed`, `PositiveIDs` | `Spec => []Inv` for `TypeOK`, `IDsPositive` |
| `StreamRefines` | `Spec => StreamIsPipe`: each step of a connection is a step of `Pipe` or a stutter, whatever the number of packets |

### Inbound

`InboundProofs`: `Typed` (`TypeOK`), `KeysReleased` (`NoStuckKeys`), `AltGrClean`
(`AltGrIsNotCtrl`), `ShortcutsWork` (`ShortcutHasCtrl`), `EntriesSnap`
(`EntrySnaps`), for any threshold, width and gain. `NoStuckKeys` and
`AltGrIsNotCtrl` are not inductive. `FeedInv` says which second packet of an AltGr event can
be on its way; `DownInv` that what is down or held back is held by the user;
`CtrlInv` that a release is marked to be dropped only while its AltGr lasts, and that
each Ctrl Windows holds down, with neither AltGr nor both Ctrls involved, is either
down here or the one held back, which is what `ShortcutHasCtrl` needs of a step;
`ArrivedInv` that the tracker is not seeded after a `MachineSwitched`.

### Clipboard

`ClipboardProofs`: `EchoFree` (`NoEcho`), `PulledOnce` (`OnePull`), `StreamsWhole`
(`ReceivedIsSent`), for any contents, any `Room`, any contents that inflate too far and
any number of moves.
`QuietInv` and `PollInv` say that without a disturbance the selection, `lastHash`
and what the poll has read are one content unless the user copied it; `StreamInv`
how much of a stream the buffer holds, and that nothing is left of the one before
it; `PullInv` that a remembered beat is owed one pull more than are on their way.
`Typed` (`TypeOK`) adds that what the poll compares was read (`ReadInv`), that only
contents are hashed, set and marked (`AppliedInv`), and that a stream has no more
packets than its length (`BufferInv`): the limit of the receive buffer holds for
every `Room`.

### Files

`FilesProofs`: `SelectionBacked` (`Backed`), `StagesRemoved` (`StagesCleaned`), for
any number of transfers, managers, slots and sizes; and `Typed` (`TypeOK`),
`LastBlockIsWhole`, `SlotsHeld`. `FilesInv`: `fileMu` names the
one transfer of its manager that receives (`HoldInv`), hence one transfer at all
while managers have not overlapped (`SoleInv`); what the selection names is not
received any more (`NamedInv`); what is renamed is complete (`WholeInv`); and a
stage on the disk is being received, was published last, or has a publisher that
is about to remove the others (`CleanInv`). `BytesInv` is `readAligned` with its
arithmetic: what was read is a number of whole blocks, at most the aligned size,
and what was written is the smaller of that and the size. It needs that a buffer
is a number of blocks (`copyBufSize` and `blockSize` are constants of the code),
and gives `LastBlockIsWhole`: when the last block is read, exactly the announced
size is written, also for empty files and exact multiples. `SlotInv` counts the
slots; `SlotsHeld` states it, with who may hold `fileMu`.

### Update

`UpdateProofs`: `BinaryWhole` (`DestWhole`), `BackupsKept` (`RollbackKept`), for any
number of processes, runs, versions and backup names. `UpdateInv`: the temporary
inode of a process is its own and not the binary (`TmpInv`); how far it is written,
synced and made executable follows from where the process is (`DoneBy`); and a
backup that a process relies on keeps its name (`SavedInv`).

### Steering

`SteeringProofs`: `SwitchesStay` (`NoBounce`), `KeysForwarded` (`KeysFollow`), for any
widths from two pixels on, any margins and fractions, and `RearmDistance` positive.
`NoBounce` needs no more than that positions are integers, and the lemma
`LandingOutsideMargin`: the cursor lands farther from the shared edge than the
margin within which a return is accepted, on every width. For `KeysFollow` the
invariant adds that while the cursor is here, or its switch is less than 100 ms old,
nothing is down on Windows but what was when it came back or was sent after that
(`CarriedInv`), and that a press on its way is one the user still holds (`EventInv`).

### What is only model-checked

The ten liveness properties and the three runs that end in violation: temporal
reasoning about fairness and `ENABLED` is out of the prover's reach. Every
invariant, every action property and both refinements that a passing run checks
are proved.

## 6. Not modelled, and what is left

* Key tables, uinput's packing of events, configuration, packaging: constant
  tables, pure I/O, or run before the program does.
* Wire layout of packets, key derivation and the cipher itself. That a hole makes
  the rest unreadable is taken from CBC and the checksum.
* Names of received files (`SafeName`, `DestPath`) and the parsing of headers, URIs
  and xrandr's output: string functions without state.
* The vertical axis, acceleration and scaling of coordinates; what the burst after a
  switch does to the remote cursor (as a sender it is in `Session`).
* Descriptor numbers (`grab_linux.go:177`), and the interleaving of
  chunks of two outbound clipboard streams.

Left for later, in this order: the liveness of `Link` with `Session` in place of
its abstract setup and session; the order of the chunks of two outbound clipboard
streams; sanitising of names against a reference definition.
