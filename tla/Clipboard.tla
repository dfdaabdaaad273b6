----------------------------- MODULE Clipboard -----------------------------
(***************************************************************************)
(* internal/clipboard/clipboard_linux.go: one Manager, from Start to Stop. *)
(* Three kinds of goroutine share it: the poll of the local selection and  *)
(* the senders it starts; the receive loop, which hands it every clipboard *)
(* packet and an Activation; and a file channel, which hands it what came  *)
(* over a connection of its own (remote_files_linux.go).                   *)
(*                                                                         *)
(* Abstracted: a hash is the content it is the hash of (the code compares  *)
(* the length and the first 100 bytes of a text, the length of an image);  *)
(* a stream is whole or it does not decode; three seconds and thirty       *)
(* seconds are the two flags "quiet" and "fresh".                          *)
(*                                                                         *)
(* External: the user, the X11 selection (read and set through xclip, which *)
(* may fail), and the peer, which sends one stream after the other.        *)
(***************************************************************************)
EXTENDS Naturals, FiniteSets

CONSTANTS
  None,
  Texts, Images, Files,  \* contents, by the format the poll sees
  Path,                  \* the text that a copied file offers as well
  TooLarge,              \* contents beyond maxInlineSize
  Before, Copied, Inline, Staged, \* contents: here before Start; the user's;
                                  \* the peer's, inline and by file channel (those
                                  \* it delivers whole)
  Oversize,              \* inline texts beyond maxRecvBuf
  Bloated,               \* contents that inflate beyond maxDecompressedSize
  Room,                  \* maxRecvBuf, in packets
  MaxMoves               \* bound: what the user, the peer and xclip's failures
                         \* do, together

\* The number of packets of an inline content.
Chunks(c) == IF c \in Oversize THEN 2 * Room ELSE Room

Items == Texts \cup Images \cup Files \cup {Path}
Appliers == {"loop", "channel"}      \* who may apply remote content
Activators == {"loop", "capture"}    \* who may call HandleActivation
Queries == {"files", "image", "text"}  \* of the poll, in this order

ASSUME ClipboardAssumption ==
  /\ None \notin Items /\ Path \notin Texts \cup Images \cup Files
  /\ Before \cup Copied \cup Inline \cup Staged \subseteq Items \ {Path}
  /\ Copied \cap (Before \cup Inline \cup Staged) = {}
  /\ Oversize \subseteq Inline \cap Texts /\ Bloated \subseteq Inline /\ Room \in Nat \ {0}

VARIABLES
  clip, by,       \* external: the selection, and where it is from
  lastHash,       \* m.lastHash
  quiet,          \* time.Since(m.justSet) < 3 s
  poll, got, from,   \* where the poll is, what it has read, and its origin
  senders,        \* senders the poll started: [item, by]
  answer,         \* go m.sendClipboard() is under way
  apply,          \* remote content being applied, per applier: [at, item]
  stream, seen,   \* external: the content the peer sends, packets sent so far
  receiving, recvIsImage, first, size,   \* the receive buffer: packets from
                  \* number "first" of the stream, "size" of them
  pending, fresh, \* m.pendingPull # 0; m.pendingAt is less than 30 s ago
  asking,         \* who is about to send a ClipboardAsk
  running,        \* stopCh is open
  sent,           \* history: which of the user's contents have been sent since
                  \* they were copied
  disturbed,      \* history: xclip failed, or content was applied while
                  \* another application or a poll was under way
  broken,         \* history: what the poll had found could not be sent
  owed,           \* history: the beats received less the asks sent
  moves           \* how many of MaxMoves are left

pollVars  == <<poll, got, from>>
bufVars   == <<receiving, recvIsImage, first, size>>
inVars    == <<stream, seen, bufVars>>
pullVars  == <<pending, fresh, asking, owed>>
selection == <<clip, by>>
vars == <<selection, lastHash, quiet, pollVars, senders, answer, apply, inVars,
          pullVars, running, sent, disturbed, broken, moves>>

Idle == [at |-> "idle", item |-> None]
Steps == {"idle", "hash", "set", "mark"}

\* What a stream must be to be applied as it was sent.
Fits(c) == Chunks(c) <= Room /\ c \notin Bloated

Init ==
  \* Start baselines the selection before it starts the poll.
  /\ clip \in Before \cup {None} /\ by = "before" /\ lastHash = clip
  /\ quiet = FALSE /\ poll = "select" /\ got = None /\ from = "before"
  /\ senders = {} /\ answer = FALSE /\ apply = [t \in Appliers |-> Idle]
  /\ stream = None /\ seen = 0
  /\ receiving = FALSE /\ recvIsImage = FALSE /\ first = 1 /\ size = 0
  /\ pending = FALSE /\ fresh = FALSE /\ asking = {}
  /\ running = TRUE /\ sent = {} /\ disturbed = FALSE /\ broken = FALSE
  /\ owed = 0 /\ moves = MaxMoves

Move == moves > 0 /\ moves' = moves - 1

-----------------------------------------------------------------------------
\* The poll: one iteration is Tick, up to three queries, Compare.

Applying == \E t \in Appliers : apply[t] # Idle

\* The ticker fires: nothing is read for three seconds after a remote content
\* was set.
Tick == /\ running /\ poll = "select" /\ ~quiet
        /\ poll' = "files"
        /\ disturbed' = (disturbed \/ Applying)
        /\ UNCHANGED <<selection, lastHash, quiet, got, from, senders, answer,
                 apply, inVars, pullVars, running, sent, broken, moves>>

\* The text of the selection; of a file, its path.
OfferedText == IF clip \in Files THEN {Path} ELSE {clip} \cap Texts

\* What a query finds, each by an xclip of its own: the selection may change from
\* one to the next.
Found == IF poll = "files" THEN {clip} \cap Files
         ELSE IF poll = "image" THEN {clip} \cap Images ELSE OfferedText
GoesOn == poll' = IF poll = "files" THEN "image"
                  ELSE IF poll = "image" THEN "text" ELSE "select"

Query == /\ poll \in Queries
         /\ \/ got' \in Found /\ from' = by /\ poll' = "compare"
            \/ Found = {} /\ GoesOn /\ UNCHANGED <<got, from>>
         /\ UNCHANGED <<selection, lastHash, quiet, senders, answer, apply, inVars,
                  pullVars, running, sent, disturbed, broken, moves>>

\* xclip fails or times out: the next query may find the content in another
\* form.
QueryFails ==
  /\ poll \in Queries /\ Move
  /\ GoesOn
  /\ disturbed' = TRUE
  /\ UNCHANGED <<selection, lastHash, quiet, got, from, senders, answer, apply,
                 inVars, pullVars, running, sent, broken>>

\* Mutant: nothing is sent while an earlier content is on its way.
CompareUnlessBusy ==
  /\ poll = "compare" /\ poll' = "select" /\ got' = None /\ from' = "before"
  /\ lastHash' = got
  /\ senders' = IF got # lastHash /\ senders = {}
                THEN senders \cup {[item |-> got, by |-> from]} ELSE senders
  /\ UNCHANGED <<selection, quiet, answer, apply, inVars, pullVars, running,
                 sent, disturbed, broken, moves>>

\* The comparison with lastHash, under m.mu; a change starts a sender.
Compare ==
  /\ poll = "compare" /\ poll' = "select" /\ got' = None /\ from' = "before"
  /\ lastHash' = got
  /\ senders' = IF got # lastHash
                THEN senders \cup {[item |-> got, by |-> from]} ELSE senders
  /\ UNCHANGED <<selection, quiet, answer, apply, inVars, pullVars, running,
                 sent, disturbed, broken, moves>>

\* A sender ends: everything sent, or too large, or the connection failed.
\* Files go over a connection of their own.
SendEnds(s) ==
  /\ s \in senders /\ senders' = senders \ {s}
  /\ \/ /\ s.item \in TooLarge /\ UNCHANGED <<sent, broken>>
     \/ /\ s.item \notin TooLarge /\ sent' = sent \cup {i \in {s.item} : s.by = "user"}
        /\ UNCHANGED broken
     \/ /\ s.item \notin TooLarge /\ broken' = TRUE /\ UNCHANGED sent
  /\ UNCHANGED <<selection, lastHash, quiet, pollVars, answer, apply, inVars,
                 pullVars, running, disturbed, moves>>

\* sendClipboard answers a ClipboardAsk with the text of the selection, if it
\* has one, as a goroutine nobody waits for; xclip or the send may fail.
Answer ==
  /\ answer /\ answer' = FALSE
  /\ sent' \in {sent, sent \cup {i \in OfferedText \ TooLarge : by = "user"}}
  /\ UNCHANGED <<selection, lastHash, quiet, pollVars, senders, apply, inVars,
                 pullVars, running, disturbed, broken, moves>>

-----------------------------------------------------------------------------
\* Remote content: handleRemoteData for texts and images, and the end of
\* HandleFileChannel for files.

\* The application disturbs a poll under way and one by another goroutine.
Disturbs(t) == poll # "select" \/ \E u \in Appliers \ {t} : apply[u] # Idle

\* Mutant: the hash of a text is not recorded.
FirstStepNoHash(c) == "set"

\* A text's hash is recorded before the selection is set.
FirstStep(c) == IF c \in Texts THEN "hash" ELSE "set"

Applies(t, c) == apply' = [apply EXCEPT ![t] = [at |-> FirstStep(c), item |-> c]]

RecordHash(t) ==
  /\ apply[t].at = "hash"
  /\ lastHash' = apply[t].item
  /\ apply' = [apply EXCEPT ![t].at = "set"]
  /\ disturbed' = (disturbed \/ Disturbs(t))
  /\ UNCHANGED <<selection, quiet, pollVars, senders, answer, inVars,
                 pullVars, running, sent, broken, moves>>

SetSelection(t) ==
  /\ apply[t].at = "set"
  /\ clip' = apply[t].item /\ by' = "remote"
  /\ apply' = [apply EXCEPT ![t].at = "mark"]
  /\ disturbed' = (disturbed \/ Disturbs(t))
  /\ UNCHANGED <<lastHash, quiet, pollVars, senders, answer, inVars, pullVars,
                 running, sent, broken, moves>>

\* xclip fails: a text is marked all the same; an image was perhaps set by the
\* second try, and neither it nor a file is marked.
SetFails(t) ==
  /\ apply[t].at = "set" /\ Move
  /\ \/ /\ apply[t].item \in Texts
        /\ apply' = [apply EXCEPT ![t].at = "mark"] /\ UNCHANGED selection
     \/ /\ apply[t].item \in Images
        /\ apply' = [apply EXCEPT ![t] = Idle]
        /\ clip' = apply[t].item /\ by' = "remote"
     \/ /\ apply[t].item \notin Texts
        /\ apply' = [apply EXCEPT ![t] = Idle] /\ UNCHANGED selection
  /\ disturbed' = TRUE
  /\ UNCHANGED <<lastHash, quiet, pollVars, senders, answer, inVars, pullVars,
                 running, sent, broken>>

\* justSet; for an image or a file, the hash together with it.
Mark(t) ==
  /\ apply[t].at = "mark"
  /\ quiet' = TRUE
  /\ lastHash' = IF apply[t].item \in Texts THEN lastHash ELSE apply[t].item
  /\ apply' = [apply EXCEPT ![t] = Idle]
  /\ disturbed' = (disturbed \/ Disturbs(t))
  /\ UNCHANGED <<selection, pollVars, senders, answer, inVars, pullVars,
                 running, sent, broken, moves>>

\* A file channel delivers a file, or a text or an image too large for the
\* control connection.  HandleFileChannel holds fileMu: one at a time.
FromChannel ==
  /\ apply["channel"] = Idle /\ Move
  /\ \E c \in Staged : Applies("channel", c)
  /\ disturbed' = (disturbed \/ Disturbs("channel"))
  /\ UNCHANGED <<selection, lastHash, quiet, pollVars, senders, answer,
                 inVars, pullVars, running, sent, broken>>

-----------------------------------------------------------------------------
\* HandlePacket, in the receive loop: it is not back for the next packet before
\* a content has been applied.

LoopFree == running /\ apply["loop"] = Idle /\ "loop" \notin asking

\* handleChunk: the packet numbered n of the content c.
Starts(c, n) == /\ receiving' = TRUE /\ recvIsImage' = (c \in Images)
                /\ first' = n /\ size' = 1
Drop == receiving' = FALSE /\ size' = 0 /\ UNCHANGED <<recvIsImage, first>>

\* Mutant: the limit is tested after the packet was added.
HandleChunkLate(c, n) ==
  \/ ~receiving /\ Starts(c, n)
  \/ receiving /\ size <= Room /\ size' = size + 1
     /\ UNCHANGED <<receiving, recvIsImage, first>>
  \/ receiving /\ size > Room /\ Drop

HandleChunk(c, n) ==
  \/ ~receiving /\ Starts(c, n)
  \/ receiving /\ size < Room /\ size' = size + 1
     /\ UNCHANGED <<receiving, recvIsImage, first>>
  \/ receiving /\ size = Room /\ Drop

Chunk ==
  /\ LoopFree
  /\ \/ /\ stream = None /\ Move
        /\ \E c \in Inline : stream' = c /\ seen' = 1 /\ HandleChunk(c, 1)
     \/ /\ stream # None /\ seen < Chunks(stream)
        /\ UNCHANGED <<stream, moves>>
        /\ seen' = seen + 1 /\ HandleChunk(stream, seen + 1)
  /\ pending' = FALSE /\ fresh' = FALSE     \* clearPendingRemoteClipboard
  /\ UNCHANGED <<selection, lastHash, quiet, pollVars, senders, answer, apply,
                 asking, running, sent, disturbed, broken, owed>>

\* Mutant: handleEnd forgets that the stream is over.
EndKeepsReceiving == size' = 0 /\ UNCHANGED <<receiving, recvIsImage, first>>
\* handleEnd empties the buffer.
EndOfStream == Drop

\* A whole stream decodes as what it was sent as.  The rest of a text after an
\* overflow does not inflate, and what inflates beyond maxDecompressedSize is
\* refused.
Decoded(c) == /\ recvIsImage = (c \in Images)
              /\ first = 1 /\ size = Chunks(c)
              /\ c \notin Bloated

DataEnd ==
  /\ LoopFree /\ stream # None /\ seen = Chunks(stream)
  /\ stream' = None /\ seen' = 0
  /\ EndOfStream
  /\ IF Decoded(stream)
     THEN /\ Applies("loop", stream)
          /\ disturbed' = (disturbed \/ Disturbs("loop"))
     ELSE UNCHANGED <<apply, disturbed>>
  /\ UNCHANGED <<selection, lastHash, quiet, pollVars, senders, answer,
                 pullVars, running, sent, broken, moves>>

\* rememberRemoteClipboard.
Beat ==
  /\ LoopFree /\ stream = None /\ Move /\ owed' = owed + 1
  /\ pending' = TRUE /\ fresh' = TRUE
  /\ UNCHANGED <<selection, lastHash, quiet, pollVars, senders, answer, apply,
                 inVars, asking, running, sent, disturbed, broken>>

Ask ==
  /\ LoopFree /\ stream = None /\ Move
  /\ ~answer /\ answer' = TRUE
  /\ UNCHANGED <<selection, lastHash, quiet, pollVars, senders, apply, inVars,
                 pullVars, running, sent, disturbed, broken>>

\* Mutant: a beat stays until it has been asked for.
TakeKeeps == UNCHANGED <<pending, fresh>>
\* The beat is taken and forgotten in one critical section.
TakePull == pending' = FALSE /\ fresh' = FALSE

\* HandleActivation, by the receive loop (an Activation packet) or by the
\* capturer (the cursor came back over the edge).
Activate(t) ==
  /\ running /\ t \notin asking /\ (t = "loop" => LoopFree) /\ pending
  /\ TakePull
  /\ asking' = IF fresh THEN asking \cup {t} ELSE asking
  /\ UNCHANGED <<selection, lastHash, quiet, pollVars, senders, answer, apply,
                 inVars, running, sent, disturbed, broken, owed, moves>>

SendAsk(t) ==
  /\ t \in asking /\ asking' = asking \ {t} /\ owed' = owed - 1
  /\ UNCHANGED <<selection, lastHash, quiet, pollVars, senders, answer, apply,
                 inVars, pending, fresh, running, sent, disturbed, broken,
                 moves>>

-----------------------------------------------------------------------------
\* Stop, once the receive loop has returned, and the world outside.

Stop == /\ LoopFree /\ running' = FALSE
        /\ UNCHANGED <<selection, lastHash, quiet, pollVars, senders, answer, apply,
                 inVars, pullVars, sent, disturbed, broken, moves>>

\* m.wg.Wait() returns; a file channel and an answer may still be under way.
Stopped == ~running /\ poll = "select" /\ senders = {}

Copy == /\ ~Stopped /\ Move
        /\ clip' \in Copied /\ by' = "user" /\ sent' = sent \ {clip'}
        /\ UNCHANGED <<lastHash, quiet, pollVars, senders, answer, apply, inVars,
                 pullVars, running, disturbed, broken>>

ThreeSeconds ==
  /\ quiet /\ quiet' = FALSE
  /\ UNCHANGED <<selection, lastHash, pollVars, senders, answer, apply,
                 inVars, pullVars, running, sent, disturbed, broken, moves>>

ThirtySeconds ==
  /\ fresh /\ fresh' = FALSE
  /\ UNCHANGED <<selection, lastHash, quiet, pollVars, senders, answer, apply,
                 inVars, pending, asking, running, sent, disturbed, broken,
                 owed, moves>>

PollStep == Tick \/ Query \/ QueryFails \/ Compare
ApplyStep(t) == RecordHash(t) \/ SetSelection(t) \/ SetFails(t) \/ Mark(t)
Packet == Chunk \/ DataEnd \/ Beat \/ Ask
Outside == Copy \/ ThreeSeconds \/ ThirtySeconds

Next == \/ PollStep \/ (\E s \in senders : SendEnds(s)) \/ Answer
        \/ \E t \in Appliers : ApplyStep(t)
        \/ FromChannel \/ Packet
        \/ \E t \in Activators : Activate(t) \/ SendAsk(t)
        \/ Stop \/ Outside

\* The poll, its senders and the appliers keep running, every xclip call
\* returns within five seconds, and the three seconds pass.
Fairness == /\ WF_vars(Tick) /\ WF_vars(Query) /\ WF_vars(Compare)
            /\ WF_vars(\E s \in senders : SendEnds(s))
            /\ \A t \in Appliers : WF_vars(ApplyStep(t))
            /\ WF_vars(ThreeSeconds)

Spec == Init /\ [][Next]_vars /\ Fairness

-----------------------------------------------------------------------------
\* Each variable has its type; the buffer of inbound chunks never holds more
\* than maxRecvBuf allows.
TypeOK ==
  /\ clip \in Items \cup {None} /\ by \in {"before", "user", "remote"}
  /\ lastHash \in Items \cup {None} /\ quiet \in BOOLEAN
  /\ poll \in Queries \cup {"select", "compare"} /\ got \in Items \cup {None}
  /\ from \in {"before", "user", "remote"}
  /\ senders \subseteq [item : Items, by : {"before", "user", "remote"}]
  /\ answer \in BOOLEAN
  /\ apply \in [Appliers -> [at : Steps, item : Items \cup {None}]]
  /\ stream \in Inline \cup {None}
  /\ receiving \in BOOLEAN /\ recvIsImage \in BOOLEAN
  /\ first \in 1..2 * Room /\ size \in 0..Room
  /\ pending \in BOOLEAN /\ fresh \in BOOLEAN /\ asking \subseteq Activators
  /\ running \in BOOLEAN /\ sent \subseteq Items /\ disturbed \in BOOLEAN
  /\ broken \in BOOLEAN

\* What the poll sends to the peer is what the user copied here: never what
\* came from the peer itself, and never what was on the clipboard before the
\* connection, as long as no xclip call failed and no remote content was being
\* applied during an iteration of the poll.  (With such an overlap the code
\* does send a remote content back: the poll compares what it read earlier
\* with the hash recorded meanwhile.)
NoEcho == ~disturbed => \A s \in senders : s.by = "user"

\* A content the user copied and leaves there is sent, and sent again when he
\* copies it again after something else, whatever else was received or applied
\* meanwhile, unless it is too large, the hash says that the peer has it, or the
\* connection ends.
CopyIsSent ==
  \A c \in Copied \ TooLarge :
    (running /\ clip = c /\ by = "user" /\ lastHash # c)
      ~> (c \in sent \/ clip # c \/ by # "user" \/ broken \/ ~running)

\* A stream within the limit is applied as the content the peer sent, whatever
\* stream came before it, a dropped one included; one beyond the limit, as it
\* comes or once inflated, is not applied at all.
ReceivedIsSent ==
  [][(stream # None /\ stream' = None)
       => apply'["loop"].item = IF Fits(stream) THEN stream ELSE None]_vars

\* A beat is pulled at most once, although the receive loop and the capturer
\* may both announce the arrival of the cursor.
OnePull == Cardinality(asking) <= owed
=============================================================================
