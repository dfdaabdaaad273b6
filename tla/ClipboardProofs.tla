--------------------------- MODULE ClipboardProofs ---------------------------
(***************************************************************************)
(* Proofs about module Clipboard, for any contents, any limit on what is   *)
(* received, and any number of user's, peer's and failing steps.           *)
(***************************************************************************)
EXTENDS Clipboard, FiniteSetTheorems, Integers, TLAPS

USE ClipboardAssumption DEF ClipboardAssumption

ApplyType == apply \in [Appliers -> [at : Steps, item : Items \cup {None}]]

\* Where lastHash, the selection and what the poll has read agree: as long as
\* nothing has disturbed an iteration of the poll or an application, what the
\* user has not copied is what lastHash holds, or about to be.
QuietInv ==
  ~disturbed =>
    /\ poll # "select" => \A t \in Appliers : apply[t] = Idle
    /\ \A t, u \in Appliers : apply[t] # Idle /\ apply[u] # Idle => t = u
    /\ (\A t \in Appliers : apply[t] = Idle) /\ by # "user" => clip = lastHash
    /\ \A t \in Appliers :
         /\ apply[t].at \in {"set", "mark"} /\ apply[t].item \in Texts => lastHash = apply[t].item
         /\ apply[t].at = "mark" /\ by # "user" => clip = apply[t].item
PollInv ==
  ~disturbed =>
    /\ poll = "compare" /\ from # "user" => got = lastHash
    /\ poll = "compare" /\ by # "user" => got = clip
    /\ poll \in {"image", "text"} /\ by # "user" => clip \notin Files

\* How much of the stream is in the buffer.
StreamInv ==
  /\ stream \in Inline \cup {None} /\ seen \in Nat /\ size \in 0..Room
  /\ stream = None => ~receiving
  /\ stream # None => seen \in 1..Chunks(stream)
  /\ stream # None /\ seen <= Room =>
       receiving /\ size = seen /\ first = 1 /\ recvIsImage = (stream \in Images)

\* A beat that is remembered is owed one pull more than those on their way.
PullInv ==
  /\ asking \subseteq Activators /\ owed \in Int
  /\ Cardinality(asking) + (IF pending THEN 1 ELSE 0) <= owed

SendersInv == ~disturbed => \A s \in senders : s.by = "user"

EchoInv == ApplyType /\ QuietInv /\ PollInv /\ SendersInv
ClipInv == EchoInv /\ StreamInv /\ PullInv

LEMMA AskingFinite ==
  ASSUME NEW S, S \subseteq Activators
  PROVE  IsFiniteSet(S) /\ Cardinality(S) \in Nat
<1>1. IsFiniteSet({"loop"})
  BY FS_Singleton
<1>2. IsFiniteSet({"loop"} \cup {"capture"})
  BY <1>1, FS_AddElement
<1>3. S \subseteq {"loop"} \cup {"capture"}
  BY DEF Activators
<1>4. QED BY <1>2, <1>3, FS_Subset, FS_CardinalityType

LEMMA ClipInit == Init => ClipInv
<1> SUFFICES ASSUME Init PROVE ClipInv
  OBVIOUS
<1>1. Idle \in [at : Steps, item : Items \cup {None}]
  BY DEF Idle, Steps
<1>2. ApplyType /\ \A t \in Appliers : apply[t] = Idle
  BY <1>1 DEF Init, ApplyType
<1>3. QuietInv /\ PollInv /\ SendersInv
  BY <1>2 DEF Init, QuietInv, PollInv, SendersInv, Idle
<1>4. StreamInv
  BY DEF Init, StreamInv
<1>5. PullInv
  BY FS_EmptySet DEF Init, PullInv
<1>6. QED BY <1>2, <1>3, <1>4, <1>5 DEF ClipInv, EchoInv

-----------------------------------------------------------------------------
\* The steps that only one of the three parts is about.

echoVars == <<clip, by, lastHash, poll, got, from, senders, apply, disturbed>>
streamVars == <<stream, seen, receiving, recvIsImage, first, size>>
askVars == <<asking, owed, pending>>

LEMMA EchoKept == EchoInv /\ UNCHANGED echoVars => EchoInv'
BY DEF echoVars, EchoInv, ApplyType, QuietInv, PollInv, SendersInv

LEMMA StreamKept == StreamInv /\ UNCHANGED streamVars => StreamInv'
BY DEF streamVars, StreamInv

LEMMA PullKept == PullInv /\ UNCHANGED askVars => PullInv'
BY DEF askVars, PullInv

-----------------------------------------------------------------------------
\* What the poll may send.

LEMMA PollEcho == ASSUME EchoInv, PollStep PROVE EchoInv'
<1>1. CASE Tick
  <2>1. /\ UNCHANGED <<clip, by, lastHash, got, from, senders, apply>>
        /\ poll' = "files" /\ disturbed' = (disturbed \/ Applying)
    BY <1>1 DEF Tick, selection
  <2>2. ~disturbed' => ~disturbed /\ \A t \in Appliers : apply[t] = Idle
    BY <2>1 DEF Applying
  <2>3. QED BY <2>1, <2>2 DEF EchoInv, ApplyType, QuietInv, PollInv, SendersInv
<1>2. CASE Query
  <2>1. /\ UNCHANGED <<clip, by, lastHash, senders, apply, disturbed>> /\ poll \in Queries
    BY <1>2 DEF Query, selection
  <2>2. QuietInv' /\ SendersInv' /\ ApplyType'
    BY <2>1 DEF EchoInv, ApplyType, QuietInv, SendersInv, Queries
  <2>3. CASE got' \in Found /\ from' = by /\ poll' = "compare"
    <3>1. ~disturbed /\ by # "user" => got' = clip
      BY <2>1, <2>3 DEF EchoInv, PollInv, Found, OfferedText, Queries
    <3>2. ~disturbed /\ by # "user" => clip = lastHash
      BY <2>1 DEF EchoInv, QuietInv, Queries
    <3>3. QED BY <2>1, <2>2, <2>3, <3>1, <3>2 DEF EchoInv, PollInv
  <2>4. CASE Found = {} /\ GoesOn /\ UNCHANGED <<got, from>>
    <3>1. poll' = "image" => clip \notin Files
      BY <2>1, <2>4 DEF Found, GoesOn, Queries
    <3>2. poll' = "text" => poll = "image"
      BY <2>1, <2>4 DEF GoesOn, Queries
    <3>3. poll' # "compare"
      BY <2>4 DEF GoesOn
    <3>4. QED BY <2>1, <2>2, <3>1, <3>2, <3>3 DEF EchoInv, PollInv
  <2>5. QED BY <1>2, <2>3, <2>4 DEF Query
<1>3. CASE QueryFails
  BY <1>3 DEF QueryFails, EchoInv, ApplyType, QuietInv, PollInv, SendersInv
<1>4. CASE Compare
  <2>1. /\ UNCHANGED <<clip, by, apply, disturbed>>
        /\ poll = "compare" /\ poll' = "select" /\ lastHash' = got
        /\ senders' = IF got # lastHash THEN senders \cup {[item |-> got, by |-> from]} ELSE senders
    BY <1>4 DEF Compare, selection
  <2>2. SendersInv'
    BY <2>1 DEF EchoInv, PollInv, SendersInv
  <2>3. QuietInv'
    <3>1. ASSUME ~disturbed PROVE \A t \in Appliers : apply[t] = Idle
      BY <2>1, <3>1 DEF EchoInv, QuietInv
    <3>2. ASSUME ~disturbed, by # "user" PROVE clip = lastHash'
      BY <2>1, <3>2 DEF EchoInv, PollInv
    <3>3. QED BY <2>1, <3>1, <3>2 DEF QuietInv, Idle
  <2>4. QED BY <2>1, <2>2, <2>3 DEF EchoInv, ApplyType, PollInv
<1>5. QED BY <1>1, <1>2, <1>3, <1>4 DEF PollStep

\* A sender ends, and the user copies.
LEMMA OtherEcho ==
  ASSUME EchoInv, (\E s \in senders : SendEnds(s)) \/ Copy
  PROVE  EchoInv'
<1>1. CASE \E s \in senders : SendEnds(s)
  <2>1. UNCHANGED <<clip, by, lastHash, poll, got, from, apply, disturbed>> /\ senders' \subseteq senders
    BY <1>1 DEF SendEnds, selection, pollVars
  <2>2. QED BY <2>1 DEF EchoInv, ApplyType, QuietInv, PollInv, SendersInv
<1>2. CASE Copy
  <2>1. UNCHANGED <<lastHash, poll, got, from, senders, apply, disturbed>> /\ by' = "user"
    BY <1>2 DEF Copy, pollVars
  <2>2. QED BY <2>1 DEF EchoInv, ApplyType, QuietInv, PollInv, SendersInv
<1>3. QED BY <1>1, <1>2

LEMMA StepTo ==
  ASSUME ApplyType, NEW t \in Appliers, NEW a
  PROVE  [apply EXCEPT ![t].at = a] = [apply EXCEPT ![t] = [at |-> a, item |-> apply[t].item]]
<1>1. apply[t] \in [at : Steps, item : Items \cup {None}]
  BY DEF ApplyType
<1>2. [apply[t] EXCEPT !.at = a] = [at |-> a, item |-> apply[t].item]
  BY <1>1
<1>3. QED BY <1>2

\* While nothing is disturbed, who applies is alone.
LEMMA ApplyEcho == ASSUME EchoInv, NEW t \in Appliers, ApplyStep(t) PROVE EchoInv'
<1> DEFINE i == apply[t].item
<1>1. apply[t] \in [at : Steps, item : Items \cup {None}] /\ apply \in [Appliers -> [at : Steps, item : Items \cup {None}]]
  BY DEF EchoInv, ApplyType
<1>2. UNCHANGED <<poll, got, from, senders>> /\ apply[t] # Idle
  BY DEF ApplyStep, RecordHash, SetSelection, SetFails, Mark, pollVars, Idle
<1>3. PICK a \in Steps, j \in Items \cup {None} :
        /\ apply' = [apply EXCEPT ![t] = [at |-> a, item |-> j]]
        /\ a # "idle" => j = i
        /\ a = "idle" => j = None
  <2>1. CASE RecordHash(t)
    <3>1. [apply EXCEPT ![t].at = "set"] = [apply EXCEPT ![t] = [at |-> "set", item |-> i]]
      BY StepTo DEF EchoInv
    <3>2. QED BY <1>1, <2>1, <3>1 DEF RecordHash, Steps
  <2>2. CASE SetSelection(t)
    <3>1. [apply EXCEPT ![t].at = "mark"] = [apply EXCEPT ![t] = [at |-> "mark", item |-> i]]
      BY StepTo DEF EchoInv
    <3>2. QED BY <1>1, <2>2, <3>1 DEF SetSelection, Steps
  <2>3. CASE SetFails(t)
    <3>1. [apply EXCEPT ![t].at = "mark"] = [apply EXCEPT ![t] = [at |-> "mark", item |-> i]]
      BY StepTo DEF EchoInv
    <3>2. QED BY <1>1, <2>3, <3>1 DEF SetFails, Steps, Idle
  <2>4. CASE Mark(t)
    BY <2>4 DEF Mark, Steps, Idle
  <2>5. QED BY <2>1, <2>2, <2>3, <2>4 DEF ApplyStep
<1>4. /\ ApplyType' /\ apply'[t] = [at |-> a, item |-> j]
      /\ \A u \in Appliers \ {t} : apply'[u] = apply[u]
  BY <1>1, <1>3 DEF ApplyType
<1>5. ASSUME ~disturbed'
      PROVE  /\ ~disturbed /\ poll = "select" /\ ~SetFails(t)
             /\ \A u \in Appliers \ {t} : apply[u] = Idle
  BY <1>5 DEF ApplyStep, RecordHash, SetSelection, SetFails, Mark, Disturbs
<1>6. PollInv' /\ SendersInv'
  BY <1>2, <1>5 DEF PollInv, SendersInv, EchoInv
<1>7. QuietInv'
  <2>1. SUFFICES ASSUME ~disturbed' PROVE QuietInv'
    BY DEF QuietInv
  <2>2. CASE RecordHash(t)
    <3>1. /\ apply[t].at = "hash" /\ lastHash' = i /\ UNCHANGED <<clip, by>>
          /\ apply'[t] = [at |-> "set", item |-> i]
      BY <1>1, <2>2 DEF RecordHash, selection
    <3>2. QED BY <1>2, <1>4, <1>5, <2>1, <3>1 DEF QuietInv, Idle
  <2>3. CASE SetSelection(t)
    <3>1. /\ apply[t].at = "set" /\ clip' = i /\ lastHash' = lastHash
          /\ apply'[t] = [at |-> "mark", item |-> i]
      BY <1>1, <2>3 DEF SetSelection
    <3>2. i \in Texts => lastHash = i
      BY <1>5, <2>1, <3>1 DEF EchoInv, QuietInv
    <3>3. QED BY <1>2, <1>4, <1>5, <2>1, <3>1, <3>2 DEF QuietInv, Idle
  <2>4. CASE Mark(t)
    <3>1. /\ apply[t].at = "mark" /\ UNCHANGED <<clip, by>>
          /\ lastHash' = (IF i \in Texts THEN lastHash ELSE i) /\ apply'[t] = Idle
      BY <1>1, <2>4 DEF Mark, selection
    <3>2. (i \in Texts => lastHash = i) /\ (by # "user" => clip = i)
      BY <1>5, <2>1, <3>1 DEF EchoInv, QuietInv
    <3>3. lastHash' = i
      BY <3>1, <3>2
    <3>4. QED BY <1>2, <1>4, <1>5, <2>1, <3>1, <3>2, <3>3 DEF QuietInv, Idle
  <2>5. QED BY <1>5, <2>1, <2>2, <2>3, <2>4 DEF ApplyStep
<1>8. QED BY <1>4, <1>6, <1>7 DEF EchoInv

\* A content begins to be applied.
LEMMA BeginEcho ==
  ASSUME EchoInv, NEW t \in Appliers, apply[t] = Idle, NEW c \in Items, Applies(t, c),
         disturbed' = (disturbed \/ Disturbs(t)),
         UNCHANGED <<clip, by, lastHash, poll, got, from, senders>>
  PROVE  EchoInv'
<1>1. apply' = [apply EXCEPT ![t] = [at |-> FirstStep(c), item |-> c]]
  BY DEF Applies
<1>2. FirstStep(c) \in {"hash", "set"} /\ (c \in Texts => FirstStep(c) = "hash")
  BY DEF FirstStep
<1>3. /\ ApplyType' /\ apply'[t] = [at |-> FirstStep(c), item |-> c]
      /\ \A u \in Appliers \ {t} : apply'[u] = apply[u]
  BY <1>1, <1>2 DEF EchoInv, ApplyType, Steps
<1>4. ASSUME ~disturbed'
      PROVE  ~disturbed /\ poll = "select" /\ \A u \in Appliers \ {t} : apply[u] = Idle
  BY <1>4 DEF Disturbs
<1>5. PollInv' /\ SendersInv'
  BY <1>4 DEF PollInv, SendersInv, EchoInv
<1>6. QuietInv'
  <2>1. SUFFICES ASSUME ~disturbed' PROVE QuietInv'
    BY DEF QuietInv
  <2>2. /\ poll' = "select" /\ \A u \in Appliers \ {t} : apply'[u] = Idle
        /\ apply'[t] # Idle /\ apply'[t].at \in {"hash", "set"}
        /\ apply'[t].item \in Texts => apply'[t].at = "hash"
    BY <1>2, <1>3, <1>4, <2>1 DEF Idle
  <2>3. QED BY <2>2 DEF QuietInv, Idle
<1>7. QED BY <1>3, <1>5, <1>6 DEF EchoInv

LEMMA InboundEcho == ASSUME EchoInv, StreamInv, FromChannel \/ DataEnd PROVE EchoInv'
<1>1. CASE FromChannel
  <2>1. PICK c \in Staged : Applies("channel", c)
    BY <1>1 DEF FromChannel
  <2>2. c \in Items /\ "channel" \in Appliers
    BY DEF Appliers
  <2>3. QED BY <1>1, <2>1, <2>2, BeginEcho DEF FromChannel, selection, pollVars
<1>2. CASE DataEnd /\ Decoded(stream)
  <2>1. stream \in Items /\ "loop" \in Appliers
    BY <1>2 DEF DataEnd, StreamInv, Appliers
  <2>2. QED BY <1>2, <2>1, BeginEcho DEF DataEnd, LoopFree, selection, pollVars
<1>3. CASE DataEnd /\ ~Decoded(stream)
  BY <1>3, EchoKept DEF DataEnd, echoVars, selection, pollVars
<1>4. QED BY <1>1, <1>2, <1>3

-----------------------------------------------------------------------------
\* The buffer of the receive loop.

LEMMA ChunksRoom == \A c : Chunks(c) \in Nat \ {0} /\ Room <= Chunks(c)
BY DEF Chunks

\* handleChunk: whatever came before, the first packet of a stream starts a
\* buffer, and a buffer that is full is dropped.
LEMMA ChunkStream == ASSUME StreamInv, Chunk PROVE StreamInv'
<1>1. CASE stream = None
  <2>1. PICK c \in Inline : stream' = c /\ seen' = 1 /\ HandleChunk(c, 1)
    BY <1>1 DEF Chunk
  <2>2. Starts(c, 1)
    BY <1>1, <2>1 DEF HandleChunk, StreamInv
  <2>3. 1 \in 1..Chunks(c) /\ 1 \in 0..Room
    BY ChunksRoom
  <2>4. QED BY <2>1, <2>2, <2>3 DEF Starts, StreamInv
<1>2. CASE stream # None
  <2>1. /\ stream' = stream /\ seen < Chunks(stream) /\ seen' = seen + 1
        /\ HandleChunk(stream, seen + 1)
    BY <1>2 DEF Chunk
  <2>2. seen \in Nat \ {0} /\ size \in 0..Room /\ 1 \in 0..Room /\ Chunks(stream) \in Nat
    BY <1>2, ChunksRoom DEF StreamInv
  <2>3. seen' \in 1..Chunks(stream')
    BY <2>1, <2>2
  <2>4. size' \in 0..Room
    BY <2>1, <2>2 DEF HandleChunk, Starts, Drop
  <2>5. ASSUME seen' <= Room
        PROVE  receiving' /\ size' = seen' /\ first' = 1 /\ recvIsImage' = (stream \in Images)
    <3>1. receiving /\ size = seen /\ first = 1 /\ recvIsImage = (stream \in Images) /\ size < Room
      BY <1>2, <2>1, <2>2, <2>5 DEF StreamInv
    <3>2. size # Room
      BY <2>2, <3>1
    <3>3. receiving /\ size < Room /\ size' = size + 1
          /\ UNCHANGED <<receiving, recvIsImage, first>>
      BY <2>1, <3>1, <3>2 DEF HandleChunk
    <3>4. QED BY <2>1, <3>1, <3>3
  <2>6. QED BY <1>2, <2>1, <2>2, <2>3, <2>4, <2>5 DEF StreamInv
<1>3. QED BY <1>1, <1>2

LEMMA EndStream == ASSUME StreamInv, DataEnd PROVE StreamInv'
BY DEF DataEnd, EndOfStream, Drop, StreamInv

\* A stream decodes exactly when it fits.
LEMMA DecodesIfFits ==
  ASSUME StreamInv, stream # None, seen = Chunks(stream)
  PROVE  Decoded(stream) <=> Fits(stream)
<1>1. CASE stream \in Oversize
  <2>1. Chunks(stream) = 2 * Room /\ size <= Room /\ Room > 0 /\ size \in Nat
    BY <1>1 DEF Chunks, StreamInv
  <2>2. QED BY <2>1 DEF Decoded, Fits
<1>2. CASE stream \notin Oversize
  <2>1. Chunks(stream) = Room
    BY <1>2 DEF Chunks
  <2>2. size = seen /\ first = 1 /\ recvIsImage = (stream \in Images)
    BY <2>1 DEF StreamInv
  <2>3. QED BY <2>1, <2>2 DEF Decoded, Fits
<1>3. QED BY <1>1, <1>2

-----------------------------------------------------------------------------
\* Beats and pulls.

LEMMA PullSteps ==
  ASSUME PullInv,
         \/ Chunk \/ Beat \/ \E t \in Activators : Activate(t) \/ SendAsk(t)
  PROVE  PullInv'
<1>1. asking \subseteq Activators /\ owed \in Int
      /\ Cardinality(asking) + (IF pending THEN 1 ELSE 0) <= owed
  BY DEF PullInv
<1>2. IsFiniteSet(asking) /\ Cardinality(asking) \in Nat
  BY <1>1, AskingFinite
<1>3. CASE Chunk
  BY <1>1, <1>2, <1>3 DEF Chunk, PullInv
<1>4. CASE Beat
  BY <1>1, <1>2, <1>4 DEF Beat, PullInv
<1>5. ASSUME NEW t \in Activators, Activate(t) PROVE PullInv'
  <2>1. pending /\ pending' = FALSE /\ asking' \in {asking, asking \cup {t}} /\ owed' = owed /\ t \notin asking
    BY <1>5 DEF Activate, TakePull
  <2>2. Cardinality(asking \cup {t}) = Cardinality(asking) + 1
    BY <1>2, <2>1, FS_AddElement
  <2>3. asking' \subseteq Activators
    BY <1>1, <2>1
  <2>4. Cardinality(asking') <= Cardinality(asking) + 1 /\ Cardinality(asking') \in Nat
    <3>1. CASE asking' = asking
      BY <1>2, <3>1
    <3>2. CASE asking' = asking \cup {t}
      BY <1>2, <2>2, <3>2
    <3>3. QED BY <2>1, <3>1, <3>2
  <2>5. QED BY <1>1, <1>2, <2>1, <2>3, <2>4 DEF PullInv
<1>6. ASSUME NEW t \in Activators, SendAsk(t) PROVE PullInv'
  <2>1. pending' = pending /\ asking' = asking \ {t} /\ owed' = owed - 1 /\ t \in asking
    BY <1>6 DEF SendAsk
  <2>2. Cardinality(asking \ {t}) = Cardinality(asking) - 1
    BY <1>2, <2>1, FS_RemoveElement
  <2>3. QED BY <1>1, <1>2, <2>1, <2>2 DEF PullInv
<1>7. QED BY <1>3, <1>4, <1>5, <1>6

-----------------------------------------------------------------------------
LEMMA ClipNext == ClipInv /\ [Next]_vars => ClipInv'
<1> SUFFICES ASSUME ClipInv, [Next]_vars PROVE ClipInv'
  OBVIOUS
<1>1. EchoInv /\ StreamInv /\ PullInv
  BY DEF ClipInv
<1>2. EchoInv'
  <2>1. CASE PollStep \/ (\E s \in senders : SendEnds(s)) \/ Copy
    BY <1>1, <2>1, PollEcho, OtherEcho
  <2>2. CASE (\E t \in Appliers : ApplyStep(t)) \/ FromChannel \/ DataEnd
    BY <1>1, <2>2, ApplyEcho, InboundEcho
  <2>3. CASE \/ Answer \/ Chunk \/ Beat \/ Ask \/ Stop \/ ThreeSeconds \/ ThirtySeconds
             \/ \E t \in Activators : Activate(t) \/ SendAsk(t)
    <3>1. UNCHANGED echoVars
      BY <2>3 DEF Answer, Chunk, Beat, Ask, Stop, ThreeSeconds, ThirtySeconds, Activate,
         SendAsk, echoVars, selection, pollVars
    <3>2. QED BY <1>1, <3>1, EchoKept
  <2>4. CASE UNCHANGED vars
    BY <1>1, <2>4, EchoKept DEF vars, echoVars, selection, pollVars
  <2>5. QED BY <2>1, <2>2, <2>3, <2>4 DEF Next, Packet, Outside
<1>3. StreamInv'
  <2>1. CASE Chunk \/ DataEnd
    BY <1>1, <2>1, ChunkStream, EndStream
  <2>2. CASE \/ PollStep \/ (\E s \in senders : SendEnds(s)) \/ Answer
             \/ (\E t \in Appliers : ApplyStep(t)) \/ FromChannel \/ Beat \/ Ask
             \/ (\E t \in Activators : Activate(t) \/ SendAsk(t))
             \/ Stop \/ Outside \/ UNCHANGED vars
    <3>1. UNCHANGED inVars
      BY <2>2 DEF PollStep, Tick, Query, QueryFails, Compare, SendEnds, Answer, ApplyStep,
         RecordHash, SetSelection, SetFails, Mark, FromChannel, Beat, Ask, Activate, SendAsk,
         Stop, Outside, Copy, ThreeSeconds, ThirtySeconds, vars
    <3>2. QED BY <1>1, <3>1, StreamKept DEF inVars, bufVars, streamVars
  <2>3. QED BY <2>1, <2>2 DEF Next, Packet
<1>4. PullInv'
  <2>1. CASE \/ Chunk \/ Beat \/ \E t \in Activators : Activate(t) \/ SendAsk(t)
    BY <1>1, <2>1, PullSteps
  <2>2. CASE \/ PollStep \/ (\E s \in senders : SendEnds(s)) \/ Answer
             \/ (\E t \in Appliers : ApplyStep(t)) \/ FromChannel \/ DataEnd \/ Ask
             \/ Stop \/ Outside \/ UNCHANGED vars
    <3>1. UNCHANGED askVars
      BY <2>2 DEF PollStep, Tick, Query, QueryFails, Compare, SendEnds, Answer, ApplyStep,
         RecordHash, SetSelection, SetFails, Mark, FromChannel, DataEnd, Ask, Stop, Outside,
         Copy, ThreeSeconds, ThirtySeconds, vars, pullVars, askVars
    <3>2. QED BY <1>1, <3>1, PullKept
  <2>3. QED BY <2>1, <2>2 DEF Next, Packet
<1>5. QED BY <1>2, <1>3, <1>4 DEF ClipInv

-----------------------------------------------------------------------------
\* The poll never sends back what came from the peer, nor what was there before
\* the connection, while no xclip call fails and nothing overlaps with it.
THEOREM EchoFree == Spec => []NoEcho
<1>1. ClipInv => NoEcho
  BY DEF ClipInv, EchoInv, SendersInv, NoEcho
<1>2. QED BY <1>1, ClipInit, ClipNext, PTL DEF Spec

\* The receive loop and the capturer together pull a beat at most once.
THEOREM PulledOnce == Spec => []OnePull
<1>1. ClipInv => OnePull
  <2>1. SUFFICES ASSUME PullInv PROVE Cardinality(asking) <= owed
    BY DEF ClipInv, OnePull
  <2>2. Cardinality(asking) \in Nat
    BY <2>1, AskingFinite DEF PullInv
  <2>3. QED BY <2>1, <2>2 DEF PullInv
<1>2. QED BY <1>1, ClipInit, ClipNext, PTL DEF Spec

\* handleData and handleEnd apply a stream within the limit as it was sent and
\* one beyond it not at all, whatever stream came before.
THEOREM StreamsWhole == Spec => ReceivedIsSent
<1> DEFINE Whole == stream # None /\ stream' = None
                      => apply'["loop"].item = IF Fits(stream) THEN stream ELSE None
<1>1. ClipInv /\ [Next]_vars => [Whole]_vars
  <2> SUFFICES ASSUME ClipInv, Next, stream # None, stream' = None
               PROVE  apply'["loop"].item = IF Fits(stream) THEN stream ELSE None
    OBVIOUS
  <2>1. DataEnd
    BY DEF Next, PollStep, Tick, Query, QueryFails, Compare, SendEnds, Answer, ApplyStep,
       RecordHash, SetSelection, SetFails, Mark, FromChannel, Packet, Chunk, Beat, Ask,
       Activate, SendAsk, Stop, Outside, Copy, ThreeSeconds, ThirtySeconds, inVars
  <2>2. Decoded(stream) <=> Fits(stream)
    BY <2>1, DecodesIfFits DEF DataEnd, ClipInv
  <2>3. apply["loop"] = Idle /\ "loop" \in Appliers
    BY <2>1 DEF DataEnd, LoopFree, Appliers
  <2>4. CASE Decoded(stream)
    <3>1. apply' = [apply EXCEPT !["loop"] = [at |-> FirstStep(stream), item |-> stream]]
      BY <2>1, <2>4 DEF DataEnd, Applies
    <3>2. apply'["loop"] = [at |-> FirstStep(stream), item |-> stream]
      BY <2>3, <3>1 DEF ClipInv, EchoInv, ApplyType
    <3>3. QED BY <2>2, <2>4, <3>2
  <2>5. CASE ~Decoded(stream)
    BY <2>1, <2>2, <2>3, <2>5 DEF DataEnd, Idle
  <2>6. QED BY <2>4, <2>5
<1>2. QED BY <1>1, ClipInit, ClipNext, PTL DEF Spec, ReceivedIsSent

-----------------------------------------------------------------------------
\* What every variable holds.  An iteration of the poll compares only what it
\* has read, and only contents are hashed, set and marked.

Origins == {"before", "user", "remote"}
SelectionInv == /\ clip \in Items \cup {None} /\ by \in Origins
                /\ lastHash \in Items \cup {None}
ReadInv == /\ poll \in Queries \cup {"select", "compare"}
           /\ got \in Items \cup {None} /\ from \in Origins
           /\ poll = "compare" => got \in Items
SendInv == senders \subseteq [item : Items, by : Origins] /\ sent \subseteq Items
AppliedInv == \A t \in Appliers : apply[t].at # "idle" => apply[t].item \in Items
BufferInv == receiving \in BOOLEAN /\ recvIsImage \in BOOLEAN /\ first \in 1..2 * Room
FlagInv == /\ quiet \in BOOLEAN /\ answer \in BOOLEAN /\ pending \in BOOLEAN
           /\ fresh \in BOOLEAN /\ running \in BOOLEAN /\ disturbed \in BOOLEAN
           /\ broken \in BOOLEAN
ItemInv == SelectionInv /\ ReadInv /\ SendInv /\ AppliedInv

LEMMA FlagNext == FlagInv /\ Next => FlagInv'
<1> SUFFICES ASSUME FlagInv, Next PROVE FlagInv'
  OBVIOUS
<1>1. CASE PollStep
  BY <1>1 DEF PollStep, Tick, Query, QueryFails, Compare, pullVars, FlagInv
<1>2. CASE (\E s \in senders : SendEnds(s)) \/ Answer
  BY <1>2 DEF SendEnds, Answer, pullVars, FlagInv
<1>3. ASSUME NEW t \in Appliers, ApplyStep(t) PROVE FlagInv'
  <2>1. CASE RecordHash(t) \/ SetSelection(t)
    BY <2>1 DEF RecordHash, SetSelection, pullVars, FlagInv
  <2>2. CASE SetFails(t) \/ Mark(t)
    BY <2>2 DEF SetFails, Mark, pullVars, FlagInv
  <2>3. QED BY <1>3, <2>1, <2>2 DEF ApplyStep
<1>4. CASE FromChannel
  BY <1>4 DEF FromChannel, pullVars, FlagInv
<1>5. CASE DataEnd
  BY <1>5 DEF DataEnd, pullVars, FlagInv
<1>6. CASE Chunk \/ Beat \/ Ask
  BY <1>6 DEF Chunk, Beat, Ask, pullVars, FlagInv
<1>7. CASE \E t \in Activators : Activate(t) \/ SendAsk(t)
  BY <1>7 DEF Activate, TakePull, SendAsk, pullVars, FlagInv
<1>8. CASE Stop \/ Outside
  BY <1>8 DEF Stop, Outside, Copy, ThreeSeconds, ThirtySeconds, pullVars, FlagInv
<1>9. QED BY <1>1, <1>2, <1>3, <1>4, <1>5, <1>6, <1>7, <1>8 DEF Next, Packet

\* No packet beyond the last of a stream is numbered.
LEMMA BufferNext == ASSUME BufferInv, StreamInv, Next PROVE BufferInv'
<1>1. CASE Chunk
  <2>1. PICK c, n : HandleChunk(c, n) /\ n \in 1..2 * Room
    <3>1. 1 \in 1..2 * Room
      OBVIOUS
    <3>2. CASE stream # None
      <4>1. seen \in 1..Chunks(stream) /\ seen < Chunks(stream) /\ HandleChunk(stream, seen + 1)
        BY <1>1, <3>2 DEF Chunk, StreamInv
      <4>2. Chunks(stream) \in Nat /\ Chunks(stream) <= 2 * Room
        BY DEF Chunks
      <4>3. seen + 1 \in 1..2 * Room
        BY <4>1, <4>2
      <4>4. QED BY <4>1, <4>3
    <3>3. QED BY <1>1, <3>1, <3>2 DEF Chunk
  <2>2. CASE Starts(c, n)
    <3>1. (c \in Images) \in BOOLEAN
      OBVIOUS
    <3>2. QED BY <2>1, <2>2, <3>1 DEF Starts, BufferInv
  <2>3. CASE UNCHANGED <<recvIsImage, first>> /\ receiving' \in {receiving, FALSE}
    BY <2>3 DEF BufferInv
  <2>4. QED BY <2>1, <2>2, <2>3 DEF HandleChunk, Drop
<1>2. CASE DataEnd
  BY <1>2 DEF DataEnd, EndOfStream, Drop, BufferInv
<1>3. CASE ~Chunk /\ ~DataEnd
  <2>1. UNCHANGED inVars
    BY <1>3 DEF Next, PollStep, Tick, Query, QueryFails, Compare, SendEnds, Answer, ApplyStep,
       RecordHash, SetSelection, SetFails, Mark, FromChannel, Packet, Beat, Ask, Activate,
       SendAsk, Stop, Outside, Copy, ThreeSeconds, ThirtySeconds
  <2>2. QED BY <2>1 DEF inVars, bufVars, BufferInv
<1>4. QED BY <1>1, <1>2, <1>3

LEMMA PollItems == ASSUME ItemInv, PollStep PROVE ItemInv'
<1>1. SelectionInv' /\ ReadInv'
  BY DEF PollStep, Tick, Query, QueryFails, Compare, Found, OfferedText, GoesOn, Queries,
     ItemInv, SelectionInv, ReadInv, selection, Origins, Items
<1>2. SendInv'
  <2>1. got \in Items /\ from \in Origins
        => [item |-> got, by |-> from] \in [item : Items, by : Origins]
    OBVIOUS
  <2>2. QED BY <2>1 DEF PollStep, Tick, Query, QueryFails, Compare, ItemInv, ReadInv, SendInv
<1>3. AppliedInv'
  BY DEF PollStep, Tick, Query, QueryFails, Compare, ItemInv, AppliedInv
<1>4. QED BY <1>1, <1>2, <1>3 DEF ItemInv

LEMMA SendItems ==
  ASSUME ItemInv, (\E s \in senders : SendEnds(s)) \/ Answer \/ Copy
  PROVE  ItemInv'
<1>1. CASE \E s \in senders : SendEnds(s)
  <2>1. PICK s \in senders : SendEnds(s)
    BY <1>1
  <2>2. s.item \in Items
    BY DEF ItemInv, SendInv
  <2>3. SendInv'
    BY <2>1, <2>2 DEF SendEnds, ItemInv, SendInv
  <2>4. UNCHANGED <<selection, lastHash, pollVars, apply>>
    BY <2>1 DEF SendEnds
  <2>5. QED BY <2>3, <2>4 DEF selection, pollVars, ItemInv, SelectionInv, ReadInv, AppliedInv
<1>2. CASE Answer
  <2>1. SendInv'
    BY <1>2 DEF Answer, OfferedText, ItemInv, SendInv, Items
  <2>2. UNCHANGED <<selection, lastHash, pollVars, apply>>
    BY <1>2 DEF Answer
  <2>3. QED BY <2>1, <2>2 DEF selection, pollVars, ItemInv, SelectionInv, ReadInv, AppliedInv
<1>3. CASE Copy
  BY <1>3 DEF Copy, pollVars, ItemInv, SelectionInv, ReadInv, SendInv, AppliedInv, Origins
<1>4. QED BY <1>1, <1>2, <1>3

LEMMA ApplyItems ==
  ASSUME ItemInv, ApplyType, NEW t \in Appliers, ApplyStep(t)
  PROVE  ItemInv'
<1>1. apply[t].item \in Items
  BY DEF ApplyStep, RecordHash, SetSelection, SetFails, Mark, ItemInv, AppliedInv
<1>2. SelectionInv'
  BY <1>1 DEF ApplyStep, RecordHash, SetSelection, SetFails, Mark, selection, ItemInv,
     SelectionInv, Origins
<1>3. ReadInv' /\ SendInv'
  BY DEF ApplyStep, RecordHash, SetSelection, SetFails, Mark, pollVars, ItemInv, ReadInv, SendInv
<1>4. \/ apply' = [apply EXCEPT ![t] = Idle]
      \/ \E a \in Steps : apply' = [apply EXCEPT ![t] = [at |-> a, item |-> apply[t].item]]
  BY StepTo DEF ApplyStep, RecordHash, SetSelection, SetFails, Mark, Steps
<1>5. AppliedInv'
  BY <1>1, <1>4 DEF ItemInv, AppliedInv, ApplyType, Idle
<1>6. QED BY <1>2, <1>3, <1>5 DEF ItemInv

LEMMA BeginItems == ASSUME ItemInv, ApplyType, StreamInv, FromChannel \/ DataEnd PROVE ItemInv'
<1>1. SelectionInv' /\ ReadInv' /\ SendInv'
  BY DEF FromChannel, DataEnd, selection, pollVars, ItemInv, SelectionInv, ReadInv, SendInv
<1>2. \/ apply' = apply
      \/ \E t \in Appliers, c \in Items : Applies(t, c)
  BY DEF FromChannel, DataEnd, StreamInv, Appliers
<1>3. AppliedInv'
  BY <1>2 DEF Applies, ItemInv, AppliedInv, ApplyType
<1>4. QED BY <1>1, <1>3 DEF ItemInv

LEMMA ItemNext == ASSUME ItemInv, ApplyType, StreamInv, Next PROVE ItemInv'
<1>1. CASE \/ Chunk \/ Beat \/ Ask \/ Stop \/ ThreeSeconds \/ ThirtySeconds
           \/ \E t \in Activators : Activate(t) \/ SendAsk(t)
  <2>1. UNCHANGED <<selection, lastHash, pollVars, senders, sent, apply>>
    BY <1>1 DEF Chunk, Beat, Ask, Stop, ThreeSeconds, ThirtySeconds, Activate, SendAsk
  <2>2. QED BY <2>1 DEF selection, pollVars, ItemInv, SelectionInv, ReadInv, SendInv, AppliedInv
<1>2. QED BY <1>1, PollItems, SendItems, ApplyItems, BeginItems DEF Next, Packet, Outside

\* The receive buffer never holds more than maxRecvBuf allows, nor a packet that
\* the stream does not have, and nothing but contents is compared, sent, hashed
\* or set, for any contents and any limit.
THEOREM Typed == Spec => []TypeOK
<1> DEFINE I == ClipInv /\ ItemInv /\ BufferInv /\ FlagInv
<1>1. Init => I
  <2> SUFFICES ASSUME Init PROVE I
    OBVIOUS
  <2>1. ItemInv
    BY DEF Init, ItemInv, SelectionInv, ReadInv, SendInv, AppliedInv, Idle, Origins, Queries
  <2>2. BufferInv
    <3>1. 1 \in 1..2 * Room
      OBVIOUS
    <3>2. QED BY <3>1 DEF Init, BufferInv
  <2>3. FlagInv
    BY DEF Init, FlagInv
  <2>4. QED BY <2>1, <2>2, <2>3, ClipInit
<1>2. I /\ [Next]_vars => I'
  <2>1. I /\ Next => I'
    BY ClipNext, ItemNext, BufferNext, FlagNext DEF ClipInv, EchoInv
  <2>2. I /\ UNCHANGED vars => I'
    BY ClipNext DEF vars, selection, pollVars, inVars, bufVars, pullVars, ItemInv, SelectionInv,
       ReadInv, SendInv, AppliedInv, BufferInv, FlagInv
  <2>3. QED BY <2>1, <2>2
<1>3. I => TypeOK
  BY DEF ClipInv, EchoInv, ApplyType, StreamInv, PullInv, ItemInv, SelectionInv, ReadInv,
     SendInv, BufferInv, FlagInv, Origins, TypeOK
<1>4. QED BY <1>1, <1>2, <1>3, PTL DEF Spec
=============================================================================
