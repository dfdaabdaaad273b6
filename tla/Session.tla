------------------------------ MODULE Session ------------------------------
(***************************************************************************)
(* internal/network and internal/protocol: one control connection, from    *)
(* the encrypted prefix and the handshake through ReceiveLoop to Close.    *)
(*                                                                         *)
(* Goroutines of this end: loop (setup, ReceiveLoop, teardown), beat       *)
(* (startHeartbeat), and the senders of capture and clipboard.  Some of    *)
(* them are in a wait group and joined before Close: the monitors, the     *)
(* poll of the edge, the poll of the clipboard.  Others are in none: the   *)
(* burst of entry packets and the answer to a ClipboardAsk.  The peer is   *)
(* external: PowerToys as the code expects it, which reads before it       *)
(* writes.                                                                 *)
(*                                                                         *)
(* A packet is its type and whether it decrypts to what was written: CBC   *)
(* chains every block to the one before, so the first packet behind a hole *)
(* does not decrypt, magic and checksum refuse it, and its reader closes.  *)
(* SendPacket is one step while loop is alone (setup), and its atomic      *)
(* operations one by one afterwards.                                       *)
(***************************************************************************)
EXTENDS Integers, Sequences, FiniteSets

CONSTANTS
  Senders,    \* goroutines of capture and clipboard that send
  Greetings,  \* handshake packets each end sends (10 in the code)
  MaxReads,   \* packets doHandshake reads before it gives up (20)
  WrapAt,     \* nextID is reset at this value (0x7FFFFF00)
  MaxID,      \* the greatest int32
  Buffer,     \* packets the socket buffers hold once the connection is up
  EarlyMax    \* bound: other packets the peer sends before its last ack

Threads == {"loop", "beat"} \cup Senders
Nobody  == "nobody"

ASSUME SessionAssumption ==
  /\ IsFiniteSet(Senders) /\ Senders \cap {"loop", "beat", Nobody} = {}
  /\ Greetings \in Nat \ {0} /\ MaxReads \in Nat /\ Buffer \in Nat \ {0}
  /\ EarlyMax \in Nat
  /\ Greetings + EarlyMax < MaxReads
  /\ WrapAt \in Nat \ {0} /\ MaxID \in Nat
  /\ WrapAt + Cardinality(Threads) - 1 <= MaxID

VARIABLES
  pc,        \* loop's place in setup, session and teardown
  greeted,   \* handshake packets sent
  nreads,    \* packets doHandshake has read
  nextID,    \* c.nextID
  at,        \* per goroutine: its place in SendPacket
  load,      \* per goroutine: the type of the packet it sends
  writer,    \* holder of c.sendMu
  sealed,    \* goroutines whose packet is encrypted and not written, in order
  lost,      \* bytes were encrypted and not delivered
  joined,    \* the senders that are in a wait group
  stop,      \* ReceiveLoop's stop channel is closed
  out, in,   \* packets on their way to the peer and to this end
  peer,      \* external: the peer's place
  early      \* external: other packets it has sent before this end was up

sendVars == <<at, load, writer, sealed, nextID>>
wireVars == <<out, in, lost>>
peerVars == <<peer, early>>
setVars  == <<greeted, nreads>>
vars == <<pc, setVars, sendVars, wireVars, joined, stop, peerVars>>

Setup == {"prefix", "peerPrefix", "first", "greet", "await", "announce"}
\* ack: the challenge inverted; wrongAck: any other numbers.  beat: heartbeats,
\* Hi, and the answers to them; data: what the handler gets.
Kinds == {"prefix", "handshake", "ack", "wrongAck", "beat", "data", "input", "bye"}
Packet == [kind : Kinds, ok : BOOLEAN]

Init == /\ pc = "prefix"
        /\ greeted = 0 /\ nreads = 0 /\ nextID = 0
        /\ at = [t \in Threads |-> IF t = "loop" THEN "idle" ELSE "none"]
        /\ load = [t \in Threads |-> "beat"]
        /\ writer = Nobody /\ sealed = <<>> /\ lost = FALSE
        /\ joined = {}
        /\ stop = FALSE
        /\ out = <<>> /\ in = <<>>
        /\ peer = "prefix" /\ early = 0

\* StampPacket, Marshal and Write: a packet that decrypts iff no byte is missing.
Intact(k) == [kind |-> k, ok |-> ~lost]

\* int32 arithmetic of nextID.Add(1), and the reset before it.
Bump(n) == IF n = MaxID THEN -MaxID - 1 ELSE n + 1
\* Mutant: the reset comes only at the limit itself, without a margin.
WrapsAtLimit(n) == n >= MaxID
NeedsWrap(n) == n >= WrapAt
TakeID == nextID' = Bump(IF NeedsWrap(nextID) THEN 0 ELSE nextID)

\* RecvPacket: the next packet, if its magic and checksum are right.
CanRead == in # <<>>
Accepted == CanRead /\ Head(in).ok
Kind == Head(in).kind
Reads(k) == Accepted /\ Kind = k /\ in' = Tail(in)
ReadFails == \/ CanRead /\ ~Head(in).ok
             \/ ~CanRead /\ peer = "closed"

-----------------------------------------------------------------------------
\* Setup: loop alone.

\* Mutant: the peer's prefix is awaited before ours is sent.
ReadsBeforeSending == /\ pc = "prefix" /\ CanRead
                      /\ out' = Append(out, Intact("prefix"))
                      /\ pc' = "peerPrefix"
                      /\ UNCHANGED <<setVars, sendVars, in, lost, joined, stop, peerVars>>

\* newSecureStream: the salt and IV header and the random block go out ...
SendPrefix == /\ pc = "prefix"
              /\ out' = Append(out, Intact("prefix"))
              /\ pc' = "peerPrefix"
              /\ UNCHANGED <<setVars, sendVars, in, lost, joined, stop, peerVars>>

\* ... before the peer's are awaited.  Either end may have dialled; the one that
\* accepted waits for a first packet.
RecvPrefix == /\ pc = "peerPrefix"
              /\ Reads("prefix")
              /\ pc' \in {"greet", "first"}
              /\ UNCHANGED <<setVars, sendVars, out, lost, joined, stop, peerVars>>

\* It is not taken off the stream: doHandshake is given it as the first packet.
RecvFirst == /\ pc = "first"
             /\ Accepted
             /\ pc' = "greet"
             /\ UNCHANGED <<setVars, sendVars, wireVars, joined, stop, peerVars>>

\* Mutant: one handshake packet too many.
GreetOnceMore == /\ pc = "greet"
                 /\ out' = Append(out, Intact("handshake"))
                 /\ TakeID
                 /\ greeted' = greeted + 1
                 /\ pc' = IF greeted = Greetings THEN "await" ELSE "greet"
                 /\ UNCHANGED <<nreads, at, load, writer, sealed, in, lost, joined, stop,
                                peerVars>>

\* doHandshake: all the handshake packets go out ...
Greet == /\ pc = "greet"
         /\ out' = Append(out, Intact("handshake"))
         /\ TakeID
         /\ greeted' = greeted + 1
         /\ pc' = IF greeted + 1 = Greetings THEN "await" ELSE "greet"
         /\ UNCHANGED <<nreads, at, load, writer, sealed, in, lost, joined, stop,
                        peerVars>>

\* ... then each handshake of the peer is answered, until an ack comes.
Answer == /\ pc = "await" /\ nreads < MaxReads
          /\ Reads("handshake")
          /\ out' = Append(out, Intact("ack"))
          /\ TakeID
          /\ nreads' = nreads + 1
          /\ UNCHANGED <<pc, greeted, at, load, writer, sealed, lost, joined, stop,
                         peerVars>>

Skip == /\ pc = "await" /\ nreads < MaxReads
        /\ Accepted /\ Kind \notin {"handshake", "ack", "wrongAck"}
        /\ in' = Tail(in)
        /\ nreads' = nreads + 1
        /\ UNCHANGED <<pc, greeted, sendVars, out, lost, joined, stop, peerVars>>

\* The numbers of the acknowledgement are compared with the challenge.
Verified == /\ pc = "await" /\ nreads < MaxReads
            /\ Reads("ack")
            /\ nreads' = nreads + 1
            /\ pc' = "announce"
            /\ UNCHANGED <<greeted, sendVars, out, lost, joined, stop, peerVars>>

\* "handshake verification failed": the first wrong one ends the setup.
Refused == /\ pc = "await" /\ nreads < MaxReads
           /\ Reads("wrongAck")
           /\ pc' = "refused"
           /\ at' = [at EXCEPT !["loop"] = "none"]
           /\ UNCHANGED <<setVars, load, writer, sealed, nextID, out, lost, joined, stop,
                          peerVars>>

\* Mutant: the heartbeat goroutine is not started.
AnnounceOnly == /\ pc = "announce"
                /\ out' = Append(out, Intact("beat"))
                /\ TakeID
                /\ pc' = "up"
                /\ at' = [t \in Threads |-> IF t = "beat" THEN "none" ELSE "idle"]
                /\ greeted' = 0 /\ nreads' = 0 /\ early' = 0
                /\ joined' \in SUBSET Senders
                /\ UNCHANGED <<load, writer, sealed, in, lost, stop, peer>>

\* finishControlSetup's heartbeat; then ReceiveLoop starts the heartbeat
\* goroutine and capture and clipboard start theirs.
Announce == /\ pc = "announce"
            /\ out' = Append(out, Intact("beat"))
            /\ TakeID
            /\ pc' = "up"
            /\ at' = [t \in Threads |-> "idle"]
            /\ greeted' = 0 /\ nreads' = 0 /\ early' = 0
            /\ joined' \in SUBSET Senders
            /\ UNCHANGED <<load, writer, sealed, in, lost, stop, peer>>

\* Setup fails on a read, on a write to a closed connection, on the deadline,
\* and on too many packets without an ack.  A live peer is taken to answer
\* within the ten seconds of the deadline: it fires only when nothing more will
\* come.
Quiet == peer = "gone" \/ out = <<>>
Awaiting == pc \in {"peerPrefix", "first", "await"}
SetupFails == /\ pc \in Setup
              /\ \/ Awaiting /\ (ReadFails \/ (~CanRead /\ Quiet))
                 \/ pc = "await" /\ nreads = MaxReads
                 \/ pc \in {"prefix", "greet", "await", "announce"} /\ peer = "closed"
              /\ pc' = "closed"
              /\ at' = [at EXCEPT !["loop"] = "none"]
              /\ UNCHANGED <<setVars, load, writer, sealed, nextID, wireVars,
                             joined, stop, peerVars>>

-----------------------------------------------------------------------------
\* SendPacket by goroutine t, once several send.

Begin(t, k) == /\ at' = [at EXCEPT ![t] = IF NeedsWrap(nextID) THEN "reset" ELSE "add"]
               /\ load' = [load EXCEPT ![t] = k]

Reset(t) == /\ at[t] = "reset"
            /\ nextID' = 0
            /\ at' = [at EXCEPT ![t] = "add"]
            /\ UNCHANGED <<pc, setVars, load, writer, sealed, wireVars, joined, stop,
                           peerVars>>

Add(t) == /\ at[t] = "add"
          /\ nextID' = Bump(nextID)
          /\ at' = [at EXCEPT ![t] = "lock"]
          /\ UNCHANGED <<pc, setVars, load, writer, sealed, wireVars, joined, stop,
                         peerVars>>

\* Mutant: SendPacket does not take sendMu.
NoLock(t) == at[t] = "lock"

\* sendMu is taken, then the packet is encrypted ...
Lock(t) == writer = Nobody
Seal(t) == /\ at[t] = "lock"
           /\ Lock(t)
           /\ writer' = t
           /\ sealed' = Append(sealed, t)
           /\ at' = [at EXCEPT ![t] = "write"]
           /\ UNCHANGED <<pc, setVars, load, nextID, wireVars, joined, stop, peerVars>>

\* Where a goroutine goes when SendPacket has returned: startHeartbeat ends
\* with the first failure, everyone else goes on.
After(t, failed) == IF t = "beat" /\ failed THEN "gone" ELSE "idle"

Returned(t, failed) ==
  /\ writer' = Nobody
  /\ load' = [load EXCEPT ![t] = "beat"]
  /\ sealed' = Tail(sealed)
  /\ at' = [at EXCEPT ![t] = After(t, failed)]
  /\ pc' = IF t = "loop" /\ pc = "bye" THEN "closed" ELSE pc

\* ... and written: it decrypts if all that was encrypted before it is out.
Write(t) == /\ at[t] = "write"
            /\ pc # "closed"
            /\ Len(out) < Buffer
            /\ out' = Append(out, [kind |-> load[t], ok |-> ~lost /\ Head(sealed) = t])
            /\ Returned(t, FALSE)
            /\ UNCHANGED <<setVars, nextID, in, lost, joined, stop, peerVars>>

\* The 500 ms write deadline passes on full buffers, or a socket is closed.
WriteFails(t) == /\ at[t] = "write"
                 /\ Len(out) >= Buffer \/ pc = "closed" \/ peer = "closed"
                 /\ lost' = TRUE
                 /\ Returned(t, TRUE)
                 /\ UNCHANGED <<setVars, nextID, in, out, joined, stop, peerVars>>

-----------------------------------------------------------------------------
\* ReceiveLoop, its heartbeat, and the teardown of the reconnect loop.

Looping == pc = "up" /\ at["loop"] = "idle"

\* Hi is answered by Hello, a heartbeat by its like.
Respond == /\ Looping
           /\ Accepted /\ Kind = "beat"
           /\ in' = Tail(in)
           /\ Begin("loop", "beat")
           /\ UNCHANGED <<pc, setVars, writer, sealed, nextID, out, lost, joined, stop,
                          peerVars>>

\* Late handshake packets are ignored, the rest goes to the handler.
Dispatch == /\ Looping
            /\ Accepted /\ Kind \in {"handshake", "ack", "wrongAck", "data"}
            /\ in' = Tail(in)
            /\ UNCHANGED <<pc, setVars, sendVars, out, lost, joined, stop, peerVars>>

LoopEnds == /\ Looping
            /\ ReadFails \/ (Accepted /\ Kind = "bye")
            /\ stop' = TRUE
            /\ pc' = "drain"
            /\ in' = <<>>
            /\ UNCHANGED <<setVars, sendVars, out, lost, joined, peerVars>>

\* Capture and clipboard are stopped before Close says good-bye, and what is in
\* their wait groups is waited for.
Drained == \A s \in joined : at[s] = "gone"
Farewell == /\ pc = "drain"
            /\ Drained
            /\ Begin("loop", "bye")
            /\ pc' = "bye"
            /\ UNCHANGED <<setVars, writer, sealed, nextID, wireVars, joined, stop,
                           peerVars>>

\* The ticker and stop may both be ready: select takes either.
Tick == /\ at["beat"] = "idle"
        /\ Begin("beat", "beat")
        /\ UNCHANGED <<pc, setVars, writer, sealed, nextID, wireVars, joined, stop,
                       peerVars>>

BeatStops == /\ at["beat"] = "idle" /\ stop
             /\ at' = [at EXCEPT !["beat"] = "gone"]
             /\ UNCHANGED <<pc, setVars, load, writer, sealed, nextID, wireVars,
                            joined, stop, peerVars>>

Input(s) == /\ at[s] = "idle"
            /\ Begin(s, "input")
            /\ UNCHANGED <<pc, setVars, writer, sealed, nextID, wireVars, joined, stop,
                           peerVars>>

\* A joined sender ends when capture and clipboard are stopped, one that is in
\* no wait group when it has sent what it had to.
InputStops(s) == /\ at[s] = "idle"
                 /\ s \in joined => pc = "drain"
                 /\ at' = [at EXCEPT ![s] = "gone"]
                 /\ UNCHANGED <<pc, setVars, load, writer, sealed, nextID,
                                wireVars, joined, stop, peerVars>>

-----------------------------------------------------------------------------
\* External: the peer.

\* What reaches this end after ReceiveLoop has returned is read by nobody.
SaysAll(ks) == in' = IF stop THEN in
                     ELSE in \o [i \in DOMAIN ks |-> [kind |-> ks[i], ok |-> TRUE]]
Says(k) == SaysAll(<<k>>)
Opening == <<"prefix">> \o [i \in 1..Greetings |-> "handshake"]

\* It sends its own prefix and handshakes when it has read our prefix, answers
\* a handshake, rightly or not, and closes on a packet it cannot read and on a
\* good-bye.
PeerTakes ==
  /\ out # <<>> /\ peer \in {"prefix", "up"}
  /\ out' = Tail(out)
  /\ LET p == Head(out) IN
       \/ (~p.ok \/ p.kind = "bye") /\ peer' = "closed" /\ in' = in
       \/ p.ok /\ p.kind = "prefix" /\ peer' = "up" /\ SaysAll(Opening)
       \/ p.ok /\ p.kind = "handshake" /\ peer' = peer /\ (Says("ack") \/ Says("wrongAck"))
       \/ p.ok /\ p.kind \notin {"bye", "prefix", "handshake"} /\ UNCHANGED <<peer, in>>
  /\ UNCHANGED <<pc, setVars, sendVars, lost, joined, stop, early>>

\* Packets that are none of the handshake's, and those of a session.
PeerTalksEarly == /\ peer = "up" /\ pc \in Setup /\ early < EarlyMax
                  /\ Says("data")
                  /\ early' = early + 1
                  /\ UNCHANGED <<pc, setVars, sendVars, out, lost, joined, stop, peer>>

PeerTalks == /\ peer = "up" /\ pc = "up" /\ Len(in) < Buffer
             /\ Says("beat")
             /\ UNCHANGED <<pc, setVars, sendVars, out, lost, joined, stop, peerVars>>

PeerLeaves == /\ peer = "up" /\ pc = "up"
              /\ Says("bye")
              /\ peer' = "closed"
              /\ UNCHANGED <<pc, setVars, sendVars, out, lost, joined, stop, early>>

Peer(from, to) == /\ peer = from
                  /\ peer' = to
                  /\ UNCHANGED <<pc, setVars, sendVars, wireVars, joined, stop, early>>

\* It disappears, which TCP's keepalive notices; it drops a client that sends
\* no heartbeat; and it notices that this end has closed.
PeerVanishes == \E s \in {"prefix", "up"} : Peer(s, "gone")
KeepAlive    == Peer("gone", "closed")
PeerDrops    == at["beat"] = "gone" /\ Peer("up", "closed")

-----------------------------------------------------------------------------
LoopStep == \/ SendPrefix \/ RecvPrefix \/ RecvFirst \/ Greet \/ Answer \/ Skip
            \/ Verified \/ Refused \/ Announce \/ SetupFails \/ Respond \/ Dispatch
            \/ LoopEnds \/ Farewell
SendStep(t) == Reset(t) \/ Add(t) \/ Seal(t) \/ Write(t) \/ WriteFails(t)
PeerStep == \/ PeerTakes \/ PeerLeaves \/ PeerVanishes
            \/ PeerTalksEarly \/ PeerTalks

Next == \/ LoopStep
        \/ \E t \in Threads : SendStep(t)
        \/ Tick \/ BeatStops
        \/ \E s \in Senders : Input(s) \/ InputStops(s)
        \/ PeerStep \/ KeepAlive \/ PeerDrops

\* Goroutines run; a Go mutex is not passed over for ever; a stopped sender
\* looks at its stop channel, any other one ends; a live peer reads.
Fairness == /\ WF_vars(LoopStep)
            /\ \A t \in Threads : WF_vars(Reset(t) \/ Add(t) \/ Write(t) \/ WriteFails(t))
            /\ \A t \in Threads : SF_vars(Seal(t))
            /\ WF_vars(Tick) /\ \A s \in Senders : SF_vars(InputStops(s))
            /\ WF_vars(PeerTakes)
            /\ WF_vars(KeepAlive) /\ WF_vars(PeerDrops)

Spec == Init /\ [][Next]_vars /\ Fairness

-----------------------------------------------------------------------------
Places == {"none", "idle", "reset", "add", "lock", "write", "gone"}

\* Each variable has its type: the fields of Conn and the locals of
\* doHandshake, ReceiveLoop and startHeartbeat.
TypeOK == /\ pc \in Setup \cup {"refused", "up", "drain", "bye", "closed"}
          /\ greeted \in 0..Greetings /\ nreads \in 0..MaxReads
          /\ nextID \in -MaxID - 1 .. MaxID
          /\ at \in [Threads -> Places] /\ load \in [Threads -> Kinds]
          /\ writer \in Threads \cup {Nobody} /\ sealed \in Seq(Threads)
          /\ lost \in BOOLEAN /\ joined \in SUBSET Senders /\ stop \in BOOLEAN
          /\ out \in Seq(Packet) /\ in \in Seq(Packet)
          /\ peer \in {"prefix", "up", "gone", "closed"}
          /\ early \in 0..EarlyMax

\* The ID SendPacket has just taken is never negative and never zero, although
\* the test, the reset and the increment are three steps that other senders
\* come between: nextID is never below zero, and every ID is one above it.
IDsPositive == nextID >= 0

\* What the peer reads is what was written, in that order, up to the first
\* write that was cut short; the bytes after such a hole are never taken for a
\* packet.  SendPacket's mutex, the cipher's chain and ValidatePacket together
\* make the encrypted stream a Pipe.
Stream == INSTANCE Pipe WITH flow <- [i \in DOMAIN out |-> out[i].ok],
                             hole <- lost,
                             shut <- peer \in {"gone", "closed"}
StreamIsPipe == Stream!PSpec

\* "Stop capture first - prevents in-flight SendPacket after conn.Close()", says
\* main.go: once the connection is closed no goroutine is anywhere in SendPacket
\* with a packet of capture or clipboard.  The code does not do that for the
\* goroutines it does not join.
Sending(t) == at[t] \in {"reset", "add", "lock", "write"}
NoSendAfterClose == pc = "closed" => \A t \in Threads : Sending(t) => load[t] # "input"

\* Whoever dialled, the setup succeeds unless the peer goes away or answers the
\* challenge wrongly: neither end waits for a prefix or a first packet the other
\* withholds, and the packets doHandshake reads suffice.
SetupSucceeds == <>(pc \in {"up", "refused"} \/ peer \in {"gone", "closed"})

\* A write that was cut short ends the session: the next packet, a heartbeat
\* at the latest, is refused by the peer, or the peer misses the heartbeat.
LostEndsSession == lost ~> pc = "closed"
=============================================================================
