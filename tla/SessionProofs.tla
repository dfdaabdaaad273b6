---------------------------- MODULE SessionProofs ----------------------------
(***************************************************************************)
(* Proofs about module Session, for any senders, any of them joined, any   *)
(* number of handshakes, any buffers, and any limit of the packet ID that  *)
(* leaves a margin of one less than there are goroutines.  The inductive   *)
(* invariant bounds the ID together with the increments that are still to  *)
(* come, and says who may have encrypted a packet that is not written yet. *)
(***************************************************************************)
EXTENDS Session, SequenceTheorems, FiniteSetTheorems, TLAPS

\* The goroutines that have tested nextID and not incremented it.
DueSet == {t \in Threads : at[t] = "add"}

\* nextID, with every increment that is due, stays within the margin.
IDInv == /\ nextID \in Nat
         /\ nextID + Cardinality(DueSet) <= WrapAt + Cardinality(Threads) - 1

\* During setup loop is alone.
PlaceInv ==
  /\ pc \in Setup => at["loop"] = "idle" /\ \A t \in Threads \ {"loop"} : at[t] = "none"
  /\ pc = "drain" => at["loop"] = "idle"
  /\ pc \in {"prefix", "peerPrefix", "first"} => greeted = 0
  /\ pc = "greet" => greeted < Greetings

\* Only the holder of sendMu has encrypted a packet that is not written.
SealInv ==
  /\ \A t \in Threads : at[t] = "write" => writer = t
  /\ sealed = IF writer \in Threads THEN <<writer>> ELSE <<>>

SessionInv == TypeOK /\ IDInv /\ PlaceInv /\ SealInv

USE SessionAssumption DEF SessionAssumption

LEMMA ThreadsFinite ==
  /\ IsFiniteSet(Threads) /\ Cardinality(Threads) \in Nat \ {0}
  /\ WrapAt <= MaxID
<1>1. IsFiniteSet({"loop"}) /\ IsFiniteSet({"loop"} \cup {"beat"})
  BY FS_Singleton, FS_AddElement
<1>2. IsFiniteSet(({"loop"} \cup {"beat"}) \cup Senders)
  BY <1>1, FS_Union
<1>3. Threads = ({"loop"} \cup {"beat"}) \cup Senders
  BY DEF Threads
<1>4. IsFiniteSet(Threads) /\ Cardinality(Threads) \in Nat
  BY <1>2, <1>3, FS_CardinalityType
<1>5. Cardinality(Threads) # 0
  BY <1>4, FS_EmptySet DEF Threads
<1>6. QED BY <1>4, <1>5

LEMMA DueFinite ==
  /\ IsFiniteSet(DueSet) /\ Cardinality(DueSet) \in Nat
  /\ Cardinality(DueSet) <= Cardinality(Threads)
<1>1. DueSet \subseteq Threads
  BY DEF DueSet
<1>2. QED BY <1>1, ThreadsFinite, FS_Subset, FS_CardinalityType

LEMMA DueFiniteNext ==
  /\ IsFiniteSet(DueSet') /\ Cardinality(DueSet') \in Nat
  /\ Cardinality(DueSet') <= Cardinality(Threads)
<1>1. DueSet' \subseteq Threads
  BY DEF DueSet
<1>2. QED BY <1>1, ThreadsFinite, FS_Subset, FS_CardinalityType

LEMMA SenderNames == \A s \in Senders : s \in Threads /\ s \notin {"loop", "beat", Nobody}
BY DEF Threads

-----------------------------------------------------------------------------
\* Packets.

LEMMA AppendPacket ==
  ASSUME NEW s \in Seq(Packet), NEW k \in Kinds, NEW b \in BOOLEAN
  PROVE  Append(s, [kind |-> k, ok |-> b]) \in Seq(Packet)
BY DEF Packet

LEMMA TailPacket ==
  ASSUME NEW s \in Seq(Packet), s # <<>>
  PROVE  Tail(s) \in Seq(Packet) /\ Head(s) \in Packet
BY HeadTailProperties

\* What the peer says is packets.
LEMMA SaysPacket ==
  ASSUME TypeOK, NEW ks \in Seq(Kinds), SaysAll(ks)
  PROVE  in' \in Seq(Packet)
<1> DEFINE new == [i \in DOMAIN ks |-> [kind |-> ks[i], ok |-> TRUE]]
<1>1. new \in Seq(Packet)
  <2>1. DOMAIN ks = 1..Len(ks) /\ Len(ks) \in Nat /\ \A i \in 1..Len(ks) : ks[i] \in Kinds
    BY LenProperties, ElementOfSeq
  <2>2. \A i \in 1..Len(ks) : [kind |-> ks[i], ok |-> TRUE] \in Packet
    BY <2>1 DEF Packet
  <2>3. QED BY <2>1, <2>2, IsASeq
<1>2. in \in Seq(Packet)
  BY DEF TypeOK
<1>3. in \o new \in Seq(Packet)
  BY <1>1, <1>2, ConcatProperties
<1>4. QED BY <1>2, <1>3 DEF SaysAll

LEMMA OpeningKinds == Opening \in Seq(Kinds)
<1>1. <<"prefix">> \in Seq(Kinds)
  BY DEF Kinds
<1>2. [i \in 1..Greetings |-> "handshake"] \in Seq(Kinds)
  BY IsASeq DEF Kinds
<1>3. QED BY <1>1, <1>2, ConcatProperties DEF Opening

LEMMA SessionInit == Init => SessionInv
<1> SUFFICES ASSUME Init PROVE SessionInv
  OBVIOUS
<1>1. TypeOK
  <2>1. 0 \in 0..Greetings /\ 0 \in 0..EarlyMax /\ 0 \in 0..MaxReads
        /\ 0 \in -MaxID - 1 .. MaxID
    OBVIOUS
  <2>2. at \in [Threads -> Places] /\ load \in [Threads -> Kinds]
    BY DEF Init, Places, Kinds
  <2>3. /\ greeted \in 0..Greetings /\ nreads \in 0..MaxReads /\ early \in 0..EarlyMax
        /\ nextID \in -MaxID - 1 .. MaxID
    BY <2>1 DEF Init
  <2>4. sealed \in Seq(Threads) /\ out \in Seq(Packet) /\ in \in Seq(Packet)
    BY DEF Init
  <2>5. QED BY <2>2, <2>3, <2>4 DEF Init, TypeOK, Setup
<1>2. IDInv
  <2>1. DueSet = {}
    BY DEF Init, DueSet
  <2>2. Cardinality(DueSet) = 0
    BY <2>1, FS_EmptySet
  <2>3. QED BY <2>2, ThreadsFinite DEF Init, IDInv
<1>3. PlaceInv /\ SealInv
  BY DEF Init, PlaceInv, SealInv, Setup, Threads, Nobody
<1>4. QED BY <1>1, <1>2, <1>3 DEF SessionInv

-----------------------------------------------------------------------------
\* The packet ID.

\* SendPacket while loop is alone.
LEMMA TakeIDInv ==
  ASSUME SessionInv, TakeID, \A t \in Threads : at[t] # "add" /\ at'[t] # "add"
  PROVE  nextID' \in -MaxID - 1 .. MaxID /\ IDInv'
<1>1. DueSet' = {}
  BY DEF DueSet
<1>2. Cardinality(DueSet') = 0
  BY <1>1, FS_EmptySet
<1>3. nextID \in Nat
  BY DEF SessionInv, IDInv
<1>4. nextID' \in Nat /\ nextID' <= WrapAt
  BY <1>3, ThreadsFinite DEF TakeID, Bump, NeedsWrap
<1>5. IDInv'
  BY <1>2, <1>4, ThreadsFinite DEF IDInv
<1>6. QED BY <1>4, <1>5, ThreadsFinite

\* A sender that has seen the limit resets nextID, whatever is due elsewhere.
LEMMA BeginInv ==
  ASSUME SessionInv, NEW t \in Threads, NEW k \in Kinds, Begin(t, k), at[t] = "idle",
         nextID' = nextID
  PROVE  /\ IDInv' /\ at' \in [Threads -> Places] /\ load' \in [Threads -> Kinds]
         /\ \A u \in Threads : at'[u] = "write" <=> at[u] = "write"
         /\ \A u \in Threads \ {t} : at'[u] = at[u]
<1>1. /\ at \in [Threads -> Places] /\ load \in [Threads -> Kinds] /\ nextID \in Nat
  BY DEF SessionInv, TypeOK, IDInv
<1>2. at' = [at EXCEPT ![t] = IF NeedsWrap(nextID) THEN "reset" ELSE "add"]
  BY DEF Begin
<1>3. /\ at' \in [Threads -> Places] /\ load' \in [Threads -> Kinds]
      /\ \A u \in Threads : at'[u] = "write" <=> at[u] = "write"
      /\ \A u \in Threads \ {t} : at'[u] = at[u]
  BY <1>1, <1>2 DEF Begin, Places
<1>4. IDInv'
  <2>1. CASE NeedsWrap(nextID)
    <3>1. DueSet' = DueSet
      BY <1>1, <1>2, <2>1 DEF DueSet
    <3>2. QED BY <3>1 DEF SessionInv, IDInv
  <2>2. CASE ~NeedsWrap(nextID)
    <3>1. nextID <= WrapAt - 1
      BY <1>1, <2>2 DEF NeedsWrap
    <3>2. QED BY <1>1, <3>1, DueFiniteNext, ThreadsFinite DEF IDInv
  <2>3. QED BY <2>1, <2>2
<1>5. QED BY <1>3, <1>4

LEMMA SendStepID ==
  ASSUME SessionInv, NEW t \in Threads, Reset(t) \/ Add(t)
  PROVE  nextID' \in -MaxID - 1 .. MaxID /\ IDInv'
<1>1. at \in [Threads -> Places] /\ nextID \in Nat
  BY DEF SessionInv, TypeOK, IDInv
<1>2. CASE Reset(t)
  <2>1. nextID' = 0
    BY <1>2 DEF Reset
  <2>2. IDInv'
    BY <2>1, DueFiniteNext, ThreadsFinite DEF IDInv
  <2>3. QED BY <2>1, <2>2
<1>3. CASE Add(t)
  <2>1. DueSet' = DueSet \ {t} /\ t \in DueSet
    BY <1>1, <1>3 DEF Add, DueSet
  <2>2. Cardinality(DueSet') = Cardinality(DueSet) - 1
    BY <2>1, DueFinite, FS_RemoveElement
  <2>3. Cardinality(DueSet) # 0
    BY <2>1, DueFinite, FS_EmptySet
  <2>4. nextID + 1 <= WrapAt + Cardinality(Threads) - 1
    BY <1>1, <2>3, DueFinite, ThreadsFinite DEF SessionInv, IDInv
  <2>5. nextID' = nextID + 1
    BY <1>1, <1>3, <2>4, ThreadsFinite DEF Add, Bump
  <2>6. IDInv'
    BY <1>1, <2>2, <2>5, DueFinite, ThreadsFinite DEF SessionInv, IDInv
  <2>7. QED BY <1>1, <2>4, <2>5, <2>6, ThreadsFinite
<1>4. QED BY <1>2, <1>3

\* The steps that neither send nor change nextID.
LEMMA KeepID ==
  ASSUME SessionInv, nextID' = nextID,
         \A t \in Threads : at'[t] = "add" => at[t] = "add"
  PROVE  IDInv'
<1>1. DueSet' \subseteq DueSet
  BY DEF DueSet
<1>2. Cardinality(DueSet') <= Cardinality(DueSet)
  BY <1>1, DueFinite, FS_Subset
<1>3. QED BY <1>2, DueFinite, DueFiniteNext, ThreadsFinite DEF SessionInv, IDInv

-----------------------------------------------------------------------------
\* Setup.

LEMMA SetupInv ==
  ASSUME SessionInv,
         \/ SendPrefix \/ RecvPrefix \/ RecvFirst \/ Greet \/ Answer \/ Skip \/ Verified
  PROVE  SessionInv'
<1>1. /\ pc \in Setup /\ pc' \in Setup
      /\ UNCHANGED <<at, load, writer, sealed, lost, joined, stop, peer, early>>
  BY DEF SendPrefix, RecvPrefix, RecvFirst, Greet, Answer, Skip, Verified, Setup,
     sendVars, wireVars, peerVars
<1>2. out' \in Seq(Packet)
  <2>1. out' = out \/ \E k \in Kinds : out' = Append(out, Intact(k))
    BY DEF SendPrefix, RecvPrefix, RecvFirst, Greet, Answer, Skip, Verified, Kinds, wireVars
  <2>2. QED BY <2>1, AppendPacket DEF SessionInv, TypeOK, Intact
<1>3. in' \in Seq(Packet)
  <2>1. in' = in \/ (in # <<>> /\ in' = Tail(in))
    BY DEF SendPrefix, RecvPrefix, RecvFirst, Greet, Answer, Skip, Verified, wireVars,
       Reads, Accepted, CanRead
  <2>2. QED BY <2>1, TailPacket DEF SessionInv, TypeOK
<1>4. nextID' \in -MaxID - 1 .. MaxID /\ IDInv'
  <2>1. \A t \in Threads : at[t] # "add" /\ at'[t] # "add"
    BY <1>1 DEF SessionInv, PlaceInv, Threads
  <2>2. CASE TakeID
    BY <2>1, <2>2, TakeIDInv
  <2>3. CASE nextID' = nextID
    BY <2>1, <2>3, KeepID DEF SessionInv, TypeOK
  <2>4. QED BY <2>2, <2>3 DEF SendPrefix, RecvPrefix, RecvFirst, Greet, Answer, Skip,
               Verified, sendVars
<1>5. PlaceInv' /\ greeted' \in 0..Greetings
  BY <1>1 DEF SessionInv, TypeOK, PlaceInv, SendPrefix, RecvPrefix, RecvFirst, Greet,
     Answer, Skip, Verified, Setup, setVars
<1>6. nreads' \in 0..MaxReads
  BY DEF SessionInv, TypeOK, SendPrefix, RecvPrefix, RecvFirst, Greet, Answer, Skip,
     Verified, setVars
<1>7. TypeOK'
  BY <1>1, <1>2, <1>3, <1>4, <1>5, <1>6 DEF SessionInv, TypeOK
<1>8. SealInv'
  BY <1>1 DEF SessionInv, SealInv
<1>9. QED BY <1>4, <1>5, <1>7, <1>8 DEF SessionInv

\* The other goroutines start: nothing is due and nothing is sealed.
LEMMA AnnounceInv == ASSUME SessionInv, Announce PROVE SessionInv'
<1>1. /\ pc = "announce" /\ pc' = "up" /\ at' = [t \in Threads |-> "idle"]
      /\ greeted' = 0 /\ nreads' = 0 /\ early' = 0
      /\ UNCHANGED <<load, writer, sealed, in, lost, stop, peer>>
      /\ joined' \in SUBSET Senders
  BY DEF Announce
<1>2. \A t \in Threads : at[t] # "add" /\ at[t] # "write" /\ at'[t] = "idle"
  BY <1>1 DEF SessionInv, PlaceInv, Threads, Setup
<1>3. nextID' \in -MaxID - 1 .. MaxID /\ IDInv'
  BY <1>2, TakeIDInv DEF Announce
<1>4. out' \in Seq(Packet)
  BY AppendPacket DEF Announce, Intact, SessionInv, TypeOK, Kinds
<1>5. TypeOK'
  BY <1>1, <1>3, <1>4 DEF SessionInv, TypeOK, Places
<1>6. PlaceInv'
  BY <1>1 DEF PlaceInv, Setup
<1>7. SealInv'
  BY <1>1, <1>2 DEF SessionInv, SealInv
<1>8. QED BY <1>3, <1>5, <1>6, <1>7 DEF SessionInv

LEMMA SetupFailsInv == ASSUME SessionInv, SetupFails \/ Refused PROVE SessionInv'
<1>1. /\ pc \in Setup /\ pc' \in {"closed", "refused"} /\ at' = [at EXCEPT !["loop"] = "none"]
      /\ UNCHANGED <<greeted, load, writer, sealed, nextID, out, lost, joined, stop, peer,
                     early>>
  BY DEF SetupFails, Refused, setVars, wireVars, peerVars, Setup
<1>2. /\ at' \in [Threads -> Places]
      /\ \A t \in Threads : at'[t] = "none" \/ at'[t] = at[t]
  BY <1>1 DEF SessionInv, TypeOK, PlaceInv, Threads, Places
<1>2a. nreads' \in 0..MaxReads
  BY DEF SetupFails, Refused, setVars, SessionInv, TypeOK
<1>2b. in' \in Seq(Packet)
  <2>1. in' = in \/ (in # <<>> /\ in' = Tail(in))
    BY DEF SetupFails, Refused, wireVars, Reads, Accepted, CanRead
  <2>2. QED BY <2>1, TailPacket DEF SessionInv, TypeOK
<1>3. TypeOK'
  BY <1>1, <1>2, <1>2a, <1>2b DEF SessionInv, TypeOK
<1>4. IDInv'
  BY <1>1, <1>2, KeepID
<1>5. PlaceInv' /\ SealInv'
  BY <1>1, <1>2 DEF SessionInv, PlaceInv, SealInv, Setup
<1>6. QED BY <1>3, <1>4, <1>5 DEF SessionInv

-----------------------------------------------------------------------------
\* SendPacket.

LEMMA CountInv == ASSUME SessionInv, NEW t \in Threads, Reset(t) \/ Add(t) PROVE SessionInv'
<1>1. /\ at[t] \in {"reset", "add"}
      /\ at' = [at EXCEPT ![t] = IF at[t] = "reset" THEN "add" ELSE "lock"]
      /\ UNCHANGED <<pc, greeted, nreads, load, writer, sealed, out, in, lost, joined, stop,
                     peer, early>>
  BY DEF Reset, Add, setVars, wireVars, peerVars
<1>2. /\ at' \in [Threads -> Places] /\ at'[t] \in {"add", "lock"}
      /\ \A u \in Threads \ {t} : at'[u] = at[u]
  BY <1>1 DEF SessionInv, TypeOK, Places
<1>3. nextID' \in -MaxID - 1 .. MaxID /\ IDInv'
  BY SendStepID
<1>4. TypeOK'
  BY <1>1, <1>2, <1>3 DEF SessionInv, TypeOK
<1>5. PlaceInv' /\ SealInv'
  BY <1>1, <1>2 DEF SessionInv, PlaceInv, SealInv, Threads
<1>6. QED BY <1>3, <1>4, <1>5 DEF SessionInv

LEMMA SealStepInv == ASSUME SessionInv, NEW t \in Threads, Seal(t) PROVE SessionInv'
<1>1. /\ at[t] = "lock" /\ writer = Nobody /\ writer' = t
      /\ at' = [at EXCEPT ![t] = "write"]
      /\ UNCHANGED <<pc, greeted, nreads, nextID, load, out, in, lost, joined, stop, peer, early>>
  BY DEF Seal, Lock, setVars, wireVars, peerVars
<1>2. /\ at' \in [Threads -> Places] /\ at'[t] = "write"
      /\ \A u \in Threads \ {t} : at'[u] = at[u]
  BY <1>1 DEF SessionInv, TypeOK, Places
<1>3. sealed' = <<t>>
  <2>1. sealed = <<>>
    BY <1>1 DEF SessionInv, SealInv, Nobody, Threads
  <2>2. QED BY <2>1 DEF Seal
<1>4. TypeOK'
  BY <1>1, <1>2, <1>3 DEF SessionInv, TypeOK
<1>5. IDInv'
  BY <1>1, <1>2, KeepID
<1>6. PlaceInv'
  BY <1>1, <1>2 DEF SessionInv, PlaceInv, Threads
<1>7. SealInv'
  BY <1>1, <1>2, <1>3 DEF SessionInv, SealInv, Nobody, Threads
<1>8. QED BY <1>4, <1>5, <1>6, <1>7 DEF SessionInv

\* Whoever writes holds the lock and has sealed the only packet.
LEMMA Holder ==
  ASSUME SessionInv, NEW t \in Threads, at[t] = "write"
  PROVE  /\ writer = t /\ sealed = <<t>> /\ Head(sealed) = t /\ Tail(sealed) = <<>>
         /\ \A u \in Threads \ {t} : at[u] # "write"
BY DEF SessionInv, SealInv

\* SendPacket returns, with or without an error.
LEMMA ReturnedInv ==
  ASSUME SessionInv, NEW t \in Threads, NEW failed \in BOOLEAN, at[t] = "write",
         Returned(t, failed), out' \in Seq(Packet), lost' \in BOOLEAN,
         UNCHANGED <<setVars, nextID, in, joined, stop, peerVars>>
  PROVE  SessionInv'
<1>1. /\ writer' = Nobody /\ sealed' = <<>>
      /\ load' = [load EXCEPT ![t] = "beat"]
      /\ at' = [at EXCEPT ![t] = After(t, failed)]
      /\ pc' = IF t = "loop" /\ pc = "bye" THEN "closed" ELSE pc
      /\ UNCHANGED <<greeted, nreads, nextID, in, joined, stop, peer, early>>
  BY Holder DEF Returned, setVars, peerVars
<1>2. /\ at' \in [Threads -> Places] /\ load' \in [Threads -> Kinds]
      /\ at'[t] \in {"gone", "idle"}
      /\ \A u \in Threads \ {t} : at'[u] = at[u] /\ at[u] # "write"
  BY <1>1, Holder DEF SessionInv, TypeOK, Places, Kinds, After
<1>3. pc' = pc \/ (pc = "bye" /\ pc' = "closed")
  BY <1>1
<1>4. TypeOK'
  BY <1>1, <1>2, <1>3 DEF SessionInv, TypeOK, Nobody
<1>5. IDInv'
  BY <1>1, <1>2, KeepID
<1>6. PlaceInv'
  <2>1. pc \notin Setup
    BY DEF SessionInv, PlaceInv, Threads
  <2>2. pc' \notin Setup /\ pc' \notin {"prefix", "peerPrefix", "first", "greet"}
    BY <1>3, <2>1 DEF Setup
  <2>3. pc' = "drain" => at'["loop"] = "idle"
    <3>1. ASSUME pc' = "drain" PROVE at["loop"] = "idle" /\ t # "loop"
      BY <1>3, <3>1 DEF SessionInv, PlaceInv
    <3>2. QED BY <1>2, <3>1 DEF Threads
  <2>4. QED BY <2>2, <2>3 DEF SessionInv, PlaceInv
<1>7. SealInv'
  BY <1>1, <1>2 DEF SealInv, Nobody, Threads
<1>8. QED BY <1>4, <1>5, <1>6, <1>7 DEF SessionInv

LEMMA WriteInv ==
  ASSUME SessionInv, NEW t \in Threads, Write(t) \/ WriteFails(t)
  PROVE  SessionInv'
<1>1. load[t] \in Kinds /\ out \in Seq(Packet) /\ lost \in BOOLEAN
  BY DEF SessionInv, TypeOK
<1>2. CASE Write(t)
  <2>1. (~lost /\ Head(sealed) = t) \in BOOLEAN
    OBVIOUS
  <2>2. out' \in Seq(Packet)
    BY <1>1, <1>2, <2>1, AppendPacket DEF Write
  <2>3. QED BY <1>1, <1>2, <2>2, ReturnedInv DEF Write
<1>3. CASE WriteFails(t)
  BY <1>1, <1>3, ReturnedInv DEF WriteFails
<1>4. QED BY <1>2, <1>3

-----------------------------------------------------------------------------
\* ReceiveLoop, the heartbeat and the teardown.

LEMMA StartsSendInv ==
  ASSUME SessionInv, Respond \/ Farewell \/ Tick \/ \E s \in Senders : Input(s)
  PROVE  SessionInv'
<1>1. PICK t \in Threads, k \in Kinds :
        /\ Begin(t, k) /\ at[t] = "idle"
        /\ t = "loop" => pc \in {"up", "drain"}
        /\ UNCHANGED <<greeted, nreads, nextID, writer, sealed, out, lost, joined, stop, peer,
                       early>>
  <2>1. CASE Respond
    BY <2>1 DEF Respond, Looping, setVars, peerVars, Threads, Kinds
  <2>2. CASE Tick
    BY <2>2 DEF Tick, setVars, wireVars, peerVars, Threads, Kinds
  <2>3. CASE \E s \in Senders : Input(s)
    BY <2>3, SenderNames DEF Input, setVars, wireVars, peerVars, Kinds
  <2>4. CASE Farewell
    <3>1. at["loop"] = "idle"
      BY <2>4 DEF Farewell, SessionInv, PlaceInv
    <3>2. QED BY <2>4, <3>1 DEF Farewell, setVars, wireVars, peerVars, Threads, Kinds
  <2>5. QED BY <2>1, <2>2, <2>3, <2>4
<1>2. /\ IDInv' /\ at' \in [Threads -> Places] /\ load' \in [Threads -> Kinds]
      /\ \A u \in Threads : at'[u] = "write" <=> at[u] = "write"
      /\ \A u \in Threads \ {t} : at'[u] = at[u]
  BY <1>1, BeginInv
<1>3. in' \in Seq(Packet)
  <2>1. in' = in \/ (in # <<>> /\ in' = Tail(in))
    BY DEF Respond, Farewell, Tick, Input, wireVars, Accepted, CanRead
  <2>2. QED BY <2>1, TailPacket DEF SessionInv, TypeOK
<1>4. pc' = pc \/ (pc = "drain" /\ pc' = "bye")
  BY DEF Respond, Farewell, Tick, Input
<1>5. TypeOK'
  BY <1>1, <1>2, <1>3, <1>4 DEF SessionInv, TypeOK
<1>6. PlaceInv'
  <2>1. pc \notin Setup
    <3>1. CASE t = "loop"
      BY <3>1, <1>1 DEF Setup
    <3>2. CASE t # "loop"
      BY <3>2, <1>1 DEF SessionInv, PlaceInv, Threads
    <3>3. QED BY <3>1, <3>2
  <2>2. pc' \notin Setup /\ pc' \notin {"prefix", "peerPrefix", "first", "greet"}
    BY <1>4, <2>1 DEF Setup
  <2>3. ASSUME pc' = "drain" PROVE at'["loop"] = "idle"
    <3>1. pc = "drain" /\ at["loop"] = "idle" /\ pc' = pc
      BY <1>4, <2>3 DEF SessionInv, PlaceInv
    <3>2. at'["loop"] = at["loop"]
      BY <3>1, <2>3, SenderNames DEF Respond, Looping, Farewell, Tick, Input, Begin, SessionInv, TypeOK, Threads
    <3>3. QED BY <3>1, <3>2
  <2>4. QED BY <2>2, <2>3 DEF PlaceInv
<1>7. SealInv'
  BY <1>1, <1>2 DEF SessionInv, SealInv
<1>8. QED BY <1>2, <1>5, <1>6, <1>7 DEF SessionInv

LEMMA LeavesInv ==
  ASSUME SessionInv, Dispatch \/ LoopEnds \/ BeatStops \/ \E s \in Senders : InputStops(s)
  PROVE  SessionInv'
<1>1. UNCHANGED <<greeted, nreads, nextID, load, writer, sealed, out, lost, joined, peer, early>>
  BY DEF Dispatch, LoopEnds, BeatStops, InputStops, sendVars, setVars, wireVars, peerVars
<1>2. /\ at' \in [Threads -> Places] /\ stop' \in BOOLEAN
      /\ \A t \in Threads : at'[t] = at[t] \/ (at[t] = "idle" /\ at'[t] = "gone" /\ t # "loop")
  BY SenderNames DEF Dispatch, LoopEnds, BeatStops, InputStops, sendVars, SessionInv, TypeOK, Places, Threads
<1>3. in' \in Seq(Packet)
  <2>1. in' = in \/ in' = <<>> \/ (in # <<>> /\ in' = Tail(in))
    BY DEF Dispatch, LoopEnds, BeatStops, InputStops, wireVars, Accepted, CanRead
  <2>2. <<>> \in Seq(Packet)
    OBVIOUS
  <2>3. QED BY <2>1, <2>2, TailPacket DEF SessionInv, TypeOK
<1>4. pc' = pc \/ (pc' = "drain" /\ Looping)
  BY DEF Dispatch, LoopEnds, BeatStops, InputStops
<1>5. TypeOK'
  BY <1>1, <1>2, <1>3, <1>4 DEF SessionInv, TypeOK
<1>6. IDInv'
  BY <1>1, <1>2, KeepID
<1>7. PlaceInv'
  BY <1>1, <1>2, <1>4 DEF SessionInv, PlaceInv, Looping, Threads, Setup
<1>8. SealInv'
  BY <1>1, <1>2 DEF SessionInv, SealInv
<1>9. QED BY <1>5, <1>6, <1>7, <1>8 DEF SessionInv

-----------------------------------------------------------------------------
\* The peer.

LEMMA PeerSays == PeerTakes => in' = in \/ \E ks \in Seq(Kinds) : SaysAll(ks)
<1>1. /\ Opening \in Seq(Kinds)
      /\ <<"ack">> \in Seq(Kinds) /\ <<"wrongAck">> \in Seq(Kinds)
  BY OpeningKinds DEF Kinds
<1>2. QED BY <1>1 DEF PeerTakes, Says

LEMMA PeerInv ==
  ASSUME SessionInv, PeerStep \/ KeepAlive \/ PeerDrops
  PROVE  SessionInv'
<1>1. UNCHANGED <<pc, greeted, nreads, at, load, writer, sealed, nextID, lost, joined, stop>>
  BY DEF PeerStep, PeerTakes, PeerLeaves, PeerVanishes, PeerTalksEarly, PeerTalks,
     KeepAlive, PeerDrops, Peer, setVars, sendVars, wireVars
<1>2. out' \in Seq(Packet)
  <2>1. out' = out \/ (out # <<>> /\ out' = Tail(out))
    BY DEF PeerStep, PeerTakes, PeerLeaves, PeerVanishes, PeerTalksEarly, PeerTalks,
       KeepAlive, PeerDrops, Peer, wireVars
  <2>2. QED BY <2>1, TailPacket DEF SessionInv, TypeOK
<1>3. in' \in Seq(Packet)
  <2>1. \A k \in Kinds : <<k>> \in Seq(Kinds)
    OBVIOUS
  <2>2. in' = in \/ \E ks \in Seq(Kinds) : SaysAll(ks)
    BY <2>1, PeerSays DEF PeerStep, PeerLeaves, PeerVanishes, PeerTalksEarly,
       PeerTalks, KeepAlive, PeerDrops, Peer, wireVars, Says, Kinds
  <2>3. QED BY <2>2, SaysPacket DEF SessionInv, TypeOK
<1>4. peer' \in {"prefix", "up", "gone", "closed"} /\ early' \in 0..EarlyMax
  BY DEF PeerStep, PeerTakes, PeerLeaves, PeerVanishes, PeerTalksEarly, PeerTalks,
     KeepAlive, PeerDrops, Peer, SessionInv, TypeOK, peerVars
<1>5. TypeOK'
  BY <1>1, <1>2, <1>3, <1>4 DEF SessionInv, TypeOK
<1>6. IDInv' /\ PlaceInv' /\ SealInv'
  BY <1>1 DEF SessionInv, IDInv, PlaceInv, SealInv, DueSet
<1>7. QED BY <1>5, <1>6 DEF SessionInv

LEMMA SessionNext == SessionInv /\ [Next]_vars => SessionInv'
<1> SUFFICES ASSUME SessionInv, [Next]_vars PROVE SessionInv'
  OBVIOUS
<1>1. CASE LoopStep
  BY <1>1, SetupInv, AnnounceInv, SetupFailsInv, StartsSendInv, LeavesInv DEF LoopStep
<1>2. CASE \E t \in Threads : SendStep(t)
  BY <1>2, CountInv, SealStepInv, WriteInv DEF SendStep
<1>3. CASE Tick \/ BeatStops \/ \E s \in Senders : Input(s) \/ InputStops(s)
  BY <1>3, StartsSendInv, LeavesInv
<1>4. CASE PeerStep \/ KeepAlive \/ PeerDrops
  BY <1>4, PeerInv
<1>5. CASE UNCHANGED vars
  <2>1. UNCHANGED <<pc, greeted, nreads, nextID, at, load, writer, sealed, lost, joined, stop,
                    out, in, peer, early>>
    BY <1>5 DEF vars, setVars, sendVars, wireVars, peerVars
  <2>2. QED BY <2>1 DEF SessionInv, TypeOK, IDInv, PlaceInv, SealInv, DueSet
<1>6. QED BY <1>1, <1>2, <1>3, <1>4, <1>5 DEF Next

-----------------------------------------------------------------------------
\* The fields of Conn and the locals of the setup and the receive loop have
\* their types, whatever the peer sends and whenever it goes away.
THEOREM Typed == Spec => []TypeOK
<1>1. SessionInv => TypeOK
  BY DEF SessionInv
<1>2. QED BY <1>1, SessionInit, SessionNext, PTL DEF Spec

\* SendPacket never stamps a packet with an ID that is zero or negative: the
\* margin between the reset and the greatest int32 covers the increments that
\* other senders have tested for and not made.
THEOREM PositiveIDs == Spec => []IDsPositive
<1>1. SessionInv => IDsPositive
  BY DEF SessionInv, IDInv, IDsPositive
<1>2. QED BY <1>1, SessionInit, SessionNext, PTL DEF Spec

-----------------------------------------------------------------------------
\* The encrypted stream is a Pipe.

Flow(s) == [i \in DOMAIN s |-> s[i].ok]
Shut(p) == p \in {"gone", "closed"}

LEMMA FlowAppend ==
  ASSUME NEW s \in Seq(Packet), NEW p \in Packet
  PROVE  Flow(Append(s, p)) = Append(Flow(s), p.ok)
<1>1. /\ DOMAIN s = 1..Len(s) /\ Len(s) \in Nat
      /\ Append(s, p) \in Seq(Packet) /\ Len(Append(s, p)) = Len(s) + 1
      /\ \A i \in 1..Len(s) : Append(s, p)[i] = s[i]
      /\ Append(s, p)[Len(s) + 1] = p
  BY LenProperties, AppendProperties
<1>2. \A r \in Packet : r.ok \in BOOLEAN
  BY DEF Packet
<1>3. Flow(s) \in Seq(BOOLEAN) /\ Len(Flow(s)) = Len(s)
  <2>1. \A i \in 1..Len(s) : s[i].ok \in BOOLEAN
    BY <1>2, ElementOfSeq
  <2>2. QED BY <1>1, <2>1, IsASeq DEF Flow
<1>4. /\ Append(Flow(s), p.ok) \in Seq(BOOLEAN) /\ Len(Append(Flow(s), p.ok)) = Len(s) + 1
      /\ \A i \in 1..Len(s) : Append(Flow(s), p.ok)[i] = Flow(s)[i]
      /\ Append(Flow(s), p.ok)[Len(s) + 1] = p.ok
  BY <1>2, <1>3, AppendProperties
<1>5. Flow(Append(s, p)) \in Seq(BOOLEAN) /\ Len(Flow(Append(s, p))) = Len(s) + 1
  <2>1. \A i \in 1..Len(s) + 1 : Append(s, p)[i].ok \in BOOLEAN
    BY <1>1, <1>2, ElementOfSeq
  <2>2. DOMAIN Append(s, p) = 1..Len(s) + 1
    BY <1>1, LenProperties
  <2>3. QED BY <1>1, <2>1, <2>2, IsASeq DEF Flow
<1>6. \A i \in 1..Len(s) + 1 : Flow(Append(s, p))[i] = Append(Flow(s), p.ok)[i]
  <2>1. DOMAIN Append(s, p) = 1..Len(s) + 1
    BY <1>1, LenProperties
  <2>2. QED BY <1>1, <1>4, <2>1 DEF Flow
<1>7. QED BY <1>1, <1>4, <1>5, <1>6, SeqEqual

LEMMA FlowTail ==
  ASSUME NEW s \in Seq(Packet), s # <<>>
  PROVE  /\ Flow(s) # <<>> /\ Head(Flow(s)) = Head(s).ok
         /\ Flow(Tail(s)) = Tail(Flow(s))
<1>1. /\ DOMAIN s = 1..Len(s) /\ Len(s) \in Nat /\ Len(s) # 0
      /\ Tail(s) \in Seq(Packet) /\ Len(Tail(s)) = Len(s) - 1
      /\ \A i \in 1..Len(s) - 1 : Tail(s)[i] = s[i + 1]
  BY LenProperties, HeadTailProperties, EmptySeq
<1>2. \A r \in Packet : r.ok \in BOOLEAN
  BY DEF Packet
<1>3. Flow(s) \in Seq(BOOLEAN) /\ Len(Flow(s)) = Len(s) /\ Flow(s) # <<>>
  <2>1. \A i \in 1..Len(s) : s[i].ok \in BOOLEAN
    BY <1>2, ElementOfSeq
  <2>2. Flow(s) \in Seq(BOOLEAN) /\ Len(Flow(s)) = Len(s)
    BY <1>1, <2>1, IsASeq DEF Flow
  <2>3. QED BY <1>1, <2>2, EmptySeq
<1>4. Head(Flow(s)) = Head(s).ok
  BY <1>1, <1>3 DEF Flow
<1>5. /\ Tail(Flow(s)) \in Seq(BOOLEAN) /\ Len(Tail(Flow(s))) = Len(s) - 1
      /\ \A i \in 1..Len(s) - 1 : Tail(Flow(s))[i] = Flow(s)[i + 1]
  BY <1>3, HeadTailProperties
<1>6. DOMAIN Tail(s) = 1..Len(s) - 1
  BY <1>1, LenProperties
<1>7. Flow(Tail(s)) \in Seq(BOOLEAN) /\ Len(Flow(Tail(s))) = Len(s) - 1
  <2>1. \A i \in 1..Len(s) - 1 : Tail(s)[i].ok \in BOOLEAN
    BY <1>1, <1>2, <1>6, ElementOfSeq
  <2>2. QED BY <1>1, <1>6, <2>1, IsASeq DEF Flow
<1>8. \A i \in 1..Len(s) - 1 : Flow(Tail(s))[i] = Tail(Flow(s))[i]
  BY <1>1, <1>5, <1>6 DEF Flow
<1>9. Flow(Tail(s)) = Tail(Flow(s))
  BY <1>1, <1>5, <1>7, <1>8, SeqEqual
<1>10. QED BY <1>3, <1>4, <1>9

PipeStep == [Stream!Put \/ Stream!Cut \/ Stream!Take \/ Stream!Shut]_(Stream!pipe)

\* A packet is written and nothing is lost by it.
LEMMA StreamPut ==
  ASSUME out \in Seq(Packet), NEW k \in Kinds, lost \in BOOLEAN,
         out' = Append(out, [kind |-> k, ok |-> ~lost]), lost' = lost,
         peer' = peer
  PROVE  PipeStep
<1>1. [kind |-> k, ok |-> ~lost] \in Packet
  BY DEF Packet
<1>2. Flow(out') = Append(Flow(out), ~lost)
  BY <1>1, FlowAppend
<1>3. Stream!Put
  BY <1>2 DEF Stream!Put, Flow
<1>4. QED BY <1>3 DEF PipeStep

\* Nothing happens to the stream, or its reader closes.
LEMMA StreamShut ==
  ASSUME out' = out, lost' = lost, peer' = peer \/ Shut(peer')
  PROVE  PipeStep
<1>1. CASE Shut(peer')
  BY <1>1 DEF PipeStep, Stream!Shut, Shut
<1>2. CASE ~Shut(peer')
  <2>1. Stream!pipe' = Stream!pipe
    BY <1>2 DEF Stream!pipe
  <2>2. QED BY <2>1 DEF PipeStep
<1>3. QED BY <1>1, <1>2

LEMMA StreamSetup ==
  ASSUME SessionInv,
         \/ SendPrefix \/ RecvPrefix \/ RecvFirst \/ Greet \/ Answer \/ Skip \/ Verified
         \/ Refused \/ Announce \/ SetupFails
  PROVE  PipeStep
<1>1. UNCHANGED <<lost, peer>>
  BY DEF SendPrefix, RecvPrefix, RecvFirst, Greet, Answer, Skip, Verified, Refused, Announce,
     SetupFails, wireVars, peerVars
<1>2. out' = out \/ \E k \in Kinds : out' = Append(out, Intact(k))
  BY DEF SendPrefix, RecvPrefix, RecvFirst, Greet, Answer, Skip, Verified, Refused, Announce,
     SetupFails, wireVars, Kinds
<1>3. QED BY <1>1, <1>2, StreamPut, StreamShut DEF SessionInv, TypeOK, Intact

LEMMA StreamSend == ASSUME SessionInv, NEW t \in Threads, SendStep(t) PROVE PipeStep
<1>1. CASE Reset(t) \/ Add(t) \/ Seal(t)
  BY <1>1, StreamShut DEF Reset, Add, Seal, wireVars, peerVars
<1>2. CASE Write(t)
  <2>1. out' = Append(out, [kind |-> load[t], ok |-> ~lost])
    BY <1>2, Holder DEF Write
  <2>2. load[t] \in Kinds /\ out \in Seq(Packet) /\ lost \in BOOLEAN
    BY DEF SessionInv, TypeOK
  <2>3. QED BY <1>2, <2>1, <2>2, StreamPut DEF Write, peerVars
<1>3. CASE WriteFails(t)
  <2>1. lost' = TRUE /\ UNCHANGED <<out, peer>>
    BY <1>3 DEF WriteFails, peerVars
  <2>2. QED BY <2>1 DEF PipeStep, Stream!Cut
<1>4. QED BY <1>1, <1>2, <1>3 DEF SendStep

LEMMA StreamLoop ==
  ASSUME \/ Respond \/ Dispatch \/ LoopEnds \/ Farewell
         \/ Tick \/ BeatStops \/ \E s \in Senders : Input(s) \/ InputStops(s)
  PROVE  PipeStep
<1>1. UNCHANGED <<out, lost, peer>>
  BY DEF Respond, Dispatch, LoopEnds, Farewell, Tick, BeatStops, Input, InputStops,
     wireVars, peerVars
<1>2. QED BY <1>1, StreamShut

\* The reader takes what is there, and closes on what it cannot read.
LEMMA StreamTaken == ASSUME SessionInv, PeerTakes PROVE PipeStep
<1>1. /\ out # <<>> /\ out \in Seq(Packet) /\ peer \in {"prefix", "up"}
      /\ out' = Tail(out) /\ lost' = lost
  BY DEF SessionInv, TypeOK, PeerTakes
<1>2. /\ Flow(out) # <<>> /\ Head(Flow(out)) = Head(out).ok
      /\ Flow(out') = Tail(Flow(out))
  BY <1>1, FlowTail
<1>3. Head(out).ok \in BOOLEAN
  BY <1>1, TailPacket DEF Packet
<1>4. Shut(peer') \in {~Head(out).ok, TRUE}
  <2>1. CASE (~Head(out).ok \/ Head(out).kind = "bye") /\ peer' = "closed"
    BY <2>1 DEF Shut
  <2>2. CASE Head(out).ok /\ peer' \in {"prefix", "up"}
    <3>1. Shut(peer') = FALSE
      BY <2>2 DEF Shut
    <3>2. (~Head(out).ok) = FALSE
      BY <2>2
    <3>3. QED BY <3>1, <3>2, Zenon
  <2>3. QED BY <1>1, <2>1, <2>2 DEF PeerTakes
<1>5. Stream!Take
  BY <1>1, <1>2, <1>4 DEF Stream!Take, Flow, Shut
<1>6. QED BY <1>5 DEF PipeStep

LEMMA StreamPeer ==
  ASSUME PeerLeaves \/ PeerVanishes \/ PeerTalksEarly \/ PeerTalks \/ KeepAlive \/ PeerDrops
  PROVE  PipeStep
<1>1. UNCHANGED <<out, lost>> /\ (peer' = peer \/ Shut(peer'))
  BY DEF PeerLeaves, PeerVanishes, PeerTalksEarly, PeerTalks, KeepAlive, PeerDrops, Peer,
     wireVars, peerVars, Shut
<1>2. QED BY <1>1, StreamShut

\* SendPacket's mutex, the cipher's chain and the check of every packet make
\* the stream of one connection a Pipe: what is read was written, in that
\* order, and nothing behind a write that was cut short is taken for a packet.
THEOREM StreamRefines == Spec => StreamIsPipe
<1>1. Init => Stream!PInit
  BY DEF Init, Stream!PInit
<1>2. SessionInv /\ [Next]_vars => PipeStep
  <2> SUFFICES ASSUME SessionInv, [Next]_vars PROVE PipeStep
    OBVIOUS
  <2>1. CASE UNCHANGED vars
    <3>1. UNCHANGED <<out, lost, peer>>
      BY <2>1 DEF vars, wireVars, peerVars
    <3>2. QED BY <3>1, StreamShut
  <2>2. CASE Next
    BY <2>2, StreamSetup, StreamSend, StreamLoop, StreamTaken, StreamPeer
       DEF Next, LoopStep, PeerStep
  <2>3. QED BY <2>1, <2>2
<1>3. QED BY <1>1, <1>2, SessionInit, SessionNext, PTL
         DEF Spec, StreamIsPipe, Stream!PSpec, PipeStep
=============================================================================
