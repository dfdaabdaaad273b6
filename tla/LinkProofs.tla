----------------------------- MODULE LinkProofs -----------------------------
(***************************************************************************)
(* Proofs about module Link, for any number of sockets, diallers and slots.*)
(* EachHeldOnce is not inductive: that a connection is held by one hand    *)
(* only follows from what each hand is doing, and the hands of a round     *)
(* that is over are still there in the next.                               *)
(***************************************************************************)
EXTENDS Link, FiniteSetTheorems, TLAPS

USE LinkAssumption DEF LinkAssumption

LoopType == /\ loop \in {"start", "select", "session", "teardown"}
            /\ active \in Conns \cup {NoConn} /\ cur \in Dialers \cup {NoDialer}
DialType == /\ dial \in [Dialers -> {"none", "dialing", "wait", "offer"}]
            /\ has \in [Dialers -> Conns \cup {NoConn}] /\ stop \subseteq Dialers
ConnType == alive \subseteq Conns /\ where \in [Conns -> Places]
PeerType == reach \subseteq Directions /\ steady \in BOOLEAN

TypeInv == LoopType /\ DialType /\ ConnType /\ PeerType

\* A dialler has a connection exactly while it offers it, and nobody else has.
DiallerInv ==
  /\ \A d \in Dialers : dial[d] = "offer" <=> has[d] # NoConn
  /\ \A d \in Dialers : has[d] # NoConn => where[has[d]] = "dialler"
  /\ \A c \in Conns : where[c] = "dialler" => \E d \in Dialers : has[d] = c
  /\ \A d, e \in Dialers : has[d] = has[e] => d = e \/ has[d] = NoConn

\* The channel of one, and the loop's connection.
QueueInv == /\ queue = <<>> \/ \E c \in Conns : queue = <<c>>
            /\ \A c \in Conns : where[c] = "queue" <=> queue = <<c>>
ActiveInv == \A c \in Conns : where[c] = "active" <=> active = c

\* The loop has a connection exactly while it has not closed it, and while it
\* selects, a dialler of its own that nobody has stopped; every other dialler
\* has been stopped.
RoundInv ==
  /\ loop \in {"session", "teardown"} <=> active # NoConn
  /\ loop = "select" <=> cur # NoDialer
  /\ cur # NoDialer => dial[cur] # "none" /\ cur \notin stop
  /\ \A d \in Dialers : dial[d] # "none" => d = cur \/ d \in stop

\* A slot is taken for each goroutine of the listener, and for nothing else.
SlotInv == pending = Cardinality(InSlot) /\ pending <= Slots

LinkInv == TypeInv /\ DiallerInv /\ QueueInv /\ ActiveInv /\ RoundInv /\ SlotInv

LEMMA LinkInit == Init => LinkInv
<1> SUFFICES ASSUME Init PROVE LinkInv
  OBVIOUS
<1>1. TypeInv
  BY DEF Init, TypeInv, LoopType, DialType, ConnType, PeerType, Places
<1>2. DiallerInv /\ QueueInv /\ ActiveInv /\ RoundInv
  BY DEF Init, DiallerInv, QueueInv, ActiveInv, RoundInv
<1>3. SlotInv
  <2>1. InSlot = {}
    BY DEF Init, InSlot
  <2>2. QED BY <2>1, FS_EmptySet DEF Init, SlotInv
<1>4. QED BY <1>1, <1>2, <1>3 DEF LinkInv

\* The kernel hands out a socket that is not open, and a round starts a
\* goroutine that does not run.
LEMMA NewConnFree == Free # {} => NewConn \in Conns /\ where[NewConn] = "free"
BY DEF Free, NewConn
LEMMA NewDialerIdle == IdleDialers # {} => NewDialer \in Dialers /\ dial[NewDialer] = "none"
BY DEF IdleDialers, NewDialer

-----------------------------------------------------------------------------
\* The slots: what a step moves into the listener's hands and out of them.

LEMMA SlotKept == ASSUME SlotInv, InSlot' = InSlot, pending' = pending PROVE SlotInv'
BY DEF SlotInv

LEMMA InSlotFinite == IsFiniteSet(InSlot) /\ Cardinality(InSlot) \in Nat
<1>1. InSlot \in SUBSET Conns
  BY DEF InSlot
<1>2. QED BY <1>1, FS_Subset, FS_CardinalityType

LEMMA SlotTaken ==
  ASSUME SlotInv, NEW c \in Conns, c \notin InSlot, InSlot' = InSlot \cup {c},
         pending' = pending + 1, pending < Slots
  PROVE  SlotInv'
<1>1. Cardinality(InSlot \cup {c}) = Cardinality(InSlot) + 1 /\ Cardinality(InSlot) \in Nat
  BY InSlotFinite, FS_AddElement
<1>2. QED BY <1>1 DEF SlotInv

LEMMA SlotBack ==
  ASSUME SlotInv, NEW c \in Conns, c \in InSlot, InSlot' = InSlot \ {c},
         pending' = pending - 1
  PROVE  SlotInv'
<1>1. Cardinality(InSlot \ {c}) = Cardinality(InSlot) - 1 /\ Cardinality(InSlot) \in Nat
  BY InSlotFinite, FS_RemoveElement
<1>2. QED BY <1>1 DEF SlotInv

-----------------------------------------------------------------------------
\* The reconnect loop.

LEMMA LoopInv == ASSUME LinkInv, LoopStep PROVE LinkInv'
<1> USE DEF TypeInv, LoopType, DialType, ConnType, PeerType
<1>1. TypeInv /\ DiallerInv /\ QueueInv /\ ActiveInv /\ RoundInv /\ SlotInv
  BY DEF LinkInv
<1>2. CASE StartRound
  <2>1. NewDialer \in Dialers /\ dial[NewDialer] = "none"
    BY <1>2, NewDialerIdle DEF StartRound
  <2>2. TypeInv'
    BY <1>1, <1>2, <2>1 DEF StartRound, peerVars
  <2>3. DiallerInv' /\ QueueInv' /\ ActiveInv'
    BY <1>1, <1>2, <2>1 DEF StartRound, inVars, DiallerInv, QueueInv, ActiveInv
  <2>4. RoundInv'
    BY <1>1, <1>2, <2>1 DEF StartRound, RoundInv
  <2>5. InSlot' = InSlot /\ pending' = pending
    BY <1>2 DEF StartRound, InSlot, inVars
  <2>6. QED BY <1>1, <2>2, <2>3, <2>4, <2>5, SlotKept DEF LinkInv
<1>3. CASE TakeOutbound
  <2> DEFINE c == has[cur]
  <2>1. cur \in Dialers /\ c \in Conns /\ where[c] = "dialler" /\ active = NoConn
    BY <1>1, <1>3 DEF TakeOutbound, DiallerInv, RoundInv
  <2>2. /\ active' = c /\ where' = [where EXCEPT ![c] = "active"] /\ stop' = stop \cup {cur}
        /\ cur' = NoDialer /\ loop' = "session" /\ dial' = [dial EXCEPT ![cur] = "none"]
        /\ has' = [has EXCEPT ![cur] = NoConn] /\ UNCHANGED <<reach, steady, alive, pending, queue>>
    BY <1>3 DEF TakeOutbound, Chosen, Moved, peerVars, inVars
  <2>3. TypeInv'
    BY <1>1, <2>1, <2>2 DEF Places
  <2>4. DiallerInv'
    BY <1>1, <2>1, <2>2 DEF DiallerInv
  <2>5. QueueInv' /\ ActiveInv'
    BY <1>1, <2>1, <2>2 DEF QueueInv, ActiveInv
  <2>6. RoundInv'
    BY <1>1, <2>1, <2>2 DEF RoundInv
  <2>7. InSlot' = InSlot
    BY <1>1, <2>1, <2>2 DEF InSlot
  <2>8. QED BY <1>1, <2>2, <2>3, <2>4, <2>5, <2>6, <2>7, SlotKept DEF LinkInv
<1>4. CASE TakeInbound
  <2>1. PICK c \in Conns : queue = <<c>>
    BY <1>1, <1>4 DEF TakeInbound, QueueInv
  <2>2. where[c] = "queue" /\ active = NoConn /\ cur \in Dialers /\ loop = "select"
    BY <1>1, <1>4, <2>1 DEF TakeInbound, QueueInv, RoundInv
  <2>3. /\ active' = c /\ where' = [where EXCEPT ![c] = "active"] /\ stop' = stop \cup {cur}
        /\ cur' = NoDialer /\ loop' = "session" /\ queue' = <<>>
        /\ UNCHANGED <<reach, steady, alive, pending, dial, has>>
    BY <1>4, <2>1 DEF TakeInbound, Chosen, Moved, peerVars
  <2>4. TypeInv'
    BY <1>1, <2>1, <2>2, <2>3 DEF Places
  <2>5. DiallerInv'
    BY <1>1, <2>1, <2>2, <2>3 DEF DiallerInv
  <2>6. QueueInv' /\ ActiveInv'
    BY <1>1, <2>1, <2>2, <2>3 DEF QueueInv, ActiveInv
  <2>7. RoundInv'
    BY <1>1, <2>1, <2>2, <2>3 DEF RoundInv
  <2>8. InSlot' = InSlot
    BY <1>1, <2>1, <2>2, <2>3 DEF InSlot
  <2>9. QED BY <1>1, <2>3, <2>4, <2>5, <2>6, <2>7, <2>8, SlotKept DEF LinkInv
<1>5. CASE SessionEnds
  <2>1. TypeInv' /\ DiallerInv' /\ QueueInv' /\ ActiveInv'
    BY <1>1, <1>5 DEF SessionEnds, peerVars, dialVars, inVars, DiallerInv, QueueInv, ActiveInv
  <2>2. RoundInv'
    BY <1>1, <1>5 DEF SessionEnds, dialVars, RoundInv
  <2>3. InSlot' = InSlot /\ pending' = pending
    BY <1>5 DEF SessionEnds, InSlot, inVars
  <2>4. QED BY <1>1, <2>1, <2>2, <2>3, SlotKept DEF LinkInv
<1>6. CASE CloseActive
  <2>1. active \in Conns /\ where[active] = "active"
    BY <1>1, <1>6 DEF CloseActive, ActiveInv, RoundInv
  <2>2. /\ where' = [where EXCEPT ![active] = "free"] /\ alive' = alive \ {active}
        /\ active' = NoConn /\ loop' = "start"
        /\ UNCHANGED <<reach, steady, cur, dial, has, stop, pending, queue>>
    BY <1>6 DEF CloseActive, Closed, peerVars, dialVars, inVars
  <2>3. TypeInv'
    BY <1>1, <2>1, <2>2 DEF Places
  <2>4. DiallerInv' /\ QueueInv' /\ ActiveInv'
    BY <1>1, <2>1, <2>2 DEF DiallerInv, QueueInv, ActiveInv
  <2>5. RoundInv'
    BY <1>1, <1>6, <2>2 DEF RoundInv, CloseActive
  <2>6. InSlot' = InSlot
    BY <1>1, <2>1, <2>2 DEF InSlot
  <2>7. QED BY <1>1, <2>2, <2>3, <2>4, <2>5, <2>6, SlotKept DEF LinkInv
<1>7. QED BY <1>2, <1>3, <1>4, <1>5, <1>6 DEF LoopStep

-----------------------------------------------------------------------------
\* A dialling goroutine.

LEMMA DialInv ==
  ASSUME LinkInv, NEW d \in Dialers, DialStep(d) \/ Retry(d) \/ GivesUp(d)
  PROVE  LinkInv'
<1> USE DEF TypeInv, LoopType, DialType, ConnType, PeerType
<1>1. TypeInv /\ DiallerInv /\ QueueInv /\ ActiveInv /\ RoundInv /\ SlotInv
  BY DEF LinkInv
<1>2. CASE ConnectSucceeds(d)
  <2> DEFINE c == NewConn
  <2>1. c \in Conns /\ where[c] = "free"
    BY <1>2, NewConnFree DEF ConnectSucceeds
  <2>2. /\ dial[d] = "dialing" /\ has[d] = NoConn
        /\ where' = [where EXCEPT ![c] = "dialler"] /\ alive' = alive \cup {c}
        /\ has' = [has EXCEPT ![d] = c] /\ dial' = [dial EXCEPT ![d] = "offer"]
        /\ UNCHANGED <<reach, steady, loop, active, cur, stop, pending, queue>>
    BY <1>1, <1>2 DEF ConnectSucceeds, Opened, peerVars, loopVars, inVars, DiallerInv
  <2> HIDE DEF c
  <2>3. TypeInv'
    BY <1>1, <2>1, <2>2 DEF Places
  <2>4. DiallerInv'
    BY <1>1, <2>1, <2>2 DEF DiallerInv
  <2>5. QueueInv' /\ ActiveInv'
    BY <1>1, <2>1, <2>2 DEF QueueInv, ActiveInv
  <2>6. RoundInv'
    BY <1>1, <2>2 DEF RoundInv
  <2>7. InSlot' = InSlot
    BY <1>1, <2>1, <2>2 DEF InSlot
  <2>8. QED BY <1>1, <2>2, <2>3, <2>4, <2>5, <2>6, <2>7, SlotKept DEF LinkInv
<1>3. CASE ConnectFails(d) \/ Retry(d) \/ GivesUp(d)
  <2>1. PICK p \in {"dialing", "wait", "none"} :
          /\ dial[d] \in {"dialing", "wait"} /\ dial' = [dial EXCEPT ![d] = p]
          /\ p = "none" => d \in stop
          /\ UNCHANGED <<reach, steady, alive, where, loop, active, cur, has, stop, pending, queue>>
    BY <1>3 DEF ConnectFails, Retry, GivesUp, peerVars, loopVars, inVars
  <2>2. TypeInv' /\ DiallerInv' /\ QueueInv' /\ ActiveInv'
    BY <1>1, <2>1 DEF DiallerInv, QueueInv, ActiveInv
  <2>3. RoundInv'
    BY <1>1, <2>1 DEF RoundInv
  <2>4. InSlot' = InSlot
    BY <2>1 DEF InSlot
  <2>5. QED BY <1>1, <2>1, <2>2, <2>3, <2>4, SlotKept DEF LinkInv
<1>4. CASE LoserCloses(d)
  <2> DEFINE c == has[d]
  <2>1. c \in Conns /\ where[c] = "dialler"
    BY <1>1, <1>4 DEF LoserCloses, DiallerInv
  <2>2. /\ d \in stop /\ where' = [where EXCEPT ![c] = "free"] /\ alive' = alive \ {c}
        /\ has' = [has EXCEPT ![d] = NoConn] /\ dial' = [dial EXCEPT ![d] = "none"]
        /\ UNCHANGED <<reach, steady, loop, active, cur, stop, pending, queue>>
    BY <1>4 DEF LoserCloses, Closed, peerVars, loopVars, inVars
  <2>3. TypeInv'
    BY <1>1, <2>1, <2>2 DEF Places
  <2>4. DiallerInv'
    BY <1>1, <2>1, <2>2 DEF DiallerInv
  <2>5. QueueInv' /\ ActiveInv'
    BY <1>1, <2>1, <2>2 DEF QueueInv, ActiveInv
  <2>6. RoundInv'
    BY <1>1, <2>2 DEF RoundInv
  <2>7. InSlot' = InSlot
    BY <1>1, <2>1, <2>2 DEF InSlot
  <2>8. QED BY <1>1, <2>2, <2>3, <2>4, <2>5, <2>6, <2>7, SlotKept DEF LinkInv
<1>5. QED BY <1>2, <1>3, <1>4 DEF DialStep

-----------------------------------------------------------------------------
\* The listener and its goroutines.

LEMMA AcceptInv == ASSUME LinkInv, Accept PROVE LinkInv'
<1> USE DEF TypeInv, LoopType, DialType, ConnType, PeerType
<1> DEFINE c == NewConn
<1>1. TypeInv /\ DiallerInv /\ QueueInv /\ ActiveInv /\ RoundInv /\ SlotInv
  BY DEF LinkInv
<1>2. c \in Conns /\ where[c] = "free"
  BY NewConnFree DEF Accept
<1>3. /\ where' = [where EXCEPT ![c] = "setup"] /\ alive' = alive \cup {c}
      /\ pending < Slots /\ pending' = pending + 1
      /\ UNCHANGED <<reach, steady, loop, active, cur, dial, has, stop, queue>>
  BY DEF Accept, Opened, peerVars, loopVars, dialVars
<1> HIDE DEF c
<1>4. TypeInv'
  BY <1>1, <1>2, <1>3 DEF Places
<1>5. DiallerInv' /\ QueueInv' /\ ActiveInv' /\ RoundInv'
  BY <1>1, <1>2, <1>3 DEF DiallerInv, QueueInv, ActiveInv, RoundInv
<1>6. c \notin InSlot /\ InSlot' = InSlot \cup {c}
  BY <1>1, <1>2, <1>3 DEF InSlot
<1>7. SlotInv'
  BY <1>1, <1>2, <1>3, <1>6, SlotTaken
<1>8. QED BY <1>4, <1>5, <1>7 DEF LinkInv

LEMMA AcceptStepInv == ASSUME LinkInv, NEW c \in Conns, AcceptStep(c) PROVE LinkInv'
<1> USE DEF TypeInv, LoopType, DialType, ConnType, PeerType
<1>1. TypeInv /\ DiallerInv /\ QueueInv /\ ActiveInv /\ RoundInv /\ SlotInv
  BY DEF LinkInv
<1>2. UNCHANGED <<reach, steady, loop, active, cur, dial, has, stop>> /\ c \in InSlot
  BY DEF AcceptStep, AcceptEnds, Handshaken, Enqueue, peerVars, loopVars, dialVars, InSlot
<1>3. PICK w \in {"free", "offer", "queue"} :
        /\ where[c] \in {"setup", "offer"} /\ where' = [where EXCEPT ![c] = w]
        /\ alive' \subseteq alive
        /\ pending' = IF w = "offer" THEN pending ELSE pending - 1
        /\ IF w = "queue" THEN queue = <<>> /\ queue' = <<c>> ELSE queue' = queue
  BY DEF AcceptStep, AcceptEnds, Handshaken, Enqueue, Closed, Moved, Leaves, inVars
<1>4. TypeInv'
  BY <1>1, <1>2, <1>3 DEF Places
<1>5. DiallerInv' /\ ActiveInv' /\ RoundInv'
  BY <1>1, <1>2, <1>3 DEF DiallerInv, ActiveInv, RoundInv
<1>6. QueueInv'
  BY <1>1, <1>3 DEF QueueInv
<1>7. SlotInv'
  <2>1. CASE w = "offer"
    <3>1. InSlot' = InSlot
      BY <1>1, <1>3, <2>1 DEF InSlot
    <3>2. QED BY <1>1, <1>3, <2>1, <3>1, SlotKept
  <2>2. CASE w # "offer"
    <3>1. InSlot' = InSlot \ {c}
      BY <1>1, <1>3, <2>2 DEF InSlot
    <3>2. QED BY <1>1, <1>2, <1>3, <2>2, <3>1, SlotBack
  <2>3. QED BY <2>1, <2>2
<1>8. QED BY <1>4, <1>5, <1>6, <1>7 DEF LinkInv

LEMMA PeerInv ==
  ASSUME LinkInv, (\E c \in Conns : Breaks(c)) \/ Unsettles \/ Settles \/ UNCHANGED vars
  PROVE  LinkInv'
<1>1. /\ UNCHANGED <<reach, where, loop, active, cur, dial, has, stop, pending, queue>>
      /\ alive' \subseteq alive \cup Conns /\ steady' \in BOOLEAN
  BY DEF Breaks, Unsettles, Settles, loopVars, dialVars, inVars, vars, peerVars, LinkInv, TypeInv,
     PeerType, ConnType
<1>2. alive' \subseteq Conns
  BY <1>1 DEF LinkInv, TypeInv, ConnType
<1>3. InSlot' = InSlot
  BY <1>1 DEF InSlot
<1>4. SlotInv'
  BY <1>1, <1>3, SlotKept DEF LinkInv
<1>5. QED BY <1>1, <1>2, <1>4 DEF LinkInv, TypeInv, LoopType, DialType, ConnType, PeerType,
     DiallerInv, QueueInv, ActiveInv, RoundInv

LEMMA LinkNext == LinkInv /\ [Next]_vars => LinkInv'
BY LoopInv, DialInv, AcceptInv, AcceptStepInv, PeerInv DEF Next

LEMMA LinkAlways == Spec => []LinkInv
BY LinkInit, LinkNext, PTL DEF Spec

-----------------------------------------------------------------------------
\* The channels and the locals of the reconnect loop, its diallers and the
\* listener have their types, and the listener takes no more slots than it has
\* (ListenAndAccept), for any number of connections.
THEOREM Typed == Spec => []TypeOK
<1>1. LinkInv => TypeOK
  <2> SUFFICES ASSUME LinkInv PROVE TypeOK
    OBVIOUS
  <2>1. pending \in 0..Slots
    BY InSlotFinite DEF LinkInv, SlotInv
  <2>2. queue \in Seq(Conns) /\ Len(queue) <= 1
    <3>1. CASE queue = <<>>
      BY <3>1
    <3>2. ASSUME NEW c \in Conns, queue = <<c>> PROVE queue \in Seq(Conns) /\ Len(queue) <= 1
      BY <3>2
    <3>3. QED BY <3>1, <3>2 DEF LinkInv, QueueInv
  <2>3. QED BY <2>1, <2>2 DEF LinkInv, TypeInv, LoopType, DialType, ConnType, PeerType, TypeOK
<1>2. QED BY <1>1, LinkAlways, PTL

\* No connection is leaked or used twice: each open socket is in one dialler's
\* hands, one goroutine's of the listener, in the channel, or the loop's,
\* whichever way dialled and accepted ones race (connectWithRetry, main's
\* select, ListenAndAccept), and the slots taken are those of the goroutines.
THEOREM HeldOnce == Spec => []EachHeldOnce
<1>1. LinkInv => EachHeldOnce
  <2> SUFFICES ASSUME LinkInv, NEW c \in Conns
               PROVE  /\ Cardinality({d \in Dialers : Holds(d, c)})
                           = (IF where[c] = "dialler" THEN 1 ELSE 0)
                      /\ where[c] = "queue" <=> queue = <<c>>
                      /\ where[c] = "active" <=> active = c
    BY DEF EachHeldOnce, LinkInv, SlotInv
  <2>1. (where[c] = "queue" <=> queue = <<c>>) /\ (where[c] = "active" <=> active = c)
    BY DEF LinkInv, QueueInv, ActiveInv
  <2>2. CASE where[c] = "dialler"
    <3>1. PICK d \in Dialers : has[d] = c
      BY <2>2 DEF LinkInv, DiallerInv
    <3>2. {e \in Dialers : Holds(e, c)} = {d}
      BY <3>1 DEF LinkInv, DiallerInv, Holds
    <3>3. QED BY <2>1, <2>2, <3>2, FS_Singleton
  <2>3. CASE where[c] # "dialler"
    <3>1. {e \in Dialers : Holds(e, c)} = {}
      BY <2>3 DEF LinkInv, DiallerInv, Holds
    <3>2. QED BY <2>1, <2>3, <3>1, FS_EmptySet
  <2>4. QED BY <2>2, <2>3
<1>2. QED BY <1>1, LinkAlways, PTL

\* A round that selects has a dialler of its own which nobody has stopped, so it
\* does not wait for a peer that nobody calls; and every other dialler that
\* still runs has been told to stop, so a slow connect cannot come back to
\* replace the session that won (the connectStop of each round in main.go).
OwnDialler ==
  /\ loop = "select" => cur \in Dialers /\ dial[cur] # "none" /\ cur \notin stop
  /\ \A d \in Dialers : dial[d] # "none" => (loop = "select" /\ d = cur) \/ d \in stop

THEOREM RoundsOwned == Spec => []OwnDialler
<1>1. LinkInv => OwnDialler
  BY DEF LinkInv, TypeInv, LoopType, RoundInv, OwnDialler
<1>2. QED BY <1>1, LinkAlways, PTL
=============================================================================
