-------------------------------- MODULE Link --------------------------------
(***************************************************************************)
(* How mwb gets its control connection, and gets it back: the reconnect    *)
(* loop of cmd/mwb, the dialling goroutine each of its rounds starts       *)
(* (ConnectWithRetry) and the listener (ListenAndAccept).                  *)
(*                                                                         *)
(* A connection is where it is held: by a dialler, by the goroutine the    *)
(* listener starts for it, in the listener's channel of one, or by the     *)
(* loop.  Its setup, its session and its teardown are modules Session and  *)
(* Capture; here they take some time and end.  External: the peer, which   *)
(* may be reached by dialling, may dial, or both.  At times it or the      *)
(* network is unsteady: connections then fail and break one by one, all    *)
(* of them where the peer itself is gone.                                  *)
(***************************************************************************)
EXTENDS Naturals, Sequences, FiniteSets

CONSTANTS
  Conns,    \* sockets of this process
  MaxIn,    \* bound: accepted sockets open at a time
  Dialers,  \* dialling goroutines; bound on those alive at a time
  NoConn, NoDialer,
  Slots     \* maxPendingHandshakes

ASSUME LinkAssumption ==
  /\ IsFiniteSet(Conns) /\ NoConn \notin Conns
  /\ MaxIn + 2 <= Cardinality(Conns)
  /\ NoDialer \notin Dialers
  /\ Slots \in Nat \ {0}

VARIABLES
  reach,    \* external: the directions in which a connection can be made
  steady,   \* external: no connection fails or breaks
  alive,    \* external: connections whose other end is still there
  where,    \* per connection: who holds it
  loop,     \* the reconnect loop's place
  active,   \* its conn
  cur,      \* the dialler of this round
  dial,     \* per dialler: its place
  has,      \* per dialler: the connection it has
  stop,     \* diallers whose stop channel is closed
  pending,  \* the listener's slots in use
  queue     \* connCh of the listener

peerVars == <<reach, steady>>
loopVars == <<loop, active, cur>>
dialVars == <<dial, has, stop>>
inVars   == <<pending, queue>>
vars == <<peerVars, alive, where, loopVars, dialVars, inVars>>

Directions == {"out", "in"}
Free == {c \in Conns : where[c] = "free"}
IdleDialers == {d \in Dialers : dial[d] = "none"}
\* Which descriptor the kernel hands out, and which goroutine runs, is immaterial.
NewConn == CHOOSE c \in Free : TRUE
NewDialer == CHOOSE d \in IdleDialers : TRUE

Init == /\ reach \in SUBSET Directions \ {{}}
        /\ steady = TRUE
        /\ alive = {}
        /\ where = [c \in Conns |-> "free"]
        /\ loop = "start" /\ active = NoConn /\ cur = NoDialer
        /\ dial = [d \in Dialers |-> "none"]
        /\ has = [d \in Dialers |-> NoConn]
        /\ stop = {}
        /\ pending = 0 /\ queue = <<>>

\* A socket opens in somebody's hands, goes from hand to hand, and is closed.
Opened(c, w) == where' = [where EXCEPT ![c] = w] /\ alive' = alive \cup {c}
Moved(c, w)  == where' = [where EXCEPT ![c] = w] /\ UNCHANGED alive
Closed(c)    == where' = [where EXCEPT ![c] = "free"] /\ alive' = alive \ {c}

-----------------------------------------------------------------------------
\* The reconnect loop.

\* A round starts a dialler of its own ...
StartRound == /\ loop = "start"
              /\ IdleDialers # {}
              /\ cur' = NewDialer
              /\ dial' = [dial EXCEPT ![NewDialer] = "dialing"]
              /\ stop' = stop \ {NewDialer}
              /\ loop' = "select"
              /\ UNCHANGED <<peerVars, alive, where, active, has, inVars>>

\* ... takes the first connection of either kind, and stops the dialler.
Chosen(c) == /\ active' = c
             /\ Moved(c, "active")
             /\ stop' = stop \cup {cur}
             /\ cur' = NoDialer
             /\ loop' = "session"

TakeOutbound == /\ loop = "select"
                /\ dial[cur] = "offer"
                /\ Chosen(has[cur])
                /\ dial' = [dial EXCEPT ![cur] = "none"]
                /\ has' = [has EXCEPT ![cur] = NoConn]
                /\ UNCHANGED <<peerVars, inVars>>

TakeInbound == /\ loop = "select"
               /\ queue # <<>>
               /\ Chosen(Head(queue))
               /\ queue' = Tail(queue)
               /\ UNCHANGED <<peerVars, dial, has, pending>>

\* ReceiveLoop returns when the connection is broken.
SessionEnds == /\ loop = "session"
               /\ active \notin alive
               /\ loop' = "teardown"
               /\ UNCHANGED <<peerVars, alive, where, active, cur, dialVars, inVars>>

\* Capture and clipboard have been stopped: the connection is closed, and after
\* 100 ms the next round begins.
CloseActive == /\ loop = "teardown"
               /\ Closed(active)
               /\ active' = NoConn
               /\ loop' = "start"
               /\ UNCHANGED <<peerVars, cur, dialVars, inVars>>

-----------------------------------------------------------------------------
\* connectWithRetry, in dialler d.

\* Connect: dialled and set up, or failed (and closed) within its deadlines.
ConnectSucceeds(d) == /\ dial[d] = "dialing"
                      /\ "out" \in reach
                      /\ Free # {}
                      /\ Opened(NewConn, "dialler")
                      /\ has' = [has EXCEPT ![d] = NewConn]
                      /\ dial' = [dial EXCEPT ![d] = "offer"]
                      /\ UNCHANGED <<peerVars, loopVars, stop, inVars>>

ConnectFails(d) == /\ dial[d] = "dialing"
                   /\ ~steady \/ "out" \notin reach
                   /\ dial' = [dial EXCEPT ![d] = "wait"]
                   /\ UNCHANGED <<peerVars, alive, where, loopVars, has, stop, inVars>>

\* It tries again in a second, unless it is stopped while it waits.
Retry(d) == /\ dial[d] = "wait"
            /\ dial' = [dial EXCEPT ![d] = "dialing"]
            /\ UNCHANGED <<peerVars, alive, where, loopVars, has, stop, inVars>>

GivesUp(d) == /\ dial[d] = "wait" /\ d \in stop
              /\ dial' = [dial EXCEPT ![d] = "none"]
              /\ UNCHANGED <<peerVars, alive, where, loopVars, has, stop, inVars>>

\* Mutant: a channel with room takes the connection, which nobody reads.
LoserQueues(d) == /\ dial[d] = "offer" /\ d \in stop
                  /\ has' = [has EXCEPT ![d] = NoConn]
                  /\ dial' = [dial EXCEPT ![d] = "none"]
                  /\ UNCHANGED <<peerVars, alive, where, loopVars, stop, inVars>>

\* Mutant: the send does not wait for stop as well.
LoserWaits(d) == dial[d] = "offer" /\ d \in stop /\ UNCHANGED vars

\* Nobody takes the connection of a round that is over: it is closed.
LoserCloses(d) == /\ dial[d] = "offer" /\ d \in stop
                  /\ Closed(has[d])
                  /\ has' = [has EXCEPT ![d] = NoConn]
                  /\ dial' = [dial EXCEPT ![d] = "none"]
                  /\ UNCHANGED <<peerVars, loopVars, stop, inVars>>

-----------------------------------------------------------------------------
\* ListenAndAccept, and the goroutine of an accepted connection c.

\* A connection is accepted if a slot is free (else closed at once: no step).
\* The bound leaves a socket to the dialler and one to its predecessor.
Accepted == {c \in Conns : where[c] \in {"setup", "offer", "queue"}}
Accept == /\ "in" \in reach
          /\ pending < Slots
          /\ Cardinality(Accepted \cup ({active} \ {NoConn})) < MaxIn
          /\ pending' = pending + 1
          /\ Free # {}
          /\ Opened(NewConn, "setup")
          /\ UNCHANGED <<peerVars, loopVars, dialVars, queue>>

\* The goroutine ends, whichever way: its slot comes back.
Leaves(c) == pending' = pending - 1

\* Mutant: a goroutine that fails keeps its slot.
AcceptEndsInSlot(c) == /\ where[c] = "setup"
                       /\ Closed(c)
                       /\ UNCHANGED <<peerVars, loopVars, dialVars, inVars>>

\* The setup fails; or the first packet makes it a file channel, which is served
\* to its end in this slot.
AcceptEnds(c) == /\ where[c] = "setup"
                 /\ Closed(c)
                 /\ Leaves(c)
                 /\ UNCHANGED <<peerVars, loopVars, dialVars, queue>>

\* A control connection waits for the channel to be empty.
Handshaken(c) == /\ where[c] = "setup" /\ c \in alive
                 /\ Moved(c, "offer")
                 /\ UNCHANGED <<peerVars, loopVars, dialVars, inVars>>

\* Mutant: the channel has room for all.
EnqueueAlways(c) == /\ where[c] = "offer"
                    /\ queue' = Append(queue, c)
                    /\ Moved(c, "queue")
                    /\ Leaves(c)
                    /\ UNCHANGED <<peerVars, loopVars, dialVars>>

Enqueue(c) == /\ where[c] = "offer"
              /\ queue = <<>>
              /\ queue' = <<c>>
              /\ Moved(c, "queue")
              /\ Leaves(c)
              /\ UNCHANGED <<peerVars, loopVars, dialVars>>

-----------------------------------------------------------------------------
\* External: a connection breaks, whether anybody uses it yet or not.
Breaks(c) == /\ ~steady /\ c \in alive
             /\ alive' = alive \ {c}
             /\ UNCHANGED <<peerVars, where, loopVars, dialVars, inVars>>

Unsettles == /\ steady /\ steady' = FALSE
             /\ UNCHANGED <<reach, alive, where, loopVars, dialVars, inVars>>

Settles == /\ ~steady /\ steady' = TRUE
           /\ UNCHANGED <<reach, alive, where, loopVars, dialVars, inVars>>

-----------------------------------------------------------------------------
LoopStep == StartRound \/ TakeOutbound \/ TakeInbound \/ SessionEnds \/ CloseActive
DialStep(d) == ConnectSucceeds(d) \/ ConnectFails(d) \/ LoserCloses(d)
AcceptStep(c) == AcceptEnds(c) \/ Handshaken(c) \/ Enqueue(c)

Next == \/ LoopStep
        \/ \E d \in Dialers : DialStep(d) \/ Retry(d) \/ GivesUp(d)
        \/ Accept
        \/ \E c \in Conns : AcceptStep(c) \/ Breaks(c)
        \/ Unsettles \/ Settles

\* Goroutines run, dialling and setup have deadlines, keepalive finds a dead
\* peer; select takes a closed stop channel; a steady peer sends its file, keeps
\* dialling, and now and then as a control connection.
Fairness == /\ WF_vars(LoopStep)
            /\ \A d \in Dialers : WF_vars(DialStep(d)) /\ WF_vars(Retry(d))
            /\ \A d \in Dialers : SF_vars(GivesUp(d))
            /\ \A c \in Conns : WF_vars(AcceptStep(c))
            /\ SF_vars(steady /\ Accept)
            /\ SF_vars(steady /\ \E c \in Conns : Handshaken(c))

Spec == Init /\ [][Next]_vars /\ Fairness

-----------------------------------------------------------------------------
Places == {"free", "dialler", "setup", "offer", "queue", "active"}

\* Each variable has its type: the channels and locals of the three goroutines.
TypeOK == /\ reach \subseteq Directions /\ steady \in BOOLEAN
          /\ alive \subseteq Conns /\ where \in [Conns -> Places]
          /\ loop \in {"start", "select", "session", "teardown"}
          /\ active \in Conns \cup {NoConn} /\ cur \in Dialers \cup {NoDialer}
          /\ dial \in [Dialers -> {"none", "dialing", "wait", "offer"}]
          /\ has \in [Dialers -> Conns \cup {NoConn}] /\ stop \subseteq Dialers
          /\ pending \in 0..Slots
          /\ queue \in Seq(Conns) /\ Len(queue) <= 1

\* What the goroutines of the listener hold, and those of the diallers.
InSlot == {c \in Conns : where[c] \in {"setup", "offer"}}
Holds(d, c) == dial[d] = "offer" /\ has[d] = c

\* No connection is leaked and none is used twice: each open socket is in the
\* hands of one running goroutine, in the listener's channel, or the loop's,
\* however the dialled and the accepted one race; and a slot is taken for each
\* goroutine of the listener and for nothing else.
EachHeldOnce ==
  /\ \A c \in Conns :
       /\ Cardinality({d \in Dialers : Holds(d, c)})
            = (IF where[c] = "dialler" THEN 1 ELSE 0)
       /\ where[c] = "queue" <=> queue = <<c>>
       /\ where[c] = "active" <=> active = c
  /\ pending = Cardinality(InSlot)

\* A dialler of a round that is over ends, and what it had is closed: a slow
\* connect never comes back to replace the session that won.
LosersEnd == \A d \in Dialers : d \in stop ~> dial[d] = "none"

\* Once peer and network stay, so does a session: whatever broken connections
\* wait in the channel, and with every slot taken, the loop gets through them,
\* be the peer to be dialled, dialling, or both.
Linked == loop = "session" /\ active \in alive
Recovers == <>[]steady => <>[]Linked
=============================================================================
