------------------------------ MODULE Steering ------------------------------
(***************************************************************************)
(* internal/capture/capture_linux.go: where the cursor is, pixel by pixel, *)
(* on this screen and (as tracked) on the remote one, and which keys have  *)
(* been forwarded.  Module Capture has the threads, the lock and the       *)
(* grabs; here a handler is one step, except for a key: the keyboard's     *)
(* monitor tests whether the cursor is away, and sends, with no lock in    *)
(* between, while the pointer's monitor, the poll and the receive loop     *)
(* change sides.                                                           *)
(*                                                                         *)
(* Abstracted: the horizontal axis only; mouse buttons and the wheel are   *)
(* forwarded without any state; deltas are those after acceleration;       *)
(* three keys stand for all, and both Ctrls (and both Alts) are one; a     *)
(* packet that is not sent ends the connection (module Session).           *)
(*                                                                         *)
(* External: the user's hands, the X11 pointer, and Windows, which may     *)
(* send MachineSwitched and NextMachine whenever it likes.                 *)
(***************************************************************************)
EXTENDS Integers

CONSTANTS
  LocalWidths, RemoteWidths,   \* the widths of the two screens
  EntryClearance, RearmDistance, RemoteReturnMargin,   \* in pixels
  FracNum, FracDen,            \* remoteEntryFraction / 65535
  MaxDelta                     \* how far the mouse moves in one event

ASSUME SteeringAssumption ==
  /\ LocalWidths \subseteq Nat \ {0, 1} /\ RemoteWidths \subseteq Nat \ {0, 1}
  /\ EntryClearance \in Nat /\ RearmDistance \in Nat \ {0}
  /\ RemoteReturnMargin \in Nat /\ FracNum \in Nat /\ FracDen \in Nat \ {0}
  /\ MaxDelta \in Nat

Deltas == (-MaxDelta)..MaxDelta
Keys == {"ctrl", "alt", "right"}

VARIABLES
  edge, width, remoteW,     \* c.edgeSide, c.screen.Width, c.remoteW
  active, canSwitch, canReturn, remoteX,
  grace,                    \* less than 100 ms since switchSent
  hotkeyCtrl, hotkeyAlt,
  stage, code, value,       \* how far the keyboard's monitor is with which event
  x,                        \* external: the local cursor
  held,                     \* external: the keys held down, as far as they were read
  win,                      \* external: the keys Windows holds to be down
  still,                    \* history: no motion since the cursor changed sides
  carried                   \* history: keys down on Windows at the last return, or
                            \* sent there after it

screens == <<edge, width, remoteW>>
gates   == <<active, canSwitch, canReturn, remoteX, grace>>
hotkey  == <<hotkeyCtrl, hotkeyAlt>>
event   == <<stage, code, value>>
keyVars == <<hotkey, event, held, win, carried>>
vars == <<screens, gates, x, still, keyVars>>

Init == /\ edge \in {"left", "right"}
        /\ width \in LocalWidths /\ remoteW \in RemoteWidths
        /\ active = TRUE /\ canSwitch = TRUE /\ canReturn = FALSE
        /\ remoteX = 0 /\ grace = FALSE
        /\ hotkeyCtrl = FALSE /\ hotkeyAlt = FALSE
        /\ stage = "idle" /\ code = "right" /\ value = 0
        /\ x \in 0..(width - 1) /\ held = {} /\ win = {}
        /\ still = FALSE /\ carried = {}

Least(a, b) == IF a < b THEN a ELSE b
Most(a, b)  == IF a < b THEN b ELSE a
Within(v, lo, hi) == Most(lo, Least(v, hi))

-----------------------------------------------------------------------------
\* The geometry.

\* entryInset and SafeEntryPosition.
EntryInset == Most(1, Least(EntryClearance, (width - 1) \div 2))
SafeEntryX == IF edge = "left" THEN EntryInset ELSE width - EntryInset

\* remoteEntryInset and remoteEntryLocked.
RemoteEntryInset ==
  Most(1, (remoteW * FracNum + FracDen \div 2) \div FracDen)
RemoteEntryX == IF edge = "left" THEN remoteW - RemoteEntryInset
                                 ELSE RemoteEntryInset

\* Mutant: the margin is not kept below the landing.
WholeMargin == RemoteReturnMargin
\* The landing must not fall inside the margin of an accepted return.
ReturnMargin == Least(RemoteReturnMargin, RemoteEntryInset \div 2)

AcceptsActivation ==
  \/ active
  \/ edge = "left" /\ remoteX >= remoteW - ReturnMargin
  \/ edge = "right" /\ remoteX <= ReturnMargin

\* The cursor has been away from the edge; the cursor is at the edge.
Away(at) == IF edge = "left" THEN at > RearmDistance
                             ELSE at < width - RearmDistance
AtEdge(at) == IF edge = "left" THEN at <= 1 ELSE at >= width - 1

\* The same two on the remote screen, whose shared edge is the other one.
RemoteAway(at) == IF edge = "left" THEN at < remoteW - RemoteEntryInset
                                   ELSE at > RemoteEntryInset
AtRemoteEdge(at) == IF edge = "left" THEN at >= remoteW - 1 ELSE at <= 0

-----------------------------------------------------------------------------
\* Changing sides.

\* What every return sets.
Return == active' = TRUE /\ grace' = FALSE /\ canSwitch' = FALSE

\* recenter, whose request to the X server may fail.
Recenter == x' = SafeEntryX \/ x' = x

\* Keys that are down on Windows stay so: their release will be local.
Leave == carried' = win /\ still' = TRUE

\* SetActive(true), with the cursor remote.
SetActive == Return /\ canReturn' = FALSE /\ Recenter /\ Leave
             /\ UNCHANGED remoteX

\* One round of pollCursorEdge.  Within 100 ms of the last switch it only arms.
Poll ==
  LET armed == canSwitch \/ Away(x)
  IN /\ active
     /\ canSwitch' = armed
     /\ \/ /\ armed /\ AtEdge(x)
           /\ active' = FALSE /\ grace' = TRUE /\ canReturn' = FALSE
           /\ remoteX' = RemoteEntryX /\ still' = TRUE
        \/ UNCHANGED <<active, grace, canReturn, remoteX, still>>
     /\ UNCHANGED <<screens, x, keyVars>>

\* Events are dropped while the cursor is here, and for 100 ms after a switch.
Forwarding == ~active /\ ~grace

\* handleRel, horizontally.
HandleRel(d) ==
  LET to == Within(remoteX + d, 0, remoteW)
      may == canReturn \/ RemoteAway(to)
  IN /\ Forwarding
     /\ remoteX' = to /\ canReturn' = may
     /\ IF may /\ AtRemoteEdge(to)
        THEN Return /\ Recenter /\ Leave
        ELSE still' = FALSE /\ UNCHANGED <<active, grace, canSwitch, x, carried>>
     /\ UNCHANGED <<screens, hotkey, event, held, win>>

\* Raw absolute motion cannot be forwarded.
HandleAbs == Forwarding /\ SetActive /\ UNCHANGED <<screens, hotkey, event, held, win>>

\* handler.go, MachineSwitched and NextMachine.  AcceptsReclaim looks at the
\* packet alone, so an accepted request may come at any time.
MachineSwitched == /\ ~active /\ AcceptsActivation
                   /\ SetActive /\ UNCHANGED <<screens, hotkey, event, held, win>>
Reclaim == ~active /\ SetActive /\ UNCHANGED <<screens, hotkey, event, held, win>>

-----------------------------------------------------------------------------
\* Keys: value 1 is a press, 2 an autorepeat, 0 a release.

\* The monitor reads the next event: what the user's hands have done.
ReadKey(k, v) ==
  /\ stage = "idle"
  /\ \/ v = 1 /\ k \notin held /\ held' = held \cup {k}
     \/ v = 2 /\ k \in held /\ UNCHANGED held
     \/ v = 0 /\ k \in held /\ held' = held \ {k}
  /\ stage' = "active" /\ code' = k /\ value' = v
  /\ UNCHANGED <<screens, gates, x, still, hotkey, win, carried>>

Done == stage' = "idle" /\ code' = "right" /\ value' = 0

\* handleEvent drops an event while the cursor is here, and then, having let go
\* of the lock, one within the 100 ms.
TestActive == /\ stage = "active"
              /\ IF active THEN Done ELSE stage' = "grace" /\ UNCHANGED <<code, value>>
              /\ UNCHANGED <<screens, gates, x, still, hotkey, held, win, carried>>
TestGrace == /\ stage = "grace"
             /\ IF grace THEN Done ELSE stage' = "key" /\ UNCHANGED <<code, value>>
             /\ UNCHANGED <<screens, gates, x, still, hotkey, held, win, carried>>

\* handleKey up to its own test of ownership.
HandleKey ==
  /\ stage = "key"
  /\ hotkeyCtrl' = IF code = "ctrl" THEN value = 1 ELSE hotkeyCtrl
  /\ hotkeyAlt' = IF code = "alt" THEN value = 1 ELSE hotkeyAlt
  /\ \/ /\ ~active /\ code = "right" /\ value = 1 /\ hotkeyCtrl /\ hotkeyAlt
        /\ SetActive /\ Done
     \/ /\ ~(~active /\ code = "right" /\ value = 1 /\ hotkeyCtrl /\ hotkeyAlt)
        /\ IF active THEN Done ELSE stage' = "send" /\ UNCHANGED <<code, value>>
        /\ UNCHANGED <<gates, x, still, carried>>
  /\ UNCHANGED <<screens, held, win>>

\* Mutant: the release of a hotkey's modifier is not forwarded.
SentNoModifierUp ==
  win' = IF value = 0 /\ code = "right" THEN win \ {code} ELSE win \cup {code}
\* A repeat is sent as another press.
Sent == win' = IF value = 0 THEN win \ {code} ELSE win \cup {code}

\* SendPacket, wherever the cursor is by now.
SendKey ==
  /\ stage = "send"
  /\ Sent
  /\ carried' = IF Forwarding \/ value = 0 THEN carried \ {code} ELSE carried \cup {code}
  /\ Done
  /\ UNCHANGED <<screens, gates, x, still, hotkey, held>>

-----------------------------------------------------------------------------
\* The world outside.

MoveLocal(d) == /\ active /\ x' = Within(x + d, 0, width - 1) /\ x' # x
                /\ still' = FALSE
                /\ UNCHANGED <<screens, gates, keyVars>>

GraceEnds == /\ grace /\ grace' = FALSE
             /\ UNCHANGED <<screens, active, canSwitch, canReturn, remoteX, x,
                            still, keyVars>>

Next == \/ Poll \/ HandleAbs \/ MachineSwitched \/ Reclaim \/ GraceEnds
        \/ \E d \in Deltas : HandleRel(d) \/ MoveLocal(d)
        \/ \E k \in Keys, v \in 0..2 : ReadKey(k, v)
        \/ TestActive \/ TestGrace \/ HandleKey \/ SendKey

Spec == Init /\ [][Next]_vars

-----------------------------------------------------------------------------
\* The cursor stays on the side it has just changed to until the user moves
\* it.  On the remote screen the landing lies outside the margin in which the
\* MachineSwitched that Windows sends in answer would be accepted, and the
\* gate of the return edge is closed; here the poll does not switch back, even
\* when the cursor could not be moved away from the edge.  On every width.
NoBounce ==
  still => IF active THEN ~((canSwitch \/ Away(x)) /\ AtEdge(x))
                     ELSE ~AcceptsActivation /\ ~canReturn

\* A key that is down on Windows is one the user holds down, or one whose
\* release is on its way, whatever was pressed, repeated or released before,
\* during and after a switch; except for a key that was down when the cursor
\* came back, the modifiers of the hotkey themselves included, or whose press
\* had passed the tests of ownership by then and was sent after it: the release
\* of these is not forwarded.
KeysFollow ==
  win \ carried \subseteq held \cup (IF stage # "idle" /\ value = 0 THEN {code} ELSE {})
=============================================================================
