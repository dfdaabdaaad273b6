------------------------------ MODULE Inbound ------------------------------
(***************************************************************************)
(* internal/network/handler.go: what a Handler injects for the keyboard    *)
(* and the pointer of the Windows machine while the cursor is here.  One   *)
(* goroutine (ReceiveLoop) calls it, one packet after the other.           *)
(*                                                                         *)
(* External: the keyboard hook of PowerToys.  It reports every press,      *)
(* autorepeat and release, and on a layout with AltGr each event of that   *)
(* key together with one of the left Ctrl, which nobody touched; no other  *)
(* packet comes between the two.                                           *)
(*                                                                         *)
(* Abstracted: one letter stands for every key that is neither of the      *)
(* Ctrls nor the right Alt, one button for five, one axis for two; a write *)
(* to uinput does not fail.  A key that is already down ignores a second   *)
(* KeyDown, one that is up a KeyUp: the kernel's input core drops both.    *)
(***************************************************************************)
EXTENDS Integers, Sequences

CONSTANTS
  Far,               \* the greatest coordinate (65535)
  Jump,              \* inboundJumpThreshold (4096)
  GainNum, GainDen   \* InboundMultiplier, as a fraction

ASSUME InboundAssumption ==
  /\ Far \in Nat /\ Jump \in Nat
  /\ GainNum \in Nat \ {0} /\ GainDen \in Nat \ {0}

VARIABLES
  win,        \* external: the keys Windows holds to be down
  held,       \* external: the keys the user holds down
  feed,       \* external: the second packet of an AltGr event, on its way
  down,       \* uinput: the keys that are down
  buttons,    \* uinput: the buttons that are down
  pendingCtrl, pendingCtrlCode,  \* a Ctrl is held back, and which one
  suppressCtrlUp,                \* h.suppressCtrlUp
  inX, lastInX, inSeeded,        \* the inbound tracker, one axis
  used,       \* history: the keys pressed since all keys were up
  both,       \* history: both Ctrls held down together since all keys were up
  mixed,      \* history: a Ctrl and AltGr have been held down together
  arrived     \* history: by which packet the cursor came in, until it is moved

keyVars   == <<down, pendingCtrl, pendingCtrlCode, suppressCtrlUp>>
trackVars == <<inX, lastInX, inSeeded, arrived>>
userVars  == <<win, held, feed, used, both, mixed>>
vars == <<keyVars, buttons, trackVars, userVars>>

Ctrls == {"lctrl", "rctrl"}
Keys == Ctrls \cup {"altgr", "letter"}
Event == [key : Keys, up : BOOLEAN]

Init == /\ win = {} /\ held = {} /\ feed = <<>>
        /\ down = {} /\ buttons = {}
        /\ pendingCtrl = FALSE /\ pendingCtrlCode = "lctrl"
        /\ suppressCtrlUp = FALSE
        /\ inX = 0 /\ lastInX = 0 /\ inSeeded = FALSE
        /\ used = {} /\ both = FALSE /\ mixed = FALSE
        /\ arrived = "no"

-----------------------------------------------------------------------------
\* handleKeyboard, with handlePendingCtrl in front of it.

\* flushPendingCtrl: a Ctrl held back goes down before whatever comes next.
Flushed == IF pendingCtrl THEN down \cup {pendingCtrlCode} ELSE down
Forgets == pendingCtrl' = FALSE /\ UNCHANGED pendingCtrlCode

\* A Ctrl may be half of AltGr: it is held back until the next packet.  One that
\* was held back already is forgotten.
CtrlDown(k) == /\ pendingCtrl' = TRUE /\ pendingCtrlCode' = k
               /\ UNCHANGED <<down, suppressCtrlUp>>

\* Mutant: the release to be dropped is not forgotten once it was dropped.
CtrlUpKeepsSuppress(k) ==
  /\ Forgets
  /\ UNCHANGED suppressCtrlUp
  /\ down' = IF suppressCtrlUp /\ ~pendingCtrl THEN down ELSE down \ {k}

\* If a Ctrl is held back, the released one goes down and up, whichever was held
\* back; else the release that belongs to an AltGr is dropped; any other one is
\* injected.
CtrlUp(k) ==
  /\ Forgets
  /\ suppressCtrlUp' = (suppressCtrlUp /\ pendingCtrl)
  /\ down' = IF suppressCtrlUp /\ ~pendingCtrl THEN down ELSE down \ {k}

\* Mutant: the Ctrl held back is injected before the right Alt, too.
AltGrDownFlushes == /\ Forgets
                    /\ UNCHANGED suppressCtrlUp
                    /\ down' = Flushed \cup {"altgr"}

\* The right Alt after a Ctrl held back: that Ctrl was Windows' own.
AltGrDown == /\ Forgets
             /\ suppressCtrlUp' = (suppressCtrlUp \/ pendingCtrl)
             /\ down' = down \cup {"altgr"}

LetterDown == /\ Forgets
              /\ down' = Flushed \cup {"letter"}
              /\ UNCHANGED suppressCtrlUp

KeyUp(k) == /\ Forgets
            /\ down' = Flushed \ {k}
            /\ UNCHANGED suppressCtrlUp

HandleKeyboard(e) ==
  \/ e.key \in Ctrls /\ ~e.up /\ CtrlDown(e.key)
  \/ e.key \in Ctrls /\ e.up /\ CtrlUp(e.key)
  \/ e.key = "altgr" /\ ~e.up /\ AltGrDown
  \/ e.key = "letter" /\ ~e.up /\ LetterDown
  \/ e.key \notin Ctrls /\ e.up /\ KeyUp(e.key)

\* Mutant: only keyboard packets flush.
NeverFirst == UNCHANGED keyVars

\* HandlePacket flushes before any packet that is not the keyboard's.
FlushFirst == /\ Forgets
              /\ down' = Flushed
              /\ UNCHANGED suppressCtrlUp

-----------------------------------------------------------------------------
\* handleMouse and moveInbound.

Distance(a, b) == IF a < b THEN b - a ELSE a - b
\* Mutant: no upper bound.
ClampBelow(v) == IF v < 0 THEN 0 ELSE v
Clamp(v) == IF v < 0 THEN 0 ELSE IF v > Far THEN Far ELSE v
\* int32(float64(d) * mult): truncated towards zero.
Scaled(d) == IF d < 0 THEN -((-d * GainNum) \div GainDen)
                      ELSE (d * GainNum) \div GainDen

MoveInbound(x) ==
  /\ inX' = IF ~inSeeded \/ Distance(x, lastInX) > Jump \/ GainNum = GainDen
            THEN x ELSE Clamp(inX + Scaled(x - lastInX))
  /\ lastInX' = x
  /\ inSeeded' = TRUE
  /\ arrived' = "no"

Move(x) == /\ feed = <<>>
           /\ FlushFirst
           /\ MoveInbound(x)
           /\ UNCHANGED <<buttons, userVars>>

Button(x, up) == /\ feed = <<>>
                 /\ FlushFirst
                 /\ MoveInbound(x)
                 /\ buttons' = IF up THEN {} ELSE {"left"}
                 /\ UNCHANGED userVars

\* Mutant: the tracker goes on from where the cursor had left.
SwitchedKeepsSeed == /\ feed = <<>>
                     /\ FlushFirst
                     /\ arrived' = "switched"
                     /\ UNCHANGED <<buttons, inX, lastInX, inSeeded, userVars>>

\* MachineSwitched: the next move is an entry, not a continuation.  Refused by
\* ShouldActivate it is like any packet that only flushes.
MachineSwitched == /\ feed = <<>>
                   /\ FlushFirst
                   /\ inSeeded' = FALSE
                   /\ arrived' = "switched"
                   /\ UNCHANGED <<buttons, inX, lastInX, userVars>>

\* NextMachine brings the cursor in as well, and leaves the tracker as it is.
\* Refused by ShouldReclaim it is like any packet that only flushes.
NextMachine == /\ feed = <<>>
               /\ FlushFirst
               /\ arrived' = IF arrived = "no" THEN "next" ELSE arrived
               /\ UNCHANGED <<buttons, inX, lastInX, inSeeded, userVars>>

\* The wheel, the clipboard and control packets inject no state of their own.
OtherPacket == /\ feed = <<>>
               /\ FlushFirst
               /\ UNCHANGED <<buttons, trackVars, userVars>>

-----------------------------------------------------------------------------
\* External: the user, Windows' keyboard state, and the hook.

Reported(e) == win' = IF e.up THEN win \ {e.key} ELSE win \cup {e.key}
Deliver(e, h, rest) ==
  /\ HandleKeyboard(e)
  /\ Reported(e)
  /\ held' = h
  /\ feed' = rest
  /\ used' = used \cup h
  /\ both' = (both \/ Ctrls \subseteq h)
  /\ mixed' = (mixed \/ ("altgr" \in h /\ Ctrls \cap h # {}))
  /\ UNCHANGED <<buttons, trackVars>>

On(k)  == [key |-> k, up |-> FALSE]
Off(k) == [key |-> k, up |-> TRUE]

\* A press or its autorepeat, and a release.
Press(k) == feed = <<>> /\ k # "altgr" /\ Deliver(On(k), held \cup {k}, <<>>)
Release(k) == feed = <<>> /\ k \in held \ {"altgr"} /\ Deliver(Off(k), held \ {k}, <<>>)

\* AltGr comes with a left Ctrl: before it when pressed, on either side when
\* released.
PressAltGr == feed = <<>> /\ Deliver(On("lctrl"), held \cup {"altgr"}, <<On("altgr")>>)
ReleaseAltGr ==
  /\ feed = <<>> /\ "altgr" \in held
  /\ \/ Deliver(Off("lctrl"), held \ {"altgr"}, <<Off("altgr")>>)
     \/ Deliver(Off("altgr"), held \ {"altgr"}, <<Off("lctrl")>>)
SecondHalf == feed # <<>> /\ Deliver(Head(feed), held, <<>>)

\* All keys up: what is used from here on is a new chord.
Rest == /\ held = {} /\ feed = <<>> /\ used # {}
        /\ used' = {} /\ both' = FALSE
        /\ UNCHANGED <<keyVars, buttons, trackVars, win, held, feed, mixed>>

Next == \/ \E k \in Keys : Press(k) \/ Release(k)
        \/ PressAltGr \/ ReleaseAltGr \/ SecondHalf \/ Rest
        \/ \E x \in 0..Far : Move(x) \/ \E up \in BOOLEAN : Button(x, up)
        \/ MachineSwitched \/ NextMachine \/ OtherPacket

Spec == Init /\ [][Next]_vars

-----------------------------------------------------------------------------
\* Each variable has its type; the pointer stays on the screen.
TypeOK == /\ win \subseteq Keys /\ held \subseteq Keys
          /\ feed = <<>> \/ \E e \in Event : feed = <<e>>
          /\ down \subseteq Keys /\ buttons \subseteq {"left"}
          /\ pendingCtrl \in BOOLEAN /\ pendingCtrlCode \in Ctrls
          /\ suppressCtrlUp \in BOOLEAN
          /\ inX \in 0..Far /\ lastInX \in 0..Far /\ inSeeded \in BOOLEAN
          /\ used \subseteq Keys /\ both \in BOOLEAN /\ mixed \in BOOLEAN
          /\ arrived \in {"no", "switched", "next"}

\* When the user has let go of every key, none is down here and no Ctrl is
\* held back, whatever was held back, dropped or flushed on the way.  Only a
\* Ctrl may be left down, and only once a Ctrl and AltGr have been held together:
\* suppressCtrlUp then outlives the AltGr and swallows the release of a Ctrl
\* the user pressed.
NoStuckKeys == held = {} /\ feed = <<>> =>
                 down \subseteq (IF mixed THEN Ctrls ELSE {}) /\ ~pendingCtrl

\* The Ctrl that Windows adds to AltGr is never injected: a Ctrl that is down
\* here is one the user has pressed himself (or one left down, see above).
AltGrIsNotCtrl == ~mixed => down \cap Ctrls \subseteq used

\* A shortcut keeps its Ctrl: while no AltGr is involved, a letter or a click
\* that follows a Ctrl that Windows holds down finds that Ctrl down here.  Not
\* so once the user has held both Ctrls: handlePendingCtrl remembers one of them
\* only, and the release of either makes it forget the other.
ShortcutHasCtrl ==
  [][(\/ "letter" \in down' \ down
      \/ buttons' \ buttons # {})
     /\ "altgr" \notin used /\ ~both => win \cap Ctrls \subseteq down']_vars

\* The first movement after the cursor came in puts it where Windows says it
\* is, however far the tracker had drifted from that before the cursor left.
\* Not so after a NextMachine, if it comes in no further than the threshold from
\* where Windows had last reported it: then it goes on from where it was left.
EntrySnaps ==
  [][arrived # "no" /\ arrived' = "no" =>
       \/ inX' = lastInX'
       \/ arrived = "next" /\ Distance(lastInX', lastInX) <= Jump]_vars
=============================================================================
