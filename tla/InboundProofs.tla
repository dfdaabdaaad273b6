---------------------------- MODULE InboundProofs ----------------------------
(***************************************************************************)
(* Proofs about module Inbound, for every range of coordinates, jump       *)
(* threshold and gain.  The argument follows the Ctrl that Windows adds to *)
(* AltGr through handlePendingCtrl: who may have left a Ctrl held back,    *)
(* down, or its release marked to be dropped.                              *)
(***************************************************************************)
EXTENDS Inbound, TLAPS

\* The second half of an AltGr event, and what the user has used.
FeedInv ==
  /\ feed \in {<<>>, <<On("altgr")>>, <<Off("altgr")>>, <<Off("lctrl")>>}
  /\ feed = <<On("altgr")>> => "altgr" \in held
  /\ feed = <<Off("lctrl")>> /\ ~mixed => held \cap Ctrls = {}
  /\ held \subseteq used
  /\ "altgr" \in held /\ held \cap Ctrls # {} => mixed
  /\ Ctrls \subseteq held => both
  /\ "altgr" \notin used => feed = <<>>
  /\ "lctrl" \in win => \/ {"lctrl", "altgr"} \cap held # {}
                        \/ feed = <<Off("lctrl")>>
  /\ "rctrl" \in win => "rctrl" \in held

\* A key that is down, or held back, is held by the user.
DownInv ==
  /\ pendingCtrl => \/ pendingCtrlCode \in held
                    \/ feed = <<On("altgr")>> /\ pendingCtrlCode = "lctrl"
  /\ "letter" \in down => "letter" \in held
  /\ "altgr" \in down => "altgr" \in held \/ feed = <<Off("altgr")>>
  /\ ~mixed => down \cap Ctrls \subseteq held

\* A release is marked to be dropped only while the AltGr it belongs to lasts,
\* and a Ctrl Windows holds down without AltGr, and without the other Ctrl, has
\* not been forgotten.
CtrlInv ==
  /\ suppressCtrlUp /\ ~mixed => "altgr" \in held \/ feed = <<Off("lctrl")>>
  /\ "altgr" \notin used /\ ~both =>
       \A k \in win \cap Ctrls : k \in down \/ (pendingCtrl /\ pendingCtrlCode = k)

ArrivedInv == arrived = "switched" => ~inSeeded

KeyInv == FeedInv /\ DownInv /\ CtrlInv
InboundInv == TypeOK /\ KeyInv /\ ArrivedInv

USE InboundAssumption DEF InboundAssumption, Ctrls

LEMMA InboundInit == Init => InboundInv
<1> SUFFICES ASSUME Init PROVE InboundInv
  OBVIOUS
<1>1. TypeOK
  <2>1. feed = <<>> /\ inX = 0 /\ lastInX = 0 /\ 0 \in 0..Far
    BY DEF Init
  <2>2. down \subseteq Keys /\ win \subseteq Keys /\ held \subseteq Keys /\ used \subseteq Keys
        /\ pendingCtrlCode \in Ctrls /\ buttons \subseteq {"left"}
    BY DEF Init
  <2>3. QED BY <2>1, <2>2 DEF Init, TypeOK
<1>2. FeedInv
  <2>1. /\ feed = <<>> /\ held = {} /\ win = {} /\ used = {} /\ both = FALSE
    BY DEF Init
  <2>2. <<>> # <<On("altgr")>> /\ <<>> # <<Off("lctrl")>>
    OBVIOUS
  <2>3. QED BY <2>1, <2>2 DEF FeedInv
<1>3. DownInv /\ CtrlInv /\ ArrivedInv
  BY DEF Init, DownInv, CtrlInv, ArrivedInv
<1>4. QED BY <1>1, <1>2, <1>3 DEF InboundInv, KeyInv

\* The coordinate that moveInbound computes is on the screen.
LEMMA ClampRange == ASSUME NEW v \in Int PROVE Clamp(v) \in 0..Far
BY DEF Clamp

LEMMA ScaledInt == ASSUME NEW d \in Int PROVE Scaled(d) \in Int
BY DEF Scaled

\* A movement leaves the tracker on the screen, and ends an entry.
LEMMA MoveInboundType ==
  ASSUME TypeOK, NEW x \in 0..Far, MoveInbound(x)
  PROVE  /\ inX' \in 0..Far /\ lastInX' \in 0..Far /\ inSeeded' \in BOOLEAN
         /\ arrived' \in {"no", "switched", "next"} /\ ArrivedInv'
<1>1. /\ inX \in Int /\ x \in Int /\ lastInX \in Int /\ x - lastInX \in Int
  BY DEF TypeOK
<1>2. Scaled(x - lastInX) \in Int
  BY <1>1, ScaledInt
<1>3. inX + Scaled(x - lastInX) \in Int
  BY <1>1, <1>2
<1>4. Clamp(inX + Scaled(x - lastInX)) \in 0..Far
  BY <1>3, ClampRange
<1>5. inX' \in 0..Far
  BY <1>4 DEF MoveInbound
<1>6. QED BY <1>5 DEF MoveInbound, ArrivedInv

-----------------------------------------------------------------------------
\* What one keyboard packet does.

LEMMA KeyboardType ==
  ASSUME TypeOK, NEW e \in Event, HandleKeyboard(e)
  PROVE  down' \subseteq Keys /\ pendingCtrl' \in BOOLEAN /\ pendingCtrlCode' \in Ctrls
         /\ suppressCtrlUp' \in BOOLEAN
BY DEF TypeOK, HandleKeyboard, CtrlDown, CtrlUp, AltGrDown, LetterDown, KeyUp,
       Forgets, Flushed, Keys, Ctrls, Event

LEMMA OnOff ==
  /\ \A k \in Keys : On(k) \in Event /\ Off(k) \in Event
  /\ On("altgr") # Off("altgr") /\ On("altgr") # Off("lctrl")
  /\ Off("altgr") # Off("lctrl")
BY DEF On, Off, Event, Keys

\* Delivering a packet keeps the types.
LEMMA DeliverType ==
  ASSUME TypeOK, ArrivedInv, NEW e \in Event, NEW h \in SUBSET Keys, NEW rest,
         rest = <<>> \/ \E f \in Event : rest = <<f>>,
         Deliver(e, h, rest)
  PROVE  TypeOK' /\ ArrivedInv'
<1>1. down' \subseteq Keys /\ pendingCtrl' \in BOOLEAN /\ pendingCtrlCode' \in Ctrls
         /\ suppressCtrlUp' \in BOOLEAN
  BY KeyboardType DEF Deliver
<1>2. win' \subseteq Keys /\ held' \subseteq Keys
  BY DEF Deliver, Reported, TypeOK, Event
<1>3. UNCHANGED <<buttons, trackVars>>
  BY DEF Deliver
<1>4. /\ feed' = rest /\ used' \subseteq Keys /\ both' \in BOOLEAN /\ mixed' \in BOOLEAN
  BY DEF Deliver, TypeOK
<1>5. QED BY <1>1, <1>2, <1>3, <1>4 DEF TypeOK, ArrivedInv, trackVars

-----------------------------------------------------------------------------
\* The events of the hook, one by one.

USE DEF FeedInv, DownInv, CtrlInv, KeyInv

LEMMA PressInv ==
  ASSUME InboundInv, NEW k \in Keys, Press(k)
  PROVE  InboundInv'
<1>1. k \in Ctrls \cup {"letter"} /\ feed = <<>>
  BY DEF Press, Keys
<1>2. Deliver(On(k), held \cup {k}, <<>>)
  BY DEF Press
<1>3. TypeOK' /\ ArrivedInv'
  <2>1. On(k) \in Event /\ held \cup {k} \in SUBSET Keys
    BY OnOff DEF InboundInv, TypeOK
  <2>2. QED BY <1>2, <2>1, DeliverType DEF InboundInv
<1>4. KeyInv'
  <2>1. /\ held' = held \cup {k} /\ feed' = <<>> /\ win' = win \cup {k}
        /\ used' = used \cup held' /\ both' = (both \/ Ctrls \subseteq held')
        /\ mixed' = (mixed \/ ("altgr" \in held' /\ Ctrls \cap held' # {}))
        /\ suppressCtrlUp' = suppressCtrlUp
    BY <1>1, <1>2 DEF Deliver, Reported, On, HandleKeyboard, CtrlDown, LetterDown
  <2>2. CASE k \in Ctrls
    <3>1. pendingCtrl' = TRUE /\ pendingCtrlCode' = k /\ down' = down
      BY <1>2, <2>2 DEF Deliver, On, HandleKeyboard, CtrlDown
    <3>2. QED BY <1>1, <2>1, <2>2, <3>1 DEF InboundInv, TypeOK
  <2>3. CASE k = "letter"
    <3>1. pendingCtrl' = FALSE /\ down' = Flushed \cup {"letter"}
      BY <1>2, <2>3 DEF Deliver, On, HandleKeyboard, LetterDown, Forgets
    <3>2. QED BY <1>1, <2>1, <2>3, <3>1 DEF InboundInv, TypeOK, Flushed
  <2>4. QED BY <1>1, <2>2, <2>3
<1>5. QED BY <1>3, <1>4 DEF InboundInv

LEMMA ReleaseInv ==
  ASSUME InboundInv, NEW k \in Keys, Release(k)
  PROVE  InboundInv'
<1>1. k \in Ctrls \cup {"letter"} /\ feed = <<>> /\ k \in held
  BY DEF Release, Keys
<1>2. Deliver(Off(k), held \ {k}, <<>>)
  BY DEF Release
<1>3. TypeOK' /\ ArrivedInv'
  <2>1. Off(k) \in Event /\ held \ {k} \in SUBSET Keys
    BY OnOff DEF InboundInv, TypeOK
  <2>2. QED BY <1>2, <2>1, DeliverType DEF InboundInv
<1>4. KeyInv'
  <2>1. /\ held' = held \ {k} /\ feed' = <<>> /\ win' = win \ {k}
        /\ used' = used \cup held' /\ both' = (both \/ Ctrls \subseteq held')
        /\ mixed' = (mixed \/ ("altgr" \in held' /\ Ctrls \cap held' # {}))
        /\ pendingCtrl' = FALSE
    BY <1>1, <1>2 DEF Deliver, Reported, Off, HandleKeyboard, CtrlUp, KeyUp, Forgets
  <2>2. CASE k \in Ctrls
    <3>1. /\ suppressCtrlUp' = (suppressCtrlUp /\ pendingCtrl)
          /\ down' = IF suppressCtrlUp /\ ~pendingCtrl THEN down ELSE down \ {k}
      BY <1>2, <2>2 DEF Deliver, Off, HandleKeyboard, CtrlUp, Forgets
    <3>2. QED BY <1>1, <2>1, <2>2, <3>1 DEF InboundInv, TypeOK
  <2>3. CASE k = "letter"
    <3>1. suppressCtrlUp' = suppressCtrlUp /\ down' = Flushed \ {"letter"}
      BY <1>2, <2>3 DEF Deliver, Off, HandleKeyboard, KeyUp, Forgets
    <3>2. QED BY <1>1, <2>1, <2>3, <3>1 DEF InboundInv, TypeOK, Flushed
  <2>4. QED BY <1>1, <2>2, <2>3
<1>5. QED BY <1>3, <1>4 DEF InboundInv

\* AltGr goes down: the Ctrl in front of it is held back.
LEMMA PressAltGrInv == ASSUME InboundInv, PressAltGr PROVE InboundInv'
<1>1. feed = <<>> /\ Deliver(On("lctrl"), held \cup {"altgr"}, <<On("altgr")>>)
  BY DEF PressAltGr
<1>2. TypeOK' /\ ArrivedInv'
  <2>1. /\ On("lctrl") \in Event /\ On("altgr") \in Event
        /\ held \cup {"altgr"} \in SUBSET Keys
    BY OnOff DEF InboundInv, TypeOK, Keys
  <2>2. QED BY <1>1, <2>1, DeliverType DEF InboundInv
<1>3. KeyInv'
  <2>1. /\ held' = held \cup {"altgr"} /\ feed' = <<On("altgr")>>
        /\ win' = win \cup {"lctrl"}
        /\ used' = used \cup held' /\ both' = (both \/ Ctrls \subseteq held')
        /\ mixed' = (mixed \/ ("altgr" \in held' /\ Ctrls \cap held' # {}))
        /\ pendingCtrl' = TRUE /\ pendingCtrlCode' = "lctrl" /\ UNCHANGED <<down, suppressCtrlUp>>
    BY <1>1 DEF Deliver, Reported, On, HandleKeyboard, CtrlDown
  <2>2. QED BY <1>1, <2>1, OnOff DEF InboundInv, TypeOK
<1>4. QED BY <1>2, <1>3 DEF InboundInv

\* AltGr comes up, with its Ctrl before or after it.
LEMMA ReleaseAltGrInv == ASSUME InboundInv, ReleaseAltGr PROVE InboundInv'
<1>1. feed = <<>> /\ "altgr" \in held
  BY DEF ReleaseAltGr
<1>2. /\ Off("lctrl") \in Event /\ Off("altgr") \in Event
      /\ held \ {"altgr"} \in SUBSET Keys
  BY OnOff DEF InboundInv, TypeOK, Keys
<1>3. ~mixed => held \cap Ctrls = {} /\ ~pendingCtrl
  <2>1. feed # <<On("altgr")>> /\ pendingCtrlCode \in Ctrls
    BY <1>1 DEF InboundInv, TypeOK
  <2>2. ~mixed => held \cap Ctrls = {}
    BY <1>1 DEF InboundInv
  <2>3. QED BY <2>1, <2>2 DEF InboundInv
<1>4. CASE Deliver(Off("lctrl"), held \ {"altgr"}, <<Off("altgr")>>)
  <2>1. TypeOK' /\ ArrivedInv'
    BY <1>2, <1>4, DeliverType DEF InboundInv
  <2>2. /\ held' = held \ {"altgr"} /\ feed' = <<Off("altgr")>>
        /\ win' = win \ {"lctrl"}
        /\ used' = used \cup held' /\ both' = (both \/ Ctrls \subseteq held')
        /\ mixed' = mixed
        /\ pendingCtrl' = FALSE /\ suppressCtrlUp' = (suppressCtrlUp /\ pendingCtrl)
        /\ down' = IF suppressCtrlUp /\ ~pendingCtrl THEN down ELSE down \ {"lctrl"}
    BY <1>1, <1>4 DEF Deliver, Reported, Off, HandleKeyboard, CtrlUp, Forgets, InboundInv, TypeOK
  <2>3. KeyInv'
    BY <1>1, <1>3, <2>2, OnOff DEF InboundInv, TypeOK
  <2>4. QED BY <2>1, <2>3 DEF InboundInv
<1>5. CASE Deliver(Off("altgr"), held \ {"altgr"}, <<Off("lctrl")>>)
  <2>1. TypeOK' /\ ArrivedInv'
    BY <1>2, <1>5, DeliverType DEF InboundInv
  <2>2. /\ held' = held \ {"altgr"} /\ feed' = <<Off("lctrl")>>
        /\ win' = win \ {"altgr"}
        /\ used' = used \cup held' /\ both' = (both \/ Ctrls \subseteq held')
        /\ mixed' = mixed
        /\ pendingCtrl' = FALSE /\ suppressCtrlUp' = suppressCtrlUp
        /\ down' = Flushed \ {"altgr"}
    BY <1>1, <1>5 DEF Deliver, Reported, Off, HandleKeyboard, KeyUp, Forgets, InboundInv, TypeOK
  <2>3. KeyInv'
    BY <1>1, <1>3, <2>2, OnOff DEF InboundInv, TypeOK, Flushed
  <2>4. QED BY <2>1, <2>3 DEF InboundInv
<1>6. QED BY <1>4, <1>5 DEF ReleaseAltGr


LEMMA SecondHalfInv == ASSUME InboundInv, SecondHalf PROVE InboundInv'
<1>1. Deliver(Head(feed), held, <<>>)
  BY DEF SecondHalf
<1>2. held' = held /\ feed' = <<>>
  BY <1>1 DEF Deliver
<1>3. UNCHANGED <<used, both, mixed>>
  BY <1>1 DEF Deliver, InboundInv, TypeOK
<1>4. ASSUME NEW e \in Event, feed = <<e>>
      PROVE  Deliver(e, held, <<>>) /\ TypeOK' /\ ArrivedInv'
  <2>1. Deliver(e, held, <<>>)
    BY <1>1, <1>4
  <2>2. held \in SUBSET Keys
    BY DEF InboundInv, TypeOK
  <2>3. QED BY <2>1, <2>2, DeliverType DEF InboundInv
<1>5. CASE feed = <<On("altgr")>>
  <2>1. On("altgr") \in Event
    BY OnOff DEF Keys
  <2>2. /\ win' = win \cup {"altgr"}
        /\ pendingCtrl' = FALSE /\ suppressCtrlUp' = (suppressCtrlUp \/ pendingCtrl)
        /\ down' = down \cup {"altgr"}
    BY <1>4, <1>5, <2>1 DEF Deliver, Reported, On, HandleKeyboard, AltGrDown, Forgets
  <2>3. KeyInv'
    BY <1>2, <1>3, <1>5, <2>2, OnOff DEF InboundInv, TypeOK
  <2>4. QED BY <1>4, <1>5, <2>1, <2>3 DEF InboundInv
<1>6. CASE feed = <<Off("altgr")>>
  <2>1. Off("altgr") \in Event
    BY OnOff DEF Keys
  <2>2. /\ win' = win \ {"altgr"}
        /\ pendingCtrl' = FALSE /\ suppressCtrlUp' = suppressCtrlUp
        /\ down' = Flushed \ {"altgr"}
    BY <1>4, <1>6, <2>1 DEF Deliver, Reported, Off, HandleKeyboard, KeyUp, Forgets
  <2>3. KeyInv'
    BY <1>2, <1>3, <1>6, <2>2, OnOff DEF InboundInv, TypeOK, Flushed
  <2>4. QED BY <1>4, <1>6, <2>1, <2>3 DEF InboundInv
<1>7. CASE feed = <<Off("lctrl")>>
  <2>1. Off("lctrl") \in Event
    BY OnOff DEF Keys
  <2>2. /\ win' = win \ {"lctrl"}
        /\ pendingCtrl' = FALSE /\ suppressCtrlUp' = (suppressCtrlUp /\ pendingCtrl)
        /\ down' = IF suppressCtrlUp /\ ~pendingCtrl THEN down ELSE down \ {"lctrl"}
    BY <1>4, <1>7, <2>1 DEF Deliver, Reported, Off, HandleKeyboard, CtrlUp, Forgets
  <2>3. KeyInv'
    BY <1>2, <1>3, <1>7, <2>2, OnOff DEF InboundInv, TypeOK
  <2>4. QED BY <1>4, <1>7, <2>1, <2>3 DEF InboundInv
<1>8. QED BY <1>5, <1>6, <1>7 DEF SecondHalf, InboundInv

-----------------------------------------------------------------------------
\* Packets that are not the keyboard's, and the user's pause.

\* The flush brings down the Ctrl that was held back, which the user holds.
LEMMA FlushInv ==
  ASSUME InboundInv, feed = <<>>, FlushFirst, UNCHANGED userVars
  PROVE  KeyInv' /\ down' \subseteq Keys
<1>1. UNCHANGED <<win, held, feed, used, both, mixed>>
  BY DEF userVars
<1>2. /\ pendingCtrl' = FALSE /\ UNCHANGED <<pendingCtrlCode, suppressCtrlUp>>
      /\ down' = Flushed
  BY DEF FlushFirst, Forgets
<1>3. QED BY <1>1, <1>2 DEF InboundInv, TypeOK, Flushed, Keys

LEMMA PointerInv ==
  ASSUME InboundInv, NEW x \in 0..Far,
         Move(x) \/ \E up \in BOOLEAN : Button(x, up)
  PROVE  InboundInv'
<1>1. /\ feed = <<>> /\ FlushFirst /\ MoveInbound(x) /\ UNCHANGED userVars
      /\ buttons' \subseteq {"left"}
  BY DEF Move, Button, InboundInv, TypeOK
<1>2. KeyInv' /\ down' \subseteq Keys
  BY <1>1, FlushInv
<1>3. /\ inX' \in 0..Far /\ lastInX' \in 0..Far /\ inSeeded' \in BOOLEAN
      /\ arrived' \in {"no", "switched", "next"} /\ ArrivedInv'
  BY <1>1, MoveInboundType DEF InboundInv
<1>4. TypeOK'
  BY <1>1, <1>2, <1>3 DEF InboundInv, TypeOK, userVars, FlushFirst, Forgets
<1>5. QED BY <1>2, <1>3, <1>4 DEF InboundInv

LEMMA OtherInv ==
  ASSUME InboundInv, MachineSwitched \/ NextMachine \/ OtherPacket
  PROVE  InboundInv'
<1>1. /\ feed = <<>> /\ FlushFirst /\ UNCHANGED <<buttons, userVars>>
      /\ UNCHANGED <<inX, lastInX>>
      /\ inSeeded' \in BOOLEAN /\ arrived' \in {"no", "switched", "next"} /\ ArrivedInv'
  <2>1. CASE MachineSwitched
    BY <2>1 DEF MachineSwitched, ArrivedInv
  <2>2. CASE NextMachine
    BY <2>2 DEF NextMachine, InboundInv, TypeOK, ArrivedInv
  <2>3. CASE OtherPacket
    BY <2>3 DEF OtherPacket, InboundInv, TypeOK, trackVars, ArrivedInv
  <2>4. QED BY <2>1, <2>2, <2>3
<1>2. KeyInv' /\ down' \subseteq Keys
  BY <1>1, FlushInv
<1>3. TypeOK'
  BY <1>1, <1>2 DEF InboundInv, TypeOK, userVars, FlushFirst, Forgets
<1>4. QED BY <1>1, <1>2, <1>3 DEF InboundInv

LEMMA RestInv == ASSUME InboundInv, Rest PROVE InboundInv'
<1>1. TypeOK' /\ ArrivedInv'
  BY DEF Rest, InboundInv, TypeOK, ArrivedInv, keyVars, trackVars
<1>2. KeyInv'
  BY DEF Rest, InboundInv, keyVars
<1>3. QED BY <1>1, <1>2 DEF InboundInv

LEMMA InboundNext == InboundInv /\ [Next]_vars => InboundInv'
<1> SUFFICES ASSUME InboundInv, [Next]_vars PROVE InboundInv'
  OBVIOUS
<1>1. CASE \E k \in Keys : Press(k) \/ Release(k)
  BY <1>1, PressInv, ReleaseInv
<1>2. CASE PressAltGr \/ ReleaseAltGr \/ SecondHalf \/ Rest
  BY <1>2, PressAltGrInv, ReleaseAltGrInv, SecondHalfInv, RestInv
<1>3. CASE \E x \in 0..Far : Move(x) \/ \E up \in BOOLEAN : Button(x, up)
  BY <1>3, PointerInv
<1>4. CASE MachineSwitched \/ NextMachine \/ OtherPacket
  BY <1>4, OtherInv
<1>5. CASE UNCHANGED vars
  <2>1. UNCHANGED <<down, pendingCtrl, pendingCtrlCode, suppressCtrlUp, buttons, inX, lastInX,
                    inSeeded, arrived, win, held, feed, used, both, mixed>>
    BY <1>5 DEF vars, keyVars, trackVars, userVars
  <2>2. TypeOK' /\ ArrivedInv'
    BY <2>1 DEF InboundInv, TypeOK, ArrivedInv
  <2>3. QED BY <2>1, <2>2 DEF InboundInv
<1>6. QED BY <1>1, <1>2, <1>3, <1>4, <1>5 DEF Next

-----------------------------------------------------------------------------
\* Whatever the keyboard hook reports and however packets interleave, the
\* variables of the handler and the devices have their types and the pointer
\* is on the screen (moveInbound), for every range, threshold and gain.
THEOREM Typed == Spec => []TypeOK
<1>1. InboundInv => TypeOK
  BY DEF InboundInv
<1>2. QED BY <1>1, InboundInit, InboundNext, PTL DEF Spec

\* handlePendingCtrl and suppressCtrlUp leave no key down that the user has
\* let go of, and hold no Ctrl back then.
THEOREM KeysReleased == Spec => []NoStuckKeys
<1>1. InboundInv => NoStuckKeys
  BY DEF InboundInv, NoStuckKeys, TypeOK, Keys
<1>2. QED BY <1>1, InboundInit, InboundNext, PTL DEF Spec

\* A Ctrl that is down has been pressed by the user: the one that belongs to
\* AltGr is never injected.
THEOREM AltGrClean == Spec => []AltGrIsNotCtrl
<1>1. InboundInv => AltGrIsNotCtrl
  BY DEF InboundInv, AltGrIsNotCtrl
<1>2. QED BY <1>1, InboundInit, InboundNext, PTL DEF Spec

\* flushPendingCtrl runs before every packet that could use the Ctrl held back,
\* and as long as only one of them is held it is the one Windows holds.
THEOREM ShortcutsWork == Spec => ShortcutHasCtrl
<1> DEFINE Used == (\/ "letter" \in down' \ down
                    \/ buttons' \ buttons # {})
                   /\ "altgr" \notin used /\ ~both => win \cap Ctrls \subseteq down'
<1>1. InboundInv /\ [Next]_vars => [Used]_vars
  <2> SUFFICES ASSUME InboundInv, Next, "altgr" \notin used, ~both,
                      \/ "letter" \in down' \ down
                      \/ buttons' \ buttons # {}
               PROVE  win \cap Ctrls \subseteq down'
    OBVIOUS
  <2>1. feed = <<>> /\ "altgr" \notin held /\ win \cap Ctrls \subseteq Flushed
    BY DEF InboundInv, Flushed
  <2>2. CASE down' = Flushed
    BY <2>1, <2>2
  <2>3. CASE "letter" \in down' \ down /\ down' # Flushed
    <3>1. PICK e \in Event : HandleKeyboard(e)
      BY <2>1, <2>3, OnOff DEF Next, Press, Release, PressAltGr, ReleaseAltGr, SecondHalf,
         Rest, Move, Button, MachineSwitched, NextMachine, OtherPacket, FlushFirst, Deliver,
         keyVars, Keys
    <3>2. pendingCtrlCode \in Ctrls
      BY DEF InboundInv, TypeOK
    <3>3. down' = Flushed \cup {"letter"}
      BY <2>3, <3>1, <3>2 DEF HandleKeyboard, CtrlDown, CtrlUp, AltGrDown, LetterDown, KeyUp,
         Flushed, Event
    <3>4. QED BY <2>1, <3>3
  <2>4. CASE buttons' \ buttons # {} /\ down' # Flushed
    BY <2>1, <2>4 DEF Next, Press, Release, PressAltGr, ReleaseAltGr, SecondHalf,
       Rest, Move, Button, MachineSwitched, NextMachine, OtherPacket, FlushFirst, Deliver
  <2>5. QED BY <2>2, <2>3, <2>4
<1>2. QED BY <1>1, InboundInit, InboundNext, PTL DEF Spec, ShortcutHasCtrl

\* MachineSwitched unseeds the tracker, so the next move is an entry; after a
\* NextMachine the threshold alone decides whether it is.
THEOREM EntriesSnap == Spec => EntrySnaps
<1> DEFINE Snap == arrived # "no" /\ arrived' = "no" =>
                     \/ inX' = lastInX'
                     \/ arrived = "next" /\ Distance(lastInX', lastInX) <= Jump
<1>1. InboundInv /\ [Next]_vars => [Snap]_vars
  <2> SUFFICES ASSUME InboundInv, Next, arrived # "no", arrived' = "no", inX' # lastInX'
               PROVE  arrived = "next" /\ Distance(lastInX', lastInX) <= Jump
    OBVIOUS
  <2>1. PICK x \in 0..Far : MoveInbound(x)
    BY DEF Next, Press, Release, PressAltGr, ReleaseAltGr, SecondHalf, Rest, Move, Button,
       MachineSwitched, NextMachine, OtherPacket, Deliver, trackVars
  <2>2. /\ inSeeded /\ lastInX' = x /\ ~(Distance(x, lastInX) > Jump)
    BY <2>1 DEF MoveInbound
  <2>3. Distance(x, lastInX) <= Jump
    <3>1. Distance(x, lastInX) \in Int
      BY DEF Distance, InboundInv, TypeOK
    <3>2. QED BY <2>2, <3>1
  <2>4. arrived \in {"no", "switched", "next"} /\ arrived # "switched"
    BY <2>2 DEF InboundInv, TypeOK, ArrivedInv
  <2>5. QED BY <2>2, <2>3, <2>4
<1>2. QED BY <1>1, InboundInit, InboundNext, PTL DEF Spec, EntrySnaps
=============================================================================
