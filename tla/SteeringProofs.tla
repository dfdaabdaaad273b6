--------------------------- MODULE SteeringProofs ---------------------------
(***************************************************************************)
(* Proofs about module Steering, for every pair of widths and all margins. *)
(***************************************************************************)
EXTENDS Steering, TLAPS

ScreenInv ==
  /\ edge \in {"left", "right"}
  /\ width \in Nat \ {0, 1} /\ remoteW \in Nat \ {0, 1}
  /\ x \in Int /\ remoteX \in Int

\* While the cursor is here, or its switch is less than 100 ms old, what is down
\* on Windows was so at the return, or was sent after it.
CarriedInv == active \/ grace => win \subseteq carried

\* A press on its way is one the user still holds.
EventInv == /\ stage # "idle" /\ value # 0 => code \in held
            /\ value \in 0..2

SteeringInv == ScreenInv /\ CarriedInv /\ EventInv /\ KeysFollow /\ NoBounce

USE SteeringAssumption DEF SteeringAssumption

\* Where the cursor lands on the remote screen is at least a pixel from the
\* shared edge and outside the margin of an accepted return.
LEMMA LandingOutsideMargin ==
  ASSUME ScreenInv
  PROVE  /\ RemoteEntryInset \in Nat \ {0} /\ ReturnMargin \in Nat
         /\ ReturnMargin < RemoteEntryInset
         /\ RemoteEntryX \in Int
<1> DEFINE inset == (remoteW * FracNum + FracDen \div 2) \div FracDen
<1>1. inset \in Int
  <2>1. remoteW * FracNum \in Int /\ FracDen \in Int /\ FracDen > 0
    BY DEF ScreenInv
  <2>2. remoteW * FracNum + FracDen \div 2 \in Int
    BY <2>1
  <2>3. QED BY <2>1, <2>2
<1>2. RemoteEntryInset \in Nat \ {0}
  BY <1>1 DEF RemoteEntryInset, Most
<1>3. ReturnMargin \in Nat /\ ReturnMargin < RemoteEntryInset
  BY <1>2 DEF ReturnMargin, Least
<1>4. RemoteEntryX \in Int
  BY <1>2 DEF RemoteEntryX, ScreenInv
<1>5. QED BY <1>2, <1>3, <1>4

LEMMA SafeEntryInt == ASSUME ScreenInv PROVE SafeEntryX \in Int
BY DEF ScreenInv, SafeEntryX, EntryInset, Most, Least

\* A position cannot be at the edge and away from it.
LEMMA EdgeOrAway ==
  ASSUME ScreenInv, NEW at \in Int
  PROVE  ~(AtEdge(at) /\ Away(at))
BY DEF ScreenInv, AtEdge, Away

LEMMA SteeringInit == Init => SteeringInv
<1> SUFFICES ASSUME Init PROVE SteeringInv
  OBVIOUS
<1>1. ScreenInv
  BY DEF Init, ScreenInv
<1>2. CarriedInv /\ EventInv /\ KeysFollow /\ NoBounce
  BY DEF Init, CarriedInv, EventInv, KeysFollow, NoBounce
<1>3. QED BY <1>1, <1>2 DEF SteeringInv

-----------------------------------------------------------------------------
\* The cursor comes back, however it does.
LEMMA ReturnInv ==
  ASSUME SteeringInv, Return, Recenter, Leave, UNCHANGED <<screens, held, win>>,
         UNCHANGED event \/ Done, remoteX' \in Int
  PROVE  SteeringInv'
<1>1. x' \in Int /\ ScreenInv'
  BY SafeEntryInt DEF SteeringInv, ScreenInv, Recenter, screens
<1>2. /\ active' = TRUE /\ canSwitch' = FALSE /\ carried' = win' /\ still' = TRUE
  BY DEF Return, Leave
<1>3. ~(AtEdge(x') /\ Away(x'))
  BY <1>1, EdgeOrAway DEF SteeringInv
<1>4. ~(AtEdge(x) /\ Away(x))'
  BY <1>3 DEF AtEdge, Away, screens
<1>5. NoBounce'
  BY <1>2, <1>4 DEF NoBounce
<1>6. CarriedInv' /\ KeysFollow' /\ EventInv'
  BY <1>2 DEF SteeringInv, CarriedInv, KeysFollow, EventInv, Done, event
<1>7. QED BY <1>1, <1>5, <1>6 DEF SteeringInv

LEMMA SetActiveInv ==
  ASSUME SteeringInv, SetActive, UNCHANGED <<screens, held, win>>,
         UNCHANGED event \/ Done
  PROVE  SteeringInv'
BY ReturnInv DEF SetActive, SteeringInv, ScreenInv

LEMMA PollInv == ASSUME SteeringInv, Poll PROVE SteeringInv'
<1>1. UNCHANGED <<edge, width, remoteW, x, stage, code, value, held, win, carried>> /\ active
  BY DEF Poll, screens, keyVars, event
<1>2. CarriedInv' /\ EventInv' /\ KeysFollow'
  BY <1>1 DEF SteeringInv, CarriedInv, EventInv, KeysFollow
<1>3. CASE active' = FALSE /\ canReturn' = FALSE /\ remoteX' = RemoteEntryX
  <2>1. ScreenInv'
    BY <1>1, <1>3, LandingOutsideMargin DEF SteeringInv, ScreenInv
  <2>2. ReturnMargin' = ReturnMargin
    BY <1>1 DEF ReturnMargin, RemoteEntryInset
  <2>3. ~AcceptsActivation'
    BY <1>1, <1>3, <2>2, LandingOutsideMargin
       DEF SteeringInv, ScreenInv, AcceptsActivation, RemoteEntryX
  <2>4. NoBounce'
    BY <1>3, <2>3 DEF NoBounce
  <2>5. QED BY <1>2, <2>1, <2>4 DEF SteeringInv
<1>4. CASE UNCHANGED <<active, grace, canReturn, remoteX, still>>
  <2>1. ScreenInv'
    BY <1>1, <1>4 DEF SteeringInv, ScreenInv
  <2>2. canSwitch' = (canSwitch \/ Away(x))
    BY DEF Poll
  <2>3. Away(x)' = Away(x) /\ AtEdge(x)' = AtEdge(x)
    BY <1>1 DEF Away, AtEdge
  <2>4. NoBounce'
    BY <1>1, <1>4, <2>2, <2>3 DEF SteeringInv, NoBounce
  <2>5. QED BY <1>2, <2>1, <2>4 DEF SteeringInv
<1>5. QED BY <1>3, <1>4 DEF Poll

LEMMA HandleRelInv == ASSUME SteeringInv, NEW d \in Deltas, HandleRel(d) PROVE SteeringInv'
<1> DEFINE to == Within(remoteX + d, 0, remoteW)
<1>1. to \in Int /\ remoteX' = to /\ UNCHANGED <<screens, event, held, win>>
  BY DEF SteeringInv, ScreenInv, HandleRel, Within, Most, Least, Deltas
<1>2. CASE Return /\ Recenter /\ Leave
  BY <1>1, <1>2, ReturnInv
<1>3. CASE still' = FALSE /\ UNCHANGED <<active, grace, canSwitch, x, carried>>
  <2>1. ScreenInv'
    BY <1>1, <1>3 DEF SteeringInv, ScreenInv, screens
  <2>2. ~active /\ ~grace
    BY DEF HandleRel, Forwarding
  <2>3. CarriedInv' /\ EventInv' /\ KeysFollow' /\ NoBounce'
    BY <1>1, <1>3 DEF SteeringInv, CarriedInv, EventInv, KeysFollow, NoBounce, event
  <2>4. QED BY <2>1, <2>3 DEF SteeringInv
<1>4. QED BY <1>2, <1>3 DEF HandleRel

\* A step that leaves the screens, the gates and the cursor alone.
LEMMA GatesKept ==
  ASSUME SteeringInv, UNCHANGED <<screens, active, canSwitch, canReturn, remoteX, x, still>>
  PROVE  ScreenInv' /\ NoBounce'
<1>1. UNCHANGED <<edge, width, remoteW>>
  BY DEF screens
<1>2. ScreenInv'
  BY <1>1 DEF SteeringInv, ScreenInv
<1>3. NoBounce'
  BY <1>1 DEF SteeringInv, NoBounce, AcceptsActivation, ReturnMargin, RemoteEntryInset,
     Away, AtEdge
<1>4. QED BY <1>2, <1>3

\* The monitor reads an event.
LEMMA ReadKeyInv ==
  ASSUME SteeringInv, NEW k \in Keys, NEW v \in 0..2, ReadKey(k, v)
  PROVE  SteeringInv'
<1>1. UNCHANGED <<screens, active, canSwitch, canReturn, remoteX, grace, x, still, win, carried>>
  BY DEF ReadKey, gates
<1>2. /\ stage = "idle" /\ stage' = "active" /\ code' = k /\ value' = v
      /\ IF v = 0 THEN held' = held \ {k} ELSE k \in held' /\ held \subseteq held'
  BY DEF ReadKey
<1>3. CarriedInv' /\ EventInv' /\ KeysFollow'
  BY <1>1, <1>2 DEF SteeringInv, CarriedInv, EventInv, KeysFollow
<1>4. QED BY <1>1, <1>3, GatesKept DEF SteeringInv

\* An event goes one test further, or is dropped because the cursor is here or
\* its switch is too young: then its key was carried over, if it is down at all.
LEMMA TestedInv ==
  ASSUME SteeringInv, UNCHANGED <<screens, gates, x, still, held, win, carried>>,
         \/ (active \/ grace) /\ Done
         \/ stage # "idle" /\ stage' # "idle" /\ UNCHANGED <<code, value>>
  PROVE  SteeringInv'
<1>1. UNCHANGED <<active, canSwitch, canReturn, remoteX, grace>>
  BY DEF gates
<1>2. CarriedInv' /\ EventInv' /\ KeysFollow'
  BY <1>1 DEF SteeringInv, CarriedInv, EventInv, KeysFollow, Done
<1>3. QED BY <1>1, <1>2, GatesKept DEF SteeringInv

LEMMA HandleKeyInv == ASSUME SteeringInv, HandleKey PROVE SteeringInv'
<1>1. CASE SetActive /\ Done
  BY <1>1, SetActiveInv DEF HandleKey
<1>2. CASE /\ IF active THEN Done ELSE stage' = "send" /\ UNCHANGED <<code, value>>
           /\ UNCHANGED <<gates, x, still, carried>>
  BY <1>2, TestedInv DEF HandleKey
<1>3. QED BY <1>1, <1>2 DEF HandleKey

\* A key that is sent is one the user touches, and a press that is sent after
\* the cursor came back counts as carried.
LEMMA SendKeyInv == ASSUME SteeringInv, SendKey PROVE SteeringInv'
<1>1. UNCHANGED <<screens, active, canSwitch, canReturn, remoteX, grace, x, still, held>>
  BY DEF SendKey, gates
<1>2. stage = "send" /\ stage' = "idle" /\ value' = 0
  BY DEF SendKey, Done
<1>3. CASE value = 0
  <2>1. win' = win \ {code} /\ carried' = carried \ {code}
    BY <1>3 DEF SendKey, Sent
  <2>2. QED BY <1>1, <1>2, <1>3, <2>1, GatesKept
            DEF SteeringInv, CarriedInv, EventInv, KeysFollow
<1>4. CASE value # 0
  <2>1. /\ win' = win \cup {code} /\ code \in held
        /\ carried' = IF Forwarding THEN carried \ {code} ELSE carried \cup {code}
    BY <1>2, <1>4 DEF SendKey, Sent, SteeringInv, EventInv
  <2>2. CarriedInv'
    BY <1>1, <2>1 DEF SteeringInv, CarriedInv, Forwarding
  <2>3. EventInv' /\ KeysFollow'
    BY <1>1, <1>2, <1>4, <2>1 DEF SteeringInv, EventInv, KeysFollow
  <2>4. QED BY <1>1, <2>2, <2>3, GatesKept DEF SteeringInv
<1>5. QED BY <1>3, <1>4

LEMMA SteeringNext == SteeringInv /\ [Next]_vars => SteeringInv'
<1> SUFFICES ASSUME SteeringInv, [Next]_vars PROVE SteeringInv'
  OBVIOUS
<1>1. CASE Poll
  BY <1>1, PollInv
<1>2. CASE HandleAbs \/ MachineSwitched \/ Reclaim
  BY <1>2, SetActiveInv DEF HandleAbs, MachineSwitched, Reclaim
<1>3. CASE GraceEnds
  <2>1. UNCHANGED <<screens, active, canSwitch, canReturn, remoteX, x, still,
                    stage, code, value, held, win, carried>>
        /\ grace' = FALSE
    BY <1>3 DEF GraceEnds, keyVars, event
  <2>2. CarriedInv' /\ EventInv' /\ KeysFollow'
    BY <2>1 DEF SteeringInv, CarriedInv, EventInv, KeysFollow
  <2>3. QED BY <2>1, <2>2, GatesKept DEF SteeringInv
<1>4. ASSUME NEW d \in Deltas, HandleRel(d) PROVE SteeringInv'
  BY <1>4, HandleRelInv
<1>5. ASSUME NEW d \in Deltas, MoveLocal(d) PROVE SteeringInv'
  <2>1. /\ active /\ active' = active /\ still' = FALSE
        /\ UNCHANGED <<edge, width, remoteW, remoteX, grace,
                       stage, code, value, held, win, carried>>
    BY <1>5 DEF MoveLocal, screens, gates, keyVars, event
  <2>2. x' \in Int
    BY <1>5 DEF MoveLocal, Within, Most, Least, Deltas, SteeringInv, ScreenInv
  <2>3. QED BY <2>1, <2>2 DEF SteeringInv, ScreenInv, CarriedInv, EventInv, KeysFollow, NoBounce
<1>6. CASE \/ \E k \in Keys, v \in 0..2 : ReadKey(k, v)
           \/ TestActive \/ TestGrace \/ HandleKey \/ SendKey
  <2>1. CASE TestActive \/ TestGrace
    BY <2>1, TestedInv DEF TestActive, TestGrace
  <2>2. QED BY <1>6, <2>1, ReadKeyInv, HandleKeyInv, SendKeyInv
<1>7. CASE UNCHANGED vars
  <2>1. UNCHANGED <<screens, active, canSwitch, canReturn, remoteX, grace, x, still,
                    stage, code, value, held, win, carried>>
    BY <1>7 DEF vars, gates, keyVars, event
  <2>2. CarriedInv' /\ EventInv' /\ KeysFollow'
    BY <2>1 DEF SteeringInv, CarriedInv, EventInv, KeysFollow
  <2>3. QED BY <2>1, <2>2, GatesKept DEF SteeringInv
<1>8. QED BY <1>1, <1>2, <1>3, <1>4, <1>5, <1>6, <1>7 DEF Next

-----------------------------------------------------------------------------
\* On every pair of widths, and whatever the margins, the cursor stays on the
\* side it has just changed to (pollCursorEdge, handleRel, SetActive and
\* AcceptsActivation) until the user moves it.
THEOREM SwitchesStay == Spec => []NoBounce
<1>1. SteeringInv => NoBounce
  BY DEF SteeringInv
<1>2. QED BY <1>1, SteeringInit, SteeringNext, PTL DEF Spec

\* handleKey forwards a release for every press it has forwarded, unless the
\* cursor has come back in between, or before the press was sent.
THEOREM KeysForwarded == Spec => []KeysFollow
<1>1. SteeringInv => KeysFollow
  BY DEF SteeringInv
<1>2. QED BY <1>1, SteeringInit, SteeringNext, PTL DEF Spec
=============================================================================
