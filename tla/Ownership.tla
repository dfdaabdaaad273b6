----------------------------- MODULE Ownership -----------------------------
(***************************************************************************)
(* What mwb promises about the cursor, with no goroutine, lock or ioctl in *)
(* sight.  One machine owns the cursor at a time (active: this one).  Each *)
(* change of owner opens a period of settling, the only time at which the  *)
(* set of suppressed local devices may grow or be handed back, and it      *)
(* closes only when a machine that owns its cursor suppresses nothing.     *)
(* The cursor leaves only after it has been seen away from the shared edge *)
(* since it arrived (armed).                                               *)
(***************************************************************************)

CONSTANT Devices

VARIABLES active,    \* this machine owns the cursor
          armed,     \* the cursor was seen away from the edge since it arrived
          grabbed,   \* the local devices withheld from the local desktop
          settling   \* a change of owner is still being carried out

ovars == <<active, armed, grabbed, settling>>

OInit == /\ active = TRUE
         /\ armed = TRUE
         /\ grabbed = {}
         /\ settling = FALSE

\* The cursor crosses the shared edge to the other machine.
Leave == /\ active
         /\ armed
         /\ active' = FALSE
         /\ settling' = TRUE
         /\ UNCHANGED <<armed, grabbed>>

\* The cursor comes back, at the remote edge, by packet or by hotkey.
Arrive == /\ ~active
          /\ active' = TRUE
          /\ armed' = FALSE
          /\ settling' = TRUE
          /\ UNCHANGED grabbed

\* The local cursor is seen away from the edge.
Rearm == /\ active
         /\ armed' = TRUE
         /\ UNCHANGED <<active, grabbed, settling>>

\* A request for the owner that is already in place is carried out again.
Repeat == /\ settling' = TRUE
          /\ UNCHANGED <<active, armed, grabbed>>

\* One device is withheld, or handed back.
Adjust == /\ settling
          /\ \E d \in Devices : grabbed' \in {grabbed \cup {d}, grabbed \ {d}}
          /\ UNCHANGED <<active, armed, settling>>

\* Descriptors close (unplugging, shutdown): the kernel drops their grabs.
Vanish == /\ grabbed' \in SUBSET grabbed
          /\ UNCHANGED <<active, armed, settling>>

\* The hand-over is complete.
Settle == /\ settling
          /\ active => grabbed = {}
          /\ settling' = FALSE
          /\ UNCHANGED <<active, armed, grabbed>>

ONext == Leave \/ Arrive \/ Rearm \/ Repeat \/ Adjust \/ Vanish \/ Settle

OSpec == OInit /\ [][ONext]_ovars

(***************************************************************************)
(* A machine that owns its cursor, with no hand-over in progress, has all  *)
(* of its own keyboards and pointers.                                      *)
(***************************************************************************)
OwnerHasInput == active /\ ~settling => grabbed = {}
=============================================================================
