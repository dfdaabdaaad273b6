-------------------------------- MODULE Pipe --------------------------------
(***************************************************************************)
(* What one direction of an encrypted connection promises its reader: the *)
(* packets arrive in the order they were written, and once a write has     *)
(* been cut short nothing that follows the hole is ever taken for a        *)
(* packet: the reader closes instead.                                      *)
(***************************************************************************)
EXTENDS Sequences

VARIABLES flow,    \* packets in flight: TRUE for one that can be read
          hole,    \* a write was cut short
          shut     \* the reader has closed, or was told to

pipe == <<flow, hole, shut>>

PInit == flow = <<>> /\ hole = FALSE /\ shut = FALSE

Put  == flow' = Append(flow, ~hole) /\ UNCHANGED <<hole, shut>>
Cut  == hole' = TRUE /\ UNCHANGED <<flow, shut>>
Take == /\ ~shut
        /\ flow # <<>>
        /\ flow' = Tail(flow)
        /\ shut' \in {~Head(flow), TRUE}
        /\ UNCHANGED hole
Shut == shut' = TRUE /\ UNCHANGED <<flow, hole>>

PSpec == PInit /\ [][Put \/ Cut \/ Take \/ Shut]_pipe
=============================================================================
