----------------------------- MODULE MCMoveRTP -----------------------------
(* MoveRTP for TLC: two moves of a few inches, one along and one across.      *)
EXTENDS MoveRTP

\* A move of 4 may exceed its maxSpeed of 2 by a sample, is brought back to it
\* and is braked by the deceleration ramp; the strafe of 5 ends 2 inches past
\* its commanded distance, where the ramp alone would be above a minSpeed of 1.
MCCommands == { [dir |-> "forward", dist |-> 4, max |-> 2],
                [dir |-> "left",    dist |-> 5, max |-> 3] }

\* Shorter moves for the runs with more behaviours to tell apart.
MCShortCommands == { [dir |-> "forward", dist |-> 3, max |-> 2],
                     [dir |-> "left",    dist |-> 2, max |-> 3] }

\* sideBias is the square root of 2; 7/5 is within half an inch of it here.
MCSideBias(d) == (7 * d + 2) \div 5
=============================================================================
