---------------------------- MODULE FrameMailbox ----------------------------
(***************************************************************************)
(* What an infrared receiver promises its sketch, without saying how: one  *)
(* slot, which a frame fills only when it is empty, and which keeps that   *)
(* frame unchanged until the sketch that took it gives the slot back.      *)
(***************************************************************************)
CONSTANTS Frames,   \* the frames that can be delivered
          NoFrame   \* the slot is empty (not a member of Frames)

VARIABLES slot,     \* the frame in the mailbox, or NoFrame
          reading   \* the sketch has taken the frame and not released it

vars == <<slot, reading>>

Init == slot = NoFrame /\ reading = FALSE

Deliver ==
    /\ slot = NoFrame /\ slot' \in Frames
    /\ UNCHANGED reading

Take ==
    /\ slot # NoFrame /\ ~reading
    /\ reading' = TRUE
    /\ UNCHANGED slot

Release ==
    /\ reading
    /\ slot' = NoFrame /\ reading' = FALSE

Next == Deliver \/ Take \/ Release

SafeSpec == Init /\ [][Next]_vars
Spec == SafeSpec /\ WF_vars(Take) /\ WF_vars(Release)
=============================================================================
