---------------------------- MODULE AtomicUpdate ----------------------------
(***************************************************************************)
(* What the device promises about the firmware it runs, with no slots, no  *)
(* flash and no sessions: the image that runs changes only at a reset, and *)
(* then it becomes an intact image chosen before the reset; an image on    *)
(* trial is confirmed or gone after one reset, and nothing is staged while *)
(* a trial lasts.  A rollback starts the one image that was there to go    *)
(* back to, and a rejected image is never the one to go back to.           *)
(***************************************************************************)
CONSTANTS
    Images,          \* the intact images
    First            \* the image the device is delivered with

VARIABLES
    current,         \* the image that runs
    next,            \* the image that a reset would start
    back,            \* the images to go back to: none, or the one a rollback starts
    trial            \* whether the image that runs is still unconfirmed

vars == <<current, next, back, trial>>

Init == current = First /\ next = First /\ back = {} /\ trial = FALSE

\* An update is begun, finished, replaced, or dropped again.
Stage ==
    /\ ~trial
    /\ UNCHANGED <<current, trial>>
    /\ next' \in Images
    /\ back' \subseteq Images

\* A reset of any cause.  An image that starts on trial has an intact image to
\* fall back to, the one of a rollback if there is one; an image that does not
\* start on trial is there to stay.  An image whose trial the reset ends is not
\* one to go back to.
Reset ==
    /\ current' = next
    /\ trial' \in BOOLEAN
    /\ trial => ~trial'
    /\ IF trial' THEN next' \in Images /\ back' = back /\ back \subseteq {next'}
                 ELSE next' = current' /\ back' \in {back, {}}
    /\ trial => back' = {}

Confirm ==
    /\ trial
    /\ trial' = FALSE
    /\ next' = current
    /\ UNCHANGED <<current, back>>

\* The selected image is rejected and the device restarts with the other.
Reject ==
    /\ back = {current'}
    /\ next' = current'
    /\ back' = {}
    /\ trial' = FALSE

Next == Stage \/ Reset \/ Confirm \/ Reject

Spec == Init /\ [][Next]_vars
=============================================================================
