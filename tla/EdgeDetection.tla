----------------------------- MODULE EdgeDetection -----------------------------
(***************************************************************************)
(* cannyEdgeDetection(): the loops of the four phases one after the other, *)
(* by a team of threads.  Between the gradients' sums and the image of     *)
(* gradients is the arithmetic of the pixels, which is left open.          *)
(***************************************************************************)
EXTENDS EdgeConvolution, EdgeTracking

vars == <<loopVars, convolutionVars, trackingVars>>

Stages == {"kernel", "blur", "sobel", "gradients", "link", "done"}

ConvolutionPhase ==
  /\ \/ \E t \in Team : ConvolutionStep(t)
     \/ EndConvolutionLoop
  /\ UNCHANGED trackingVars

SuppressionPhase == Suppress /\ UNCHANGED convolutionVars

LinkingPhase ==
  /\ \/ \E t \in Team : TrackingStep(t)
     \/ EndLinking
  /\ UNCHANGED convolutionVars

(* The filter has returned. *)
Returned == stage = "done" /\ UNCHANGED vars

Init == LoopInit("kernel") /\ ConvolutionInit /\ TrackingInit

Next == ConvolutionPhase \/ SuppressionPhase \/ LinkingPhase \/ Returned

Spec == Init /\ [][Next]_vars

(* As long as a thread of the team can go on, one does. *)
Fairness == WF_vars(Next)

FairSpec == Spec /\ Fairness
===============================================================================
