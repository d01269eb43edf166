----------------------------- MODULE EdgeTracking -----------------------------
(***************************************************************************)
(* nonMaximumSuppression(), applyLinkingAndHysteresis() and the walk of    *)
(* checkContours(), on the gradients that sobelOperator() leaves.          *)
(*                                                                         *)
(* An image is the magnitude and the direction of each pixel's gradient,   *)
(* the direction in eighths of a turn, 0 on the border.  The loops of the  *)
(* suppression and of the thresholds write only the pixel they are at, so  *)
(* that each is one step; the loop of the linking writes where its walks   *)
(* lead.                                                                   *)
(***************************************************************************)
EXTENDS ParallelLoop, Sequences, FiniteSets

CONSTANTS
  Rows, Cols,
  LowThreshold, HighThreshold,
  Images   (* what the gradients may be *)

Grid == (0 .. Rows - 1) \X (0 .. Cols - 1)
Inner == (1 .. Rows - 2) \X (1 .. Cols - 2)
Border == Grid \ Inner
Shift(p, r, c) == <<p[1] + r, p[2] + c>>

ASSUME TrackingAssumption ==
  /\ Rows \in Nat \ {0, 1} /\ Cols \in Nat \ {0, 1}
  /\ LowThreshold \in Nat \ {0} /\ HighThreshold \in Nat
  /\ LowThreshold <= HighThreshold
  /\ \A i \in Images : /\ i.magnitude \in [Grid -> Nat]
                       /\ i.direction \in [Grid -> -3 .. 4]
                       /\ \A p \in Border : i.magnitude[p] = 0 /\ i.direction[p] = 0

VARIABLES
  image,        (* m_magnitude and m_direction                              *)
  edges,        (* m_cannyEdges                                             *)
  suppressed,   (* what the suppression made of it: maxsupress.png          *)
  strong,       (* strongEdges                                              *)
  calls         (* the calls of checkContours() each thread is in           *)

trackingVars == <<image, edges, suppressed, strong, calls>>

-------------------------------------------------------------------------------
(***************************************************************************)
(* The suppression.                                                        *)
(***************************************************************************)
Least(d) == CHOOSE k \in {d[p] : p \in Grid} : \A p \in Grid : k <= d[p]
Most(d) == CHOOSE k \in {d[p] : p \in Grid} : \A p \in Grid : k >= d[p]

(* normalize(): 0 to 255, or all 0 when the image has one direction only.   *)
(* Everything is multiplied by the span.                                    *)
Span(d) == IF Most(d) = Least(d) THEN 1 ELSE Most(d) - Least(d)
Normalized(d, p) == (d[p] - Least(d)) * 255

(* What the suppression takes for the angle, in 128ths of half a turn. *)
Angle(d, p) == LET x == Normalized(d, p) - 128 * Span(d)
               IN IF x < 0 THEN x + 128 * Span(d) ELSE x

InSector(d, p, from, to) == from * Span(d) <= Angle(d, p) /\ Angle(d, p) < to * Span(d)

(* The two neighbours a pixel is compared with; none of 22.5 degrees. *)
Neighbors(d, p) ==
  CASE InSector(d, p, 0, 16) \/ InSector(d, p, 112, 129) -> {Shift(p, 0, 1), Shift(p, 0, -1)}
    [] InSector(d, p, 16, 48) -> {Shift(p, 1, -1), Shift(p, -1, 1)}
    [] InSector(d, p, 48, 80) -> {Shift(p, 1, 0), Shift(p, -1, 0)}
    [] InSector(d, p, 80, 112) -> {Shift(p, -1, -1), Shift(p, 1, 1)}

LocalMaximumMutant(i, p) ==   \* > for >=
  \A q \in Neighbors(i.direction, p) : i.magnitude[p] > i.magnitude[q]

LocalMaximum(i, p) ==
  \A q \in Neighbors(i.direction, p) : i.magnitude[p] >= i.magnitude[q]

(* The conversion to uint8_t, as the build does it. *)
Byte(m) == m % 256

SuppressionMutant(i) ==   \* without the borders
  [p \in Grid |-> IF p \in Border THEN LowThreshold
                   ELSE IF LocalMaximum(i, p) THEN Byte(i.magnitude[p]) ELSE 0]

Suppression(i) ==
  [p \in Grid |-> IF p \in Inner /\ LocalMaximum(i, p) THEN Byte(i.magnitude[p]) ELSE 0]

(* And the thresholds, of the same pixels. *)
Weak == {p \in Grid : suppressed[p] >= LowThreshold}

Suppress ==
  /\ stage = "gradients"
  /\ image' \in Images
  /\ suppressed' = Suppression(image')
  /\ edges' = suppressed'
  /\ strong' = {p \in Grid : suppressed'[p] >= HighThreshold}
  /\ NextLoop("link")
  /\ UNCHANGED <<team, calls>>

-------------------------------------------------------------------------------
(***************************************************************************)
(* The linking.                                                            *)
(***************************************************************************)
PixelAt(k) == <<(k - 1) \div Cols, (k - 1) % Cols>>
PixelOf(t) == PixelAt(Iteration(t, Rows * Cols))

Linking(t) == InLoop(t, "link", Rows * Cols)
Top(t) == calls[t][Len(calls[t])]

Call(p, prev) == [pc |-> "look", pixel |-> p, prev |-> prev, sides |-> {}]
Update(t, call) == calls' = [calls EXCEPT ![t][Len(calls[t])] = call]

(* The pixels a call goes on to: side_row from row - 1 to below row + 1. *)
Sides(p, prev) ==
  {s \in {p[1] - 1, p[1]} \X {p[2] - 1, p[2]} :
     s[1] # prev[1] /\ s[2] # prev[2] /\ s[1] # p[1] /\ s[2] # p[2]}

(* The end of a call, and of the iteration with the outermost one. *)
ReturnMutant(t) ==   \* only the call
  /\ calls' = [calls EXCEPT ![t] = SubSeq(@, 1, Len(@) - 1)]
  /\ UNCHANGED done

Return(t) ==
  /\ calls' = [calls EXCEPT ![t] = SubSeq(@, 1, Len(@) - 1)]
  /\ IF Len(calls[t]) = 1 THEN EndIteration(t) ELSE UNCHANGED done

SkipStrong(t) ==
  /\ Linking(t) /\ calls[t] = <<>>
  /\ PixelOf(t) \in strong
  /\ EndIteration(t)
  /\ UNCHANGED <<team, stage, trackingVars>>

CheckPixel(t) ==
  /\ Linking(t) /\ calls[t] = <<>>
  /\ PixelOf(t) \notin strong
  /\ calls' = [calls EXCEPT ![t] = <<Call(PixelOf(t), PixelOf(t))>>]
  /\ UNCHANGED <<loopVars, image, edges, suppressed, strong>>

InCall(t, pc) == Linking(t) /\ calls[t] # <<>> /\ Top(t).pc = pc

(* The bridge is completed, or not. *)
Look(t) ==
  /\ InCall(t, "look")
  /\ IF Top(t).pixel \in strong
     THEN Return(t)
     ELSE Update(t, [Top(t) EXCEPT !.pc = "mark"]) /\ UNCHANGED done
  /\ UNCHANGED <<team, stage, image, edges, suppressed, strong>>

MarkWeakMutant(t) ==   \* cleared as well
  /\ InCall(t, "mark")
  /\ Top(t).pixel \in Weak
  /\ strong' = strong \union {Top(t).pixel}
  /\ edges' = [edges EXCEPT ![Top(t).pixel] = 0]
  /\ Update(t, [Top(t) EXCEPT !.pc = "sides", !.sides = Sides(Top(t).pixel, Top(t).prev)])
  /\ UNCHANGED <<loopVars, image, suppressed>>

MarkWeak(t) ==
  /\ InCall(t, "mark")
  /\ Top(t).pixel \in Weak
  /\ strong' = strong \union {Top(t).pixel}
  /\ Update(t, [Top(t) EXCEPT !.pc = "sides", !.sides = Sides(Top(t).pixel, Top(t).prev)])
  /\ UNCHANGED <<loopVars, image, edges, suppressed>>

(* No weak contour: the pixel is cleared. *)
Clear(t) ==
  /\ InCall(t, "mark")
  /\ Top(t).pixel \notin Weak
  /\ strong' = strong \ {Top(t).pixel}
  /\ edges' = [edges EXCEPT ![Top(t).pixel] = 0]
  /\ Return(t)
  /\ UNCHANGED <<team, stage, image, suppressed>>

GoOn(t) ==
  /\ InCall(t, "sides")
  /\ \/ \E s \in Top(t).sides :
          /\ calls' = [calls EXCEPT ![t] =
               Append([calls[t] EXCEPT ![Len(calls[t])].sides = @ \ {s}], Call(s, Top(t).pixel))]
          /\ UNCHANGED done
     \/ Top(t).sides = {} /\ Return(t)
  /\ UNCHANGED <<team, stage, image, edges, suppressed, strong>>

EndLinking ==
  /\ EndLoop("link", Rows * Cols, "done")
  /\ UNCHANGED <<team, trackingVars>>

Blank == [p \in Grid |-> 0]

TrackingInit ==
  /\ image = [magnitude |-> Blank, direction |-> Blank]
  /\ edges = Blank /\ suppressed = Blank
  /\ strong = {}
  /\ calls = [t \in Threads |-> <<>>]

TrackingStep(t) == SkipStrong(t) \/ CheckPixel(t) \/ Look(t) \/ MarkWeak(t) \/ Clear(t) \/ GoOn(t)
===============================================================================
