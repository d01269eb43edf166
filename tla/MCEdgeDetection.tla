---------------------------- MODULE MCEdgeDetection ----------------------------
EXTENDS EdgeDetectionProperties, TLC

(* A Gaussian kernel of 3 by 3, in sixteenths of its sum. *)
MCWeights == <<1, 2, 1, 2, 4, 2, 1, 2, 1>>
MCBlurSums == <<1, 2, 4>>
MCGradients == <<<<1, 8>>, <<2, -16>>, <<-4, 32>>>>

(* Magnitudes below, between and above the thresholds, and above a byte;   *)
(* directions that differ and directions that do not.                      *)
Inside4(f) == [p \in Grid |-> IF p \in Inner THEN f[p] ELSE 0]
MCImages ==
  {[magnitude |-> Inside4(m), direction |-> Inside4(d)] :
     m \in [Inner -> {10, 50, 90, 300}],
     d \in {[p \in Inner |-> 0], [p \in Inner |-> p[1] + 2 * p[2] - 4]}}
===============================================================================
