---------------------------- MODULE EdgeConvolution ----------------------------
(***************************************************************************)
(* The loops of applyGaussianBlur() and sobelOperator() that add up.       *)
(*                                                                         *)
(* The kernel's sum kaccum is a plain variable all threads add to.  Each   *)
(* pixel is summed up in a loop of its own, whose reduction adds the sum   *)
(* to a variable outside; but that variable (blur_accum, or gx and gy) is  *)
(* shared by the threads of the outer loop, who read it for their pixel    *)
(* and set it back to 0.  One reduction excludes the others, not that.     *)
(*                                                                         *)
(* What a cell or a pixel adds is data, given by constants.  Blurred       *)
(* pixels stay in the units of the kernel before its division by kaccum.   *)
(***************************************************************************)
EXTENDS ParallelLoop, Sequences

CONSTANTS
  Weights,    (* exp() of each cell of the Gaussian kernel, positive       *)
  BlurSums,   (* what each pixel of the blurred image adds up to           *)
  Gradients   (* and each inner pixel of gx and gy                         *)

ASSUME ConvolutionAssumption ==
  /\ Weights \in Seq(Nat \ {0}) /\ Weights # <<>>
  /\ BlurSums \in Seq(Nat)
  /\ Gradients \in Seq(Int \X Int)

VARIABLES
  kaccum,   (* the sum of the kernel                                       *)
  accum,    (* blur_accum, gx and gy                                       *)
  at,       (* where in its iteration each thread is                       *)
  left,     (* the shared variables it has yet to add to, read or reset    *)
  held,     (* what it has read of them                                    *)
  inexact,  (* pixels stored that are not what their own loop has summed up *)
  alone     (* history: no other thread was in its iteration meanwhile     *)

convolutionVars == <<kaccum, accum, at, left, held, inexact, alone>>

Accumulators == {"blur_accum", "gx", "gy"}
PixelLoops == {"blur", "sobel"}
Pixels(s) == IF s = "blur" THEN Len(BlurSums) ELSE Len(Gradients)

(* What the loop over the neighbours of pixel p adds up to. *)
Sum(s, p, a) ==
  CASE s = "blur"  /\ a = "blur_accum" -> BlurSums[p]
    [] s = "sobel" /\ a = "gx" -> Gradients[p][1]
    [] s = "sobel" /\ a = "gy" -> Gradients[p][2]
    [] OTHER -> 0

(* The reads that make the pixel: sqrt(gx * gx + gy * gy) and atan2(gy, gx). *)
Reads == [blur |-> <<"blur_accum">>, sobel |-> <<"gx", "gx", "gy", "gy", "gx", "gy">>]

ResetsMutant == [blur |-> <<"blur_accum">>, sobel |-> <<"gx">>]   \* gy forgotten
Resets == [blur |-> <<"blur_accum">>, sobel |-> <<"gx", "gy">>]

Pixel(t) == Iteration(t, Pixels(stage))
Exact(s, p) == [i \in DOMAIN Reads[s] |-> Sum(s, p, Reads[s][i])]

(* Threads between the reduction of a pixel's sum and their last reset. *)
Inside == {t \in Team : at[t] \in {"reduce", "read", "reset"}}

Enters(t) ==
  alone' = [u \in Threads |-> IF u = t THEN Inside = {} ELSE alone[u] /\ u \notin Inside]

-------------------------------------------------------------------------------
(* kaccum += kernel.at(x, y): read, add, write. *)
ReadKernelSum(t) ==
  /\ InLoop(t, "kernel", Len(Weights)) /\ at[t] = "next"
  /\ held' = [held EXCEPT ![t] = <<kaccum>>]
  /\ at' = [at EXCEPT ![t] = "add"]
  /\ UNCHANGED <<loopVars, kaccum, accum, left, inexact, alone>>

AddCellTwiceMutant(t) ==   \* what the thread has read is added again
  /\ InLoop(t, "kernel", Len(Weights)) /\ at[t] = "add"
  /\ kaccum' = kaccum + held[t][1] + Weights[Iteration(t, Len(Weights))]
  /\ held' = [held EXCEPT ![t] = <<>>]
  /\ at' = [at EXCEPT ![t] = "next"]
  /\ EndIteration(t)
  /\ UNCHANGED <<team, stage, accum, left, inexact, alone>>

AddCell(t) ==
  /\ InLoop(t, "kernel", Len(Weights)) /\ at[t] = "add"
  /\ kaccum' = held[t][1] + Weights[Iteration(t, Len(Weights))]
  /\ held' = [held EXCEPT ![t] = <<>>]
  /\ at' = [at EXCEPT ![t] = "next"]
  /\ EndIteration(t)
  /\ UNCHANGED <<team, stage, accum, left, inexact, alone>>

(* The end of a pixel's own loop.  The reduction of a single variable is an *)
(* atomic addition, a compare-and-swap that also sees a reset.              *)
Reduce(t) ==
  /\ InLoop(t, "blur", Len(BlurSums)) /\ at[t] = "next"
  /\ accum' = [accum EXCEPT !["blur_accum"] = @ + Sum("blur", Pixel(t), "blur_accum")]
  /\ at' = [at EXCEPT ![t] = "read"]
  /\ left' = [left EXCEPT ![t] = Reads["blur"]]
  /\ Enters(t)
  /\ UNCHANGED <<loopVars, kaccum, held, inexact>>

(* That of two is a lock, under which each is loaded, added to and stored:  *)
(* another thread's reset in between is lost.                               *)
Lock(t) ==
  /\ InLoop(t, "sobel", Len(Gradients)) /\ at[t] = "next"
  /\ \A u \in Team : at[u] # "reduce"
  /\ at' = [at EXCEPT ![t] = "reduce"]
  /\ left' = [left EXCEPT ![t] = <<"gx", "gy">>]
  /\ Enters(t)
  /\ UNCHANGED <<loopVars, kaccum, accum, held, inexact>>

LoadSum(t) ==
  /\ at[t] = "reduce" /\ held[t] = <<>>
  /\ held' = [held EXCEPT ![t] = <<accum[Head(left[t])]>>]
  /\ UNCHANGED <<loopVars, kaccum, accum, at, left, inexact, alone>>

AddSum(t) ==
  /\ at[t] = "reduce" /\ held[t] # <<>>
  /\ accum' = [accum EXCEPT ![Head(left[t])] =
                               held[t][1] + Sum("sobel", Pixel(t), Head(left[t]))]
  /\ held' = [held EXCEPT ![t] = <<>>]
  /\ IF Len(left[t]) > 1
     THEN left' = [left EXCEPT ![t] = Tail(@)] /\ UNCHANGED at
     ELSE /\ left' = [left EXCEPT ![t] = Reads["sobel"]]
          /\ at' = [at EXCEPT ![t] = "read"]
  /\ UNCHANGED <<loopVars, kaccum, inexact, alone>>

(* The shared variables are read one after the other. *)
ReadSum(t) ==
  /\ at[t] = "read" /\ left[t] # <<>>
  /\ held' = [held EXCEPT ![t] = Append(@, accum[Head(left[t])])]
  /\ left' = [left EXCEPT ![t] = Tail(@)]
  /\ UNCHANGED <<loopVars, kaccum, accum, at, inexact, alone>>

StorePixel(t) ==
  /\ at[t] = "read" /\ left[t] = <<>>
  /\ inexact' = IF held[t] = Exact(stage, Pixel(t)) THEN inexact
                ELSE inexact \union {<<stage, Pixel(t)>>}
  /\ held' = [held EXCEPT ![t] = <<>>]
  /\ left' = [left EXCEPT ![t] = Resets[stage]]
  /\ at' = [at EXCEPT ![t] = "reset"]
  /\ UNCHANGED <<loopVars, kaccum, accum, alone>>

(* And set back to 0 one after the other. *)
Reset(t) ==
  /\ at[t] = "reset"
  /\ accum' = [accum EXCEPT ![Head(left[t])] = 0]
  /\ left' = [left EXCEPT ![t] = Tail(@)]
  /\ IF Len(left[t]) > 1
     THEN UNCHANGED <<at, done>>
     ELSE at' = [at EXCEPT ![t] = "next"] /\ EndIteration(t)
  /\ UNCHANGED <<team, stage, kaccum, held, inexact, alone>>

(* The kernel is divided by its sum and the blurred image saved; with the   *)
(* return of each function its sums are gone.                               *)
EndConvolutionLoop ==
  /\ \/ /\ EndLoop("kernel", Len(Weights), "blur")
        /\ UNCHANGED <<kaccum, inexact>>
     \/ /\ EndLoop("blur", Len(BlurSums), "sobel")
        /\ kaccum' = 0
        /\ UNCHANGED inexact
     \/ /\ EndLoop("sobel", Len(Gradients), "gradients")
        /\ inexact' = {}
        /\ UNCHANGED kaccum
  /\ alone' = [t \in Threads |-> TRUE]
  /\ UNCHANGED <<team, accum, at, left, held>>

ConvolutionInit ==
  /\ kaccum = 0
  /\ accum = [a \in Accumulators |-> 0]
  /\ at = [t \in Threads |-> "next"]
  /\ left = [t \in Threads |-> <<>>]
  /\ held = [t \in Threads |-> <<>>]
  /\ inexact = {}
  /\ alone = [t \in Threads |-> TRUE]

ConvolutionStep(t) == \/ ReadKernelSum(t) \/ AddCell(t)
                      \/ Reduce(t) \/ Lock(t) \/ LoadSum(t) \/ AddSum(t)
                      \/ ReadSum(t) \/ StorePixel(t) \/ Reset(t)
===============================================================================
