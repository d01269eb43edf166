------------------------ MODULE EdgeDetectionProperties ------------------------
(***************************************************************************)
(* What holds of the edge filter however its threads interleave, and what  *)
(* its documentation promises and the threads or the walk do not keep.     *)
(***************************************************************************)
EXTENDS EdgeDetection, Functions

Iterations(s) ==
  CASE s = "kernel" -> Len(Weights)
    [] s \in PixelLoops -> Pixels(s)
    [] s = "link" -> Rows * Cols
    [] OTHER -> 0

Calls == [pc : {"look", "mark", "sides"}, pixel : Grid, prev : Grid, sides : SUBSET Grid]

(* Every variable has its type, and no thread is past its block.            *)
TypeOK ==
  /\ team \in 1 .. MaxTeam
  /\ stage \in Stages
  /\ \A t \in Threads : done[t] \in 0 .. Block(t, Iterations(stage))
  /\ kaccum \in Nat
  /\ accum \in [Accumulators -> Int]
  /\ at \in [Threads -> {"next", "add", "reduce", "read", "reset"}]
  /\ left \in [Threads -> Seq(Accumulators)]
  /\ held \in [Threads -> Seq(Int)]
  /\ inexact \subseteq PixelLoops \X Nat
  /\ alone \in [Threads -> BOOLEAN]
  /\ edges \in [Grid -> 0 .. 255] /\ suppressed \in [Grid -> 0 .. 255]
  /\ strong \subseteq Grid

-------------------------------------------------------------------------------
(* The sums of blur_accum, gx and gy are shared, and reset by each thread  *)
(* for all, even while another adds to them, whose store undoes the reset: *)
(* yet what is lost or added twice never outlives the threads it happened  *)
(* to.  When none is between its reduction and its last reset, all three   *)
(* are 0 again, and the next pixel starts clean.                           *)
QuietIsClean == Inside = {} => \A a \in Accumulators : accum[a] = 0

(* A pixel is only ever wrong by an overlap: the thread that met no other, *)
(* from its reduction (of gx and gy, from its lock) to its last reset, has *)
(* stored what the sequential loop of the same pixel would.  A thread alone *)
(* in its team stores them all as their own loops have summed them up, as  *)
(* nothing of one pixel is left in the sums of the next.                   *)
AloneIsExact ==
  /\ \A t \in Team : at[t] = "reset" /\ alone[t] => <<stage, Pixel(t)>> \notin inexact
  /\ team = 1 => inexact = {}

(* kernel /= kaccum divides by no zero and by no more than the weight of  *)
(* the cells: the race of the threads may lose cells, but never all, and   *)
(* counts none twice; one thread alone loses none.                         *)
TotalWeight == SumFunction(Weights)
NormalizationDefined ==
  stage = "blur" => /\ 0 < kaccum /\ kaccum <= TotalWeight
                    /\ team = 1 => kaccum = TotalWeight

-------------------------------------------------------------------------------
(* checkContours() goes up and left without a look at the image's border.  *)
(* It stays inside only because the suppression has cleared the border:    *)
(* a walk ends there, as it goes on from weak pixels alone.  And a thread's *)
(* stack of calls is never deeper than the image is high, or wide.         *)
CallsInBounds ==
  \A t \in Team : /\ \A i \in DOMAIN calls[t] : calls[t][i].pixel \in Grid
                  /\ Len(calls[t]) <= Rows /\ Len(calls[t]) <= Cols

(* Threads whose walks cross write strongEdges and the edges in any order, *)
(* and the result does not depend on it, nor on their number: what the     *)
(* linking keeps are the pixels that pass the low threshold.               *)
LinkingIsThreshold ==
  stage = "done" => edges = [p \in Grid |-> IF p \in Weak THEN suppressed[p] ELSE 0]

(* However wrong the directions are, the suppression does not lose the     *)
(* strongest edge of an image, as long as its magnitude fits a pixel.      *)
Strongest(p) ==
  /\ LowThreshold <= image.magnitude[p] /\ image.magnitude[p] <= 255
  /\ \A q \in Grid : image.magnitude[q] <= image.magnitude[p]

StrongestSurvives ==
  stage = "done" => \A p \in Inner : Strongest(p) => edges[p] = image.magnitude[p]

(* The filter returns: no walk goes round, no thread waits for another at  *)
(* the end of a loop for ever.                                             *)
FilterEnds == <>(stage = "done")

-------------------------------------------------------------------------------
(* What these rest on.                                                      *)
(*                                                                          *)
(* Where a thread is in its iteration, and what it has of the shared sums:  *)
(* under the lock it adds to gx, then to gy.                                *)
InPixelLoop(t) == stage \in PixelLoops /\ InLoop(t, stage, Pixels(stage))

ThreadShape(t) ==
  /\ at[t] = "next" => left[t] = <<>> /\ held[t] = <<>>
  /\ at[t] = "add" => /\ InLoop(t, "kernel", Len(Weights))
                      /\ left[t] = <<>> /\ Len(held[t]) = 1 /\ held[t][1] >= 0
  /\ at[t] = "reduce" => /\ InPixelLoop(t) /\ stage = "sobel" /\ Len(held[t]) \in 0 .. 1
                         /\ left[t] \in {<<"gx", "gy">>, <<"gy">>}
  /\ at[t] = "read" => /\ InPixelLoop(t)
                       /\ Len(held[t]) + Len(left[t]) = Len(Reads[stage])
                       /\ \A i \in 1 .. Len(left[t]) : left[t][i] = Reads[stage][Len(held[t]) + i]
  /\ at[t] = "reset" => InPixelLoop(t) /\ left[t] # <<>> /\ held[t] = <<>>

(* A sum that is not 0 has a thread that will set it back.                  *)
WillReset(t) ==
  CASE at[t] \in {"reduce", "read"} -> {Resets[stage][i] : i \in DOMAIN Resets[stage]}
    [] at[t] = "reset" -> {left[t][i] : i \in DOMAIN left[t]}
    [] OTHER -> {}
SumsAreReset == \A a \in Accumulators : accum[a] # 0 => \E t \in Team : a \in WillReset(t)

(* A thread that has met no other is the only one inside, and the sums are  *)
(* those of its pixel until it has stored it.                               *)
AloneShape(t) ==
  at[t] \in {"reduce", "read", "reset"} /\ alone[t] =>
    /\ Inside = {t}
    /\ at[t] = "reduce" =>
         /\ \A a \in Accumulators : accum[a] =
              IF a = "gx" /\ Len(left[t]) = 1 THEN Sum(stage, Pixel(t), a) ELSE 0
         /\ held[t] # <<>> => held[t][1] = 0
    /\ at[t] = "read" =>
         /\ \A a \in Accumulators : accum[a] = Sum(stage, Pixel(t), a)
         /\ \A i \in 1 .. Len(held[t]) : held[t][i] = Sum(stage, Pixel(t), Reads[stage][i])
    /\ at[t] = "reset" => <<stage, Pixel(t)>> \notin inexact

(* A pixel is stored by the thread in whose block it is, once.              *)
Stored(t, k) ==
  LET first == Before(t, Pixels(stage))
  IN first < k /\ k <= first + done[t] + (IF at[t] = "reset" THEN 1 ELSE 0)
InexactShape ==
  \A x \in inexact : /\ x[1] = "blur" \/ (x[1] = "sobel" /\ stage = "sobel")
                     /\ stage \in PixelLoops
                     /\ x[1] = stage => \E t \in Team : Stored(t, x[2])

(* What a thread has added to the kernel's sum is there, or was overwritten *)
(* by what another has added.                                               *)
KernelShape ==
  /\ stage = "kernel" /\ (\E t \in Team : done[t] > 0) => kaccum > 0
  /\ stage = "blur" => kaccum > 0

(* The cells whose weight has been added, and what they weigh: no thread    *)
(* has read more, and one alone no less.                                    *)
Added ==
  {i \in 1 .. Len(Weights) : \E t \in Team :
     LET first == Before(t, Len(Weights)) IN first < i /\ i <= first + done[t]}
AddedWeight == SumFunctionOnSet(Weights, Added)

WeightShape ==
  /\ stage = "kernel" =>
       /\ kaccum <= AddedWeight
       /\ \A t \in Team : at[t] = "add" => held[t][1] <= AddedWeight
       /\ team = 1 => /\ kaccum = AddedWeight
                      /\ \A t \in Team : at[t] = "add" => held[t][1] = AddedWeight
  /\ stage = "blur" => kaccum <= TotalWeight /\ (team = 1 => kaccum = TotalWeight)

ConvolutionShape ==
  /\ done \in [Threads -> Int]
  /\ \A t \in Threads : ThreadShape(t)
  /\ SumsAreReset
  /\ \A t \in Team : AloneShape(t)
  /\ InexactShape
  /\ KernelShape

(* The calls a thread is in start at the pixel of its iteration, and go on  *)
(* from weak pixels only.                                                   *)
CallsShape(t) ==
  /\ calls[t] \in Seq(Calls)
  /\ calls[t] # <<>> => Linking(t) /\ calls[t][1].pixel = PixelOf(t)
  /\ \A i \in 1 .. Len(calls[t]) : calls[t][i].pc = "sides" => calls[t][i].pixel \in Weak

(* A pixel whose iteration has ended passes the low threshold, or is        *)
(* cleared.                                                                 *)
Linked(p) == p \in Weak \/ edges[p] = 0

TrackingShape ==
  /\ calls \in [Threads -> Seq(Calls)]
  /\ \A t \in Threads : CallsShape(t)
  /\ strong \subseteq Weak
  /\ \A p \in Grid : edges[p] = suppressed[p] \/ (edges[p] = 0 /\ p \notin Weak)
  /\ \A p \in Border : suppressed[p] = 0
  /\ stage \in {"link", "done"} =>
       \A p \in Inner : Strongest(p) => suppressed[p] = image.magnitude[p]
  /\ stage = "link" => \A t \in Team : \A k \in 1 .. done[t] :
       Linked(PixelAt(Before(t, Rows * Cols) + k))
  /\ stage = "done" => \A p \in Grid : Linked(p)

(* A walk goes up and left, a pixel further with each call, and all calls   *)
(* but the last have no side left to go to.                                 *)
WalkShape(t) ==
  \A i \in 1 .. Len(calls[t]) :
    /\ calls[t][i].pixel = Shift(calls[t][1].pixel, 1 - i, 1 - i)
    /\ calls[t][i].sides \subseteq {Shift(calls[t][i].pixel, -1, -1)}
    /\ i < Len(calls[t]) => calls[t][i].pc = "sides" /\ calls[t][i].sides = {}

(* What every step keeps.                                                   *)
Inductive == TypeOK /\ ConvolutionShape /\ TrackingShape
ProofInvariant == Inductive /\ WeightShape /\ \A t \in Threads : WalkShape(t)

-------------------------------------------------------------------------------
(* What is left to do: loops, of each thread of the team iterations, and at *)
(* most so many steps of the iteration that it is in.                       *)
LoopsLeft(s) == CASE s = "kernel" -> 5 [] s = "blur" -> 4 [] s = "sobel" -> 3
                  [] s = "gradients" -> 2 [] s = "link" -> 1 [] OTHER -> 0

IterationsLeft(t) == Block(t, Iterations(stage)) - done[t]

PixelStepsLeft(t) == CASE at[t] = "reduce" -> 10 + 2 * Len(left[t]) - Len(held[t])
                       [] at[t] = "read" -> 10 - Len(held[t])
                       [] at[t] = "reset" -> Len(left[t])
                       [] at[t] = "add" -> 1
                       [] OTHER -> 15

CallStepsLeft(call) == CASE call.pc = "look" -> 4 * call.pixel[1] + 3
                         [] call.pc = "mark" -> 4 * call.pixel[1] + 2
                         [] call.pc = "sides" /\ call.sides # {} -> 4 * call.pixel[1] + 1
                         [] OTHER -> 0

WalkStepsLeft(t) == IF calls[t] = <<>> THEN 4 * Rows + 1
                    ELSE Len(calls[t]) + CallStepsLeft(Top(t))

StepsLeft(t) == IF stage = "link" THEN WalkStepsLeft(t) ELSE PixelStepsLeft(t)

(* All of it are natural numbers.                                           *)
WorkIsBounded == \A t \in Team : IterationsLeft(t) \in Nat /\ StepsLeft(t) \in Nat

(* A step of the filter ends a loop, or leaves one thread less to do and    *)
(* the others as much: it can take finitely many.                           *)
Falls(t) == \/ IterationsLeft(t)' < IterationsLeft(t)
            \/ IterationsLeft(t)' = IterationsLeft(t) /\ StepsLeft(t)' < StepsLeft(t)
Stays(t) == IterationsLeft(t)' = IterationsLeft(t) /\ StepsLeft(t)' = StepsLeft(t)

WorkFalls ==
  \/ LoopsLeft(stage') < LoopsLeft(stage)
  \/ /\ stage' = stage /\ team' = team
     /\ \E t \in Team : Falls(t) /\ \A u \in Team \ {t} : Stays(u)
WorkAlwaysFalls == [][WorkFalls]_vars

-------------------------------------------------------------------------------
(* "includes weak edges only if they are connected to strong edges"        *)
(* (the filter's README): a pixel of the result is in every set of weak    *)
(* pixels that has the strong ones and their weak neighbours.              *)
Adjacent(p, q) == p # q /\ p[1] - q[1] \in -1 .. 1 /\ p[2] - q[2] \in -1 .. 1

Connected(p) ==
  \A S \in SUBSET Weak :
    (\A q \in Weak : suppressed[q] >= HighThreshold \/ (\E r \in S : Adjacent(q, r)) => q \in S)
      => p \in S

WeakKeptOnlyIfConnected ==
  stage = "done" => \A p \in Grid : edges[p] # 0 => Connected(p)
===============================================================================
