-------------------------- MODULE EdgeDetectionProofs --------------------------
(***************************************************************************)
(* Proofs about the edge filter, for teams, kernels and images of any      *)
(* size: the static schedule of a loop, the sums the threads share, and    *)
(* the suppression and the walk of the linking.                            *)
(***************************************************************************)
EXTENDS EdgeDetectionProperties, SumLemmas, TLAPS

-------------------------------------------------------------------------------
(***************************************************************************)
(* Arithmetic.                                                             *)
(***************************************************************************)
LEMMA QuotientOf ==
  ASSUME NEW n \in Nat, NEW T \in Nat, T > 0
  PROVE  /\ n \div T \in Nat /\ n % T \in 0 .. T - 1
         /\ n = (n \div T) * T + (n % T)
BY SMTT(60)

(* Division with its remainder. *)
LEMMA Quotient ==
  \A n, T \in Nat : T > 0 =>
    /\ n \div T \in Nat /\ n % T \in 0 .. T - 1
    /\ n = (n \div T) * T + (n % T)
<1> SUFFICES ASSUME NEW n \in Nat, NEW T \in Nat, T > 0
             PROVE /\ n \div T \in Nat /\ n % T \in 0 .. T - 1
                   /\ n = (n \div T) * T + (n % T)
  OBVIOUS
<1> QED BY QuotientOf

(* A product grows with its factor. *)
LEMMA TimesMonotone == \A a, b, c \in Nat : a <= b => a * c <= b * c
BY SMTT(30)

(* Products are natural numbers. *)
LEMMA TimesNat == \A a, b \in Nat : a * b \in Nat
OBVIOUS

(* One more of a factor. *)
LEMMA TimesNext == \A a, c \in Nat : (a + 1) * c = a * c + c
BY SMTT(30)

(* Products distribute over sums. *)
LEMMA TimesSum == \A a, b, c \in Nat : (a + b) * c = a * c + b * c
BY SMTT(30)

(* The smaller product has the smaller factor. *)
LEMMA TimesCancel == \A a, b, c \in Nat : a * c < b * c => a < b
<1> SUFFICES ASSUME NEW a \in Nat, NEW b \in Nat, NEW c \in Nat, a * c < b * c, b <= a
             PROVE FALSE
  OBVIOUS
<1> QED BY TimesMonotone, TimesNat

(* The factors of a product may be swapped. *)
LEMMA TimesSwap == \A a, b \in Nat : a * b = b * a
OBVIOUS

-------------------------------------------------------------------------------
(***************************************************************************)
(* The static schedule.                                                    *)
(***************************************************************************)
LEMMA TeamShape ==
  ASSUME team \in 1 .. MaxTeam
  PROVE  /\ team \in Nat /\ team > 0 /\ MaxTeam \in Nat
         /\ Team \subseteq Nat /\ Team \subseteq Threads /\ Threads \subseteq Nat /\ 0 \in Team
BY TeamAssumption DEF Team, Threads

(* Every thread has a natural number of iterations, after as many of others. *)
LEMMA BlockNat ==
  ASSUME team \in 1 .. MaxTeam
  PROVE  \A t \in Threads : \A n \in Nat : Block(t, n) \in Nat /\ Before(t, n) \in Nat
<1>1. \A t, q \in Nat : t * q \in Nat
  BY TimesNat
<1> QED BY <1>1, TeamShape, Quotient DEF Block, Before

(* The blocks follow each other, and end with the last iteration. *)
LEMMA BlocksApart ==
  \A t, u, q, r \in Nat : t < u =>
    t * q + (IF t < r THEN t ELSE r) + q + (IF t < r THEN 1 ELSE 0)
      <= u * q + (IF u < r THEN u ELSE r)
<1> SUFFICES ASSUME NEW t \in Nat, NEW u \in Nat, NEW q \in Nat, NEW r \in Nat, t < u
             PROVE t * q + (IF t < r THEN t ELSE r) + q + (IF t < r THEN 1 ELSE 0)
                     <= u * q + (IF u < r THEN u ELSE r)
  OBVIOUS
<1> DEFINE a == t * q  b == u * q
<1>1. a + q <= b
  BY TimesNext, TimesMonotone, t + 1 \in Nat, t + 1 <= u
<1>2. a \in Nat /\ b \in Nat
  BY TimesNat
<1> HIDE DEF a, b
<1>3. a + (IF t < r THEN t ELSE r) + q + (IF t < r THEN 1 ELSE 0) <= b + (IF u < r THEN u ELSE r)
  BY <1>1, <1>2
<1> QED BY <1>3 DEF a, b

(* The blocks of a team follow each other. *)
LEMMA BlockOrder ==
  ASSUME team \in 1 .. MaxTeam
  PROVE  \A t, u \in Team : \A n \in Nat : t < u => Before(t, n) + Block(t, n) <= Before(u, n)
<1> SUFFICES ASSUME NEW t \in Team, NEW u \in Team, NEW n \in Nat, t < u
             PROVE Before(t, n) + Block(t, n) <= Before(u, n)
  OBVIOUS
<1> DEFINE q == n \div team  r == n % team  a == t * q
<1>1. q \in Nat /\ r \in Nat /\ t \in Nat /\ u \in Nat
  BY TeamShape, Quotient
<1>2. a \in Nat
  BY <1>1, TimesNat
<1>3. /\ Before(t, n) = a + (IF t < r THEN t ELSE r)
      /\ Block(t, n) = q + (IF t < r THEN 1 ELSE 0)
      /\ Before(u, n) = u * q + (IF u < r THEN u ELSE r)
  BY DEF Before, Block
<1>4. a + (IF t < r THEN t ELSE r) + q + (IF t < r THEN 1 ELSE 0) <= Before(u, n)
  BY <1>1, <1>3, BlocksApart
<1> HIDE DEF q, r, a
<1>5. Before(t, n) + Block(t, n) = a + (IF t < r THEN t ELSE r) + q + (IF t < r THEN 1 ELSE 0)
  BY <1>1, <1>2, <1>3
<1> QED BY <1>4, <1>5

(* No block goes beyond the end of the loop. *)
LEMMA BlockEnd ==
  ASSUME team \in 1 .. MaxTeam
  PROVE  \A t \in Team : \A n \in Nat : Before(t, n) + Block(t, n) <= n
<1> SUFFICES ASSUME NEW t \in Team, NEW n \in Nat
             PROVE Before(t, n) + Block(t, n) <= n
  OBVIOUS
<1> DEFINE q == n \div team  r == n % team  a == t * q  b == team * q
<1>1. /\ q \in Nat /\ r \in Nat /\ t \in Nat /\ team \in Nat /\ r < team
      /\ n = q * team + r
  BY TeamShape, Quotient
<1>2. t < team
  BY TeamShape DEF Team
<1>3. a \in Nat /\ b \in Nat /\ n = b + r
  BY <1>1, TimesNat, TimesSwap
<1>4. /\ Before(t, n) = a + (IF t < r THEN t ELSE r)
      /\ Block(t, n) = q + (IF t < r THEN 1 ELSE 0)
  BY DEF Before, Block
<1>5. a + (IF t < r THEN t ELSE r) + q + (IF t < r THEN 1 ELSE 0) <= b + (IF team < r THEN team ELSE r)
  BY <1>1, <1>2, BlocksApart
<1> HIDE DEF q, r, a, b
<1> QED BY <1>1, <1>3, <1>4, <1>5

(* Every iteration is in a block. *)
LEMMA BlockFor ==
  \A T, q, r, k \in Nat : r < T /\ k < q * T + r =>
    \E t \in 0 .. T - 1 :
      /\ t * q + (IF t < r THEN t ELSE r) <= k
      /\ k < t * q + (IF t < r THEN t ELSE r) + q + (IF t < r THEN 1 ELSE 0)
<1> SUFFICES ASSUME NEW T \in Nat, NEW q \in Nat, NEW r \in Nat, NEW k \in Nat,
                    r < T, k < q * T + r
             PROVE \E t \in 0 .. T - 1 :
                     /\ t * q + (IF t < r THEN t ELSE r) <= k
                     /\ k < t * q + (IF t < r THEN t ELSE r) + q + (IF t < r THEN 1 ELSE 0)
  OBVIOUS
<1> DEFINE long == r * (q + 1)
<1>0. long \in Nat /\ long = r * q + r
  BY TimesNat, TimesSwap, TimesNext, q + 1 \in Nat
<1>1. CASE k < long
  <2> DEFINE t == k \div (q + 1)  m == k % (q + 1)  a == t * q
  <2>1. t \in Nat /\ m \in 0 .. q /\ k = t * (q + 1) + m
    BY Quotient, q + 1 \in Nat, q + 1 > 0, (q + 1) - 1 = q
  <2>2. t * (q + 1) = a + t /\ a \in Nat
    BY <2>1, TimesNat, TimesSwap, TimesNext
  <2> HIDE DEF t, m, a
  <2>3. t * (q + 1) < long
    BY <2>1, <2>2, <1>0, <1>1
  <2>4. t < r
    BY <2>1, <2>3, TimesCancel, q + 1 \in Nat
  <2>5. a + t <= k /\ k < a + t + q + 1
    BY <2>1, <2>2
  <2>6. t \in 0 .. T - 1
    BY <2>1, <2>4
  <2>7. /\ a + (IF t < r THEN t ELSE r) <= k
        /\ k < a + (IF t < r THEN t ELSE r) + q + (IF t < r THEN 1 ELSE 0)
    BY <2>4, <2>5
  <2> QED BY <2>6, <2>7 DEF a
<1>2. CASE k >= long
  <2> DEFINE d == k - long  w == T - r
  <2>1. d \in Nat /\ w \in Nat /\ k = long + d
    BY <1>0, <1>2
  <2>2. q * T = r * q + w * q
    BY <2>1, TimesSum, TimesSwap, T = r + w
  <2>3. w * q \in Nat /\ r * q \in Nat
    BY <2>1, TimesNat
  <2>4. d < w * q
    <3> DEFINE x == r * q  y == w * q
    <3>1. long = x + r /\ q * T = x + y
      BY <1>0, <2>2
    <3> HIDE DEF x, y, d, w, long
    <3> QED BY <3>1, <2>1, <2>3 DEF x, y
  <2>5. q > 0
    BY <2>1, <2>4
  <2> HIDE DEF d, w
  <2> DEFINE s == d \div q  m == d % q  b == s * q
  <2>6. s \in Nat /\ m \in 0 .. q - 1 /\ d = b + m /\ b \in Nat
    BY <2>1, <2>5, Quotient, TimesNat
  <2>7. s < w
    <3>1. s * q < w * q
      BY <2>3, <2>4, <2>6
    <3> HIDE DEF s
    <3> QED BY <3>1, <2>1, <2>6, TimesCancel
  <2> HIDE DEF s, m
  <2>8. (r + s) * q = r * q + b
    BY <2>6, TimesSum
  <2> DEFINE a == (r + s) * q  x == r * q
  <2>9. x \in Nat /\ a = x + b
    BY <2>3, <2>8
  <2> HIDE DEF a, x, b, long
  <2>10. a + r <= k /\ k < a + r + q
    BY <1>0, <2>1, <2>6, <2>9 DEF x
  <2>11. r + s \in 0 .. T - 1 /\ ~ (r + s < r)
    BY <2>6, <2>7 DEF w
  <2>12. a \in Nat
    BY <2>6, <2>9
  <2>13. /\ a + (IF r + s < r THEN r + s ELSE r) <= k
         /\ k < a + (IF r + s < r THEN r + s ELSE r) + q + (IF r + s < r THEN 1 ELSE 0)
    BY <2>10, <2>11, <2>12
  <2> QED BY <2>11, <2>13 DEF a
<1> QED BY <1>0, <1>1, <1>2

(* Every iteration of a loop is in the block of some thread. *)
LEMMA BlockCover ==
  ASSUME team \in 1 .. MaxTeam
  PROVE  \A n \in Nat : \A k \in 1 .. n : \E t \in Team :
           Before(t, n) < k /\ k <= Before(t, n) + Block(t, n)
<1> SUFFICES ASSUME NEW n \in Nat, NEW k \in 1 .. n
             PROVE \E t \in Team : Before(t, n) < k /\ k <= Before(t, n) + Block(t, n)
  OBVIOUS
<1> DEFINE q == n \div team  r == n % team
<1>1. /\ q \in Nat /\ r \in Nat /\ team \in Nat /\ r < team
      /\ n = q * team + r
  BY TeamShape, Quotient
<1>2. k - 1 \in Nat /\ k - 1 < q * team + r
  BY <1>1
<1> HIDE DEF q, r
<1>3. PICK t \in 0 .. team - 1 :
        /\ t * q + (IF t < r THEN t ELSE r) <= k - 1
        /\ k - 1 < t * q + (IF t < r THEN t ELSE r) + q + (IF t < r THEN 1 ELSE 0)
  BY <1>1, <1>2, BlockFor
<1> DEFINE a == t * q
<1>4. t \in Team /\ t \in Nat
  BY <1>1, <1>3 DEF Team
<1>5. a \in Nat
  BY <1>1, <1>4, TimesNat
<1>6. /\ Before(t, n) = a + (IF t < r THEN t ELSE r)
      /\ Block(t, n) = q + (IF t < r THEN 1 ELSE 0)
  BY DEF Before, Block, q, r
<1>7. /\ a + (IF t < r THEN t ELSE r) <= k - 1
      /\ k - 1 < a + (IF t < r THEN t ELSE r) + q + (IF t < r THEN 1 ELSE 0)
  BY <1>3
<1> HIDE DEF a
<1>8. Before(t, n) < k /\ k <= Before(t, n) + Block(t, n)
  BY <1>1, <1>4, <1>5, <1>6, <1>7
<1> QED BY <1>4, <1>8

(* The first thread has work where there is any. *)
LEMMA FirstBlock ==
  ASSUME team \in 1 .. MaxTeam
  PROVE  \A n \in Nat : n > 0 => Block(0, n) > 0
<1> SUFFICES ASSUME NEW n \in Nat, n > 0
             PROVE Block(0, n) > 0
  OBVIOUS
<1>1. PICK q \in Nat, r \in Nat : q = n \div team /\ r = n % team /\ n = q * team + r
  BY TeamShape, Quotient
<1>2. CASE q = 0
  BY <1>1, <1>2, TeamShape DEF Block
<1>3. CASE q > 0
  BY <1>1, <1>3 DEF Block
<1> QED BY <1>1, <1>2, <1>3

(* A thread that is not done is at an iteration of its block. *)
LEMMA IterationInBlock ==
  ASSUME team \in 1 .. MaxTeam, NEW n \in Nat, NEW t \in Team,
         done[t] \in Nat, done[t] < Block(t, n)
  PROVE  /\ Iteration(t, n) \in 1 .. n
         /\ Before(t, n) < Iteration(t, n) /\ Iteration(t, n) <= Before(t, n) + Block(t, n)
<1>1. Block(t, n) \in Nat /\ Before(t, n) \in Nat
  BY BlockNat, TeamShape
<1>2. Before(t, n) + Block(t, n) <= n
  BY BlockEnd
<1> QED BY <1>1, <1>2 DEF Iteration

(* No iteration is in the blocks of two threads. *)
LEMMA BlocksDiffer ==
  ASSUME team \in 1 .. MaxTeam, NEW n \in Nat, NEW t \in Team, NEW u \in Team, t # u, NEW k \in Nat,
         Before(t, n) < k, k <= Before(t, n) + Block(t, n)
  PROVE  ~ (Before(u, n) < k /\ k <= Before(u, n) + Block(u, n))
<1>1. /\ Block(t, n) \in Nat /\ Before(t, n) \in Nat
      /\ Block(u, n) \in Nat /\ Before(u, n) \in Nat
  BY BlockNat, TeamShape
<1>2. t < u \/ u < t
  BY TeamShape
<1>3. \/ Before(t, n) + Block(t, n) <= Before(u, n)
      \/ Before(u, n) + Block(u, n) <= Before(t, n)
  BY <1>2, BlockOrder
<1> QED BY <1>1, <1>3

(* How long the loops are. *)
LEMMA LoopLengths ==
  /\ Len(Weights) \in Nat /\ Len(Weights) > 0
  /\ \A i \in 1 .. Len(Weights) : Weights[i] \in Nat /\ Weights[i] > 0
  /\ \A s \in PixelLoops : Pixels(s) \in Nat
  /\ Rows * Cols \in Nat
  /\ \A s \in Stages : Iterations(s) \in Nat
  /\ Iterations("kernel") = Len(Weights)
  /\ \A s \in PixelLoops : Iterations(s) = Pixels(s)
  /\ Iterations("link") = Rows * Cols
<1>1. /\ Len(Weights) \in Nat /\ Len(Weights) > 0
      /\ \A i \in 1 .. Len(Weights) : Weights[i] \in Nat /\ Weights[i] > 0
  BY ConvolutionAssumption
<1>2. \A s \in PixelLoops : Pixels(s) \in Nat
  BY ConvolutionAssumption DEF PixelLoops, Pixels
<1>3. Rows * Cols \in Nat
  BY TrackingAssumption, TimesNat
<1>4. /\ Iterations("kernel") = Len(Weights)
      /\ \A s \in PixelLoops : Iterations(s) = Pixels(s)
      /\ Iterations("link") = Rows * Cols
  BY DEF Iterations, PixelLoops
<1>5. \A s \in Stages : Iterations(s) \in Nat
  BY <1>1, <1>2, <1>3 DEF Iterations, PixelLoops, Stages
<1> QED BY <1>1, <1>2, <1>3, <1>4, <1>5

(* A sum that need not be 0 is among those a thread resets. *)
LEMMA ReadsAndResets ==
  \A s \in PixelLoops :
    /\ Reads[s] \in Seq(Accumulators) /\ Resets[s] \in Seq(Accumulators) /\ Resets[s] # <<>>
    /\ \A p : \A a \in Accumulators : Sum(s, p, a) # 0 => \E i \in DOMAIN Resets[s] : Resets[s][i] = a
<1>1. \A s \in PixelLoops :
        Reads[s] \in Seq(Accumulators) /\ Resets[s] \in Seq(Accumulators) /\ Resets[s] # <<>>
  <2>1. /\ Reads["blur"] = <<"blur_accum">>
        /\ Reads["sobel"] = <<"gx", "gx", "gy", "gy", "gx", "gy">>
        /\ Resets["blur"] = <<"blur_accum">>
        /\ Resets["sobel"] = <<"gx", "gy">>
    BY DEF Reads, Resets
  <2>2. <<"blur_accum">> \in Seq(Accumulators) /\ <<"blur_accum">> # <<>>
    BY DEF Accumulators
  <2>3. <<"gx", "gy">> \in Seq(Accumulators) /\ <<"gx", "gy">> # <<>>
    BY DEF Accumulators
  <2>4. <<"gx", "gx", "gy", "gy", "gx", "gy">> \in Seq(Accumulators)
    BY SMTT(60) DEF Accumulators
  <2>5. \A s \in PixelLoops : s = "blur" \/ s = "sobel"
    BY DEF PixelLoops
  <2> QED BY <2>1, <2>2, <2>3, <2>4, <2>5
<1>2. /\ Resets["blur"] = <<"blur_accum">>
      /\ Resets["sobel"] = <<"gx", "gy">>
  BY DEF Resets
<1>3. ASSUME NEW p, NEW a \in Accumulators, Sum("blur", p, a) # 0
      PROVE  \E i \in DOMAIN Resets["blur"] : Resets["blur"][i] = a
  <2>1. a = "blur_accum"
    BY <1>3 DEF Sum, Accumulators
  <2> QED BY <2>1, <1>2
<1>4. ASSUME NEW p, NEW a \in Accumulators, Sum("sobel", p, a) # 0
      PROVE  \E i \in DOMAIN Resets["sobel"] : Resets["sobel"][i] = a
  <2>1. a = "gx" \/ a = "gy"
    BY <1>4 DEF Sum, Accumulators
  <2>2. 1 \in DOMAIN Resets["sobel"] /\ 2 \in DOMAIN Resets["sobel"]
    BY <1>2
  <2> QED BY <2>1, <2>2, <1>2
<1> QED BY <1>1, <1>3, <1>4 DEF PixelLoops

(* What a pixel adds to a sum is a number. *)
LEMMA SumInt ==
  \A s \in PixelLoops : \A p \in 1 .. Pixels(s) : \A a \in Accumulators : Sum(s, p, a) \in Int
<1>1. \A p \in 1 .. Len(BlurSums) : BlurSums[p] \in Int
  BY ConvolutionAssumption
<1>2. \A p \in 1 .. Len(Gradients) : Gradients[p] \in Int \X Int
  BY ConvolutionAssumption
<1>3. \A p \in 1 .. Len(Gradients) : Gradients[p][1] \in Int /\ Gradients[p][2] \in Int
  BY <1>2
<1> QED BY <1>1, <1>3 DEF Sum, PixelLoops, Pixels, Accumulators

(* The rest of a sequence, index by index. *)
LEMMA TailOf ==
  \A S : \A s \in Seq(S) : s # <<>> =>
    /\ Tail(s) \in Seq(S) /\ Len(Tail(s)) = Len(s) - 1
    /\ \A i \in 1 .. Len(s) - 1 : Tail(s)[i] = s[i + 1]
OBVIOUS

(* Only the empty sequence has no length. *)
LEMMA NotEmpty == \A S : \A s \in Seq(S) : s # <<>> <=> Len(s) > 0
OBVIOUS

(* A longer sequence, index by index. *)
LEMMA AppendOf ==
  \A S : \A s \in Seq(S), x \in S :
    /\ Append(s, x) \in Seq(S) /\ Len(Append(s, x)) = Len(s) + 1
    /\ \A i \in 1 .. Len(s) : Append(s, x)[i] = s[i]
    /\ Append(s, x)[Len(s) + 1] = x
OBVIOUS

-------------------------------------------------------------------------------
(***************************************************************************)
(* The sums.                                                               *)
(***************************************************************************)
LEMMA InitShape == Init => Inductive
<1> SUFFICES ASSUME Init PROVE Inductive
  OBVIOUS
<1> USE DEF Init, LoopInit, ConvolutionInit, TrackingInit
<1>1. TypeOK
  <2>1. \A t \in Threads : done[t] = 0 /\ Block(t, Iterations(stage)) \in Nat
    BY BlockNat, LoopLengths DEF Stages
  <2>2. \A p \in Grid : Blank[p] = 0
    BY DEF Blank
  <2>3. edges \in [Grid -> 0 .. 255] /\ suppressed \in [Grid -> 0 .. 255]
    BY DEF Blank
  <2>4. accum \in [Accumulators -> Int] /\ alone \in [Threads -> BOOLEAN]
    OBVIOUS
  <2>5. <<>> \in Seq(Accumulators) /\ <<>> \in Seq(Int)
    OBVIOUS
  <2>6. /\ at \in [Threads -> {"next", "add", "reduce", "read", "reset"}]
        /\ left \in [Threads -> Seq(Accumulators)] /\ held \in [Threads -> Seq(Int)]
    BY <2>5
  <2>7. \A t \in Threads : done[t] \in 0 .. Block(t, Iterations(stage))
    BY <2>1
  <2>8. /\ team \in 1 .. MaxTeam /\ stage \in Stages /\ kaccum \in Nat
        /\ inexact \subseteq PixelLoops \X Nat /\ strong \subseteq Grid
    BY DEF Stages
  <2> QED BY <2>3, <2>4, <2>6, <2>7, <2>8, Zenon DEF TypeOK
<1>2. ConvolutionShape
  <2>1. SumsAreReset
    BY DEF SumsAreReset
  <2>2. \A t \in Threads : ThreadShape(t)
    BY DEF ThreadShape
  <2>3. \A t \in Team : AloneShape(t)
    BY TeamShape DEF AloneShape
  <2>4. InexactShape
    BY DEF InexactShape
  <2>5. KernelShape
    BY TeamShape DEF KernelShape
  <2>6. done \in [Threads -> Int]
    OBVIOUS
  <2> QED BY <2>1, <2>2, <2>3, <2>4, <2>5, <2>6 DEF ConvolutionShape
<1>3. TrackingShape
  <2>1. \A t \in Threads : CallsShape(t)
    BY DEF CallsShape
  <2> QED BY <2>1 DEF TrackingShape, Blank, Border
<1> QED BY <1>1, <1>2, <1>3 DEF Inductive

(* The steps of the first two phases leave the linking alone. *)
LEMMA TrackingLeftAlone ==
  ASSUME TypeOK, TrackingShape, team' = team, UNCHANGED trackingVars,
         stage \notin {"link", "done"}, stage' \notin {"link", "done"}
  PROVE  TrackingShape'
<1> USE DEF trackingVars
<1>1. \A t \in Threads : CallsShape(t)'
  <2> SUFFICES ASSUME NEW t \in Threads
               PROVE CallsShape(t)'
    OBVIOUS
  <2>1. CallsShape(t)
    BY DEF TrackingShape
  <2>2. calls[t] = <<>>
    BY <2>1 DEF CallsShape, Linking, InLoop
  <2> QED BY <2>1, <2>2 DEF CallsShape
<1>2. Weak' = Weak
  BY DEF Weak
<1>3. calls' \in [Threads -> Seq(Calls)]
  BY DEF TrackingShape
<1> QED BY <1>1, <1>2, <1>3 DEF TrackingShape

(* Threads that do not take a step keep their shape. *)
LEMMA OtherShape ==
  ASSUME NEW u \in Threads, ThreadShape(u), team' = team, stage' = stage,
         done'[u] = done[u], at'[u] = at[u], left'[u] = left[u], held'[u] = held[u]
  PROVE  ThreadShape(u)'
BY DEF ThreadShape, InPixelLoop, InLoop, Block, Team

(* The first half of kaccum += ... keeps the invariant. *)
LEMMA ReadKernelSumShape ==
  ASSUME Inductive, NEW t \in Team, ReadKernelSum(t), UNCHANGED trackingVars
  PROVE  Inductive'
<1> USE DEF Inductive
<1>0. /\ t \in Threads /\ team' = team /\ stage' = stage /\ done' = done /\ stage = "kernel"
      /\ at[t] = "next" /\ kaccum' = kaccum /\ accum' = accum /\ left' = left
      /\ inexact' = inexact /\ alone' = alone
      /\ held' = [held EXCEPT ![t] = <<kaccum>>]
      /\ at' = [at EXCEPT ![t] = "add"]
      /\ InLoop(t, "kernel", Len(Weights))
  BY TeamShape DEF ReadKernelSum, TypeOK, InLoop, loopVars
<1>1. TypeOK'
  <2>1. /\ held' \in [Threads -> Seq(Int)]
        /\ at' \in [Threads -> {"next", "add", "reduce", "read", "reset"}]
    BY <1>0 DEF TypeOK
  <2>2. \A u \in Threads : (done[u] \in 0 .. Block(u, Iterations(stage)))'
    BY <1>0 DEF TypeOK, Block
  <2> QED BY <1>0, <2>1, <2>2 DEF TypeOK, trackingVars
<1>2. TrackingShape'
  BY <1>0, TrackingLeftAlone
<1>3. \A u \in Threads : ThreadShape(u)'
  <2>1. ASSUME NEW u \in Threads, u # t PROVE ThreadShape(u)'
    BY <1>0, <2>1, OtherShape DEF ConvolutionShape, TypeOK
  <2>2. ThreadShape(t)'
    <3>1. at'[t] = "add" /\ held'[t] = <<kaccum>> /\ left'[t] = <<>>
      BY <1>0 DEF TypeOK, ConvolutionShape, ThreadShape
    <3>2. InLoop(t, "kernel", Len(Weights))'
      BY <1>0 DEF InLoop, Block, Team
    <3> QED BY <3>1, <3>2 DEF ThreadShape, TypeOK
  <2> QED BY <2>1, <2>2
<1>4. SumsAreReset'
  <2>1. \A u \in Threads : WillReset(u)' = WillReset(u)
    BY <1>0 DEF WillReset, TypeOK
  <2> QED BY <1>0, <2>1, TeamShape DEF SumsAreReset, ConvolutionShape, Team, TypeOK
<1>5. \A u \in Team' : AloneShape(u)'
  BY <1>0, <1>3, TeamShape DEF AloneShape, ThreadShape, InPixelLoop, PixelLoops, Team, TypeOK
<1>6. InexactShape' /\ KernelShape'
  BY <1>0 DEF InexactShape, ConvolutionShape, PixelLoops, KernelShape, Team
<1> QED BY <1>0, <1>1, <1>2, <1>3, <1>4, <1>5, <1>6 DEF ConvolutionShape

(* One more iteration of a thread that had one left. *)
LEMMA OneMoreDone ==
  ASSUME TypeOK, done \in [Threads -> Int], NEW t \in Team, done[t] < Block(t, Iterations(stage)),
         team' = team, stage' = stage, EndIteration(t)
  PROVE  /\ done' \in [Threads -> Int]
         /\ done'[t] = done[t] + 1
         /\ \A u \in Threads : (done[u] \in 0 .. Block(u, Iterations(stage)))'
<1>1. \A u \in Threads : Block(u, Iterations(stage)) \in Nat
  BY BlockNat, LoopLengths DEF TypeOK
<1>2. /\ t \in Threads /\ done'[t] = done[t] + 1 /\ done' \in [Threads -> Int]
      /\ \A u \in Threads : u # t => done'[u] = done[u]
  BY TeamShape DEF EndIteration, TypeOK
<1>3. \A u \in Threads : done'[u] \in 0 .. Block(u, Iterations(stage))
  <2>1. \A u \in Threads : done[u] \in 0 .. Block(u, Iterations(stage))
    BY DEF TypeOK
  <2>2. done'[t] \in 0 .. Block(t, Iterations(stage))
    BY <1>1, <1>2, <2>1
  <2> QED BY <1>2, <2>1, <2>2
<1> QED BY <1>2, <1>3 DEF Block

(* The second half of kaccum += ... keeps the invariant. *)
LEMMA AddCellShape ==
  ASSUME Inductive, NEW t \in Team, AddCell(t), UNCHANGED trackingVars
  PROVE  Inductive'
<1> USE DEF Inductive
<1>0. /\ t \in Threads /\ team' = team /\ stage' = stage /\ stage = "kernel"
      /\ at[t] = "add" /\ accum' = accum /\ left' = left
      /\ inexact' = inexact /\ alone' = alone
      /\ kaccum' = held[t][1] + Weights[Iteration(t, Len(Weights))]
      /\ held' = [held EXCEPT ![t] = <<>>]
      /\ at' = [at EXCEPT ![t] = "next"]
      /\ done[t] < Block(t, Len(Weights))
      /\ EndIteration(t)
  BY TeamShape DEF AddCell, TypeOK, InLoop
<1>a. /\ done' \in [Threads -> Int] /\ done'[t] = done[t] + 1
      /\ \A u \in Threads : (done[u] \in 0 .. Block(u, Iterations(stage)))'
      /\ \A u \in Threads : u # t => done'[u] = done[u]
  BY <1>0, OneMoreDone, LoopLengths DEF ConvolutionShape, EndIteration
<1>b. kaccum' \in Nat /\ kaccum' > 0
  <2>1. Len(held[t]) = 1 /\ held[t][1] >= 0 /\ held[t][1] \in Int
    BY <1>0 DEF ConvolutionShape, ThreadShape, TypeOK
  <2>2. Iteration(t, Len(Weights)) \in 1 .. Len(Weights)
    BY <1>0, IterationInBlock, LoopLengths DEF TypeOK, ConvolutionShape
  <2>3. Weights[Iteration(t, Len(Weights))] \in Nat /\ Weights[Iteration(t, Len(Weights))] > 0
    BY <2>2, LoopLengths
  <2> QED BY <1>0, <2>1, <2>3
<1>1. TypeOK'
  <2>1. /\ held' \in [Threads -> Seq(Int)]
        /\ at' \in [Threads -> {"next", "add", "reduce", "read", "reset"}]
    BY <1>0 DEF TypeOK
  <2> QED BY <1>0, <1>a, <1>b, <2>1 DEF TypeOK, trackingVars
<1>2. TrackingShape'
  BY <1>0, TrackingLeftAlone
<1>3. \A u \in Threads : ThreadShape(u)'
  <2>1. ASSUME NEW u \in Threads, u # t PROVE ThreadShape(u)'
    BY <1>0, <1>a, <2>1, OtherShape DEF ConvolutionShape, TypeOK
  <2>2. ThreadShape(t)'
    BY <1>0 DEF ThreadShape, TypeOK, ConvolutionShape
  <2> QED BY <2>1, <2>2
<1>4. SumsAreReset'
  <2>1. \A u \in Threads : WillReset(u)' = WillReset(u)
    BY <1>0 DEF WillReset, TypeOK
  <2> QED BY <1>0, <2>1, TeamShape DEF SumsAreReset, ConvolutionShape, Team, TypeOK
<1>5. \A u \in Team' : AloneShape(u)'
  BY <1>0, <1>3, TeamShape DEF AloneShape, ThreadShape, InPixelLoop, PixelLoops, Team, TypeOK
<1>6. InexactShape' /\ KernelShape'
  BY <1>0, <1>b DEF InexactShape, ConvolutionShape, PixelLoops, KernelShape, Team
<1> QED BY <1>0, <1>a, <1>1, <1>2, <1>3, <1>4, <1>5, <1>6 DEF ConvolutionShape

(* The reduction of a single variable keeps the invariant. *)
LEMMA ReduceShape ==
  ASSUME Inductive, NEW t \in Team, Reduce(t), UNCHANGED trackingVars
  PROVE  Inductive'
<1> USE DEF Inductive
<1>0. /\ t \in Threads /\ team' = team /\ stage' = stage /\ done' = done
      /\ stage = "blur" /\ stage \in PixelLoops /\ at[t] = "next" /\ kaccum' = kaccum
      /\ held' = held /\ inexact' = inexact
      /\ accum' = [accum EXCEPT !["blur_accum"] = @ + Sum("blur", Pixel(t), "blur_accum")]
      /\ left' = [left EXCEPT ![t] = Reads[stage]]
      /\ at' = [at EXCEPT ![t] = "read"]
      /\ alone' = [u \in Threads |-> IF u = t THEN Inside = {} ELSE alone[u] /\ u \notin Inside]
      /\ done[t] < Block(t, Pixels(stage))
      /\ InPixelLoop(t)
  BY TeamShape DEF Reduce, Enters, TypeOK, InLoop, loopVars, InPixelLoop, PixelLoops, Pixels
<1>a. Pixel(t) \in 1 .. Pixels(stage) /\ Pixel(t)' = Pixel(t)
  BY <1>0, IterationInBlock, LoopLengths DEF Pixel, Iteration, Before, TypeOK, ConvolutionShape
<1>b. \A a \in Accumulators : Sum(stage, Pixel(t), a) \in Int
  BY <1>0, <1>a, SumInt
<1>d. \A a \in Accumulators : accum'[a] = accum[a] + Sum(stage, Pixel(t), a)
  <2> SUFFICES ASSUME NEW a \in Accumulators
               PROVE accum'[a] = accum[a] + Sum(stage, Pixel(t), a)
    OBVIOUS
  <2>1. CASE a = "blur_accum"
    BY <1>0, <2>1 DEF TypeOK
  <2>2. CASE a # "blur_accum"
    BY <1>0, <2>2 DEF TypeOK, Sum
  <2> QED BY <2>1, <2>2
<1>c. Reads[stage] \in Seq(Accumulators)
  BY <1>0, ReadsAndResets
<1>1. TypeOK'
  <2>1. /\ left' \in [Threads -> Seq(Accumulators)]
        /\ at' \in [Threads -> {"next", "add", "reduce", "read", "reset"}]
    BY <1>0, <1>c DEF TypeOK
  <2>2. \A u \in Threads : (done[u] \in 0 .. Block(u, Iterations(stage)))'
    BY <1>0 DEF TypeOK, Block
  <2>3. accum' \in [Accumulators -> Int]
    <3>1. Sum("blur", Pixel(t), "blur_accum") \in Int /\ "blur_accum" \in Accumulators
      BY <1>0, <1>b DEF Accumulators
    <3>2. accum \in [Accumulators -> Int] /\ accum["blur_accum"] \in Int
      BY <3>1 DEF TypeOK
    <3>3. accum["blur_accum"] + Sum("blur", Pixel(t), "blur_accum") \in Int
      BY <3>1, <3>2
    <3> QED BY <1>0, <3>1, <3>2, <3>3
  <2>4. alone' \in [Threads -> BOOLEAN]
    BY <1>0 DEF TypeOK
  <2> QED BY <1>0, <2>1, <2>2, <2>3, <2>4 DEF TypeOK, trackingVars
<1>2. TrackingShape'
  BY <1>0, TrackingLeftAlone DEF PixelLoops
<1>3. \A u \in Threads : ThreadShape(u)'
  <2>1. ASSUME NEW u \in Threads, u # t PROVE ThreadShape(u)'
    BY <1>0, <2>1, OtherShape DEF ConvolutionShape, TypeOK
  <2>2. ThreadShape(t)'
    <3>1. at'[t] = "read" /\ held'[t] = <<>> /\ left'[t] = Reads[stage]
      BY <1>0 DEF TypeOK, ConvolutionShape, ThreadShape
    <3>2. InPixelLoop(t)'
      BY <1>0 DEF InPixelLoop, InLoop, Block, Team
    <3>3. Len(held'[t]) = 0 /\ Len(Reads[stage]) \in Nat
      BY <3>1, <1>c
    <3> QED BY <1>0, <3>1, <3>2, <3>3 DEF ThreadShape
  <2> QED BY <2>1, <2>2
<1>4. SumsAreReset'
  <2> SUFFICES ASSUME NEW a \in Accumulators, accum'[a] # 0
               PROVE \E u \in Team' : a \in WillReset(u)'
    BY DEF SumsAreReset
  <2>0. accum'[a] = accum[a] + Sum(stage, Pixel(t), a) /\ accum[a] \in Int
    BY <1>d DEF TypeOK
  <2>1. CASE accum[a] # 0
    <3>1. PICK u \in Team : a \in WillReset(u)
      BY <2>1 DEF ConvolutionShape, SumsAreReset
    <3>2. u # t
      BY <1>0, <3>1 DEF WillReset
    <3>3. WillReset(u)' = WillReset(u)
      BY <1>0, <3>2, TeamShape DEF WillReset, TypeOK
    <3> QED BY <1>0, <3>1, <3>3 DEF Team
  <2>2. CASE Sum(stage, Pixel(t), a) # 0
    <3>1. PICK i \in DOMAIN Resets[stage] : Resets[stage][i] = a
      BY <1>0, <2>2, ReadsAndResets
    <3>2. a \in WillReset(t)'
      BY <1>0, <3>1 DEF WillReset, TypeOK
    <3> QED BY <1>0, <3>2 DEF Team
  <2> QED BY <1>b, <2>0, <2>1, <2>2
<1>5. \A u \in Team' : AloneShape(u)'
  <2> SUFFICES ASSUME NEW u \in Team', at'[u] \in {"reduce", "read", "reset"}, alone'[u]
               PROVE AloneShape(u)'
    BY DEF AloneShape
  <2>0. u \in Team /\ u \in Threads
    BY <1>0, TeamShape DEF Team, TypeOK
  <2>1. Inside = {}
    BY <1>0, <2>0 DEF Inside, TypeOK
  <2>2. u = t
    BY <1>0, <2>0, <2>1 DEF Inside, TypeOK
  <2>3. Inside' = {t}
    BY <1>0, <2>1, TeamShape DEF Inside, TypeOK, Team
  <2>4. \A a \in Accumulators : accum[a] = 0
    <3>1. \A v \in Team : WillReset(v) = {}
      BY <2>1 DEF WillReset, Inside
    <3> QED BY <3>1 DEF ConvolutionShape, SumsAreReset
  <2>5. \A a \in Accumulators : accum'[a] = Sum(stage, Pixel(t), a)
    BY <1>b, <1>d, <2>4
  <2>6. at'[t] = "read" /\ held'[t] = <<>>
    BY <1>0 DEF TypeOK, ConvolutionShape, ThreadShape
  <2>7. \A p, a : Sum(stage, p, a)' = Sum(stage, p, a)
    BY <1>0 DEF Sum
  <2>8. \A a \in Accumulators : accum'[a] = Sum(stage, Pixel(t), a)'
    BY <1>0, <1>a, <2>5 DEF Sum
  <2>9. \A i \in 1 .. Len(held'[t]) : FALSE
    BY <2>6
  <2> QED BY <2>2, <2>3, <2>6, <2>8, <2>9 DEF AloneShape
<1>6. InexactShape'
  <2>1. \A v \in Team : \A k : Stored(v, k)' = Stored(v, k)
    BY <1>0, TeamShape DEF Stored, Before, TypeOK
  <2> QED BY <1>0, <2>1 DEF InexactShape, ConvolutionShape, Team
<1>7. KernelShape'
  BY <1>0 DEF ConvolutionShape, KernelShape, Team
<1> QED BY <1>0, <1>1, <1>2, <1>3, <1>4, <1>5, <1>6, <1>7 DEF ConvolutionShape

(* The lock of a reduction of two is a thread's entry: nothing is added yet. *)
LEMMA LockShape ==
  ASSUME Inductive, NEW t \in Team, Lock(t), UNCHANGED trackingVars
  PROVE  Inductive'
<1> USE DEF Inductive
<1>0. /\ t \in Threads /\ team' = team /\ stage' = stage /\ done' = done
      /\ stage = "sobel" /\ stage \in PixelLoops /\ at[t] = "next" /\ kaccum' = kaccum
      /\ accum' = accum /\ held' = held /\ inexact' = inexact
      /\ left' = [left EXCEPT ![t] = <<"gx", "gy">>]
      /\ at' = [at EXCEPT ![t] = "reduce"]
      /\ alone' = [u \in Threads |-> IF u = t THEN Inside = {} ELSE alone[u] /\ u \notin Inside]
      /\ InPixelLoop(t)
  BY TeamShape DEF Lock, Enters, TypeOK, InLoop, loopVars, InPixelLoop, PixelLoops, Pixels
<1>a. <<"gx", "gy">> \in Seq(Accumulators) /\ Len(<<"gx", "gy">>) = 2
  BY DEF Accumulators
<1>b. at'[t] = "reduce" /\ held'[t] = <<>> /\ left'[t] = <<"gx", "gy">>
  BY <1>0 DEF TypeOK, ConvolutionShape, ThreadShape
<1>1. TypeOK'
  <2>1. /\ left' \in [Threads -> Seq(Accumulators)]
        /\ at' \in [Threads -> {"next", "add", "reduce", "read", "reset"}]
    BY <1>0, <1>a DEF TypeOK
  <2>2. \A u \in Threads : (done[u] \in 0 .. Block(u, Iterations(stage)))'
    BY <1>0 DEF TypeOK, Block
  <2>3. alone' \in [Threads -> BOOLEAN]
    BY <1>0 DEF TypeOK
  <2> QED BY <1>0, <2>1, <2>2, <2>3 DEF TypeOK, trackingVars
<1>2. TrackingShape'
  BY <1>0, TrackingLeftAlone
<1>3. \A u \in Threads : ThreadShape(u)'
  <2>1. ASSUME NEW u \in Threads, u # t PROVE ThreadShape(u)'
    BY <1>0, <2>1, OtherShape DEF ConvolutionShape, TypeOK
  <2>2. ThreadShape(t)'
    <3>1. InPixelLoop(t)'
      BY <1>0 DEF InPixelLoop, InLoop, Block, Team
    <3>2. Len(held'[t]) = 0
      BY <1>b
    <3> QED BY <1>0, <1>b, <3>1, <3>2 DEF ThreadShape
  <2> QED BY <2>1, <2>2
<1>4. SumsAreReset'
  <2> SUFFICES ASSUME NEW a \in Accumulators, accum[a] # 0
               PROVE \E u \in Team' : a \in WillReset(u)'
    BY <1>0 DEF SumsAreReset
  <2>1. PICK u \in Team : a \in WillReset(u)
    BY DEF ConvolutionShape, SumsAreReset
  <2>2. u # t
    BY <1>0, <2>1 DEF WillReset
  <2>3. WillReset(u)' = WillReset(u)
    BY <1>0, <2>2, TeamShape DEF WillReset, TypeOK
  <2> QED BY <1>0, <2>1, <2>3 DEF Team
<1>5. \A u \in Team' : AloneShape(u)'
  <2> SUFFICES ASSUME NEW u \in Team', at'[u] \in {"reduce", "read", "reset"}, alone'[u]
               PROVE AloneShape(u)'
    BY DEF AloneShape
  <2>0. u \in Team /\ u \in Threads
    BY <1>0, TeamShape DEF Team, TypeOK
  <2>1. Inside = {}
    BY <1>0, <2>0 DEF Inside, TypeOK
  <2>2. u = t
    BY <1>0, <2>0, <2>1 DEF Inside, TypeOK
  <2>3. Inside' = {t}
    BY <1>0, <2>1, TeamShape DEF Inside, TypeOK, Team
  <2>4. \A a \in Accumulators : accum'[a] = 0
    <3>1. \A v \in Team : WillReset(v) = {}
      BY <2>1 DEF WillReset, Inside
    <3> QED BY <1>0, <3>1 DEF ConvolutionShape, SumsAreReset
  <2>5. Len(left'[t]) # 1
    BY <1>a, <1>b
  <2> QED BY <1>b, <2>2, <2>3, <2>4, <2>5 DEF AloneShape
<1>6. InexactShape'
  <2>1. \A v \in Team : \A k : Stored(v, k)' = Stored(v, k)
    BY <1>0, TeamShape DEF Stored, Before, TypeOK
  <2> QED BY <1>0, <2>1 DEF InexactShape, ConvolutionShape, Team
<1>7. KernelShape'
  BY <1>0 DEF ConvolutionShape, KernelShape, Team
<1> QED BY <1>0, <1>1, <1>2, <1>3, <1>4, <1>5, <1>6, <1>7 DEF ConvolutionShape

(* Under the lock a thread adds to gx, then to gy. *)
LEMMA UnderLock ==
  ASSUME Inductive, NEW t \in Team, at[t] = "reduce"
  PROVE  /\ t \in Threads /\ stage = "sobel" /\ stage \in PixelLoops /\ InPixelLoop(t)
         /\ \/ left[t] = <<"gx", "gy">> /\ Head(left[t]) = "gx" /\ Len(left[t]) = 2
               /\ Tail(left[t]) = <<"gy">>
            \/ left[t] = <<"gy">> /\ Head(left[t]) = "gy" /\ Len(left[t]) = 1
         /\ Len(left[t]) > 1 =>
              Head(left[t]) = "gx" /\ Len(left[t]) = 2 /\ Tail(left[t]) = <<"gy">>
         /\ ~ (Len(left[t]) > 1) => Head(left[t]) = "gy" /\ Len(left[t]) = 1
         /\ Len(<<"gy">>) = 1
         /\ held[t] \in Seq(Int) /\ Len(held[t]) \in 0 .. 1
         /\ Head(left[t]) \in Accumulators
<1>1. t \in Threads /\ ThreadShape(t) /\ held[t] \in Seq(Int)
  BY TeamShape DEF Inductive, TypeOK, ConvolutionShape
<1>2. /\ stage = "sobel" /\ InPixelLoop(t) /\ Len(held[t]) \in 0 .. 1
      /\ left[t] \in {<<"gx", "gy">>, <<"gy">>}
  BY <1>1 DEF ThreadShape
<1>3. /\ Head(<<"gx", "gy">>) = "gx" /\ Len(<<"gx", "gy">>) = 2 /\ Tail(<<"gx", "gy">>) = <<"gy">>
      /\ Head(<<"gy">>) = "gy" /\ Len(<<"gy">>) = 1 /\ ~ (1 > 1) /\ 2 > 1
  OBVIOUS
<1>4. stage \in PixelLoops /\ "gx" \in Accumulators /\ "gy" \in Accumulators
  BY <1>2 DEF PixelLoops, Accumulators
<1>5. CASE left[t] = <<"gx", "gy">>
  BY <1>1, <1>2, <1>3, <1>4, <1>5, Zenon
<1>6. CASE left[t] = <<"gy">>
  BY <1>1, <1>2, <1>3, <1>4, <1>6, Zenon
<1> QED BY <1>2, <1>5, <1>6, Zenon

(* The load of a sum under the lock keeps the invariant. *)
LEMMA LoadSumShape ==
  ASSUME Inductive, NEW t \in Team, LoadSum(t), UNCHANGED trackingVars
  PROVE  Inductive'
<1> USE DEF Inductive
<1>0. /\ t \in Threads /\ team' = team /\ stage' = stage /\ done' = done
      /\ at[t] = "reduce" /\ kaccum' = kaccum /\ inexact' = inexact
      /\ accum' = accum /\ at' = at /\ alone' = alone /\ left' = left
      /\ held' = [held EXCEPT ![t] = <<accum[Head(left[t])]>>]
  BY TeamShape DEF LoadSum, TypeOK, loopVars
<1>a. /\ stage = "sobel" /\ stage \in PixelLoops /\ InPixelLoop(t)
      /\ \/ left[t] = <<"gx", "gy">> /\ Head(left[t]) = "gx" /\ Len(left[t]) = 2
         \/ left[t] = <<"gy">> /\ Head(left[t]) = "gy" /\ Len(left[t]) = 1
      /\ Head(left[t]) \in Accumulators
  BY <1>0, UnderLock
<1>b. /\ held'[t] = <<accum[Head(left[t])]>> /\ accum[Head(left[t])] \in Int
      /\ Len(held'[t]) = 1
  BY <1>0, <1>a DEF TypeOK
<1>1. TypeOK'
  <2>1. held' \in [Threads -> Seq(Int)]
    BY <1>0, <1>b DEF TypeOK
  <2>2. \A u \in Threads : (done[u] \in 0 .. Block(u, Iterations(stage)))'
    BY <1>0 DEF TypeOK, Block
  <2> QED BY <1>0, <2>1, <2>2 DEF TypeOK, trackingVars
<1>2. TrackingShape'
  BY <1>0, <1>a, TrackingLeftAlone
<1>3. \A u \in Threads : ThreadShape(u)'
  <2>1. ASSUME NEW u \in Threads, u # t PROVE ThreadShape(u)'
    BY <1>0, <2>1, OtherShape DEF ConvolutionShape, TypeOK
  <2>2. ThreadShape(t)'
    <3>1. InPixelLoop(t)'
      BY <1>0, <1>a DEF InPixelLoop, InLoop, Block, Team
    <3>2. at'[t] = "reduce" /\ stage' = "sobel" /\ Len(held'[t]) \in 0 .. 1
      BY <1>0, <1>a, <1>b
    <3>3. left'[t] \in {<<"gx", "gy">>, <<"gy">>}
      BY <1>0, <1>a
    <3> QED BY <3>1, <3>2, <3>3, Zenon DEF ThreadShape
  <2> QED BY <2>1, <2>2
<1>4. SumsAreReset'
  <2>1. \A u \in Threads : WillReset(u)' = WillReset(u)
    BY <1>0 DEF WillReset, TypeOK
  <2> QED BY <1>0, <2>1, TeamShape DEF SumsAreReset, ConvolutionShape, Team, TypeOK
<1>5. \A u \in Team' : AloneShape(u)'
  <2> SUFFICES ASSUME NEW u \in Team', at'[u] \in {"reduce", "read", "reset"}, alone'[u]
               PROVE AloneShape(u)'
    BY DEF AloneShape
  <2>0. u \in Team /\ at[u] \in {"reduce", "read", "reset"} /\ alone[u]
    BY <1>0 DEF Team
  <2>1. /\ Inside = {u}
        /\ at[u] = "reduce" =>
             \A a \in Accumulators : accum[a] =
               IF a = "gx" /\ Len(left[u]) = 1 THEN Sum(stage, Pixel(u), a) ELSE 0
    BY <2>0 DEF ConvolutionShape, AloneShape
  <2>2. u = t /\ Inside' = {t}
    BY <1>0, <2>1 DEF Inside, Team
  <2>3. \A a : Sum(stage, Pixel(t), a)' = Sum(stage, Pixel(t), a)
    BY <1>0 DEF Sum, Pixel, Iteration, Before
  <2>4. accum[Head(left[t])] = 0
    BY <1>0, <1>a, <2>1, <2>2
  <2>5. held'[t][1] = 0
    BY <1>b, <2>4
  <2>6. \A a \in Accumulators : accum'[a] =
          IF a = "gx" /\ Len(left'[t]) = 1 THEN Sum(stage, Pixel(t), a)' ELSE 0
    BY <1>0, <2>1, <2>2, <2>3
  <2> QED BY <1>0, <2>2, <2>5, <2>6 DEF AloneShape
<1>6. InexactShape'
  <2>1. \A v \in Team : \A k : Stored(v, k)' = Stored(v, k)
    BY <1>0 DEF Stored, Before
  <2> QED BY <1>0, <2>1 DEF InexactShape, ConvolutionShape, Team
<1>7. KernelShape'
  BY <1>0 DEF ConvolutionShape, KernelShape, Team
<1> QED BY <1>0, <1>1, <1>2, <1>3, <1>4, <1>5, <1>6, <1>7 DEF ConvolutionShape

(* The store of a sum under the lock keeps the invariant: whatever resets it *)
(* loses, the thread itself will reset gx and gy.                            *)
LEMMA AddSumShape ==
  ASSUME Inductive, NEW t \in Team, AddSum(t), UNCHANGED trackingVars
  PROVE  Inductive'
<1> USE DEF Inductive
<1> DEFINE h == Head(left[t])
<1>0. /\ t \in Threads /\ team' = team /\ stage' = stage /\ done' = done
      /\ at[t] = "reduce" /\ held[t] # <<>> /\ kaccum' = kaccum /\ inexact' = inexact
      /\ alone' = alone
      /\ accum' = [accum EXCEPT ![h] = held[t][1] + Sum("sobel", Pixel(t), h)]
      /\ held' = [held EXCEPT ![t] = <<>>]
      /\ \/ /\ Len(left[t]) > 1 /\ at' = at
            /\ left' = [left EXCEPT ![t] = Tail(left[t])]
         \/ /\ ~ (Len(left[t]) > 1)
            /\ left' = [left EXCEPT ![t] = Reads["sobel"]]
            /\ at' = [at EXCEPT ![t] = "read"]
  BY TeamShape DEF AddSum, TypeOK, loopVars
<1>a. /\ stage = "sobel" /\ stage \in PixelLoops /\ InPixelLoop(t)
      /\ \/ left[t] = <<"gx", "gy">> /\ h = "gx" /\ Len(left[t]) = 2 /\ Tail(left[t]) = <<"gy">>
         \/ left[t] = <<"gy">> /\ h = "gy" /\ Len(left[t]) = 1
      /\ Len(left[t]) > 1 => h = "gx" /\ Len(left[t]) = 2 /\ Tail(left[t]) = <<"gy">>
      /\ ~ (Len(left[t]) > 1) => h = "gy" /\ Len(left[t]) = 1
      /\ Len(<<"gy">>) = 1
      /\ held[t] \in Seq(Int) /\ Len(held[t]) \in 0 .. 1
      /\ h \in Accumulators
  BY <1>0, UnderLock, Zenon
<1> HIDE DEF h
<1>b. held[t][1] \in Int
  <2>1. Len(held[t]) > 0
    BY <1>0, <1>a, NotEmpty
  <2> QED BY <1>a, <2>1
<1>c. Pixel(t) \in 1 .. Pixels(stage) /\ Pixel(t)' = Pixel(t)
  <2>1. team \in 1 .. MaxTeam /\ Pixels(stage) \in Nat
    BY <1>a, LoopLengths DEF TypeOK
  <2>2. done[t] \in Nat /\ done[t] < Block(t, Pixels(stage))
    BY <1>0, <1>a DEF TypeOK, ConvolutionShape, InPixelLoop, InLoop
  <2>3. Pixel(t) \in 1 .. Pixels(stage)
    BY <2>1, <2>2, IterationInBlock DEF Pixel
  <2>4. Pixel(t)' = Pixel(t)
    BY <1>0 DEF Pixel, Iteration, Before
  <2> QED BY <2>3, <2>4
<1>d. \A a \in Accumulators : Sum(stage, Pixel(t), a) \in Int
  BY <1>a, <1>c, SumInt
<1>e. /\ accum' \in [Accumulators -> Int]
      /\ accum'[h] = held[t][1] + Sum(stage, Pixel(t), h)
      /\ \A a \in Accumulators : a # h => accum'[a] = accum[a]
  BY <1>0, <1>a, <1>b, <1>d DEF TypeOK
<1>f. Reads["sobel"] \in Seq(Accumulators) /\ <<"gy">> \in Seq(Accumulators)
  BY ReadsAndResets DEF PixelLoops, Accumulators
<1>g. /\ \A u \in Threads : u # t => at'[u] = at[u] /\ left'[u] = left[u] /\ held'[u] = held[u]
      /\ held'[t] = <<>> /\ Len(held'[t]) = 0
      /\ \/ h = "gx" /\ Len(left[t]) = 2 /\ at'[t] = "reduce" /\ left'[t] = <<"gy">>
         \/ h = "gy" /\ Len(left[t]) = 1 /\ at'[t] = "read" /\ left'[t] = Reads["sobel"]
  <2>0. /\ at \in [Threads -> {"next", "add", "reduce", "read", "reset"}]
        /\ left \in [Threads -> Seq(Accumulators)] /\ held \in [Threads -> Seq(Int)]
    BY DEF TypeOK
  <2>1. /\ \A u \in Threads : u # t => at'[u] = at[u] /\ left'[u] = left[u] /\ held'[u] = held[u]
        /\ held'[t] = <<>> /\ Len(<<>>) = 0
    BY <1>0, <2>0
  <2>2. CASE Len(left[t]) > 1
    <3>1. at' = at /\ left'[t] = Tail(left[t])
      BY <1>0, <2>0, <2>2
    <3>2. h = "gx" /\ Len(left[t]) = 2 /\ Tail(left[t]) = <<"gy">>
      BY <1>a, <2>2, Zenon
    <3> QED BY <1>0, <2>1, <3>1, <3>2, Zenon
  <2>3. CASE ~ (Len(left[t]) > 1)
    <3>1. at'[t] = "read" /\ left'[t] = Reads["sobel"]
      BY <1>0, <2>0, <2>3
    <3>2. h = "gy" /\ Len(left[t]) = 1
      BY <1>a, <2>3, Zenon
    <3> QED BY <2>1, <3>1, <3>2, Zenon
  <2> QED BY <2>2, <2>3
<1>1. TypeOK'
  <2>1. /\ left' \in [Threads -> Seq(Accumulators)] /\ held' \in [Threads -> Seq(Int)]
        /\ at' \in [Threads -> {"next", "add", "reduce", "read", "reset"}]
    <3>1. Tail(left[t]) \in Seq(Accumulators) \/ ~ (Len(left[t]) > 1)
      BY <1>a, <1>f, Zenon
    <3>2. left' \in [Threads -> Seq(Accumulators)]
      BY <1>0, <1>f, <3>1 DEF TypeOK
    <3>3. <<>> \in Seq(Int)
      OBVIOUS
    <3>4. held' \in [Threads -> Seq(Int)]
      BY <1>0, <3>3 DEF TypeOK
    <3>5. at' \in [Threads -> {"next", "add", "reduce", "read", "reset"}]
      BY <1>0 DEF TypeOK
    <3> QED BY <3>2, <3>4, <3>5
  <2>2. \A u \in Threads : (done[u] \in 0 .. Block(u, Iterations(stage)))'
    BY <1>0 DEF TypeOK, Block
  <2> QED BY <1>0, <1>e, <2>1, <2>2 DEF TypeOK, trackingVars
<1>2. TrackingShape'
  BY <1>0, <1>a, TrackingLeftAlone
<1>3. \A u \in Threads : ThreadShape(u)'
  <2>1. ASSUME NEW u \in Threads, u # t PROVE ThreadShape(u)'
    BY <1>0, <1>g, <2>1, OtherShape DEF ConvolutionShape
  <2>2. ThreadShape(t)'
    <3>1. InPixelLoop(t)'
      BY <1>0, <1>a DEF InPixelLoop, InLoop, Block, Team
    <3>2. CASE at'[t] = "reduce"
      BY <1>0, <1>a, <1>g, <3>1, <3>2 DEF ThreadShape
    <3>3. CASE at'[t] = "read"
      <4>1. left'[t] = Reads["sobel"] /\ Len(Reads["sobel"]) \in Nat
        BY <1>f, <1>g, <3>3
      <4> DEFINE r == Reads["sobel"]
      <4>2. left'[t] = r /\ Len(held'[t]) = 0 /\ stage' = "sobel"
        BY <1>0, <1>a, <1>g, <4>1
      <4>3. Len(held'[t]) + Len(left'[t]) = Len(r)
        BY <4>1, <4>2
      <4>4. \A i \in 1 .. Len(left'[t]) : left'[t][i] = r[Len(held'[t]) + i]
        <5> SUFFICES ASSUME NEW i \in 1 .. Len(r)
                     PROVE left'[t][i] = r[Len(held'[t]) + i]
          BY <4>2
        <5>1. 0 + i = i
          BY <4>1
        <5> QED BY <4>2, <5>1, Zenon
      <4> QED BY <3>1, <3>3, <4>2, <4>3, <4>4, Zenon DEF ThreadShape
    <3> QED BY <1>g, <3>2, <3>3
  <2> QED BY <2>1, <2>2
<1>4. SumsAreReset'
  <2>0. WillReset(t)' = WillReset(t)
    BY <1>0, <1>g DEF WillReset
  <2>1. \A u \in Team : WillReset(u)' = WillReset(u)
    <3>1. ASSUME NEW u \in Team, u # t PROVE WillReset(u)' = WillReset(u)
      <4>1. at'[u] = at[u] /\ left'[u] = left[u] /\ stage' = stage
        BY <1>0, <1>g, <3>1, TeamShape DEF TypeOK
      <4> QED BY <4>1, Zenon DEF WillReset
    <3> QED BY <2>0, <3>1
  <2> SUFFICES ASSUME NEW a \in Accumulators, accum'[a] # 0
               PROVE \E u \in Team : a \in WillReset(u)
    BY <1>0, <2>1 DEF SumsAreReset, Team
  <2>2. CASE a = h
    <3>1. a \in {Resets["sobel"][i] : i \in DOMAIN Resets["sobel"]}
      <4>1. a = "gx" \/ a = "gy"
        BY <1>a, <2>2
      <4>2. Resets["sobel"] = <<"gx", "gy">>
        BY DEF Resets
      <4>3. 1 \in DOMAIN Resets["sobel"] /\ 2 \in DOMAIN Resets["sobel"]
        BY <4>2
      <4> QED BY <4>1, <4>2, <4>3
    <3> QED BY <1>0, <1>a, <3>1 DEF WillReset
  <2>3. CASE a # h
    BY <1>e, <2>3 DEF ConvolutionShape, SumsAreReset
  <2> QED BY <2>2, <2>3
<1>5. \A u \in Team' : AloneShape(u)'
  <2> SUFFICES ASSUME NEW u \in Team', at'[u] \in {"reduce", "read", "reset"}, alone'[u]
               PROVE AloneShape(u)'
    BY DEF AloneShape
  <2>0. u \in Team /\ u \in Threads /\ at[u] \in {"reduce", "read", "reset"} /\ alone[u]
    BY <1>0, <1>g, TeamShape DEF Team, TypeOK
  <2>1. /\ Inside = {u}
        /\ at[u] = "reduce" =>
             /\ \A a \in Accumulators : accum[a] =
                  IF a = "gx" /\ Len(left[u]) = 1 THEN Sum(stage, Pixel(u), a) ELSE 0
             /\ held[u] # <<>> => held[u][1] = 0
    BY <2>0 DEF ConvolutionShape, AloneShape
  <2>2. u = t
    BY <1>0, <2>1 DEF Inside
  <2>3. Inside' = {t}
    <3>1. t \in Inside'
      BY <1>0, <1>g DEF Inside, Team
    <3>2. \A v \in Team : v # t => at'[v] = at[v]
      BY <1>g, TeamShape DEF TypeOK
    <3> QED BY <1>0, <2>1, <2>2, <3>1, <3>2 DEF Inside, Team
  <2>4. \A a : Sum(stage, Pixel(t), a)' = Sum(stage, Pixel(t), a)
    BY <1>0 DEF Sum, Pixel, Iteration, Before
  <2>5. accum'[h] = Sum(stage, Pixel(t), h)
    BY <1>0, <1>a, <1>d, <1>e, <2>1, <2>2
  <2>6. CASE at'[t] = "reduce"
    <3>1. h = "gx" /\ Len(left[t]) = 2 /\ left'[t] = <<"gy">> /\ Len(left'[t]) = 1
      BY <1>a, <1>g, <2>6
    <3>2. \A a \in Accumulators : accum'[a] =
            IF a = "gx" /\ Len(left'[t]) = 1 THEN Sum(stage, Pixel(t), a) ELSE 0
      BY <1>0, <1>e, <2>1, <2>2, <2>5, <3>1
    <3>3. \A a \in Accumulators : accum'[a] =
            IF a = "gx" /\ Len(left'[t]) = 1 THEN Sum(stage, Pixel(t), a)' ELSE 0
      BY <2>4, <3>2
    <3> QED BY <1>g, <2>2, <2>3, <2>6, <3>3 DEF AloneShape
  <2>7. CASE at'[t] = "read"
    <3>1. h = "gy" /\ Len(left[t]) = 1
      BY <1>g, <2>7
    <3>2. accum'["gx"] = Sum(stage, Pixel(t), "gx") /\ accum'["blur_accum"] = 0
      BY <1>0, <1>e, <2>1, <2>2, <3>1 DEF Accumulators
    <3>3. Sum(stage, Pixel(t), "blur_accum") = 0
      BY <1>a DEF Sum
    <3>4. \A a \in Accumulators : accum'[a] = Sum(stage, Pixel(t), a)'
      BY <2>4, <2>5, <3>1, <3>2, <3>3 DEF Accumulators
    <3>5. \A i \in 1 .. Len(held'[t]) : FALSE
      BY <1>g
    <3> QED BY <2>2, <2>3, <2>7, <3>4, <3>5 DEF AloneShape
  <2> QED BY <1>g, <2>6, <2>7
<1>6. InexactShape'
  <2>1. \A v \in Team : (at'[v] = "reset") = (at[v] = "reset")
    BY <1>0, <1>g, TeamShape DEF TypeOK
  <2>2. \A v \in Team : \A k : Stored(v, k)' = Stored(v, k)
    BY <1>0, <2>1 DEF Stored, Before
  <2> QED BY <1>0, <2>2 DEF InexactShape, ConvolutionShape, Team
<1>7. KernelShape'
  BY <1>0 DEF ConvolutionShape, KernelShape, Team
<1> QED BY <1>0, <1>1, <1>2, <1>3, <1>4, <1>5, <1>6, <1>7 DEF ConvolutionShape

(* A read of a sum keeps the invariant. *)
LEMMA ReadSumShape ==
  ASSUME Inductive, NEW t \in Team, ReadSum(t), UNCHANGED trackingVars
  PROVE  Inductive'
<1> USE DEF Inductive
<1>0. /\ t \in Threads /\ team' = team /\ stage' = stage /\ done' = done
      /\ at[t] = "read" /\ left[t] # <<>> /\ kaccum' = kaccum /\ inexact' = inexact
      /\ accum' = accum /\ at' = at /\ alone' = alone
      /\ held' = [held EXCEPT ![t] = Append(held[t], accum[Head(left[t])])]
      /\ left' = [left EXCEPT ![t] = Tail(left[t])]
  BY TeamShape DEF ReadSum, TypeOK, loopVars
<1>a. /\ stage \in PixelLoops /\ InPixelLoop(t)
      /\ left[t] \in Seq(Accumulators) /\ held[t] \in Seq(Int)
      /\ Len(held[t]) + Len(left[t]) = Len(Reads[stage])
      /\ \A i \in 1 .. Len(left[t]) : left[t][i] = Reads[stage][Len(held[t]) + i]
  BY <1>0 DEF ConvolutionShape, ThreadShape, InPixelLoop, TypeOK
<1>b. Head(left[t]) \in Accumulators /\ Head(left[t]) = Reads[stage][Len(held[t]) + 1]
  BY <1>0, <1>a
<1>c. /\ held'[t] = Append(held[t], accum[Head(left[t])])
      /\ left'[t] = Tail(left[t])
      /\ accum[Head(left[t])] \in Int
  BY <1>0, <1>b DEF TypeOK
<1>1. TypeOK'
  <2>1. left' \in [Threads -> Seq(Accumulators)] /\ held' \in [Threads -> Seq(Int)]
    BY <1>0, <1>a, <1>c DEF TypeOK
  <2>2. \A u \in Threads : (done[u] \in 0 .. Block(u, Iterations(stage)))'
    BY <1>0 DEF TypeOK, Block
  <2> QED BY <1>0, <2>1, <2>2 DEF TypeOK, trackingVars
<1>2. TrackingShape'
  BY <1>0, <1>a, TrackingLeftAlone DEF PixelLoops
<1>3. \A u \in Threads : ThreadShape(u)'
  <2>1. ASSUME NEW u \in Threads, u # t PROVE ThreadShape(u)'
    BY <1>0, <2>1, OtherShape DEF ConvolutionShape, TypeOK
  <2>2. ThreadShape(t)'
    <3>1. InPixelLoop(t)'
      BY <1>0, <1>a DEF InPixelLoop, InLoop, Block, Team
    <3>2. Len(held'[t]) = Len(held[t]) + 1 /\ Len(left'[t]) = Len(left[t]) - 1
      <4>1. Len(left'[t]) = Len(left[t]) - 1
        BY <1>0, <1>a, <1>c, TailOf
      <4>2. Len(Append(held[t], accum[Head(left[t])])) = Len(held[t]) + 1
        BY <1>a, <1>c, AppendOf
      <4> QED BY <1>c, <4>1, <4>2
    <3>3. \A i \in 1 .. Len(left[t]) - 1 : left'[t][i] = left[t][i + 1]
      BY <1>0, <1>a, <1>c, TailOf, ZenonT(40)
    <3>a. Len(held[t]) \in Nat /\ Len(left[t]) \in Nat
      BY <1>a
    <3> DEFINE h == Len(held[t])  l == Len(left[t])
    <3>b. /\ h \in Nat /\ l \in Nat /\ Len(held'[t]) = h + 1 /\ Len(left'[t]) = l - 1
          /\ \A i \in 1 .. l : left[t][i] = Reads[stage][h + i]
          /\ \A i \in 1 .. l - 1 : left'[t][i] = left[t][i + 1]
          /\ h + l = Len(Reads[stage])
      BY <1>a, <3>2, <3>3, <3>a
    <3> HIDE DEF h, l
    <3>4. ASSUME NEW i \in 1 .. Len(left'[t])
          PROVE left'[t][i] = Reads[stage][Len(held'[t]) + i]
      <4>1. i \in 1 .. l - 1 /\ i + 1 \in 1 .. l /\ h + (i + 1) = (h + 1) + i
        BY <3>b
      <4>2. left'[t][i] = left[t][i + 1] /\ left[t][i + 1] = Reads[stage][h + (i + 1)]
        BY <3>b, <4>1
      <4> QED BY <3>b, <4>1, <4>2
    <3>5. Len(held'[t]) + Len(left'[t]) = Len(Reads[stage])
      <4>2. (h + 1) + (l - 1) = h + l
        BY <3>b
      <4> QED BY <3>b, <4>2, Zenon
    <3> QED BY <1>0, <3>1, <3>4, <3>5 DEF ThreadShape
  <2> QED BY <2>1, <2>2
<1>4. SumsAreReset'
  <2>1. \A u \in Threads : WillReset(u)' = WillReset(u)
    BY <1>0 DEF WillReset, TypeOK
  <2> QED BY <1>0, <2>1, TeamShape DEF SumsAreReset, ConvolutionShape, Team, TypeOK
<1>5. \A u \in Team' : AloneShape(u)'
  <2> SUFFICES ASSUME NEW u \in Team', at'[u] \in {"reduce", "read", "reset"}, alone'[u]
               PROVE AloneShape(u)'
    BY DEF AloneShape
  <2>0. u \in Team /\ at[u] \in {"reduce", "read", "reset"} /\ alone[u]
    BY <1>0 DEF Team
  <2>1. /\ Inside = {u}
        /\ at[u] = "read" =>
             /\ \A a \in Accumulators : accum[a] = Sum(stage, Pixel(u), a)
             /\ \A i \in 1 .. Len(held[u]) : held[u][i] = Sum(stage, Pixel(u), Reads[stage][i])
    BY <2>0 DEF ConvolutionShape, AloneShape
  <2>2. u = t /\ Inside' = {t}
    BY <1>0, <2>1 DEF Inside, Team
  <2>3. \A a : Sum(stage, Pixel(t), a)' = Sum(stage, Pixel(t), a)
    BY <1>0 DEF Sum, Pixel, Iteration, Before
  <2>4. ASSUME NEW i \in 1 .. Len(held'[t])
        PROVE held'[t][i] = Sum(stage, Pixel(t), Reads[stage][i])
    <3>1. CASE i = Len(held[t]) + 1
      <4>1. held'[t][i] = accum[Head(left[t])]
        BY <1>a, <1>c, <3>1
      <4> QED BY <4>1, <3>1, <1>0, <1>b, <2>1, <2>2
    <3>2. CASE i # Len(held[t]) + 1
      <4>1. i \in 1 .. Len(held[t]) /\ held'[t][i] = held[t][i]
        BY <1>a, <1>c, <3>2
      <4> QED BY <4>1, <1>0, <2>1, <2>2
    <3> QED BY <3>1, <3>2
  <2>5. \A i \in 1 .. Len(held'[t]) : held'[t][i] = Sum(stage, Pixel(t), Reads[stage][i])'
    BY <1>0, <2>3, <2>4
  <2>6. \A a \in Accumulators : accum'[a] = Sum(stage, Pixel(t), a)'
    BY <1>0, <2>1, <2>2, <2>3
  <2> QED BY <1>0, <2>2, <2>5, <2>6 DEF AloneShape
<1>6. InexactShape'
  <2>1. \A v \in Team : \A k : Stored(v, k)' = Stored(v, k)
    BY <1>0 DEF Stored, Before
  <2> QED BY <1>0, <2>1 DEF InexactShape, ConvolutionShape, Team
<1>7. KernelShape'
  BY <1>0 DEF ConvolutionShape, KernelShape, Team
<1> QED BY <1>0, <1>1, <1>2, <1>3, <1>4, <1>5, <1>6, <1>7 DEF ConvolutionShape

(* A thread that has met no other has read what its pixel adds up to. *)
LEMMA HeldIsExact ==
  ASSUME Inductive, NEW t \in Team, at[t] = "read", left[t] = <<>>, alone[t]
  PROVE  held[t] = Exact(stage, Pixel(t))
<1>1. Len(left[t]) = 0 /\ held[t] \in Seq(Int) /\ Len(held[t]) \in Nat
  BY TeamShape DEF Inductive, TypeOK
<1>2. InPixelLoop(t) /\ Len(held[t]) + Len(left[t]) = Len(Reads[stage])
  BY TeamShape DEF Inductive, TypeOK, ConvolutionShape, ThreadShape
<1>3. stage \in PixelLoops /\ Len(held[t]) = Len(Reads[stage])
  BY <1>1, <1>2 DEF InPixelLoop
<1>4. \A i \in 1 .. Len(held[t]) : held[t][i] = Sum(stage, Pixel(t), Reads[stage][i])
  BY DEF Inductive, ConvolutionShape, AloneShape
<1>5. DOMAIN Reads[stage] = 1 .. Len(held[t]) /\ DOMAIN held[t] = 1 .. Len(held[t])
  BY <1>1, <1>3, ReadsAndResets
<1>6. \A i \in 1 .. Len(held[t]) : held[t][i] = Exact(stage, Pixel(t))[i]
  BY <1>4, <1>5 DEF Exact
<1>7. held[t] = [i \in 1 .. Len(held[t]) |-> held[t][i]]
  BY <1>1
<1> QED BY <1>5, <1>6, <1>7 DEF Exact

(* The store of a pixel keeps the invariant. *)
LEMMA StorePixelShape ==
  ASSUME Inductive, NEW t \in Team, StorePixel(t), UNCHANGED trackingVars
  PROVE  Inductive'
<1> USE DEF Inductive
<1>0. /\ t \in Threads /\ team' = team /\ stage' = stage /\ done' = done
      /\ at[t] = "read" /\ left[t] = <<>> /\ kaccum' = kaccum
      /\ accum' = accum /\ alone' = alone
      /\ inexact' = IF held[t] = Exact(stage, Pixel(t)) THEN inexact
                    ELSE inexact \union {<<stage, Pixel(t)>>}
      /\ held' = [held EXCEPT ![t] = <<>>]
      /\ left' = [left EXCEPT ![t] = Resets[stage]]
      /\ at' = [at EXCEPT ![t] = "reset"]
  BY TeamShape DEF StorePixel, TypeOK, loopVars
<1>a. /\ stage \in PixelLoops /\ InPixelLoop(t) /\ held[t] \in Seq(Int)
      /\ done[t] \in Nat /\ done[t] < Block(t, Pixels(stage))
      /\ Len(held[t]) = Len(Reads[stage])
  <2>1. Len(left[t]) = 0 /\ Len(held[t]) \in Nat
    BY <1>0 DEF TypeOK
  <2>2. InPixelLoop(t) /\ Len(held[t]) + Len(left[t]) = Len(Reads[stage])
    BY <1>0 DEF ConvolutionShape, ThreadShape
  <2> QED BY <2>1, <2>2, <1>0 DEF InPixelLoop, InLoop, TypeOK
<1>b. Resets[stage] \in Seq(Accumulators) /\ Resets[stage] # <<>>
  BY <1>a, ReadsAndResets
<1>c. Pixel(t) = Before(t, Pixels(stage)) + done[t] + 1
  BY DEF Pixel, Iteration
<1>d. /\ Pixel(t) \in Nat /\ Before(t, Pixels(stage)) \in Nat
      /\ Before(t, Pixels(stage)) < Pixel(t)
      /\ Pixel(t) <= Before(t, Pixels(stage)) + Block(t, Pixels(stage))
  <2>1. Pixels(stage) \in Nat /\ team \in 1 .. MaxTeam
    BY <1>a, LoopLengths DEF TypeOK
  <2>2. Before(t, Pixels(stage)) \in Nat
    BY <1>0, <2>1, BlockNat
  <2> QED BY <1>a, <2>1, <2>2, IterationInBlock DEF Pixel
<1>1. TypeOK'
  <2>1. left' \in [Threads -> Seq(Accumulators)] /\ held' \in [Threads -> Seq(Int)]
    BY <1>0, <1>b DEF TypeOK
  <2>2. \A u \in Threads : (done[u] \in 0 .. Block(u, Iterations(stage)))'
    BY <1>0 DEF TypeOK, Block
  <2>3. at' \in [Threads -> {"next", "add", "reduce", "read", "reset"}]
    BY <1>0 DEF TypeOK
  <2>4. inexact' \subseteq PixelLoops \X Nat
    BY <1>0, <1>a, <1>d DEF TypeOK
  <2> QED BY <1>0, <2>1, <2>2, <2>3, <2>4 DEF TypeOK, trackingVars
<1>2. TrackingShape'
  BY <1>0, <1>a, TrackingLeftAlone DEF PixelLoops
<1>3. \A u \in Threads : ThreadShape(u)'
  <2>1. ASSUME NEW u \in Threads, u # t PROVE ThreadShape(u)'
    BY <1>0, <2>1, OtherShape DEF ConvolutionShape, TypeOK
  <2>2. ThreadShape(t)'
    <3>1. InPixelLoop(t)'
      BY <1>0, <1>a DEF InPixelLoop, InLoop, Block, Team
    <3>2. held'[t] = <<>> /\ left'[t] = Resets[stage] /\ at'[t] = "reset"
      BY <1>0 DEF TypeOK
    <3> QED BY <1>b, <3>1, <3>2 DEF ThreadShape
  <2> QED BY <2>1, <2>2
<1>4. SumsAreReset'
  <2>1. \A u \in Threads : u # t => WillReset(u)' = WillReset(u)
    BY <1>0 DEF WillReset, TypeOK
  <2>2. left'[t] = Resets[stage] /\ at'[t] = "reset"
    BY <1>0 DEF TypeOK
  <2>3. WillReset(t)' = WillReset(t)
    <3>1. WillReset(t) = {Resets[stage][i] : i \in DOMAIN Resets[stage]}
      BY <1>0 DEF WillReset
    <3>2. WillReset(t)' = {left'[t][i] : i \in DOMAIN left'[t]}
      BY <2>2 DEF WillReset
    <3> QED BY <2>2, <3>1, <3>2
  <2>4. \A u \in Threads : WillReset(u)' = WillReset(u)
    BY <2>1, <2>3, Zenon
  <2> QED BY <1>0, <2>4, TeamShape DEF SumsAreReset, ConvolutionShape, Team, TypeOK
<1>5. \A u \in Team' : AloneShape(u)'
  <2> SUFFICES ASSUME NEW u \in Team', at'[u] \in {"reduce", "read", "reset"}, alone'[u]
               PROVE AloneShape(u)'
    BY DEF AloneShape
  <2>0. u \in Team /\ u \in Threads /\ at[u] \in {"reduce", "read", "reset"} /\ alone[u]
    BY <1>0, TeamShape DEF Team, TypeOK
  <2>1. /\ Inside = {u}
        /\ at[u] = "read" =>
             \A i \in 1 .. Len(held[u]) : held[u][i] = Sum(stage, Pixel(u), Reads[stage][i])
    BY <2>0 DEF ConvolutionShape, AloneShape
  <2>2. u = t
    BY <1>0, <2>1 DEF Inside
  <2>a. Inside' = {t}
    BY <1>0, <2>1, <2>2, TeamShape DEF Inside, Team, TypeOK
  <2>3. held[t] = Exact(stage, Pixel(t))
    BY <1>0, <2>0, <2>2, HeldIsExact
  <2>4. <<stage, Pixel(t)>> \notin inexact
    <3> SUFFICES ASSUME <<stage, Pixel(t)>> \in inexact PROVE FALSE
      OBVIOUS
    <3>1. PICK v \in Team : Stored(v, Pixel(t))
      BY DEF ConvolutionShape, InexactShape
    <3>2. CASE v = t
      BY <3>1, <3>2, <1>0, <1>a, <1>c, <1>d DEF Stored
    <3>3. CASE v # t
      <4>1. /\ Before(v, Pixels(stage)) \in Nat /\ Block(v, Pixels(stage)) \in Nat
            /\ done[v] \in 0 .. Block(v, Pixels(stage))
        BY <1>a, LoopLengths, BlockNat, TeamShape DEF TypeOK
      <4>2. at[v] = "reset" => done[v] < Block(v, Pixels(stage))
        BY TeamShape DEF ConvolutionShape, ThreadShape, InPixelLoop, InLoop, TypeOK
      <4>3. /\ Before(v, Pixels(stage)) < Pixel(t)
            /\ Pixel(t) <= Before(v, Pixels(stage)) + Block(v, Pixels(stage))
        BY <3>1, <4>1, <4>2, <1>d DEF Stored
      <4> QED BY <1>a, <1>d, <3>3, <4>3, BlocksDiffer, LoopLengths DEF TypeOK
    <3> QED BY <3>2, <3>3
  <2>5. <<stage, Pixel(t)>> \notin inexact'
    BY <1>0, <2>3, <2>4
  <2>6. (<<stage, Pixel(t)>> \notin inexact)'
    BY <1>0, <2>5 DEF Pixel, Iteration, Before
  <2>7. at'[t] = "reset"
    BY <1>0 DEF TypeOK
  <2> QED BY <2>2, <2>a, <2>6, <2>7 DEF AloneShape
<1>6. InexactShape'
  <2> SUFFICES ASSUME NEW x \in inexact'
               PROVE /\ x[1] = "blur" \/ (x[1] = "sobel" /\ stage = "sobel")
                     /\ x[1] = stage => \E v \in Team : Stored(v, x[2])'
    BY <1>0, <1>a DEF InexactShape, Team
  <2>1. CASE x \in inexact
    <3>1. /\ x[1] = "blur" \/ (x[1] = "sobel" /\ stage = "sobel")
          /\ x[1] = stage => \E v \in Team : Stored(v, x[2])
      BY <2>1 DEF ConvolutionShape, InexactShape
    <3>0. x[2] \in Nat
      BY <2>1 DEF TypeOK
    <3>2. ASSUME NEW v \in Team, NEW k \in Nat, Stored(v, k), v # t PROVE Stored(v, k)'
      BY <1>0, <3>2, TeamShape DEF Stored, Before, TypeOK
    <3>3. ASSUME NEW k \in Nat, Stored(t, k) PROVE Stored(t, k)'
      <4>1. at'[t] = "reset"
        BY <1>0 DEF TypeOK
      <4>2. Before(t, Pixels(stage)) < k /\ k <= Before(t, Pixels(stage)) + done[t]
        BY <1>0, <1>a, <1>d, <3>3 DEF Stored
      <4>3. k <= Before(t, Pixels(stage)) + done[t] + 1
        BY <4>2, <1>a, <1>d
      <4> QED BY <1>0, <4>1, <4>2, <4>3 DEF Stored, Before
    <3> QED BY <3>0, <3>1, <3>2, <3>3
  <2>2. CASE x \notin inexact
    <3>1. x = <<stage, Pixel(t)>>
      BY <1>0, <2>2
    <3>2. at'[t] = "reset"
      BY <1>0 DEF TypeOK
    <3>3. Before(t, Pixels(stage)) < Pixel(t) /\ Pixel(t) <= Before(t, Pixels(stage)) + done[t] + 1
      BY <1>a, <1>c, <1>d
    <3>4. Stored(t, Pixel(t))'
      BY <1>0, <3>2, <3>3 DEF Stored, Before, Pixel, Iteration
    <3>5. Pixel(t)' = Pixel(t)
      BY <1>0 DEF Pixel, Iteration, Before
    <3>6. Stored(t, x[2])'
      BY <3>1, <3>4, <3>5 DEF Stored
    <3> QED BY <1>a, <3>1, <3>6 DEF PixelLoops
  <2> QED BY <2>1, <2>2
<1>7. KernelShape'
  BY <1>0 DEF ConvolutionShape, KernelShape, Team
<1> QED BY <1>0, <1>1, <1>2, <1>3, <1>4, <1>5, <1>6, <1>7 DEF ConvolutionShape

(* A reset of a sum keeps the invariant. *)
LEMMA ResetShape ==
  ASSUME Inductive, NEW t \in Team, Reset(t), UNCHANGED trackingVars
  PROVE  Inductive'
<1> USE DEF Inductive
<1>0. /\ t \in Threads /\ team' = team /\ stage' = stage
      /\ at[t] = "reset" /\ kaccum' = kaccum /\ inexact' = inexact /\ held' = held /\ alone' = alone
      /\ accum' = [accum EXCEPT ![Head(left[t])] = 0]
      /\ left' = [left EXCEPT ![t] = Tail(left[t])]
      /\ \/ Len(left[t]) > 1 /\ at' = at /\ done' = done
         \/ ~(Len(left[t]) > 1) /\ at' = [at EXCEPT ![t] = "next"] /\ EndIteration(t)
  BY TeamShape DEF Reset, TypeOK, loopVars
<1>a. /\ stage \in PixelLoops /\ InPixelLoop(t) /\ held[t] = <<>>
      /\ left[t] \in Seq(Accumulators) /\ left[t] # <<>> /\ Head(left[t]) = left[t][1]
      /\ done[t] \in Nat /\ done[t] < Block(t, Pixels(stage))
  BY <1>0 DEF ConvolutionShape, ThreadShape, InPixelLoop, InLoop, TypeOK
<1>b. /\ left'[t] = Tail(left[t]) /\ left'[t] \in Seq(Accumulators)
      /\ Len(left'[t]) = Len(left[t]) - 1 /\ Len(left[t]) \in Nat /\ Len(left[t]) > 0
      /\ \A i \in 1 .. Len(left[t]) - 1 : left'[t][i] = left[t][i + 1]
  <2>1. left'[t] = Tail(left[t])
    BY <1>0 DEF TypeOK
  <2>2. Len(left[t]) \in Nat /\ Len(left[t]) > 0
    BY <1>a
  <2> QED BY <1>a, <2>1, <2>2, TailOf
<1>c. /\ \A u \in Threads : u # t => at'[u] = at[u] /\ done'[u] = done[u] /\ left'[u] = left[u]
      /\ Len(left[t]) > 1 => at'[t] = "reset" /\ done'[t] = done[t]
      /\ ~(Len(left[t]) > 1) => at'[t] = "next" /\ done'[t] = done[t] + 1
      /\ at' \in [Threads -> {"next", "add", "reduce", "read", "reset"}]
  BY <1>0 DEF TypeOK, EndIteration, ConvolutionShape
<1>d. /\ done' \in [Threads -> Int]
      /\ \A u \in Threads : (done[u] \in 0 .. Block(u, Iterations(stage)))'
  <2>1. CASE done' = done
    BY <1>0, <2>1 DEF TypeOK, Block, ConvolutionShape
  <2>2. CASE EndIteration(t)
    <3>1. done[t] < Block(t, Iterations(stage))
      BY <1>a, LoopLengths
    <3> QED BY <1>0, <2>2, <3>1, OneMoreDone DEF ConvolutionShape
  <2> QED BY <1>0, <2>1, <2>2
<1>e. /\ accum' \in [Accumulators -> Int] /\ accum'[left[t][1]] = 0
      /\ \A a \in Accumulators : a # left[t][1] => accum'[a] = accum[a]
  BY <1>0, <1>a DEF TypeOK
<1>1. TypeOK'
  <2>1. left' \in [Threads -> Seq(Accumulators)]
    BY <1>0, <1>b DEF TypeOK
  <2> QED BY <1>0, <1>c, <1>d, <1>e, <2>1 DEF TypeOK, trackingVars
<1>2. TrackingShape'
  BY <1>0, <1>a, TrackingLeftAlone DEF PixelLoops
<1>3. \A u \in Threads : ThreadShape(u)'
  <2>1. ASSUME NEW u \in Threads, u # t PROVE ThreadShape(u)'
    BY <1>0, <1>c, <2>1, OtherShape DEF ConvolutionShape
  <2>2. ThreadShape(t)'
    <3>1. CASE Len(left[t]) > 1
      <4>1. InPixelLoop(t)'
        BY <1>0, <1>a, <3>1 DEF InPixelLoop, InLoop, Block, Team
      <4>2. left'[t] # <<>>
        <5>1. Len(left'[t]) > 0
          BY <1>b, <3>1
        <5> QED BY <1>b, <5>1, NotEmpty
      <4> QED BY <1>0, <1>a, <1>c, <3>1, <4>1, <4>2 DEF ThreadShape
    <3>2. CASE ~(Len(left[t]) > 1)
      <4>1. left'[t] = <<>>
        BY <1>b, <3>2
      <4> QED BY <1>0, <1>a, <1>c, <3>2, <4>1 DEF ThreadShape
    <3> QED BY <3>1, <3>2
  <2> QED BY <2>1, <2>2
<1>4. SumsAreReset'
  <2> SUFFICES ASSUME NEW a \in Accumulators, accum'[a] # 0
               PROVE \E u \in Team' : a \in WillReset(u)'
    BY DEF SumsAreReset
  <2>0. a # left[t][1] /\ accum[a] # 0
    BY <1>e
  <2>1. PICK u \in Team : a \in WillReset(u)
    BY <2>0 DEF ConvolutionShape, SumsAreReset
  <2>2. CASE u # t
    <3>a. at'[u] = at[u] /\ left'[u] = left[u] /\ stage' = stage
      BY <1>0, <1>c, <2>2, TeamShape DEF TypeOK
    <3>1. WillReset(u)' = WillReset(u)
      BY <3>a, Zenon DEF WillReset
    <3> QED BY <1>0, <2>1, <3>1 DEF Team
  <2>3. CASE u = t
    <3>1. PICK i \in 1 .. Len(left[t]) : left[t][i] = a
      BY <1>0, <1>a, <2>1, <2>3 DEF WillReset
    <3>2. i # 1
      BY <2>0, <3>1
    <3>3. i - 1 \in 1 .. Len(left[t]) - 1 /\ (i - 1) + 1 = i
      BY <1>b, <3>1, <3>2
    <3>4. left'[t][i - 1] = a /\ Len(left[t]) > 1 /\ i - 1 \in DOMAIN left'[t]
      BY <1>b, <3>1, <3>3
    <3>5. a \in WillReset(t)'
      BY <1>c, <3>4 DEF WillReset
    <3> QED BY <1>0, <3>5 DEF Team
  <2> QED BY <2>2, <2>3
<1>5. \A u \in Team' : AloneShape(u)'
  <2> SUFFICES ASSUME NEW u \in Team', at'[u] \in {"reduce", "read", "reset"}, alone'[u]
               PROVE AloneShape(u)'
    BY DEF AloneShape
  <2>0. u \in Team /\ u \in Threads /\ at[u] \in {"reduce", "read", "reset"} /\ alone[u]
    BY <1>0, <1>c, TeamShape DEF Team, TypeOK
  <2>1. /\ Inside = {u}
        /\ at[u] = "reset" => <<stage, Pixel(u)>> \notin inexact
    BY <2>0 DEF ConvolutionShape, AloneShape
  <2>2. u = t
    BY <1>0, <2>1 DEF Inside
  <2>3. Len(left[t]) > 1 /\ at' = at /\ done' = done
    BY <1>0, <1>c, <2>2
  <2>4. Inside' = {t}
    BY <1>0, <2>1, <2>2, <2>3 DEF Inside, Team
  <2>5. (<<stage, Pixel(t)>> \notin inexact)'
    BY <1>0, <2>1, <2>2, <2>3 DEF Pixel, Iteration, Before
  <2> QED BY <1>0, <2>2, <2>3, <2>4, <2>5 DEF AloneShape
<1>6. InexactShape'
  <2> SUFFICES ASSUME NEW x \in inexact
               PROVE /\ x[1] = "blur" \/ (x[1] = "sobel" /\ stage = "sobel")
                     /\ x[1] = stage => \E v \in Team : Stored(v, x[2])'
    BY <1>0, <1>a DEF InexactShape, Team
  <2>1. /\ x[1] = "blur" \/ (x[1] = "sobel" /\ stage = "sobel")
        /\ x[1] = stage => \E v \in Team : Stored(v, x[2])
    BY DEF ConvolutionShape, InexactShape
  <2>2. ASSUME NEW v \in Team, NEW k \in Nat, Stored(v, k), v # t PROVE Stored(v, k)'
    BY <1>0, <1>c, <2>2, TeamShape DEF Stored, Before, TypeOK
  <2>3. ASSUME NEW k \in Nat, Stored(t, k) PROVE Stored(t, k)'
    <3>1. Before(t, Pixels(stage)) < k /\ k <= Before(t, Pixels(stage)) + done[t] + 1
      BY <1>0, <2>3 DEF Stored
    <3>2. Before(t, Pixels(stage)) \in Nat
      BY <1>0, <1>a, BlockNat, LoopLengths DEF TypeOK
    <3>3. Before(t, Pixels(stage)) + done[t] + 1 = Before(t, Pixels(stage)) + (done[t] + 1) + 0
      BY <3>2, <1>a
    <3>4. /\ Before(t, Pixels(stage))' = Before(t, Pixels(stage))
          /\ Before(t, Pixels(stage)) < k
          /\ k <= Before(t, Pixels(stage)) + done'[t] + (IF at'[t] = "reset" THEN 1 ELSE 0)
      BY <1>0, <1>c, <3>1, <3>3 DEF Before
    <3> QED BY <3>4 DEF Stored
  <2>4. x[2] \in Nat
    BY DEF TypeOK
  <2> QED BY <2>1, <2>2, <2>3, <2>4
<1>7. KernelShape'
  BY <1>0, <1>a DEF ConvolutionShape, KernelShape, Team, PixelLoops
<1> QED BY <1>0, <1>d, <1>1, <1>2, <1>3, <1>4, <1>5, <1>6, <1>7 DEF ConvolutionShape

(* At the barrier no thread is in an iteration. *)
LEMMA NobodyInside ==
  ASSUME Inductive,
         \/ stage = "kernel" /\ \A t \in Team : done[t] = Block(t, Len(Weights))
         \/ stage \in PixelLoops /\ \A t \in Team : done[t] = Block(t, Pixels(stage))
         \/ stage \notin PixelLoops \union {"kernel"}
  PROVE  /\ \A t \in Threads : at[t] = "next" /\ left[t] = <<>> /\ held[t] = <<>>
         /\ \A a \in Accumulators : accum[a] = 0
<1> USE DEF Inductive
<1>1. ASSUME NEW t \in Threads PROVE at[t] = "next"
  <2>1. ThreadShape(t) /\ Block(t, Len(Weights)) \in Nat
        /\ (stage \in PixelLoops => Block(t, Pixels(stage)) \in Nat)
    BY BlockNat, LoopLengths DEF ConvolutionShape, TypeOK
  <2>2. at[t] # "add"
    BY <2>1 DEF ThreadShape, InLoop, PixelLoops
  <2>3. at[t] \notin {"reduce", "read", "reset"}
    <3> SUFFICES ASSUME at[t] \in {"reduce", "read", "reset"} PROVE FALSE
      OBVIOUS
    <3>1. stage \in PixelLoops /\ t \in Team /\ done[t] < Block(t, Pixels(stage))
      BY <2>1 DEF ThreadShape, InPixelLoop, InLoop
    <3>2. done[t] = Block(t, Pixels(stage))
      BY <3>1 DEF PixelLoops
    <3> QED BY <2>1, <3>1, <3>2
  <2> QED BY <2>2, <2>3 DEF TypeOK
<1>2. \A t \in Threads : left[t] = <<>> /\ held[t] = <<>>
  BY <1>1 DEF ConvolutionShape, ThreadShape
<1>3. \A t \in Team : WillReset(t) = {}
  BY <1>1, TeamShape DEF WillReset, TypeOK
<1>4. \A a \in Accumulators : accum[a] = 0
  BY <1>3 DEF ConvolutionShape, SumsAreReset
<1> QED BY <1>1, <1>2, <1>4

(* A next loop begins with what a loop leaves at its barrier. *)
LEMMA NextLoopShape ==
  ASSUME TypeOK, NEW next \in Stages, NextLoop(next), team' = team,
         UNCHANGED <<accum, at, left, held>>,
         \A t \in Threads : at[t] = "next" /\ left[t] = <<>> /\ held[t] = <<>>,
         \A a \in Accumulators : accum[a] = 0
  PROVE  /\ done' \in [Threads -> Int] /\ stage' = next
         /\ \A u \in Threads : (done[u] \in 0 .. Block(u, Iterations(stage)))'
         /\ (\A t \in Threads : ThreadShape(t))'
         /\ SumsAreReset'
         /\ (\A t \in Team : AloneShape(t))'
         /\ \A t \in Threads : done'[t] = 0
<1>0. /\ stage' = next /\ done' \in [Threads -> Int] /\ \A t \in Threads : done'[t] = 0
  BY DEF NextLoop
<1>1. \A u \in Threads : (done[u] \in 0 .. Block(u, Iterations(stage)))'
  <2> SUFFICES ASSUME NEW u \in Threads PROVE (done[u] \in 0 .. Block(u, Iterations(stage)))'
    OBVIOUS
  <2>1. Block(u, Iterations(next)) \in Nat
    BY BlockNat, LoopLengths DEF TypeOK
  <2>2. done'[u] \in 0 .. Block(u, Iterations(next))
    BY <1>0, <2>1
  <2>3. Block(u, Iterations(stage))' = Block(u, Iterations(next))
    BY <1>0 DEF Block, Iterations
  <2> QED BY <2>2, <2>3
<1>2. (\A t \in Threads : ThreadShape(t))'
  BY DEF ThreadShape
<1>3. SumsAreReset'
  BY DEF SumsAreReset
<1>4. (\A t \in Team : AloneShape(t))'
  BY TeamShape DEF AloneShape, Team, TypeOK
<1> QED BY <1>0, <1>1, <1>2, <1>3, <1>4

(* The end of a loop over kernel or pixels keeps the invariant. *)
LEMMA EndConvolutionLoopShape ==
  ASSUME Inductive, EndConvolutionLoop, UNCHANGED trackingVars
  PROVE  Inductive'
<1> USE DEF Inductive
<1>0. /\ alone' = [t \in Threads |-> TRUE] /\ team' = team
      /\ UNCHANGED <<accum, at, left, held>>
  BY DEF EndConvolutionLoop
<1>1. ASSUME NEW next \in {"blur", "sobel", "gradients"}, NextLoop(next),
             stage \notin {"link", "done"},
             \A t \in Threads : at[t] = "next" /\ left[t] = <<>> /\ held[t] = <<>>,
             \A a \in Accumulators : accum[a] = 0,
             kaccum' \in Nat, next = "blur" => kaccum' > 0,
             inexact' \subseteq inexact,
             next = "sobel" => \A x \in inexact' : x[1] = "blur",
             next \in {"blur", "gradients"} => inexact' = {}
      PROVE  Inductive'
  <2>1. /\ done' \in [Threads -> Int] /\ stage' = next
        /\ \A u \in Threads : (done[u] \in 0 .. Block(u, Iterations(stage)))'
        /\ (\A t \in Threads : ThreadShape(t))'
        /\ SumsAreReset'
        /\ (\A t \in Team : AloneShape(t))'
    BY <1>0, <1>1, NextLoopShape DEF Stages
  <2>2. TypeOK'
    BY <1>0, <1>1, <2>1 DEF TypeOK, Stages, trackingVars
  <2>3. TrackingShape'
    BY <1>0, <1>1, <2>1, TrackingLeftAlone
  <2>4. InexactShape'
    BY <1>1, <2>1 DEF InexactShape, PixelLoops
  <2>5. KernelShape'
    BY <1>1, <2>1 DEF KernelShape
  <2> QED BY <2>1, <2>2, <2>3, <2>4, <2>5 DEF ConvolutionShape
<1>2. CASE EndLoop("kernel", Len(Weights), "blur") /\ UNCHANGED <<kaccum, inexact>>
  <2>1. stage = "kernel" /\ \A t \in Team : done[t] = Block(t, Len(Weights))
    BY <1>2 DEF EndLoop
  <2>2. kaccum > 0
    <3>1. 0 \in Team /\ Block(0, Len(Weights)) > 0
      BY TeamShape, FirstBlock, LoopLengths DEF TypeOK
    <3> QED BY <2>1, <3>1 DEF ConvolutionShape, KernelShape
  <2>3. inexact = {}
    BY <2>1 DEF ConvolutionShape, InexactShape, PixelLoops
  <2>4. /\ \A t \in Threads : at[t] = "next" /\ left[t] = <<>> /\ held[t] = <<>>
        /\ \A a \in Accumulators : accum[a] = 0
    BY <2>1, NobodyInside
  <2>5. kaccum' = kaccum /\ inexact' = inexact /\ NextLoop("blur") /\ kaccum \in Nat
    BY <1>2 DEF EndLoop, TypeOK
  <2> QED BY <1>1, <2>1, <2>2, <2>3, <2>4, <2>5
<1>3. CASE EndLoop("blur", Len(BlurSums), "sobel") /\ kaccum' = 0 /\ UNCHANGED inexact
  <2>1. stage = "blur" /\ stage \in PixelLoops /\ \A t \in Team : done[t] = Block(t, Pixels(stage))
    BY <1>3 DEF EndLoop, PixelLoops, Pixels
  <2>2. \A x \in inexact : x[1] = "blur"
    BY <2>1 DEF ConvolutionShape, InexactShape
  <2>4. /\ \A t \in Threads : at[t] = "next" /\ left[t] = <<>> /\ held[t] = <<>>
        /\ \A a \in Accumulators : accum[a] = 0
    BY <2>1, NobodyInside
  <2>5. kaccum' = 0 /\ inexact' = inexact /\ NextLoop("sobel")
    BY <1>3 DEF EndLoop
  <2> QED BY <1>1, <2>1, <2>2, <2>4, <2>5
<1>4. CASE EndLoop("sobel", Len(Gradients), "gradients") /\ inexact' = {} /\ UNCHANGED kaccum
  <2>1. stage = "sobel" /\ stage \in PixelLoops /\ \A t \in Team : done[t] = Block(t, Pixels(stage))
    BY <1>4 DEF EndLoop, PixelLoops, Pixels
  <2>4. /\ \A t \in Threads : at[t] = "next" /\ left[t] = <<>> /\ held[t] = <<>>
        /\ \A a \in Accumulators : accum[a] = 0
    BY <2>1, NobodyInside
  <2>5. kaccum' = kaccum /\ inexact' = {} /\ NextLoop("gradients") /\ kaccum \in Nat
    BY <1>4 DEF EndLoop, TypeOK
  <2> QED BY <1>1, <2>1, <2>4, <2>5
<1> QED BY <1>2, <1>3, <1>4 DEF EndConvolutionLoop

(* All of the convolutions keep the invariant. *)
LEMMA ConvolutionPhaseShape == Inductive /\ ConvolutionPhase => Inductive'
<1> SUFFICES ASSUME Inductive, ConvolutionPhase PROVE Inductive'
  OBVIOUS
<1>1. CASE EndConvolutionLoop
  BY <1>1, EndConvolutionLoopShape DEF ConvolutionPhase
<1>2. ASSUME NEW t \in Team, ConvolutionStep(t) PROVE Inductive'
  <2>1. UNCHANGED trackingVars
    BY DEF ConvolutionPhase
  <2>2. CASE ReadKernelSum(t)
    BY <2>1, <2>2, ReadKernelSumShape
  <2>3. CASE AddCell(t)
    BY <2>1, <2>3, AddCellShape
  <2>4. CASE Reduce(t)
    BY <2>1, <2>4, ReduceShape
  <2>a. CASE Lock(t)
    BY <2>1, <2>a, LockShape
  <2>b. CASE LoadSum(t)
    BY <2>1, <2>b, LoadSumShape
  <2>c. CASE AddSum(t)
    BY <2>1, <2>c, AddSumShape
  <2>5. CASE ReadSum(t)
    BY <2>1, <2>5, ReadSumShape
  <2>6. CASE StorePixel(t)
    BY <2>1, <2>6, StorePixelShape
  <2>7. CASE Reset(t)
    BY <2>1, <2>7, ResetShape
  <2> QED BY <1>2, <2>2, <2>3, <2>4, <2>a, <2>b, <2>c, <2>5, <2>6, <2>7 DEF ConvolutionStep
<1> QED BY <1>1, <1>2 DEF ConvolutionPhase

-------------------------------------------------------------------------------
(***************************************************************************)
(* The suppression.                                                        *)
(***************************************************************************)
LEMMA GridShape ==
  /\ Rows \in Nat /\ Rows > 1 /\ Cols \in Nat /\ Cols > 1
  /\ <<0, 0>> \in Grid
  /\ Inner \subseteq Grid
  /\ \A p \in Grid : p[1] \in 0 .. Rows - 1 /\ p[2] \in 0 .. Cols - 1 /\ p = <<p[1], p[2]>>
  /\ \A p \in Inner : p[1] \in 1 .. Rows - 2 /\ p[2] \in 1 .. Cols - 2
  /\ \A p \in Inner : \A r, c \in -1 .. 1 : Shift(p, r, c) \in Grid
<1>1. Rows \in Nat /\ Rows > 1 /\ Cols \in Nat /\ Cols > 1
  BY TrackingAssumption
<1>2. \A p \in Inner : p[1] \in 1 .. Rows - 2 /\ p[2] \in 1 .. Cols - 2
  BY DEF Inner
<1>3. \A p \in Grid : p[1] \in 0 .. Rows - 1 /\ p[2] \in 0 .. Cols - 1 /\ p = <<p[1], p[2]>>
  BY DEF Grid
<1>4. Inner \subseteq Grid /\ <<0, 0>> \in Grid
  BY <1>1 DEF Inner, Grid
<1>5. ASSUME NEW p \in Inner, NEW r \in -1 .. 1, NEW c \in -1 .. 1 PROVE Shift(p, r, c) \in Grid
  <2>1. p[1] + r \in 0 .. Rows - 1 /\ p[2] + c \in 0 .. Cols - 1
    BY <1>1, <1>2
  <2> QED BY <2>1 DEF Shift, Grid
<1> QED BY <1>1, <1>2, <1>3, <1>4, <1>5

(* The directions of an image have a least and a most. *)
LEMMA Extremes ==
  \A S \in SUBSET (-3 .. 4) : S # {} =>
    (\E k \in S : \A x \in S : k <= x) /\ (\E k \in S : \A x \in S : k >= x)
<1> SUFFICES ASSUME NEW S \in SUBSET (-3 .. 4), S # {}
             PROVE (\E k \in S : \A x \in S : k <= x) /\ (\E k \in S : \A x \in S : k >= x)
  OBVIOUS
<1>1. \A x \in S : x \in Int /\ -3 <= x /\ x <= 4
  OBVIOUS
<1>a. \A x \in S : x = -3 \/ x = -2 \/ x = -1 \/ x = 0 \/ x = 1 \/ x = 2 \/ x = 3 \/ x = 4
  OBVIOUS
<1>b. \/ -3 \in S \/ -2 \in S \/ -1 \in S \/ 0 \in S \/ 1 \in S \/ 2 \in S \/ 3 \in S \/ 4 \in S
  <2>1. PICK x \in S : TRUE
    OBVIOUS
  <2> QED BY <2>1, <1>a
<1>2. \E k \in S : \A x \in S : k <= x
  <2>1. CASE -3 \in S
    BY <1>1, <2>1
  <2>2. CASE -3 \notin S /\ -2 \in S
    BY <1>1, <2>2
  <2>3. CASE -3 \notin S /\ -2 \notin S /\ -1 \in S
    BY <1>1, <2>3
  <2>4. CASE -3 \notin S /\ -2 \notin S /\ -1 \notin S /\ 0 \in S
    BY <1>1, <2>4
  <2>5. CASE -3 \notin S /\ -2 \notin S /\ -1 \notin S /\ 0 \notin S /\ 1 \in S
    BY <1>1, <2>5
  <2>6. CASE -3 \notin S /\ -2 \notin S /\ -1 \notin S /\ 0 \notin S /\ 1 \notin S /\ 2 \in S
    BY <1>1, <2>6
  <2>7. CASE -3 \notin S /\ -2 \notin S /\ -1 \notin S /\ 0 \notin S /\ 1 \notin S /\ 2 \notin S /\ 3 \in S
    BY <1>1, <2>7
  <2>8. CASE -3 \notin S /\ -2 \notin S /\ -1 \notin S /\ 0 \notin S /\ 1 \notin S /\ 2 \notin S /\ 3 \notin S /\ 4 \in S
    BY <1>a, <2>8
  <2> QED BY <1>b, <2>1, <2>2, <2>3, <2>4, <2>5, <2>6, <2>7, <2>8
<1>3. \E k \in S : \A x \in S : k >= x
  <2>1. CASE 4 \in S
    BY <1>1, <2>1
  <2>2. CASE 4 \notin S /\ 3 \in S
    BY <1>1, <2>2
  <2>3. CASE 4 \notin S /\ 3 \notin S /\ 2 \in S
    BY <1>1, <2>3
  <2>4. CASE 4 \notin S /\ 3 \notin S /\ 2 \notin S /\ 1 \in S
    BY <1>1, <2>4
  <2>5. CASE 4 \notin S /\ 3 \notin S /\ 2 \notin S /\ 1 \notin S /\ 0 \in S
    BY <1>1, <2>5
  <2>6. CASE 4 \notin S /\ 3 \notin S /\ 2 \notin S /\ 1 \notin S /\ 0 \notin S /\ -1 \in S
    BY <1>1, <2>6
  <2>7. CASE 4 \notin S /\ 3 \notin S /\ 2 \notin S /\ 1 \notin S /\ 0 \notin S /\ -1 \notin S /\ -2 \in S
    BY <1>1, <2>7
  <2>8. CASE 4 \notin S /\ 3 \notin S /\ 2 \notin S /\ 1 \notin S /\ 0 \notin S /\ -1 \notin S /\ -2 \notin S /\ -3 \in S
    BY <1>a, <2>8
  <2> QED BY <1>b, <2>1, <2>2, <2>3, <2>4, <2>5, <2>6, <2>7, <2>8
<1> QED BY <1>2, <1>3

(* The directions of an image have a least and a greatest one. *)
LEMMA LeastAndMost ==
  ASSUME NEW d \in [Grid -> -3 .. 4]
  PROVE  /\ Least(d) \in Int /\ Most(d) \in Int /\ Least(d) <= Most(d)
         /\ \A p \in Grid : Least(d) <= d[p] /\ d[p] <= Most(d)
<1> DEFINE S == {d[p] : p \in Grid}
<1>1. S \in SUBSET (-3 .. 4) /\ S # {}
  BY GridShape
<1>0. \A p \in Grid : d[p] \in S
  OBVIOUS
<1>a. (\E k \in S : \A x \in S : k <= x) /\ (\E k \in S : \A x \in S : k >= x)
  <2> HIDE DEF S
  <2> QED BY <1>1, Extremes
<1>2. \E k \in S : \A p \in Grid : k <= d[p]
  BY <1>0, <1>a, Zenon
<1>3. \E k \in S : \A p \in Grid : k >= d[p]
  BY <1>0, <1>a, Zenon
<1>4. Least(d) \in S /\ \A p \in Grid : Least(d) <= d[p]
  BY <1>2 DEF Least
<1>5. Most(d) \in S /\ \A p \in Grid : Most(d) >= d[p]
  BY <1>3 DEF Most
<1>6. Least(d) \in -3 .. 4 /\ Most(d) \in -3 .. 4
  BY <1>1, <1>4, <1>5
<1>7. \A p \in Grid : d[p] \in -3 .. 4
  OBVIOUS
<1>8. Least(d) <= Most(d)
  BY <1>4, <1>5, <1>6, <1>7, GridShape
<1> QED BY <1>4, <1>5, <1>6, <1>7, <1>8

(* However the directions are stretched, a pixel has a sector, and the two  *)
(* neighbours of it are in the image.                                       *)
LEMMA AngleShape ==
  ASSUME NEW d \in [Grid -> -3 .. 4], NEW p \in Grid
  PROVE  /\ Span(d) \in Nat /\ Span(d) > 0
         /\ Angle(d, p) \in Nat /\ Angle(d, p) < 128 * Span(d)
<1>1. /\ Least(d) \in Int /\ Most(d) \in Int /\ Least(d) <= Most(d)
      /\ Least(d) <= d[p] /\ d[p] <= Most(d) /\ d[p] \in Int
  BY LeastAndMost
<1> DEFINE l == Least(d)  m == Most(d)  v == d[p]
<1>2. l \in Int /\ m \in Int /\ v \in Int /\ l <= v /\ v <= m
  BY <1>1
<1>3. Span(d) = IF m = l THEN 1 ELSE m - l
  BY DEF Span
<1>4. Normalized(d, p) = (v - l) * 255
  BY DEF Normalized
<1> HIDE DEF l, m, v
<1>5. Span(d) \in Nat /\ Span(d) > 0
  BY <1>2, <1>3
<1>6. Normalized(d, p) \in Nat /\ Normalized(d, p) < 256 * Span(d)
  BY <1>2, <1>3, <1>4
<1> DEFINE x == Normalized(d, p) - 128 * Span(d)
<1>7. Angle(d, p) = IF x < 0 THEN x + 128 * Span(d) ELSE x
  BY DEF Angle
<1>8. x \in Int /\ x < 128 * Span(d) /\ x + 128 * Span(d) \in Nat
  BY <1>5, <1>6
<1> HIDE DEF x
<1>9. Angle(d, p) \in Nat /\ Angle(d, p) < 128 * Span(d)
  BY <1>5, <1>7, <1>8
<1> QED BY <1>5, <1>9

(* A pixel inside is compared with pixels of the image. *)
LEMMA NeighborsInGrid ==
  ASSUME NEW d \in [Grid -> -3 .. 4], NEW p \in Inner
  PROVE  Neighbors(d, p) \subseteq Grid
<1>1. p \in Grid
  BY GridShape
<1>2. /\ Span(d) \in Nat /\ Span(d) > 0
      /\ Angle(d, p) \in Nat /\ Angle(d, p) < 128 * Span(d)
  BY <1>1, AngleShape
<1>3. \/ InSector(d, p, 0, 16) \/ InSector(d, p, 112, 129) \/ InSector(d, p, 16, 48)
      \/ InSector(d, p, 48, 80) \/ InSector(d, p, 80, 112)
  BY <1>2 DEF InSector
<1>4. /\ Shift(p, 0, 1) \in Grid /\ Shift(p, 0, -1) \in Grid
      /\ Shift(p, 1, -1) \in Grid /\ Shift(p, -1, 1) \in Grid
      /\ Shift(p, 1, 0) \in Grid /\ Shift(p, -1, 0) \in Grid
      /\ Shift(p, -1, -1) \in Grid /\ Shift(p, 1, 1) \in Grid
  BY GridShape
<1>5. /\ {Shift(p, 0, 1), Shift(p, 0, -1)} \subseteq Grid
      /\ {Shift(p, 1, -1), Shift(p, -1, 1)} \subseteq Grid
      /\ {Shift(p, 1, 0), Shift(p, -1, 0)} \subseteq Grid
      /\ {Shift(p, -1, -1), Shift(p, 1, 1)} \subseteq Grid
  BY <1>4
<1>6. \/ Neighbors(d, p) = {Shift(p, 0, 1), Shift(p, 0, -1)}
      \/ Neighbors(d, p) = {Shift(p, 1, -1), Shift(p, -1, 1)}
      \/ Neighbors(d, p) = {Shift(p, 1, 0), Shift(p, -1, 0)}
      \/ Neighbors(d, p) = {Shift(p, -1, -1), Shift(p, 1, 1)}
  BY <1>3 DEF Neighbors
<1> QED BY <1>5, <1>6

(* The conversion to a byte gives a byte, and keeps what is one. *)
LEMMA ByteShape == \A m \in Nat : Byte(m) \in 0 .. 255 /\ (m <= 255 => Byte(m) = m)
BY DEF Byte

(* The suppression gives bytes, 0 on the border, and keeps the strongest. *)
LEMMA SuppressionShape ==
  ASSUME NEW i \in Images
  PROVE  /\ Suppression(i) \in [Grid -> 0 .. 255]
         /\ \A p \in Border : Suppression(i)[p] = 0
         /\ \A p \in Inner :
              (\A q \in Grid : i.magnitude[q] <= i.magnitude[p]) /\ i.magnitude[p] <= 255
                => Suppression(i)[p] = i.magnitude[p]
<1>1. i.magnitude \in [Grid -> Nat] /\ i.direction \in [Grid -> -3 .. 4]
  BY TrackingAssumption
<1>2. \A p \in Grid : i.magnitude[p] \in Nat /\ Byte(i.magnitude[p]) \in 0 .. 255
  BY <1>1, ByteShape
<1>3. Suppression(i) \in [Grid -> 0 .. 255]
  <2>1. \A p \in Grid :
          (IF p \in Inner /\ LocalMaximum(i, p) THEN Byte(i.magnitude[p]) ELSE 0) \in 0 .. 255
    BY <1>2
  <2> QED BY <2>1 DEF Suppression
<1>4. \A p \in Border : Suppression(i)[p] = 0
  BY DEF Suppression, Border
<1>5. ASSUME NEW p \in Inner, \A q \in Grid : i.magnitude[q] <= i.magnitude[p],
             i.magnitude[p] <= 255
      PROVE  Suppression(i)[p] = i.magnitude[p]
  <2>1. p \in Grid
    BY GridShape
  <2>2. LocalMaximum(i, p)
    <3>1. \A q \in Neighbors(i.direction, p) : q \in Grid
      BY <1>1, NeighborsInGrid
    <3>2. \A q \in Grid : i.magnitude[p] >= i.magnitude[q]
      BY <1>2, <1>5, <2>1
    <3> QED BY <3>1, <3>2 DEF LocalMaximum
  <2>3. Suppression(i)[p] = Byte(i.magnitude[p])
    BY <2>1, <2>2 DEF Suppression
  <2> QED BY <1>2, <1>5, <2>1, <2>3, ByteShape
<1> QED BY <1>3, <1>4, <1>5

(* No weak pixel is on the border. *)
LEMMA WeakInner ==
  ASSUME TypeOK, \A p \in Border : suppressed[p] = 0
  PROVE  Weak \subseteq Inner
BY TrackingAssumption DEF Weak, Border, TypeOK

(* The suppression keeps the invariant. *)
LEMMA SuppressionPhaseShape == Inductive /\ SuppressionPhase => Inductive'
<1> SUFFICES ASSUME Inductive, SuppressionPhase PROVE Inductive'
  OBVIOUS
<1> USE DEF Inductive
<1>0. /\ stage = "gradients" /\ image' \in Images /\ suppressed' = Suppression(image')
      /\ edges' = suppressed' /\ strong' = {p \in Grid : suppressed'[p] >= HighThreshold}
      /\ NextLoop("link") /\ team' = team /\ calls' = calls
      /\ kaccum' = kaccum /\ inexact' = inexact /\ alone' = alone
      /\ UNCHANGED <<accum, at, left, held>>
  BY DEF SuppressionPhase, Suppress, convolutionVars
<1>1. /\ \A t \in Threads : at[t] = "next" /\ left[t] = <<>> /\ held[t] = <<>>
      /\ \A a \in Accumulators : accum[a] = 0
  BY <1>0, NobodyInside DEF PixelLoops
<1>2. /\ done' \in [Threads -> Int] /\ stage' = "link"
      /\ \A u \in Threads : (done[u] \in 0 .. Block(u, Iterations(stage)))'
      /\ (\A t \in Threads : ThreadShape(t))'
      /\ SumsAreReset'
      /\ (\A t \in Team : AloneShape(t))'
      /\ \A t \in Threads : done'[t] = 0
  BY <1>0, <1>1, NextLoopShape DEF Stages
<1>3. /\ suppressed' \in [Grid -> 0 .. 255]
      /\ \A p \in Border : suppressed'[p] = 0
      /\ \A p \in Inner :
           (\A q \in Grid : image'.magnitude[q] <= image'.magnitude[p]) /\ image'.magnitude[p] <= 255
             => suppressed'[p] = image'.magnitude[p]
  BY <1>0, SuppressionShape
<1>4. TypeOK'
  BY <1>0, <1>2, <1>3 DEF TypeOK, Stages
<1>5. ConvolutionShape'
  <2>1. InexactShape'
    BY <1>0, <1>2 DEF ConvolutionShape, InexactShape, PixelLoops
  <2>2. KernelShape'
    BY <1>2 DEF KernelShape
  <2> QED BY <1>2, <2>1, <2>2 DEF ConvolutionShape
<1>6. TrackingShape'
  <2>1. \A t \in Threads : calls[t] = <<>>
    BY <1>0 DEF TrackingShape, CallsShape, Linking, InLoop
  <2>2. ASSUME NEW t \in Threads PROVE CallsShape(t)'
    <3>1. calls'[t] = <<>>
      BY <1>0, <2>1
    <3>2. <<>> \in Seq(Calls) /\ Len(<<>>) = 0
      OBVIOUS
    <3>3. \A i \in 1 .. Len(calls'[t]) : FALSE
      BY <3>1, <3>2
    <3> QED BY <3>1, <3>2, <3>3 DEF CallsShape
  <2>3. strong' \subseteq Weak'
    <3>1. \A p \in Grid : suppressed'[p] \in Nat
      BY <1>3
    <3> QED BY <1>0, <3>1, TrackingAssumption DEF Weak
  <2>4. (\A p \in Inner : Strongest(p) => suppressed[p] = image.magnitude[p])'
    BY <1>3 DEF Strongest
  <2>5. (\A t \in Team : \A k \in 1 .. done[t] : Linked(PixelAt(Before(t, Rows * Cols) + k)))'
    BY <1>0, <1>2, TeamShape DEF Team, TypeOK
  <2> QED BY <1>0, <1>2, <1>3, <2>2, <2>3, <2>4, <2>5 DEF TrackingShape
<1> QED BY <1>4, <1>5, <1>6

-------------------------------------------------------------------------------
(***************************************************************************)
(* The linking.                                                            *)
(***************************************************************************)
LEMMA PixelAtInGrid == \A k \in 1 .. Rows * Cols : PixelAt(k) \in Grid
<1> SUFFICES ASSUME NEW k \in 1 .. Rows * Cols PROVE PixelAt(k) \in Grid
  OBVIOUS
<1> DEFINE q == (k - 1) \div Cols  r == (k - 1) % Cols
<1>1. Rows \in Nat /\ Cols \in Nat /\ Cols > 0 /\ Rows * Cols \in Nat
  BY GridShape, TimesNat
<1>2. k - 1 \in Nat /\ k - 1 < Rows * Cols
  BY <1>1
<1>3. q \in Nat /\ r \in 0 .. Cols - 1 /\ k - 1 = q * Cols + r /\ q * Cols \in Nat
  BY <1>1, <1>2, Quotient, TimesNat
<1> HIDE DEF q, r
<1>4. q * Cols < Rows * Cols
  BY <1>1, <1>2, <1>3
<1>5. q < Rows
  BY <1>1, <1>3, <1>4, TimesCancel
<1> QED BY <1>1, <1>3, <1>5 DEF PixelAt, Grid, q, r

(* The quotient and the remainder of a product and less than its factor. *)
LEMMA QuotientIs ==
  ASSUME NEW a \in Nat, NEW b \in Nat, NEW T \in Nat, b < T
  PROVE  (a * T + b) \div T = a /\ (a * T + b) % T = b
BY SMTT(60)

(* Every pixel is the one of some iteration. *)
LEMMA PixelAtOnto == \A p \in Grid : \E k \in 1 .. Rows * Cols : PixelAt(k) = p
<1> SUFFICES ASSUME NEW p \in Grid PROVE \E k \in 1 .. Rows * Cols : PixelAt(k) = p
  OBVIOUS
<1> DEFINE a == p[1]  b == p[2]  n == a * Cols + b
<1>1. /\ Rows \in Nat /\ Cols \in Nat /\ a \in Nat /\ b \in Nat /\ a + 1 <= Rows /\ b < Cols
      /\ p = <<a, b>>
  BY GridShape
<1>2. a * Cols \in Nat /\ (a + 1) * Cols = a * Cols + Cols /\ (a + 1) * Cols <= Rows * Cols
      /\ Rows * Cols \in Nat
  <2>1. a * Cols \in Nat /\ Rows * Cols \in Nat
    BY <1>1, TimesNat
  <2>2. (a + 1) * Cols = a * Cols + Cols
    BY <1>1, TimesNext
  <2> HIDE DEF a, b
  <2>3. (a + 1) * Cols <= Rows * Cols
    BY <1>1, TimesMonotone, a + 1 \in Nat
  <2> QED BY <2>1, <2>2, <2>3 DEF a
<1>3. n \div Cols = a /\ n % Cols = b
  BY <1>1, QuotientIs
<1>4. n + 1 \in 1 .. Rows * Cols /\ (n + 1) - 1 = n
  <2> DEFINE x == a * Cols  y == Rows * Cols
  <2>1. x \in Nat /\ y \in Nat /\ x + Cols <= y /\ n = x + b
    BY <1>2
  <2> HIDE DEF x, y, n
  <2>2. n + 1 \in 1 .. y /\ (n + 1) - 1 = n
    BY <1>1, <2>1
  <2> QED BY <2>2 DEF y
<1> HIDE DEF n
<1>5. PixelAt(n + 1) = p
  BY <1>1, <1>3, <1>4 DEF PixelAt
<1> QED BY <1>4, <1>5

(* A thread that links is at a pixel of the image. *)
LEMMA PixelOfInGrid ==
  ASSUME TypeOK, NEW t \in Team, Linking(t)
  PROVE  PixelOf(t) \in Grid
<1>1. t \in Threads /\ done[t] \in Nat /\ done[t] < Block(t, Rows * Cols)
  <2>1. t \in Threads /\ Block(t, Iterations(stage)) \in Nat
    BY TeamShape, BlockNat, LoopLengths DEF TypeOK
  <2> QED BY <2>1 DEF TypeOK, Linking, InLoop
<1>2. Iteration(t, Rows * Cols) \in 1 .. Rows * Cols
  BY <1>1, IterationInBlock, LoopLengths DEF TypeOK
<1> QED BY <1>2, PixelAtInGrid DEF PixelOf

(* The rest of a step of the linking, once its calls and its writes are     *)
(* known to be of the right shape.                                          *)
LEMMA LinkingStepShape ==
  ASSUME Inductive, NEW t \in Team, Linking(t), UNCHANGED convolutionVars,
         team' = team, stage' = stage, image' = image, suppressed' = suppressed,
         calls' \in [Threads -> Seq(Calls)],
         \A u \in Threads : u # t => calls'[u] = calls[u],
         CallsShape(t)',
         strong' \subseteq Weak,
         edges' \in [Grid -> 0 .. 255],
         \A p \in Grid : edges'[p] = edges[p] \/ (edges'[p] = 0 /\ p \notin Weak),
         \/ done' = done
         \/ EndIteration(t) /\ (PixelOf(t) \in Weak \/ edges'[PixelOf(t)] = 0)
  PROVE  Inductive'
<1> USE DEF Inductive
<1>0. stage = "link" /\ t \in Threads /\ done[t] < Block(t, Rows * Cols)
  BY TeamShape DEF Linking, InLoop, TypeOK
<1>1. /\ done' \in [Threads -> Int]
      /\ \A u \in Threads : (done[u] \in 0 .. Block(u, Iterations(stage)))'
      /\ \A u \in Threads : u # t => done'[u] = done[u]
      /\ done'[t] = done[t] \/ done'[t] = done[t] + 1
  <2>1. CASE done' = done
    BY <2>1 DEF TypeOK, Block, ConvolutionShape
  <2>2. CASE EndIteration(t)
    <3>1. done[t] < Block(t, Iterations(stage))
      BY <1>0, LoopLengths
    <3>2. \A u \in Threads : u # t => done'[u] = done[u]
      BY <1>0, <2>2 DEF EndIteration, ConvolutionShape
    <3> QED BY <2>2, <3>1, <3>2, OneMoreDone DEF ConvolutionShape
  <2> QED BY <2>1, <2>2
<1>2. /\ \A u \in Threads : at[u] = "next" /\ left[u] = <<>> /\ held[u] = <<>>
      /\ \A a \in Accumulators : accum[a] = 0
  BY <1>0, NobodyInside DEF PixelLoops
<1>3. TypeOK'
  <2>1. strong' \subseteq Grid
    BY DEF Weak
  <2> QED BY <1>1, <2>1 DEF TypeOK, convolutionVars
<1>4. ConvolutionShape'
  <2>1. \A u \in Threads : ThreadShape(u)'
    BY <1>2 DEF ThreadShape, convolutionVars
  <2>2. SumsAreReset'
    BY <1>2 DEF SumsAreReset, convolutionVars
  <2>3. \A u \in Team' : AloneShape(u)'
    BY <1>2, TeamShape DEF AloneShape, convolutionVars, Team, TypeOK
  <2>4. InexactShape'
    BY <1>0 DEF ConvolutionShape, InexactShape, PixelLoops, convolutionVars
  <2>5. KernelShape'
    BY <1>0 DEF KernelShape
  <2> QED BY <1>1, <2>1, <2>2, <2>3, <2>4, <2>5 DEF ConvolutionShape
<1>5. Weak' = Weak
  BY DEF Weak
<1>6. \A u \in Threads : CallsShape(u)'
  <2> SUFFICES ASSUME NEW u \in Threads, u # t PROVE CallsShape(u)'
    OBVIOUS
  <2>1. CallsShape(u) /\ calls'[u] = calls[u] /\ done'[u] = done[u]
    BY <1>1 DEF TrackingShape
  <2>2. (Linking(u) <=> Linking(u)') /\ PixelOf(u)' = PixelOf(u)
    BY <2>1 DEF Linking, InLoop, Team, Block, PixelOf, Iteration, Before
  <2> QED BY <1>5, <2>1, <2>2 DEF CallsShape
<1>7. \A p \in Grid : (edges[p] = suppressed[p] \/ (edges[p] = 0 /\ p \notin Weak))'
  BY <1>5 DEF TrackingShape
<1>8. ASSUME NEW u \in Team, NEW k \in 1 .. done'[u]
      PROVE Linked(PixelAt(Before(u, Rows * Cols) + k))'
  <2> DEFINE n == Rows * Cols  p == PixelAt(Before(u, n) + k)
  <2>a. u \in Threads /\ n \in Nat /\ Block(u, n) \in Nat /\ Before(u, n) \in Nat
    BY TeamShape, BlockNat, LoopLengths DEF TypeOK
  <2>b. done[u] \in 0 .. Block(u, n) /\ done'[u] \in 0 .. Block(u, n)
    BY <1>0, <1>1, <2>a, LoopLengths DEF TypeOK, Block, Iterations
  <2>c. Before(u, n) + Block(u, n) <= n
    BY <2>a, BlockEnd DEF TypeOK
  <2>d. p \in Grid
    <3>1. Before(u, n) + k \in 1 .. n
      BY <2>a, <2>b, <2>c
    <3> QED BY <3>1, PixelAtInGrid
  <2>1. CASE k \in 1 .. done[u]
    <3>1. Linked(p)
      BY <1>0, <2>1 DEF TrackingShape
    <3>2. p \in Weak' \/ edges'[p] = 0
      BY <1>5, <2>d, <3>1 DEF Linked
    <3> QED BY <3>2 DEF Linked, Before, PixelAt
  <2>2. CASE k \notin 1 .. done[u]
    <3>1. u = t /\ done' # done /\ k = done[t] + 1
      <4>1. u = t
        BY <1>1, <2>2, <2>a
      <4>2. done'[t] = done[t] + 1
        BY <1>1, <2>2, <4>1
      <4>3. done[t] \in Nat /\ k \in Nat /\ k <= done[t] + 1 /\ k > 0
        BY <2>b, <4>1, <4>2
      <4> QED BY <2>2, <4>1, <4>2, <4>3
    <3>2. Before(t, n) + k = Iteration(t, n)
      BY <2>a, <2>b, <3>1 DEF Iteration
    <3>3. p = PixelOf(t)
      BY <3>1, <3>2 DEF PixelOf
    <3>4. p \in Weak' \/ edges'[p] = 0
      BY <1>5, <3>1, <3>3
    <3> QED BY <3>4 DEF Linked, Before, PixelAt
  <2> QED BY <2>1, <2>2
<1>9. (\A u \in Team : \A k \in 1 .. done[u] : Linked(PixelAt(Before(u, Rows * Cols) + k)))'
  BY <1>8 DEF Team
<1>10. (\A p \in Inner : Strongest(p) => suppressed[p] = image.magnitude[p])'
  BY <1>0 DEF TrackingShape, Strongest
<1>11. TrackingShape'
  BY <1>0, <1>5, <1>6, <1>7, <1>9, <1>10 DEF TrackingShape
<1> QED BY <1>3, <1>4, <1>11

(* The first elements of a sequence. *)
LEMMA FirstOf ==
  \A S : \A s \in Seq(S), n \in Nat : n <= Len(s) =>
    /\ SubSeq(s, 1, n) \in Seq(S) /\ Len(SubSeq(s, 1, n)) = n
    /\ \A i \in 1 .. n : SubSeq(s, 1, n)[i] = s[i]
OBVIOUS

(* A sequence without its last element. *)
LEMMA FrontOf ==
  \A S : \A s \in Seq(S) : Len(s) > 0 =>
    /\ SubSeq(s, 1, Len(s) - 1) \in Seq(S)
    /\ Len(SubSeq(s, 1, Len(s) - 1)) = Len(s) - 1
    /\ \A i \in 1 .. Len(s) - 1 : SubSeq(s, 1, Len(s) - 1)[i] = s[i]
<1>1. \A S : \A s \in Seq(S) : Len(s) > 0 => Len(s) - 1 \in Nat /\ Len(s) - 1 <= Len(s)
  OBVIOUS
<1> QED BY <1>1, FirstOf

(* A sequence with another last element. *)
LEMMA ReplaceLast ==
  \A S : \A s \in Seq(S), x \in S : Len(s) > 0 =>
    LET r == [s EXCEPT ![Len(s)] = x]
    IN /\ r \in Seq(S) /\ Len(r) = Len(s) /\ r[Len(s)] = x
       /\ \A i \in 1 .. Len(s) - 1 : r[i] = s[i]
OBVIOUS

(* The invariant has no weak pixel on the border. *)
LEMMA WeakIsInner == Inductive => Weak \subseteq Inner
BY WeakInner DEF Inductive, TrackingShape

(* What a linking thread's calls are. *)
LEMMA TopShape ==
  ASSUME Inductive, NEW t \in Team, Linking(t), calls[t] # <<>>
  PROVE  /\ t \in Threads /\ calls[t] \in Seq(Calls) /\ Len(calls[t]) \in Nat /\ Len(calls[t]) > 0
         /\ Top(t) \in Calls /\ Top(t) = calls[t][Len(calls[t])]
         /\ calls[t][1].pixel = PixelOf(t)
         /\ Top(t).pc = "sides" => Top(t).pixel \in Weak
         /\ \A i \in 1 .. Len(calls[t]) : calls[t][i].pc = "sides" => calls[t][i].pixel \in Weak
<1>1. t \in Threads /\ CallsShape(t) /\ calls[t] \in Seq(Calls)
  BY TeamShape DEF Inductive, TypeOK, TrackingShape
<1>2. Len(calls[t]) \in Nat /\ Len(calls[t]) > 0
  BY <1>1, NotEmpty
<1>3. Top(t) = calls[t][Len(calls[t])]
  BY DEF Top
<1>4. Top(t) \in Calls
  BY <1>1, <1>2, <1>3
<1> QED BY <1>1, <1>2, <1>3, <1>4 DEF CallsShape

(* The end of a call leaves the calls below it. *)
LEMMA ReturnShape ==
  ASSUME Inductive, NEW t \in Team, Linking(t), calls[t] # <<>>, Return(t),
         team' = team, stage' = stage, suppressed' = suppressed
  PROVE  /\ calls' \in [Threads -> Seq(Calls)]
         /\ \A u \in Threads : u # t => calls'[u] = calls[u]
         /\ CallsShape(t)'
         /\ \/ done' = done
            \/ EndIteration(t) /\ Len(calls[t]) = 1 /\ Top(t).pixel = PixelOf(t)
<1>1. /\ t \in Threads /\ calls[t] \in Seq(Calls) /\ Len(calls[t]) \in Nat /\ Len(calls[t]) > 0
      /\ Top(t) = calls[t][Len(calls[t])] /\ calls[t][1].pixel = PixelOf(t)
      /\ \A i \in 1 .. Len(calls[t]) : calls[t][i].pc = "sides" => calls[t][i].pixel \in Weak
  BY TopShape
<1> DEFINE s == calls[t]  r == SubSeq(s, 1, Len(s) - 1)
<1>2. /\ r \in Seq(Calls) /\ Len(r) = Len(s) - 1
      /\ \A i \in 1 .. Len(s) - 1 : r[i] = s[i]
  BY <1>1, FrontOf
<1>3. calls' = [calls EXCEPT ![t] = r] /\ calls \in [Threads -> Seq(Calls)]
  BY DEF Return, Inductive, TrackingShape
<1> HIDE DEF r
<1>4. /\ calls' \in [Threads -> Seq(Calls)] /\ calls'[t] = r
      /\ \A u \in Threads : u # t => calls'[u] = calls[u]
  BY <1>1, <1>2, <1>3
<1>5. Weak' = Weak
  BY DEF Weak
<1>6. CASE Len(s) = 1
  <2>1. r = <<>>
    BY <1>2, <1>6, NotEmpty
  <2>2. CallsShape(t)'
    <3>1. \A i \in 1 .. Len(calls'[t]) : FALSE
      BY <1>2, <1>4, <1>6
    <3> QED BY <1>2, <1>4, <2>1, <3>1 DEF CallsShape
  <2>3. EndIteration(t) /\ Top(t).pixel = PixelOf(t)
    BY <1>1, <1>6 DEF Return
  <2> QED BY <1>4, <1>6, <2>2, <2>3
<1>7. CASE Len(s) # 1
  <2>1. done' = done
    BY <1>7 DEF Return
  <2>2. Linking(t)' /\ PixelOf(t)' = PixelOf(t)
    BY <2>1 DEF Linking, InLoop, Team, Block, PixelOf, PixelAt, Iteration, Before
  <2> DEFINE n == Len(s)
  <2>a. n \in Nat /\ n > 0 /\ n # 1
    BY <1>1, <1>7
  <2>3. 1 \in 1 .. n - 1 /\ \A i \in 1 .. n - 1 : i \in 1 .. n
    <3> HIDE DEF n
    <3> QED BY <2>a
  <2>4. r[1].pixel = PixelOf(t) /\ \A i \in 1 .. n - 1 : r[i].pc = "sides" => r[i].pixel \in Weak
    BY <1>1, <1>2, <2>3
  <2>5. CallsShape(t)'
    BY <1>2, <1>4, <1>5, <2>2, <2>4 DEF CallsShape
  <2> QED BY <1>4, <2>1, <2>5
<1> QED BY <1>6, <1>7

(* A call changes in its place. *)
LEMMA UpdateShape ==
  ASSUME Inductive, NEW t \in Team, Linking(t), calls[t] # <<>>, NEW call \in Calls, Update(t, call),
         call.pixel = Top(t).pixel, call.pc = "sides" => call.pixel \in Weak,
         team' = team, stage' = stage, suppressed' = suppressed, done' = done
  PROVE  /\ calls' \in [Threads -> Seq(Calls)]
         /\ \A u \in Threads : u # t => calls'[u] = calls[u]
         /\ CallsShape(t)'
<1>1. /\ t \in Threads /\ calls[t] \in Seq(Calls) /\ Len(calls[t]) \in Nat /\ Len(calls[t]) > 0
      /\ Top(t) = calls[t][Len(calls[t])] /\ calls[t][1].pixel = PixelOf(t)
      /\ \A i \in 1 .. Len(calls[t]) : calls[t][i].pc = "sides" => calls[t][i].pixel \in Weak
  BY TopShape
<1> DEFINE s == calls[t]  r == [s EXCEPT ![Len(s)] = call]  n == Len(s)
<1>2. /\ r \in Seq(Calls) /\ Len(r) = n /\ r[n] = call
      /\ \A i \in 1 .. n - 1 : r[i] = s[i]
  BY <1>1, ReplaceLast
<1>3. calls' = [calls EXCEPT ![t] = r] /\ calls \in [Threads -> Seq(Calls)]
  BY DEF Update, Inductive, TrackingShape
<1> HIDE DEF r
<1>4. /\ calls' \in [Threads -> Seq(Calls)] /\ calls'[t] = r
      /\ \A u \in Threads : u # t => calls'[u] = calls[u]
  BY <1>1, <1>2, <1>3
<1>5. Weak' = Weak
  BY DEF Weak
<1>6. Linking(t)' /\ PixelOf(t)' = PixelOf(t)
  BY DEF Linking, InLoop, Team, Block, PixelOf, PixelAt, Iteration, Before
<1>7. r[1].pixel = PixelOf(t)
  <2>1. CASE n = 1
    BY <1>1, <1>2, <2>1
  <2>2. CASE n # 1
    <3>1. 1 \in 1 .. n - 1
      <4>1. n \in Nat /\ n > 0
        BY <1>1
      <4> HIDE DEF n
      <4> QED BY <2>2, <4>1
    <3> QED BY <1>1, <1>2, <3>1
  <2> QED BY <2>1, <2>2
<1>8. \A i \in 1 .. n : r[i].pc = "sides" => r[i].pixel \in Weak
  <2>1. \A i \in 1 .. n : i = n \/ i \in 1 .. n - 1
    BY <1>1
  <2> QED BY <1>1, <1>2, <2>1
<1>9. CallsShape(t)'
  BY <1>2, <1>4, <1>5, <1>6, <1>7, <1>8 DEF CallsShape
<1> QED BY <1>4, <1>9

(* An iteration at a strong pixel keeps the invariant. *)
LEMMA SkipStrongShape ==
  ASSUME Inductive, NEW t \in Team, SkipStrong(t), UNCHANGED convolutionVars
  PROVE  Inductive'
<1>1. /\ Linking(t) /\ calls[t] = <<>> /\ PixelOf(t) \in strong /\ EndIteration(t)
      /\ team' = team /\ stage' = stage /\ image' = image /\ suppressed' = suppressed
      /\ calls' = calls /\ strong' = strong /\ edges' = edges
  BY DEF SkipStrong, trackingVars
<1>2. /\ strong \subseteq Weak /\ edges \in [Grid -> 0 .. 255] /\ calls \in [Threads -> Seq(Calls)]
      /\ t \in Threads
  BY TeamShape DEF Inductive, TypeOK, TrackingShape
<1>3. CallsShape(t)'
  <2>1. Len(calls'[t]) = 0
    BY <1>1
  <2>2. \A i \in 1 .. Len(calls'[t]) : FALSE
    BY <2>1
  <2> QED BY <1>1, <1>2, <2>2 DEF CallsShape
<1> QED BY <1>1, <1>2, <1>3, LinkingStepShape

(* An iteration that starts a walk, or none, keeps the invariant. *)
LEMMA CheckPixelShape ==
  ASSUME Inductive, NEW t \in Team, CheckPixel(t), UNCHANGED convolutionVars
  PROVE  Inductive'
<1> DEFINE call == Call(PixelOf(t), PixelOf(t))
<1>1. /\ Linking(t) /\ calls' = [calls EXCEPT ![t] = <<call>>]
      /\ team' = team /\ stage' = stage /\ image' = image /\ suppressed' = suppressed
      /\ strong' = strong /\ edges' = edges /\ done' = done
  BY DEF CheckPixel, loopVars
<1>2. /\ strong \subseteq Weak /\ edges \in [Grid -> 0 .. 255] /\ calls \in [Threads -> Seq(Calls)]
      /\ t \in Threads
  BY TeamShape DEF Inductive, TypeOK, TrackingShape
<1>3. call \in Calls /\ call.pixel = PixelOf(t) /\ call.pc = "look"
  BY <1>1, PixelOfInGrid DEF Call, Calls, Inductive
<1> HIDE DEF call
<1>4. /\ <<call>> \in Seq(Calls) /\ Len(<<call>>) = 1 /\ <<call>>[1] = call
  BY <1>3
<1>5. /\ calls' \in [Threads -> Seq(Calls)] /\ calls'[t] = <<call>>
      /\ \A u \in Threads : u # t => calls'[u] = calls[u]
  BY <1>1, <1>2, <1>4
<1>6. Linking(t)' /\ PixelOf(t)' = PixelOf(t)
  BY <1>1 DEF Linking, InLoop, Team, Block, PixelOf, PixelAt, Iteration, Before
<1>7. CallsShape(t)'
  <2>1. \A i \in 1 .. Len(calls'[t]) : calls'[t][i].pc = "look"
    BY <1>3, <1>4, <1>5
  <2>2. \A i \in 1 .. Len(calls'[t]) : calls'[t][i].pc # "sides"
    BY <2>1
  <2> QED BY <1>3, <1>4, <1>5, <1>6, <2>2 DEF CallsShape
<1> QED BY <1>1, <1>2, <1>5, <1>7, LinkingStepShape

(* The first look of a call keeps the invariant. *)
LEMMA LookShape ==
  ASSUME Inductive, NEW t \in Team, Look(t), UNCHANGED convolutionVars
  PROVE  Inductive'
<1>1. /\ Linking(t) /\ calls[t] # <<>>
      /\ team' = team /\ stage' = stage /\ image' = image /\ suppressed' = suppressed
      /\ strong' = strong /\ edges' = edges
  BY DEF Look, InCall
<1>2. strong \subseteq Weak /\ edges \in [Grid -> 0 .. 255]
  BY DEF Inductive, TypeOK, TrackingShape
<1>3. CASE Top(t).pixel \in strong /\ Return(t)
  BY <1>1, <1>2, <1>3, ReturnShape, LinkingStepShape
<1>4. CASE Update(t, [Top(t) EXCEPT !.pc = "mark"]) /\ UNCHANGED done
  <2> DEFINE call == [Top(t) EXCEPT !.pc = "mark"]
  <2>1. call \in Calls /\ call.pixel = Top(t).pixel /\ call.pc = "mark"
    BY <1>1, TopShape DEF Calls
  <2>2. Update(t, call) /\ done' = done
    BY <1>4
  <2> HIDE DEF call
  <2>3. /\ calls' \in [Threads -> Seq(Calls)]
        /\ \A u \in Threads : u # t => calls'[u] = calls[u]
        /\ CallsShape(t)'
    BY <1>1, <2>1, <2>2, UpdateShape
  <2> QED BY <1>1, <1>2, <2>2, <2>3, LinkingStepShape
<1> QED BY <1>3, <1>4 DEF Look

(* The pixels a call at a pixel inside may go to are of the image. *)
LEMMA SidesInGrid ==
  ASSUME NEW p \in Inner, NEW prev \in Grid
  PROVE  Sides(p, prev) \in SUBSET Grid
<1>1. p[1] \in 1 .. Rows - 2 /\ p[2] \in 1 .. Cols - 2 /\ Rows \in Nat /\ Cols \in Nat
  BY GridShape
<1>2. /\ p[1] - 1 \in 0 .. Rows - 1 /\ p[1] \in 0 .. Rows - 1
      /\ p[2] - 1 \in 0 .. Cols - 1 /\ p[2] \in 0 .. Cols - 1
  BY <1>1
<1> QED BY <1>2 DEF Sides, Grid

(* The marking of a weak pixel keeps the invariant. *)
LEMMA MarkWeakShape ==
  ASSUME Inductive, NEW t \in Team, MarkWeak(t), UNCHANGED convolutionVars
  PROVE  Inductive'
<1> DEFINE call == [Top(t) EXCEPT !.pc = "sides", !.sides = Sides(Top(t).pixel, Top(t).prev)]
<1>1. /\ Linking(t) /\ calls[t] # <<>> /\ Top(t).pixel \in Weak
      /\ team' = team /\ stage' = stage /\ image' = image /\ suppressed' = suppressed
      /\ strong' = strong \union {Top(t).pixel} /\ edges' = edges /\ done' = done
      /\ Update(t, call)
  BY DEF MarkWeak, InCall, loopVars
<1>2. strong' \subseteq Weak /\ edges \in [Grid -> 0 .. 255]
  BY <1>1 DEF Inductive, TypeOK, TrackingShape
<1>3. Top(t) \in Calls
  BY <1>1, TopShape
<1>4. Sides(Top(t).pixel, Top(t).prev) \in SUBSET Grid
  BY <1>1, <1>3, WeakIsInner, SidesInGrid DEF Calls
<1>5. call \in Calls /\ call.pixel = Top(t).pixel
  BY <1>3, <1>4 DEF Calls
<1> HIDE DEF call
<1>6. /\ calls' \in [Threads -> Seq(Calls)]
      /\ \A u \in Threads : u # t => calls'[u] = calls[u]
      /\ CallsShape(t)'
  BY <1>1, <1>5, UpdateShape
<1> QED BY <1>1, <1>2, <1>6, LinkingStepShape

(* The clearing of a pixel keeps the invariant. *)
LEMMA ClearShape ==
  ASSUME Inductive, NEW t \in Team, Clear(t), UNCHANGED convolutionVars
  PROVE  Inductive'
<1>1. /\ Linking(t) /\ calls[t] # <<>> /\ Top(t).pixel \notin Weak /\ Return(t)
      /\ team' = team /\ stage' = stage /\ image' = image /\ suppressed' = suppressed
      /\ strong' = strong \ {Top(t).pixel} /\ edges' = [edges EXCEPT ![Top(t).pixel] = 0]
  BY DEF Clear, InCall
<1>2. strong' \subseteq Weak /\ edges \in [Grid -> 0 .. 255]
  BY <1>1 DEF Inductive, TypeOK, TrackingShape
<1>3. Top(t).pixel \in Grid
  BY <1>1, TopShape DEF Calls
<1>4. /\ edges' \in [Grid -> 0 .. 255] /\ edges'[Top(t).pixel] = 0
      /\ \A p \in Grid : edges'[p] = edges[p] \/ (edges'[p] = 0 /\ p \notin Weak)
  BY <1>1, <1>2, <1>3
<1> QED BY <1>1, <1>2, <1>4, ReturnShape, LinkingStepShape

(* A call that goes on has one side less to go to, and the next above it.   *)
GoesTo(t, side) ==
  calls' = [calls EXCEPT ![t] =
    Append([calls[t] EXCEPT ![Len(calls[t])].sides = @ \ {side}], Call(side, Top(t).pixel))]

(* A call that makes another: the stack of the walk, call by call. *)
LEMMA GoOnCalls ==
  ASSUME Inductive, NEW t \in Team, Linking(t), calls[t] # <<>>, NEW side \in Top(t).sides,
         GoesTo(t, side), NEW n \in Nat, n = Len(calls[t])
  PROVE  /\ calls' \in [Threads -> Seq(Calls)] /\ Len(calls'[t]) = n + 1
         /\ calls'[t][n + 1] = Call(side, Top(t).pixel)
         /\ calls'[t][n] = [Top(t) EXCEPT !.sides = @ \ {side}]
         /\ \A i \in 1 .. n - 1 : calls'[t][i] = calls[t][i]
         /\ \A u \in Threads : u # t => calls'[u] = calls[u]
         /\ side \in Grid /\ n > 0
<1>1. /\ t \in Threads /\ calls[t] \in Seq(Calls) /\ n > 0
      /\ Top(t) \in Calls /\ Top(t) = calls[t][n]
  BY TopShape
<1> DEFINE s == calls[t]
           top == [Top(t) EXCEPT !.sides = @ \ {side}]
           r == [s EXCEPT ![n] = top]
           call == Call(side, Top(t).pixel)
           q == Append(r, call)
<1>2. top \in Calls /\ side \in Grid /\ Top(t).pixel \in Grid
  BY <1>1 DEF Calls
<1>3. call \in Calls
  BY <1>2 DEF Call, Calls
<1>4. [s EXCEPT ![n].sides = @ \ {side}] = r
  BY <1>1
<1>5. calls' = [calls EXCEPT ![t] = Append([s EXCEPT ![n].sides = @ \ {side}], call)]
  BY DEF GoesTo
<1> HIDE DEF top, call
<1>6. calls' = [calls EXCEPT ![t] = q]
  BY <1>4, <1>5
<1>7. /\ r \in Seq(Calls) /\ Len(r) = n /\ r[n] = top
      /\ \A i \in 1 .. n - 1 : r[i] = s[i]
  BY <1>1, <1>2, ReplaceLast
<1> HIDE DEF r
<1>8. /\ q \in Seq(Calls) /\ Len(q) = n + 1 /\ q[n + 1] = call
      /\ \A i \in 1 .. n : q[i] = r[i]
  BY <1>3, <1>7, AppendOf
<1> HIDE DEF q
<1>9. /\ calls' \in [Threads -> Seq(Calls)] /\ calls'[t] = q
      /\ \A u \in Threads : u # t => calls'[u] = calls[u]
  BY <1>1, <1>6, <1>8 DEF Inductive, TrackingShape
<1>10. \A i \in 1 .. n - 1 : i \in 1 .. n
  OBVIOUS
<1>11. q[n] = top /\ \A i \in 1 .. n - 1 : q[i] = s[i]
  BY <1>1, <1>7, <1>8, <1>10
<1> QED BY <1>1, <1>2, <1>8, <1>9, <1>11 DEF top, call

(* A call that makes another, or returns, keeps the invariant. *)
LEMMA GoOnShape ==
  ASSUME Inductive, NEW t \in Team, GoOn(t), UNCHANGED convolutionVars
  PROVE  Inductive'
<1>1. /\ Linking(t) /\ calls[t] # <<>> /\ Top(t).pc = "sides"
      /\ team' = team /\ stage' = stage /\ image' = image /\ suppressed' = suppressed
      /\ strong' = strong /\ edges' = edges
  BY DEF GoOn, InCall
<1>2. /\ strong \subseteq Weak /\ edges \in [Grid -> 0 .. 255]
  BY DEF Inductive, TypeOK, TrackingShape
<1>3. /\ t \in Threads /\ Len(calls[t]) \in Nat /\ Len(calls[t]) > 0
      /\ Top(t) \in Calls /\ Top(t) = calls[t][Len(calls[t])]
      /\ calls[t][1].pixel = PixelOf(t) /\ Top(t).pixel \in Weak
      /\ \A i \in 1 .. Len(calls[t]) : calls[t][i].pc = "sides" => calls[t][i].pixel \in Weak
  BY <1>1, TopShape
<1>4. CASE Return(t)
  BY <1>1, <1>2, <1>3, <1>4, ReturnShape, LinkingStepShape
<1>5. ASSUME NEW side \in Top(t).sides, UNCHANGED done, GoesTo(t, side)
      PROVE  Inductive'
  <2> DEFINE s == calls[t]  n == Len(s)  q == calls'[t]
             top == [Top(t) EXCEPT !.sides = @ \ {side}]
             call == Call(side, Top(t).pixel)
  <2>1. top.pixel = Top(t).pixel /\ top.pc = Top(t).pc
    BY <1>3 DEF Calls
  <2>2. call.pc = "look"
    BY DEF Call
  <2>a. n \in Nat /\ n = Len(calls[t])
    BY <1>3
  <2> HIDE DEF top, call, n
  <2>3. /\ calls' \in [Threads -> Seq(Calls)] /\ Len(q) = n + 1
        /\ q[n + 1] = call /\ q[n] = top
        /\ \A i \in 1 .. n - 1 : q[i] = s[i]
        /\ \A u \in Threads : u # t => calls'[u] = calls[u]
    BY <1>1, <1>5, <2>a, GoOnCalls DEF top, call
  <2>4. q \in Seq(Calls)
    BY <1>3, <2>3
  <2>8. n \in Nat /\ n > 0
    BY <1>3 DEF n
  <2>9. \A i \in 1 .. n + 1 : i = n + 1 \/ i = n \/ i \in 1 .. n - 1
    BY <2>8
  <2>10. \A i \in 1 .. n - 1 : i \in 1 .. n
    BY <2>8
  <2>12. q[1].pixel = PixelOf(t)
    <3>1. CASE n = 1
      BY <1>3, <2>1, <2>3, <3>1 DEF n
    <3>2. CASE n # 1
      <4>1. 1 \in 1 .. n - 1
        BY <2>8, <3>2
      <4> QED BY <1>3, <2>3, <4>1
    <3> QED BY <3>1, <3>2
  <2>13. ASSUME NEW i \in 1 .. n + 1, q[i].pc = "sides" PROVE q[i].pixel \in Weak
    <3>1. CASE i = n + 1
      BY <2>2, <2>3, <2>13, <3>1
    <3>2. CASE i = n
      BY <1>3, <2>1, <2>3, <3>2
    <3>3. CASE i \in 1 .. n - 1
      <4>1. q[i] = s[i] /\ i \in 1 .. Len(calls[t])
        BY <2>3, <2>10, <3>3 DEF n
      <4> QED BY <1>3, <2>13, <4>1
    <3> QED BY <2>9, <3>1, <3>2, <3>3
  <2>14. Linking(t)' /\ PixelOf(t)' = PixelOf(t)
    BY <1>1, <1>5 DEF Linking, InLoop, Team, Block, PixelOf, PixelAt, Iteration, Before
  <2>15. Weak' = Weak
    BY <1>1 DEF Weak
  <2>16. CallsShape(t)'
    BY <2>3, <2>4, <2>12, <2>13, <2>14, <2>15 DEF CallsShape
  <2> QED BY <1>1, <1>2, <1>3, <1>5, <2>3, <2>16, LinkingStepShape
<1> QED BY <1>4, <1>5 DEF GoOn, GoesTo

(* The end of the linking keeps the invariant. *)
LEMMA EndLinkingShape ==
  ASSUME Inductive, EndLinking, UNCHANGED convolutionVars
  PROVE  Inductive'
<1> USE DEF Inductive
<1>0. /\ stage = "link" /\ \A t \in Team : done[t] = Block(t, Rows * Cols)
      /\ NextLoop("done") /\ team' = team /\ UNCHANGED trackingVars
  BY DEF EndLinking, EndLoop
<1>1. /\ \A t \in Threads : at[t] = "next" /\ left[t] = <<>> /\ held[t] = <<>>
      /\ \A a \in Accumulators : accum[a] = 0
  BY <1>0, NobodyInside DEF PixelLoops
<1>2. /\ done' \in [Threads -> Int] /\ stage' = "done"
      /\ \A u \in Threads : (done[u] \in 0 .. Block(u, Iterations(stage)))'
      /\ (\A t \in Threads : ThreadShape(t))'
      /\ SumsAreReset'
      /\ (\A t \in Team : AloneShape(t))'
      /\ \A t \in Threads : done'[t] = 0
  BY <1>0, <1>1, NextLoopShape DEF Stages, convolutionVars
<1>3. TypeOK'
  BY <1>0, <1>2 DEF TypeOK, Stages, convolutionVars, trackingVars
<1>4. ConvolutionShape'
  <2>1. InexactShape'
    BY <1>0, <1>2 DEF ConvolutionShape, InexactShape, PixelLoops, convolutionVars
  <2>2. KernelShape'
    BY <1>2 DEF KernelShape
  <2> QED BY <1>2, <2>1, <2>2 DEF ConvolutionShape
<1>5. \A t \in Threads : calls[t] = <<>>
  <2> SUFFICES ASSUME NEW t \in Threads, calls[t] # <<>> PROVE FALSE
    OBVIOUS
  <2>1. Linking(t)
    BY DEF TrackingShape, CallsShape
  <2>2. Block(t, Rows * Cols) \in Nat
    BY BlockNat, LoopLengths DEF TypeOK
  <2> QED BY <1>0, <2>1, <2>2 DEF Linking, InLoop
<1>6. Weak' = Weak
  BY <1>0 DEF Weak, trackingVars
<1>7. ASSUME NEW t \in Threads PROVE CallsShape(t)'
  <2>1. calls'[t] = <<>>
    BY <1>0, <1>5 DEF trackingVars
  <2>2. <<>> \in Seq(Calls) /\ Len(<<>>) = 0
    OBVIOUS
  <2>3. \A i \in 1 .. Len(calls'[t]) : FALSE
    BY <2>1, <2>2
  <2> QED BY <2>1, <2>2, <2>3 DEF CallsShape
<1>8. ASSUME NEW p \in Grid PROVE p \in Weak \/ edges[p] = 0
  <2> DEFINE n == Rows * Cols
  <2>1. PICK k \in 1 .. n : PixelAt(k) = p
    BY PixelAtOnto
  <2>2. PICK t \in Team : Before(t, n) < k /\ k <= Before(t, n) + Block(t, n)
    BY BlockCover, LoopLengths DEF TypeOK
  <2>3. Before(t, n) \in Nat /\ Block(t, n) \in Nat /\ done[t] = Block(t, n) /\ n \in Nat
    BY <1>0, BlockNat, LoopLengths, TeamShape DEF TypeOK
  <2> DEFINE j == k - Before(t, n)
  <2>4. j \in 1 .. done[t] /\ Before(t, n) + j = k
    BY <2>2, <2>3
  <2>5. Linked(PixelAt(Before(t, n) + j))
    BY <1>0, <2>4 DEF TrackingShape
  <2> QED BY <2>1, <2>4, <2>5 DEF Linked
<1>9. (\A p \in Grid : Linked(p))'
  BY <1>0, <1>6, <1>8 DEF Linked, trackingVars
<1>10. (\A p \in Inner : Strongest(p) => suppressed[p] = image.magnitude[p])'
  BY <1>0 DEF TrackingShape, Strongest, trackingVars
<1>11. TrackingShape'
  BY <1>0, <1>2, <1>6, <1>7, <1>9, <1>10 DEF TrackingShape, trackingVars
<1> QED BY <1>3, <1>4, <1>11

-------------------------------------------------------------------------------
(***************************************************************************)
(* The way of a walk.                                                      *)
(***************************************************************************)
LEMMA OtherWalk ==
  ASSUME NEW u \in Threads, calls'[u] = calls[u], WalkShape(u)
  PROVE  WalkShape(u)'
BY DEF WalkShape, Shift

(* A thread without calls has nothing to show for its way. *)
LEMMA NoWalk ==
  ASSUME NEW u \in Threads, calls[u] = <<>>
  PROVE  WalkShape(u)
<1>1. \A i \in 1 .. Len(calls[u]) : FALSE
  OBVIOUS
<1> QED BY <1>1 DEF WalkShape

(* Where a pixel is that many calls up. *)
LEMMA ShiftShift ==
  ASSUME NEW p \in Grid, NEW n \in Nat
  PROVE  /\ Shift(Shift(p, 1 - n, 1 - n), -1, -1) = Shift(p, 1 - (n + 1), 1 - (n + 1))
         /\ Shift(p, 1 - 1, 1 - 1) = p
<1>1. p[1] \in Int /\ p[2] \in Int /\ p = <<p[1], p[2]>>
  BY GridShape
<1>2. \A a \in Int : a + (1 - n) + -1 = a + (1 - (n + 1)) /\ a + (1 - 1) = a
  OBVIOUS
<1> QED BY <1>1, <1>2 DEF Shift

(* A call goes nowhere but up and left. *)
LEMMA SidesOf ==
  ASSUME NEW p \in Grid, NEW q
  PROVE  Sides(p, q) \subseteq {Shift(p, -1, -1)}
<1>1. p[1] \in Int /\ p[2] \in Int
  BY GridShape
<1>2. p[1] - 1 = p[1] + -1 /\ p[2] - 1 = p[2] + -1
  BY <1>1
<1> QED BY <1>2 DEF Sides, Shift

(* The outermost call is somewhere in the image. *)
LEMMA FirstInGrid ==
  ASSUME Inductive, NEW t \in Team, Linking(t), calls[t] # <<>>
  PROVE  /\ calls[t][1].pixel \in Grid /\ 1 \in 1 .. Len(calls[t])
         /\ Len(calls[t]) \in 1 .. Len(calls[t])
         /\ Top(t).pixel \in Grid /\ Top(t).prev \in Grid
<1>1. calls[t] \in Seq(Calls) /\ Len(calls[t]) \in Nat /\ Len(calls[t]) > 0 /\ Top(t) \in Calls
  BY TopShape
<1>2. 1 \in 1 .. Len(calls[t]) /\ Len(calls[t]) \in 1 .. Len(calls[t])
  BY <1>1
<1>3. calls[t][1] \in Calls
  BY <1>1, <1>2
<1> QED BY <1>1, <1>2, <1>3 DEF Calls

(* Of a call that changes, only the place in the code and the sides do. *)
LEMMA WalkUpdate ==
  ASSUME Inductive, NEW t \in Team, Linking(t), calls[t] # <<>>, WalkShape(t),
         NEW call \in Calls, Update(t, call),
         call.pixel = Top(t).pixel, call.sides \subseteq {Shift(Top(t).pixel, -1, -1)}
  PROVE  WalkShape(t)'
<1> DEFINE s == calls[t]  n == Len(s)  r == [s EXCEPT ![Len(s)] = call]
<1>1. /\ t \in Threads /\ s \in Seq(Calls) /\ n \in Nat /\ n > 0 /\ Top(t) = s[n]
  BY TopShape
<1>2. /\ r \in Seq(Calls) /\ Len(r) = n /\ r[n] = call
      /\ \A i \in 1 .. n - 1 : r[i] = s[i]
  BY <1>1, ReplaceLast
<1>3. calls'[t] = r
  BY <1>1 DEF Update, Inductive, TrackingShape
<1> HIDE DEF r
<1>4. \A i \in 1 .. n : /\ s[i].pixel = Shift(s[1].pixel, 1 - i, 1 - i)
                        /\ s[i].sides \subseteq {Shift(s[i].pixel, -1, -1)}
                        /\ i < n => s[i].pc = "sides" /\ s[i].sides = {}
  BY DEF WalkShape
<1>5. r[1].pixel = s[1].pixel
  <2>1. CASE n = 1
    BY <1>1, <1>2, <2>1
  <2>2. CASE n # 1
    <3>1. 1 \in 1 .. n - 1
      <4> HIDE DEF n
      <4> QED BY <1>1, <2>2
    <3> QED BY <1>2, <3>1
  <2> QED BY <2>1, <2>2
<1>6. ASSUME NEW i \in 1 .. n
      PROVE  /\ r[i].pixel = Shift(r[1].pixel, 1 - i, 1 - i)
             /\ r[i].sides \subseteq {Shift(r[i].pixel, -1, -1)}
             /\ i < n => r[i].pc = "sides" /\ r[i].sides = {}
  <2>1. CASE i = n
    <3>1. s[i].pixel = call.pixel /\ r[i] = call /\ ~ (i < n)
      BY <1>1, <1>2, <2>1
    <3> HIDE DEF n
    <3> QED BY <1>4, <1>5, <3>1
  <2>2. CASE i # n
    <3>1. i \in 1 .. n - 1
      <4> HIDE DEF n
      <4> QED BY <1>1, <2>2
    <3> QED BY <1>2, <1>4, <1>5, <3>1
  <2> QED BY <2>1, <2>2
<1> QED BY <1>2, <1>3, <1>6 DEF WalkShape, Shift

(* A return leaves the way of the calls before. *)
LEMMA WalkReturn ==
  ASSUME Inductive, NEW t \in Team, Linking(t), calls[t] # <<>>, WalkShape(t), Return(t)
  PROVE  WalkShape(t)'
<1> DEFINE s == calls[t]  n == Len(s)  r == SubSeq(s, 1, Len(s) - 1)
<1>1. /\ t \in Threads /\ s \in Seq(Calls) /\ n \in Nat /\ n > 0
  BY TopShape
<1>2. /\ r \in Seq(Calls) /\ Len(r) = n - 1
      /\ \A i \in 1 .. n - 1 : r[i] = s[i]
  BY <1>1, FrontOf
<1>3. calls'[t] = r
  BY <1>1 DEF Return, Inductive, TrackingShape
<1> HIDE DEF r
<1>4. \A i \in 1 .. n : /\ s[i].pixel = Shift(s[1].pixel, 1 - i, 1 - i)
                        /\ s[i].sides \subseteq {Shift(s[i].pixel, -1, -1)}
                        /\ i < n => s[i].pc = "sides" /\ s[i].sides = {}
  BY DEF WalkShape
<1>5. ASSUME NEW i \in 1 .. n - 1
      PROVE  /\ r[i].pixel = Shift(r[1].pixel, 1 - i, 1 - i)
             /\ r[i].sides \subseteq {Shift(r[i].pixel, -1, -1)}
             /\ r[i].pc = "sides" /\ r[i].sides = {}
  <2>1. i \in 1 .. n /\ i < n /\ 1 \in 1 .. n - 1
    <3> HIDE DEF n
    <3> QED BY <1>1
  <2>2. r[i] = s[i] /\ r[1] = s[1]
    BY <1>2, <2>1
  <2> QED BY <1>4, <2>1, <2>2
<1> QED BY <1>2, <1>3, <1>5 DEF WalkShape, Shift

(* A call that makes another goes on with the way. *)
LEMMA WalkGoesTo ==
  ASSUME Inductive, NEW t \in Team, Linking(t), calls[t] # <<>>, WalkShape(t),
         Top(t).pc = "sides", NEW side \in Top(t).sides, GoesTo(t, side)
  PROVE  WalkShape(t)'
<1> DEFINE s == calls[t]  n == Len(s)  q == calls'[t]  p == s[1].pixel
<1>0. n \in Nat /\ n = Len(calls[t])
  BY TopShape
<1>1. /\ Len(q) = n + 1 /\ q[n + 1] = Call(side, Top(t).pixel)
      /\ q[n] = [Top(t) EXCEPT !.sides = @ \ {side}]
      /\ \A i \in 1 .. n - 1 : q[i] = s[i]
      /\ n > 0
  <2> HIDE DEF n
  <2> QED BY <1>0, GoOnCalls
<1>2. \A i \in 1 .. n : /\ s[i].pixel = Shift(p, 1 - i, 1 - i)
                        /\ s[i].sides \subseteq {Shift(s[i].pixel, -1, -1)}
                        /\ i < n => s[i].pc = "sides" /\ s[i].sides = {}
  BY DEF WalkShape
<1>3. Top(t) = s[n] /\ Top(t) \in Calls /\ p \in Grid
  BY TopShape, FirstInGrid
<1>4. Top(t).pixel = Shift(p, 1 - n, 1 - n) /\ Top(t).sides = {Shift(Top(t).pixel, -1, -1)}
      /\ side = Shift(Top(t).pixel, -1, -1)
  <2>1. n \in 1 .. n
    BY <1>0, <1>1
  <2> QED BY <1>2, <1>3, <2>1
<1>5. /\ q[n].pixel = Top(t).pixel /\ q[n].sides = {} /\ q[n].pc = "sides"
      /\ q[n + 1].pixel = side /\ q[n + 1].sides = {}
  BY <1>1, <1>3, <1>4 DEF Calls, Call
<1>6. q[n + 1].pixel = Shift(p, 1 - (n + 1), 1 - (n + 1))
  BY <1>0, <1>3, <1>4, <1>5, ShiftShift
<1> HIDE DEF n, p
<1>7. q[1].pixel = p
  <2>1. CASE n = 1
    BY <1>3, <1>5, <2>1 DEF p
  <2>2. CASE n # 1
    <3>1. 1 \in 1 .. n - 1
      <4>1. n \in Nat /\ n > 0
        BY <1>0, <1>1
      <4> QED BY <2>2, <4>1
    <3> QED BY <1>1, <3>1 DEF p
  <2> QED BY <2>1, <2>2
<1>8. ASSUME NEW i \in 1 .. n + 1
      PROVE  /\ q[i].pixel = Shift(q[1].pixel, 1 - i, 1 - i)
             /\ q[i].sides \subseteq {Shift(q[i].pixel, -1, -1)}
             /\ i < n + 1 => q[i].pc = "sides" /\ q[i].sides = {}
  <2>1. CASE i = n + 1
    BY <1>5, <1>6, <1>7, <2>1
  <2>2. CASE i = n
    BY <1>4, <1>5, <1>7, <2>2
  <2>3. CASE i \in 1 .. n - 1
    <3>1. i \in 1 .. n /\ i < n
      BY <1>0, <2>3
    <3> QED BY <1>1, <1>2, <1>7, <2>3, <3>1
  <2> QED BY <1>0, <2>1, <2>2, <2>3
<1> QED BY <1>1, <1>8 DEF WalkShape, Shift

(* Every step of the linking leaves the walks on their way. *)
LEMMA WalkStep ==
  ASSUME Inductive, NEW t \in Team, TrackingStep(t), \A u \in Threads : WalkShape(u)
  PROVE  \A u \in Threads : WalkShape(u)'
<1>0. t \in Threads /\ Linking(t) /\ WalkShape(t) /\ calls \in [Threads -> Seq(Calls)]
  <2>1. Linking(t)
    BY DEF TrackingStep, SkipStrong, CheckPixel, Look, MarkWeak, Clear, GoOn, InCall
  <2> QED BY <2>1, TeamShape DEF Inductive, TypeOK, TrackingShape
<1>a. ASSUME \A u \in Threads : u # t => calls'[u] = calls[u], WalkShape(t)'
      PROVE  \A u \in Threads : WalkShape(u)'
  BY <1>a, OtherWalk
<1>1. CASE SkipStrong(t)
  BY <1>1, OtherWalk DEF SkipStrong, trackingVars
<1>2. CASE CheckPixel(t)
  <2>1. /\ calls'[t] = <<Call(PixelOf(t), PixelOf(t))>>
        /\ \A u \in Threads : u # t => calls'[u] = calls[u]
    BY <1>0, <1>2 DEF CheckPixel
  <2>2. PixelOf(t) \in Grid
    BY <1>0, PixelOfInGrid DEF Inductive
  <2>3. Shift(PixelOf(t), 1 - 1, 1 - 1) = PixelOf(t)
    BY <2>2, ShiftShift
  <2>4. WalkShape(t)'
    <3>1. /\ Len(calls'[t]) = 1 /\ calls'[t][1].pixel = PixelOf(t) /\ calls'[t][1].sides = {}
      BY <2>1 DEF Call
    <3>2. \A i \in 1 .. 1 : i = 1
      OBVIOUS
    <3> QED BY <2>3, <3>1, <3>2 DEF WalkShape, Shift
  <2> QED BY <1>a, <2>1, <2>4
<1>3. ASSUME calls[t] # <<>>, Return(t)  PROVE \A u \in Threads : WalkShape(u)'
  <2>1. \A u \in Threads : u # t => calls'[u] = calls[u]
    BY <1>0, <1>3 DEF Return
  <2> QED BY <1>0, <1>a, <1>3, <2>1, WalkReturn
<1>4. ASSUME calls[t] # <<>>, NEW call \in Calls, Update(t, call),
             call.pixel = Top(t).pixel, call.sides \subseteq {Shift(Top(t).pixel, -1, -1)}
      PROVE  \A u \in Threads : WalkShape(u)'
  <2>1. \A u \in Threads : u # t => calls'[u] = calls[u]
    BY <1>0, <1>4 DEF Update
  <2> QED BY <1>0, <1>a, <1>4, <2>1, WalkUpdate
<1>5. ASSUME calls[t] # <<>>
      PROVE  /\ Top(t) \in Calls /\ Top(t).pixel \in Grid /\ Top(t).prev \in Grid
             /\ Top(t).sides \subseteq {Shift(Top(t).pixel, -1, -1)}
  <2>1. Top(t) \in Calls /\ Top(t) = calls[t][Len(calls[t])]
    BY <1>0, <1>5, TopShape
  <2> QED BY <1>0, <1>5, <2>1, FirstInGrid DEF WalkShape
<1>6. CASE Look(t)
  <2>1. calls[t] # <<>>
    BY <1>6 DEF Look, InCall
  <2>2. ASSUME Update(t, [Top(t) EXCEPT !.pc = "mark"])  PROVE \A u \in Threads : WalkShape(u)'
    <3> DEFINE call == [Top(t) EXCEPT !.pc = "mark"]
    <3>1. call \in Calls /\ call.pixel = Top(t).pixel /\ call.sides = Top(t).sides
      BY <1>5, <2>1 DEF Calls
    <3> QED BY <1>4, <1>5, <2>1, <2>2, <3>1
  <2> QED BY <1>3, <1>6, <2>1, <2>2 DEF Look
<1>7. CASE MarkWeak(t)
  <2> DEFINE around == Sides(Top(t).pixel, Top(t).prev)
             call == [Top(t) EXCEPT !.pc = "sides", !.sides = around]
  <2>1. calls[t] # <<>> /\ Update(t, call)
    BY <1>7 DEF MarkWeak, InCall
  <2>2. around \subseteq {Shift(Top(t).pixel, -1, -1)}
    BY <1>5, <2>1, SidesOf
  <2>3. around \in SUBSET Grid
    BY <1>5, <1>7, <2>1, SidesInGrid, WeakIsInner DEF MarkWeak
  <2> HIDE DEF around
  <2>4. call \in Calls /\ call.pixel = Top(t).pixel /\ call.sides = around
    BY <1>5, <2>1, <2>3 DEF Calls
  <2> HIDE DEF call
  <2> QED BY <1>4, <2>1, <2>2, <2>4
<1>8. CASE Clear(t)
  BY <1>3, <1>8 DEF Clear, InCall
<1>9. CASE GoOn(t)
  <2>1. calls[t] # <<>> /\ Top(t).pc = "sides"
    BY <1>9 DEF GoOn, InCall
  <2>2. ASSUME NEW side \in Top(t).sides, GoesTo(t, side)  PROVE \A u \in Threads : WalkShape(u)'
    <3>1. \A u \in Threads : u # t => calls'[u] = calls[u]
      BY <1>0, <2>2 DEF GoesTo
    <3> QED BY <1>0, <1>a, <2>1, <2>2, <3>1, WalkGoesTo
  <2> QED BY <1>3, <1>9, <2>1, <2>2 DEF GoOn, GoesTo
<1> QED BY <1>1, <1>2, <1>6, <1>7, <1>8, <1>9 DEF TrackingStep

(* Every step keeps the ways of all walks. *)
LEMMA WalksShape ==
  Inductive /\ (\A u \in Threads : WalkShape(u)) /\ [Next]_vars => (\A u \in Threads : WalkShape(u))'
<1> SUFFICES ASSUME Inductive, \A u \in Threads : WalkShape(u), [Next]_vars
             PROVE \A u \in Threads : WalkShape(u)'
  OBVIOUS
<1>1. ASSUME NEW t \in Team, TrackingStep(t)  PROVE \A u \in Threads : WalkShape(u)'
  BY <1>1, WalkStep
<1>2. ASSUME calls' = calls  PROVE \A u \in Threads : WalkShape(u)'
  BY <1>2, OtherWalk
<1>3. \/ \E t \in Team : TrackingStep(t)
      \/ calls' = calls
  <2>1. CASE ConvolutionPhase
    BY <2>1 DEF ConvolutionPhase, trackingVars
  <2>2. CASE SuppressionPhase
    BY <2>2 DEF SuppressionPhase, Suppress
  <2>3. CASE LinkingPhase
    BY <2>3 DEF LinkingPhase, EndLinking, trackingVars
  <2>4. CASE UNCHANGED vars
    BY <2>4 DEF vars, trackingVars
  <2> QED BY <2>1, <2>2, <2>3, <2>4 DEF Next, Returned
<1> QED BY <1>1, <1>2, <1>3

(* No walk is under way at the start. *)
LEMMA WalkInit == Init => \A u \in Threads : WalkShape(u)
<1>1. Init => \A u \in Threads : calls[u] = <<>>
  BY DEF Init, TrackingInit
<1> QED BY <1>1, NoWalk

-------------------------------------------------------------------------------
(***************************************************************************)
(* The kernel's sum, for kernels of any size.                              *)
(***************************************************************************)
LEMMA AddedFinite ==
  /\ IsFiniteSet(1 .. Len(Weights)) /\ DOMAIN Weights = 1 .. Len(Weights)
  /\ Added \subseteq 1 .. Len(Weights) /\ IsFiniteSet(Added)
  /\ \A i \in 1 .. Len(Weights) : Weights[i] \in Nat /\ Weights[i] \in Int
<1>1. DOMAIN Weights = 1 .. Len(Weights)
  BY ConvolutionAssumption
<1>2. IsFiniteSet(1 .. Len(Weights))
  BY FS_Interval, LoopLengths
<1>3. Added \subseteq 1 .. Len(Weights)
  BY DEF Added
<1>4. IsFiniteSet(Added)
  BY <1>2, <1>3, FS_Subset
<1>5. \A i \in 1 .. Len(Weights) : Weights[i] \in Nat /\ Weights[i] \in Int
  BY LoopLengths
<1> QED BY <1>1, <1>2, <1>3, <1>4, <1>5

(* What has been added is no more than what there is to add. *)
LEMMA AddedAtMost == AddedWeight \in Int /\ TotalWeight \in Int /\ AddedWeight <= TotalWeight
<1>1. TotalWeight = SumFunctionOnSet(Weights, 1 .. Len(Weights))
  BY AddedFinite DEF TotalWeight, SumFunction
<1>2. SumFunctionOnSet(Weights, Added) <= SumFunctionOnSet(Weights, 1 .. Len(Weights))
  BY AddedFinite, SumMonotone
<1>3. /\ SumFunctionOnSet(Weights, Added) \in Int
      /\ SumFunctionOnSet(Weights, 1 .. Len(Weights)) \in Int
  BY AddedFinite, SumType
<1> QED BY <1>1, <1>2, <1>3 DEF AddedWeight

(* After the last iteration of each thread all has been added. *)
LEMMA AllAdded ==
  ASSUME team \in 1 .. MaxTeam, \A t \in Team : done[t] = Block(t, Len(Weights))
  PROVE  AddedWeight = TotalWeight
<1>1. 1 .. Len(Weights) \subseteq Added
  BY BlockCover, LoopLengths DEF Added
<1>2. Added = 1 .. Len(Weights)
  BY <1>1, AddedFinite
<1> QED BY <1>2, AddedFinite DEF AddedWeight, TotalWeight, SumFunction

(* Before the first iteration nothing has. *)
LEMMA NoneAdded ==
  ASSUME team \in 1 .. MaxTeam, \A t \in Threads : done[t] = 0
  PROVE  AddedWeight = 0
<1>1. Added = {}
  <2> SUFFICES ASSUME NEW i \in 1 .. Len(Weights), NEW t \in Team,
                      Before(t, Len(Weights)) < i, i <= Before(t, Len(Weights)) + done[t]
               PROVE FALSE
    BY DEF Added
  <2>1. Before(t, Len(Weights)) \in Nat /\ done[t] = 0
    BY BlockNat, TeamShape, LoopLengths
  <2> QED BY <2>1
<1> QED BY <1>1, SumEmpty DEF AddedWeight

(* A thread that ends an iteration has added the weight of its cell, which  *)
(* nobody had before.                                                       *)
LEMMA OneMoreAdded ==
  ASSUME Inductive, NEW t \in Team, AddCell(t)
  PROVE  AddedWeight' = AddedWeight + Weights[Iteration(t, Len(Weights))]
<1> DEFINE n == Len(Weights)  k == Iteration(t, n)
<1>0. /\ team \in 1 .. MaxTeam /\ team' = team /\ Team' = Team /\ n \in Nat
      /\ stage = "kernel" /\ done[t] < Block(t, n) /\ EndIteration(t)
      /\ \A u \in Team : done[u] \in Nat /\ done[u] <= Block(u, n) /\ Block(u, n) \in Nat
                         /\ Before(u, n) \in Nat /\ Before(u, n)' = Before(u, n)
  <2>1. team \in 1 .. MaxTeam /\ team' = team /\ stage = "kernel" /\ n \in Nat
    BY LoopLengths DEF AddCell, InLoop, Inductive, TypeOK
  <2>2. \A u \in Team : done[u] \in 0 .. Block(u, n)
    BY <2>1, TeamShape, LoopLengths DEF Inductive, TypeOK
  <2>3. \A u \in Team : Block(u, n) \in Nat /\ Before(u, n) \in Nat
    BY <2>1, BlockNat, TeamShape
  <2>4. \A u \in Team : Before(u, n)' = Before(u, n)
    BY <2>1 DEF Before
  <2> QED BY <2>1, <2>2, <2>3, <2>4 DEF AddCell, InLoop, Team
<1>1. /\ done'[t] = done[t] + 1
      /\ \A u \in Team : u # t => done'[u] = done[u]
  BY <1>0, TeamShape DEF EndIteration, Inductive, ConvolutionShape
<1>2. /\ k \in 1 .. n /\ k = Before(t, n) + done[t] + 1
      /\ Before(t, n) < k /\ k <= Before(t, n) + Block(t, n)
  BY <1>0, IterationInBlock DEF Iteration
<1>3. k \notin Added
  <2> SUFFICES ASSUME NEW u \in Team, Before(u, n) < k, k <= Before(u, n) + done[u]  PROVE FALSE
    BY DEF Added
  <2>1. CASE u = t
    BY <1>0, <1>2, <2>1
  <2>2. CASE u # t
    <3>1. k <= Before(u, n) + Block(u, n) /\ k \in Nat
      <4> HIDE DEF n, k
      <4> QED BY <1>0, <1>2
    <3> QED BY <1>0, <1>2, <2>2, <3>1, BlocksDiffer
  <2> QED BY <2>1, <2>2
<1>4. Added' = Added \union {k}
  <2> HIDE DEF k
  <2> DEFINE In(u, i) == Before(u, n) < i /\ i <= Before(u, n) + done[u]
             In2(u, i) == Before(u, n) < i /\ i <= Before(u, n) + done'[u]
  <2>1. /\ Added = {i \in 1 .. n : \E u \in Team : In(u, i)}
        /\ Added' = {i \in 1 .. n : \E u \in Team : In2(u, i)}
    BY <1>0 DEF Added
  <2>2. ASSUME NEW i \in 1 .. n, NEW u \in Team
        PROVE  In2(u, i) <=> In(u, i) \/ (u = t /\ i = k)
    <3>1. CASE u # t
      BY <1>1, <3>1
    <3>2. CASE u = t
      <4> DEFINE b == Before(t, n)  d == done[t]
      <4>1. b \in Nat /\ d \in Nat /\ k = b + d + 1 /\ done'[t] = d + 1
        BY <1>0, <1>1, <1>2
      <4> HIDE DEF b, d
      <4>2. b < i /\ i <= b + (d + 1) <=> (b < i /\ i <= b + d) \/ i = k
        BY <4>1
      <4> QED BY <3>2, <4>1, <4>2 DEF b, d
    <3> QED BY <3>1, <3>2
  <2> HIDE DEF In, In2
  <2> QED BY <1>2, <2>1, <2>2
<1> HIDE DEF k
<1>5. SumFunctionOnSet(Weights, Added \union {k}) = SumFunctionOnSet(Weights, Added) + Weights[k]
  <2>1. \A x \in Added \union {k} : Weights[x] \in Int
    BY <1>2, AddedFinite
  <2> QED BY <1>3, <2>1, AddedFinite, SumAdd
<1>6. AddedWeight' = SumFunctionOnSet(Weights, Added')
  BY DEF AddedWeight
<1> QED BY <1>4, <1>5, <1>6 DEF AddedWeight, k

(* A step that leaves the kernel's sum, and whoever adds to it, alone. *)
LEMMA WeightLeftAlone ==
  ASSUME WeightShape, UNCHANGED <<team, stage, kaccum>>,
         stage = "kernel" => /\ done' = done
                             /\ \A t \in Team : at'[t] = "add" => at[t] = "add" /\ held'[t] = held[t]
  PROVE  WeightShape'
<1>1. Team' = Team
  BY DEF Team
<1>2. stage = "kernel" => AddedWeight' = AddedWeight
  BY <1>1 DEF AddedWeight, Added, Before
<1> QED BY <1>1, <1>2 DEF WeightShape, TotalWeight

(* Nothing is counted at the start. *)
LEMMA WeightInit == Init => WeightShape
<1> SUFFICES ASSUME Init  PROVE WeightShape
  OBVIOUS
<1>1. /\ team \in 1 .. MaxTeam /\ stage = "kernel" /\ kaccum = 0
      /\ \A t \in Threads : done[t] = 0 /\ at[t] = "next"
  BY DEF Init, LoopInit, ConvolutionInit
<1>2. AddedWeight = 0
  BY <1>1, NoneAdded
<1> QED BY <1>1, <1>2, TeamShape DEF WeightShape

(* What a thread has read of kaccum is a sum of other cells. *)
LEMMA WeightReadKernelSum ==
  ASSUME Inductive, WeightShape, NEW t \in Team, ReadKernelSum(t)
  PROVE  WeightShape'
<1>1. /\ stage = "kernel" /\ stage' = stage /\ team' = team /\ done' = done /\ kaccum' = kaccum
      /\ team \in 1 .. MaxTeam /\ kaccum \in Nat
      /\ held' = [held EXCEPT ![t] = <<kaccum>>] /\ held \in [Threads -> Seq(Int)]
      /\ at' = [at EXCEPT ![t] = "add"]
      /\ at \in [Threads -> {"next", "add", "reduce", "read", "reset"}]
  BY DEF ReadKernelSum, InLoop, loopVars, Inductive, TypeOK
<1>2. AddedWeight' = AddedWeight /\ Team' = Team
  BY <1>1 DEF AddedWeight, Added, Before, Team
<1>3. /\ held'[t][1] = kaccum
      /\ \A u \in Team : u # t => at'[u] = at[u] /\ held'[u] = held[u]
  BY <1>1, TeamShape
<1> QED BY <1>1, <1>2, <1>3 DEF WeightShape

(* What a thread writes to kaccum has its own cell once more. *)
LEMMA WeightAddCell ==
  ASSUME Inductive, WeightShape, NEW t \in Team, AddCell(t)
  PROVE  WeightShape'
<1> DEFINE w == Weights[Iteration(t, Len(Weights))]
<1>1. /\ stage = "kernel" /\ stage' = stage /\ team' = team /\ at[t] = "add"
      /\ kaccum' = held[t][1] + w
      /\ held' = [held EXCEPT ![t] = <<>>] /\ held \in [Threads -> Seq(Int)]
      /\ at' = [at EXCEPT ![t] = "next"]
      /\ at \in [Threads -> {"next", "add", "reduce", "read", "reset"}]
      /\ team \in 1 .. MaxTeam /\ Team' = Team /\ t \in Threads
  BY TeamShape DEF AddCell, InLoop, Inductive, TypeOK, Team
<1>2. AddedWeight' = AddedWeight + w
  BY OneMoreAdded
<1>3. w \in Nat
  <2>1. done[t] \in Nat /\ done[t] < Block(t, Len(Weights))
    <3>1. done[t] \in 0 .. Block(t, Iterations(stage)) /\ Iterations(stage) = Len(Weights)
      BY <1>1, LoopLengths DEF Inductive, TypeOK
    <3> QED BY <1>1, <3>1 DEF AddCell, InLoop
  <2>2. Iteration(t, Len(Weights)) \in 1 .. Len(Weights)
    BY <1>1, <2>1, IterationInBlock, LoopLengths
  <2> QED BY <2>2, LoopLengths
<1>4. AddedWeight \in Int
  BY AddedAtMost
<1>5. \A u \in Team : at[u] = "add" => held[u][1] \in Int
  BY <1>1, TeamShape DEF Inductive, TypeOK, ConvolutionShape, ThreadShape
<1> HIDE DEF w
<1>6. kaccum' <= AddedWeight'
  BY <1>1, <1>2, <1>3, <1>4, <1>5 DEF WeightShape
<1>7. team = 1 => kaccum' = AddedWeight'
  BY <1>1, <1>2 DEF WeightShape
<1>8. at'[t] # "add" /\ \A u \in Team : u # t => at'[u] = at[u] /\ held'[u] = held[u]
  BY <1>1, TeamShape
<1>9. \A u \in Team : at'[u] = "add" => held'[u][1] <= AddedWeight'
  BY <1>1, <1>2, <1>3, <1>4, <1>5, <1>8 DEF WeightShape
<1>10. team = 1 => \A u \in Team : at'[u] # "add"
  BY <1>8 DEF Team
<1> QED BY <1>1, <1>6, <1>7, <1>9, <1>10 DEF WeightShape

(* The end of the loop keeps a sum of some cells, or of all by one thread. *)
LEMMA WeightEndLoop ==
  ASSUME Inductive, WeightShape, EndConvolutionLoop
  PROVE  WeightShape'
<1>0. team' = team
  BY DEF EndConvolutionLoop
<1>1. CASE EndLoop("kernel", Len(Weights), "blur") /\ UNCHANGED <<kaccum, inexact>>
  <2>1. /\ stage = "kernel" /\ stage' = "blur" /\ kaccum' = kaccum
        /\ \A t \in Team : done[t] = Block(t, Len(Weights))
    BY <1>1 DEF EndLoop, NextLoop
  <2>2. AddedWeight = TotalWeight
    BY <2>1, AllAdded DEF Inductive, TypeOK
  <2>3. TotalWeight' = TotalWeight
    BY DEF TotalWeight
  <2> QED BY <1>0, <2>1, <2>2, <2>3 DEF WeightShape
<1>2. ASSUME stage' \in {"sobel", "gradients"}  PROVE WeightShape'
  BY <1>2 DEF WeightShape
<1> QED BY <1>1, <1>2 DEF EndConvolutionLoop, EndLoop, NextLoop

(* All of the convolutions keep it. *)
LEMMA WeightConvolution ==
  ASSUME Inductive, WeightShape, ConvolutionPhase
  PROVE  WeightShape'
<1>1. CASE EndConvolutionLoop
  BY <1>1, WeightEndLoop
<1>2. ASSUME NEW t \in Team, ReadKernelSum(t)  PROVE WeightShape'
  BY <1>2, WeightReadKernelSum
<1>3. ASSUME NEW t \in Team, AddCell(t)  PROVE WeightShape'
  BY <1>3, WeightAddCell
<1>4. ASSUME NEW t \in Team,
             \/ Reduce(t) \/ Lock(t) \/ LoadSum(t) \/ AddSum(t)
             \/ ReadSum(t) \/ StorePixel(t) \/ Reset(t)
      PROVE  WeightShape'
  <2>1. UNCHANGED <<team, stage, kaccum>>
    BY <1>4 DEF Reduce, Lock, LoadSum, AddSum, ReadSum, StorePixel, Reset, loopVars
  <2>2. stage # "kernel"
    <3>1. CASE Reduce(t) \/ Lock(t)
      BY <3>1 DEF Reduce, Lock, InLoop
    <3>2. CASE at[t] \in {"reduce", "read", "reset"}
      BY <3>2, TeamShape DEF Inductive, TypeOK, ConvolutionShape, ThreadShape, InPixelLoop, PixelLoops
    <3> QED BY <1>4, <3>1, <3>2 DEF LoadSum, AddSum, ReadSum, StorePixel, Reset
  <2> QED BY <2>1, <2>2, WeightLeftAlone
<1> QED BY <1>1, <1>2, <1>3, <1>4 DEF ConvolutionPhase, ConvolutionStep

(* Every step keeps that kaccum is a sum of cells, each counted once. *)
LEMMA WeightNext == Inductive /\ WeightShape /\ [Next]_vars => WeightShape'
<1> SUFFICES ASSUME Inductive, WeightShape, [Next]_vars  PROVE WeightShape'
  OBVIOUS
<1>1. CASE ConvolutionPhase
  BY <1>1, WeightConvolution
<1>2. CASE SuppressionPhase
  <2>1. stage' \notin {"kernel", "blur"}
    BY <1>2 DEF SuppressionPhase, Suppress, NextLoop
  <2> QED BY <2>1 DEF WeightShape
<1>3. CASE LinkingPhase
  <2>1. ASSUME NEW t \in Team, TrackingStep(t)  PROVE stage' = "link"
    <3>1. Linking(t)
      BY <2>1 DEF TrackingStep, SkipStrong, CheckPixel, Look, MarkWeak, Clear, GoOn, InCall
    <3>2. stage' = stage
      BY <2>1 DEF TrackingStep, SkipStrong, CheckPixel, Look, MarkWeak, Clear, GoOn, loopVars
    <3> QED BY <3>1, <3>2 DEF Linking, InLoop
  <2>2. EndLinking => stage' = "done"
    BY DEF EndLinking, EndLoop, NextLoop
  <2>3. stage' \in {"link", "done"}
    BY <1>3, <2>1, <2>2 DEF LinkingPhase
  <2> QED BY <2>3 DEF WeightShape
<1>4. CASE UNCHANGED vars
  BY <1>4, WeightLeftAlone DEF vars, loopVars, convolutionVars
<1> QED BY <1>1, <1>2, <1>3, <1>4 DEF Next, Returned

-------------------------------------------------------------------------------
(***************************************************************************)
(* What is left to do.                                                     *)
(***************************************************************************)
LEMMA ReadLengths ==
  \A s \in PixelLoops : Len(Reads[s]) \in 1 .. 6 /\ Len(Resets[s]) \in 1 .. 2
<1>1. /\ Reads["blur"] = <<"blur_accum">>
      /\ Reads["sobel"] = <<"gx", "gx", "gy", "gy", "gx", "gy">>
      /\ Resets["blur"] = <<"blur_accum">>
      /\ Resets["sobel"] = <<"gx", "gy">>
  BY DEF Reads, Resets
<1>2. /\ Len(<<"blur_accum">>) = 1 /\ Len(<<"gx", "gy">>) = 2
      /\ Len(<<"gx", "gx", "gy", "gy", "gx", "gy">>) = 6
  OBVIOUS
<1>3. /\ Len(Reads["blur"]) = 1 /\ Len(Reads["sobel"]) = 6
      /\ Len(Resets["blur"]) = 1 /\ Len(Resets["sobel"]) = 2
  BY <1>1, <1>2
<1> QED BY <1>3 DEF PixelLoops

(* What a call has left to do, by where it is. *)
LEMMA CallSteps ==
  ASSUME NEW c \in Calls
  PROVE  /\ c.pixel[1] \in 0 .. Rows - 1 /\ CallStepsLeft(c) \in Nat
         /\ c.pc = "look" => CallStepsLeft(c) = 4 * c.pixel[1] + 3
         /\ c.pc = "mark" => CallStepsLeft(c) = 4 * c.pixel[1] + 2
         /\ c.pc = "sides" /\ c.sides # {} => CallStepsLeft(c) = 4 * c.pixel[1] + 1
         /\ c.pc = "sides" /\ c.sides = {} => CallStepsLeft(c) = 0
<1>1. /\ c.pc \in {"look", "mark", "sides"} /\ c.pixel[1] \in 0 .. Rows - 1
      /\ Rows \in Nat
  BY GridShape DEF Calls
<1> DEFINE row == c.pixel[1]
<1>2. /\ c.pc = "look" => CallStepsLeft(c) = 4 * row + 3
      /\ c.pc = "mark" => CallStepsLeft(c) = 4 * row + 2
      /\ c.pc = "sides" /\ c.sides # {} => CallStepsLeft(c) = 4 * row + 1
      /\ c.pc = "sides" /\ c.sides = {} => CallStepsLeft(c) = 0
  <2>1. /\ c.pc = "look" => c.pc # "mark" /\ c.pc # "sides"
        /\ c.pc = "mark" => c.pc # "look" /\ c.pc # "sides"
        /\ c.pc = "sides" => c.pc # "look" /\ c.pc # "mark"
    OBVIOUS
  <2>2. c.pc = "look" => CallStepsLeft(c) = 4 * row + 3
    BY <2>1, Zenon DEF CallStepsLeft
  <2>3. c.pc = "mark" => CallStepsLeft(c) = 4 * row + 2
    BY <2>1, Zenon DEF CallStepsLeft
  <2>4. c.pc = "sides" /\ c.sides # {} => CallStepsLeft(c) = 4 * row + 1
    BY <2>1, Zenon DEF CallStepsLeft
  <2>5. c.pc = "sides" /\ c.sides = {} => CallStepsLeft(c) = 0
    BY <2>1, Zenon DEF CallStepsLeft
  <2> QED BY <2>2, <2>3, <2>4, <2>5
<1>3. row \in Nat
  BY <1>1
<1> HIDE DEF row
<1>4. CallStepsLeft(c) \in Nat
  BY <1>1, <1>2, <1>3
<1> QED BY <1>1, <1>2, <1>4 DEF row

(* What is left to do is a natural number for each thread. *)
LEMMA WorkCounts == ProofInvariant => WorkIsBounded
<1> SUFFICES ASSUME ProofInvariant, NEW t \in Team
             PROVE  IterationsLeft(t) \in Nat /\ StepsLeft(t) \in Nat
  BY DEF WorkIsBounded
<1>0. Inductive /\ team \in 1 .. MaxTeam /\ t \in Threads /\ stage \in Stages
  BY TeamShape DEF ProofInvariant, Inductive, TypeOK
<1>1. IterationsLeft(t) \in Nat
  <2>1. done[t] \in 0 .. Block(t, Iterations(stage)) /\ Block(t, Iterations(stage)) \in Nat
    BY <1>0, BlockNat, LoopLengths DEF Inductive, TypeOK
  <2> QED BY <2>1 DEF IterationsLeft
<1>2. PixelStepsLeft(t) \in Nat
  <2>1. at[t] \in {"next", "add", "reduce", "read", "reset"} /\ ThreadShape(t) /\ held[t] \in Seq(Int)
        /\ left[t] \in Seq(Accumulators)
    BY <1>0 DEF Inductive, TypeOK, ConvolutionShape
  <2>2. Len(held[t]) \in Nat /\ Len(left[t]) \in Nat
    BY <2>1
  <2>3. at[t] = "read" => Len(held[t]) <= 6
    <3> SUFFICES ASSUME at[t] = "read"  PROVE Len(held[t]) <= 6
      OBVIOUS
    <3>1. stage \in PixelLoops /\ Len(held[t]) + Len(left[t]) = Len(Reads[stage])
      BY <2>1 DEF ThreadShape, InPixelLoop
    <3>2. Len(Reads[stage]) \in 1 .. 6
      BY <3>1, ReadLengths
    <3> DEFINE h == Len(held[t])  l == Len(left[t])  r == Len(Reads[stage])
    <3>3. h \in Nat /\ l \in Nat /\ h + l = r /\ r \in 1 .. 6
      BY <2>2, <3>1, <3>2
    <3> HIDE DEF h, l, r
    <3>4. h <= 6
      BY <3>3
    <3> QED BY <3>4 DEF h
  <2>4. at[t] = "reduce" => Len(held[t]) \in 0 .. 1
    BY <2>1, Zenon DEF ThreadShape
  <2>5. CASE at[t] = "reduce"
    <3> DEFINE h == Len(held[t])  l == Len(left[t])
    <3>1. PixelStepsLeft(t) = 10 + 2 * l - h
      BY <2>5, Zenon DEF PixelStepsLeft
    <3>2. h \in 0 .. 1 /\ l \in Nat
      BY <2>2, <2>4, <2>5, Zenon
    <3> HIDE DEF h, l
    <3> QED BY <3>1, <3>2
  <2>6. CASE at[t] # "reduce"
    BY <2>1, <2>2, <2>3, <2>6 DEF PixelStepsLeft
  <2> QED BY <2>5, <2>6
<1>3. WalkStepsLeft(t) \in Nat
  <2>1. CASE calls[t] = <<>>
    BY <2>1, GridShape DEF WalkStepsLeft
  <2>2. CASE calls[t] # <<>>
    <3>1. Linking(t)
      BY <1>0, <2>2 DEF Inductive, TrackingShape, CallsShape
    <3>2. Len(calls[t]) \in Nat /\ CallStepsLeft(Top(t)) \in Nat
      BY <1>0, <2>2, <3>1, TopShape, CallSteps
    <3> QED BY <2>2, <3>2 DEF WalkStepsLeft
  <2> QED BY <2>1, <2>2
<1> QED BY <1>1, <1>2, <1>3 DEF StepsLeft

(* A thread that ends an iteration has less to do, the others as much.      *)
LEMMA LessIterations ==
  ASSUME Inductive, NEW t \in Team, team' = team, stage' = stage, EndIteration(t)
  PROVE  /\ IterationsLeft(t)' < IterationsLeft(t)
         /\ \A u \in Team : u # t => IterationsLeft(u)' = IterationsLeft(u)
<1>1. /\ done'[t] = done[t] + 1 /\ done[t] \in Int
      /\ \A u \in Team : u # t => done'[u] = done[u]
  BY TeamShape DEF EndIteration, Inductive, TypeOK, ConvolutionShape
<1>2. \A u \in Team : Block(u, Iterations(stage))' = Block(u, Iterations(stage))
  BY DEF Block, Iterations, Pixels
<1>3. Block(t, Iterations(stage)) \in Nat
  BY BlockNat, LoopLengths, TeamShape DEF Inductive, TypeOK
<1> QED BY <1>1, <1>2, <1>3 DEF IterationsLeft

(* Who ends no iteration has as many left. *)
LEMMA SameIterations ==
  ASSUME team' = team, stage' = stage, NEW u, done'[u] = done[u]
  PROVE  IterationsLeft(u)' = IterationsLeft(u)
BY DEF IterationsLeft, Block, Iterations, Pixels

(* And so has one that takes a step of it. *)
LEMMA StepOfPixel ==
  ASSUME Inductive, NEW t \in Team, team' = team, stage' = stage, stage # "link",
         (done' = done /\ PixelStepsLeft(t)' < PixelStepsLeft(t)) \/ EndIteration(t),
         \A u \in Team : u # t => at'[u] = at[u] /\ held'[u] = held[u] /\ left'[u] = left[u]
  PROVE  WorkFalls
<1>1. \A u \in Team : u # t => StepsLeft(u)' = StepsLeft(u)
  BY DEF StepsLeft, PixelStepsLeft
<1>2. Falls(t) /\ \A u \in Team \ {t} : Stays(u)
  <2>1. CASE EndIteration(t)
    BY <1>1, <2>1, LessIterations DEF Falls, Stays
  <2>2. CASE done' = done /\ PixelStepsLeft(t)' < PixelStepsLeft(t)
    BY <1>1, <2>2, SameIterations DEF Falls, Stays, StepsLeft
  <2> QED BY <2>1, <2>2
<1> QED BY <1>2 DEF WorkFalls

(* A step of one walk, or its end, is a step down for the team. *)
LEMMA StepOfWalk ==
  ASSUME Inductive, NEW t \in Team, team' = team, stage' = stage, stage = "link",
         (done' = done /\ WalkStepsLeft(t)' < WalkStepsLeft(t)) \/ EndIteration(t),
         \A u \in Team : u # t => calls'[u] = calls[u]
  PROVE  WorkFalls
<1>1. \A u \in Team : u # t => StepsLeft(u)' = StepsLeft(u)
  BY DEF StepsLeft, WalkStepsLeft, Top
<1>2. Falls(t) /\ \A u \in Team \ {t} : Stays(u)
  <2>1. CASE EndIteration(t)
    BY <1>1, <2>1, LessIterations DEF Falls, Stays
  <2>2. CASE done' = done /\ WalkStepsLeft(t)' < WalkStepsLeft(t)
    BY <1>1, <2>2, SameIterations DEF Falls, Stays, StepsLeft
  <2> QED BY <2>1, <2>2
<1> QED BY <1>2 DEF WorkFalls

(* Every step of a thread in the convolutions is a step down. *)
LEMMA ConvolutionWorkFalls ==
  ASSUME Inductive, NEW t \in Team, ConvolutionStep(t)
  PROVE  WorkFalls
<1>0. /\ t \in Threads /\ Team \subseteq Threads /\ ThreadShape(t)
      /\ at \in [Threads -> {"next", "add", "reduce", "read", "reset"}]
      /\ left \in [Threads -> Seq(Accumulators)] /\ held \in [Threads -> Seq(Int)]
  BY TeamShape DEF Inductive, TypeOK, ConvolutionShape
<1>1. CASE ReadKernelSum(t)
  <2>1. /\ team' = team /\ stage' = stage /\ done' = done /\ left' = left
        /\ stage # "link" /\ at[t] = "next" /\ at'[t] = "add"
        /\ \A u \in Team : u # t => at'[u] = at[u] /\ held'[u] = held[u]
    BY <1>0, <1>1 DEF ReadKernelSum, InLoop, loopVars
  <2>2. PixelStepsLeft(t)' < PixelStepsLeft(t)
    BY <2>1 DEF PixelStepsLeft
  <2> QED BY <2>1, <2>2, StepOfPixel
<1>2. CASE AddCell(t)
  <2>1. /\ team' = team /\ stage' = stage /\ left' = left /\ stage # "link" /\ EndIteration(t)
        /\ \A u \in Team : u # t => at'[u] = at[u] /\ held'[u] = held[u]
    BY <1>0, <1>2 DEF AddCell, InLoop
  <2> QED BY <2>1, StepOfPixel
<1>3. CASE Reduce(t)
  <2>1. /\ team' = team /\ stage' = stage /\ done' = done /\ held' = held
        /\ stage # "link" /\ at[t] = "next" /\ at'[t] = "read"
        /\ \A u \in Team : u # t => at'[u] = at[u] /\ left'[u] = left[u]
    BY <1>0, <1>3 DEF Reduce, InLoop, loopVars
  <2>2. held'[t] = <<>> /\ Len(<<>>) = 0
    BY <1>0, <2>1 DEF ThreadShape
  <2>3. PixelStepsLeft(t)' < PixelStepsLeft(t)
    BY <2>1, <2>2 DEF PixelStepsLeft
  <2> QED BY <2>1, <2>3, StepOfPixel
<1>7. CASE Lock(t)
  <2>1. /\ team' = team /\ stage' = stage /\ done' = done /\ held' = held
        /\ stage # "link" /\ at[t] = "next" /\ at'[t] = "reduce" /\ left'[t] = <<"gx", "gy">>
        /\ \A u \in Team : u # t => at'[u] = at[u] /\ left'[u] = left[u]
    BY <1>0, <1>7 DEF Lock, InLoop, loopVars
  <2>2. Len(held'[t]) = 0 /\ Len(left'[t]) = 2
    BY <1>0, <2>1 DEF ThreadShape
  <2>3. PixelStepsLeft(t)' = 10 + 2 * Len(left'[t]) - Len(held'[t]) /\ PixelStepsLeft(t) = 15
    BY <2>1 DEF PixelStepsLeft
  <2>4. PixelStepsLeft(t)' < PixelStepsLeft(t)
    BY <2>2, <2>3
  <2> QED BY <2>1, <2>4, StepOfPixel
<1>8. CASE LoadSum(t)
  <2>1. /\ team' = team /\ stage' = stage /\ done' = done /\ at' = at /\ left' = left
        /\ at[t] = "reduce" /\ held[t] = <<>> /\ held'[t] = <<accum[Head(left[t])]>>
        /\ \A u \in Team : u # t => held'[u] = held[u]
    BY <1>0, <1>8 DEF LoadSum, loopVars
  <2>2. stage # "link" /\ Len(left[t]) \in Nat /\ Len(held[t]) = 0 /\ Len(held'[t]) = 1
    BY <1>0, <2>1, UnderLock
  <2>3. /\ PixelStepsLeft(t)' = 10 + 2 * Len(left[t]) - Len(held'[t])
        /\ PixelStepsLeft(t) = 10 + 2 * Len(left[t]) - Len(held[t])
    BY <2>1 DEF PixelStepsLeft
  <2>4. PixelStepsLeft(t)' < PixelStepsLeft(t)
    <3> DEFINE l == Len(left[t])  h == Len(held[t])  k == Len(held'[t])
    <3>1. /\ l \in Nat /\ h = 0 /\ k = 1
          /\ PixelStepsLeft(t)' = 10 + 2 * l - k /\ PixelStepsLeft(t) = 10 + 2 * l - h
      BY <2>2, <2>3
    <3> HIDE DEF l, h, k
    <3> QED BY <3>1
  <2> QED BY <2>1, <2>2, <2>4, StepOfPixel
<1>9. CASE AddSum(t)
  <2>1. /\ team' = team /\ stage' = stage /\ done' = done /\ at[t] = "reduce"
        /\ held[t] # <<>> /\ held'[t] = <<>>
        /\ \A u \in Team : u # t => at'[u] = at[u] /\ held'[u] = held[u] /\ left'[u] = left[u]
    BY <1>0, <1>9 DEF AddSum, loopVars
  <2>2. stage # "link" /\ Len(held[t]) = 1 /\ Len(held'[t]) = 0
    <3>1. stage = "sobel" /\ held[t] \in Seq(Int) /\ Len(held[t]) \in 0 .. 1
      BY <2>1, UnderLock
    <3> QED BY <2>1, <3>1, NotEmpty
  <2>3. \/ Len(left[t]) = 2 /\ at'[t] = "reduce" /\ Len(left'[t]) = 1
        \/ Len(left[t]) = 1 /\ at'[t] = "read"
    <3>1. /\ Len(left[t]) > 1 => Len(left[t]) = 2 /\ Tail(left[t]) = <<"gy">> /\ Len(<<"gy">>) = 1
          /\ ~ (Len(left[t]) > 1) => Len(left[t]) = 1
      BY <2>1, UnderLock, Zenon
    <3>2. CASE Len(left[t]) > 1
      <4>1. at' = at /\ left'[t] = Tail(left[t])
        BY <1>0, <1>9, <3>2 DEF AddSum
      <4> QED BY <2>1, <3>1, <3>2, <4>1, Zenon
    <3>3. CASE ~ (Len(left[t]) > 1)
      <4>1. at'[t] = "read"
        BY <1>0, <1>9, <3>3 DEF AddSum
      <4>2. Len(left[t]) = 1
        BY <3>1, <3>3, Zenon
      <4> QED BY <4>1, <4>2, Zenon
    <3> QED BY <3>2, <3>3
  <2>4. PixelStepsLeft(t) = 10 + 2 * Len(left[t]) - Len(held[t])
    BY <2>1 DEF PixelStepsLeft
  <2>5. CASE at'[t] = "reduce"
    <3>1. PixelStepsLeft(t)' = 10 + 2 * Len(left'[t]) - Len(held'[t])
      BY <2>5 DEF PixelStepsLeft
    <3> DEFINE new == PixelStepsLeft(t)'  old == PixelStepsLeft(t)
               l == Len(left[t])  m == Len(left'[t])
    <3>a. l = 2 /\ m = 1
      BY <2>3, <2>5
    <3>b. new = 10 + 2 * m - 0 /\ old = 10 + 2 * l - 1
      BY <2>2, <2>4, <3>1, Zenon
    <3> HIDE DEF new, old, l, m
    <3>c. new < old
      BY <3>a, <3>b
    <3>2. PixelStepsLeft(t)' < PixelStepsLeft(t)
      BY <3>c DEF new, old
    <3> QED BY <2>1, <2>2, <3>2, StepOfPixel
  <2>6. CASE at'[t] = "read"
    <3>1. PixelStepsLeft(t)' = 10 - Len(held'[t])
      BY <2>6 DEF PixelStepsLeft
    <3> DEFINE new == PixelStepsLeft(t)'  old == PixelStepsLeft(t)  l == Len(left[t])
    <3>a. l = 1
      BY <2>3, <2>6
    <3>b. new = 10 - 0 /\ old = 10 + 2 * l - 1
      BY <2>2, <2>4, <3>1, Zenon
    <3> HIDE DEF new, old, l
    <3>c. new < old
      BY <3>a, <3>b
    <3>2. PixelStepsLeft(t)' < PixelStepsLeft(t)
      BY <3>c DEF new, old
    <3> QED BY <2>1, <2>2, <3>2, StepOfPixel
  <2> QED BY <2>3, <2>5, <2>6
<1>a. at[t] \in {"reduce", "read", "reset"} => stage # "link" /\ stage \in PixelLoops
  BY <1>0 DEF ThreadShape, InPixelLoop, PixelLoops
<1>4. CASE ReadSum(t)
  <2>1. /\ team' = team /\ stage' = stage /\ done' = done /\ at' = at
        /\ at[t] = "read" /\ left[t] # <<>>
        /\ held'[t] = Append(held[t], accum[Head(left[t])])
        /\ \A u \in Team : u # t => held'[u] = held[u] /\ left'[u] = left[u]
    BY <1>0, <1>4 DEF ReadSum, loopVars
  <2>2. Len(held'[t]) = Len(held[t]) + 1 /\ Len(held[t]) \in Nat
    <3>1. held[t] \in Seq(Int) /\ left[t] \in Seq(Accumulators)
      BY <1>0
    <3>2. Head(left[t]) \in Accumulators
      BY <2>1, <3>1
    <3>3. accum[Head(left[t])] \in Int
      BY <3>2 DEF Inductive, TypeOK
    <3> QED BY <2>1, <3>1, <3>3, AppendOf
  <2>3. PixelStepsLeft(t)' < PixelStepsLeft(t)
    BY <2>1, <2>2 DEF PixelStepsLeft
  <2> QED BY <1>a, <2>1, <2>3, StepOfPixel
<1>5. CASE StorePixel(t)
  <2>1. /\ team' = team /\ stage' = stage /\ done' = done /\ at[t] = "read" /\ at'[t] = "reset"
        /\ left[t] = <<>> /\ left'[t] = Resets[stage]
        /\ \A u \in Team : u # t => at'[u] = at[u] /\ held'[u] = held[u] /\ left'[u] = left[u]
    BY <1>0, <1>5 DEF StorePixel, loopVars
  <2>2. Len(held[t]) \in 1 .. 6 /\ Len(left'[t]) \in 1 .. 2
    <3>1. Len(held[t]) + 0 = Len(Reads[stage]) /\ Len(held[t]) \in Nat
      BY <1>0, <2>1 DEF ThreadShape
    <3> QED BY <1>a, <2>1, <3>1, ReadLengths
  <2>3. PixelStepsLeft(t)' = Len(left'[t]) /\ PixelStepsLeft(t) = 10 - Len(held[t])
    BY <2>1 DEF PixelStepsLeft
  <2>4. PixelStepsLeft(t)' < PixelStepsLeft(t)
    <3> DEFINE h == Len(held[t])  l == Len(left'[t])
               new == PixelStepsLeft(t)'  old == PixelStepsLeft(t)
    <3>1. h \in 1 .. 6 /\ l \in 1 .. 2 /\ new = l /\ old = 10 - h
      BY <2>2, <2>3
    <3> HIDE DEF h, l, new, old
    <3>2. new < old
      BY <3>1
    <3> QED BY <3>2 DEF new, old
  <2> QED BY <1>a, <2>1, <2>4, StepOfPixel
<1>6. CASE Reset(t)
  <2>1. /\ team' = team /\ stage' = stage /\ at[t] = "reset" /\ held' = held
        /\ left'[t] = Tail(left[t]) /\ left[t] # <<>> /\ left[t] \in Seq(Accumulators)
        /\ \A u \in Team : u # t => left'[u] = left[u]
    BY <1>0, <1>6 DEF Reset, ThreadShape
  <2>2. Len(left'[t]) = Len(left[t]) - 1 /\ Len(left[t]) \in Nat
    BY <2>1, TailOf
  <2>3. CASE Len(left[t]) > 1
    <3>1. at' = at /\ done' = done
      BY <1>6, <2>3 DEF Reset
    <3>2. PixelStepsLeft(t)' < PixelStepsLeft(t)
      BY <2>1, <2>2, <3>1 DEF PixelStepsLeft
    <3> QED BY <1>a, <2>1, <3>1, <3>2, StepOfPixel
  <2>4. CASE ~ (Len(left[t]) > 1)
    <3>1. EndIteration(t) /\ \A u \in Team : u # t => at'[u] = at[u]
      BY <1>0, <1>6, <2>4 DEF Reset
    <3> QED BY <1>a, <2>1, <3>1, StepOfPixel
  <2> QED BY <2>3, <2>4
<1> QED BY <1>1, <1>2, <1>3, <1>4, <1>5, <1>6, <1>7, <1>8, <1>9 DEF ConvolutionStep

(* Below the last call all have looked at their sides: the end of a call    *)
(* leaves one call less, and nothing else to do.                            *)
LEMMA ReturnFalls ==
  ASSUME Inductive, NEW t \in Team, Linking(t), calls[t] # <<>>, WalkShape(t), Return(t),
         team' = team, stage' = stage
  PROVE  WorkFalls
<1> DEFINE s == calls[t]  n == Len(s)  r == SubSeq(s, 1, Len(s) - 1)
<1>1. /\ t \in Threads /\ Team \subseteq Threads /\ s \in Seq(Calls) /\ n \in Nat /\ n > 0
      /\ Top(t) \in Calls /\ Top(t).pixel \in Grid
  BY TopShape, FirstInGrid, TeamShape DEF Inductive, TypeOK
<1>2. /\ r \in Seq(Calls) /\ Len(r) = n - 1
      /\ \A i \in 1 .. n - 1 : r[i] = s[i]
  BY <1>1, FrontOf
<1>3. calls'[t] = r /\ \A u \in Team : u # t => calls'[u] = calls[u]
  BY <1>1 DEF Return, Inductive, TrackingShape
<1>4. stage = "link"
  BY DEF Linking, InLoop
<1> HIDE DEF r
<1>5. CASE n = 1
  <2>1. EndIteration(t)
    BY <1>5 DEF Return
  <2> QED BY <1>3, <1>4, <2>1, StepOfWalk
<1>6. CASE n # 1
  <2>1. done' = done
    BY <1>6 DEF Return
  <2>a. n \in Nat /\ n > 0 /\ n # 1
    BY <1>1, <1>6
  <2>2. n - 1 \in 1 .. n - 1 /\ n - 1 \in 1 .. n /\ n - 1 < n
    <3> HIDE DEF n
    <3> QED BY <2>a
  <2>3. r # <<>>
    <3> HIDE DEF n
    <3> QED BY <1>2, <2>2, NotEmpty
  <2>4. Top(t)' = s[n - 1]
    BY <1>2, <1>3, <2>2 DEF Top
  <2>5. s[n - 1].pc = "sides" /\ s[n - 1].sides = {}
    BY <2>2 DEF WalkShape
  <2>b. s[n - 1] \in Calls
    BY <1>1, <2>2
  <2>6. WalkStepsLeft(t)' = n - 1
    <3>1. CallStepsLeft(s[n - 1]) = 0
      BY <2>5, <2>b, CallSteps
    <3>2. WalkStepsLeft(t)' = Len(r) + CallStepsLeft(s[n - 1])
      BY <1>3, <2>3, <2>4 DEF WalkStepsLeft, CallStepsLeft
    <3> HIDE DEF n
    <3> QED BY <1>2, <2>a, <3>1, <3>2
  <2>7. WalkStepsLeft(t) = n + CallStepsLeft(Top(t)) /\ CallStepsLeft(Top(t)) \in Nat
    BY <1>1, CallSteps DEF WalkStepsLeft
  <2>8. WalkStepsLeft(t)' < WalkStepsLeft(t)
    <3> HIDE DEF n
    <3> QED BY <2>a, <2>6, <2>7
  <2> QED BY <1>3, <1>4, <2>1, <2>8, StepOfWalk
<1> QED BY <1>5, <1>6

(* A call that changes in its place has fewer steps left there. *)
LEMMA UpdateFalls ==
  ASSUME Inductive, NEW t \in Team, Linking(t), calls[t] # <<>>,
         NEW call \in Calls, Update(t, call), call.pixel = Top(t).pixel,
         \/ Top(t).pc = "look" /\ call.pc = "mark"
         \/ Top(t).pc = "mark" /\ call.pc = "sides",
         team' = team, stage' = stage, done' = done
  PROVE  WorkFalls
<1> DEFINE s == calls[t]  n == Len(s)  r == [s EXCEPT ![Len(s)] = call]
<1>1. /\ t \in Threads /\ Team \subseteq Threads /\ s \in Seq(Calls) /\ n \in Nat /\ n > 0
      /\ Top(t).pixel \in Grid
  BY TopShape, FirstInGrid, TeamShape DEF Inductive, TypeOK
<1>2. r \in Seq(Calls) /\ Len(r) = n /\ r[n] = call
  BY <1>1, ReplaceLast
<1>3. calls'[t] = r /\ \A u \in Team : u # t => calls'[u] = calls[u]
  BY <1>1 DEF Update, Inductive, TrackingShape
<1>4. stage = "link"
  BY DEF Linking, InLoop
<1> HIDE DEF r
<1>5. r # <<>> /\ Top(t)' = call /\ Len(calls'[t]) = n
  BY <1>1, <1>2, <1>3, NotEmpty DEF Top
<1>6. CallStepsLeft(call) < CallStepsLeft(Top(t)) /\ CallStepsLeft(call) \in Nat
      /\ CallStepsLeft(Top(t)) \in Nat
  <2> DEFINE row == call.pixel[1]
  <2>1. Top(t) \in Calls /\ row \in 0 .. Rows - 1 /\ row = Top(t).pixel[1]
    BY TopShape, CallSteps
  <2>2. /\ Top(t).pc = "look" => CallStepsLeft(Top(t)) = 4 * row + 3
        /\ Top(t).pc = "mark" => CallStepsLeft(Top(t)) = 4 * row + 2
        /\ call.pc = "mark" => CallStepsLeft(call) = 4 * row + 2
        /\ call.pc = "sides" => CallStepsLeft(call) = 4 * row + 1 \/ CallStepsLeft(call) = 0
        /\ CallStepsLeft(call) \in Nat /\ CallStepsLeft(Top(t)) \in Nat
    BY <2>1, CallSteps
  <2> HIDE DEF row
  <2>3. row \in Nat
    BY <2>1, GridShape
  <2> QED BY <2>2, <2>3
<1>7. WalkStepsLeft(t)' < WalkStepsLeft(t)
  <2>1. WalkStepsLeft(t)' = n + CallStepsLeft(call)
    BY <1>3, <1>5 DEF WalkStepsLeft, CallStepsLeft
  <2>2. WalkStepsLeft(t) = n + CallStepsLeft(Top(t))
    BY DEF WalkStepsLeft
  <2> HIDE DEF n
  <2>3. n \in Nat
    BY <1>1 DEF n
  <2> QED BY <1>6, <2>1, <2>2, <2>3
<1> QED BY <1>3, <1>4, <1>7, StepOfWalk

(* The next call is a row further up. *)
LEMMA GoesToFalls ==
  ASSUME Inductive, NEW t \in Team, Linking(t), calls[t] # <<>>, WalkShape(t),
         Top(t).pc = "sides", NEW side \in Top(t).sides, GoesTo(t, side),
         team' = team, stage' = stage, done' = done
  PROVE  WorkFalls
<1> DEFINE n == Len(calls[t])  row == Top(t).pixel[1]
<1>0. n \in Nat /\ n = Len(calls[t]) /\ Team \subseteq Threads
  BY TopShape, TeamShape DEF Inductive, TypeOK
<1>1. /\ calls' \in [Threads -> Seq(Calls)] /\ Len(calls'[t]) = n + 1 /\ n > 0
      /\ calls'[t][n + 1] = Call(side, Top(t).pixel)
      /\ \A u \in Threads : u # t => calls'[u] = calls[u]
  <2> HIDE DEF n
  <2> QED BY <1>0, GoOnCalls
<1>2. side = Shift(Top(t).pixel, -1, -1) /\ Top(t).sides # {}
  <2>1. n \in 1 .. n /\ Top(t) = calls[t][n]
    BY <1>0, <1>1 DEF Top
  <2> QED BY <2>1 DEF WalkShape
<1>3. /\ row \in Nat /\ side[1] = row + -1 /\ side \in Grid
      /\ CallStepsLeft(Top(t)) = 4 * row + 1
  <2>1. Top(t) \in Calls
    BY TopShape
  <2>2. row \in 0 .. Rows - 1 /\ CallStepsLeft(Top(t)) = 4 * row + 1
    BY <1>2, <2>1, CallSteps
  <2>3. side[1] = row + -1 /\ side \in Grid
    BY <1>2, <2>1 DEF Shift, Calls
  <2> HIDE DEF row
  <2> QED BY <2>2, <2>3, GridShape
<1>4. stage = "link"
  BY DEF Linking, InLoop
<1>5. calls'[t] # <<>> /\ Top(t)' = Call(side, Top(t).pixel)
  <2>1. calls'[t] \in Seq(Calls) /\ Len(calls'[t]) > 0
    BY <1>0, <1>1, TopShape
  <2> QED BY <1>1, <2>1, NotEmpty DEF Top
<1>6. WalkStepsLeft(t)' = (n + 1) + (4 * side[1] + 3)
  BY <1>1, <1>5 DEF WalkStepsLeft, CallStepsLeft, Call
<1>7. WalkStepsLeft(t) = n + (4 * row + 1)
  BY <1>3 DEF WalkStepsLeft
<1>8. WalkStepsLeft(t)' < WalkStepsLeft(t)
  <2> DEFINE k == side[1]
  <2>1. k = row + -1 /\ WalkStepsLeft(t)' = (n + 1) + (4 * k + 3)
    BY <1>3, <1>6
  <2> HIDE DEF n, row, k
  <2>2. n \in Nat /\ row \in Nat
    BY <1>0, <1>3
  <2> QED BY <1>7, <2>1, <2>2
<1> QED BY <1>0, <1>1, <1>4, <1>8, StepOfWalk

(* Every step of a thread in the linking is a step down. *)
LEMMA TrackingWorkFalls ==
  ASSUME Inductive, \A u \in Threads : WalkShape(u), NEW t \in Team, TrackingStep(t)
  PROVE  WorkFalls
<1>0. /\ t \in Threads /\ Team \subseteq Threads /\ WalkShape(t) /\ Linking(t)
      /\ stage = "link" /\ stage' = stage /\ team' = team
      /\ calls \in [Threads -> Seq(Calls)]
  <2>1. Linking(t)
    BY DEF TrackingStep, SkipStrong, CheckPixel, Look, MarkWeak, Clear, GoOn, InCall
  <2>2. stage' = stage /\ team' = team
    BY DEF TrackingStep, SkipStrong, CheckPixel, Look, MarkWeak, Clear, GoOn, loopVars
  <2> QED BY <2>1, <2>2, TeamShape DEF Inductive, TypeOK, TrackingShape, Linking, InLoop
<1>1. CASE SkipStrong(t)
  BY <1>0, <1>1, StepOfWalk DEF SkipStrong, trackingVars
<1>2. CASE CheckPixel(t)
  <2>1. /\ calls'[t] = <<Call(PixelOf(t), PixelOf(t))>> /\ calls[t] = <<>> /\ done' = done
        /\ \A u \in Team : u # t => calls'[u] = calls[u]
    BY <1>0, <1>2 DEF CheckPixel, loopVars
  <2>2. PixelOf(t)[1] \in 0 .. Rows - 1 /\ Rows \in Nat
    BY <1>0, PixelOfInGrid, GridShape DEF Inductive
  <2>3. calls'[t] # <<>> /\ Len(calls'[t]) = 1 /\ Top(t)' = Call(PixelOf(t), PixelOf(t))
    BY <2>1 DEF Top
  <2>4. WalkStepsLeft(t)' = 1 + (4 * PixelOf(t)[1] + 3) /\ WalkStepsLeft(t) = 4 * Rows + 1
    BY <2>1, <2>3 DEF WalkStepsLeft, CallStepsLeft, Call
  <2>5. WalkStepsLeft(t)' < WalkStepsLeft(t)
    BY <2>2, <2>4
  <2> QED BY <1>0, <2>1, <2>5, StepOfWalk
<1>3. ASSUME calls[t] # <<>>, Return(t)  PROVE WorkFalls
  BY <1>0, <1>3, ReturnFalls
<1>4. CASE Look(t)
  <2>1. calls[t] # <<>> /\ Top(t).pc = "look"
    BY <1>4 DEF Look, InCall
  <2>2. ASSUME Update(t, [Top(t) EXCEPT !.pc = "mark"]), done' = done  PROVE WorkFalls
    <3> DEFINE call == [Top(t) EXCEPT !.pc = "mark"]
    <3>1. call \in Calls /\ call.pixel = Top(t).pixel /\ call.pc = "mark"
      BY <1>0, <2>1, TopShape DEF Calls
    <3> QED BY <1>0, <2>1, <2>2, <3>1, UpdateFalls
  <2> QED BY <1>3, <1>4, <2>1, <2>2 DEF Look
<1>5. CASE MarkWeak(t)
  <2> DEFINE around == Sides(Top(t).pixel, Top(t).prev)
             call == [Top(t) EXCEPT !.pc = "sides", !.sides = around]
  <2>1. calls[t] # <<>> /\ Top(t).pc = "mark" /\ Update(t, call) /\ done' = done
    BY <1>5 DEF MarkWeak, InCall, loopVars
  <2>2. around \in SUBSET Grid
    BY <1>0, <1>5, <2>1, FirstInGrid, SidesInGrid, WeakIsInner DEF MarkWeak
  <2> HIDE DEF around
  <2>3. call \in Calls /\ call.pixel = Top(t).pixel /\ call.pc = "sides"
    BY <1>0, <2>1, <2>2, TopShape DEF Calls
  <2> HIDE DEF call
  <2> QED BY <1>0, <2>1, <2>3, UpdateFalls
<1>6. CASE Clear(t)
  BY <1>3, <1>6 DEF Clear, InCall
<1>7. CASE GoOn(t)
  <2>1. calls[t] # <<>> /\ Top(t).pc = "sides"
    BY <1>7 DEF GoOn, InCall
  <2>2. ASSUME NEW side \in Top(t).sides, GoesTo(t, side), done' = done  PROVE WorkFalls
    BY <1>0, <2>1, <2>2, GoesToFalls
  <2> QED BY <1>3, <1>7, <2>1, <2>2 DEF GoOn, GoesTo
<1> QED BY <1>1, <1>2, <1>4, <1>5, <1>6, <1>7 DEF TrackingStep

(* Every step of the filter is a step down. *)
LEMMA WorkOfNext == ProofInvariant /\ Next => WorkFalls \/ UNCHANGED vars
<1> SUFFICES ASSUME ProofInvariant, Next  PROVE WorkFalls \/ UNCHANGED vars
  OBVIOUS
<1>0. Inductive /\ \A u \in Threads : WalkShape(u)
  BY DEF ProofInvariant
<1>1. ASSUME NEW t \in Team, ConvolutionStep(t)  PROVE WorkFalls
  BY <1>0, <1>1, ConvolutionWorkFalls
<1>2. ASSUME NEW t \in Team, TrackingStep(t)  PROVE WorkFalls
  BY <1>0, <1>2, TrackingWorkFalls
<1>3. CASE EndConvolutionLoop
  <2>1. \/ stage = "kernel" /\ stage' = "blur"
        \/ stage = "blur" /\ stage' = "sobel"
        \/ stage = "sobel" /\ stage' = "gradients"
    BY <1>3 DEF EndConvolutionLoop, EndLoop, NextLoop
  <2>2. LoopsLeft(stage') < LoopsLeft(stage)
    BY <2>1 DEF LoopsLeft
  <2> QED BY <2>2 DEF WorkFalls
<1>4. CASE Suppress
  <2>1. LoopsLeft(stage') < LoopsLeft(stage)
    BY <1>4 DEF Suppress, NextLoop, LoopsLeft
  <2> QED BY <2>1 DEF WorkFalls
<1>5. CASE EndLinking
  <2>1. LoopsLeft(stage') < LoopsLeft(stage)
    BY <1>5 DEF EndLinking, EndLoop, NextLoop, LoopsLeft
  <2> QED BY <2>1 DEF WorkFalls
<1> QED BY <1>1, <1>2, <1>3, <1>4, <1>5
        DEF Next, ConvolutionPhase, SuppressionPhase, LinkingPhase, Returned

-------------------------------------------------------------------------------
(***************************************************************************)
(* The theorems.                                                           *)
(***************************************************************************)
LEMMA StutterShape == Inductive /\ UNCHANGED vars => Inductive'
<1> SUFFICES ASSUME Inductive, UNCHANGED vars PROVE Inductive'
  OBVIOUS
<1> USE DEF vars, loopVars, convolutionVars, trackingVars, Inductive
<1>1. TypeOK'
  BY DEF TypeOK, Block
<1>2. ConvolutionShape'
  <2>1. \A t \in Threads : ThreadShape(t)'
    BY OtherShape DEF ConvolutionShape
  <2>2. SumsAreReset'
    BY DEF ConvolutionShape, SumsAreReset, WillReset, Team
  <2>3. \A t \in Team' : AloneShape(t)'
    BY DEF ConvolutionShape, AloneShape, Inside, Sum, Pixel, Iteration, Before, Team
  <2>4. InexactShape'
    BY DEF ConvolutionShape, InexactShape, Stored, Before, Team
  <2>5. KernelShape'
    BY DEF ConvolutionShape, KernelShape, Team
  <2> QED BY <2>1, <2>2, <2>3, <2>4, <2>5 DEF ConvolutionShape
<1>3. TrackingShape'
  <2>1. Weak' = Weak
    BY DEF Weak
  <2>2. \A t \in Threads : CallsShape(t)'
    <3>1. \A t \in Threads : (Linking(t) <=> Linking(t)') /\ PixelOf(t)' = PixelOf(t)
      BY DEF Linking, InLoop, Team, Block, PixelOf, PixelAt, Iteration, Before
    <3> QED BY <2>1, <3>1 DEF TrackingShape, CallsShape
  <2>3. \A p : Linked(p)' <=> Linked(p)
    BY <2>1 DEF Linked
  <2>4. (stage = "link" => \A t \in Team : \A k \in 1 .. done[t] :
          Linked(PixelAt(Before(t, Rows * Cols) + k)))'
    BY <2>1 DEF TrackingShape, Team, Linked, Before, PixelAt
  <2>5. (stage \in {"link", "done"} =>
          \A p \in Inner : Strongest(p) => suppressed[p] = image.magnitude[p])'
    BY DEF TrackingShape, Strongest
  <2>6. (stage = "done" => \A p \in Grid : Linked(p))'
    BY <2>1 DEF TrackingShape, Linked
  <2> QED BY <2>1, <2>2, <2>4, <2>5, <2>6 DEF TrackingShape
<1> QED BY <1>1, <1>2, <1>3

(* All of the linking keeps the invariant. *)
LEMMA LinkingPhaseShape == Inductive /\ LinkingPhase => Inductive'
<1> SUFFICES ASSUME Inductive, LinkingPhase PROVE Inductive'
  OBVIOUS
<1>0. UNCHANGED convolutionVars
  BY DEF LinkingPhase
<1>1. CASE EndLinking
  BY <1>0, <1>1, EndLinkingShape
<1>2. ASSUME NEW t \in Team, TrackingStep(t) PROVE Inductive'
  <2>1. CASE SkipStrong(t)
    BY <1>0, <2>1, SkipStrongShape
  <2>2. CASE CheckPixel(t)
    BY <1>0, <2>2, CheckPixelShape
  <2>3. CASE Look(t)
    BY <1>0, <2>3, LookShape
  <2>4. CASE MarkWeak(t)
    BY <1>0, <2>4, MarkWeakShape
  <2>5. CASE Clear(t)
    BY <1>0, <2>5, ClearShape
  <2>6. CASE GoOn(t)
    BY <1>0, <2>6, GoOnShape
  <2> QED BY <1>2, <2>1, <2>2, <2>3, <2>4, <2>5, <2>6 DEF TrackingStep
<1> QED BY <1>1, <1>2 DEF LinkingPhase

(* Every step keeps the invariant. *)
LEMMA NextShape == Inductive /\ [Next]_vars => Inductive'
<1>1. Returned => UNCHANGED vars
  BY DEF Returned
<1> QED BY <1>1, StutterShape, ConvolutionPhaseShape, SuppressionPhaseShape, LinkingPhaseShape DEF Next

(* Whatever the team and the image, every step keeps the invariant.         *)
THEOREM InductiveHolds == Spec => []Inductive
<1> QED BY InitShape, NextShape, PTL DEF Spec

(* The sums of the pixels are 0 again whenever no thread is between its     *)
(* sum and its last reset: nothing that one race has spoilt outlives it.    *)
THEOREM SumsAreClean == Spec => []QuietIsClean
<1>1. Inductive => QuietIsClean
  <2> SUFFICES ASSUME Inductive, Inside = {} PROVE \A a \in Accumulators : accum[a] = 0
    BY DEF QuietIsClean
  <2>1. \A t \in Team : WillReset(t) = {}
    BY DEF WillReset, Inside
  <2> QED BY <2>1 DEF Inductive, ConvolutionShape, SumsAreReset
<1> QED BY <1>1, InductiveHolds, PTL

(* And what the sum of the kernel and the way of the walks need besides.    *)
THEOREM ProofInvariantHolds == Spec => []ProofInvariant
<1>1. Init => ProofInvariant
  BY InitShape, WeightInit, WalkInit DEF ProofInvariant
<1>2. ProofInvariant /\ [Next]_vars => ProofInvariant'
  <2> SUFFICES ASSUME ProofInvariant, [Next]_vars  PROVE ProofInvariant'
    OBVIOUS
  <2>1. Inductive' /\ WeightShape' /\ (\A u \in Threads : WalkShape(u))'
    BY NextShape, WeightNext, WalksShape DEF ProofInvariant
  <2> QED BY <2>1 DEF ProofInvariant
<1> QED BY <1>1, <1>2, PTL DEF Spec

(* The walk of checkContours() stays inside the image, and a thread's calls *)
(* are no more than it has rows, or columns.                                *)
THEOREM WalkStaysInside == Spec => []CallsInBounds
<1>1. ProofInvariant => CallsInBounds
  <2> SUFFICES ASSUME ProofInvariant, NEW t \in Team
               PROVE /\ \A i \in DOMAIN calls[t] : calls[t][i].pixel \in Grid
                     /\ Len(calls[t]) <= Rows /\ Len(calls[t]) <= Cols
    BY DEF CallsInBounds
  <2>0. Inductive /\ t \in Threads /\ WalkShape(t)
    BY TeamShape DEF ProofInvariant, Inductive, TypeOK
  <2>1. calls[t] \in Seq(Calls)
    BY <2>0 DEF Inductive, TrackingShape
  <2>2. \A i \in DOMAIN calls[t] : calls[t][i].pixel \in Grid
    <3>1. \A i \in DOMAIN calls[t] : calls[t][i] \in Calls
      BY <2>1
    <3> QED BY <3>1 DEF Calls
  <2>3. CASE calls[t] = <<>>
    <3>1. Len(calls[t]) = 0
      BY <2>3
    <3> QED BY <2>2, <3>1, GridShape
  <2>4. CASE calls[t] # <<>>
    <3> DEFINE n == Len(calls[t])  p == calls[t][1].pixel  q == calls[t][n].pixel
    <3>1. Linking(t)
      BY <2>0, <2>4 DEF Inductive, TrackingShape, CallsShape
    <3>2. n \in Nat /\ n \in 1 .. n /\ p \in Grid /\ q \in Grid
      BY <2>0, <2>4, <3>1, TopShape, FirstInGrid DEF Top
    <3>3. q = Shift(p, 1 - n, 1 - n)
      BY <2>0, <3>2 DEF WalkShape
    <3> HIDE DEF n, p, q
    <3>4. q[1] = p[1] + (1 - n) /\ q[2] = p[2] + (1 - n)
      BY <3>3 DEF Shift
    <3>5. /\ p[1] \in 0 .. Rows - 1 /\ p[2] \in 0 .. Cols - 1 /\ q[1] >= 0 /\ q[2] >= 0
          /\ Rows \in Nat /\ Cols \in Nat
      BY <3>2, GridShape
    <3>6. n <= Rows /\ n <= Cols
      BY <3>2, <3>4, <3>5
    <3> QED BY <2>2, <3>6 DEF n
  <2> QED BY <2>3, <2>4
<1> QED BY <1>1, ProofInvariantHolds, PTL

(* What the linking keeps is what passes the low threshold, whatever the    *)
(* number of the threads and the order of their walks.                      *)
THEOREM LinkingIsLowThreshold == Spec => []LinkingIsThreshold
<1>1. Inductive => LinkingIsThreshold
  <2> SUFFICES ASSUME Inductive, stage = "done"
               PROVE edges = [p \in Grid |-> IF p \in Weak THEN suppressed[p] ELSE 0]
    BY DEF LinkingIsThreshold
  <2>1. \A p \in Grid : (edges[p] = suppressed[p] \/ (edges[p] = 0 /\ p \notin Weak))
                        /\ (p \in Weak \/ edges[p] = 0)
    BY DEF Inductive, TrackingShape, Linked
  <2>2. \A p \in Grid : edges[p] = IF p \in Weak THEN suppressed[p] ELSE 0
    BY <2>1
  <2>3. edges = [p \in Grid |-> edges[p]]
    BY DEF Inductive, TypeOK
  <2> QED BY <2>2, <2>3
<1> QED BY <1>1, InductiveHolds, PTL

(* The strongest edge of an image is in the result, however far off the     *)
(* angles are that the suppression computes from the stretched directions.  *)
THEOREM StrongestKept == Spec => []StrongestSurvives
<1>1. Inductive => StrongestSurvives
  <2> SUFFICES ASSUME Inductive, stage = "done", NEW p \in Inner, Strongest(p)
               PROVE edges[p] = image.magnitude[p]
    BY DEF StrongestSurvives
  <2>1. p \in Grid
    BY GridShape
  <2>2. /\ suppressed[p] = image.magnitude[p]
        /\ edges[p] = suppressed[p] \/ p \notin Weak
    BY <2>1 DEF Inductive, TrackingShape
  <2>3. p \in Weak
    BY <2>1, <2>2 DEF Strongest, Weak, Inductive, TypeOK
  <2> QED BY <2>2, <2>3
<1> QED BY <1>1, InductiveHolds, PTL

(* A thread that met no other from its reduction to its resets has stored   *)
(* the pixel that the sequential loop would have, and one thread alone all  *)
(* pixels.                                                                  *)
THEOREM ExactUnlessOverlapped == Spec => []AloneIsExact
<1> DEFINE Single == team = 1 => inexact = {} /\ \A t \in Threads : alone[t]
<1>1. Init => Single
  BY DEF Init, ConvolutionInit
<1>2. Inductive /\ Single /\ [Next]_vars => Single'
  <2> SUFFICES ASSUME Inductive, Single, [Next]_vars, team' = 1 PROVE inexact' = {} /\ \A t \in Threads : alone'[t]
    OBVIOUS
  <2>1. ASSUME UNCHANGED <<team, inexact, alone>> PROVE inexact' = {} /\ \A t \in Threads : alone'[t]
    BY <2>1
  <2>2. ASSUME NEW t \in Team, Reduce(t) \/ Lock(t) PROVE inexact' = {} /\ \A u \in Threads : alone'[u]
    <3>1. /\ team = 1 /\ inexact' = inexact /\ at[t] = "next"
          /\ alone' = [u \in Threads |-> IF u = t THEN Inside = {} ELSE alone[u] /\ u \notin Inside]
      BY <2>2 DEF Reduce, Lock, Enters, loopVars
    <3>2. Team = {0} /\ t = 0
      BY <3>1 DEF Team
    <3>3. Inside = {}
      BY <3>1, <3>2 DEF Inside
    <3> QED BY <3>1, <3>3
  <2>3. ASSUME NEW t \in Team, StorePixel(t) PROVE inexact' = {} /\ \A u \in Threads : alone'[u]
    <3>1. team = 1 /\ alone' = alone /\ at[t] = "read" /\ left[t] = <<>> /\ t \in Threads
      BY <2>3, TeamShape DEF StorePixel, loopVars, Inductive, TypeOK
    <3>2. held[t] = Exact(stage, Pixel(t))
      BY <3>1, HeldIsExact
    <3> QED BY <2>3, <3>1, <3>2 DEF StorePixel
  <2>4. ASSUME EndConvolutionLoop PROVE inexact' = {} /\ \A t \in Threads : alone'[t]
    BY <2>4 DEF EndConvolutionLoop
  <2>5. ASSUME NEW t \in Team,
               \/ ReadKernelSum(t) \/ AddCell(t)
               \/ LoadSum(t) \/ AddSum(t) \/ ReadSum(t) \/ Reset(t)
        PROVE UNCHANGED <<team, inexact, alone>>
    BY <2>5 DEF ReadKernelSum, AddCell, LoadSum, AddSum, ReadSum, Reset, loopVars
  <2>6. CASE ConvolutionPhase
    BY <2>1, <2>2, <2>3, <2>4, <2>5, <2>6 DEF ConvolutionPhase, ConvolutionStep
  <2>7. CASE SuppressionPhase
    BY <2>1, <2>7 DEF SuppressionPhase, Suppress, convolutionVars
  <2>8. CASE LinkingPhase
    <3>1. team' = team
      <4>1. ASSUME NEW t \in Team, TrackingStep(t)  PROVE team' = team
        BY <4>1 DEF TrackingStep, SkipStrong, CheckPixel, Look, MarkWeak, Clear, GoOn, loopVars
      <4>2. EndLinking => team' = team
        BY DEF EndLinking
      <4> QED BY <2>8, <4>1, <4>2 DEF LinkingPhase
    <3> QED BY <2>1, <2>8, <3>1 DEF LinkingPhase, convolutionVars
  <2>9. CASE UNCHANGED vars
    BY <2>1, <2>9 DEF vars, loopVars, convolutionVars
  <2> QED BY <2>6, <2>7, <2>8, <2>9 DEF Next, Returned
<1>3. Inductive /\ Single => AloneIsExact
  BY DEF AloneIsExact, Inductive, ConvolutionShape, AloneShape
<1> HIDE DEF Single
<1> QED BY <1>1, <1>2, <1>3, InductiveHolds, PTL DEF Spec

(* The kernel is divided by a sum of some of its cells, each counted once:  *)
(* by all of them when one thread adds them up.                             *)
THEOREM NormalizationIsDefined == Spec => []NormalizationDefined
<1>1. ProofInvariant => NormalizationDefined
  BY DEF ProofInvariant, Inductive, TypeOK, ConvolutionShape, KernelShape, WeightShape,
         NormalizationDefined
<1> QED BY <1>1, ProofInvariantHolds, PTL

(* The filter takes finitely many steps, on every image, with every team    *)
(* and in every order of its threads: what is left to do is counted by      *)
(* natural numbers, and every step takes from them.  No walk goes round.    *)
THEOREM FilterRunsOut == Spec => []WorkIsBounded /\ WorkAlwaysFalls
<1>1. ProofInvariant /\ [Next]_vars => [WorkFalls]_vars
  BY WorkOfNext
<1> QED BY <1>1, WorkCounts, ProofInvariantHolds, PTL DEF Spec, WorkAlwaysFalls
===============================================================================
