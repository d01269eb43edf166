--------------------------- MODULE ClientSessionProofs ---------------------------
(***************************************************************************)
(* What the sessions promise, for every number of clients, images and      *)
(* pieces of a file, however the streams are cut.                          *)
(***************************************************************************)
EXTENDS ClientSessionProperties, SequenceTheorems, TLAPS

-------------------------------------------------------------------------------
(* Streams. *)

(* A stream is what is taken from it and the rest. *)
LEMMA TakeFacts ==
  ASSUME NEW S, NEW s \in Seq(S), NEW n \in 1 .. Len(s)
  PROVE  /\ Arrived(s, n) \in Seq(S) /\ Rest(s, n) \in Seq(S)
         /\ Len(Arrived(s, n)) = n /\ Len(Rest(s, n)) = Len(s) - n
         /\ \A i \in 1 .. n : Arrived(s, n)[i] = s[i]
         /\ \A i \in 1 .. Len(s) - n : Rest(s, n)[i] = s[n + i]
         /\ s = Arrived(s, n) \o Rest(s, n)
         /\ Arrived(s, n) # <<>>
  BY DEF Arrived, Rest

(* Where the units of two streams, one after the other, are. *)
LEMMA JoinFacts ==
  ASSUME NEW S, NEW s \in Seq(S), NEW t \in Seq(S)
  PROVE  /\ s \o t \in Seq(S) /\ Len(s \o t) = Len(s) + Len(t)
         /\ \A i \in 1 .. Len(s) : (s \o t)[i] = s[i]
         /\ \A i \in 1 .. Len(t) : (s \o t)[Len(s) + i] = t[i]
         /\ \A i \in 1 .. Len(s) + Len(t) : i <= Len(s) \/ (s \o t)[i] = t[i - Len(s)]
  OBVIOUS

(* Streams are joined in any grouping. *)
LEMMA Associative == \A s, t, u \in Seq(Units) : (s \o t) \o u = s \o (t \o u)
  BY ConcatAssociative

(* What is appended to a stream that is not empty leaves its first unit. *)
LEMMA FirstStays == \A s, t \in Seq(Units) : s # <<>> => s \o t # <<>> /\ (s \o t)[1] = s[1]
  OBVIOUS

(* Nothing joined to a stream leaves it as it is. *)
LEMMA JoinEmpty == \A s \in Seq(Units) : <<>> \o s = s /\ s \o <<>> = s
  BY ConcatEmptySeq

(* The kinds of units. *)
LEMMA UnitFacts ==
  /\ Messages \subseteq Units /\ Size \in Units /\ Image \in Messages
  /\ Size \notin Messages /\ Size # Image
  /\ \A f \in Files, i \in 1 .. Chunks : <<"data", f, i>> \in Units
  /\ \A f, i : <<"data", f, i>> \notin Messages \union {Size, Image}
  /\ Request \subseteq Messages /\ Image \notin Request
  BY DEF Messages, Units, Size, Image, Request, Commands, Supplies, Answers

(* The data of a file. *)
LEMMA DataFacts ==
  ASSUME NEW f \in Files
  PROVE  /\ FileData(f) \in Seq(Units) /\ Len(FileData(f)) = Chunks
         /\ \A i \in 1 .. Chunks : FileData(f)[i] = <<"data", f, i>>
  <1>1. Chunks \in Nat
    BY SessionAssumption
  <1> QED
    BY <1>1, UnitFacts DEF FileData

-------------------------------------------------------------------------------
(* Streams of files and their commands. *)

(* How one shows that a stream is one. *)
LEMMA FramedIf ==
  ASSUME NEW s, NEW pc, NEW n,
         \A k \in 1 .. Len(s) : s[k] = Image =>
           IF k = Len(s) THEN pc \in {"sendSize", "gone"} ELSE s[k + 1] = Size,
         \A k \in 1 .. Len(s) : s[k] = Size =>
           /\ k = Len(s) => pc \in {"sendData", "gone"}
           /\ k < Len(s) /\ Len(s) < k + Chunks => pc = "gone",
         \A k \in 1 .. Len(s) : s[k] = Size =>
           \E f \in 1 .. n : \A j \in 1 .. Chunks :
             k + j <= Len(s) => s[k + j] = <<"data", f, j>>
  PROVE  Framed(s, pc, n)
  BY DEF Framed

(* The files of one that has them complete stay in a longer one. *)
LEMMA FileStays ==
  ASSUME NEW s \in Seq(Units), NEW w \in Seq(Units), NEW pc, NEW n \in Nat, Framed(s, pc, n),
         NEW k \in 1 .. Len(s), s[k] = Size, k + Chunks <= Len(s),
         \A i \in 1 .. Len(s) : w[i] = s[i]
  PROVE  \E f \in 1 .. n : \A j \in 1 .. Chunks :
           k + j <= Len(w) => w[k + j] = <<"data", f, j>>
  <1>1. Chunks \in Nat /\ Len(s) \in Nat
    BY SessionAssumption
  <1>2. PICK f \in 1 .. n : \A j \in 1 .. Chunks : k + j <= Len(s) => s[k + j] = <<"data", f, j>>
    BY DEF Framed
  <1>3. \A j \in 1 .. Chunks : k + j \in 1 .. Len(s) /\ k + j <= Len(s)
    BY <1>1
  <1>4. \A j \in 1 .. Chunks : w[k + j] = <<"data", f, j>>
    BY <1>2, <1>3
  <1> QED
    BY <1>4

(* What is left of one is one. *)
LEMMA FramedRest ==
  ASSUME NEW s \in Seq(Units), NEW t \in Seq(Units), NEW pc, NEW n \in Nat,
         Framed(s \o t, pc, n)
  PROVE  Framed(t, pc, n)
  <1> DEFINE w == s \o t
  <1>1. /\ Len(w) = Len(s) + Len(t) /\ Len(s) \in Nat /\ Len(t) \in Nat
        /\ \A i \in 1 .. Len(t) : w[Len(s) + i] = t[i]
    BY JoinFacts
  <1>2. Framed(w, pc, n)
    OBVIOUS
  <1> HIDE DEF w
  <1> SUFFICES ASSUME NEW k \in 1 .. Len(t)
               PROVE  /\ t[k] = Image =>
                           IF k = Len(t) THEN pc \in {"sendSize", "gone"} ELSE t[k + 1] = Size
                      /\ t[k] = Size =>
                           /\ k = Len(t) => pc \in {"sendData", "gone"}
                           /\ k < Len(t) /\ Len(t) < k + Chunks => pc = "gone"
                           /\ \E f \in 1 .. n : \A j \in 1 .. Chunks :
                                k + j <= Len(t) => t[k + j] = <<"data", f, j>>
    BY DEF Framed
  <1>3. /\ Len(s) + k \in 1 .. Len(w) /\ w[Len(s) + k] = t[k]
        /\ Len(s) + k = Len(w) <=> k = Len(t)
        /\ k < Len(t) => w[Len(s) + k + 1] = t[k + 1]
    <2> DEFINE a == Len(s)  b == Len(t)  c == Len(w)
    <2>1. a \in Nat /\ b \in Nat /\ c = a + b /\ k \in 1 .. b
      BY <1>1
    <2>2. \A i \in 1 .. b : w[a + i] = t[i]
      BY <1>1
    <2> HIDE DEF a, b, c
    <2>3. /\ a + k \in 1 .. c /\ (a + k = c <=> k = b)
          /\ k < b => k + 1 \in 1 .. b /\ a + (k + 1) = a + k + 1
      BY <2>1
    <2>4. w[a + k] = t[k] /\ (k < b => w[a + k + 1] = t[k + 1])
      BY <2>1, <2>2, <2>3
    <2> QED
      BY <2>3, <2>4 DEF a, b, c
  <1>4. t[k] = Image => IF k = Len(t) THEN pc \in {"sendSize", "gone"} ELSE t[k + 1] = Size
    BY <1>1, <1>2, <1>3 DEF Framed
  <1>5. ASSUME t[k] = Size
        PROVE  /\ k = Len(t) => pc \in {"sendData", "gone"}
               /\ k < Len(t) /\ Len(t) < k + Chunks => pc = "gone"
               /\ \E f \in 1 .. n : \A j \in 1 .. Chunks :
                    k + j <= Len(t) => t[k + j] = <<"data", f, j>>
    <2>1. Chunks \in Nat
      BY SessionAssumption
    <2>2. PICK f \in 1 .. n : \A j \in 1 .. Chunks :
            Len(s) + k + j <= Len(w) => w[Len(s) + k + j] = <<"data", f, j>>
      BY <1>2, <1>3, <1>5 DEF Framed
    <2>3. ASSUME NEW j \in 1 .. Chunks, k + j <= Len(t)
          PROVE  t[k + j] = <<"data", f, j>>
      <3>1. k + j \in 1 .. Len(t) /\ Len(s) + k + j <= Len(w) /\ Len(s) + (k + j) = Len(s) + k + j
        BY <1>1, <2>1, <2>3
      <3> QED
        BY <1>1, <2>2, <3>1
    <2>4. /\ Len(s) + k = Len(w) => pc \in {"sendData", "gone"}
          /\ Len(s) + k < Len(w) /\ Len(w) < Len(s) + k + Chunks => pc = "gone"
      BY <1>2, <1>3, <1>5 DEF Framed
    <2>5. /\ k < Len(t) <=> Len(s) + k < Len(w)
          /\ Len(t) < k + Chunks <=> Len(w) < Len(s) + k + Chunks
      BY <1>1, <2>1
    <2> QED
      BY <1>3, <2>3, <2>4, <2>5
  <1> QED
    BY <1>4, <1>5

(* A client that sends nothing owes nothing more, unless it was to go on. *)
LEMMA FramedStill ==
  ASSUME NEW s \in Seq(Units), NEW pc, NEW q, NEW n \in Nat, NEW m \in Nat, n <= m,
         Framed(s, pc, n),
         q \in {pc, "gone"} \/ pc \notin {"sendSize", "sendData", "gone"}
  PROVE  Framed(s, q, m)
  <1>1. 1 .. n \subseteq 1 .. m
    OBVIOUS
  <1> QED
    BY <1>1 DEF Framed

(* It may send the next message when it has finished the last file, *)
LEMMA FramedMessage ==
  ASSUME NEW s \in Seq(Units), NEW pc, NEW q, NEW n \in Nat, Framed(s, pc, n),
         pc \notin {"sendSize", "sendData", "gone"},
         NEW u \in Messages, u = Image => q = "sendSize"
  PROVE  Framed(s \o <<u>>, q, n)
  <1> DEFINE w == s \o <<u>>
  <1>1. /\ w \in Seq(Units) /\ Len(w) = Len(s) + 1 /\ Len(s) \in Nat /\ w[Len(w)] = u
        /\ \A i \in 1 .. Len(s) : w[i] = s[i]
    BY UnitFacts, JoinFacts
  <1> HIDE DEF w
  <1>2. Chunks \in Nat \ {0}
    BY SessionAssumption
  <1>3. \A k \in 1 .. Len(w) : w[k] = Image =>
          IF k = Len(w) THEN q \in {"sendSize", "gone"} ELSE w[k + 1] = Size
    BY <1>1 DEF Framed
  <1>4. \A k \in 1 .. Len(w) : w[k] = Size => k \in 1 .. Len(s) /\ s[k] = Size
    BY <1>1, UnitFacts
  <1>5. \A k \in 1 .. Len(w) : w[k] = Size => k < Len(s) /\ k + Chunks <= Len(s)
    BY <1>1, <1>2, <1>4 DEF Framed
  <1>6. \A k \in 1 .. Len(w) : w[k] = Size =>
          /\ k = Len(w) => q \in {"sendData", "gone"}
          /\ k < Len(w) /\ Len(w) < k + Chunks => q = "gone"
    BY <1>1, <1>2, <1>5
  <1>7. ASSUME NEW k \in 1 .. Len(w), w[k] = Size
        PROVE  \E f \in 1 .. n : \A j \in 1 .. Chunks :
                 k + j <= Len(w) => w[k + j] = <<"data", f, j>>
    <2>1. k \in 1 .. Len(s) /\ s[k] = Size /\ k + Chunks <= Len(s)
      BY <1>4, <1>5, <1>7
    <2> QED
      BY <1>1, <2>1, FileStays, ZenonT(40)
  <1> QED
    BY <1>3, <1>6, <1>7, FramedIf DEF w

(* the size after the command, *)
LEMMA FramedSize ==
  ASSUME NEW s \in Seq(Units), NEW n \in Nat \ {0}, Framed(s, "sendSize", n)
  PROVE  Framed(s \o <<Size>>, "sendData", n)
  <1> DEFINE w == s \o <<Size>>
  <1>1. /\ w \in Seq(Units) /\ Len(w) = Len(s) + 1 /\ Len(s) \in Nat /\ w[Len(w)] = Size
        /\ \A i \in 1 .. Len(s) : w[i] = s[i]
    BY UnitFacts, JoinFacts
  <1> HIDE DEF w
  <1>2. Chunks \in Nat \ {0}
    BY SessionAssumption
  <1>3. \A k \in 1 .. Len(w) : w[k] = Image => k \in 1 .. Len(s) /\ s[k] = Image
    BY <1>1, UnitFacts
  <1>4. \A k \in 1 .. Len(w) : w[k] = Image =>
          IF k = Len(w) THEN "sendData" \in {"sendSize", "gone"} ELSE w[k + 1] = Size
    BY <1>1, <1>3 DEF Framed
  <1>5. \A k \in 1 .. Len(s) : s[k] = Size => k < Len(s) /\ k + Chunks <= Len(s)
    BY <1>1, <1>2 DEF Framed
  <1>6. \A k \in 1 .. Len(w) : w[k] = Size =>
          /\ k = Len(w) => "sendData" \in {"sendData", "gone"}
          /\ k < Len(w) /\ Len(w) < k + Chunks => "sendData" = "gone"
    BY <1>1, <1>2, <1>5
  <1>7. ASSUME NEW k \in 1 .. Len(w), w[k] = Size
        PROVE  \E f \in 1 .. n : \A j \in 1 .. Chunks :
                 k + j <= Len(w) => w[k + j] = <<"data", f, j>>
    <2>1. CASE k \in 1 .. Len(s)
      <3>1. s[k] = Size /\ k + Chunks <= Len(s)
        BY <1>1, <1>5, <1>7, <2>1
      <3> QED
        BY <1>1, <2>1, <3>1, FileStays, ZenonT(40)
    <2>2. CASE k = Len(w)
      <3>1. 1 \in 1 .. n /\ \A j \in 1 .. Chunks : ~(k + j <= Len(w))
        BY <1>1, <1>2, <2>2
      <3> QED
        BY <3>1
    <2> QED
      BY <1>1, <2>1, <2>2
  <1> QED
    BY <1>4, <1>6, <1>7, FramedIf DEF w

(* and the data after the size, of which it leaves out some only to go. *)
LEMMA FramedData ==
  ASSUME NEW s \in Seq(Units), NEW n \in Nat \ {0}, n \in Files, Framed(s, "sendData", n),
         NEW m \in 1 .. Chunks, NEW q, q = IF m = Chunks THEN "menu" ELSE "gone"
  PROVE  Framed(s \o Arrived(FileData(n), m), q, n)
  <1> DEFINE t == Arrived(FileData(n), m)
             w == s \o t
  <1>1. Chunks \in Nat \ {0} /\ m \in Nat
    BY SessionAssumption
  <1>2. t \in Seq(Units) /\ Len(t) = m /\ \A i \in 1 .. m : t[i] = <<"data", n, i>>
    <2>1. /\ FileData(n) \in Seq(Units) /\ Len(FileData(n)) = Chunks
          /\ \A i \in 1 .. Chunks : FileData(n)[i] = <<"data", n, i>>
      BY DataFacts
    <2>2. /\ Arrived(FileData(n), m) \in Seq(Units) /\ Len(Arrived(FileData(n), m)) = m
          /\ \A i \in 1 .. m : Arrived(FileData(n), m)[i] = FileData(n)[i]
      BY <2>1, TakeFacts
    <2> QED
      BY <1>1, <2>1, <2>2
  <1> HIDE DEF t
  <1>3. /\ w \in Seq(Units) /\ Len(w) = Len(s) + m /\ Len(s) \in Nat
        /\ \A i \in 1 .. Len(s) : w[i] = s[i]
        /\ \A i \in 1 .. m : w[Len(s) + i] = <<"data", n, i>>
    <2>1. /\ w \in Seq(Units) /\ Len(w) = Len(s) + Len(t) /\ Len(s) \in Nat
          /\ \A i \in 1 .. Len(s) : w[i] = s[i]
          /\ \A i \in 1 .. Len(t) : w[Len(s) + i] = t[i]
      <3>1. t \in Seq(Units)
        BY <1>2
      <3> QED
        BY <3>1, JoinFacts
    <2> HIDE DEF w
    <2> QED
      BY <1>2, <2>1
  <1> HIDE DEF w
  <1>4. \A k \in 1 .. Len(w) : w[k] \in {Image, Size} => k \in 1 .. Len(s) /\ s[k] = w[k]
    <2> SUFFICES ASSUME NEW k \in 1 .. Len(w), w[k] \in {Image, Size}, k > Len(s)
                 PROVE  FALSE
      BY <1>1, <1>3
    <2>1. k - Len(s) \in 1 .. m /\ Len(s) + (k - Len(s)) = k
      BY <1>1, <1>3
    <2>2. w[k] = <<"data", n, k - Len(s)>>
      BY <1>3, <2>1
    <2> QED
      BY <2>2, UnitFacts
  <1>5. \A k \in 1 .. Len(s) : s[k] = Image => k < Len(s) /\ s[k + 1] = Size
    BY DEF Framed
  <1>6. ASSUME NEW k \in 1 .. Len(w), w[k] = Image
        PROVE  IF k = Len(w) THEN q \in {"sendSize", "gone"} ELSE w[k + 1] = Size
    <2>1. k \in 1 .. Len(s) /\ s[k] = Image
      BY <1>4, <1>6
    <2>2. k < Len(s) /\ s[k + 1] = Size
      BY <1>5, <2>1
    <2>3. k < Len(w) /\ k + 1 \in 1 .. Len(s)
      BY <1>1, <1>3, <2>1, <2>2
    <2> QED
      BY <1>3, <2>2, <2>3
  <1>7. \A k \in 1 .. Len(s) : s[k] = Size /\ k # Len(s) => k + Chunks <= Len(s)
    BY <1>1, <1>3, SMTT(30) DEF Framed
  <1>8. \A k \in 1 .. Len(w) : w[k] = Size =>
          /\ k = Len(w) => q \in {"sendData", "gone"}
          /\ k < Len(w) /\ Len(w) < k + Chunks => q = "gone"
    BY <1>1, <1>3, <1>4, <1>7
  <1>9. ASSUME NEW k \in 1 .. Len(w), w[k] = Size
        PROVE  \E f \in 1 .. n : \A j \in 1 .. Chunks :
                 k + j <= Len(w) => w[k + j] = <<"data", f, j>>
    <2>1. CASE k # Len(s)
      <3>1. k \in 1 .. Len(s) /\ s[k] = Size /\ k + Chunks <= Len(s)
        BY <1>4, <1>7, <1>9, <2>1
      <3> QED
        BY <1>3, <3>1, FileStays, ZenonT(40)
    <2>2. CASE k = Len(s)
      <3>1. \A j \in 1 .. Chunks : k + j <= Len(w) => j \in 1 .. m
        BY <1>1, <1>3, <2>2
      <3>2. n \in 1 .. n
        OBVIOUS
      <3> QED
        BY <1>3, <2>2, <3>1, <3>2
    <2> QED
      BY <2>1, <2>2
  <1> QED
    BY <1>6, <1>8, <1>9, FramedIf DEF w, t

-------------------------------------------------------------------------------
(* What a step changes of a session. *)

ThreadStill(c) == serverPc'[c] = serverPc[c] /\ inHand'[c] = inHand[c] /\ upload'[c] = upload[c]
ClientStill(c) ==
  /\ clientPc'[c] = clientPc[c] /\ uploads'[c] = uploads[c] /\ download'[c] = download[c]
  /\ cutShort'[c] = cutShort[c]
Still(c) == /\ ThreadStill(c) /\ ClientStill(c)
            /\ toServer'[c] = toServer[c] /\ toClient'[c] = toClient[c]

(* The client sends something, *)
Sends(c, from, to, units) ==
  /\ clientPc[c] = from /\ clientPc'[c] = to
  /\ toServer'[c] = toServer[c] \o units /\ toClient'[c] = toClient[c]
  /\ download'[c] = download[c]

Asks(c) == /\ \/ \E k \in Supplies : Sends(c, "menu", "answer", <<<<k>>>>)
              \/ Sends(c, "menu", "images", <<<<"get_img_filtered">>>>)
              \/ Sends(c, "choose", "image", <<<<"continue">>>>)
           /\ uploads'[c] = uploads[c]
StartsImage(c) == Sends(c, "menu", "sendSize", <<Image>>) /\ uploads'[c] = uploads[c] + 1
SendsSize(c) == Sends(c, "sendSize", "sendData", <<Size>>) /\ uploads'[c] = uploads[c]
SendsData(c) == /\ \E n \in 1 .. Chunks : Sends(c, "sendData", IF n = Chunks THEN "menu" ELSE "gone",
                                                Arrived(FileData(uploads[c]), n))
                /\ uploads'[c] = uploads[c]

(* or reads, *)
Reads(c) ==
  /\ clientPc[c] \in {"answer", "images", "image"}
  /\ \E n \in 1 .. Len(toClient[c]) :
       /\ clientPc'[c] = IF clientPc[c] = "answer" THEN "menu"
                         ELSE AfterReply(c, Arrived(toClient[c], n))
       /\ toClient'[c] = Rest(toClient[c], n)
  /\ toServer'[c] = toServer[c] /\ uploads'[c] = uploads[c] /\ download'[c] = download[c]

Downloads(c, from, n) ==
  /\ clientPc[c] = from /\ clientPc'[c] = "data" /\ n \in 1 .. Len(toClient[c])
  /\ download'[c] = download[c] \o Arrived(toClient[c], n)
  /\ toClient'[c] = Rest(toClient[c], n)
  /\ toServer'[c] = toServer[c] /\ uploads'[c] = uploads[c]
Saves(c) ==
  /\ clientPc[c] = "data" /\ clientPc'[c] \in {"menu", "gone"} /\ Complete(download[c])
  /\ toServer'[c] = toServer[c] /\ toClient'[c] = toClient[c] /\ uploads'[c] = uploads[c]
  /\ download'[c] = <<>>

(* or leaves. *)
Spins(c) ==
  /\ clientPc[c] \in {"menu", "choose"} /\ clientPc'[c] = "spins"
  /\ toServer'[c] = toServer[c] /\ toClient'[c] = toClient[c] /\ uploads'[c] = uploads[c]
  /\ download'[c] = download[c]
Leaves(c) ==
  /\ clientPc'[c] = "gone" /\ toServer'[c] = toServer[c] /\ toClient'[c] = <<>>
  /\ uploads'[c] = uploads[c] /\ download'[c] = <<>>

ClientMove(c) ==
  /\ ThreadStill(c) /\ cutShort'[c] = cutShort[c]
  /\ \/ Asks(c) \/ StartsImage(c) \/ SendsSize(c) \/ SendsData(c)
     \/ Reads(c) \/ Downloads(c, "size", 1) \/ \E n \in Nat : Downloads(c, "data", n)
     \/ Saves(c) \/ Spins(c) \/ Leaves(c)

(* Or it goes on after a part of a file. *)
CutsShort(c) ==
  /\ ThreadStill(c) /\ clientPc[c] = "sendData" /\ clientPc'[c] = "menu" /\ cutShort'[c]
  /\ uploads'[c] = uploads[c] /\ download'[c] = download[c]

(* The thread goes on, *)
Goes(c, from, to) ==
  /\ ClientStill(c) /\ serverPc[c] = from /\ serverPc'[c] = to
Takes(c, n) ==
  /\ n \in 1 .. Len(toServer[c])
  /\ toServer'[c] = Rest(toServer[c], n) /\ toClient'[c] = toClient[c]
TakesNothing(c) == toServer'[c] = toServer[c] /\ toClient'[c] = toClient[c]

Receives(c) ==
  /\ Goes(c, "recv", "command") /\ upload'[c] = upload[c]
  /\ \E n \in 1 .. Len(toServer[c]) : Takes(c, n) /\ inHand'[c] = Arrived(toServer[c], n)
Dispatches(c) ==
  /\ TakesNothing(c) /\ inHand'[c] = inHand[c] /\ upload'[c] = upload[c]
  /\ \/ \E k \in Supplies : inHand[c] = <<<<k>>>> /\ Goes(c, "command", "http")
     \/ inHand[c] = <<Image>> /\ Goes(c, "command", "size")
     \/ inHand[c] = <<<<"get_img_filtered">>>> /\ Goes(c, "command", "names")
BeginsUpload(c) ==
  /\ Goes(c, "size", "data") /\ inHand'[c] = inHand[c]
  /\ Takes(c, 1) /\ upload'[c] = Arrived(toServer[c], 1)
GoesOnUpload(c) ==
  /\ Goes(c, "data", "data") /\ inHand'[c] = inHand[c]
  /\ \E n \in 1 .. Len(toServer[c]) :
       Takes(c, n) /\ upload'[c] = upload[c] \o Arrived(toServer[c], n)
EndsUpload(c) ==
  /\ TakesNothing(c) /\ upload'[c] = <<>>
  /\ \/ Goes(c, "data", "recv") /\ inHand'[c] = <<>>
     \/ /\ Goes(c, "data", "end") /\ inHand'[c] = inHand[c]
        /\ (Complete(upload[c]) /\ (~Usable(upload[c]) \/ met[c])) \/ HungUp(c)
Chooses(c) ==
  /\ inHand'[c] = inHand[c] /\ upload'[c] = upload[c]
  /\ \E n \in 1 .. Len(toServer[c]) :
       /\ Takes(c, n)
       /\ Goes(c, "choice", IF Arrived(toServer[c], n) = <<<<"continue">>>> THEN "image" ELSE "end")

(* replies, *)
Replies(c, from, units, next) ==
  /\ upload'[c] = upload[c] /\ toServer'[c] = toServer[c]
  /\ inHand'[c] = IF from = "names" THEN inHand[c] ELSE <<>>
  /\ \/ /\ toClient'[c] = IF clientPc[c] = "gone" THEN toClient[c] ELSE toClient[c] \o units
        /\ Goes(c, from, next)
     \/ /\ clientPc[c] = "gone" /\ toClient'[c] = toClient[c]
        /\ Goes(c, from, IF from = "http" THEN "closed" ELSE "end")

(* or gives its client up. *)
GivesUp(c) ==
  /\ TakesNothing(c) /\ inHand'[c] = inHand[c] /\ upload'[c] = upload[c]
  /\ HungUp(c)
  /\ Goes(c, "recv", "closed") \/ Goes(c, "size", "end") \/ Goes(c, "choice", "end")

ThreadMove(c) ==
  \/ Receives(c) \/ Dispatches(c) \/ BeginsUpload(c) \/ GoesOnUpload(c) \/ EndsUpload(c)
  \/ Replies(c, "http", <<<<"answer">>>>, "recv")
  \/ Replies(c, "names", <<<<"images">>>>, "choice")
  \/ Replies(c, "image", <<<<"error">>>>, "recv")
  \/ Replies(c, "image", <<<<"image">>>> \o ResultSent, "recv")
  \/ Chooses(c) \/ GivesUp(c)
  \/ Still(c)

(* A client's step moves its own session only, and not the process. *)
LEMMA ClientMoves ==
  ASSUME TypeOK, NEW c \in Clients, UserStep(c) \/ ClientStep(c)
  PROVE  /\ ClientMove(c) \/ Still(c) \/ CutsShort(c)
         /\ \A d \in Clients \ {c} : Still(d)
         /\ status' = status /\ http' = http /\ permit' = permit /\ met' = met
  <1> USE DEF TypeOK, VariablesOK, Holding, ThreadStill, ClientStill, Still, processVars, threadVars, histories, streams,
              ClientAt, ClientGoto, Ends, ClientSends, AtMenu
  <1> DEFINE Alone == /\ \A d \in Clients \ {c} : Still(d)
                      /\ status' = status /\ http' = http /\ permit' = permit /\ met' = met
             Moves == ThreadStill(c) /\ cutShort'[c] = cutShort[c]
  <1>1. ASSUME AskForSupplies(c) \/ SetSupplies(c)
        PROVE  Moves /\ Asks(c) /\ Alone
    BY <1>1 DEF AskForSupplies, SetSupplies, Asks, Sends, Supplies
  <1>2. ASSUME AskForImages(c) \/ Choose(c)
        PROVE  Moves /\ Asks(c) /\ Alone
    BY <1>2 DEF AskForImages, Choose, Asks, Sends
  <1>3. ASSUME SendImageCommand(c)
        PROVE  Moves /\ StartsImage(c) /\ Alone
    BY <1>3 DEF SendImageCommand, StartsImage, Sends, Image
  <1>4. ASSUME SendSize(c)
        PROVE  Moves /\ SendsSize(c) /\ Alone
    BY <1>4 DEF SendSize, SendsSize, Sends, Size
  <1>5. ASSUME SendData(c)
        PROVE  ((Moves /\ SendsData(c)) \/ CutsShort(c)) /\ Alone
    <2>1. PICK n \in 1 .. Chunks :
            /\ ClientSends(c, Arrived(FileData(uploads[c]), n))
            /\ \/ /\ ClientGoto(c, "menu")
                  /\ cutShort' = [cutShort EXCEPT ![c] = @ \/ n < Chunks]
               \/ n < Chunks /\ ClientGoto(c, "gone") /\ UNCHANGED cutShort
      BY <1>5 DEF SendData
    <2>2. /\ ThreadStill(c) /\ clientPc[c] = "sendData" /\ uploads'[c] = uploads[c]
          /\ download'[c] = download[c]
      BY <1>5 DEF SendData
    <2>3. Alone
      BY <1>5 DEF SendData
    <2>4. CASE n = Chunks \/ clientPc'[c] = "gone"
      <3>1. Sends(c, "sendData", IF n = Chunks THEN "menu" ELSE "gone",
                  Arrived(FileData(uploads[c]), n))
        <4>1. clientPc[c] = "sendData" /\ toClient' = toClient /\ download' = download
          BY <1>5 DEF SendData
        <4>2. toServer'[c] = toServer[c] \o Arrived(FileData(uploads[c]), n)
          BY <2>1
        <4>3. clientPc'[c] = IF n = Chunks THEN "menu" ELSE "gone"
          BY <2>1, <2>4, SessionAssumption
        <4> QED
          BY <4>1, <4>2, <4>3 DEF Sends
      <3>2. cutShort'[c] = cutShort[c]
        BY <2>1, <2>4, SessionAssumption
      <3> QED
        BY <2>2, <2>3, <3>1, <3>2 DEF SendsData
    <2>5. CASE n # Chunks /\ clientPc'[c] # "gone"
      <3>1. n < Chunks
        BY <2>5, SessionAssumption
      <3>2. clientPc'[c] = "menu" /\ cutShort'[c]
        BY <2>1, <2>5, <3>1
      <3> QED
        BY <2>2, <2>3, <3>2 DEF CutsShort
    <2> QED
      BY <2>4, <2>5
  <1>6. ASSUME ShowAnswer(c) \/ ReadReply(c)
        PROVE  Moves /\ Reads(c) /\ Alone
    BY <1>6 DEF ShowAnswer, ReadReply, Reads
  <1>7. ASSUME DownloadSize(c)
        PROVE  Moves /\ Downloads(c, "size", 1) /\ Alone
    <2>1. download[c] = <<>> /\ toClient[c] \in Seq(Units) /\ toClient[c] # <<>>
      BY <1>7 DEF DownloadSize
    <2>2. 1 \in 1 .. Len(toClient[c])
      BY <2>1
    <2>3. download[c] \o Arrived(toClient[c], 1) = Arrived(toClient[c], 1)
      BY <2>1, <2>2, TakeFacts, ConcatEmptySeq
    <2> QED
      BY <1>7, <2>2, <2>3 DEF DownloadSize, Downloads
  <1>8. ASSUME DownloadData(c)
        PROVE  Moves /\ (\E n \in Nat : Downloads(c, "data", n)) /\ Alone
    <2>1. PICK n \in 1 .. Len(toClient[c]) :
            /\ download' = [download EXCEPT ![c] = @ \o Arrived(toClient[c], n)]
            /\ toClient' = [toClient EXCEPT ![c] = Rest(@, n)]
      BY <1>8 DEF DownloadData
    <2>2. n \in Nat
      BY <2>1
    <2>3. Downloads(c, "data", n)
      BY <1>8, <2>1 DEF DownloadData, Downloads
    <2> QED
      BY <1>8, <2>1, <2>2, <2>3 DEF DownloadData
  <1>9. ASSUME SaveDownload(c)
        PROVE  Moves /\ Saves(c) /\ Alone
    BY <1>9 DEF SaveDownload, Saves
  <1>10. ASSUME InputFails(c)
         PROVE  Moves /\ Spins(c) /\ Alone
    BY <1>10 DEF InputFails, Spins
  <1>11. ASSUME Leave(c)
         PROVE  Moves /\ Leaves(c) /\ Alone
    BY <1>11 DEF Leave, Leaves
  <1>12. ASSUME Interrupt(c)
         PROVE  Still(c) /\ Alone
    BY <1>12 DEF Interrupt
  <1> QED
    BY <1>1, <1>2, <1>3, <1>4, <1>5, <1>6, <1>7, <1>8, <1>9, <1>10, <1>11, <1>12
    DEF UserStep, ClientStep, ClientMove

(* The reply with an image, as it is sent and as the client sees it. *)
LEMMA ImageReply ==
  <<<<"image">>, <<"size", FileSize>>>> \o FileData(Result) = <<<<"image">>>> \o ResultSent
  <1>1. FileData(Result) \in Seq(Units) /\ Size \in Units /\ <<"image">> \in Units
    BY DataFacts, UnitFacts, SessionAssumption DEF Files, Result, Messages, Answers
  <1>2. <<<<"image">>, Size>> = <<<<"image">>>> \o <<Size>>
    OBVIOUS
  <1>3. <<<<"image">>>> \in Seq(Units) /\ <<Size>> \in Seq(Units)
    BY <1>1
  <1>4. (<<<<"image">>>> \o <<Size>>) \o FileData(Result)
           = <<<<"image">>>> \o (<<Size>> \o FileData(Result))
    BY <1>1, <1>3, ConcatAssociative
  <1> QED
    BY <1>2, <1>4 DEF ResultSent, Size

(* A thread's step moves its own session only. *)
LEMMA ThreadMoves ==
  ASSUME TypeOK, NEW c \in Clients, ThreadStep(c)
  PROVE  /\ ThreadMove(c)
         /\ \A d \in Clients \ {c} : Still(d)
  <1> USE DEF TypeOK, VariablesOK, Holding, ThreadStill, ClientStill, Still, clientVars, threadVars, histories, streams,
              ClientAt, At, Goto, Goes, TakesNothing, vars
  <1> DEFINE Alone == \A d \in Clients \ {c} : Still(d)
  <1>1. ASSUME Receive(c)
        PROVE  Receives(c) /\ Alone
    BY <1>1 DEF Receive, Receives, Takes
  <1>2. ASSUME Dispatch(c)
        PROVE  Dispatches(c) /\ Alone
    <2>1. PICK k \in Commands : inHand[c] = <<<<k>>>>
      BY <1>2 DEF Dispatch, Readable
    <2>2. Command(c) = k
      BY <2>1 DEF Command
    <2> QED
      BY <1>2, <2>1, <2>2 DEF Dispatch, Dispatches, Commands, Supplies, Image
  <1>3. ASSUME UploadSize(c)
        PROVE  BeginsUpload(c) /\ Alone
    <2>1. toServer[c] \in Seq(Units) /\ toServer[c] # <<>>
      BY <1>3 DEF UploadSize
    <2>2. 1 \in 1 .. Len(toServer[c])
      BY <2>1
    <2> QED
      BY <1>3, <2>2 DEF UploadSize, BeginsUpload, Takes
  <1>4. ASSUME UploadData(c)
        PROVE  GoesOnUpload(c) /\ Alone
    <2>1. PICK n \in 1 .. Len(toServer[c]) :
            /\ upload' = [upload EXCEPT ![c] = @ \o Arrived(toServer[c], n)]
            /\ toServer' = [toServer EXCEPT ![c] = Rest(@, n)]
      BY <1>4 DEF UploadData
    <2>2. Takes(c, n) /\ upload'[c] = upload[c] \o Arrived(toServer[c], n)
      BY <1>4, <2>1 DEF UploadData, Takes
    <2>3. Goes(c, "data", "data") /\ inHand'[c] = inHand[c]
      BY <1>4 DEF UploadData
    <2>4. Alone
      BY <1>4, <2>1 DEF UploadData
    <2> QED
      BY <2>2, <2>3, <2>4 DEF GoesOnUpload
  <1>5. ASSUME Filter(c) \/ FilterThrows(c)
        PROVE  EndsUpload(c) /\ Alone
    BY <1>5 DEF Filter, FilterThrows, EndsUpload
  <1>6. ASSUME Served(c) \/ Collides(c)
        PROVE  Replies(c, "http", <<<<"answer">>>>, "recv") /\ Alone
    <2>1. /\ Reply(c, <<<<"answer">>>>, "recv", "closed") /\ At(c, "http")
          /\ inHand' = [inHand EXCEPT ![c] = <<>>]
          /\ UNCHANGED <<clientVars, upload, histories, toServer>>
      BY <1>6 DEF Served, Collides, AnswerSupplies, Requests
    <2> QED
      BY <2>1 DEF Reply, Replies
  <1>7. ASSUME SendNames(c)
        PROVE  Replies(c, "names", <<<<"images">>>>, "choice") /\ Alone
    BY <1>7 DEF SendNames, Reply, Replies
  <1>8. ASSUME SendImage(c)
        PROVE  /\ \/ Replies(c, "image", <<<<"error">>>>, "recv")
                  \/ Replies(c, "image", <<<<"image">>>> \o ResultSent, "recv")
               /\ Alone
    <2> DEFINE sent == <<<<"image">>>> \o ResultSent
    <2>1. /\ At(c, "image") /\ inHand' = [inHand EXCEPT ![c] = <<>>]
          /\ UNCHANGED <<clientVars, upload, histories, toServer>>
      BY <1>8 DEF SendImage
    <2>2. \/ Reply(c, sent, "recv", "end")
          \/ Reply(c, <<<<"error">>>>, "recv", "end")
      BY <1>8, ImageReply DEF SendImage
    <2> HIDE DEF sent
    <2>3. ASSUME Reply(c, sent, "recv", "end")
          PROVE  Replies(c, "image", sent, "recv") /\ Alone
      BY <2>1, <2>3 DEF Reply, Replies
    <2>4. ASSUME Reply(c, <<<<"error">>>>, "recv", "end")
          PROVE  Replies(c, "image", <<<<"error">>>>, "recv") /\ Alone
      BY <2>1, <2>4 DEF Reply, Replies
    <2> QED
      BY <2>2, <2>3, <2>4 DEF sent
  <1>9. ASSUME ReceiveChoice(c)
        PROVE  Chooses(c) /\ Alone
    BY <1>9 DEF ReceiveChoice, Chooses, Takes
  <1>10. ASSUME CloseSession(c) \/ NoChoice(c)
         PROVE  GivesUp(c) /\ Alone
    BY <1>10 DEF CloseSession, NoChoice, GivesUp
  <1>11. ASSUME NoUploadSize(c)
         PROVE  (GivesUp(c) \/ Still(c)) /\ Alone
    BY <1>11 DEF NoUploadSize, GivesUp, Abort
  <1>12. ASSUME Unreadable(c) \/ NoResult(c) \/ EndConn(c)
         PROVE  Still(c) /\ Alone
    BY <1>12 DEF Unreadable, NoResult, EndConn, Abort
  <1> QED
    BY <1>1, <1>2, <1>3, <1>4, <1>5, <1>6, <1>7, <1>8, <1>9, <1>10, <1>11, <1>12
    DEF ThreadStep, ThreadMove

(* What a session has met stays noted until it has filtered its image.      *)
LEMMA MetStays ==
  ASSUME TypeOK, NEW c \in Clients, ThreadStep(c)
  PROVE  \A d \in Clients : serverPc'[d] = "end" /\ met[d] => met'[d]
  <1> USE DEF TypeOK, VariablesOK, histories
  <1>1. CASE UploadData(c)
    <2>1. serverPc' = serverPc /\ serverPc[c] = "data"
      BY <1>1 DEF UploadData, At
    <2>2. \A d \in Clients \ {c} : met[d] => met'[d]
      BY <1>1 DEF UploadData, MeetsOthers
    <2> QED
      BY <2>1, <2>2
  <1>2. CASE Filter(c)
    <2>1. met' = [met EXCEPT ![c] = FALSE] /\ serverPc'[c] = "recv"
      BY <1>2 DEF Filter, Goto
    <2> QED
      BY <2>1
  <1>3. CASE \/ Receive(c) \/ CloseSession(c) \/ Dispatch(c) \/ Unreadable(c)
             \/ Served(c) \/ Collides(c) \/ NoResult(c)
             \/ UploadSize(c) \/ NoUploadSize(c) \/ FilterThrows(c)
             \/ SendNames(c) \/ ReceiveChoice(c) \/ NoChoice(c) \/ SendImage(c)
             \/ EndConn(c)
    <2>1. met' = met
      BY <1>3 DEF Receive, CloseSession, Dispatch, Unreadable, Abort, Served, Collides,
                  AnswerSupplies, NoResult, UploadSize, NoUploadSize, FilterThrows, SendNames,
                  ReceiveChoice, NoChoice, SendImage, EndConn, vars
    <2> QED
      BY <2>1
  <1> QED
    BY <1>1, <1>2, <1>3 DEF ThreadStep

-------------------------------------------------------------------------------
(* The streams keep their shape. *)

(* The file after an image's command comes next, or its client is to go on. *)
SizeComes(c) ==
  IF toServer[c] = <<>> THEN clientPc[c] \in {"sendSize", "gone"} ELSE toServer[c][1] = Size

(* What a client sends keeps the frames of its stream. *)
LEMMA StreamKeptByClient ==
  ASSUME TypeOK, TypeOK', NEW c \in Clients, StreamShape(c), ClientMove(c)
  PROVE  StreamShape(c)'
  <1> DEFINE w == upload[c] \o toServer[c]
             v == upload'[c] \o toServer'[c]
             Comes == SizeComes(c) => SizeComes(c)'
  <1>1. /\ ThreadStill(c) /\ upload[c] \in Seq(Units) /\ toServer[c] \in Seq(Units)
        /\ w \in Seq(Units) /\ uploads[c] \in Nat /\ uploads'[c] \in Nat
        /\ uploads[c] \in Files
        /\ Framed(w, clientPc[c], uploads[c])
        /\ clientPc[c] \in {"sendSize", "sendData"} => uploads[c] > 0
    BY SessionAssumption DEF TypeOK, VariablesOK, ClientMove, StreamShape, Files, Result
  <1>2. ASSUME NEW units \in Seq(Units), toServer'[c] = toServer[c] \o units, units # <<>>,
               toServer[c] = <<>> /\ clientPc[c] \in {"sendSize", "gone"} => units = <<Size>>
        PROVE  v = w \o units /\ Comes
    <2>1. v = w \o units
      <3>1. upload[c] \in Seq(Units) /\ toServer[c] \in Seq(Units) /\ units \in Seq(Units)
        BY <1>1
      <3>2. (upload[c] \o toServer[c]) \o units = upload[c] \o (toServer[c] \o units)
        BY <3>1, Associative
      <3> QED
        BY <1>1, <1>2, <3>2 DEF ThreadStill
    <2>2. Len(toServer'[c]) > 0 /\ toServer'[c] # <<>>
      BY <1>1, <1>2
    <2>3. CASE toServer[c] = <<>>
      <3>1. toServer'[c] = units
        BY <1>1, <1>2, <2>3, ConcatEmptySeq
      <3>2. SizeComes(c) => toServer'[c] = <<Size>>
        BY <1>2, <2>3, <3>1 DEF SizeComes
      <3>3. toServer'[c] = <<Size>> => toServer'[c][1] = Size
        OBVIOUS
      <3>4. toServer'[c][1] = Size => SizeComes(c)'
        BY <2>2 DEF SizeComes
      <3> QED
        BY <2>1, <3>2, <3>3, <3>4
    <2>4. CASE toServer[c] # <<>>
      <3>1. toServer'[c][1] = toServer[c][1]
        BY <1>1, <1>2, <2>4
      <3> QED
        BY <2>1, <2>2, <2>4, <3>1 DEF SizeComes
    <2> QED
      BY <2>1, <2>3, <2>4
  <1>3. ASSUME Framed(v, clientPc'[c], uploads'[c]), Comes,
               clientPc'[c] \in {"sendSize", "sendData"} => uploads'[c] > 0
        PROVE  StreamShape(c)'
    BY <1>1, <1>3 DEF StreamShape, SizeComes, ThreadStill
  <1> HIDE DEF w
  <1>4. ASSUME toServer'[c] = toServer[c], uploads'[c] = uploads[c],
               \/ clientPc'[c] = "gone"
               \/ /\ clientPc[c] \notin {"sendSize", "sendData", "gone"}
                  /\ clientPc'[c] \notin {"sendSize", "sendData"}
        PROVE  StreamShape(c)'
    <2>1. v = w
      BY <1>1, <1>4 DEF ThreadStill, w
    <2>2. Framed(v, clientPc'[c], uploads'[c])
      BY <1>1, <1>4, <2>1, FramedStill
    <2> QED
      BY <1>3, <1>4, <2>2 DEF SizeComes
  <1>5. CASE Asks(c)
    <2>1. PICK u \in Request :
            /\ toServer'[c] = toServer[c] \o <<u>> /\ uploads'[c] = uploads[c]
            /\ clientPc[c] \in {"menu", "choose"}
            /\ clientPc'[c] \in {"answer", "images", "image"}
      BY <1>5 DEF Asks, Sends, Request
    <2>2. u \in Messages /\ u # Image /\ <<u>> \in Seq(Units) /\ <<u>> # <<>>
      BY UnitFacts
    <2>3. v = w \o <<u>> /\ Comes
      BY <1>2, <2>1, <2>2
    <2>4. Framed(w \o <<u>>, clientPc'[c], uploads'[c])
      BY <1>1, <2>1, <2>2, FramedMessage
    <2> QED
      BY <1>3, <2>1, <2>3, <2>4
  <1>6. CASE StartsImage(c)
    <2>1. /\ toServer'[c] = toServer[c] \o <<Image>> /\ uploads'[c] = uploads[c] + 1
          /\ clientPc[c] = "menu" /\ clientPc'[c] = "sendSize"
      BY <1>6 DEF StartsImage, Sends
    <2>2. Image \in Messages /\ <<Image>> \in Seq(Units) /\ <<Image>> # <<>>
      BY UnitFacts
    <2>3. v = w \o <<Image>> /\ Comes
      BY <1>2, <2>1, <2>2
    <2>4. Framed(w, "menu", uploads'[c])
      BY <1>1, <2>1, FramedStill
    <2>5. Framed(w \o <<Image>>, "sendSize", uploads'[c])
      BY <1>1, <2>2, <2>4, FramedMessage
    <2>6. uploads'[c] > 0
      BY <1>1, <2>1
    <2> QED
      BY <1>3, <2>1, <2>3, <2>5, <2>6
  <1>7. CASE SendsSize(c)
    <2>1. /\ toServer'[c] = toServer[c] \o <<Size>> /\ uploads'[c] = uploads[c]
          /\ clientPc[c] = "sendSize" /\ clientPc'[c] = "sendData"
      BY <1>7 DEF SendsSize, Sends
    <2>2. <<Size>> \in Seq(Units) /\ <<Size>> # <<>>
      BY UnitFacts
    <2>3. v = w \o <<Size>> /\ Comes
      BY <1>2, <2>1, <2>2
    <2>4. Framed(w \o <<Size>>, "sendData", uploads[c])
      BY <1>1, <2>1, FramedSize
    <2> QED
      BY <1>1, <1>3, <2>1, <2>3, <2>4
  <1>8. CASE SendsData(c)
    <2>1. PICK n \in 1 .. Chunks :
            /\ toServer'[c] = toServer[c] \o Arrived(FileData(uploads[c]), n)
            /\ clientPc[c] = "sendData" /\ clientPc'[c] = IF n = Chunks THEN "menu" ELSE "gone"
            /\ uploads'[c] = uploads[c]
      BY <1>8 DEF SendsData, Sends
    <2>2. FileData(uploads[c]) \in Seq(Units) /\ Len(FileData(uploads[c])) = Chunks
      BY <1>1, DataFacts
    <2>3. /\ Arrived(FileData(uploads[c]), n) \in Seq(Units)
          /\ Arrived(FileData(uploads[c]), n) # <<>>
      BY <2>2, TakeFacts
    <2>4. v = w \o Arrived(FileData(uploads[c]), n) /\ Comes
      BY <1>2, <2>1, <2>3
    <2>5. Framed(w \o Arrived(FileData(uploads[c]), n), clientPc'[c], uploads[c])
      BY <1>1, <2>1, FramedData
    <2> QED
      BY <1>3, <2>1, <2>4, <2>5
  <1>9. CASE Reads(c)
    BY <1>4, <1>9 DEF Reads, AfterReply
  <1>10. CASE Downloads(c, "size", 1) \/ \E n \in Nat : Downloads(c, "data", n)
    BY <1>4, <1>10 DEF Downloads
  <1>11. CASE Saves(c) \/ Spins(c) \/ Leaves(c)
    BY <1>4, <1>11 DEF Saves, Spins, Leaves
  <1> QED
    BY <1>5, <1>6, <1>7, <1>8, <1>9, <1>10, <1>11 DEF ClientMove

(* However a thread reads, the frames stay. *)
LEMMA StreamKeptByThread ==
  ASSUME TypeOK, TypeOK', NEW c \in Clients, StreamShape(c), ThreadMove(c)
  PROVE  StreamShape(c)'
  <1> DEFINE w == upload[c] \o toServer[c]
             v == upload'[c] \o toServer'[c]
  <1>1. /\ upload[c] \in Seq(Units) /\ toServer[c] \in Seq(Units) /\ w \in Seq(Units)
        /\ upload'[c] \in Seq(Units) /\ toServer'[c] \in Seq(Units)
        /\ uploads[c] \in Nat
        /\ Framed(w, clientPc[c], uploads[c])
        /\ serverPc[c] # "data" => upload[c] = <<>> /\ w = toServer[c]
        /\ serverPc'[c] # "data" => upload'[c] = <<>> /\ v = toServer'[c]
    <2>1. /\ upload[c] \in Seq(Units) /\ toServer[c] \in Seq(Units)
          /\ upload'[c] \in Seq(Units) /\ toServer'[c] \in Seq(Units)
          /\ uploads[c] \in Nat
          /\ serverPc[c] # "data" => upload[c] = <<>>
          /\ serverPc'[c] # "data" => upload'[c] = <<>>
      BY SessionAssumption DEF TypeOK, VariablesOK, Holding
    <2>2. Framed(w, clientPc[c], uploads[c])
      BY DEF StreamShape
    <2>3. w \in Seq(Units)
      BY <2>1
    <2> QED
      BY <2>1, <2>2, <2>3, JoinEmpty
  <1>2. ASSUME Framed(v, clientPc[c], uploads[c]), ClientStill(c),
               serverPc'[c] = "size" => inHand'[c] = <<Image>>,
               serverPc'[c] \in {"command", "size"} /\ inHand'[c] = <<Image>> => SizeComes(c)'
        PROVE  StreamShape(c)'
    BY <1>2 DEF StreamShape, SizeComes, ClientStill
  <1> HIDE DEF w
  <1>3. ASSUME v = w, ClientStill(c), serverPc'[c] \notin {"command", "size"}
        PROVE  StreamShape(c)'
    BY <1>1, <1>2, <1>3
  <1>4. ASSUME toServer'[c] = toServer[c], upload'[c] = upload[c]
        PROVE  v = w
    BY <1>4 DEF w
  <1>5. ASSUME NEW n, n \in 1 .. Len(toServer[c])
        PROVE  /\ toServer[c] = Arrived(toServer[c], n) \o Rest(toServer[c], n)
               /\ Arrived(toServer[c], n) \in Seq(Units) /\ Rest(toServer[c], n) \in Seq(Units)
               /\ Len(Rest(toServer[c], n)) = Len(toServer[c]) - n
               /\ \A i \in 1 .. Len(toServer[c]) - n : Rest(toServer[c], n)[i] = toServer[c][n + i]
    BY <1>1, <1>5, TakeFacts
  <1>6. ASSUME NEW n, n \in 1 .. Len(toServer[c]), toServer'[c] = Rest(toServer[c], n),
               serverPc[c] # "data", serverPc'[c] # "data"
        PROVE  Framed(v, clientPc[c], uploads[c])
    <2>1. Framed(Arrived(toServer[c], n) \o Rest(toServer[c], n), clientPc[c], uploads[c])
      BY <1>1, <1>5, <1>6
    <2>2. Framed(Rest(toServer[c], n), clientPc[c], uploads[c])
      BY <1>1, <1>5, <1>6, <2>1, FramedRest
    <2> QED
      BY <1>1, <1>6, <2>2
  <1>7. CASE Receives(c)
    <2>1. PICK n \in 1 .. Len(toServer[c]) :
            toServer'[c] = Rest(toServer[c], n) /\ inHand'[c] = Arrived(toServer[c], n)
      BY <1>7 DEF Receives, Takes
    <2>2. serverPc[c] = "recv" /\ serverPc'[c] = "command" /\ ClientStill(c)
      BY <1>7 DEF Receives, Goes
    <2>3. Framed(v, clientPc[c], uploads[c])
      BY <1>6, <2>1, <2>2
    <2>4. ASSUME inHand'[c] = <<Image>>
          PROVE  SizeComes(c)'
      <3>1. Len(Arrived(toServer[c], n)) = n /\ Len(<<Image>>) = 1
        BY <1>1, <2>1, TakeFacts
      <3>2. n = 1
        BY <2>1, <2>4, <3>1
      <3>3. toServer[c][1] = Image
        <4>1. Arrived(toServer[c], n)[1] = toServer[c][1]
          BY <1>1, <2>1, <3>2, TakeFacts
        <4>2. <<Image>>[1] = Image
          OBVIOUS
        <4> QED
          BY <2>1, <2>4, <4>1, <4>2
      <3>4. Framed(toServer[c], clientPc[c], uploads[c])
        BY <1>1, <2>2
      <3>5. Len(toServer[c]) \in Nat /\ 1 <= Len(toServer[c])
        BY <1>1, <2>1
      <3>6. CASE Len(toServer[c]) = 1
        <4>1. clientPc[c] \in {"sendSize", "gone"}
          BY <3>3, <3>4, <3>6, <3>5 DEF Framed
        <4>2. toServer'[c] = <<>>
          <5>1. Len(toServer'[c]) = 0
            BY <1>5, <2>1, <3>2, <3>6
          <5> QED
            BY <1>1, <5>1
        <4> QED
          BY <2>2, <4>1, <4>2 DEF SizeComes, ClientStill
      <3>7. CASE Len(toServer[c]) > 1
        <4>1. toServer[c][2] = Size
          BY <3>3, <3>4, <3>7, <3>5 DEF Framed
        <4>2. toServer'[c][1] = toServer[c][2] /\ Len(toServer'[c]) > 0
          BY <1>5, <2>1, <3>2, <3>7, <3>5, SMTT(30)
        <4> QED
          BY <4>1, <4>2 DEF SizeComes
      <3>8. Len(toServer[c]) = 1 \/ Len(toServer[c]) > 1
        <4>1. \A k \in Nat : 1 <= k => k = 1 \/ k > 1
          OBVIOUS
        <4> QED
          BY <3>5, <4>1, Zenon
      <3> QED
        BY <3>6, <3>7, <3>8
    <2> QED
      BY <1>2, <2>2, <2>3, <2>4
  <1>8. CASE Dispatches(c)
    <2>1. /\ toServer'[c] = toServer[c] /\ upload'[c] = upload[c] /\ inHand'[c] = inHand[c]
          /\ serverPc[c] = "command" /\ ClientStill(c)
          /\ serverPc'[c] = "size" => inHand[c] = <<Image>>
          /\ serverPc'[c] # "command"
      BY <1>8 DEF Dispatches, TakesNothing, Goes
    <2>2. SizeComes(c)' = SizeComes(c)
      BY <2>1 DEF SizeComes, ClientStill
    <2>3. inHand[c] = <<Image>> => SizeComes(c)
      BY <2>1 DEF StreamShape, SizeComes
    <2> QED
      BY <1>1, <1>2, <1>4, <2>1, <2>2, <2>3
  <1>9. CASE BeginsUpload(c)
    <2>1. /\ 1 \in 1 .. Len(toServer[c]) /\ toServer'[c] = Rest(toServer[c], 1)
          /\ upload'[c] = Arrived(toServer[c], 1) /\ serverPc[c] = "size" /\ serverPc'[c] = "data"
          /\ ClientStill(c)
      BY <1>9 DEF BeginsUpload, Takes, Goes
    <2>2. v = w
      BY <1>1, <1>5, <2>1
    <2> QED
      BY <1>3, <2>1, <2>2
  <1>10. CASE GoesOnUpload(c)
    <2>1. PICK n \in 1 .. Len(toServer[c]) : /\ toServer'[c] = Rest(toServer[c], n)
                                             /\ upload'[c] = upload[c] \o Arrived(toServer[c], n)
      BY <1>10 DEF GoesOnUpload, Takes
    <2>2. (upload[c] \o Arrived(toServer[c], n)) \o Rest(toServer[c], n)
            = upload[c] \o (Arrived(toServer[c], n) \o Rest(toServer[c], n))
      BY <1>1, <1>5, Associative, ZenonT(40)
    <2>3. v = w
      BY <1>5, <2>1, <2>2 DEF w
    <2> QED
      BY <1>3, <1>10, <2>3 DEF GoesOnUpload, Goes
  <1>11. CASE EndsUpload(c)
    <2>1. toServer'[c] = toServer[c] /\ upload'[c] = <<>> /\ ClientStill(c)
          /\ serverPc'[c] \in {"recv", "end"}
      BY <1>11 DEF EndsUpload, TakesNothing, Goes
    <2>2. Framed(toServer[c], clientPc[c], uploads[c])
      BY <1>1, FramedRest DEF w
    <2>3. v = toServer[c]
      BY <1>1, <2>1
    <2> QED
      BY <1>2, <2>1, <2>2, <2>3
  <1>12. ASSUME NEW from, NEW units, NEW next, Replies(c, from, units, next),
                next \notin {"command", "size"}
         PROVE  StreamShape(c)'
    <2>1. /\ toServer'[c] = toServer[c] /\ upload'[c] = upload[c] /\ ClientStill(c)
          /\ serverPc'[c] \notin {"command", "size"}
      BY <1>12 DEF Replies, Goes
    <2> QED
      BY <1>3, <1>4, <2>1
  <1>13. CASE Chooses(c)
    <2>1. PICK n \in 1 .. Len(toServer[c]) : toServer'[c] = Rest(toServer[c], n)
      BY <1>13 DEF Chooses, Takes
    <2>2. serverPc[c] = "choice" /\ serverPc'[c] \in {"image", "end"} /\ ClientStill(c)
      BY <1>13 DEF Chooses, Goes
    <2> QED
      BY <1>2, <1>6, <2>1, <2>2
  <1>14. CASE GivesUp(c)
    BY <1>3, <1>4, <1>14 DEF GivesUp, TakesNothing, Goes
  <1>15. CASE Still(c)
    <2>1. SizeComes(c)' = SizeComes(c)
      BY <1>15 DEF SizeComes, Still, ClientStill
    <2> QED
      BY <1>1, <1>2, <1>4, <1>15, <2>1 DEF Still, ThreadStill, StreamShape, SizeComes
  <1> QED
    BY <1>7, <1>8, <1>9, <1>10, <1>11, <1>12, <1>13, <1>14, <1>15 DEF ThreadMove

-------------------------------------------------------------------------------
(* The types are kept. *)

(* Every step of a client keeps the types. *)
LEMMA VariablesKeptByClient ==
  ASSUME VariablesOK, NEW c \in Clients, UserStep(c) \/ ClientStep(c)
  PROVE  VariablesOK'
  <1> USE DEF VariablesOK, processVars, threadVars, histories, streams, ClientGoto, ClientPcs
  <1> DEFINE Endings == {"none", "left", "misread", "unusable"}
  <1>0. ASSUME NEW how \in Endings, Ends(c, how)
        PROVE  clientPc' \in [Clients -> ClientPcs] /\ ending' \in [Clients -> Endings]
    <2>1. clientPc' = [clientPc EXCEPT ![c] = "gone"] /\ ending' = [ending EXCEPT ![c] = how]
      BY <1>0 DEF Ends
    <2>2. clientPc' \in [Clients -> ClientPcs]
      BY <2>1
    <2>3. ending' \in [Clients -> Endings]
      BY <2>1
    <2> QED
      BY <2>2, <2>3
  <1>1. /\ \A m \in {"get_supplies", "set_supplies", "get_img_filtered", "img_filtering", "continue"} :
             <<<<m>>>> \in Seq(Units)
        /\ <<<<"size", FileSize>>>> \in Seq(Units)
    <2>1. /\ \A m \in {"get_supplies", "set_supplies", "get_img_filtered", "img_filtering", "continue"} :
               <<m>> \in Units
          /\ <<"size", FileSize>> \in Units
      BY UnitFacts DEF Messages, Commands, Supplies, Size
    <2> QED
      BY <2>1
  <1>2. \A s, t \in Seq(Units) : s \o t \in Seq(Units)
    OBVIOUS
  <1>3. \A s \in Seq(Units) : \A n \in 1 .. Len(s) :
          Arrived(s, n) \in Seq(Units) /\ Rest(s, n) \in Seq(Units)
    BY TakeFacts
  <1>4. \A f \in Files : \A n \in 1 .. Chunks : Arrived(FileData(f), n) \in Seq(Units)
    BY <1>3, DataFacts
  <1>5. ASSUME AskForSupplies(c)
        PROVE  VariablesOK'
    BY <1>1, <1>2, <1>5 DEF AskForSupplies, ClientSends
  <1>6. ASSUME SetSupplies(c)
        PROVE  VariablesOK'
    BY <1>1, <1>2, <1>6 DEF SetSupplies, ClientSends
  <1>7. ASSUME AskForImages(c)
        PROVE  VariablesOK'
    BY <1>1, <1>2, <1>7 DEF AskForImages, ClientSends
  <1>8. ASSUME Choose(c)
        PROVE  VariablesOK'
    BY <1>1, <1>2, <1>8 DEF Choose, ClientSends
  <1>9. ASSUME SendSize(c)
        PROVE  VariablesOK'
    BY <1>1, <1>2, <1>9 DEF SendSize, ClientSends
  <1>10. ASSUME SendImageCommand(c)
        PROVE  VariablesOK'
    <2>1. uploads[c] + 1 \in 0 .. MaxUploads
      BY <1>10, SessionAssumption DEF SendImageCommand
    <2> QED
      BY <1>1, <1>2, <1>10, <2>1 DEF SendImageCommand, ClientSends
  <1>11. ASSUME SendData(c)
        PROVE  VariablesOK'
    <2>1. PICK n \in 1 .. Chunks :
            /\ toServer' = [toServer EXCEPT ![c] = @ \o Arrived(FileData(uploads[c]), n)]
            /\ \/ /\ ClientGoto(c, "menu") /\ UNCHANGED ending
                  /\ cutShort' = [cutShort EXCEPT ![c] = @ \/ n < Chunks]
               \/ Ends(c, "left") /\ UNCHANGED cutShort
      BY <1>11 DEF SendData, ClientSends
    <2>2. Arrived(FileData(uploads[c]), n) \in Seq(Units)
      BY <1>4 DEF Files, Result
    <2>3. toServer' \in [Clients -> Seq(Units)]
      BY <1>2, <2>1, <2>2
    <2>4. cutShort' \in [Clients -> BOOLEAN]
      BY <2>1
    <2>5. clientPc' \in [Clients -> ClientPcs] /\ ending' \in [Clients -> Endings]
      <3>1. CASE ClientGoto(c, "menu") /\ UNCHANGED ending
        BY <3>1
      <3>2. CASE Ends(c, "left")
        BY <1>0, <3>2
      <3> QED
        BY <2>1, <3>1, <3>2
    <2>6. UNCHANGED <<processVars, mode, uploads, download, threadVars, toClient, swallowed, met>>
      BY <1>11 DEF SendData
    <2> QED
      BY <2>3, <2>4, <2>5, <2>6
  <1>12. ASSUME ShowAnswer(c)
        PROVE  VariablesOK'
    <2>1. PICK n \in 1 .. Len(toClient[c]) : toClient' = [toClient EXCEPT ![c] = Rest(@, n)]
      BY <1>12 DEF ShowAnswer
    <2>2. Rest(toClient[c], n) \in Seq(Units)
      BY <1>3
    <2> QED
      BY <1>12, <2>1, <2>2 DEF ShowAnswer
  <1>13. ASSUME ReadReply(c)
        PROVE  VariablesOK'
    <2>1. PICK n \in 1 .. Len(toClient[c]) :
            /\ toClient' = [toClient EXCEPT ![c] = Rest(@, n)]
            /\ \/ Ends(c, "misread")
               \/ ClientGoto(c, AfterReply(c, Arrived(toClient[c], n))) /\ UNCHANGED ending
      BY <1>13 DEF ReadReply
    <2>2. Rest(toClient[c], n) \in Seq(Units)
      BY <1>3
    <2>3. AfterReply(c, Arrived(toClient[c], n)) \in ClientPcs
      BY DEF AfterReply
    <2>4. clientPc' \in [Clients -> ClientPcs] /\ ending' \in [Clients -> Endings]
      <3>1. CASE Ends(c, "misread")
        BY <1>0, <3>1
      <3>2. CASE ClientGoto(c, AfterReply(c, Arrived(toClient[c], n))) /\ UNCHANGED ending
        BY <2>3, <3>2
      <3> QED
        BY <2>1, <3>1, <3>2
    <2> QED
      BY <1>13, <2>1, <2>2, <2>4 DEF ReadReply
  <1>14. ASSUME DownloadSize(c)
        PROVE  VariablesOK'
    <2>1. 1 \in 1 .. Len(toClient[c])
      BY <1>14 DEF DownloadSize
    <2> QED
      BY <1>3, <1>14, <2>1 DEF DownloadSize
  <1>15. ASSUME DownloadData(c)
        PROVE  VariablesOK'
    <2>1. PICK n \in 1 .. Len(toClient[c]) :
            /\ download' = [download EXCEPT ![c] = @ \o Arrived(toClient[c], n)]
            /\ toClient' = [toClient EXCEPT ![c] = Rest(@, n)]
      BY <1>15 DEF DownloadData
    <2>2. Arrived(toClient[c], n) \in Seq(Units) /\ Rest(toClient[c], n) \in Seq(Units)
      BY <1>3
    <2> QED
      BY <1>2, <1>15, <2>1, <2>2 DEF DownloadData
  <1>16. ASSUME SaveDownload(c)
        PROVE  VariablesOK'
    <2>1. download' \in [Clients -> Seq(Units)]
      <3>1. <<>> \in Seq(Units) /\ download' = [download EXCEPT ![c] = <<>>]
        BY <1>16 DEF SaveDownload
      <3> QED
        BY <3>1
    <2>2. clientPc' \in [Clients -> ClientPcs] /\ ending' \in [Clients -> Endings]
      <3>1. (ClientGoto(c, "menu") /\ UNCHANGED ending) \/ Ends(c, "unusable")
        BY <1>16 DEF SaveDownload
      <3>2. CASE ClientGoto(c, "menu") /\ UNCHANGED ending
        BY <3>2
      <3> QED
        BY <1>0, <3>1, <3>2
    <2> QED
      BY <1>16, <2>1, <2>2 DEF SaveDownload
  <1>17. ASSUME Leave(c)
        PROVE  VariablesOK'
    <2>1. clientPc' \in [Clients -> ClientPcs] /\ ending' \in [Clients -> Endings]
      BY <1>0, <1>17 DEF Leave
    <2>2. /\ download' \in [Clients -> Seq(Units)] /\ toClient' \in [Clients -> Seq(Units)]
          /\ mode' \in [Clients -> {"menu", "asks", "user"}]
      <3>1. <<>> \in Seq(Units)
        OBVIOUS
      <3> QED
        BY <1>17, <3>1 DEF Leave
    <2>3. UNCHANGED <<processVars, uploads, threadVars, toServer, cutShort, swallowed, met>>
      BY <1>17 DEF Leave
    <2> QED
      BY <2>1, <2>2, <2>3
  <1>18. ASSUME InputFails(c)
        PROVE  VariablesOK'
    BY <1>18 DEF InputFails
  <1>19. ASSUME Interrupt(c)
        PROVE  VariablesOK'
    BY <1>19 DEF Interrupt
  <1> QED
    BY <1>5, <1>6, <1>7, <1>8, <1>9, <1>10, <1>11, <1>12, <1>13, <1>14, <1>15, <1>16, <1>17, <1>18, <1>19 DEF UserStep, ClientStep

(* Every step of a thread keeps the types. *)
LEMMA VariablesKeptByThread ==
  ASSUME VariablesOK, NEW c \in Clients, ThreadStep(c)
  PROVE  VariablesOK'
  <1> USE DEF VariablesOK, processVars, clientVars, threadVars, histories, streams, Goto, ServerPcs
  <1>1. /\ \A m \in Answers : <<<<m>>>> \in Seq(Units)
        /\ <<<<"image">>, <<"size", FileSize>>>> \o FileData(Result) \in Seq(Units)
    <2>1. <<"size", FileSize>> \in Units /\ \A m \in Answers : <<m>> \in Units
      BY UnitFacts DEF Messages, Size
    <2>2. Result \in Files
      BY SessionAssumption DEF Files, Result
    <2>3. FileData(Result) \in Seq(Units)
      BY <2>2, DataFacts
    <2>4. <<<<"image">>, <<"size", FileSize>>>> \in Seq(Units)
      BY <2>1 DEF Answers
    <2> QED
      BY <2>1, <2>3, <2>4
  <1>2. \A s, t \in Seq(Units) : s \o t \in Seq(Units)
    OBVIOUS
  <1>3. \A s \in Seq(Units) : \A n \in 1 .. Len(s) :
          Arrived(s, n) \in Seq(Units) /\ Rest(s, n) \in Seq(Units)
    BY TakeFacts
  <1>4. ASSUME NEW units \in Seq(Units), NEW next \in ServerPcs, NEW ifThrown \in ServerPcs,
               Reply(c, units, next, ifThrown)
        PROVE  /\ toClient' \in [Clients -> Seq(Units)]
               /\ serverPc' \in [Clients -> ServerPcs]
    <2>1. toClient[c] \o units \in Seq(Units)
      BY <1>2
    <2>2. \/ toClient' = [toClient EXCEPT ![c] = @ \o units]
          \/ toClient' = [toClient EXCEPT ![c] = @]
          \/ toClient' = toClient
      BY <1>4 DEF Reply
    <2>3. \/ serverPc' = [serverPc EXCEPT ![c] = next]
          \/ serverPc' = [serverPc EXCEPT ![c] = ifThrown]
      BY <1>4 DEF Reply
    <2>4. toClient' \in [Clients -> Seq(Units)]
      BY <2>1, <2>2
    <2>5. serverPc' \in [Clients -> ServerPcs]
      BY <2>3
    <2> QED
      BY <2>4, <2>5
  <1>5. <<>> \in Seq(Units)
    OBVIOUS
  <1>6. ASSUME Receive(c)
        PROVE  VariablesOK'
    <2>1. PICK n \in 1 .. Len(toServer[c]) :
            /\ inHand' = [inHand EXCEPT ![c] = Arrived(toServer[c], n)]
            /\ toServer' = [toServer EXCEPT ![c] = Rest(@, n)]
      BY <1>6 DEF Receive
    <2>2. Arrived(toServer[c], n) \in Seq(Units) /\ Rest(toServer[c], n) \in Seq(Units)
      BY <1>3
    <2> QED
      BY <1>6, <2>1, <2>2 DEF Receive
  <1>7. ASSUME ReceiveChoice(c)
        PROVE  VariablesOK'
    <2>1. PICK n \in 1 .. Len(toServer[c]) :
            /\ Goto(c, IF Arrived(toServer[c], n) = <<<<"continue">>>> THEN "image" ELSE "end")
            /\ toServer' = [toServer EXCEPT ![c] = Rest(@, n)]
      BY <1>7 DEF ReceiveChoice
    <2>2. Rest(toServer[c], n) \in Seq(Units)
      BY <1>3
    <2> QED
      BY <1>7, <2>1, <2>2 DEF ReceiveChoice
  <1>8. ASSUME Dispatch(c)
        PROVE  VariablesOK'
    <2>1. PICK k \in Commands : inHand[c] = <<<<k>>>>
      BY <1>8 DEF Dispatch, Readable
    <2>2. Command(c) = k
      BY <2>1 DEF Command
    <2> QED
      BY <1>8, <2>2 DEF Dispatch, Commands, Supplies
  <1>9. ASSUME CloseSession(c)
        PROVE  VariablesOK'
    BY <1>9 DEF CloseSession
  <1>10. ASSUME NoChoice(c)
        PROVE  VariablesOK'
    BY <1>10 DEF NoChoice
  <1>11. ASSUME Filter(c)
        PROVE  VariablesOK'
    BY <1>5, <1>11 DEF Filter
  <1>12. ASSUME FilterThrows(c)
        PROVE  VariablesOK'
    BY <1>5, <1>12 DEF FilterThrows
  <1>13. ASSUME Unreadable(c)
        PROVE  VariablesOK'
    BY <1>13 DEF Unreadable, Abort
  <1>14. ASSUME NoResult(c)
        PROVE  VariablesOK'
    BY <1>14 DEF NoResult, Abort
  <1>15. ASSUME NoUploadSize(c)
        PROVE  VariablesOK'
    BY <1>15 DEF NoUploadSize, Abort
  <1>16. ASSUME EndConn(c)
        PROVE  VariablesOK'
    BY <1>16 DEF EndConn
  <1>17. ASSUME Served(c)
        PROVE  VariablesOK'
    <2>1. Reply(c, <<<<"answer">>>>, "recv", "closed") /\ inHand' = [inHand EXCEPT ![c] = <<>>]
      BY <1>17 DEF Served, AnswerSupplies
    <2>2. toClient' \in [Clients -> Seq(Units)] /\ serverPc' \in [Clients -> ServerPcs]
      BY <1>1, <1>4, <2>1 DEF Answers
    <2>3. /\ UNCHANGED <<status, http, results, clientVars, upload, histories, toServer>>
          /\ permit' = permit
      BY <1>17 DEF Served, AnswerSupplies
    <2>4. permit' \in BOOLEAN
      BY <2>3
    <2>5. inHand' \in [Clients -> Seq(Units)]
      BY <1>5, <2>1
    <2> QED
      BY <2>2, <2>3, <2>4, <2>5
  <1>18. ASSUME Collides(c)
        PROVE  VariablesOK'
    <2>1. Reply(c, <<<<"answer">>>>, "recv", "closed") /\ inHand' = [inHand EXCEPT ![c] = <<>>]
      BY <1>18 DEF Collides, AnswerSupplies
    <2>2. toClient' \in [Clients -> Seq(Units)] /\ serverPc' \in [Clients -> ServerPcs]
      BY <1>1, <1>4, <2>1 DEF Answers
    <2>3. /\ UNCHANGED <<status, http, results, clientVars, upload, histories, toServer>>
          /\ permit' = FALSE
      BY <1>18 DEF Collides, AnswerSupplies
    <2>4. permit' \in BOOLEAN
      BY <2>3
    <2>5. inHand' \in [Clients -> Seq(Units)]
      BY <1>5, <2>1
    <2> QED
      BY <2>2, <2>3, <2>4, <2>5
  <1>19. ASSUME SendNames(c)
        PROVE  VariablesOK'
    <2>1. Reply(c, <<<<"images">>>>, "choice", "end")
      BY <1>19 DEF SendNames
    <2>2. toClient' \in [Clients -> Seq(Units)] /\ serverPc' \in [Clients -> ServerPcs]
      BY <1>1, <1>4, <2>1 DEF Answers
    <2> QED
      BY <1>19, <2>2 DEF SendNames
  <1>20. ASSUME SendImage(c)
        PROVE  VariablesOK'
    <2>1. PICK units \in Seq(Units) : Reply(c, units, "recv", "end")
      <3>1. <<<<"error">>>> \in Seq(Units)
        BY <1>1 DEF Answers
      <3> QED
        BY <1>1, <1>20, <3>1 DEF SendImage
    <2>2. toClient' \in [Clients -> Seq(Units)] /\ serverPc' \in [Clients -> ServerPcs]
      BY <1>4, <2>1
    <2> QED
      BY <1>5, <1>20, <2>2 DEF SendImage
  <1>21. ASSUME UploadSize(c)
        PROVE  VariablesOK'
    <2>1. 1 \in 1 .. Len(toServer[c])
      BY <1>21 DEF UploadSize
    <2>2. Arrived(toServer[c], 1) \in Seq(Units) /\ Rest(toServer[c], 1) \in Seq(Units)
      BY <1>3, <2>1
    <2> QED
      BY <1>21, <2>2 DEF UploadSize
  <1>22. ASSUME UploadData(c)
        PROVE  VariablesOK'
    <2>1. PICK n \in 1 .. Len(toServer[c]) :
            /\ upload' = [upload EXCEPT ![c] = @ \o Arrived(toServer[c], n)]
            /\ toServer' = [toServer EXCEPT ![c] = Rest(@, n)]
      BY <1>22 DEF UploadData
    <2>2. Arrived(toServer[c], n) \in Seq(Units) /\ Rest(toServer[c], n) \in Seq(Units)
      BY <1>3
    <2>3. upload' \in [Clients -> Seq(Units)] /\ toServer' \in [Clients -> Seq(Units)]
      BY <1>2, <2>1, <2>2
    <2>4. met' \in [Clients -> BOOLEAN]
      <3>1. MeetsOthers(c) => met' \in [Clients -> BOOLEAN]
        BY DEF MeetsOthers, OthersSave, Saving, Complete
      <3> QED
        BY <1>22, <3>1 DEF UploadData
    <2>5. UNCHANGED <<processVars, clientVars, serverPc, inHand, toClient, ending, cutShort, swallowed>>
      BY <1>22 DEF UploadData
    <2> QED
      BY <2>3, <2>4, <2>5
  <1> QED
    BY <1>6, <1>7, <1>8, <1>9, <1>10, <1>11, <1>12, <1>13, <1>14, <1>15, <1>16, <1>17, <1>18, <1>19, <1>20, <1>21, <1>22 DEF ThreadStep

(* A file that is received starts with its size. *)
LEMMA ResultFacts ==
  /\ ResultSent \in Seq(Units) /\ Len(ResultSent) = 1 + Chunks /\ ResultSent[1] = Size
  /\ \A i \in 1 .. Chunks : ResultSent[1 + i] = <<"data", Result, i>>
  <1>1. Chunks \in Nat /\ Result \in Files
    BY SessionAssumption DEF Files, Result
  <1>2. /\ FileData(Result) \in Seq(Units) /\ Len(FileData(Result)) = Chunks
        /\ \A i \in 1 .. Chunks : FileData(Result)[i] = <<"data", Result, i>>
    BY <1>1, DataFacts
  <1>3. <<Size>> \in Seq(Units) /\ Len(<<Size>>) = 1 /\ <<Size>>[1] = Size
    BY UnitFacts
  <1> QED
    BY <1>1, <1>2, <1>3, JoinFacts DEF ResultSent

(* The file a client receives exists in its loop only. *)
LEMMA ReceivingKeptByClient ==
  ASSUME VariablesOK, VariablesOK', NEW c \in Clients, Receiving(c), ClientMove(c),
         ~ClientAt(c, "gone") => ReplyShape(c)
  PROVE  Receiving(c)'
  <1> USE DEF Receiving, Holding, IsReceiving, ClientAt
  <1>1. ThreadStill(c) /\ download[c] \in Seq(Units) /\ toClient[c] \in Seq(Units)
        /\ download'[c] \in Seq(Units)
    BY DEF ClientMove, VariablesOK
  <1>2. CASE Asks(c) \/ StartsImage(c) \/ SendsSize(c) \/ SendsData(c)
    BY <1>1, <1>2 DEF Asks, StartsImage, SendsSize, SendsData, Sends, ThreadStill
  <1>3. CASE Reads(c)
    <2>1. clientPc[c] # "data" /\ download'[c] = download[c]
      BY <1>3 DEF Reads
    <2>2. clientPc'[c] # "data"
      BY <1>3 DEF Reads, AfterReply
    <2> QED
      BY <1>1, <2>1, <2>2 DEF ThreadStill
  <1>4. CASE Downloads(c, "size", 1)
    <2>1. /\ download[c] = <<>> /\ clientPc'[c] = "data" /\ 1 \in 1 .. Len(toClient[c])
          /\ download'[c] = download[c] \o Arrived(toClient[c], 1)
      BY <1>4 DEF Downloads
    <2>2. toClient[c] = ResultSent
      BY <1>4 DEF Downloads, ReplyShape
    <2>3. /\ Arrived(toClient[c], 1) \in Seq(Units) /\ Arrived(toClient[c], 1) # <<>>
          /\ Arrived(toClient[c], 1)[1] = toClient[c][1]
      BY <1>1, <2>1, TakeFacts
    <2>4. download'[c] = Arrived(toClient[c], 1)
      BY <2>1, <2>3, JoinEmpty
    <2>5. download'[c] # <<>> /\ download'[c][1] = Size
      BY <2>2, <2>3, <2>4, ResultFacts
    <2> QED
      BY <1>1, <2>1, <2>5 DEF ThreadStill, Size
  <1>5. CASE \E n \in Nat : Downloads(c, "data", n)
    <2>1. PICK n \in Nat : Downloads(c, "data", n)
      BY <1>5
    <2>2. /\ download[c] # <<>> /\ clientPc'[c] = "data" /\ n \in 1 .. Len(toClient[c])
          /\ download'[c] = download[c] \o Arrived(toClient[c], n)
      BY <2>1 DEF Downloads
    <2>3. Arrived(toClient[c], n) \in Seq(Units)
      BY <1>1, <2>2, TakeFacts
    <2>4. download'[c] # <<>> /\ download'[c][1] = download[c][1]
      <3>1. download[c] \in Seq(Units) /\ download[c] # <<>>
        BY <1>1, <2>2
      <3>2. download'[c] = download[c] \o Arrived(toClient[c], n)
        BY <2>2
      <3> QED
        BY <2>3, <3>1, <3>2, FirstStays
    <2> QED
      BY <1>1, <2>2, <2>4 DEF ThreadStill
  <1>6. CASE Saves(c) \/ Spins(c) \/ Leaves(c)
    BY <1>1, <1>6 DEF Saves, Spins, Leaves, ThreadStill
  <1> QED
    BY <1>2, <1>3, <1>4, <1>5, <1>6 DEF ClientMove

(* The file a thread receives exists in its loop only. *)
LEMMA ReceivingKeptByThread ==
  ASSUME VariablesOK, VariablesOK', NEW c \in Clients, Receiving(c), StreamShape(c), ThreadMove(c)
  PROVE  Receiving(c)'
  <1> USE DEF Receiving, Holding, IsReceiving, ClientAt
  <1>1. upload[c] \in Seq(Units) /\ toServer[c] \in Seq(Units) /\ upload'[c] \in Seq(Units)
    BY DEF VariablesOK
  <1>2. CASE Receives(c) \/ Dispatches(c)
    BY <1>2 DEF Receives, Dispatches, Goes, ClientStill
  <1>3. CASE BeginsUpload(c)
    <2>1. /\ 1 \in 1 .. Len(toServer[c]) /\ upload'[c] = Arrived(toServer[c], 1)
          /\ serverPc[c] = "size" /\ serverPc'[c] = "data" /\ ClientStill(c)
      BY <1>3 DEF BeginsUpload, Takes, Goes
    <2>2. toServer[c][1] = Size
      BY <1>1, <2>1 DEF StreamShape
    <2>3. upload'[c] # <<>> /\ upload'[c][1] = Size
      BY <1>1, <2>1, <2>2, TakeFacts
    <2> QED
      BY <2>1, <2>3 DEF ClientStill, Size
  <1>4. CASE GoesOnUpload(c)
    <2>1. PICK n \in 1 .. Len(toServer[c]) : upload'[c] = upload[c] \o Arrived(toServer[c], n)
      BY <1>4 DEF GoesOnUpload
    <2>2. Arrived(toServer[c], n) \in Seq(Units)
      BY <1>1, TakeFacts
    <2>3. serverPc[c] = "data" /\ serverPc'[c] = "data" /\ ClientStill(c)
      BY <1>4 DEF GoesOnUpload, Goes
    <2>4. upload[c] # <<>>
      BY <2>3
    <2>5. upload'[c] # <<>> /\ upload'[c][1] = upload[c][1]
      BY <1>1, <2>1, <2>2, <2>4, FirstStays, ZenonT(40)
    <2> QED
      BY <2>3, <2>5 DEF ClientStill
  <1>5. CASE EndsUpload(c)
    BY <1>5 DEF EndsUpload, Goes, ClientStill
  <1>6. ASSUME NEW from, NEW units, NEW next, Replies(c, from, units, next),
               from # "data", next # "data"
        PROVE  Receiving(c)'
    BY <1>6 DEF Replies, Goes, ClientStill
  <1>7. CASE Chooses(c)
    BY <1>7 DEF Chooses, Goes, ClientStill
  <1>8. CASE GivesUp(c)
    BY <1>8 DEF GivesUp, Goes, ClientStill
  <1>9. CASE Still(c)
    BY <1>9 DEF Still, ThreadStill, ClientStill
  <1> QED
    BY <1>2, <1>3, <1>4, <1>5, <1>6, <1>7, <1>8, <1>9 DEF ThreadMove

(* A file is held in these loops also by a session that went out of step. *)
LEMMA HoldingKeptByClient ==
  ASSUME VariablesOK, NEW c \in Clients, Holding(c), ClientMove(c) \/ CutsShort(c)
  PROVE  Holding(c)'
  <1> USE DEF Holding, ClientAt
  <1>1. /\ ThreadStill(c) /\ download[c] \in Seq(Units) /\ toClient[c] \in Seq(Units)
    BY DEF ClientMove, CutsShort, VariablesOK
  <1>2. ASSUME NEW n \in Nat, NEW from, Downloads(c, from, n)
        PROVE  Holding(c)'
    <2>1. /\ clientPc'[c] = "data" /\ n \in 1 .. Len(toClient[c])
          /\ download'[c] = download[c] \o Arrived(toClient[c], n)
      BY <1>2 DEF Downloads
    <2>2. Arrived(toClient[c], n) \in Seq(Units) /\ Arrived(toClient[c], n) # <<>>
      BY <1>1, <2>1, TakeFacts
    <2>3. download[c] \o Arrived(toClient[c], n) # <<>>
      BY <1>1, <2>2, JoinEmpty, FirstStays
    <2> QED
      BY <1>1, <2>1, <2>3 DEF ThreadStill
  <1>3. CASE Asks(c) \/ StartsImage(c) \/ SendsSize(c) \/ SendsData(c) \/ CutsShort(c)
    BY <1>1, <1>3 DEF Asks, StartsImage, SendsSize, SendsData, Sends, CutsShort, ThreadStill
  <1>4. CASE Reads(c)
    <2>1. clientPc[c] # "data" /\ download'[c] = download[c]
      BY <1>4 DEF Reads
    <2>2. clientPc'[c] # "data"
      BY <1>4 DEF Reads, AfterReply
    <2> QED
      BY <1>1, <2>1, <2>2 DEF ThreadStill
  <1>5. CASE Saves(c) \/ Spins(c) \/ Leaves(c)
    BY <1>1, <1>5 DEF Saves, Spins, Leaves, ThreadStill
  <1>6. 1 \in Nat
    OBVIOUS
  <1> QED
    BY <1>2, <1>3, <1>4, <1>5, <1>6 DEF ClientMove

LEMMA HoldingKeptByThread ==
  ASSUME VariablesOK, NEW c \in Clients, Holding(c), ThreadMove(c)
  PROVE  Holding(c)'
  <1> USE DEF Holding, ClientAt
  <1>1. upload[c] \in Seq(Units) /\ toServer[c] \in Seq(Units)
    BY DEF VariablesOK
  <1>2. CASE Receives(c) \/ Dispatches(c)
    BY <1>2 DEF Receives, Dispatches, Goes, ClientStill
  <1>3. CASE BeginsUpload(c)
    <2>1. /\ 1 \in 1 .. Len(toServer[c]) /\ upload'[c] = Arrived(toServer[c], 1)
          /\ serverPc'[c] = "data" /\ ClientStill(c)
      BY <1>3 DEF BeginsUpload, Takes, Goes
    <2>2. Arrived(toServer[c], 1) # <<>>
      BY <1>1, <2>1, TakeFacts
    <2> QED
      BY <2>1, <2>2 DEF ClientStill
  <1>4. CASE GoesOnUpload(c)
    <2>1. PICK n \in 1 .. Len(toServer[c]) : upload'[c] = upload[c] \o Arrived(toServer[c], n)
      BY <1>4 DEF GoesOnUpload
    <2>2. Arrived(toServer[c], n) \in Seq(Units)
      BY <1>1, TakeFacts
    <2>3. serverPc[c] = "data" /\ serverPc'[c] = "data" /\ ClientStill(c)
      BY <1>4 DEF GoesOnUpload, Goes
    <2>4. upload[c] # <<>>
      BY <2>3
    <2>5. upload'[c] # <<>>
      BY <1>1, <2>1, <2>2, <2>4, FirstStays, ZenonT(40)
    <2> QED
      BY <2>3, <2>5 DEF ClientStill
  <1>5. CASE EndsUpload(c)
    BY <1>5 DEF EndsUpload, Goes, ClientStill
  <1>6. ASSUME NEW from, NEW units, NEW next, Replies(c, from, units, next),
               from # "data", next # "data"
        PROVE  Holding(c)'
    BY <1>6 DEF Replies, Goes, ClientStill
  <1>7. CASE Chooses(c)
    BY <1>7 DEF Chooses, Goes, ClientStill
  <1>8. CASE GivesUp(c)
    BY <1>8 DEF GivesUp, Goes, ClientStill
  <1>9. CASE Still(c)
    BY <1>9 DEF Still, ThreadStill, ClientStill
  <1> QED
    BY <1>2, <1>3, <1>4, <1>5, <1>6, <1>7, <1>8, <1>9 DEF ThreadMove

(* A session in which nothing happens stays as it is. *)
LEMMA StillSession ==
  ASSUME NEW c \in Clients, Still(c)
  PROVE  /\ Holding(c) => Holding(c)'
         /\ SessionShape(c) => SessionShape(c)'
  <1> USE DEF Still, ThreadStill, ClientStill
  <1>0. Holding(c) => Holding(c)'
    BY DEF Holding, ClientAt
  <1>1. Receiving(c) => Receiving(c)'
    BY <1>0 DEF Receiving
  <1>2. StreamShape(c) => StreamShape(c)'
    BY DEF StreamShape
  <1>3. Unread(c)' = Unread(c)
    BY DEF Unread
  <1>4. RequestShape(c) => RequestShape(c)'
    BY <1>3 DEF RequestShape
  <1>5. Idle(c)' = Idle(c)
    BY DEF Idle
  <1>6. ReplyShape(c) => ReplyShape(c)'
    BY <1>3, <1>5 DEF ReplyShape
  <1> QED
    BY <1>0, <1>1, <1>2, <1>4, <1>6 DEF SessionShape, ClientAt

-------------------------------------------------------------------------------
(* Requests are the last thing their clients send. *)

RequestsLast(s, pc, n) ==
  \A i \in 1 .. Len(s) :
    /\ s[i] \in Request => i = Len(s)
    /\ s[i] = <<"continue">> => pc = "choice"
    /\ n = 0 => s[i] \in Request

(* What is unread is a sequence of units, with or without what is in hand. *)
LEMMA UnreadFacts ==
  ASSUME VariablesOK, NEW c \in Clients
  PROVE  /\ Unread(c) \in Seq(Units) /\ toServer[c] \in Seq(Units) /\ inHand[c] \in Seq(Units)
         /\ toClient[c] \in Seq(Units) /\ uploads[c] \in Nat
         /\ serverPc[c] # "command" => Unread(c) = toServer[c]
         /\ serverPc[c] = "command" => Unread(c) = inHand[c] \o toServer[c]
  <1>1. /\ toServer[c] \in Seq(Units) /\ inHand[c] \in Seq(Units)
        /\ toClient[c] \in Seq(Units) /\ uploads[c] \in Nat
    BY SessionAssumption DEF VariablesOK
  <1>2. <<>> \o toServer[c] = toServer[c]
    BY <1>1, JoinEmpty
  <1>3. inHand[c] \o toServer[c] \in Seq(Units)
    BY <1>1
  <1> QED
    BY <1>1, <1>2, <1>3 DEF Unread

(* What is left of a stream has its requests last, *)
LEMMA RequestsLastRest ==
  ASSUME NEW s \in Seq(Units), NEW t \in Seq(Units), NEW pc, NEW q, NEW n \in Nat,
         RequestsLast(s \o t, pc, n), pc # "choice"
  PROVE  RequestsLast(t, q, n)
  <1> DEFINE w == s \o t
  <1>1. /\ Len(w) = Len(s) + Len(t) /\ Len(s) \in Nat /\ Len(t) \in Nat
        /\ \A i \in 1 .. Len(t) : w[Len(s) + i] = t[i]
    BY JoinFacts
  <1>2. RequestsLast(w, pc, n)
    OBVIOUS
  <1> HIDE DEF w
  <1>3. \A i \in 1 .. Len(t) : Len(s) + i \in 1 .. Len(w) /\ (Len(s) + i = Len(w) => i = Len(t))
    BY <1>1
  <1> QED
    BY <1>1, <1>2, <1>3 DEF RequestsLast

(* and so has one without requests to which something is added. *)
LEMMA RequestsLastMore ==
  ASSUME NEW s \in Seq(Units), NEW t \in Seq(Units), NEW pc, NEW n \in Nat,
         RequestsLast(s, pc, n), \A i \in 1 .. Len(s) : s[i] \notin Request,
         RequestsLast(t, pc, n)
  PROVE  RequestsLast(s \o t, pc, n)
  <1> DEFINE w == s \o t
  <1>1. /\ Len(w) = Len(s) + Len(t) /\ Len(s) \in Nat /\ Len(t) \in Nat
        /\ \A i \in 1 .. Len(s) : w[i] = s[i]
        /\ \A i \in 1 .. Len(t) : w[Len(s) + i] = t[i]
    BY JoinFacts
  <1> HIDE DEF w
  <1> SUFFICES ASSUME NEW i \in 1 .. Len(w)
               PROVE  /\ w[i] \in Request => i = Len(w)
                      /\ w[i] = <<"continue">> => pc = "choice"
                      /\ n = 0 => w[i] \in Request
    BY DEF RequestsLast, w
  <1>2. CASE i \in 1 .. Len(s)
    BY <1>1, <1>2 DEF RequestsLast
  <1>3. CASE i > Len(s)
    <2>1. i - Len(s) \in 1 .. Len(t) /\ Len(s) + (i - Len(s)) = i
      BY <1>1, <1>3
    <2>2. w[i] = t[i - Len(s)]
      BY <1>1, <2>1
    <2>3. i - Len(s) = Len(t) => i = Len(w)
      BY <1>1
    <2> QED
      BY <2>1, <2>2, <2>3 DEF RequestsLast
  <1> QED
    BY <1>1, <1>2, <1>3

(* What a client sends is added to what is unread. *)
LEMMA UnreadGrows ==
  ASSUME VariablesOK, NEW c \in Clients, ThreadStill(c), NEW units \in Seq(Units),
         toServer'[c] = toServer[c] \o units
  PROVE  Unread(c)' = Unread(c) \o units
  <1>1. toServer[c] \in Seq(Units) /\ inHand[c] \in Seq(Units)
    BY UnreadFacts
  <1>2. CASE serverPc[c] = "command"
    <2>1. (inHand[c] \o toServer[c]) \o units = inHand[c] \o (toServer[c] \o units)
      BY <1>1, Associative
    <2> QED
      BY <1>2, <2>1 DEF Unread, ThreadStill
  <1>3. CASE serverPc[c] # "command"
    <2>1. Unread(c) = toServer[c] /\ Unread(c)' = <<>> \o toServer'[c]
      BY <1>3, UnreadFacts DEF Unread, ThreadStill
    <2>2. toServer'[c] \in Seq(Units)
      BY <1>1
    <2> QED
      BY <2>1, <2>2, JoinEmpty
  <1> QED
    BY <1>2, <1>3

(* A client sends nothing while a request of its own is on its way. *)
LEMMA NoneAsked ==
  ASSUME NEW c \in Clients, ReplyShape(c),
         clientPc[c] \in {"menu", "choose", "sendSize", "sendData", "spins", "size", "data"}
  PROVE  /\ \A i \in 1 .. Len(Unread(c)) : Unread(c)[i] \notin Request
         /\ serverPc[c] \notin {"http", "names", "image"}
         /\ serverPc[c] = "choice" => /\ clientPc[c] \in {"choose", "spins"}
                                      /\ toServer[c] = <<>> /\ toClient[c] = <<>>
  <1>1. \A i \in 1 .. Len(Unread(c)) : Unread(c)[i] \in Request => Unread(c)[i] \in Asked(clientPc[c])
    BY DEF ReplyShape
  <1>2. Asked(clientPc[c]) = {}
    BY DEF Asked
  <1>3. serverPc[c] \notin {"http", "names", "image"}
    BY DEF ReplyShape
  <1>4. serverPc[c] = "choice" => /\ clientPc[c] \in {"choose", "spins"}
                                  /\ toServer[c] = <<>> /\ toClient[c] = <<>>
    BY DEF ReplyShape
  <1> QED
    BY <1>1, <1>2, <1>3, <1>4

(* A client sends a request only after all it sent before was used. *)
LEMMA RequestsKeptByClient ==
  ASSUME VariablesOK, VariablesOK', NEW c \in Clients, StreamShape(c), RequestShape(c),
         ~ClientAt(c, "gone") => ReplyShape(c), ClientMove(c)
  PROVE  RequestShape(c)'
  <1>1. /\ ThreadStill(c) /\ toServer[c] \in Seq(Units) /\ Unread(c) \in Seq(Units)
        /\ uploads[c] \in Nat
    BY UnreadFacts DEF ClientMove
  <1>2. ASSUME NEW units \in Seq(Units), toServer'[c] = toServer[c] \o units,
               clientPc[c] \in {"menu", "choose", "sendSize", "sendData"},
               RequestsLast(units, serverPc[c], uploads'[c]),
               uploads'[c] \in {uploads[c], uploads[c] + 1},
               serverPc[c] = "choice" => units = <<<<"continue">>>>
        PROVE  RequestShape(c)'
    <2>1. /\ \A i \in 1 .. Len(Unread(c)) : Unread(c)[i] \notin Request
          /\ serverPc[c] \notin {"http", "names", "image"}
          /\ serverPc[c] = "choice" => toServer[c] = <<>>
      BY <1>2, NoneAsked DEF ClientAt
    <2>2. Unread(c)' = Unread(c) \o units
      BY <1>1, <1>2, UnreadGrows
    <2>3. uploads'[c] \in Nat /\ (uploads'[c] = 0 => uploads[c] = 0)
      BY <1>1, <1>2
    <2>4. RequestsLast(Unread(c), serverPc[c], uploads'[c])
      BY <2>3 DEF RequestShape, RequestsLast
    <2>5. RequestsLast(Unread(c)', serverPc[c], uploads'[c])
      BY <1>1, <1>2, <2>1, <2>2, <2>3, <2>4, RequestsLastMore
    <2>6. serverPc[c] = "choice" => toServer'[c] = <<<<"continue">>>>
      BY <1>2, <2>1, JoinEmpty
    <2> QED
      BY <1>1, <2>1, <2>3, <2>5, <2>6 DEF RequestShape, RequestsLast, ThreadStill
  <1>3. ASSUME toServer'[c] = toServer[c], uploads'[c] = uploads[c]
        PROVE  RequestShape(c)'
    <2>1. Unread(c)' = Unread(c)
      BY <1>1, <1>3 DEF Unread, ThreadStill
    <2> QED
      BY <1>1, <1>3, <2>1 DEF RequestShape, ThreadStill
  <1>4. CASE Asks(c)
    <2>1. PICK u : /\ u \in Request /\ toServer'[c] = toServer[c] \o <<u>> /\ uploads'[c] = uploads[c]
                   /\ \/ clientPc[c] = "menu" /\ u # <<"continue">>
                      \/ clientPc[c] = "choose" /\ u = <<"continue">>
      <3>1. \A k \in Supplies \union {"get_img_filtered"} : <<k>> \in Request /\ <<k>> # <<"continue">>
        BY DEF Request, Supplies
      <3>2. <<"continue">> \in Request
        BY DEF Request
      <3>3. uploads'[c] = uploads[c]
        BY <1>4 DEF Asks
      <3>4. CASE \E k \in Supplies : Sends(c, "menu", "answer", <<<<k>>>>)
        BY <3>1, <3>3, <3>4 DEF Sends
      <3>5. CASE Sends(c, "menu", "images", <<<<"get_img_filtered">>>>)
        BY <3>1, <3>3, <3>5 DEF Sends
      <3>6. CASE Sends(c, "choose", "image", <<<<"continue">>>>)
        BY <3>2, <3>3, <3>6 DEF Sends
      <3> QED
        BY <1>4, <3>4, <3>5, <3>6 DEF Asks
    <2>2. <<u>> \in Seq(Units) /\ Len(<<u>>) = 1 /\ <<u>>[1] = u
      BY <2>1, UnitFacts
    <2>3. ReplyShape(c)
      BY <2>1 DEF ClientAt
    <2>4. /\ serverPc[c] = "choice" => u = <<"continue">>
          /\ u = <<"continue">> => serverPc[c] = "choice"
      BY <2>1, <2>3 DEF ReplyShape
    <2>5. RequestsLast(<<u>>, serverPc[c], uploads'[c])
      BY <2>1, <2>2, <2>4 DEF RequestsLast
    <2> QED
      BY <1>2, <2>1, <2>2, <2>4, <2>5
  <1>5. CASE StartsImage(c)
    <2>1. /\ toServer'[c] = toServer[c] \o <<Image>> /\ uploads'[c] = uploads[c] + 1
          /\ clientPc[c] = "menu"
      BY <1>5 DEF StartsImage, Sends
    <2>2. /\ <<Image>> \in Seq(Units) /\ Len(<<Image>>) = 1 /\ <<Image>>[1] = Image
          /\ Image \notin Request /\ Image # <<"continue">>
      BY UnitFacts DEF Image
    <2>3. uploads'[c] # 0
      BY <1>1, <2>1
    <2>4. RequestsLast(<<Image>>, serverPc[c], uploads'[c])
      BY <2>2, <2>3 DEF RequestsLast
    <2>5. serverPc[c] # "choice"
      BY <2>1, NoneAsked DEF ClientAt
    <2> QED
      BY <1>2, <2>1, <2>2, <2>4, <2>5
  <1>6. ASSUME NEW units \in Seq(Units), toServer'[c] = toServer[c] \o units,
               clientPc[c] \in {"sendSize", "sendData"}, uploads'[c] = uploads[c],
               \A i \in 1 .. Len(units) : units[i] \notin Messages
        PROVE  RequestShape(c)'
    <2>1. uploads[c] # 0
      BY <1>1, <1>6 DEF StreamShape
    <2>2. Request \subseteq Messages /\ <<"continue">> \in Messages
      BY UnitFacts DEF Messages
    <2>3. RequestsLast(units, serverPc[c], uploads'[c])
      BY <1>6, <2>1, <2>2 DEF RequestsLast
    <2>4. serverPc[c] # "choice"
      BY <1>6, NoneAsked DEF ClientAt
    <2> QED
      BY <1>2, <1>6, <2>3, <2>4
  <1>7. CASE SendsSize(c)
    <2>1. /\ toServer'[c] = toServer[c] \o <<Size>> /\ uploads'[c] = uploads[c]
          /\ clientPc[c] = "sendSize"
      BY <1>7 DEF SendsSize, Sends
    <2>2. <<Size>> \in Seq(Units) /\ \A i \in 1 .. Len(<<Size>>) : <<Size>>[i] \notin Messages
      BY UnitFacts
    <2> QED
      BY <1>6, <2>1, <2>2
  <1>8. CASE SendsData(c)
    <2>1. PICK n \in 1 .. Chunks :
            /\ toServer'[c] = toServer[c] \o Arrived(FileData(uploads[c]), n)
            /\ clientPc[c] = "sendData" /\ uploads'[c] = uploads[c]
      BY <1>8 DEF SendsData, Sends
    <2>2. uploads[c] \in Files
      BY SessionAssumption DEF VariablesOK, Files, Result
    <2>3. /\ FileData(uploads[c]) \in Seq(Units) /\ Len(FileData(uploads[c])) = Chunks
          /\ \A i \in 1 .. Chunks : FileData(uploads[c])[i] = <<"data", uploads[c], i>>
      BY <2>2, DataFacts
    <2>4. /\ Arrived(FileData(uploads[c]), n) \in Seq(Units)
          /\ Len(Arrived(FileData(uploads[c]), n)) = n
          /\ \A i \in 1 .. n : Arrived(FileData(uploads[c]), n)[i] = FileData(uploads[c])[i]
      BY <2>3, TakeFacts
    <2>5. \A i \in 1 .. n : i \in 1 .. Chunks
      BY SessionAssumption
    <2>6. \A i \in 1 .. n : Arrived(FileData(uploads[c]), n)[i] \notin Messages
      BY <2>3, <2>4, <2>5, UnitFacts, ZenonT(40)
    <2> QED
      BY <1>6, <2>1, <2>4, <2>6
  <1>9. CASE Reads(c) \/ Downloads(c, "size", 1) \/ (\E n \in Nat : Downloads(c, "data", n))
    BY <1>3, <1>9 DEF Reads, Downloads
  <1>10. CASE Saves(c) \/ Spins(c) \/ Leaves(c)
    BY <1>3, <1>10 DEF Saves, Spins, Leaves
  <1> QED
    BY <1>4, <1>5, <1>7, <1>8, <1>9, <1>10 DEF ClientMove

(* A reply is taken from a stream whole. *)
LEMMA OneTaken ==
  ASSUME NEW u \in Units, NEW s \in Seq(Units), NEW n \in 1 .. Len(<<u>> \o s)
  PROVE  /\ n = 1 => Arrived(<<u>> \o s, n) = <<u>> /\ Rest(<<u>> \o s, n) = s
         /\ \A x : Arrived(<<u>> \o s, n) = <<x>> => n = 1
  <1> DEFINE w == <<u>> \o s
  <1>1. w \in Seq(Units) /\ Len(w) = 1 + Len(s) /\ w[1] = u /\ Len(s) \in Nat
        /\ \A i \in 1 .. Len(s) : w[1 + i] = s[i]
    BY JoinFacts
  <1> HIDE DEF w
  <1>2. n \in 1 .. Len(w)
    BY DEF w
  <1>3. /\ Arrived(w, n) \in Seq(Units) /\ Rest(w, n) \in Seq(Units)
        /\ Len(Arrived(w, n)) = n /\ Len(Rest(w, n)) = Len(w) - n
        /\ \A i \in 1 .. n : Arrived(w, n)[i] = w[i]
        /\ \A i \in 1 .. Len(w) - n : Rest(w, n)[i] = w[n + i]
    BY <1>1, <1>2, TakeFacts
  <1>4. ASSUME n = 1
        PROVE  Arrived(w, n) = <<u>> /\ Rest(w, n) = s
    <2>1. Len(Arrived(w, n)) = 1 /\ Arrived(w, n)[1] = u
      BY <1>1, <1>3, <1>4
    <2>2. Len(Rest(w, n)) = Len(s) /\ \A i \in 1 .. Len(s) : Rest(w, n)[i] = s[i]
      BY <1>1, <1>3, <1>4
    <2>3. \A x, y \in Seq(Units) : Len(x) = Len(y) /\ (\A i \in 1 .. Len(y) : x[i] = y[i]) => x = y
      OBVIOUS
    <2>4. Rest(w, n) = s
      BY <1>3, <2>2, <2>3
    <2>5. <<u>> \in Seq(Units) /\ Len(<<u>>) = 1 /\ <<u>>[1] = u
      OBVIOUS
    <2> QED
      BY <1>3, <2>1, <2>3, <2>4, <2>5
  <1>5. ASSUME NEW x, Arrived(w, n) = <<x>>
        PROVE  n = 1
    BY <1>3, <1>5
  <1> QED
    BY <1>4, <1>5 DEF w

(* Of one unit nothing but that unit can arrive. *)
LEMMA OnlyTaken ==
  ASSUME NEW u \in Units, NEW n \in 1 .. Len(<<u>>)
  PROVE  n = 1 /\ Arrived(<<u>>, n) = <<u>> /\ Rest(<<u>>, n) = <<>>
  <1>1. <<u>> \o <<>> = <<u>> /\ <<>> \in Seq(Units) /\ n = 1
    OBVIOUS
  <1> QED
    BY <1>1, OneTaken

(* A client leaves no reply behind, nor waits for one it did not ask for. *)
LEMMA RepliesKeptByClient ==
  ASSUME VariablesOK, VariablesOK', NEW c \in Clients, Receiving(c), ReplyShape(c), ClientMove(c),
         clientPc'[c] # "gone"
  PROVE  ReplyShape(c)'
  <1> DEFINE quiet == \A i \in 1 .. Len(Unread(c)) : Unread(c)[i] \notin Request
  <1>1. /\ ThreadStill(c) /\ toServer[c] \in Seq(Units) /\ toClient[c] \in Seq(Units)
        /\ Unread(c) \in Seq(Units) /\ download[c] \in Seq(Units)
    BY UnreadFacts DEF ClientMove, VariablesOK
  <1>2. ASSUME toServer'[c] = toServer[c]
        PROVE  Unread(c)' = Unread(c)
    BY <1>1, <1>2 DEF Unread, ThreadStill
  <1>3. ASSUME toServer'[c] = toServer[c], quiet, serverPc[c] \notin {"http", "names", "image"},
               serverPc[c] = "choice" => clientPc'[c] \in {"choose", "spins"} /\ toServer[c] = <<>>,
               toClient'[c] = <<>>, clientPc'[c] \in {"menu", "choose", "spins"},
               clientPc'[c] = "choose" => serverPc[c] = "choice"
        PROVE  ReplyShape(c)'
    BY <1>1, <1>2, <1>3 DEF ReplyShape, ThreadStill
  <1>4. ASSUME NEW units \in Seq(Units), toServer'[c] = toServer[c] \o units,
               clientPc[c] \in {"menu", "sendSize", "sendData"}, toClient'[c] = toClient[c],
               clientPc'[c] \in {"menu", "sendSize", "sendData"},
               \A i \in 1 .. Len(units) : units[i] \notin Request
        PROVE  ReplyShape(c)'
    <2>1. quiet /\ serverPc[c] \notin {"http", "names", "image", "choice"}
      BY <1>4, NoneAsked
    <2>2. Unread(c)' = Unread(c) \o units
      BY <1>1, <1>4, UnreadGrows
    <2>3. \A i \in 1 .. Len(Unread(c)') : Unread(c)'[i] \notin Request
      <3> DEFINE s == Unread(c)
      <3>1. s \in Seq(Units) /\ \A i \in 1 .. Len(s) : s[i] \notin Request
        BY <1>1, <2>1
      <3> HIDE DEF s
      <3> SUFFICES ASSUME NEW i \in 1 .. Len(s \o units)
                   PROVE  (s \o units)[i] \notin Request
        BY <2>2 DEF s
      <3>2. CASE i \in 1 .. Len(s)
        BY <1>4, <3>1, <3>2
      <3>3. CASE i > Len(s)
        <4>1. i - Len(s) \in 1 .. Len(units)
          BY <1>4, <3>1, <3>3
        <4>2. (s \o units)[i] = units[i - Len(s)]
          BY <1>4, <3>1, <3>3
        <4> QED
          BY <1>4, <4>1, <4>2
      <3> QED
        BY <1>4, <3>1, <3>2, <3>3
    <2>4. toClient[c] = <<>>
      BY <1>4 DEF ReplyShape, Idle
    <2> QED
      BY <1>1, <1>4, <2>1, <2>3, <2>4 DEF ReplyShape, ThreadStill
  <1>5. ASSUME NEW u \in Request, toServer'[c] = toServer[c] \o <<u>>, toClient'[c] = toClient[c],
               \/ clientPc[c] = "menu" /\ clientPc'[c] \in {"answer", "images"}
               \/ /\ clientPc[c] = "choose" /\ clientPc'[c] = "image"
                  /\ u = <<"continue">>,
               u \in Asked(clientPc'[c])
        PROVE  ReplyShape(c)'
    <2>1. /\ quiet /\ serverPc[c] \notin {"http", "names", "image"}
          /\ serverPc[c] = "choice" => clientPc[c] = "choose" /\ toServer[c] = <<>>
      BY <1>5, NoneAsked
    <2>2. <<u>> \in Seq(Units) /\ Len(<<u>>) = 1 /\ <<u>>[1] = u
      BY UnitFacts
    <2>3. Unread(c)' = Unread(c) \o <<u>>
      BY <1>1, <1>5, <2>2, UnreadGrows
    <2>4. toClient[c] = <<>>
      BY <1>5 DEF ReplyShape, Idle
    <2>5. \A i \in 1 .. Len(Unread(c)') : Unread(c)'[i] \in Request => Unread(c)'[i] = u
      <3> DEFINE s == Unread(c)
      <3>1. s \in Seq(Units) /\ \A i \in 1 .. Len(s) : s[i] \notin Request
        BY <1>1, <2>1
      <3> HIDE DEF s
      <3>2. \A i \in 1 .. Len(s \o <<u>>) : IF i <= Len(s) THEN (s \o <<u>>)[i] = s[i]
                                                           ELSE (s \o <<u>>)[i] = u
        BY <3>1, <2>2
      <3>3. \A i \in 1 .. Len(s \o <<u>>) : (s \o <<u>>)[i] \in Request => (s \o <<u>>)[i] = u
        <4> TAKE i \in 1 .. Len(s \o <<u>>)
        <4>1. CASE i <= Len(s)
          BY <3>1, <3>2, <4>1
        <4>2. CASE ~(i <= Len(s))
          BY <3>2, <4>2
        <4> QED
          BY <4>1, <4>2
      <3> QED
        BY <2>3, <3>3 DEF s
    <2>6. clientPc[c] = "choose" => serverPc[c] = "choice" /\ toServer'[c] = <<<<"continue">>>>
      <3>1. clientPc[c] = "choose" => serverPc[c] = "choice"
        BY DEF ReplyShape
      <3>2. clientPc[c] = "choose" => u = <<"continue">> /\ toServer[c] = <<>>
        BY <1>5, <2>1, <3>1
      <3> QED
        BY <1>5, <2>2, <3>1, <3>2, JoinEmpty
    <2>7. /\ clientPc'[c] = "image" => serverPc[c] = "choice" /\ toServer'[c] = <<<<"continue">>>>
          /\ serverPc[c] = "choice" => clientPc'[c] = "image"
          /\ toClient'[c] = <<>>
      BY <1>5, <2>1, <2>4, <2>6
    <2> QED
      BY <1>1, <1>5, <2>1, <2>5, <2>7 DEF ReplyShape, ThreadStill, Idle
  <1>6. CASE Asks(c)
    <2>1. CASE \E k \in Supplies : Sends(c, "menu", "answer", <<<<k>>>>)
      <3>1. PICK k \in Supplies : Sends(c, "menu", "answer", <<<<k>>>>)
        BY <2>1
      <3>2. <<k>> \in Request /\ <<k>> \in Asked("answer")
        BY DEF Request, Asked
      <3> QED
        BY <1>5, <3>1, <3>2 DEF Sends
    <2>2. CASE Sends(c, "menu", "images", <<<<"get_img_filtered">>>>)
      <3>1. <<"get_img_filtered">> \in Request /\ <<"get_img_filtered">> \in Asked("images")
        BY DEF Request, Asked
      <3> QED
        BY <1>5, <2>2, <3>1 DEF Sends
    <2>3. CASE Sends(c, "choose", "image", <<<<"continue">>>>)
      <3>1. <<"continue">> \in Request /\ <<"continue">> \in Asked("image")
        BY DEF Request, Asked
      <3> QED
        BY <1>5, <2>3, <3>1 DEF Sends
    <2> QED
      BY <1>6, <2>1, <2>2, <2>3 DEF Asks
  <1>7. CASE StartsImage(c)
    <2>1. <<Image>> \in Seq(Units) /\ \A i \in 1 .. Len(<<Image>>) : <<Image>>[i] \notin Request
      BY UnitFacts
    <2> QED
      BY <1>4, <1>7, <2>1 DEF StartsImage, Sends
  <1>8. CASE SendsSize(c)
    <2>1. <<Size>> \in Seq(Units) /\ \A i \in 1 .. Len(<<Size>>) : <<Size>>[i] \notin Request
      BY UnitFacts
    <2> QED
      BY <1>4, <1>8, <2>1 DEF SendsSize, Sends
  <1>9. CASE SendsData(c)
    <2>1. PICK n \in 1 .. Chunks : Sends(c, "sendData", IF n = Chunks THEN "menu" ELSE "gone",
                                         Arrived(FileData(uploads[c]), n))
      BY <1>9 DEF SendsData
    <2>2. uploads[c] \in Files
      BY SessionAssumption DEF VariablesOK, Files, Result
    <2>3. /\ FileData(uploads[c]) \in Seq(Units) /\ Len(FileData(uploads[c])) = Chunks
          /\ \A i \in 1 .. Chunks : FileData(uploads[c])[i] = <<"data", uploads[c], i>>
      BY <2>2, DataFacts
    <2>4. /\ Arrived(FileData(uploads[c]), n) \in Seq(Units)
          /\ Len(Arrived(FileData(uploads[c]), n)) = n
          /\ \A i \in 1 .. n : Arrived(FileData(uploads[c]), n)[i] = FileData(uploads[c])[i]
      BY <2>3, TakeFacts
    <2>5. \A i \in 1 .. n : i \in 1 .. Chunks
      BY SessionAssumption
    <2>6. \A i \in 1 .. n : Arrived(FileData(uploads[c]), n)[i] \notin Request
      BY <2>3, <2>4, <2>5, UnitFacts
    <2>7. clientPc'[c] = "menu" /\ clientPc[c] = "sendData" /\ toClient'[c] = toClient[c]
          /\ toServer'[c] = toServer[c] \o Arrived(FileData(uploads[c]), n)
      BY <2>1 DEF Sends
    <2> QED
      BY <1>4, <2>4, <2>6, <2>7
  <1>10. CASE Reads(c)
    <2>1. PICK n \in 1 .. Len(toClient[c]) :
            /\ clientPc'[c] = IF clientPc[c] = "answer" THEN "menu"
                              ELSE AfterReply(c, Arrived(toClient[c], n))
            /\ toClient'[c] = Rest(toClient[c], n)
      BY <1>10 DEF Reads
    <2>2. /\ toClient[c] # <<>> /\ clientPc[c] \in {"answer", "images", "image"}
          /\ toServer'[c] = toServer[c]
      BY <1>10, <2>1 DEF Reads
    <2>3. quiet /\ serverPc[c] \notin {"http", "names", "image"}
      BY <2>2 DEF ReplyShape
    <2>4. \A m \in Answers : <<m>> \in Units
      BY UnitFacts DEF Messages
    <2>5. CASE clientPc[c] = "answer"
      <3>1. toClient[c] = <<<<"answer">>>> /\ serverPc[c] # "choice"
        BY <2>2, <2>5 DEF ReplyShape
      <3>2. toClient'[c] = <<>>
        BY <2>1, <2>4, <3>1, OnlyTaken DEF Answers
      <3> QED
        BY <1>3, <2>1, <2>2, <2>3, <2>5, <3>1, <3>2
    <2>6. CASE clientPc[c] = "images"
      <3>1. toClient[c] = <<<<"images">>>> /\ serverPc[c] = "choice" /\ toServer[c] = <<>>
        BY <2>2, <2>6 DEF ReplyShape
      <3>2. toClient'[c] = <<>> /\ Arrived(toClient[c], n) = <<<<"images">>>>
        BY <2>1, <2>4, <3>1, OnlyTaken DEF Answers
      <3>3. clientPc'[c] = "choose"
        BY <2>1, <2>6, <3>2 DEF AfterReply, ClientAt
      <3> QED
        BY <1>3, <2>2, <2>3, <3>1, <3>2, <3>3
    <2>7. CASE clientPc[c] = "image"
      <3>1. serverPc[c] # "choice"
        BY <2>2, <2>7 DEF ReplyShape
      <3>2. /\ toClient[c] \in {<<<<"error">>>>, <<<<"image">>>> \o ResultSent}
            /\ serverPc[c] = "recv" /\ toServer[c] = <<>>
        BY <2>3, <2>7, <3>1 DEF ReplyShape
      <3>3. CASE toClient[c] = <<<<"error">>>>
        <4>1. toClient'[c] = <<>> /\ Arrived(toClient[c], n) = <<<<"error">>>>
          BY <2>1, <2>4, <3>3, OnlyTaken DEF Answers
        <4>2. clientPc'[c] = "menu"
          BY <2>1, <2>7, <4>1 DEF AfterReply, ClientAt
        <4> QED
          BY <1>3, <2>2, <2>3, <3>1, <4>1, <4>2
      <3>4. CASE toClient[c] = <<<<"image">>>> \o ResultSent
        <4>1. <<"image">> \in Units /\ ResultSent \in Seq(Units)
          BY <2>4, ResultFacts DEF Answers
        <4>2. /\ n = 1 => Arrived(toClient[c], n) = <<<<"image">>>> /\ Rest(toClient[c], n) = ResultSent
              /\ \A x : Arrived(toClient[c], n) = <<x>> => n = 1
          BY <2>1, <3>4, <4>1, OneTaken
        <4>3. clientPc'[c] = "size" /\ n = 1
          <5>1. clientPc'[c] = AfterReply(c, Arrived(toClient[c], n))
            BY <2>1, <2>7
          <5>2. AfterReply(c, Arrived(toClient[c], n)) # "gone"
            BY <5>1
          <5>3. Arrived(toClient[c], n) \in {<<<<"image">>>>, <<<<"error">>>>}
            BY <2>7, <5>2 DEF AfterReply, ClientAt
          <5>4. n = 1
            BY <4>2, <5>3
          <5>5. Arrived(toClient[c], n) = <<<<"image">>>>
            BY <4>2, <5>4
          <5> QED
            BY <2>7, <5>1, <5>4, <5>5 DEF AfterReply, ClientAt
        <4>4. toClient'[c] = ResultSent
          BY <2>1, <4>2, <4>3
        <4>5. Unread(c)' = Unread(c)
          BY <1>2, <2>2
        <4> QED
          BY <1>1, <2>2, <2>3, <3>2, <4>3, <4>4, <4>5 DEF ReplyShape, ThreadStill, Idle
      <3> QED
        BY <3>2, <3>3, <3>4
    <2> QED
      BY <2>2, <2>5, <2>6, <2>7
  <1>11. ASSUME NEW n \in Nat, NEW from \in {"size", "data"}, Downloads(c, from, n)
         PROVE  ReplyShape(c)'
    <2>1. /\ clientPc[c] \in {"size", "data"} /\ clientPc'[c] = "data" /\ n \in 1 .. Len(toClient[c])
          /\ download'[c] = download[c] \o Arrived(toClient[c], n)
          /\ toClient'[c] = Rest(toClient[c], n)
          /\ toServer'[c] = toServer[c]
      BY <1>11 DEF Downloads
    <2>2. download[c] \o toClient[c] = ResultSent
      <3>1. CASE clientPc[c] = "data"
        BY <3>1 DEF ReplyShape
      <3>2. CASE clientPc[c] = "size"
        <4>1. toClient[c] = ResultSent /\ download[c] = <<>>
          BY <3>2 DEF ReplyShape, Receiving, Holding, ClientAt
        <4> QED
          BY <1>1, <4>1, JoinEmpty
      <3> QED
        BY <2>1, <3>1, <3>2
    <2>3. /\ toClient[c] = Arrived(toClient[c], n) \o Rest(toClient[c], n)
          /\ Arrived(toClient[c], n) \in Seq(Units) /\ Rest(toClient[c], n) \in Seq(Units)
      BY <1>1, <2>1, TakeFacts
    <2>4. (download[c] \o Arrived(toClient[c], n)) \o Rest(toClient[c], n)
            = download[c] \o (Arrived(toClient[c], n) \o Rest(toClient[c], n))
      BY <1>1, <2>3, Associative
    <2>5. download'[c] \o toClient'[c] = ResultSent
      BY <2>1, <2>2, <2>3, <2>4
    <2>6. quiet /\ serverPc[c] = "recv" /\ toServer[c] = <<>>
      BY <2>1, NoneAsked DEF ReplyShape
    <2>7. Unread(c)' = Unread(c)
      BY <1>2, <2>1
    <2> QED
      BY <1>1, <2>1, <2>5, <2>6, <2>7 DEF ReplyShape, ThreadStill, Idle
  <1>12. CASE Saves(c)
    <2>1. /\ clientPc[c] = "data" /\ clientPc'[c] = "menu" /\ Complete(download[c])
          /\ toServer'[c] = toServer[c] /\ toClient'[c] = toClient[c]
      BY <1>12 DEF Saves
    <2>2. download[c] \o toClient[c] = ResultSent
      BY <2>1 DEF ReplyShape
    <2>3. Len(download[c]) > Chunks
      BY <2>1 DEF Receiving, Holding, IsReceiving, ClientAt, Complete, SizeOf, FileSize
    <2>4. Len(download[c]) + Len(toClient[c]) = 1 + Chunks
      <3>1. Len(download[c] \o toClient[c]) = Len(download[c]) + Len(toClient[c])
        BY <1>1
      <3>2. Len(ResultSent) = 1 + Chunks
        BY ResultFacts
      <3> QED
        BY <2>2, <3>1, <3>2
    <2>5. Len(toClient[c]) = 0
      <3>1. Len(download[c]) \in Nat /\ Len(toClient[c]) \in Nat /\ Chunks \in Nat
        BY <1>1, SessionAssumption
      <3>2. \A x, y, z \in Nat : x > z /\ x + y = 1 + z => y = 0
        OBVIOUS
      <3> QED
        BY <2>3, <2>4, <3>1, <3>2, Zenon
    <2>6. toClient[c] = <<>>
      BY <1>1, <2>5
    <2>7. quiet /\ serverPc[c] = "recv"
      BY <2>1, NoneAsked DEF ReplyShape
    <2> QED
      BY <1>3, <2>1, <2>6, <2>7
  <1>13. CASE Spins(c)
    <2>1. /\ clientPc[c] \in {"menu", "choose"} /\ clientPc'[c] = "spins"
          /\ toServer'[c] = toServer[c] /\ toClient'[c] = toClient[c]
      BY <1>13 DEF Spins
    <2>2. /\ quiet /\ serverPc[c] \notin {"http", "names", "image"}
          /\ serverPc[c] = "choice" => toServer[c] = <<>>
      BY <2>1, NoneAsked
    <2>3. toClient[c] = <<>>
      BY <2>1 DEF ReplyShape, Idle
    <2> QED
      BY <1>3, <2>1, <2>2, <2>3
  <1> QED
    BY <1>6, <1>7, <1>8, <1>9, <1>10, <1>11, <1>12, <1>13 DEF ClientMove, Leaves

(* A message that is read stays unread until it is dispatched. *)
LEMMA UnreadReceived ==
  ASSUME VariablesOK, NEW c \in Clients, Receives(c)
  PROVE  Unread(c)' = Unread(c) /\ Unread(c) = toServer[c] /\ toServer[c] # <<>> /\ inHand'[c] # <<>>
  <1>1. PICK n \in 1 .. Len(toServer[c]) :
          toServer'[c] = Rest(toServer[c], n) /\ inHand'[c] = Arrived(toServer[c], n)
    BY DEF Receives, Takes
  <1>2. serverPc[c] = "recv" /\ serverPc'[c] = "command"
    BY DEF Receives, Goes
  <1>3. toServer[c] \in Seq(Units) /\ Unread(c) = toServer[c]
    BY <1>2, UnreadFacts
  <1>4. /\ toServer[c] = Arrived(toServer[c], n) \o Rest(toServer[c], n)
        /\ Arrived(toServer[c], n) # <<>>
    BY <1>3, TakeFacts, ZenonT(40)
  <1>5. toServer[c] # <<>>
    BY <1>3
  <1> QED
    BY <1>1, <1>2, <1>3, <1>4, <1>5 DEF Unread

(* A command that is dispatched was the first message unread. *)
LEMMA UnreadDispatched ==
  ASSUME VariablesOK, NEW c \in Clients, RequestShape(c), Dispatches(c)
  PROVE  /\ Unread(c)' = toServer[c]
         /\ Unread(c) = inHand[c] \o toServer[c]
         /\ inHand[c] # <<Image>> => /\ 1 \in 1 .. Len(Unread(c))
                                     /\ <<Unread(c)[1]>> = inHand[c]
                                     /\ Unread(c)[1] \in Request
                                     /\ toServer[c] = <<>>
         /\ inHand[c] = <<Image>> => uploads[c] # 0
  <1>1. /\ serverPc[c] = "command" /\ serverPc'[c] # "command" /\ toServer'[c] = toServer[c]
        /\ \E k \in Commands : inHand[c] = <<<<k>>>>
    BY DEF Dispatches, Goes, TakesNothing, Commands, Supplies, Image
  <1>2. PICK k \in Commands : inHand[c] = <<<<k>>>>
    BY <1>1
  <1>3. toServer[c] \in Seq(Units) /\ inHand[c] \in Seq(Units) /\ Unread(c) = inHand[c] \o toServer[c]
    BY <1>1, UnreadFacts
  <1>4. Unread(c)' = toServer[c]
    BY <1>1, <1>3, JoinEmpty DEF Unread
  <1>5. Len(inHand[c]) = 1 /\ inHand[c][1] = <<k>>
    BY <1>2
  <1>6. /\ Unread(c)[1] = <<k>> /\ Len(Unread(c)) = 1 + Len(toServer[c])
        /\ 1 \in 1 .. Len(Unread(c)) /\ Len(toServer[c]) \in Nat
    <2>1. inHand[c] # <<>>
      BY <1>2
    <2>2. Unread(c)[1] = inHand[c][1]
      BY <1>3, <2>1, FirstStays
    <2>3. Len(Unread(c)) = Len(inHand[c]) + Len(toServer[c]) /\ Len(toServer[c]) \in Nat
      BY <1>3
    <2> QED
      BY <1>5, <2>2, <2>3
  <1>7. ASSUME inHand[c] # <<Image>>
        PROVE  Unread(c)[1] \in Request /\ toServer[c] = <<>>
    <2>1. k # "img_filtering"
      BY <1>2, <1>7 DEF Image
    <2>2. <<k>> \in Request
      BY <2>1 DEF Request, Commands
    <2>3. 1 = Len(Unread(c))
      BY <1>6, <2>2 DEF RequestShape
    <2>4. Len(toServer[c]) = 0
      BY <1>6, <2>3
    <2> QED
      BY <1>3, <1>6, <2>2, <2>4
  <1>8. ASSUME inHand[c] = <<Image>>
        PROVE  uploads[c] # 0
    <2>1. Unread(c)[1] = Image
      BY <1>5, <1>6, <1>8
    <2> QED
      BY <1>6, <2>1, UnitFacts DEF RequestShape
  <1> QED
    BY <1>2, <1>3, <1>4, <1>6, <1>7, <1>8

(* A thread goes where the request it has read sends it. *)
LEMMA RequestsKeptByThread ==
  ASSUME VariablesOK, VariablesOK', NEW c \in Clients, RequestShape(c), ThreadMove(c)
  PROVE  RequestShape(c)'
  <1>1. /\ toServer[c] \in Seq(Units) /\ Unread(c) \in Seq(Units) /\ inHand[c] \in Seq(Units)
        /\ uploads[c] \in Nat
        /\ RequestsLast(Unread(c), serverPc[c], uploads[c])
        /\ serverPc[c] # "command" => Unread(c) = toServer[c]
    BY UnreadFacts DEF RequestShape, RequestsLast
  <1>2. serverPc'[c] # "command" => Unread(c)' = toServer'[c]
    <2>1. toServer'[c] \in Seq(Units)
      BY DEF VariablesOK
    <2> QED
      BY <2>1, JoinEmpty DEF Unread
  <1>3. RequestsLast(<<>>, serverPc'[c], uploads[c])
    BY DEF RequestsLast
  <1>4. ASSUME uploads'[c] = uploads[c], RequestsLast(toServer'[c], serverPc'[c], uploads[c]),
               serverPc'[c] \notin {"command", "http"},
               uploads[c] = 0 => serverPc'[c] \notin {"size", "data"},
               serverPc'[c] \in {"names", "image", "choice"} => toServer'[c] = <<>>
        PROVE  RequestShape(c)'
    BY <1>2, <1>4 DEF RequestShape, RequestsLast
  <1>5. ASSUME NEW n \in 1 .. Len(toServer[c]), toServer'[c] = Rest(toServer[c], n),
               serverPc[c] \notin {"command", "choice"}
        PROVE  RequestsLast(toServer'[c], serverPc'[c], uploads[c])
    <2>1. /\ toServer[c] = Arrived(toServer[c], n) \o Rest(toServer[c], n)
          /\ Arrived(toServer[c], n) \in Seq(Units) /\ Rest(toServer[c], n) \in Seq(Units)
      BY <1>1, <1>5, TakeFacts
    <2>2. RequestsLast(Arrived(toServer[c], n) \o Rest(toServer[c], n), serverPc[c], uploads[c])
      BY <1>1, <1>5, <2>1
    <2> QED
      BY <1>1, <1>5, <2>1, <2>2, RequestsLastRest
  <1>6. CASE Receives(c)
    <2>1. /\ Unread(c)' = Unread(c) /\ inHand'[c] # <<>>
          /\ serverPc[c] = "recv" /\ serverPc'[c] = "command" /\ uploads'[c] = uploads[c]
      BY <1>6, UnreadReceived DEF Receives, Goes, ClientStill
    <2> QED
      BY <2>1 DEF RequestShape
  <1>7. CASE Dispatches(c)
    <2>1. /\ serverPc[c] = "command" /\ uploads'[c] = uploads[c] /\ toServer'[c] = toServer[c]
          /\ inHand'[c] = inHand[c]
          /\ \/ serverPc'[c] = "http" /\ \E k \in Supplies : inHand[c] = <<<<k>>>>
             \/ serverPc'[c] = "size" /\ inHand[c] = <<Image>>
             \/ serverPc'[c] = "names" /\ inHand[c] = <<<<"get_img_filtered">>>>
      BY <1>7 DEF Dispatches, Goes, TakesNothing, ClientStill
    <2>2. /\ Unread(c)' = toServer[c] /\ Unread(c) = inHand[c] \o toServer[c]
          /\ inHand[c] # <<Image>> => toServer[c] = <<>>
          /\ inHand[c] = <<Image>> => uploads[c] # 0
      BY <1>7, UnreadDispatched
    <2>3. inHand[c] = <<Image>> \/ serverPc'[c] # "size"
      BY <2>1
    <2>4. RequestsLast(toServer[c], serverPc'[c], uploads[c])
      BY <1>1, <2>1, <2>2, RequestsLastRest
    <2>5. serverPc'[c] = "http" => inHand[c] # <<Image>>
      BY <2>1 DEF Supplies, Image
    <2>6. serverPc'[c] = "names" => inHand[c] # <<Image>>
      BY <2>1 DEF Image
    <2> QED
      BY <2>1, <2>2, <2>3, <2>4, <2>5, <2>6 DEF RequestShape, RequestsLast
  <1>8. CASE BeginsUpload(c)
    BY <1>4, <1>5, <1>8 DEF BeginsUpload, Takes, Goes, ClientStill, RequestShape
  <1>9. CASE GoesOnUpload(c)
    BY <1>4, <1>5, <1>9 DEF GoesOnUpload, Takes, Goes, ClientStill, RequestShape
  <1>10. CASE EndsUpload(c)
    <2>1. /\ toServer'[c] = toServer[c] /\ serverPc[c] = "data" /\ serverPc'[c] \in {"recv", "end"}
          /\ uploads'[c] = uploads[c]
      BY <1>10 DEF EndsUpload, TakesNothing, Goes, ClientStill
    <2>2. RequestsLast(toServer[c], serverPc'[c], uploads[c])
      BY <1>1, <2>1 DEF RequestsLast
    <2> QED
      BY <1>4, <2>1, <2>2
  <1>11. ASSUME NEW from, NEW units, NEW next, Replies(c, from, units, next),
                from \in {"http", "names", "image"}, next \in {"recv", "choice"}
         PROVE  RequestShape(c)'
    <2>1. /\ toServer'[c] = <<>> /\ serverPc'[c] \in {"recv", "choice", "closed", "end"}
          /\ uploads'[c] = uploads[c]
      BY <1>11 DEF Replies, Goes, ClientStill, RequestShape
    <2> QED
      BY <1>3, <1>4, <2>1
  <1>12. CASE Chooses(c)
    <2>1. PICK n \in 1 .. Len(toServer[c]) : toServer'[c] = Rest(toServer[c], n)
      BY <1>12 DEF Chooses, Takes
    <2>2. /\ serverPc[c] = "choice" /\ serverPc'[c] \in {"image", "end"} /\ uploads'[c] = uploads[c]
          /\ toServer[c] = <<<<"continue">>>>
      BY <1>1, <1>12, <2>1 DEF Chooses, Goes, ClientStill, RequestShape
    <2>3. toServer'[c] = <<>>
      BY <2>1, <2>2, OnlyTaken, UnitFacts DEF Messages
    <2> QED
      BY <1>3, <1>4, <2>2, <2>3
  <1>13. CASE GivesUp(c)
    <2>1. /\ toServer'[c] = <<>> /\ serverPc'[c] \in {"closed", "end"} /\ uploads'[c] = uploads[c]
      BY <1>13 DEF GivesUp, TakesNothing, Goes, ClientStill, HungUp
    <2> QED
      BY <1>3, <1>4, <2>1
  <1>14. CASE Still(c)
    BY <1>14 DEF Still, ThreadStill, ClientStill, Unread, RequestShape
  <1> QED
    BY <1>6, <1>7, <1>8, <1>9, <1>10, <1>11, <1>12, <1>13, <1>14 DEF ThreadMove

(* A thread replies once to what waits for a reply. *)
LEMMA RepliesKeptByThread ==
  ASSUME VariablesOK, VariablesOK', NEW c \in Clients, RequestShape(c), ReplyShape(c), ThreadMove(c),
         clientPc[c] # "gone"
  PROVE  ReplyShape(c)'
  <1> DEFINE Wanted(s, pc, t) == \A i \in 1 .. Len(s) : s[i] \in Request => s[i] \in Asked(pc) /\ t = <<>>
             busy == {"command", "size", "data", "end"}
  <1>1. /\ toServer[c] \in Seq(Units) /\ Unread(c) \in Seq(Units) /\ inHand[c] \in Seq(Units)
        /\ toClient[c] \in Seq(Units)
        /\ Wanted(Unread(c), clientPc[c], toClient[c])
        /\ serverPc[c] # "command" => Unread(c) = toServer[c]
    BY UnreadFacts DEF ReplyShape
  <1>2. serverPc'[c] # "command" => Unread(c)' = toServer'[c]
    <2>1. toServer'[c] \in Seq(Units)
      BY DEF VariablesOK
    <2> QED
      BY <2>1, JoinEmpty DEF Unread
  <1>3. ASSUME serverPc[c] \in busy \union {"recv"}, toServer[c] # <<>> \/ serverPc[c] # "recv"
        PROVE  /\ clientPc[c] \notin {"choose", "image", "size", "data"}
               /\ clientPc[c] = "images" => toClient[c] = <<>>
    BY <1>3 DEF ReplyShape
  <1>4. ASSUME clientPc[c] \notin {"choose", "image", "size", "data"},
               clientPc[c] = "images" => toClient[c] = <<>>,
               ClientStill(c), toClient'[c] = toClient[c],
               serverPc'[c] \in busy \union {"recv"},
               Wanted(Unread(c)', clientPc[c], toClient[c])
        PROVE  ReplyShape(c)'
    BY <1>4 DEF ReplyShape, ClientStill, Idle
  <1>5. ASSUME NEW s \in Seq(Units), NEW t \in Seq(Units), Wanted(s \o t, clientPc[c], toClient[c])
        PROVE  Wanted(t, clientPc[c], toClient[c])
    <2>1. /\ Len(s \o t) = Len(s) + Len(t) /\ Len(s) \in Nat /\ Len(t) \in Nat
          /\ \A i \in 1 .. Len(t) : (s \o t)[Len(s) + i] = t[i]
      BY JoinFacts
    <2>2. \A i \in 1 .. Len(t) : Len(s) + i \in 1 .. Len(s \o t)
      BY <2>1
    <2> QED
      BY <1>5, <2>1, <2>2
  <1>6. ASSUME NEW n \in 1 .. Len(toServer[c]), toServer'[c] = Rest(toServer[c], n),
               serverPc[c] # "command"
        PROVE  Wanted(toServer'[c], clientPc[c], toClient[c])
    <2>1. /\ toServer[c] = Arrived(toServer[c], n) \o Rest(toServer[c], n)
          /\ Arrived(toServer[c], n) \in Seq(Units) /\ Rest(toServer[c], n) \in Seq(Units)
      BY <1>1, TakeFacts
    <2>2. Wanted(Arrived(toServer[c], n) \o Rest(toServer[c], n), clientPc[c], toClient[c])
      BY <1>1, <1>6, <2>1
    <2>3. Wanted(Rest(toServer[c], n), clientPc[c], toClient[c])
      BY <1>5, <2>1, <2>2
    <2> QED
      BY <1>6, <2>3
  <1>7. Wanted(<<>>, clientPc[c], toClient'[c])
    OBVIOUS
  <1>8. CASE Receives(c)
    <2>1. /\ Unread(c)' = Unread(c) /\ toServer[c] # <<>> /\ toClient'[c] = toClient[c]
          /\ serverPc[c] = "recv" /\ serverPc'[c] = "command" /\ ClientStill(c)
      BY <1>8, UnreadReceived DEF Receives, Goes, Takes
    <2>2. Wanted(Unread(c)', clientPc[c], toClient[c])
      BY <1>1, <2>1
    <2> HIDE DEF Wanted
    <2> QED
      BY <1>3, <1>4, <2>1, <2>2
  <1>9. CASE Dispatches(c)
    <2>1. /\ serverPc[c] = "command" /\ ClientStill(c) /\ toServer'[c] = toServer[c]
          /\ toClient'[c] = toClient[c]
          /\ \/ serverPc'[c] = "http" /\ \E k \in Supplies : inHand[c] = <<<<k>>>>
             \/ serverPc'[c] = "size" /\ inHand[c] = <<Image>>
             \/ serverPc'[c] = "names" /\ inHand[c] = <<<<"get_img_filtered">>>>
      BY <1>9 DEF Dispatches, Goes, TakesNothing
    <2>2. Unread(c)' = toServer[c] /\ Unread(c) = inHand[c] \o toServer[c]
      BY <1>9, UnreadDispatched
    <2>3. Wanted(toServer[c], clientPc[c], toClient[c])
      BY <1>1, <1>5, <2>2
    <2>4. CASE inHand[c] = <<Image>>
      <3>1. serverPc'[c] = "size"
        BY <2>1, <2>4 DEF Supplies, Image
      <3> HIDE DEF Wanted
      <3> QED
        BY <1>3, <1>4, <2>1, <2>2, <2>3, <3>1
    <2>5. CASE inHand[c] # <<Image>>
      <3>1. /\ 1 \in 1 .. Len(Unread(c)) /\ <<Unread(c)[1]>> = inHand[c]
            /\ Unread(c)[1] \in Request /\ toServer[c] = <<>>
        BY <1>9, <2>5, UnreadDispatched
      <3>2. Unread(c)[1] \in Asked(clientPc[c]) /\ toClient[c] = <<>>
        BY <1>1, <3>1
      <3>3. CASE serverPc'[c] = "http"
        <4>1. PICK k \in Supplies : <<Unread(c)[1]>> = <<<<k>>>>
          BY <2>1, <3>1, <3>3
        <4>2. Unread(c)[1] = <<k>>
          BY <4>1
        <4>3. clientPc[c] = "answer"
          BY <3>2, <4>2 DEF Asked, Supplies
        <4> QED
          BY <1>2, <1>7, <2>1, <3>1, <3>2, <3>3, <4>3 DEF ReplyShape, ClientStill, Idle
      <3>4. CASE serverPc'[c] = "names"
        <4>1. Unread(c)[1] = <<"get_img_filtered">>
          BY <2>1, <3>1, <3>4
        <4>2. clientPc[c] = "images"
          BY <3>2, <4>1 DEF Asked, Supplies
        <4> QED
          BY <1>2, <1>7, <2>1, <3>1, <3>2, <3>4, <4>2 DEF ReplyShape, ClientStill, Idle
      <3> QED
        BY <2>1, <2>5, <3>3, <3>4
    <2> QED
      BY <2>4, <2>5
  <1>10. CASE BeginsUpload(c)
    <2>1. /\ serverPc[c] = "size" /\ serverPc'[c] = "data" /\ ClientStill(c)
          /\ 1 \in 1 .. Len(toServer[c]) /\ toServer'[c] = Rest(toServer[c], 1)
          /\ toClient'[c] = toClient[c]
      BY <1>10 DEF BeginsUpload, Goes, Takes
    <2>2. Wanted(Unread(c)', clientPc[c], toClient[c])
      BY <1>2, <1>6, <2>1
    <2> HIDE DEF Wanted
    <2> QED
      BY <1>3, <1>4, <2>1, <2>2
  <1>11. CASE GoesOnUpload(c)
    <2>1. PICK n \in 1 .. Len(toServer[c]) : toServer'[c] = Rest(toServer[c], n)
      BY <1>11 DEF GoesOnUpload, Takes
    <2>2. /\ serverPc[c] = "data" /\ serverPc'[c] = "data" /\ ClientStill(c)
          /\ toClient'[c] = toClient[c]
      BY <1>11 DEF GoesOnUpload, Goes, Takes
    <2>3. Wanted(Unread(c)', clientPc[c], toClient[c])
      BY <1>2, <1>6, <2>1, <2>2
    <2> HIDE DEF Wanted
    <2> QED
      BY <1>3, <1>4, <2>2, <2>3
  <1>12. CASE EndsUpload(c)
    <2>1. /\ serverPc[c] = "data" /\ serverPc'[c] \in {"recv", "end"} /\ ClientStill(c)
          /\ toServer'[c] = toServer[c] /\ toClient'[c] = toClient[c]
      BY <1>12 DEF EndsUpload, TakesNothing, Goes
    <2>2. Wanted(Unread(c)', clientPc[c], toClient[c])
      BY <1>1, <1>2, <2>1
    <2> HIDE DEF Wanted
    <2> QED
      BY <1>3, <1>4, <2>1, <2>2
  <1>13. ASSUME NEW from \in {"http", "names", "image"}, NEW units \in Seq(Units),
                NEW next \in {"recv", "choice"}, Replies(c, from, units, next)
         PROVE  /\ serverPc[c] = from /\ serverPc'[c] = next /\ ClientStill(c)
                /\ toServer[c] = <<>> /\ toClient[c] = <<>>
                /\ toServer'[c] = <<>> /\ toClient'[c] = units /\ Unread(c)' = <<>>
    <2>1. /\ serverPc[c] = from /\ serverPc'[c] = next /\ ClientStill(c)
          /\ toServer'[c] = toServer[c] /\ toClient'[c] = toClient[c] \o units
      BY <1>13 DEF Replies, Goes
    <2>2. toServer[c] = <<>> /\ toClient[c] = <<>>
      BY <2>1 DEF ReplyShape
    <2>3. toClient'[c] = units
      BY <2>1, <2>2, JoinEmpty
    <2>4. Unread(c)' = <<>>
      BY <1>2, <2>1, <2>2
    <2> QED
      BY <2>1, <2>2, <2>3, <2>4
  <1>14. \A m \in Answers : <<m>> \in Units
    BY UnitFacts DEF Messages
  <1>15. CASE Replies(c, "http", <<<<"answer">>>>, "recv")
    <2>1. <<<<"answer">>>> \in Seq(Units)
      BY <1>14 DEF Answers
    <2>2. /\ serverPc[c] = "http" /\ serverPc'[c] = "recv" /\ ClientStill(c)
          /\ toServer'[c] = <<>> /\ toClient'[c] = <<<<"answer">>>> /\ Unread(c)' = <<>>
      BY <1>13, <1>15, <2>1
    <2>3. clientPc'[c] = "answer"
      BY <2>2 DEF ReplyShape, ClientStill
    <2> QED
      BY <1>7, <2>2, <2>3 DEF ReplyShape, Idle
  <1>16. CASE Replies(c, "names", <<<<"images">>>>, "choice")
    <2>1. <<<<"images">>>> \in Seq(Units)
      BY <1>14 DEF Answers
    <2>2. /\ serverPc[c] = "names" /\ serverPc'[c] = "choice" /\ ClientStill(c)
          /\ toServer'[c] = <<>> /\ toClient'[c] = <<<<"images">>>> /\ Unread(c)' = <<>>
      BY <1>13, <1>16, <2>1
    <2>3. clientPc'[c] = "images"
      BY <2>2 DEF ReplyShape, ClientStill
    <2> QED
      BY <1>7, <2>2, <2>3 DEF ReplyShape, Idle
  <1>17. ASSUME NEW units \in {<<<<"error">>>>, <<<<"image">>>> \o ResultSent},
                Replies(c, "image", units, "recv")
         PROVE  ReplyShape(c)'
    <2>1. units \in Seq(Units)
      <3>1. <<<<"error">>>> \in Seq(Units) /\ <<<<"image">>>> \in Seq(Units) /\ ResultSent \in Seq(Units)
        BY <1>14, ResultFacts DEF Answers
      <3>2. \A s, t \in Seq(Units) : s \o t \in Seq(Units)
        OBVIOUS
      <3> QED
        BY <1>17, <3>1, <3>2
    <2>2. /\ serverPc[c] = "image" /\ serverPc'[c] = "recv" /\ ClientStill(c)
          /\ toServer'[c] = <<>> /\ toClient'[c] = units /\ Unread(c)' = <<>>
      BY <1>13, <1>17, <2>1
    <2>3. clientPc'[c] = "image"
      BY <2>2 DEF ReplyShape, ClientStill
    <2> QED
      BY <1>17, <2>2, <2>3 DEF ReplyShape, Idle
  <1>18. CASE Chooses(c)
    <2>1. PICK n \in 1 .. Len(toServer[c]) :
            /\ toServer'[c] = Rest(toServer[c], n) /\ toClient'[c] = toClient[c]
            /\ Goes(c, "choice", IF Arrived(toServer[c], n) = <<<<"continue">>>> THEN "image" ELSE "end")
      BY <1>18 DEF Chooses, Takes
    <2>2. serverPc[c] = "choice" /\ ClientStill(c) /\ toServer[c] # <<>>
      BY <1>1, <2>1 DEF Goes
    <2>3. clientPc[c] = "image" /\ toServer[c] = <<<<"continue">>>> /\ toClient[c] = <<>>
      BY <2>2 DEF ReplyShape
    <2>4. toServer'[c] = <<>> /\ Arrived(toServer[c], n) = <<<<"continue">>>>
      BY <2>1, <2>3, OnlyTaken, UnitFacts DEF Messages
    <2>5. serverPc'[c] = "image" /\ Unread(c)' = <<>>
      BY <1>2, <2>1, <2>4 DEF Goes
    <2> QED
      BY <1>7, <2>1, <2>2, <2>3, <2>4, <2>5 DEF ReplyShape, ClientStill, Idle
  <1>19. CASE GivesUp(c)
    BY <1>19 DEF GivesUp, HungUp, ClientAt
  <1>20. CASE Still(c)
    <2>1. Unread(c)' = Unread(c) /\ Idle(c)' = Idle(c)
      BY <1>20 DEF Still, ThreadStill, ClientStill, Unread, Idle
    <2> QED
      BY <1>20, <2>1 DEF Still, ThreadStill, ClientStill, ReplyShape
  <1> QED
    BY <1>8, <1>9, <1>10, <1>11, <1>12, <1>15, <1>16, <1>17, <1>18, <1>19, <1>20 DEF ThreadMove

-------------------------------------------------------------------------------
(* Why a server ends. *)

(* A file of which all has arrived is one as it was sent, *)
LEMMA IntactIf ==
  ASSUME NEW s \in Seq(Units), Len(s) > Chunks, s[1] = <<"size", FileSize>>, NEW f,
         \A j \in 1 .. Chunks : s[1 + j] = <<"data", f, j>>
  PROVE  Intact(s, f)
  <1>1. Chunks \in Nat /\ SizeOf(s) = Chunks
    BY SessionAssumption DEF SizeOf, FileSize
  <1>2. SubSeq(s, 2, 1 + Chunks) = [i \in 1 .. Chunks |-> s[1 + i]]
    <2>1. /\ SubSeq(s, 2, 1 + Chunks) \in Seq(Units) /\ Len(SubSeq(s, 2, 1 + Chunks)) = Chunks
          /\ \A i \in 1 .. Chunks : SubSeq(s, 2, 1 + Chunks)[i] = s[1 + i]
      BY <1>1
    <2>2. SubSeq(s, 2, 1 + Chunks) = [i \in 1 .. Chunks |-> SubSeq(s, 2, 1 + Chunks)[i]]
      BY <1>1, <2>1
    <2> QED
      BY <2>1, <2>2
  <1>3. [i \in 1 .. Chunks |-> s[1 + i]] = FileData(f)
    BY DEF FileData
  <1> QED
    BY <1>1, <1>2, <1>3 DEF Intact

(* one of the client's own, *)
LEMMA UploadIntact ==
  ASSUME VariablesOK, NEW c \in Clients, Receiving(c), StreamShape(c),
         serverPc[c] = "data", Complete(upload[c])
  PROVE  \E f \in 1 .. uploads[c] : Intact(upload[c], f)
  <1> DEFINE r == upload[c]
             t == toServer[c]
             w == r \o t
  <1>1. /\ r \in Seq(Units) /\ t \in Seq(Units) /\ Chunks \in Nat
        /\ r # <<>> /\ r[1] = <<"size", FileSize>>
    BY SessionAssumption DEF VariablesOK, Receiving, Holding, IsReceiving
  <1>2. Len(r) > Chunks
    BY <1>1 DEF Complete, SizeOf, FileSize
  <1>3. Framed(w, clientPc[c], uploads[c])
    BY DEF StreamShape
  <1> HIDE DEF r, t
  <1>4. /\ Len(w) = Len(r) + Len(t) /\ Len(r) \in Nat /\ Len(t) \in Nat
        /\ \A i \in 1 .. Len(r) : w[i] = r[i]
    BY <1>1, JoinFacts
  <1> HIDE DEF w
  <1>5. 1 \in 1 .. Len(w) /\ 1 \in 1 .. Len(r)
    BY <1>1, <1>2, <1>4
  <1>6. w[1] = Size
    BY <1>1, <1>4, <1>5 DEF Size
  <1>7. PICK f \in 1 .. uploads[c] :
          \A j \in 1 .. Chunks : 1 + j <= Len(w) => w[1 + j] = <<"data", f, j>>
    BY <1>3, <1>5, <1>6 DEF Framed
  <1>8. \A j \in 1 .. Chunks : 1 + j <= Len(w) /\ 1 + j \in 1 .. Len(r)
    BY <1>1, <1>2, <1>4
  <1>9. \A j \in 1 .. Chunks : r[1 + j] = <<"data", f, j>>
    BY <1>4, <1>7, <1>8
  <1>10. Intact(r, f)
    BY <1>1, <1>2, <1>9, IntactIf
  <1> QED
    BY <1>10 DEF r

(* and so is the result that a client has asked for. *)
LEMMA DownloadIntact ==
  ASSUME VariablesOK, NEW c \in Clients, Receiving(c), ReplyShape(c),
         clientPc[c] = "data", Complete(download[c])
  PROVE  Intact(download[c], Result) /\ Len(download[c]) = 1 + SizeOf(download[c])
  <1> DEFINE s == download[c]
             t == toClient[c]
  <1>1. /\ s \in Seq(Units) /\ t \in Seq(Units) /\ Chunks \in Nat
        /\ s # <<>> /\ s[1] = <<"size", FileSize>> /\ s \o t = ResultSent
    BY SessionAssumption DEF VariablesOK, Receiving, Holding, IsReceiving, ClientAt, ReplyShape
  <1>2. Len(s) > Chunks /\ SizeOf(s) = Chunks
    BY <1>1 DEF Complete, SizeOf, FileSize
  <1> HIDE DEF s, t
  <1>3. /\ Len(s) + Len(t) = 1 + Chunks /\ Len(s) \in Nat /\ Len(t) \in Nat
        /\ \A i \in 1 .. Len(s) : ResultSent[i] = s[i]
    <2>1. /\ Len(s \o t) = Len(s) + Len(t) /\ Len(s) \in Nat /\ Len(t) \in Nat
          /\ \A i \in 1 .. Len(s) : (s \o t)[i] = s[i]
      BY <1>1, JoinFacts
    <2>2. Len(ResultSent) = 1 + Chunks
      BY ResultFacts
    <2> QED
      BY <1>1, <2>1, <2>2
  <1>4. Len(s) = 1 + Chunks
    BY <1>1, <1>2, <1>3
  <1>5. \A j \in 1 .. Chunks : 1 + j \in 1 .. Len(s)
    BY <1>1, <1>4
  <1>6. \A j \in 1 .. Chunks : s[1 + j] = <<"data", Result, j>>
    BY <1>3, <1>5, ResultFacts
  <1>7. Intact(s, Result)
    BY <1>1, <1>2, <1>6, IntactIf
  <1> QED
    BY <1>2, <1>4, <1>7 DEF s

EndCause(c) == serverPc[c] = "end" => HasCause(c)

(* No step of a client takes away the cause of an end. *)
LEMMA CauseKeptByClient ==
  ASSUME VariablesOK, VariablesOK', NEW c \in Clients, EndCause(c), met' = met,
         ClientMove(c) \/ CutsShort(c)
  PROVE  EndCause(c)' /\ uploads'[c] >= uploads[c]
  <1>1. uploads[c] \in Nat /\ uploads'[c] \in Nat
    BY SessionAssumption DEF VariablesOK
  <1>2. serverPc'[c] = serverPc[c]
    BY DEF ClientMove, CutsShort, ThreadStill
  <1>3. uploads'[c] \in {uploads[c], uploads[c] + 1}
    BY DEF ClientMove, CutsShort, Asks, StartsImage, SendsSize, SendsData, Reads, Downloads, Saves,
           Spins, Leaves
  <1>4. clientPc[c] = "gone" => clientPc'[c] = "gone"
    BY DEF ClientMove, CutsShort, Asks, StartsImage, SendsSize, SendsData, Reads, Downloads, Saves,
           Spins, Leaves, Sends
  <1>5. cutShort[c] => cutShort'[c]
    BY DEF ClientMove, CutsShort
  <1>6. 1 .. uploads[c] \subseteq 1 .. uploads'[c] /\ uploads'[c] >= uploads[c]
    BY <1>1, <1>3
  <1> QED
    BY <1>2, <1>4, <1>5, <1>6 DEF EndCause, HasCause, ClientAt

(* A thread goes to its end with a cause. *)
LEMMA CauseKeptByThread ==
  ASSUME VariablesOK, VariablesOK', NEW c \in Clients, SessionShape(c), EndCause(c), ThreadMove(c),
         serverPc'[c] = "end" /\ met[c] => met'[c]
  PROVE  EndCause(c)' /\ uploads'[c] = uploads[c]
  <1>1. ClientStill(c)
    BY DEF ThreadMove, Receives, Dispatches, BeginsUpload, GoesOnUpload, EndsUpload, Replies, Chooses,
           GivesUp, Still, Goes, Takes
  <1>2. ASSUME clientPc[c] # "gone", ~cutShort[c], ~met[c], serverPc'[c] = "end", serverPc[c] # "end"
        PROVE  \E f \in 1 .. uploads[c] : f \in BadFiles
    <2>1. ReplyShape(c)
      BY <1>2 DEF SessionShape, ClientAt
    <2>2. EndsUpload(c) \/ Chooses(c)
      BY <1>2 DEF ThreadMove, Receives, Dispatches, BeginsUpload, GoesOnUpload, Replies,
           GivesUp, HungUp, ClientAt, Still, ThreadStill, Goes, Takes
    <2>3. CASE EndsUpload(c)
      <3>1. serverPc[c] = "data" /\ Complete(upload[c]) /\ ~Usable(upload[c])
        BY <1>2, <2>3 DEF EndsUpload, Goes, HungUp, ClientAt
      <3>2. PICK f \in 1 .. uploads[c] : Intact(upload[c], f)
        BY <1>2, <3>1, UploadIntact DEF SessionShape
      <3>3. f \in Files
        BY SessionAssumption DEF VariablesOK, Files, Result
      <3> QED
        BY <3>1, <3>2, <3>3 DEF Usable
    <2>4. CASE Chooses(c)
      <3>1. PICK n \in 1 .. Len(toServer[c]) :
              Goes(c, "choice", IF Arrived(toServer[c], n) = <<<<"continue">>>> THEN "image" ELSE "end")
        BY <2>4 DEF Chooses
      <3>2. serverPc[c] = "choice" /\ toServer[c] # <<>>
        BY <3>1 DEF Goes, VariablesOK
      <3>3. toServer[c] = <<<<"continue">>>>
        BY <2>1, <3>2 DEF ReplyShape
      <3>4. Arrived(toServer[c], n) = <<<<"continue">>>>
        BY <3>3, OnlyTaken, UnitFacts DEF Messages
      <3> QED
        BY <1>2, <3>1, <3>4 DEF Goes
    <2> QED
      BY <2>2, <2>3, <2>4
  <1> QED
    BY <1>1, <1>2 DEF EndCause, HasCause, ClientAt, ClientStill

(* Without images on their way, a message is read alone. *)
LEMMA ReadAlone ==
  ASSUME VariablesOK, NEW c \in Clients, RequestShape(c), serverPc[c] = "command", uploads[c] = 0
  PROVE  Readable(c)
  <1> DEFINE h == inHand[c]
             t == toServer[c]
             w == Unread(c)
  <1>1. h \in Seq(Units) /\ t \in Seq(Units) /\ w = h \o t /\ h # <<>>
    BY UnreadFacts DEF RequestShape
  <1>2. \A i \in 1 .. Len(w) : w[i] \in Request /\ i = Len(w) /\ w[i] # <<"continue">>
    BY DEF RequestShape
  <1> HIDE DEF h, t, w
  <1>3. Len(w) = Len(h) + Len(t) /\ Len(h) \in Nat /\ Len(t) \in Nat /\ Len(h) > 0
    BY <1>1
  <1>4. w[1] = h[1]
    BY <1>1, FirstStays
  <1>5. 1 \in 1 .. Len(w)
    BY <1>3
  <1>6. w[1] \in Request /\ 1 = Len(w) /\ w[1] # <<"continue">>
    BY <1>2, <1>5
  <1>7. Len(h) = 1
    <2>1. \A x, y \in Nat : x > 0 /\ 1 = x + y => x = 1
      OBVIOUS
    <2>2. 1 = Len(h) + Len(t)
      BY <1>3, <1>6, Zenon
    <2> QED
      BY <1>3, <2>1, <2>2, Zenon
  <1>8. h = <<h[1]>>
    BY <1>1, <1>7
  <1>9. \E k \in Commands : h[1] = <<k>>
    BY <1>4, <1>6 DEF Request, Commands
  <1> QED
    BY <1>8, <1>9 DEF Readable, h

(* A thread that aborts the process has one of the causes. *)
LEMMA AbortsOnlySo ==
  ASSUME VariablesOK, NEW c \in Clients, SessionShape(c), ThreadStep(c), AbortNeedsCause,
         \A d \in Clients : uploads'[d] = uploads[d]
  PROVE  AbortNeedsCause'
  <1> DEFINE Kept == http' = http /\ (status' = status \/ status' = "exited")
                     /\ (permit' = permit \/ ~permit')
  <1>1. ASSUME Kept
        PROVE  AbortNeedsCause'
    <2>1. status' = "aborted" => status = "aborted"
      BY <1>1
    <2>2. ~permit => ~permit'
      BY <1>1
    <2>3. http = "starting" => http' = "starting"
      BY <1>1
    <2>4. (\E d \in Clients : uploads[d] > 0) => (\E d \in Clients : uploads'[d] > 0)
      OBVIOUS
    <2> QED
      BY <2>1, <2>2, <2>3, <2>4 DEF AbortNeedsCause
  <1>2. ASSUME uploads[c] # 0
        PROVE  AbortNeedsCause'
    <2>1. uploads'[c] > 0
      BY <1>2, SessionAssumption DEF VariablesOK
    <2> QED
      BY <2>1 DEF AbortNeedsCause
  <1>3. CASE Unreadable(c)
    <2>1. uploads[c] # 0
      BY <1>3, ReadAlone DEF Unreadable, At, SessionShape
    <2> QED
      BY <1>2, <2>1
  <1>4. CASE NoResult(c)
    <2>1. http' = http /\ permit' = permit
      BY <1>4 DEF NoResult, Abort
    <2>2. http = "starting" \/ ~permit
      BY <1>4 DEF NoResult
    <2> QED
      BY <2>1, <2>2 DEF AbortNeedsCause
  <1>5. CASE NoUploadSize(c)
    <2>1. uploads[c] # 0
      BY <1>5 DEF NoUploadSize, At, SessionShape, RequestShape
    <2> QED
      BY <1>2, <2>1
  <1>6. CASE Collides(c)
    BY <1>1, <1>6 DEF Collides, AnswerSupplies
  <1>7. CASE \/ Receive(c) \/ CloseSession(c) \/ Dispatch(c) \/ Served(c) \/ UploadSize(c)
             \/ UploadData(c) \/ Filter(c) \/ FilterThrows(c) \/ SendNames(c) \/ ReceiveChoice(c)
             \/ NoChoice(c) \/ SendImage(c) \/ EndConn(c)
    <2>1. http' = http /\ permit' = permit /\ (status' = status \/ status' = "exited")
      BY <1>7 DEF Receive, CloseSession, Dispatch, Served, AnswerSupplies, UploadSize, UploadData, Filter,
         FilterThrows, SendNames, ReceiveChoice, NoChoice, SendImage, EndConn, processVars
    <2> QED
      BY <1>1, <2>1
  <1> QED
    BY <1>3, <1>4, <1>5, <1>6, <1>7 DEF ThreadStep

-------------------------------------------------------------------------------
(* The inductive invariant. *)

(* The first state of a process is as the steps keep it. *)
LEMMA StartsInShape == Init => Inductive
  <1> SUFFICES ASSUME Init
               PROVE  Inductive
    OBVIOUS
  <1> USE DEF Init
  <1>1. VariablesOK
    BY SessionAssumption DEF VariablesOK, ClientPcs, ServerPcs
  <1>2. \A c \in Clients : Receiving(c)
    <2>1. \A c \in Clients : /\ download[c] = <<>> /\ upload[c] = <<>>
                              /\ clientPc[c] = "menu" /\ serverPc[c] = "recv"
      OBVIOUS
    <2> HIDE DEF Init
    <2> QED
      BY <2>1 DEF Receiving, Holding, IsReceiving, ClientAt
  <1>3. ASSUME NEW c \in Clients
        PROVE  Unread(c) = <<>>
    <2>1. toServer[c] = <<>> /\ serverPc[c] = "recv"
      OBVIOUS
    <2>2. toServer[c] \in Seq(Units)
      BY <2>1
    <2> HIDE DEF Init
    <2> QED
      BY <2>1, <2>2, JoinEmpty DEF Unread
  <1>4. ASSUME NEW c \in Clients
        PROVE  StreamShape(c)
    <2>1. upload[c] \o toServer[c] = <<>>
      OBVIOUS
    <2>2. Framed(<<>>, clientPc[c], uploads[c])
      BY DEF Framed
    <2> QED
      BY <2>1, <2>2 DEF StreamShape
  <1>5. ASSUME NEW c \in Clients
        PROVE  RequestShape(c) /\ ReplyShape(c)
    <2>1. /\ toServer[c] = <<>> /\ toClient[c] = <<>> /\ serverPc[c] = "recv" /\ Unread(c) = <<>>
          /\ clientPc[c] = "menu"
      BY <1>3
    <2> HIDE DEF Init
    <2>2. RequestShape(c)
      BY <2>1 DEF RequestShape
    <2>3. ReplyShape(c)
      BY <2>1 DEF ReplyShape
    <2> QED
      BY <2>2, <2>3
  <1>6. EndNeedsCause /\ AbortNeedsCause
    BY DEF EndNeedsCause, AbortNeedsCause
  <1>7. \A c \in Clients : Holding(c) /\ SessionShape(c)
    <2>1. cutShort = [c \in Clients |-> FALSE]
      OBVIOUS
    <2> HIDE DEF Init
    <2>2. \A c \in Clients : ~cutShort[c]
      BY <2>1, Zenon
    <2> QED
      BY <1>2, <1>4, <1>5, <2>2, Zenon DEF SessionShape, Receiving
  <1> HIDE DEF Init
  <1> QED
    BY <1>1, <1>6, <1>7 DEF Inductive, TypeOK

(* Every step of a client keeps the invariant. *)
LEMMA ClientKeepsShape ==
  ASSUME Inductive, NEW c \in Clients, UserStep(c) \/ ClientStep(c)
  PROVE  Inductive'
  <1>1. VariablesOK /\ TypeOK /\ Holding(c) /\ SessionShape(c) /\ EndCause(c)
    BY DEF Inductive, TypeOK, EndNeedsCause, EndCause
  <1>2. VariablesOK'
    BY <1>1, VariablesKeptByClient
  <1>3. /\ ClientMove(c) \/ Still(c) \/ CutsShort(c)
        /\ \A d \in Clients \ {c} : Still(d)
        /\ status' = status /\ http' = http /\ permit' = permit /\ met' = met
    BY <1>1, ClientMoves
  <1>4. ASSUME NEW d \in Clients, Still(d)
        PROVE  Holding(d)' /\ SessionShape(d)' /\ EndCause(d)' /\ uploads'[d] >= uploads[d]
    <2>1. Holding(d) /\ SessionShape(d) /\ EndCause(d) /\ uploads[d] \in Nat
      BY SessionAssumption DEF Inductive, TypeOK, VariablesOK, EndNeedsCause, EndCause
    <2>2. EndCause(d)' /\ uploads'[d] >= uploads[d]
      BY <1>3, <1>4, <2>1 DEF Still, ThreadStill, ClientStill, EndCause, HasCause, ClientAt
    <2> QED
      BY <1>4, <2>1, <2>2, StillSession
  <1>5. Holding(c)'
    BY <1>1, <1>3, <1>4, HoldingKeptByClient
  <1>6. TypeOK'
    BY <1>2, <1>3, <1>4, <1>5 DEF TypeOK
  <1>7. EndCause(c)' /\ uploads'[c] >= uploads[c]
    BY <1>1, <1>2, <1>3, <1>4, CauseKeptByClient
  <1>8. ASSUME ClientMove(c), ~cutShort[c]
        PROVE  SessionShape(c)'
    <2>1. Receiving(c) /\ StreamShape(c) /\ RequestShape(c) /\ (~ClientAt(c, "gone") => ReplyShape(c))
      BY <1>1, <1>8 DEF SessionShape
    <2>2. Receiving(c)' /\ RequestShape(c)' /\ StreamShape(c)'
      BY <1>1, <1>2, <1>6, <1>8, <2>1, ReceivingKeptByClient, RequestsKeptByClient, StreamKeptByClient
    <2>3. ASSUME clientPc'[c] # "gone"
          PROVE  ReplyShape(c)'
      <3>1. ~ClientAt(c, "gone")
        BY <1>8, <2>3 DEF ClientAt, ClientMove, Asks, StartsImage, SendsSize, SendsData, Reads, Downloads,
           Saves, Spins, Leaves, Sends
      <3> QED
        BY <1>1, <1>2, <1>8, <2>1, <2>3, <3>1, RepliesKeptByClient
    <2>4. ~cutShort'[c]
      BY <1>8 DEF ClientMove
    <2> QED
      BY <2>2, <2>3, <2>4 DEF SessionShape, ClientAt
  <1>9. ASSUME (ClientMove(c) /\ cutShort[c]) \/ CutsShort(c)
        PROVE  SessionShape(c)'
    <2>1. cutShort'[c]
      BY <1>9 DEF ClientMove, CutsShort
    <2>2. uploads[c] > 0
      BY <1>1, <1>9 DEF SessionShape, StreamShape, CutsShort
    <2>3. uploads'[c] > 0
      <3>1. uploads[c] \in Nat /\ uploads'[c] \in Nat
        BY <1>1, <1>2, SessionAssumption DEF VariablesOK
      <3> QED
        BY <1>7, <2>2, <3>1
    <2> QED
      BY <2>1, <2>3 DEF SessionShape
  <1>10. \A d \in Clients : SessionShape(d)' /\ EndCause(d)' /\ uploads'[d] >= uploads[d]
    BY <1>3, <1>4, <1>7, <1>8, <1>9
  <1>11. \A d \in Clients : uploads[d] > 0 => uploads'[d] > 0
    <2>1. \A d \in Clients : uploads[d] \in Nat /\ uploads'[d] \in Nat
      BY <1>1, <1>2, SessionAssumption DEF VariablesOK
    <2> QED
      BY <1>10, <2>1
  <1>12. AbortNeedsCause'
    BY <1>3, <1>11 DEF Inductive, AbortNeedsCause
  <1> QED
    BY <1>6, <1>10, <1>12 DEF Inductive, EndNeedsCause, EndCause

(* Every step of a thread keeps the invariant. *)
LEMMA ThreadKeepsShape ==
  ASSUME Inductive, NEW c \in Clients, ThreadStep(c)
  PROVE  Inductive'
  <1>1. VariablesOK /\ TypeOK /\ Holding(c) /\ SessionShape(c) /\ EndCause(c)
    BY DEF Inductive, TypeOK, EndNeedsCause, EndCause
  <1>2. VariablesOK'
    BY <1>1, VariablesKeptByThread
  <1>3. ThreadMove(c) /\ \A d \in Clients \ {c} : Still(d)
    BY <1>1, ThreadMoves
  <1>4. \A d \in Clients : serverPc'[d] = "end" /\ met[d] => met'[d]
    BY <1>1, MetStays
  <1>5. ASSUME NEW d \in Clients, Still(d)
        PROVE  Holding(d)' /\ SessionShape(d)' /\ EndCause(d)' /\ uploads'[d] = uploads[d]
    <2>1. Holding(d) /\ SessionShape(d) /\ EndCause(d)
      BY DEF Inductive, TypeOK, EndNeedsCause, EndCause
    <2>2. EndCause(d)' /\ uploads'[d] = uploads[d]
      BY <1>4, <1>5, <2>1 DEF Still, ThreadStill, ClientStill, EndCause, HasCause, ClientAt
    <2> QED
      BY <1>5, <2>1, <2>2, StillSession
  <1>6. Holding(c)'
    BY <1>1, <1>3, HoldingKeptByThread
  <1>7. TypeOK'
    BY <1>2, <1>3, <1>5, <1>6 DEF TypeOK
  <1>8. EndCause(c)' /\ uploads'[c] = uploads[c]
    BY <1>1, <1>2, <1>3, <1>4, CauseKeptByThread
  <1>9. clientPc'[c] = clientPc[c] /\ cutShort'[c] = cutShort[c]
    BY <1>3 DEF ThreadMove, Receives, Dispatches, BeginsUpload, GoesOnUpload, EndsUpload, Replies,
       Chooses, GivesUp, Still, Goes, Takes, ClientStill
  <1>10. ASSUME ~cutShort[c]
         PROVE  SessionShape(c)'
    <2>1. Receiving(c) /\ StreamShape(c) /\ RequestShape(c) /\ (~ClientAt(c, "gone") => ReplyShape(c))
      BY <1>1, <1>10 DEF SessionShape
    <2>2. Receiving(c)' /\ RequestShape(c)' /\ StreamShape(c)'
      BY <1>1, <1>2, <1>3, <1>7, <2>1, ReceivingKeptByThread, RequestsKeptByThread, StreamKeptByThread
    <2>3. clientPc'[c] # "gone" => ReplyShape(c)'
      BY <1>1, <1>2, <1>3, <1>9, <2>1, RepliesKeptByThread DEF ClientAt
    <2> QED
      BY <1>9, <1>10, <2>2, <2>3 DEF SessionShape, ClientAt
  <1>11. ASSUME cutShort[c]
         PROVE  SessionShape(c)'
    BY <1>1, <1>8, <1>9, <1>11 DEF SessionShape
  <1>12. \A d \in Clients : SessionShape(d)' /\ EndCause(d)' /\ uploads'[d] = uploads[d]
    BY <1>3, <1>5, <1>8, <1>10, <1>11
  <1>13. AbortNeedsCause'
    BY <1>1, <1>12, AbortsOnlySo DEF Inductive
  <1> QED
    BY <1>7, <1>12, <1>13 DEF Inductive, EndNeedsCause, EndCause

(* Every step keeps the invariant. *)
LEMMA InductiveKept == Inductive /\ [Next]_vars => Inductive'
  <1> SUFFICES ASSUME Inductive, [Next]_vars
               PROVE  Inductive'
    OBVIOUS
  <1>1. ASSUME \A c \in Clients : Still(c), VariablesOK', status' = status, permit' = permit,
               met' = met, http' = http \/ status # "aborted"
        PROVE  Inductive'
    <2>1. \A c \in Clients : Holding(c)' /\ SessionShape(c)'
      BY <1>1, StillSession DEF Inductive, TypeOK
    <2>2. EndNeedsCause'
      BY <1>1 DEF Inductive, EndNeedsCause, HasCause, Still, ThreadStill, ClientStill, ClientAt
    <2>3. AbortNeedsCause'
      BY <1>1 DEF Inductive, AbortNeedsCause, Still, ClientStill
    <2> QED
      BY <1>1, <2>1, <2>2, <2>3 DEF Inductive, TypeOK
  <1>2. VariablesOK
    BY DEF Inductive, TypeOK
  <1>3. CASE StartHttp
    <2>1. /\ \A c \in Clients : Still(c)
          /\ status' = status /\ permit' = permit /\ met' = met /\ status # "aborted"
      BY <1>3 DEF StartHttp, Up, Still, ThreadStill, ClientStill, clientVars, threadVars, histories, streams
    <2>2. VariablesOK'
      BY <1>2, <1>3 DEF StartHttp, VariablesOK, clientVars, threadVars, histories, streams
    <2> QED
      BY <1>1, <2>1, <2>2
  <1>4. CASE \E c \in Clients : UserStep(c) \/ ClientStep(c) \/ ThreadStep(c)
    BY <1>4, ClientKeepsShape, ThreadKeepsShape
  <1>5. CASE UNCHANGED vars
    <2>1. \A c \in Clients : Still(c)
      BY <1>5 DEF vars, clientVars, threadVars, streams, histories, Still, ThreadStill, ClientStill
    <2>2. VariablesOK' /\ status' = status /\ permit' = permit /\ http' = http /\ met' = met
      BY <1>2, <1>5 DEF vars, processVars, clientVars, threadVars, streams, histories, VariablesOK
    <2> QED
      BY <1>1, <2>1, <2>2
  <1> QED
    BY <1>3, <1>4, <1>5 DEF Next

(* What every step keeps: the streams carry whole files, each after its      *)
(* command and size, a request is the last message of its client, and the    *)
(* reply to it is all that is on its way back, unless the client went on     *)
(* after a signal cut a file short.                                          *)
THEOREM InductiveHolds == Spec => []Inductive
  BY StartsInShape, InductiveKept, PTL DEF Spec

(* Every variable has its type, and a file is held by the loops that receive *)
(* one and by nobody else.                                                   *)
THEOREM TypeCorrect == Spec => []TypeOK
  <1>1. Inductive => TypeOK
    BY DEF Inductive
  <1> QED
    BY <1>1, InductiveHolds, PTL

(* No reply is ever taken for that of a later request, by a client that has  *)
(* sent no part of a file for a whole.                                       *)
THEOREM RepliesStayInStep == Spec => []RepliesInStep
  <1>1. Inductive => RepliesInStep
    <2> SUFFICES ASSUME Inductive, NEW c \in Clients, ~cutShort[c], Idle(c)
                 PROVE  toClient[c] = <<>>
      BY DEF RepliesInStep
    <2>1. ReplyShape(c)
      BY DEF Inductive, SessionShape, Idle, ClientAt
    <2> QED
      BY <2>1 DEF ReplyShape
  <1> QED
    BY <1>1, InductiveHolds, PTL

(* A session ends the server only when its client is gone, sent a file that  *)
(* cannot be used or only a part of one, or when another session saved or    *)
(* filtered at the same time.                                                *)
THEOREM ServerEndsWithCause == Spec => []EndNeedsCause
  <1>1. Inductive => EndNeedsCause
    BY DEF Inductive
  <1> QED
    BY <1>1, InductiveHolds, PTL

(* The server aborts only after an upload, or when a request to its own HTTP *)
(* server has no result.                                                     *)
THEOREM ServerAbortsWithCause == Spec => []AbortNeedsCause
  <1>1. Inductive => AbortNeedsCause
    BY DEF Inductive
  <1> QED
    BY <1>1, InductiveHolds, PTL

(* However read() cuts the streams, a file of which everything has arrived   *)
(* is one as it was sent, unless a write() was cut short before.             *)
THEOREM FilesArriveIntact == Spec => []FilesIntact
  <1>1. Inductive => FilesIntact
    <2> SUFFICES ASSUME Inductive, NEW c \in Clients, ~cutShort[c]
                 PROVE  /\ serverPc[c] = "data" /\ Complete(upload[c]) =>
                             \E f \in 1 .. uploads[c] : Intact(upload[c], f)
                        /\ ClientAt(c, "data") /\ Complete(download[c]) =>
                             Intact(download[c], Result) /\ Len(download[c]) = 1 + SizeOf(download[c])
      BY DEF FilesIntact
    <2>1. /\ VariablesOK /\ Receiving(c) /\ StreamShape(c)
          /\ clientPc[c] # "gone" => ReplyShape(c)
      BY DEF Inductive, TypeOK, SessionShape, ClientAt
    <2> QED
      BY <2>1, UploadIntact, DownloadIntact DEF ClientAt
  <1> QED
    BY <1>1, InductiveHolds, PTL

-------------------------------------------------------------------------------
(* The sessions are callers of the HTTP service. *)

CallsSeen == [c \in Clients |-> CallOf(c)]

(* Where no call changes, the service sees nothing. *)
LEMMA CallsStay ==
  ASSUME permit' = permit, \A d \in Clients : CallOf(d)' = CallOf(d)
  PROVE  UNCHANGED <<permit, CallsSeen>>
  BY DEF CallsSeen

(* A thread that neither enters nor leaves its request keeps its call. *)
LEMMA CallStays ==
  ASSUME NEW d \in Clients,
         \/ serverPc'[d] = serverPc[d] /\ inHand'[d] = inHand[d]
         \/ serverPc[d] # "http" /\ serverPc'[d] # "http"
  PROVE  CallOf(d)' = CallOf(d)
  BY DEF CallOf, Command

(* A step of one session changes at most that session's call. *)
LEMMA CallChanges ==
  ASSUME NEW c \in Clients, \A d \in Clients \ {c} : CallOf(d)' = CallOf(d)
  PROVE  CallsSeen' = [CallsSeen EXCEPT ![c] = CallOf(c)']
  BY DEF CallsSeen

(* Every step of a thread is one of the service, or nothing it sees. *)
LEMMA ThreadCalls ==
  ASSUME Inductive, NEW c \in Clients, ThreadStep(c)
  PROVE  \/ UNCHANGED <<permit, CallsSeen>>
         \/ Http!Make(c) \/ Http!Answer(c) \/ Http!LosePermit(c)
  <1> USE DEF At, Goto
  <1>1. VariablesOK
    BY DEF Inductive, TypeOK
  <1>2. \A d \in Clients \ {c} : CallOf(d)' = CallOf(d)
    <2>1. \A d \in Clients \ {c} : Still(d)
      BY ThreadMoves DEF Inductive
    <2> QED
      BY <2>1, CallStays DEF Still, ThreadStill
  <1>3. ASSUME permit' = permit, CallOf(c)' = CallOf(c)
        PROVE  UNCHANGED <<permit, CallsSeen>>
    BY <1>2, <1>3, CallsStay
  <1>4. ASSUME permit' = permit, serverPc[c] # "http", serverPc'[c] # "http"
        PROVE  UNCHANGED <<permit, CallsSeen>>
    BY <1>3, <1>4, CallStays
  <1>5. \A d \in Clients : CallsSeen[d] = CallOf(d)
    BY DEF CallsSeen
  <1>6. CASE Dispatch(c)
    <2>1. /\ permit' = permit /\ serverPc[c] = "command" /\ Readable(c) /\ inHand'[c] = inHand[c]
      BY <1>6 DEF Dispatch, processVars
    <2>2. CASE serverPc'[c] = "http"
      <3>1. CallsSeen[c] = "none"
        BY <1>5, <2>1 DEF CallOf
      <3>2. CallOf(c)' \in {"unguarded", "set"}
        BY <2>2 DEF CallOf
      <3>3. CallsSeen' = [CallsSeen EXCEPT ![c] = CallOf(c)']
        BY <1>2, CallChanges
      <3>4. Http!Make(c)
        BY <2>1, <3>1, <3>2, <3>3 DEF Http!Make, Http!Calls, CallsSeen
      <3> QED
        BY <3>4
    <2>3. CASE serverPc'[c] # "http"
      BY <1>4, <2>1, <2>3
    <2> QED
      BY <2>2, <2>3
  <1>7. ASSUME Served(c) \/ Collides(c)
        PROVE  /\ CallsSeen' = [CallsSeen EXCEPT ![c] = "none"]
               /\ serverPc[c] = "http"
    <2>1. Reply(c, <<<<"answer">>>>, "recv", "closed") /\ serverPc[c] = "http"
      BY <1>7 DEF Served, Collides, AnswerSupplies, Requests
    <2>2. serverPc'[c] \in {"recv", "closed"}
      BY <1>1, <2>1 DEF Reply, VariablesOK
    <2>3. CallOf(c)' = "none"
      BY <2>2 DEF CallOf
    <2> QED
      BY <1>2, <2>1, <2>3, CallChanges
  <1>8. ASSUME NEW d \in Clients, serverPc[d] = "http"
        PROVE  /\ Command(d) = "get_supplies" => CallsSeen[d] = "unguarded"
               /\ Command(d) = "set_supplies" => CallsSeen[d] = "set"
    BY <1>5, <1>8 DEF CallOf
  <1>9. CASE Served(c)
    <2>1. /\ permit' = permit /\ serverPc[c] = "http"
          /\ Command(c) = "get_supplies" \/ (Command(c) = "set_supplies" /\ permit)
      BY <1>9 DEF Served, Requests
    <2>2. Http!Answer(c)
      BY <1>7, <1>8, <1>9, <2>1 DEF Http!Answer, CallsSeen
    <2> QED
      BY <2>2
  <1>10. CASE Collides(c)
    <2>1. /\ permit /\ permit' = FALSE /\ serverPc[c] = "http" /\ Command(c) = "set_supplies"
          /\ \E d \in Clients : serverPc[d] = "http" /\ Command(d) = "get_supplies"
      BY <1>10 DEF Collides, Requests
    <2>2. \E d \in Clients : CallsSeen[d] = "unguarded"
      BY <1>8, <2>1
    <2>3. Http!LosePermit(c)
      BY <1>7, <1>8, <1>10, <2>1, <2>2 DEF Http!LosePermit, CallsSeen
    <2> QED
      BY <2>3
  <1>11. CASE Unreadable(c) \/ NoResult(c) \/ EndConn(c) \/ NoUploadSize(c)
    <2>1. permit' = permit
      BY <1>11 DEF Unreadable, NoResult, EndConn, NoUploadSize, Abort, processVars
    <2>2. \/ serverPc' = serverPc /\ inHand' = inHand
          \/ serverPc[c] = "size" /\ serverPc'[c] = "end"
      BY <1>1, <1>11 DEF Unreadable, NoResult, EndConn, NoUploadSize, Abort, threadVars, VariablesOK
    <2> QED
      BY <1>3, <2>1, <2>2, CallStays
  <1>12. CASE \/ Receive(c) \/ CloseSession(c) \/ UploadSize(c) \/ UploadData(c) \/ Filter(c)
              \/ FilterThrows(c) \/ ReceiveChoice(c) \/ NoChoice(c)
    <2>1. permit' = permit
      BY <1>12 DEF Receive, CloseSession, UploadSize, UploadData, Filter, FilterThrows, ReceiveChoice,
         NoChoice, processVars
    <2>2. serverPc[c] # "http" /\ serverPc'[c] # "http"
      BY <1>1, <1>12 DEF Receive, CloseSession, UploadSize, UploadData, Filter, FilterThrows, ReceiveChoice,
         NoChoice, VariablesOK
    <2> QED
      BY <1>4, <2>1, <2>2
  <1>13. CASE SendNames(c) \/ SendImage(c)
    <2>1. permit' = permit /\ serverPc[c] # "http"
      BY <1>13 DEF SendNames, SendImage, processVars
    <2>2. serverPc'[c] \in {"choice", "recv", "end"}
      BY <1>1, <1>13 DEF SendNames, SendImage, Reply, VariablesOK
    <2> QED
      BY <1>4, <2>1, <2>2
  <1> QED
    BY <1>6, <1>9, <1>10, <1>11, <1>12, <1>13 DEF ThreadStep

(* The sessions see no other HTTP server than the one RefugeServer is proved *)
(* to be, with the same permit.                                              *)
THEOREM UsesTheService == Spec => UsesHttp
  <1>1. Init => Http!Init
    <2> SUFFICES ASSUME Init
                 PROVE  Http!Init
      OBVIOUS
    <2>1. \A c \in Clients : serverPc[c] # "http"
      BY DEF Init
    <2>2. \A c \in Clients : CallOf(c) = "none"
      BY <2>1 DEF CallOf
    <2>3. permit = TRUE
      BY DEF Init
    <2> QED
      BY <2>2, <2>3 DEF Http!Init, Http!NoCalls
  <1>2. ASSUME Inductive, [Next]_vars
        PROVE  [Http!Next]_<<permit, CallsSeen>>
    <2>1. CASE UNCHANGED vars
      BY <2>1, CallsStay, CallStays DEF vars, processVars, threadVars
    <2>2. CASE StartHttp
      BY <2>2, CallsStay, CallStays DEF StartHttp, threadVars
    <2>3. ASSUME NEW c \in Clients, UserStep(c) \/ ClientStep(c)
          PROVE  UNCHANGED <<permit, CallsSeen>>
      <3>1. /\ ClientMove(c) \/ Still(c) \/ CutsShort(c)
            /\ \A d \in Clients \ {c} : Still(d)
            /\ permit' = permit
        BY <2>3, ClientMoves, <1>2 DEF Inductive
      <3>2. \A d \in Clients : serverPc'[d] = serverPc[d] /\ inHand'[d] = inHand[d]
        BY <3>1 DEF ClientMove, CutsShort, Still, ThreadStill
      <3> QED
        BY <3>1, <3>2, CallsStay, CallStays
    <2>4. ASSUME NEW c \in Clients, ThreadStep(c)
          PROVE  [Http!Next]_<<permit, CallsSeen>>
      BY <1>2, <2>4, ThreadCalls DEF Http!Next
    <2> QED
      BY <1>2, <2>1, <2>2, <2>3, <2>4 DEF Next
  <1>3. Inductive /\ [Next]_vars => [Http!Next]_<<permit, CallsSeen>>
    BY <1>2
  <1> QED
    BY <1>1, <1>3, InductiveHolds, PTL DEF Spec, UsesHttp, Http!Spec, CallsSeen
===============================================================================
