-------------------------- MODULE ImageDirectoryProofs --------------------------
(***************************************************************************)
(* The images of the server are as ImageDirectoryProperties has them for   *)
(* every number of sessions, results, names, images and processes.         *)
(***************************************************************************)
EXTENDS ImageDirectoryProperties, SequenceTheorems, TLAPS

-------------------------------------------------------------------------------
(* The contents of files. *)

(* The results are names of files, one for each index. *)
LEMMA ResultsAreNames ==
  /\ \A i \in 1 .. Len(Results) : Results[i] \in ResultNames
  /\ ResultNames \subseteq Names /\ UploadNames \subseteq Names
  /\ Len(Results) \in Nat \ {0}
  /\ \A n \in ResultNames : \E i \in 1 .. Len(Results) : n = Results[i]
  <1>1. Len(Results) \in Nat \ {0} /\ DOMAIN Results = 1 .. Len(Results)
    BY DirectoryAssumption, LenProperties, EmptySeq
  <1> QED
    BY <1>1 DEF ResultNames, Names

(* What a session writes is among the contents a file can have. *)
LEMMA ContentsClosed ==
  /\ \A i \in Image : Whole(i) \in Contents /\ Cut(i) \in Contents
  /\ Absent \in Contents /\ Mixed \in Contents
  /\ \A c \in Contents : Cut(c[2]) \in Contents
  /\ 0 \in Image
  BY DirectoryAssumption DEF Contents, Image, Whole, Cut, Absent, Mixed

(* What is whole is neither cut, nor mixed, nor absent. *)
LEMMA WholeIsNot ==
  /\ \A i, j \in Image : Whole(i) # Cut(j) /\ Whole(i) # Mixed /\ Whole(i) # Absent
  /\ \A i, j : Whole(i) = Whole(j) => i = j
  BY DEF Whole, Cut, Mixed, Absent

(* What is read of a file nobody has changed is the file. *)
LEMMA ReadUnchanged ==
  ASSUME NEW c, NEW d \in ReadAs(c, c)
  PROVE  d = c
  BY DEF ReadAs

-------------------------------------------------------------------------------
(* Opening and closing. *)

(* A file that is opened for writing is cut, and no other changes. *)
LEMMA OpenFacts ==
  ASSUME TypeOK, NEW s \in Sessions, NEW n \in Names, NEW i \in Image, Open(s, n, i)
  PROVE  /\ files' \in [Names -> Contents] /\ file' \in [Sessions -> Names]
         /\ clash' \in [Sessions -> BOOLEAN]
         /\ file'[s] = n /\ files'[n] = Cut(i) /\ clash'[s] = WrittenByOther(s, n)
         /\ \A m \in Names \ {n} : files'[m] = files[m]
         /\ \A u \in Sessions \ {s} : file'[u] = file[u] /\ clash'[u] = (clash[u] \/ Writes(u, n))
  <1>1. Cut(i) \in Contents
    BY ContentsClosed
  <1>2. WrittenByOther(s, n) \in BOOLEAN /\ \A u \in Sessions : Writes(u, n) \in BOOLEAN
    BY DEF WrittenByOther, Writes
  <1> QED
    BY <1>1, <1>2 DEF TypeOK, Open

(* A file that is closed is whole, or mixed with what another wrote. *)
LEMMA CloseFacts ==
  ASSUME TypeOK, NEW s \in Sessions, NEW i \in Image, Close(s, i)
  PROVE  /\ files' \in [Names -> Contents] /\ damaged' \subseteq Names
         /\ files'[file[s]] = Whole(i) \/ (clash[s] /\ files'[file[s]] = Mixed)
         /\ clash[s] <=> file[s] \in damaged'
         /\ \A m \in Names \ {file[s]} : files'[m] = files[m] /\ (m \in damaged' <=> m \in damaged)
  <1>1. file[s] \in Names /\ clash[s] \in BOOLEAN
    BY DEF TypeOK
  <1>2. PICK c \in {Whole(i)} \union (IF clash[s] THEN {Mixed} ELSE {}) :
          files' = [files EXCEPT ![file[s]] = c]
    BY DEF Close
  <1>3. c \in Contents /\ (c = Whole(i) \/ (clash[s] /\ c = Mixed))
    BY <1>2, ContentsClosed
  <1> QED
    BY <1>1, <1>2, <1>3 DEF TypeOK, Close

(* Nobody's history is forgotten by what another session notices. *)
LEMMA NoticedFacts ==
  ASSUME TypeOK, NEW s \in Sessions, NEW n, Noticed(s, n) \/ NoticedFrom(s, n)
  PROVE  /\ met' \in [Sessions -> BOOLEAN]
         /\ \A u \in Sessions \ {s} : met'[u] = (met[u] \/ n \in Concerns(u))
         /\ Noticed(s, n) => met'[s] = met[s]
         /\ NoticedFrom(s, n) => met'[s] = WrittenByOther(s, n)
  <1>1. /\ met \in [Sessions -> BOOLEAN] /\ WrittenByOther(s, n) \in BOOLEAN
        /\ \A u \in Sessions : (met[u] \/ n \in Concerns(u)) \in BOOLEAN
    BY DEF TypeOK, WrittenByOther
  <1>2. CASE Noticed(s, n)
    BY <1>1, <1>2 DEF Noticed, NoticedFrom
  <1>3. CASE NoticedFrom(s, n)
    BY <1>1, <1>3 DEF Noticed, NoticedFrom
  <1> QED
    BY <1>2, <1>3

-------------------------------------------------------------------------------
(* The steps keep the types. *)

(* Every step keeps the types. *)
LEMMA TypeKept ==
  ASSUME TypeOK, [Next]_vars
  PROVE  TypeOK'
  <1> DEFINE Rest == {"idle", "saving", "saved", "filtering", "writing", "reading"}
  <1>0. Len(Results) \in Nat \ {0} /\ \A i \in 1 .. Len(Results) : Results[i] \in Names
    BY ResultsAreNames
  <1>1. CASE EndProcess /\ Alive
    BY <1>1, DirectoryAssumption DEF EndProcess, Alive, TypeOK
  <1>2. ASSUME NEW s \in Sessions, OpenImage(s)
        PROVE  TypeOK'
    <2>1. PICK n \in UploadNames : Open(s, n, sent + 1) /\ NoticedFrom(s, n)
      BY <1>2 DEF OpenImage
    <2>2. sent + 1 \in Image /\ sent + 1 \in 0 .. MaxUploads /\ n \in Names
      BY <1>2, DirectoryAssumption, ResultsAreNames DEF OpenImage, TypeOK, Image
    <2> QED
      BY <1>2, <2>1, <2>2, OpenFacts, NoticedFacts DEF OpenImage, At, Goto, TypeOK
  <1>3. ASSUME NEW s \in Sessions, CloseImage(s)
        PROVE  TypeOK'
    <2>1. own[s] \in Image
      BY DEF TypeOK
    <2> QED
      BY <1>3, <2>1, CloseFacts, NoticedFacts DEF CloseImage, At, Goto, TypeOK
  <1>4. ASSUME NEW s \in Sessions, Load(s)
        PROVE  TypeOK'
    <2>1. IsWhole(file[s]) => files[file[s]][2] \in Image
      BY DEF IsWhole, Whole
    <2>2. image' \in [Sessions -> Image]
      BY <1>4, <2>1, ContentsClosed DEF Load, TypeOK
    <2>3. (\E n \in ResultNames : WrittenByOther(s, n)) \in BOOLEAN
      OBVIOUS
    <2> QED
      BY <1>0, <1>4, <2>2, <2>3 DEF Load, At, Goto, TypeOK
  <1>5. ASSUME NEW s \in Sessions, OpenResult(s)
        PROVE  TypeOK'
    <2>1. step[s] + 1 \in 1 .. Len(Results) /\ Results[step[s] + 1] \in Names /\ image[s] \in Image
      BY <1>0, <1>5 DEF OpenResult, At, TypeOK
    <2> QED
      BY <1>5, <2>1, OpenFacts, NoticedFacts DEF OpenResult, At, Goto, TypeOK
  <1>6. ASSUME NEW s \in Sessions, CloseResult(s)
        PROVE  TypeOK'
    <2>1. image[s] \in Image
      BY DEF TypeOK
    <2> QED
      BY <1>0, <1>6, <2>1, CloseFacts, NoticedFacts DEF CloseResult, At, Goto, TypeOK
  <1>7. ASSUME NEW s \in Sessions, Measure(s)
        PROVE  TypeOK'
    <2>1. PICK n \in ResultNames : /\ file' = [file EXCEPT ![s] = n]
                                   /\ copy' = [copy EXCEPT ![s] = files[n]]
                                   /\ met' = [met EXCEPT ![s] = WrittenByOther(s, n)]
      BY <1>7 DEF Measure
    <2>2. n \in Names /\ WrittenByOther(s, n) \in BOOLEAN
      BY ResultsAreNames DEF WrittenByOther
    <2> QED
      BY <1>7, <2>1, <2>2 DEF Measure, At, Goto, TypeOK
  <1>8. ASSUME NEW s \in Sessions, ReadFile(s)
        PROVE  TypeOK'
    <2>1. files[file[s]] \in Contents
      BY DEF TypeOK
    <2>2. ReadAs(copy[s], files[file[s]]) \subseteq Contents
      BY <2>1, ContentsClosed DEF ReadAs
    <2>3. copy' \in [Sessions -> Contents]
      BY <1>8, <2>2 DEF ReadFile, TypeOK
    <2> QED
      BY <1>8, <2>3 DEF ReadFile, At, Goto, TypeOK
  <1>9. CASE UNCHANGED vars
    BY <1>9 DEF vars, sessionVars, TypeOK
  <1> QED
    BY <1>1, <1>2, <1>3, <1>4, <1>5, <1>6, <1>7, <1>8, <1>9
    DEF Next, Crash, FilterCommand, DownloadCommand, LoadFails, At

(* And what breaks files. *)
LEMMA CausesKept ==
  ASSUME TypeOK, BrokenNeedsCause, [Next]_vars
  PROVE  BrokenNeedsCause'
  <1> SUFFICES ASSUME NEW n \in Names, files'[n] # Absent,
                      files'[n] \notin {Whole(i) : i \in Image},
                      n \notin damaged'
               PROVE  \E u \in Sessions : Writes(u, n)'
    BY DEF BrokenNeedsCause, IsWhole
  <1>1. files'[n] = files[n] /\ (n \in damaged' <=> n \in damaged) =>
          \E u \in Sessions : Writes(u, n)
    BY DEF BrokenNeedsCause, IsWhole
  <1>2. CASE EndProcess
    BY <1>1, <1>2 DEF EndProcess
  <1>3. ASSUME NEW s \in Sessions, NEW m \in Names, NEW i \in Image, Open(s, m, i),
               pc[s] \notin {"saving", "writing"}, Goto(s, "saving") \/ Goto(s, "writing"),
               damaged' = damaged
        PROVE  \E u \in Sessions : Writes(u, n)'
    <2>1. Writes(s, m)'
      BY <1>3, OpenFacts DEF Writes, Goto, TypeOK
    <2>2. \A u \in Sessions : Writes(u, n) => Writes(u, n)'
      BY <1>3, OpenFacts DEF Writes, Goto, TypeOK
    <2> QED
      BY <1>1, <1>3, <2>1, <2>2, OpenFacts
  <1>4. ASSUME NEW s \in Sessions, NEW i \in Image, Close(s, i),
               NEW to \in {"saved", "idle", "filtering"}, Goto(s, to), file' = file
        PROVE  \E u \in Sessions : Writes(u, n)'
    <2>1. n # file[s]
      BY <1>4, CloseFacts
    <2>2. \A u \in Sessions : Writes(u, n) => Writes(u, n)'
      BY <1>4, <2>1 DEF Writes, Goto, TypeOK
    <2> QED
      BY <1>1, <1>4, <2>1, <2>2, CloseFacts
  <1>5. ASSUME NEW s \in Sessions, Load(s) \/ Measure(s) \/ ReadFile(s)
        PROVE  \E u \in Sessions : Writes(u, n)'
    <2>1. \A u \in Sessions : Writes(u, n) => Writes(u, n)'
      BY <1>5 DEF Load, Measure, ReadFile, Writes, At, Goto, TypeOK
    <2> QED
      BY <1>1, <1>5, <2>1 DEF Load, Measure, ReadFile
  <1>6. ASSUME NEW s \in Sessions, OpenImage(s) \/ OpenResult(s)
        PROVE  \E u \in Sessions : Writes(u, n)'
    <2>1. CASE OpenImage(s)
      <3>1. sent + 1 \in Image
        BY <2>1, DirectoryAssumption DEF OpenImage, TypeOK, Image
      <3> QED
        BY <1>3, <2>1, <3>1, ResultsAreNames DEF OpenImage, At
    <2>2. CASE OpenResult(s)
      <3>1. Results[step[s] + 1] \in Names /\ image[s] \in Image
        BY <2>2, ResultsAreNames DEF OpenResult, At, TypeOK
      <3> QED
        BY <1>3, <2>2, <3>1 DEF OpenResult, At
    <2> QED
      BY <1>6, <2>1, <2>2
  <1>7. ASSUME NEW s \in Sessions, CloseImage(s) \/ CloseResult(s)
        PROVE  \E u \in Sessions : Writes(u, n)'
    BY <1>4, <1>7 DEF CloseImage, CloseResult, TypeOK
  <1>8. CASE UNCHANGED vars
    BY <1>1, <1>8 DEF vars, sessionVars, Writes
  <1> QED
    BY <1>2, <1>5, <1>6, <1>7, <1>8 DEF Next, Crash, FilterCommand, DownloadCommand, LoadFails

-------------------------------------------------------------------------------
(* What a session can rely on that no other has met. *)

(* Where a session is, and what it has of its own. *)
Same(s) == /\ pc'[s] = pc[s] /\ file'[s] = file[s] /\ own'[s] = own[s]
           /\ image'[s] = image[s] /\ step'[s] = step[s] /\ copy'[s] = copy[s]

(* A step of u opens or closes no file, or n alone. *)
TouchesNothing(u) ==
  /\ files' = files /\ \A m : ~Writes(u, m)'
  /\ \A s \in Sessions \ {u} : met'[s] = met[s] /\ clash'[s] = clash[s]

TouchesOnly(u, n) ==
  /\ \A m \in Names \ {n} : files'[m] = files[m] /\ (Writes(u, m)' => Writes(u, m))
  /\ \A s \in Sessions \ {u} : /\ met'[s] = (met[s] \/ n \in Concerns(s))
                               /\ clash'[s] => clash[s] \/ Writes(s, n)

(* A session moves by its own steps, and opens or closes a file with the
   notice of all others, or none. *)
LEMMA StepFrame ==
  ASSUME TypeOK, NEW u \in Sessions, FilterCommand(u) \/ DownloadCommand(u), ~EndProcess
  PROVE  /\ \A s \in Sessions \ {u} : Same(s)
         /\ TouchesNothing(u) \/ \E n \in Names : TouchesOnly(u, n)
  <1> DEFINE Alone(n) == (\A s \in Sessions \ {u} : Same(s)) /\ TouchesOnly(u, n)
  <1>1. ASSUME OpenImage(u)
        PROVE  \E n \in Names : Alone(n)
    <2>1. PICK n \in UploadNames : Open(u, n, sent + 1) /\ NoticedFrom(u, n)
      BY <1>1 DEF OpenImage
    <2>2. sent + 1 \in Image /\ n \in Names
      BY <1>1, DirectoryAssumption, ResultsAreNames DEF OpenImage, TypeOK, Image
    <2>3. Alone(n)
      BY <1>1, <2>1, <2>2, OpenFacts, NoticedFacts DEF OpenImage, Goto, TypeOK, Same, Writes, TouchesOnly
    <2> QED
      BY <2>2, <2>3
  <1>2. ASSUME OpenResult(u)
        PROVE  \E n \in Names : Alone(n)
    <2> DEFINE n == Results[step[u] + 1]
    <2>1. n \in Names /\ image[u] \in Image
      BY <1>2, ResultsAreNames DEF OpenResult, At, TypeOK
    <2>2. Open(u, n, image[u]) /\ Noticed(u, n)
      BY <1>2 DEF OpenResult
    <2> HIDE DEF n
    <2>3. Alone(n)
      BY <1>2, <2>1, <2>2, OpenFacts, NoticedFacts DEF OpenResult, Goto, TypeOK, Same, Writes, TouchesOnly
    <2> QED
      BY <2>1, <2>3
  <1>3. ASSUME CloseImage(u) \/ CloseResult(u)
        PROVE  \E n \in Names : Alone(n)
    <2>1. file[u] \in Names /\ own[u] \in Image /\ image[u] \in Image
      BY DEF TypeOK
    <2>2. \A m \in Names \ {file[u]} : files'[m] = files[m]
      BY <1>3, <2>1, CloseFacts DEF CloseImage, CloseResult
    <2>3. /\ Noticed(u, file[u]) /\ file' = file /\ own' = own /\ image' = image /\ step' = step
          /\ copy' = copy /\ clash' = clash
          /\ pc' \in {[pc EXCEPT ![u] = to] : to \in {"saved", "idle", "filtering"}}
      BY <1>3 DEF CloseImage, CloseResult, Goto
    <2>4. Alone(file[u])
      BY <2>1, <2>2, <2>3, NoticedFacts DEF TypeOK, Same, Writes, TouchesOnly
    <2> QED
      BY <2>1, <2>4
  <1>4. ASSUME Load(u) \/ Measure(u) \/ ReadFile(u)
        PROVE  (\A s \in Sessions \ {u} : Same(s)) /\ TouchesNothing(u)
    <2>1. CASE Load(u)
      BY <2>1 DEF Load, Goto, TypeOK, Same, Writes, TouchesNothing
    <2>2. CASE Measure(u)
      BY <2>2 DEF Measure, Goto, TypeOK, Same, Writes, TouchesNothing
    <2>3. CASE ReadFile(u)
      <3>1. copy' \in {[copy EXCEPT ![u] = c] : c \in ReadAs(copy[u], files[file[u]])}
        BY <2>3 DEF ReadFile
      <3>2. \A s \in Sessions \ {u} : copy'[s] = copy[s]
        BY <3>1 DEF TypeOK
      <3> QED
        BY <2>3, <3>2 DEF ReadFile, Goto, TypeOK, Same, Writes, TouchesNothing
    <2> QED
      BY <1>4, <2>1, <2>2, <2>3
  <1> QED
    BY <1>1, <1>2, <1>3, <1>4 DEF FilterCommand, DownloadCommand, LoadFails

(* What a session writes is among what its command is about. *)
LEMMA WritesItsOwn ==
  ASSUME TypeOK, NEW s \in Sessions, NEW n, Writes(s, n)
  PROVE  n \in Concerns(s)
  <1>1. CASE pc[s] = "saving"
    BY <1>1 DEF Writes, Concerns
  <1>2. CASE pc[s] = "writing"
    <2>1. step[s] \in 1 .. Len(Results) /\ n = Results[step[s]]
      BY <1>2, ResultsAreNames DEF TypeOK, Writes
    <2> QED
      BY <1>2, <2>1, ResultsAreNames DEF Concerns
  <1> QED
    BY <1>1, <1>2 DEF Writes

(* Others leave what an undisturbed session relies on. *)
LEMMA UndisturbedByOthers ==
  ASSUME Inductive, NEW s \in Sessions, NEW u \in Sessions \ {s},
         FilterCommand(u) \/ DownloadCommand(u), ~EndProcess,
         ~met'[s]
  PROVE  Undisturbed(s)'
  <1>1. TypeOK /\ Same(s) /\ \A v \in Sessions \ {u} : Same(v)
    BY StepFrame DEF Inductive
  <1>2. /\ ~met[s]
        /\ \A n \in Concerns(s) \intersect Names : files'[n] = files[n] /\ (Writes(u, n)' => Writes(u, n))
        /\ clash'[s] => clash[s]
    <2>1. CASE TouchesNothing(u)
      BY <2>1 DEF TouchesNothing
    <2>2. ASSUME NEW n \in Names, TouchesOnly(u, n)
          PROVE  <1>2!:
      BY <1>1, <2>2, WritesItsOwn DEF TouchesOnly
    <2> QED
      BY <1>1, <2>1, <2>2, StepFrame
  <1>3. Undisturbed(s)
    BY <1>2 DEF Inductive
  <1>4. Concerns(s)' = Concerns(s) /\ Concerns(s) \subseteq Names
    BY <1>1, ResultsAreNames DEF Concerns, Same, TypeOK
  <1>5. ASSUME NEW n \in Concerns(s)
        PROVE  ~WrittenByOther(s, n)'
    <2>1. \A v \in Sessions \ {s} : ~Writes(v, n)
      BY <1>3 DEF Undisturbed, WrittenByOther
    <2> QED
      BY <1>1, <1>2, <1>4, <1>5, <2>1 DEF WrittenByOther, Writes, Same
  <1>6. pc[s] \in {"saved", "reading"} => file[s] \in Concerns(s)
    BY DEF Concerns
  <1>7. pc[s] \in {"filtering", "writing"} =>
          \A i \in 1 .. step[s] : Results[i] \in Concerns(s)
    BY <1>1, ResultsAreNames DEF Concerns, TypeOK
  <1>8. \A n : Writes(s, n)' <=> Writes(s, n)
    BY <1>1 DEF Same, Writes, TouchesNothing
  <1> QED
    BY <1>1, <1>2, <1>3, <1>4, <1>5, <1>6, <1>7, <1>8 DEF Undisturbed, Same

(* Its own steps begin undisturbed when nobody has what they need, and stay so. *)
LEMMA UndisturbedByItself ==
  ASSUME Inductive, NEW s \in Sessions, FilterCommand(s) \/ DownloadCommand(s), ~EndProcess,
         ~met'[s]
  PROVE  Undisturbed(s)'
  <1>1. TypeOK /\ (~met[s] => Undisturbed(s)) /\ \A v \in Sessions \ {s} : Same(v)
    BY StepFrame DEF Inductive
  <1>2. \A n : WrittenByOther(s, n)' <=> WrittenByOther(s, n)
    BY <1>1 DEF WrittenByOther, Writes, Same
  <1>3. CASE OpenImage(s)
    <2>1. PICK n \in UploadNames : Open(s, n, sent + 1) /\ NoticedFrom(s, n)
      BY <1>3 DEF OpenImage
    <2>2. sent + 1 \in Image /\ n \in Names
      BY <1>1, <1>3, DirectoryAssumption, ResultsAreNames DEF OpenImage, TypeOK, Image
    <2>3. file'[s] = n /\ ~WrittenByOther(s, n) /\ ~clash'[s] /\ pc'[s] = "saving"
      BY <1>1, <1>3, <2>1, <2>2, OpenFacts, NoticedFacts DEF OpenImage, Goto, TypeOK
    <2> QED
      BY <1>2, <2>3 DEF Undisturbed, Concerns
  <1>4. CASE CloseImage(s)
    <2>1. Undisturbed(s) /\ own[s] \in Image /\ file[s] \in Names /\ pc[s] = "saving"
      BY <1>1, <1>4, NoticedFacts DEF CloseImage, At, TypeOK
    <2>2. ~clash[s] /\ ~WrittenByOther(s, file[s])
      BY <2>1 DEF Undisturbed, Concerns
    <2>3. files'[file[s]] = Whole(own[s])
      BY <1>1, <1>4, <2>1, <2>2, CloseFacts DEF CloseImage
    <2>4. pc'[s] = "saved" /\ file' = file /\ own' = own
      BY <1>1, <1>4 DEF CloseImage, Goto, TypeOK
    <2> QED
      BY <1>2, <2>2, <2>3, <2>4 DEF Undisturbed, Concerns
  <1>5. CASE Load(s)
    <2>1. /\ pc'[s] = "filtering" /\ step'[s] = 0
          /\ ~\E n \in ResultNames : WrittenByOther(s, n)
      BY <1>1, <1>5 DEF Load, Goto, TypeOK
    <2> QED
      BY <1>2, <2>1 DEF Undisturbed, Concerns
  <1>6. CASE OpenResult(s)
    <2> DEFINE n == Results[step[s] + 1]
    <2>1. n \in Names /\ n \in ResultNames /\ image[s] \in Image
      BY <1>1, <1>6, ResultsAreNames DEF OpenResult, At, TypeOK
    <2>2. Open(s, n, image[s]) /\ Noticed(s, n) /\ pc[s] = "filtering"
      BY <1>6 DEF OpenResult, At
    <2>3. /\ pc'[s] = "writing" /\ step'[s] = step[s] + 1 /\ image' = image
          /\ Results[step'[s]] = n /\ step[s] \in 0 .. Len(Results) - 1
      BY <1>1, <1>6, ResultsAreNames DEF OpenResult, At, Goto, TypeOK
    <2> HIDE DEF n
    <2>4. ~met[s] /\ Undisturbed(s)
      BY <1>1, <2>2, NoticedFacts
    <2>5. \A m \in ResultNames : ~WrittenByOther(s, m)
      BY <2>2, <2>4 DEF Undisturbed, Concerns
    <2>6. ~clash'[s] /\ file'[s] = n /\ \A m \in Names \ {n} : files'[m] = files[m]
      BY <1>1, <2>1, <2>2, <2>5, OpenFacts
    <2>7. \A i \in 1 .. step[s] : files[Results[i]] = Whole(image[s]) /\ Results[i] \in Names
      BY <1>1, <2>2, <2>4, ResultsAreNames DEF Undisturbed, Writes, TypeOK
    <2>8. \A i \in 1 .. step'[s] : files'[Results[i]] = Whole(image'[s]) \/ Writes(s, Results[i])'
      <3> SUFFICES ASSUME NEW i \in 1 .. step'[s], Results[i] # n
                   PROVE  files'[Results[i]] = Whole(image'[s])
        BY <2>3, <2>6 DEF Writes
      <3> QED
        BY <2>3, <2>6, <2>7
    <2> QED
      BY <1>2, <2>3, <2>5, <2>6, <2>8 DEF Undisturbed, Concerns
  <1>7. CASE CloseResult(s)
    <2>1. Undisturbed(s) /\ image[s] \in Image /\ file[s] \in Names /\ pc[s] = "writing"
      BY <1>1, <1>7, NoticedFacts DEF CloseResult, At, TypeOK
    <2>2. ~clash[s] /\ \A n \in ResultNames : ~WrittenByOther(s, n)
      BY <2>1 DEF Undisturbed, Concerns
    <2>3. files'[file[s]] = Whole(image[s]) /\ \A m \in Names \ {file[s]} : files'[m] = files[m]
      BY <1>1, <1>7, <2>1, <2>2, CloseFacts DEF CloseResult
    <2>4. /\ pc'[s] \in {"idle", "filtering"}
          /\ file' = file /\ image' = image /\ step' = step
      BY <1>1, <1>7 DEF CloseResult, Goto, TypeOK
    <2>5. \A i \in 1 .. step[s] : files'[Results[i]] = Whole(image[s])
      BY <1>1, <2>1, <2>3, ResultsAreNames DEF Undisturbed, Writes, TypeOK
    <2> QED
      BY <1>2, <2>2, <2>4, <2>5 DEF Undisturbed, Concerns
  <1>8. CASE Measure(s)
    <2>1. PICK n \in ResultNames : /\ files[n] # Absent
                                   /\ file' = [file EXCEPT ![s] = n]
                                   /\ copy' = [copy EXCEPT ![s] = files[n]]
                                   /\ met' = [met EXCEPT ![s] = WrittenByOther(s, n)]
      BY <1>8 DEF Measure
    <2>2. /\ pc'[s] = "reading" /\ file'[s] = n /\ copy'[s] = files[n] /\ files' = files
          /\ ~WrittenByOther(s, n)
      BY <1>1, <1>8, <2>1 DEF Measure, Goto, TypeOK
    <2> QED
      BY <1>2, <2>1, <2>2 DEF Undisturbed, Concerns
  <1>9. CASE ReadFile(s)
    <2>1. pc'[s] = "idle"
      BY <1>1, <1>9 DEF ReadFile, Goto, TypeOK
    <2> QED
      BY <2>1 DEF Undisturbed, Concerns
  <1> QED
    BY <1>3, <1>4, <1>5, <1>6, <1>7, <1>8, <1>9 DEF FilterCommand, DownloadCommand, LoadFails

-------------------------------------------------------------------------------
(* The theorems. *)

(* Inductive, of which the types, the causes of broken files and what a      *)
(* session no other has met can rely on are parts, holds however sessions,   *)
(* failures and new processes follow each other.                             *)
THEOREM InductiveHolds == Spec => []Inductive
  <1>1. Init => Inductive
    <2> SUFFICES ASSUME Init
                 PROVE  Inductive
      OBVIOUS
    <2>1. Results[1] \in Names /\ Len(Results) \in Nat \ {0}
      BY ResultsAreNames
    <2>2. 0 \in Image /\ Absent \in Contents
      BY ContentsClosed
    <2>3. TypeOK
      BY <2>1, <2>2, DirectoryAssumption DEF Init, TypeOK
    <2>4. BrokenNeedsCause
      BY DEF Init, BrokenNeedsCause
    <2>5. \A s \in Sessions : Undisturbed(s)
      BY DEF Init, Undisturbed, Concerns
    <2> QED
      BY <2>3, <2>4, <2>5 DEF Inductive
  <1>2. Inductive /\ [Next]_vars => Inductive'
    <2> SUFFICES ASSUME Inductive, [Next]_vars
                 PROVE  Inductive'
      OBVIOUS
    <2>1. TypeOK' /\ BrokenNeedsCause'
      BY TypeKept, CausesKept DEF Inductive
    <2>2. ASSUME NEW s \in Sessions, ~met'[s]
          PROVE  Undisturbed(s)'
      <3>1. CASE EndProcess
        BY <3>1 DEF EndProcess, Undisturbed, Concerns
      <3>2. ASSUME NEW u \in Sessions, FilterCommand(u) \/ DownloadCommand(u), ~EndProcess
            PROVE  Undisturbed(s)'
        BY <2>2, <3>2, UndisturbedByItself, UndisturbedByOthers
      <3>3. CASE UNCHANGED vars
        BY <2>2, <3>3 DEF Inductive, Undisturbed, Concerns, WrittenByOther, Writes, vars, sessionVars
      <3> QED
        BY <3>1, <3>2, <3>3 DEF Next, Crash
    <2> QED
      BY <2>1, <2>2 DEF Inductive
  <1> QED
    BY <1>1, <1>2, PTL DEF Spec

(* Every variable has its type. *)
THEOREM TypeCorrect == Spec => []TypeOK
  <1>1. Inductive => TypeOK
    BY DEF Inductive
  <1> QED
    BY <1>1, InductiveHolds, PTL

(* No file is cut or mixed without a cause. *)
THEOREM BrokenOnlyWithCause == Spec => []BrokenNeedsCause
  <1>1. Inductive => BrokenNeedsCause
    BY DEF Inductive
  <1> QED
    BY <1>1, InductiveHolds, PTL

(* A filter whose file nobody else has written loads its own client's image. *)
THEOREM FiltersLoadTheirOwn == Spec => []OwnImageUnlessMet
  <1>1. Inductive => OwnImageUnlessMet
    BY DEF Inductive, Undisturbed, OwnImageUnlessMet
  <1> QED
    BY <1>1, InductiveHolds, PTL

(* A filter that met no other leaves all the results whole and its own. *)
THEOREM FiltersRepair == Spec => FilterRepairs
  <1> DEFINE Repairs == \A s \in Sessions :
               pc[s] = "writing" /\ pc'[s] = "idle" /\ run' = run /\ ~met[s] =>
                 \A n \in ResultNames : files'[n] = Whole(image[s])
  <1>1. Inductive /\ [Next]_vars => [Repairs]_vars
    <2> SUFFICES ASSUME Inductive, Next, NEW s \in Sessions,
                        pc[s] = "writing", pc'[s] = "idle", run' = run, ~met[s],
                        NEW n \in ResultNames
                 PROVE  files'[n] = Whole(image[s])
      OBVIOUS
    <2>1. TypeOK /\ Undisturbed(s)
      BY DEF Inductive
    <2>2. CloseResult(s)
      <3>1. ~EndProcess
        BY <2>1 DEF EndProcess, TypeOK
      <3>2. \A u \in Sessions \ {s} : ~(FilterCommand(u) \/ DownloadCommand(u))
        BY <2>1, <3>1, StepFrame DEF Same
      <3> QED
        BY <3>1, <3>2 DEF Next, Crash, FilterCommand, DownloadCommand, OpenImage, CloseImage, Load,
           LoadFails, OpenResult, Measure, ReadFile, At
    <2>3. step[s] = Len(Results)
      BY <2>1, <2>2 DEF CloseResult, Goto, TypeOK
    <2>4. PICK i \in 1 .. step[s] : n = Results[i]
      BY <2>3, ResultsAreNames
    <2>5. files[n] = Whole(image[s]) \/ n = file[s]
      BY <2>1, <2>4 DEF Undisturbed, Writes
    <2>6. ~clash[s] /\ image[s] \in Image /\ n \in Names
      BY <2>1, ResultsAreNames DEF Undisturbed, TypeOK
    <2> QED
      BY <2>1, <2>2, <2>5, <2>6, CloseFacts DEF CloseResult
  <1> QED
    BY <1>1, InductiveHolds, PTL DEF Spec, FilterRepairs

(* A download that met no filter, of a file that is not damaged, is whole. *)
THEOREM DownloadsAreWhole == Spec => DownloadsWhole
  <1> DEFINE Downloads == \A s \in Sessions :
               pc[s] = "reading" /\ pc'[s] = "idle" /\ run' = run =>
                 met[s] \/ file[s] \in damaged \/ copy'[s] \in {Whole(i) : i \in Image}
  <1>1. Inductive /\ [Next]_vars => [Downloads]_vars
    <2> SUFFICES ASSUME Inductive, Next, NEW s \in Sessions,
                        pc[s] = "reading", pc'[s] = "idle", run' = run, ~met[s],
                        file[s] \notin damaged
                 PROVE  copy'[s] \in {Whole(i) : i \in Image}
      OBVIOUS
    <2>1. TypeOK /\ Undisturbed(s) /\ BrokenNeedsCause
      BY DEF Inductive
    <2>2. ReadFile(s)
      <3>1. ~EndProcess
        BY <2>1 DEF EndProcess, TypeOK
      <3>2. \A u \in Sessions \ {s} : ~(FilterCommand(u) \/ DownloadCommand(u))
        BY <2>1, <3>1, StepFrame DEF Same
      <3> QED
        BY <3>1, <3>2 DEF Next, Crash, FilterCommand, DownloadCommand, OpenImage, CloseImage, Load,
           LoadFails, OpenResult, CloseResult, Measure, At
    <2>3. copy[s] = files[file[s]] /\ copy[s] # Absent /\ ~WrittenByOther(s, file[s])
      BY <2>1 DEF Undisturbed, Concerns
    <2>4. IsWhole(file[s])
      BY <2>1, <2>3 DEF BrokenNeedsCause, TypeOK, Writes, WrittenByOther
    <2>5. PICK c \in ReadAs(copy[s], files[file[s]]) : copy' = [copy EXCEPT ![s] = c]
      BY <2>2 DEF ReadFile
    <2>6. copy'[s] = files[file[s]]
      BY <2>1, <2>3, <2>5, ReadUnchanged DEF TypeOK
    <2> QED
      BY <2>4, <2>6 DEF IsWhole
  <1> QED
    BY <1>1, InductiveHolds, PTL DEF Spec, DownloadsWhole
===============================================================================
