----------------------------- MODULE ImageDirectory -----------------------------
(***************************************************************************)
(* The directory img_svr/, where all sessions of the server save the       *)
(* images they receive and all filters the results, under fixed names.     *)
(*                                                                         *)
(* A file is opened for writing, which empties it, written and closed,     *)
(* without a lock; it outlives the process.  Here a file is cut from its   *)
(* opening to its closing, and may be a mix when two sessions have it open *)
(* at once, as each writes on from where it was.  Compressed copies, which *)
(* nobody reads, are left out.                                             *)
(***************************************************************************)
EXTENDS Naturals, Sequences

CONSTANTS
  Sessions,
  Results,      (* the names of the filter's results, in their order        *)
  UploadNames,  (* names clients give to their images                       *)
  MaxUploads,   (* bound: images sent                                       *)
  MaxRuns       (* bound: processes one after the other                     *)

ASSUME DirectoryAssumption ==
  /\ Results \in Seq(STRING) /\ Results # <<>>
  /\ UploadNames \subseteq STRING
  /\ MaxUploads \in Nat /\ MaxRuns \in Nat \ {0}

ResultNames == {Results[i] : i \in DOMAIN Results}
Names == ResultNames \union UploadNames

VARIABLES
  run,      (* the process that runs; beyond MaxRuns, none                  *)
  sent,     (* images received so far, which numbers them                   *)
  files,
  pc,       (* where each session is in a command, or "idle"                *)
  file,     (* the file it uses                                             *)
  own,      (* the image it has received                                    *)
  image,    (* the image its filter works on                                *)
  step,     (* results its filter has begun                                 *)
  copy,     (* what it has measured of a file to send, then what it sends   *)
  clash,    (* another session has had its file open meanwhile              *)
  met,      (* history: another has had open a file its command is about    *)
  damaged   (* history: files that clashes and ends of the process have hit *)

sessionVars == <<pc, file, own, image, step, copy>>
vars == <<run, sent, files, sessionVars, clash, met, damaged>>

(* Image 0 is what a filter makes of a file that is not whole.              *)
Image == 0 .. MaxUploads
Absent == <<"absent", 0>>
Whole(i) == <<"whole", i>>
Cut(i) == <<"cut", i>>
Mixed == <<"mixed", 0>>
Contents == {Absent, Mixed} \union {Whole(i) : i \in Image} \union {Cut(i) : i \in Image}

Alive == run <= MaxRuns

-------------------------------------------------------------------------------
(***************************************************************************)
(* Files.                                                                  *)
(***************************************************************************)
Writes(s, n) == pc[s] \in {"saving", "writing"} /\ file[s] = n
WrittenByOther(s, n) == \E u \in Sessions \ {s} : Writes(u, n)

(* The files a session's command is about, from here to the next phase of it. *)
Concerns(s) ==
  CASE pc[s] \in {"saving", "saved", "reading"} -> {file[s]}
    [] pc[s] \in {"filtering", "writing"} -> ResultNames
    [] OTHER -> {}

(* What the opening or closing of n by s is to the others. *)
Noticed(s, n) == met' = [u \in Sessions |-> met[u] \/ (u # s /\ n \in Concerns(u))]
NoticedFrom(s, n) ==   \* and s begins with what it meets
  met' = [u \in Sessions |-> IF u = s THEN WrittenByOther(s, n) ELSE met[u] \/ n \in Concerns(u)]

Open(s, n, i) ==
  /\ files' = [files EXCEPT ![n] = Cut(i)]
  /\ file' = [file EXCEPT ![s] = n]
  /\ clash' = [u \in Sessions |-> IF u = s THEN WrittenByOther(s, n)
                                  ELSE clash[u] \/ Writes(u, n)]

CloseMutant(s, i) ==   \* closed before the last of it is written
  /\ UNCHANGED files
  /\ damaged' = IF clash[s] THEN damaged \union {file[s]} ELSE damaged \ {file[s]}

Close(s, i) ==
  /\ \E c \in {Whole(i)} \union (IF clash[s] THEN {Mixed} ELSE {}) :
       files' = [files EXCEPT ![file[s]] = c]
  /\ damaged' = IF clash[s] THEN damaged \union {file[s]} ELSE damaged \ {file[s]}

Goto(s, to) == pc' = [pc EXCEPT ![s] = to]
At(s, from) == Alive /\ pc[s] = from

-------------------------------------------------------------------------------
(***************************************************************************)
(* Command 3: receive an image, save it, load it and save the results.     *)
(***************************************************************************)
OpenImage(s) ==
  /\ At(s, "idle") /\ sent < MaxUploads
  /\ sent' = sent + 1
  /\ own' = [own EXCEPT ![s] = sent + 1]
  /\ \E n \in UploadNames :
       /\ Open(s, n, sent + 1)
       /\ NoticedFrom(s, n)
  /\ Goto(s, "saving")
  /\ UNCHANGED <<run, image, step, copy, damaged>>

CloseImage(s) ==
  /\ At(s, "saving")
  /\ Close(s, own[s])
  /\ Noticed(s, file[s])
  /\ Goto(s, "saved")
  /\ UNCHANGED <<run, sent, file, own, image, step, copy, clash>>

(* imread() of whatever the file is by now. *)
IsWhole(n) == files[n] \in {Whole(i) : i \in Image}

Load(s) ==
  /\ At(s, "saved")
  /\ image' = [image EXCEPT ![s] = IF IsWhole(file[s]) THEN files[file[s]][2] ELSE 0]
  /\ step' = [step EXCEPT ![s] = 0]
  /\ met' = [met EXCEPT ![s] = \E n \in ResultNames : WrittenByOther(s, n)]
  /\ Goto(s, "filtering")
  /\ UNCHANGED <<run, sent, files, file, own, copy, clash, damaged>>

(* The process ends, whatever is being written. *)
EndProcess ==
  /\ run' = run + 1
  /\ damaged' = damaged \union {n \in Names : \E u \in Sessions : Writes(u, n)}
  /\ pc' = [u \in Sessions |-> "idle"]
  /\ clash' = [u \in Sessions |-> FALSE]
  /\ met' = [u \in Sessions |-> FALSE]
  /\ UNCHANGED <<sent, files, file, own, image, step, copy>>

(* Or there is no image in it: cannyEdgeDetection() throws, and end_conn(). *)
LoadFails(s) ==
  /\ At(s, "saved") /\ ~IsWhole(file[s])
  /\ EndProcess

OpenResult(s) ==
  /\ At(s, "filtering")
  /\ step' = [step EXCEPT ![s] = @ + 1]
  /\ Open(s, Results[step[s] + 1], image[s])
  /\ Noticed(s, Results[step[s] + 1])
  /\ Goto(s, "writing")
  /\ UNCHANGED <<run, sent, own, image, copy, damaged>>

CloseResultMutant(s) ==   \* one result short
  /\ At(s, "writing")
  /\ Close(s, image[s])
  /\ Noticed(s, file[s])
  /\ Goto(s, IF step[s] + 1 >= Len(Results) THEN "idle" ELSE "filtering")
  /\ UNCHANGED <<run, sent, file, own, image, step, copy, clash>>

CloseResultTooLateMutant(s) ==   \* one result too many
  /\ At(s, "writing")
  /\ Close(s, image[s])
  /\ Noticed(s, file[s])
  /\ Goto(s, IF step[s] > Len(Results) THEN "idle" ELSE "filtering")
  /\ UNCHANGED <<run, sent, file, own, image, step, copy, clash>>

CloseResult(s) ==
  /\ At(s, "writing")
  /\ Close(s, image[s])
  /\ Noticed(s, file[s])
  /\ Goto(s, IF step[s] = Len(Results) THEN "idle" ELSE "filtering")
  /\ UNCHANGED <<run, sent, file, own, image, step, copy, clash>>

-------------------------------------------------------------------------------
(***************************************************************************)
(* Command 4: a result is measured, then read and sent from memory.        *)
(***************************************************************************)
Measure(s) ==
  /\ At(s, "idle")
  /\ \E n \in ResultNames :
       /\ files[n] # Absent
       /\ file' = [file EXCEPT ![s] = n]
       /\ copy' = [copy EXCEPT ![s] = files[n]]
       /\ met' = [met EXCEPT ![s] = WrittenByOther(s, n)]
  /\ Goto(s, "reading")
  /\ UNCHANGED <<run, sent, files, own, image, step, clash, damaged>>

(* A file that has changed since it was measured is read as far as it was   *)
(* long then, or is too short: the client gets an error.                    *)
ReadAs(measured, now) ==
  IF now = measured THEN {now} ELSE {now, Cut(now[2]), Mixed, Absent}

ReadFile(s) ==
  /\ At(s, "reading")
  /\ copy' \in {[copy EXCEPT ![s] = c] : c \in ReadAs(copy[s], files[file[s]])}
  /\ Goto(s, "idle")
  /\ UNCHANGED <<run, sent, files, file, own, image, step, clash, met, damaged>>

(* A kill, or another session's end_conn(). *)
Crash == Alive /\ EndProcess

-------------------------------------------------------------------------------
Init ==
  /\ run = 1 /\ sent = 0
  /\ files = [n \in Names |-> Absent]
  /\ pc = [s \in Sessions |-> "idle"]
  /\ file \in [Sessions -> {Results[1]}]
  /\ own = [s \in Sessions |-> 0]
  /\ image = [s \in Sessions |-> 0]
  /\ step = [s \in Sessions |-> 0]
  /\ copy = [s \in Sessions |-> Absent]
  /\ clash = [s \in Sessions |-> FALSE]
  /\ met = [s \in Sessions |-> FALSE]
  /\ damaged = {}

FilterCommand(s) == \/ OpenImage(s) \/ CloseImage(s) \/ Load(s) \/ LoadFails(s)
                    \/ OpenResult(s) \/ CloseResult(s)

DownloadCommand(s) == Measure(s) \/ ReadFile(s)

Next == Crash \/ \E s \in Sessions : FilterCommand(s) \/ DownloadCommand(s)

Spec == Init /\ [][Next]_vars
===============================================================================
