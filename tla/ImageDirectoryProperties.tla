----------------------- MODULE ImageDirectoryProperties -----------------------
(***************************************************************************)
(* What sessions that share a directory without a lock can still rely on.  *)
(***************************************************************************)
EXTENDS ImageDirectory

(* Every variable has its type; a filter is at one of its results.          *)
TypeOK ==
  /\ run \in 1 .. MaxRuns + 1 /\ sent \in 0 .. MaxUploads
  /\ files \in [Names -> Contents]
  /\ pc \in [Sessions -> {"idle", "saving", "saved", "filtering", "writing", "reading"}]
  /\ step \in [Sessions -> 0 .. Len(Results)]
  /\ \A s \in Sessions :
       /\ pc[s] = "filtering" => step[s] < Len(Results)
       /\ pc[s] = "writing" => step[s] > 0 /\ file[s] = Results[step[s]]
  /\ file \in [Sessions -> Names]
  /\ own \in [Sessions -> Image] /\ image \in [Sessions -> Image]
  /\ copy \in [Sessions -> Contents]
  /\ clash \in [Sessions -> BOOLEAN] /\ met \in [Sessions -> BOOLEAN]
  /\ damaged \subseteq Names

(* A file is cut or mixed only while a session writes it, or after two had *)
(* it open at once or the process ended over it; the next to write it      *)
(* alone mends it.                                                         *)
BrokenNeedsCause ==
  \A n \in Names : files[n] # Absent /\ ~IsWhole(n) =>
    n \in damaged \/ \E s \in Sessions : Writes(s, n)

(* A session no other has met: nobody else writes what it is about, what it *)
(* has measured is still there, and the results it has closed are its own.   *)
Undisturbed(s) ==
  /\ \A n \in Concerns(s) : ~WrittenByOther(s, n)
  /\ pc[s] \in {"saving", "writing"} => ~clash[s]
  /\ pc[s] = "saved" => files[file[s]] = Whole(own[s])
  /\ pc[s] = "reading" => copy[s] = files[file[s]] /\ copy[s] # Absent
  /\ pc[s] \in {"filtering", "writing"} =>
       \A i \in 1 .. step[s] : files[Results[i]] = Whole(image[s]) \/ Writes(s, Results[i])

(* What every step keeps, and the properties below rest on: the types, the  *)
(* causes of broken files, and what met stands for.                         *)
Inductive ==
  /\ TypeOK
  /\ BrokenNeedsCause
  /\ \A s \in Sessions : ~met[s] => Undisturbed(s)

(* A filter loads the image its own client has sent, and the server does   *)
(* not end over it, unless another session has written the same file since *)
(* it was saved: an image of the same name, or the result of a filter when *)
(* a client has given its image the name of one.                           *)
OwnImageUnlessMet ==
  \A s \in Sessions : pc[s] = "saved" /\ ~met[s] => files[file[s]] = Whole(own[s])

(* The results belong together: a filter that no other session has written *)
(* results in leaves all of them whole and of one image, its own, whatever *)
(* other filters and processes that were killed have left before.          *)
FilterRepairs ==
  [][\A s \in Sessions : pc[s] = "writing" /\ pc'[s] = "idle" /\ run' = run /\ ~met[s] =>
       \A n \in ResultNames : files'[n] = Whole(image[s])]_vars

(* A client gets a result as some filter has made it, unless one writes it *)
(* between the first look at it and the last, or has been damaged before.  *)
DownloadsWhole ==
  [][\A s \in Sessions : pc[s] = "reading" /\ pc'[s] = "idle" /\ run' = run =>
       met[s] \/ file[s] \in damaged \/ copy'[s] \in {Whole(i) : i \in Image}]_vars
===============================================================================
