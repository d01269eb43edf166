----------------------------- MODULE ClientSession -----------------------------
(***************************************************************************)
(* The TCP sessions of the refuge server: handle_client() on the server's  *)
(* side, the menu of the client on the other, and the two streams of bytes *)
(* between them.                                                           *)
(*                                                                         *)
(* A stream carries units: a message, which is one send() of JSON text or  *)
(* of an answer, the size word of a file, or a piece of its data.  TCP     *)
(* keeps their order but not their boundaries: receiveFrom() and read()    *)
(* return whatever has arrived, several units or one.  The code takes what *)
(* receiveFrom() returns for one message.                                  *)
(*                                                                         *)
(* The HTTP server is behind `http' and `permit', the two of its states    *)
(* that a session sees; RefugeServer has the rest.  The server process     *)
(* ends here only by what its sessions do.                                 *)
(***************************************************************************)
EXTENDS Naturals, Sequences

CONSTANTS
  Clients,
  Chunks,      (* the pieces a compressed file is received in, at the least *)
  BadFiles,    (* files that do not decompress, or are not images           *)
  MaxUploads   (* bound: images one client sends                            *)

Result == 0    \* the file a client gets; those it sends are numbered from 1
Files == Result .. MaxUploads

ASSUME SessionAssumption ==
  /\ Chunks \in Nat \ {0}
  /\ MaxUploads \in Nat
  /\ BadFiles \subseteq Files

VARIABLES
  status,      (* of the server process: "up", or how it ended              *)
  http,        (* "starting", then "serving"                                *)
  permit,      (* FALSE once the permit of /setsupplies is lost             *)
  results,     (* which result images the server's directory has            *)
  clientPc,    (* where each client is                                      *)
  mode,        (* "menu"; "asks" in the loop of option 1, "user" without it *)
  uploads,     (* counts towards MaxUploads                                 *)
  download,    (* the file a client receives, its size word first           *)
  serverPc,    (* where the thread of each session is                       *)
  inHand,      (* what that thread's receiveFrom() returned                 *)
  upload,      (* the file that thread receives, its size word first        *)
  toServer, toClient,
  ending,      (* history: how each client that is gone ended               *)
  cutShort,    (* history: a client went on after part of a file was sent   *)
  swallowed,   (* history: a message was read as the rest of a file         *)
  met          (* history: while a thread saves and filters an image,       *)
               (* another has done so                                       *)

processVars == <<status, http, permit, results>>
clientVars  == <<clientPc, mode, uploads, download>>
threadVars  == <<serverPc, inHand, upload>>
streams     == <<toServer, toClient>>
histories   == <<ending, cutShort, swallowed, met>>
vars == <<processVars, clientVars, threadVars, streams, histories>>

Up == status = "up"

-------------------------------------------------------------------------------
(***************************************************************************)
(* Units and files.                                                        *)
(***************************************************************************)
Supplies == {"get_supplies", "set_supplies"}
Commands == Supplies \union {"img_filtering", "get_img_filtered"}
Answers  == {"answer", "images", "image", "error"}
Messages == {<<m>> : m \in Commands \union Answers \union {"continue"}}

FileSizeMutant == Chunks + 1   \* the size before compression
FileSize == Chunks

FileData(f) == [i \in 1 .. Chunks |-> <<"data", f, i>>]
Units == Messages \union {<<"size", FileSize>>}
           \union {<<"data", f, i>> : f \in Files, i \in 1 .. Chunks}

(* What a loop of read()s has collected: all that its size word promised? *)
SizeOf(file) == file[1][2]
Complete(file) == Len(file) > SizeOf(file)

(* uncompress() checks a sum over the data, and stops at its end. *)
Intact(file, f) == SubSeq(file, 2, 1 + SizeOf(file)) = FileData(f)
Decompresses(file) == \E f \in Files : Intact(file, f)
Usable(file) == \E f \in Files \ BadFiles : Intact(file, f)

(* The first n units of a stream, which one call takes from it. *)
Arrived(stream, n) == SubSeq(stream, 1, n)
Rest(stream, n) == SubSeq(stream, n + 1, Len(stream))

-------------------------------------------------------------------------------
(***************************************************************************)
(* The client.                                                             *)
(***************************************************************************)
ClientAt(c, from) == clientPc[c] = from
ClientGoto(c, to) == clientPc' = [clientPc EXCEPT ![c] = to]

(* A client sends as long as the server is there to read. *)
ClientSends(c, units) == Up /\ toServer' = [toServer EXCEPT ![c] = @ \o units]

AtMenu(c) == ClientAt(c, "menu") /\ mode[c] = "menu"

(* The client's process ends, and its connection with it. *)
Ends(c, how) == ClientGoto(c, "gone") /\ ending' = [ending EXCEPT ![c] = how]

(* Option 1 leaves the menu for a loop that asks for the supplies, unless   *)
(* an option before was invalid; a user without rights is in it from the    *)
(* start.                                                                   *)
AskForSuppliesMutant(c) ==   \* the answer is left to the next turn
  /\ ClientAt(c, "menu")
  /\ ClientSends(c, <<<<"get_supplies">>>>)
  /\ UNCHANGED <<processVars, clientVars, threadVars, histories, toClient>>

AskForSupplies(c) ==
  /\ ClientAt(c, "menu")
  /\ ClientSends(c, <<<<"get_supplies">>>>)
  /\ ClientGoto(c, "answer")
  /\ \/ UNCHANGED mode
     \/ mode[c] = "menu" /\ mode' = [mode EXCEPT ![c] = "asks"]
  /\ UNCHANGED <<processVars, uploads, download, threadVars, histories, toClient>>

(* Option 2. *)
SetSupplies(c) ==
  /\ AtMenu(c)
  /\ ClientSends(c, <<<<"set_supplies">>>>)
  /\ ClientGoto(c, "answer")
  /\ UNCHANGED <<processVars, mode, uploads, download, threadVars, histories, toClient>>

(* A signal brings the menu back. *)
Interrupt(c) ==
  /\ mode[c] = "asks" /\ ~ClientAt(c, "gone")
  /\ mode' = [mode EXCEPT ![c] = "menu"]
  /\ UNCHANGED <<processVars, clientPc, uploads, download, threadVars, histories, streams>>

(* Input that is no number, or the end of it: std::cin fails from then on,  *)
(* and the question is asked for ever.                                      *)
InputFails(c) ==
  /\ AtMenu(c) \/ ClientAt(c, "choose")
  /\ ClientGoto(c, "spins")
  /\ UNCHANGED <<processVars, mode, uploads, download, threadVars, histories, streams>>

(* Whatever arrives is shown to the user. *)
ShowAnswer(c) ==
  /\ ClientAt(c, "answer")
  /\ \E n \in 1 .. Len(toClient[c]) :
       toClient' = [toClient EXCEPT ![c] = Rest(@, n)]
  /\ ClientGoto(c, "menu")
  /\ UNCHANGED <<processVars, mode, uploads, download, threadVars, histories, toServer>>

(* Option 3 sends a message, a size and a file, and reads nothing.          *)
SendImageCommand(c) ==
  /\ AtMenu(c) /\ uploads[c] < MaxUploads
  /\ ClientSends(c, <<<<"img_filtering">>>>)
  /\ uploads' = [uploads EXCEPT ![c] = @ + 1]
  /\ ClientGoto(c, "sendSize")
  /\ UNCHANGED <<processVars, mode, download, threadVars, histories, toClient>>

SendSizeMutant(c) ==   \* send_vector() without the size word
  /\ ClientAt(c, "sendSize")
  /\ ClientGoto(c, "sendData")
  /\ UNCHANGED <<processVars, mode, uploads, download, threadVars, histories, streams>>

SendSize(c) ==
  /\ ClientAt(c, "sendSize")
  /\ ClientSends(c, <<<<"size", FileSize>>>>)
  /\ ClientGoto(c, "sendData")
  /\ UNCHANGED <<processVars, mode, uploads, download, threadVars, histories, toClient>>

(* In the middle of its write() the client may be ended, or be interrupted   *)
(* by a signal whose handler returns: write() then says how much it has      *)
(* sent, the client does not look, and goes on.                              *)
SendData(c) ==
  /\ ClientAt(c, "sendData")
  /\ \E n \in 1 .. Chunks :
       /\ ClientSends(c, Arrived(FileData(uploads[c]), n))
       /\ \/ /\ ClientGoto(c, "menu") /\ UNCHANGED ending
             /\ cutShort' = [cutShort EXCEPT ![c] = @ \/ n < Chunks]
          \/ n < Chunks /\ Ends(c, "left") /\ UNCHANGED cutShort
  /\ UNCHANGED <<processVars, mode, uploads, download, threadVars, toClient, swallowed, met>>

(* Option 4: the names of the images, the user's choice, the image. *)
AskForImages(c) ==
  /\ AtMenu(c)
  /\ ClientSends(c, <<<<"get_img_filtered">>>>)
  /\ ClientGoto(c, "images")
  /\ UNCHANGED <<processVars, mode, uploads, download, threadVars, histories, toClient>>

(* A reply that is not what is expected does not parse, and the client ends. *)
AfterReply(c, reply) ==
  CASE ClientAt(c, "images") /\ reply = <<<<"images">>>> -> "choose"
    [] ClientAt(c, "image") /\ reply = <<<<"image">>>> -> "size"
    [] ClientAt(c, "image") /\ reply = <<<<"error">>>> -> "menu"
    [] OTHER -> "gone"

ReadReply(c) ==
  /\ clientPc[c] \in {"images", "image"}
  /\ \E n \in 1 .. Len(toClient[c]) :
       /\ LET next == AfterReply(c, Arrived(toClient[c], n)) IN
            IF next = "gone" THEN Ends(c, "misread")
                             ELSE ClientGoto(c, next) /\ UNCHANGED ending
       /\ toClient' = [toClient EXCEPT ![c] = Rest(@, n)]
  /\ UNCHANGED <<processVars, mode, uploads, download, threadVars, toServer,
                 cutShort, swallowed, met>>

Choose(c) ==
  /\ ClientAt(c, "choose")
  /\ ClientSends(c, <<<<"continue">>>>)
  /\ ClientGoto(c, "image")
  /\ UNCHANGED <<processVars, mode, uploads, download, threadVars, histories, toClient>>

DownloadSize(c) ==
  /\ ClientAt(c, "size") /\ toClient[c] # <<>>
  /\ download' = [download EXCEPT ![c] = Arrived(toClient[c], 1)]
  /\ toClient' = [toClient EXCEPT ![c] = Rest(@, 1)]
  /\ ClientGoto(c, "data")
  /\ UNCHANGED <<processVars, mode, uploads, threadVars, histories, toServer>>

DownloadData(c) ==
  /\ ClientAt(c, "data") /\ ~Complete(download[c])
  /\ \E n \in 1 .. Len(toClient[c]) :
       /\ download' = [download EXCEPT ![c] = @ \o Arrived(toClient[c], n)]
       /\ toClient' = [toClient EXCEPT ![c] = Rest(@, n)]
  /\ UNCHANGED <<processVars, clientPc, mode, uploads, threadVars, histories, toServer>>

SaveDownload(c) ==
  /\ ClientAt(c, "data") /\ Complete(download[c])
  /\ IF Usable(download[c]) THEN ClientGoto(c, "menu") /\ UNCHANGED ending
                            ELSE Ends(c, "unusable")
  /\ download' = [download EXCEPT ![c] = <<>>]
  /\ UNCHANGED <<processVars, mode, uploads, threadVars, streams, cutShort, swallowed, met>>

(* Option 5, the signal that ends it, a kill; and the next use of a        *)
(* connection whose other end is gone.                                     *)
Leave(c) ==
  /\ clientPc[c] # "gone"
  /\ Ends(c, "left")
  /\ mode' = [mode EXCEPT ![c] = "menu"]
  /\ download' = [download EXCEPT ![c] = <<>>]
  /\ toClient' = [toClient EXCEPT ![c] = <<>>]
  /\ UNCHANGED <<processVars, uploads, threadVars, toServer, cutShort, swallowed, met>>

-------------------------------------------------------------------------------
(***************************************************************************)
(* The session's thread in the server.                                     *)
(***************************************************************************)
At(c, from) == Up /\ serverPc[c] = from
Goto(c, to) == serverPc' = [serverPc EXCEPT ![c] = to]

(* The client is gone and all it sent is read: recv() returns no bytes, or *)
(* an error.                                                               *)
HungUp(c) == ClientAt(c, "gone") /\ toServer[c] = <<>>

(* A send() to a client that is gone is lost, or fails and throws. *)
Reply(c, units, next, ifThrown) ==
  \/ /\ toClient' = [toClient EXCEPT ![c] = IF ClientAt(c, "gone") THEN @ ELSE @ \o units]
     /\ Goto(c, next)
  \/ /\ ClientAt(c, "gone")
     /\ Goto(c, ifThrown)
     /\ UNCHANGED toClient

(* An exception that is no std::runtime_error, or a fault: the process ends. *)
Abort == /\ status' = "aborted"
         /\ UNCHANGED <<http, permit, results, clientVars, threadVars, histories, streams>>

Receive(c) ==
  /\ At(c, "recv")
  /\ \E n \in 1 .. Len(toServer[c]) :
       /\ inHand' = [inHand EXCEPT ![c] = Arrived(toServer[c], n)]
       /\ toServer' = [toServer EXCEPT ![c] = Rest(@, n)]
  /\ Goto(c, "command")
  /\ UNCHANGED <<processVars, clientVars, upload, histories, toClient>>

CloseSessionMutant(c) ==   \* recv() returning 0 taken for an empty message
  /\ At(c, "recv") /\ HungUp(c)
  /\ UNCHANGED vars

CloseSession(c) ==
  /\ At(c, "recv") /\ HungUp(c)
  /\ Goto(c, "closed")
  /\ UNCHANGED <<processVars, clientVars, inHand, upload, streams, histories>>

(* get_command(): what is in hand parses if it is one message. *)
Command(c) == inHand[c][1][1]
Readable(c) == \E k \in Commands : inHand[c] = <<<<k>>>>

DispatchMutant(c) ==   \* get_command() without its fourth comparison
  /\ At(c, "command") /\ Readable(c)
  /\ Goto(c, CASE Command(c) \in Supplies -> "http"
               [] Command(c) = "img_filtering" -> "size"
               [] OTHER -> "recv")
  /\ UNCHANGED <<processVars, clientVars, inHand, upload, streams, histories>>

Dispatch(c) ==
  /\ At(c, "command") /\ Readable(c)
  /\ Goto(c, CASE Command(c) \in Supplies -> "http"
               [] Command(c) = "img_filtering" -> "size"
               [] Command(c) = "get_img_filtered" -> "names")
  /\ UNCHANGED <<processVars, clientVars, inHand, upload, streams, histories>>

Unreadable(c) ==
  /\ At(c, "command") /\ ~Readable(c)
  /\ Abort

-------------------------------------------------------------------------------
(***************************************************************************)
(* Commands 1 and 2: a request to the HTTP server of the same process.  An *)
(* exception of their send() ends the thread's loop; one in the image      *)
(* dialogue of command 4 ends the server.                                  *)
(***************************************************************************)
Requests(c, k) == At(c, "http") /\ Command(c) = k

AnswerSupplies(c) ==
  /\ Reply(c, <<<<"answer">>>>, "recv", "closed")
  /\ inHand' = [inHand EXCEPT ![c] = <<>>]
  /\ UNCHANGED <<status, http, results, clientVars, upload, histories, toServer>>

ServedMutant(c) ==   \* /setsupplies does not ask for the permit
  /\ http = "serving"
  /\ Requests(c, "get_supplies") \/ Requests(c, "set_supplies")
  /\ AnswerSupplies(c)
  /\ UNCHANGED permit

(* The HTTP server answers, if only with status 500 and no body. *)
Served(c) ==
  /\ http = "serving"
  /\ \/ Requests(c, "get_supplies")
     \/ Requests(c, "set_supplies") /\ permit
  /\ AnswerSupplies(c)
  /\ UNCHANGED permit

(* /setsupplies finds the database open by the /supplies of another session: *)
(* status 500, and a permit that nobody gives back.                          *)
Collides(c) ==
  /\ http = "serving" /\ permit
  /\ Requests(c, "set_supplies")
  /\ \E d \in Clients : Requests(d, "get_supplies")
  /\ permit' = FALSE
  /\ AnswerSupplies(c)

(* Nothing listens yet, or /setsupplies waits for the permit until the      *)
(* request times out: there is no result, and it is used without a look.    *)
NoResult(c) ==
  /\ \/ At(c, "http") /\ http = "starting"
     \/ Requests(c, "set_supplies") /\ ~permit
  /\ Abort

StartHttp ==
  /\ Up /\ http = "starting"
  /\ http' = "serving"
  /\ UNCHANGED <<status, permit, results, clientVars, threadVars, histories, streams>>

-------------------------------------------------------------------------------
(***************************************************************************)
(* Command 3: an image to filter.                                          *)
(***************************************************************************)
UploadSize(c) ==
  /\ At(c, "size") /\ toServer[c] # <<>>
  /\ upload' = [upload EXCEPT ![c] = Arrived(toServer[c], 1)]
  /\ toServer' = [toServer EXCEPT ![c] = Rest(@, 1)]
  /\ Goto(c, "data")
  /\ UNCHANGED <<processVars, clientVars, inHand, histories, toClient>>

(* Without a size, an uninitialised one is used: an exception or a fault.   *)
NoUploadSize(c) ==
  /\ At(c, "size") /\ HungUp(c)
  /\ \/ /\ Goto(c, "end")
        /\ UNCHANGED <<processVars, clientVars, inHand, upload, streams, histories>>
     \/ Abort

(* A thread saves what it received, has it filtered and saves the results,  *)
(* in files that any other session may be writing, too.                     *)
Saving(c) == serverPc[c] = "data" /\ Complete(upload[c])
OthersSave(c) == \E d \in Clients \ {c} : Saving(d)

MeetsOthers(c) ==
  met' = [d \in Clients |-> IF d = c THEN OthersSave(c) ELSE met[d] \/ Saving(d)]

UploadDataMutant(c) ==   \* inserted at begin() instead of end()
  /\ At(c, "data") /\ ~Complete(upload[c])
  /\ \E n \in 1 .. Len(toServer[c]) :
       /\ upload' = [upload EXCEPT ![c] = <<@[1]>> \o Arrived(toServer[c], n) \o Tail(@)]
       /\ toServer' = [toServer EXCEPT ![c] = Rest(@, n)]
  /\ IF Complete(upload'[c]) THEN MeetsOthers(c) ELSE UNCHANGED met
  /\ UNCHANGED <<processVars, clientVars, serverPc, inHand, toClient,
                 ending, cutShort, swallowed>>

UploadData(c) ==
  /\ At(c, "data") /\ ~Complete(upload[c])
  /\ \E n \in 1 .. Len(toServer[c]) :
       /\ upload' = [upload EXCEPT ![c] = @ \o Arrived(toServer[c], n)]
       /\ toServer' = [toServer EXCEPT ![c] = Rest(@, n)]
  /\ IF Complete(upload'[c]) THEN MeetsOthers(c) ELSE UNCHANGED met
  /\ UNCHANGED <<processVars, clientVars, serverPc, inHand, toClient,
                 ending, cutShort, swallowed>>

FilterMutant(c) ==   \* the image is answered, as the client's diagram has it
  /\ At(c, "data") /\ Complete(upload[c])
  /\ Usable(upload[c]) \/ (met[c] /\ Decompresses(upload[c]))
  /\ results' = "all"
  /\ swallowed' = [swallowed EXCEPT ![c] = @ \/ Len(upload[c]) > 1 + SizeOf(upload[c])]
  /\ met' = [met EXCEPT ![c] = FALSE]
  /\ upload' = [upload EXCEPT ![c] = <<>>]
  /\ inHand' = [inHand EXCEPT ![c] = <<>>]
  /\ Reply(c, <<<<"answer">>>>, "recv", "closed")
  /\ UNCHANGED <<status, http, permit, clientVars, toServer, ending, cutShort>>

(* Decompressed, saved, loaded and filtered; the message after the file may *)
(* have been read with its end.  What is loaded is what the file holds by   *)
(* then: another session may have put another image there.                  *)
Filter(c) ==
  /\ At(c, "data") /\ Complete(upload[c])
  /\ Usable(upload[c]) \/ (met[c] /\ Decompresses(upload[c]))
  /\ results' = "all"
  /\ swallowed' = [swallowed EXCEPT ![c] = @ \/ Len(upload[c]) > 1 + SizeOf(upload[c])]
  /\ met' = [met EXCEPT ![c] = FALSE]
  /\ upload' = [upload EXCEPT ![c] = <<>>]
  /\ inHand' = [inHand EXCEPT ![c] = <<>>]
  /\ Goto(c, "recv")
  /\ UNCHANGED <<status, http, permit, clientVars, streams, ending, cutShort>>

(* What there is of the file does not decompress, or what is loaded is no    *)
(* image: it never was, or another session has the file open.                *)
FilterThrows(c) ==
  /\ At(c, "data")
  /\ \/ Complete(upload[c]) /\ (~Usable(upload[c]) \/ met[c])
     \/ ~Complete(upload[c]) /\ HungUp(c)
  /\ upload' = [upload EXCEPT ![c] = <<>>]
  /\ Goto(c, "end")
  /\ UNCHANGED <<processVars, clientVars, inHand, streams, histories>>

-------------------------------------------------------------------------------
(***************************************************************************)
(* Command 4: the image dialogue.                                          *)
(***************************************************************************)
SendNames(c) ==
  /\ At(c, "names")
  /\ Reply(c, <<<<"images">>>>, "choice", "end")
  /\ UNCHANGED <<processVars, clientVars, inHand, upload, histories, toServer>>

ReceiveChoice(c) ==
  /\ At(c, "choice")
  /\ \E n \in 1 .. Len(toServer[c]) :
       /\ Goto(c, IF Arrived(toServer[c], n) = <<<<"continue">>>> THEN "image" ELSE "end")
       /\ toServer' = [toServer EXCEPT ![c] = Rest(@, n)]
  /\ UNCHANGED <<processVars, clientVars, inHand, upload, histories, toClient>>

NoChoice(c) ==
  /\ At(c, "choice") /\ HungUp(c)
  /\ Goto(c, "end")
  /\ UNCHANGED <<processVars, clientVars, inHand, upload, streams, histories>>

(* The description, the size and the data of the image, or an error where    *)
(* there is none or a filter writes it while it is read.                     *)
SendImage(c) ==
  /\ At(c, "image")
  /\ \/ /\ results # "none" \/ OthersSave(c)
        /\ Reply(c, <<<<"image">>, <<"size", FileSize>>>> \o FileData(Result), "recv", "end")
     \/ /\ results # "all" \/ OthersSave(c)
        /\ Reply(c, <<<<"error">>>>, "recv", "end")
  /\ inHand' = [inHand EXCEPT ![c] = <<>>]
  /\ UNCHANGED <<processVars, clientVars, upload, histories, toServer>>

(* end_conn() *)
EndConn(c) ==
  /\ At(c, "end")
  /\ status' = "exited"
  /\ UNCHANGED <<http, permit, results, clientVars, threadVars, histories, streams>>

-------------------------------------------------------------------------------
Init ==
  /\ status = "up" /\ http = "starting" /\ permit = TRUE
  /\ results \in {"none", "some", "all"}
  /\ clientPc = [c \in Clients |-> "menu"]
  /\ mode \in [Clients -> {"menu", "user"}]
  /\ uploads = [c \in Clients |-> 0]
  /\ download = [c \in Clients |-> <<>>]
  /\ serverPc = [c \in Clients |-> "recv"]
  /\ inHand = [c \in Clients |-> <<>>]
  /\ upload = [c \in Clients |-> <<>>]
  /\ toServer = [c \in Clients |-> <<>>]
  /\ toClient = [c \in Clients |-> <<>>]
  /\ ending = [c \in Clients |-> "none"]
  /\ cutShort = [c \in Clients |-> FALSE]
  /\ swallowed = [c \in Clients |-> FALSE]
  /\ met = [c \in Clients |-> FALSE]

(* The user's choices ... *)
UserStep(c) == \/ AtMenu(c) /\ AskForSupplies(c)
               \/ SetSupplies(c) \/ SendImageCommand(c) \/ AskForImages(c) \/ Choose(c)
               \/ Interrupt(c) \/ InputFails(c) \/ Leave(c)

(* ... and what the client does by itself. *)
ClientStep(c) == \/ mode[c] # "menu" /\ AskForSupplies(c)
                 \/ ShowAnswer(c) \/ SendSize(c) \/ SendData(c) \/ ReadReply(c)
                 \/ DownloadSize(c) \/ DownloadData(c) \/ SaveDownload(c)

ThreadStep(c) == \/ Receive(c) \/ CloseSession(c) \/ Dispatch(c) \/ Unreadable(c)
                 \/ Served(c) \/ Collides(c) \/ NoResult(c)
                 \/ UploadSize(c) \/ NoUploadSize(c) \/ UploadData(c)
                 \/ Filter(c) \/ FilterThrows(c)
                 \/ SendNames(c) \/ ReceiveChoice(c) \/ NoChoice(c) \/ SendImage(c)
                 \/ EndConn(c)

Next == StartHttp \/ \E c \in Clients : UserStep(c) \/ ClientStep(c) \/ ThreadStep(c)

Spec == Init /\ [][Next]_vars

(* The threads of the server and of the clients run on; users owe nothing.  *)
Fairness == /\ WF_vars(StartHttp)
            /\ \A c \in Clients : WF_vars(ClientStep(c)) /\ WF_vars(ThreadStep(c))

FairSpec == Spec /\ Fairness
===============================================================================
