------------------------- MODULE ClientSessionProperties -------------------------
(***************************************************************************)
(* What the sessions promise to their clients and to each other.           *)
(***************************************************************************)
EXTENDS ClientSession

(* The session's request to the HTTP server: its client's amounts are always *)
(* numbers, so no body is malformed.                                        *)
CallOf(c) == CASE serverPc[c] # "http" -> "none"
               [] serverPc[c] = "http" /\ Command(c) = "get_supplies" -> "unguarded"
               [] OTHER -> "set"

Http == INSTANCE HttpService WITH Callers <- Clients,
                                  call <- [c \in Clients |-> CallOf(c)]

ClientPcs == {"menu", "answer", "sendSize", "sendData", "images", "choose",
              "image", "size", "data", "spins", "gone"}
ServerPcs == {"recv", "command", "http", "size", "data", "names", "choice",
              "image", "end", "closed"}

(* A file is held while it is received, and at no other time. *)
Holding(c) ==
  /\ download[c] # <<>> <=> ClientAt(c, "data")
  /\ upload[c] # <<>> <=> serverPc[c] = "data"

VariablesOK ==
  /\ status \in {"up", "aborted", "exited"}
  /\ http \in {"starting", "serving"}
  /\ permit \in BOOLEAN /\ results \in {"none", "some", "all"}
  /\ clientPc \in [Clients -> ClientPcs] /\ serverPc \in [Clients -> ServerPcs]
  /\ mode \in [Clients -> {"menu", "asks", "user"}]
  /\ uploads \in [Clients -> 0 .. MaxUploads]
  /\ ending \in [Clients -> {"none", "left", "misread", "unusable"}]
  /\ swallowed \in [Clients -> BOOLEAN] /\ met \in [Clients -> BOOLEAN]
  /\ cutShort \in [Clients -> BOOLEAN]
  /\ inHand \in [Clients -> Seq(Units)]
  /\ toServer \in [Clients -> Seq(Units)] /\ toClient \in [Clients -> Seq(Units)]
  /\ download \in [Clients -> Seq(Units)] /\ upload \in [Clients -> Seq(Units)]

(* Every variable has its type, and the locals of a handler exist only while *)
(* the handler runs: a file that is received is dropped when its thread has  *)
(* left receive_vector() and what follows it.                                *)
TypeOK == VariablesOK /\ \A c \in Clients : Holding(c)

(* The client expects nothing from the server. *)
Idle(c) == clientPc[c] \in {"menu", "sendSize", "sendData", "choose", "spins"}

(* The client waits for the server. *)
Waiting(c) == clientPc[c] \in {"answer", "images", "image", "size", "data"}

(* Request and reply stay in step: when a client expects nothing, nothing is *)
(* on its way to it, so no reply is ever taken for that of a later request   *)
(* (the menu of client.cpp reads exactly one message per request).  That is, *)
(* unless it went on after a signal cut a file short.                        *)
RepliesInStep == \A c \in Clients : ~cutShort[c] /\ Idle(c) => toClient[c] = <<>>

(* A session is on its way to end_conn() only when its client is gone, sent  *)
(* a file that is no image or a file that a signal cut short, or when        *)
(* another session was saving or filtering while this one was: never because *)
(* of how the messages and the pieces of a file happened to arrive.          *)
HasCause(c) == \/ ClientAt(c, "gone")
               \/ \E f \in 1 .. uploads[c] : f \in BadFiles
               \/ cutShort[c]
               \/ met[c]

EndNeedsCause == \A c \in Clients : serverPc[c] = "end" => HasCause(c)

(* However read() cuts the stream, a file of which everything has arrived is *)
(* a file as it was sent: for an upload one of the client's own (it may have *)
(* sent the next ones already), for a download the result, and nothing after *)
(* it.  Only a client that goes on after a write() cut short by a signal     *)
(* breaks this.                                                              *)
FilesIntact ==
  \A c \in Clients : ~cutShort[c] =>
    /\ serverPc[c] = "data" /\ Complete(upload[c]) =>
         \E f \in 1 .. uploads[c] : Intact(upload[c], f)
    /\ ClientAt(c, "data") /\ Complete(download[c]) =>
         Intact(download[c], Result) /\ Len(download[c]) = 1 + SizeOf(download[c])

(* The server aborts only where an upload had messages follow each other     *)
(* without an answer in between, or where a request to its own HTTP server   *)
(* has no result: otherwise every message is read alone.                     *)
AbortNeedsCause ==
  status = "aborted" => \/ \E c \in Clients : uploads[c] > 0
                        \/ http = "starting"
                        \/ ~permit

-------------------------------------------------------------------------------
(* What these rest on.                                                       *)
(*                                                                           *)
(* What the server has not used of a stream: files as they were sent, each   *)
(* after its command and its size; only a client that is gone, or about to   *)
(* go on, leaves one unfinished.                                             *)
Image == <<"img_filtering">>
Size == <<"size", FileSize>>

Framed(stream, pc, n) ==
  \A k \in 1 .. Len(stream) :
    /\ stream[k] = Image =>
         IF k = Len(stream) THEN pc \in {"sendSize", "gone"} ELSE stream[k + 1] = Size
    /\ stream[k] = Size =>
         /\ k = Len(stream) => pc \in {"sendData", "gone"}
         /\ k < Len(stream) /\ Len(stream) < k + Chunks => pc = "gone"
         /\ \E f \in 1 .. n : \A j \in 1 .. Chunks :
              k + j <= Len(stream) => stream[k + j] = <<"data", f, j>>

StreamShape(c) ==
  /\ Framed(upload[c] \o toServer[c], clientPc[c], uploads[c])
  /\ clientPc[c] \in {"sendSize", "sendData"} => uploads[c] > 0
  /\ serverPc[c] = "size" => inHand[c] = <<Image>>
  /\ serverPc[c] \in {"command", "size"} /\ inHand[c] = <<Image>> =>
       IF toServer[c] = <<>> THEN clientPc[c] \in {"sendSize", "gone"} ELSE toServer[c][1] = Size

(* A request is the last thing its client has sent, and what the server does *)
(* for it the last thing the server does for that client.                    *)
Request == {<<m>> : m \in Supplies \union {"get_img_filtered", "continue"}}
Unread(c) == (IF serverPc[c] = "command" THEN inHand[c] ELSE <<>>) \o toServer[c]

RequestShape(c) ==
  /\ \A i \in 1 .. Len(Unread(c)) :
       /\ Unread(c)[i] \in Request => i = Len(Unread(c))
       /\ Unread(c)[i] = <<"continue">> => serverPc[c] = "choice"
       /\ uploads[c] = 0 => Unread(c)[i] \in Request
  /\ uploads[c] = 0 => serverPc[c] \notin {"size", "data"}
  /\ serverPc[c] = "command" => inHand[c] # <<>>
  /\ serverPc[c] = "http" => \E k \in Supplies : inHand[c] = <<<<k>>>>
  /\ serverPc[c] \in {"http", "names", "image"} => toServer[c] = <<>>
  /\ serverPc[c] = "choice" => toServer[c] \in {<<>>, <<<<"continue">>>>}

(* And as long as the client is there, it waits for the reply.               *)
Asked(pc) ==
  CASE pc = "answer" -> {<<k>> : k \in Supplies}
    [] pc = "images" -> {<<"get_img_filtered">>}
    [] pc = "image"  -> {<<"continue">>}
    [] OTHER -> {}

ResultSent == <<Size>> \o FileData(Result)

ReplyShape(c) ==
  LET pc == clientPc[c]
      Quiet == toServer[c] = <<>> /\ toClient[c] = <<>> IN
  /\ \A i \in 1 .. Len(Unread(c)) :
       Unread(c)[i] \in Request => Unread(c)[i] \in Asked(pc) /\ toClient[c] = <<>>
  /\ serverPc[c] # "closed"
  /\ serverPc[c] = "http" => pc = "answer" /\ Quiet
  /\ serverPc[c] = "names" => pc = "images" /\ Quiet
  /\ serverPc[c] = "image" => pc = "image" /\ Quiet
  /\ serverPc[c] = "choice" =>
       \/ pc = "images" /\ toServer[c] = <<>> /\ toClient[c] = <<<<"images">>>>
       \/ pc \in {"choose", "spins"} /\ Quiet
       \/ pc = "image" /\ toServer[c] = <<<<"continue">>>> /\ toClient[c] = <<>>
  /\ Idle(c) => toClient[c] = <<>>
  /\ pc = "choose" => serverPc[c] = "choice"
  /\ pc = "answer" => toClient[c] \in {<<>>, <<<<"answer">>>>}
  /\ pc = "images" => \/ toClient[c] = <<>>
                      \/ toClient[c] = <<<<"images">>>> /\ serverPc[c] = "choice"
  /\ pc = "image" /\ serverPc[c] \notin {"choice", "image"} =>
       toClient[c] \in {<<<<"error">>>>, <<<<"image">>>> \o ResultSent}
  /\ pc = "size" => toClient[c] = ResultSent
  /\ pc = "data" => download[c] \o toClient[c] = ResultSent
  /\ pc \in {"size", "data"} \/ (pc = "image" /\ serverPc[c] \notin {"choice", "image"}) =>
       serverPc[c] = "recv" /\ toServer[c] = <<>>

(* A file being received starts with its size word.                          *)
IsReceiving(file) == file # <<>> => file[1] = <<"size", FileSize>>
Receiving(c) == Holding(c) /\ IsReceiving(download[c]) /\ IsReceiving(upload[c])

(* None of this is so of a client that goes on after it sent part of a file: *)
(* what it sends next is taken for the rest.                                 *)
SessionShape(c) ==
  IF cutShort[c] THEN uploads[c] > 0
  ELSE /\ Receiving(c)
       /\ StreamShape(c)
       /\ RequestShape(c)
       /\ ~ClientAt(c, "gone") => ReplyShape(c)

(* What every step of every client and thread keeps, and the properties     *)
(* above follow from.                                                        *)
Inductive ==
  /\ TypeOK
  /\ \A c \in Clients : SessionShape(c)
  /\ EndNeedsCause
  /\ AbortNeedsCause

-------------------------------------------------------------------------------
(* The sessions see no other HTTP server than the one RefugeServer is, with  *)
(* the same permit (ImplementsHttp of its properties).                       *)
UsesHttp == Http!Spec

-------------------------------------------------------------------------------
(* A client that leaves, in whatever state of the dialogue, frees the thread *)
(* of its session, unless the server ends.                                   *)
LeavingFreesThread ==
  \A c \in Clients : ClientAt(c, "gone") ~> (serverPc[c] = "closed" \/ ~Up)

(* A client that waits gets what it waits for, so that it waits no longer    *)
(* and is still there, unless its user ends it or the server ends, or for    *)
(* one of three reasons: the server read its message with the end of a file; *)
(* the client sent part of a file before; or, in the dialogue of option 4,   *)
(* it read more than one unit for the message it waited for, which does not  *)
(* parse and ends it.  That a download cannot be used is none of them.       *)
ServedUnlessSwallowed ==
  \A c \in Clients :
    Waiting(c) ~> \/ Idle(c)
                  \/ ending[c] = "left" \/ ~Up
                  \/ swallowed[c] \/ cutShort[c]
                  \/ ending[c] = "misread"

(* What receiveFrom() returns is a message. *)
ReceivesMessages ==
  \A c \in Clients : At(c, "command") => \E m \in Messages : inHand[c] = <<m>>
===============================================================================
