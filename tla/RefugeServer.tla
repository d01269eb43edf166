----------------------------- MODULE RefugeServer -----------------------------
(***************************************************************************)
(* One process of the refuge server, with the threads that share its       *)
(* database, its semaphore and its message queue:                          *)
(*                                                                         *)
(*   - the workers of the HTTP server, each serving one request at a time; *)
(*   - the alert module, which reads the sensors, and the alert listener,  *)
(*     which counts the alerts it receives;                                *)
(*   - the emergency module, which sends one message, and one emergency    *)
(*     listener for every client that has connected;                       *)
(*   - the main thread, which runs the signal handler.                     *)
(*                                                                         *)
(* Every thread opens the database for itself.  POST /setsupplies and the  *)
(* two listeners do so between acquire() and release() of one semaphore,   *)
(* every other request does so without.  The process may be killed, or     *)
(* abort on an exception nobody catches, between any two steps, and is     *)
(* then started again on the database and the queues left behind.        *)
(***************************************************************************)
EXTENDS RocksDbWrapper, MessageQueue

CONSTANTS
  Workers,          (* threads of the HTTP server's pool                   *)
  Listeners,        (* emergency listeners: one per accepted connection    *)
  AlertListener,    (* the thread that counts alerts                       *)
  Main,             (* the thread that is given signals                    *)
  Kinds,            (* the requests clients make                           *)
  Bodies,           (* the bodies of /setsupplies; Nothing stands for one  *)
                    (* that lacks a field or has an amount that is no      *)
                    (* number                                              *)
  Entries,          (* the entries in the order their sensors are read     *)
  MinTemperature, MaxTemperature, HighTemperature,  (* macros of a build   *)
  StartStores,      (* what the database may hold at the first start       *)
  MaxAlerts,        (* bound: alerts sent in one run of the process        *)
  MaxRuns           (* bound: starts of the process                        *)

RequestKinds ==
  {"supplies", "alert", "database", "deletesupplies", "initdb", "setsupplies"}

(* Those who acquire the semaphore around their use of the database. *)
MessageListeners == Listeners \union {AlertListener}
DbUsers == Workers \union MessageListeners
Threads == DbUsers \union {Main}

SetBodies == [item : Items, amount : Amounts]

ASSUME ServerAssumption ==
  /\ Workers \intersect MessageListeners = {}
  /\ AlertListener \notin Listeners
  /\ Main \notin DbUsers
  /\ NoThread \notin Threads
  /\ Kinds \subseteq RequestKinds
  /\ Bodies \subseteq SetBodies \union {Nothing}
  /\ Nothing \notin SetBodies
  /\ Entries \in Seq(Locations) /\ Entries # <<>>
  /\ MinTemperature \in Int /\ MaxTemperature \in Int /\ HighTemperature \in Int
  /\ MinTemperature < MaxTemperature
  /\ StartStores \subseteq {EmptyStore, SeedStore}
  /\ MaxAlerts \in Nat /\ MaxRuns \in Nat \ {0}

VARIABLES
  status,      (* "up", or how the process ended                           *)
  run,         (* how many times the process was started                   *)
  killed,      (* the runs that did not end themselves (a history)         *)
  semaphore,   (* the permits of the global counting semaphore             *)
  pc,          (* where each thread is                                     *)
  request,     (* the request each worker serves, with its handler's locals *)
  copy,        (* the section a thread has read in order to change it      *)
  message,     (* the message a listener has received                      *)
  sensor,      (* the entry whose sensor is read next                      *)
  sensorPc,    (* where the alert module is                                *)
  alertsSent,  (* counts towards MaxAlerts                                 *)
  emergencyPc  (* where the emergency module is                            *)

queueVars   == <<queues, key>>
dbVars      == <<store, dbHolder>>
processVars == <<status, run, killed>>
moduleVars  == <<sensor, sensorPc, alertsSent, emergencyPc>>
vars == <<store, dbHolder, queues, key, status, run, killed, semaphore,
          pc, request, copy, message,
          sensor, sensorPc, alertsSent, emergencyPc>>

Up == status = "up"

(* counting_semaphore<3> semaphore(1): the bound is 3, the permits are 1.  *)
PermitsMutant == 3   \* the bound taken for the number of permits
Permits == 1

(* The temperatures the simulated sensor returns: a remainder, so the      *)
(* greatest one is below MaxTemperature.                                   *)
Temperatures == MinTemperature .. MaxTemperature - 1

(* A message of the emergency module.  It holds a timestamp that strftime() *)
(* may have left without its end, so whether its text is JSON depends on    *)
(* what is on the stack.  sentIn tells the runs of the process apart.       *)
EmergencyMessages == [sentIn : 1 .. MaxRuns, json : BOOLEAN]

NoReport == [k \in Sections |-> Nothing]

(* A request, its body, and the locals of /initdb and /database: the section *)
(* they are at, the string a section is read into, and what was collected.   *)
Request(k, b) ==
  [kind |-> k, body |-> b, stage |-> 1, text |-> Nothing, report |-> NoReport]

NoRequest == Request("none", Nothing)

(* Where every thread starts, and what its variables are then. *)
StartPc == [t \in Threads |-> IF t \in Workers THEN "idle"
                              ELSE IF t \in Listeners THEN "absent"
                              ELSE IF t = AlertListener THEN "receive"
                              ELSE "join"]

(***************************************************************************)
(* Control points.                                                         *)
(***************************************************************************)
At(t, from) == Up /\ pc[t] = from
Goto(t, to) == pc' = [pc EXCEPT ![t] = to]

Requests(w, kinds) == w \in Workers /\ request[w].kind \in kinds

(* The threads that read a section, change it and write it back; they are  *)
(* those that acquire the semaphore.                                       *)
Updates(t) == t \in MessageListeners \/ Requests(t, {"setsupplies"})

(* Between its acquire() and its release(). *)
HoldsPermit(t) == Updates(t) /\ pc[t] \in {"open", "get", "put", "close", "release"}

(* The permit is gone and nobody is left to give it back. *)
Leaked == semaphore = 0 /\ \A t \in DbUsers : ~HoldsPermit(t)

FinishRequest(w) == /\ Goto(w, "idle")
                    /\ request' = [request EXCEPT ![w] = NoRequest]

AbandonMutant(t) ==   \* the listeners' release() moved into their try block
  /\ IF t \in Workers THEN FinishRequest(t)
                      ELSE Goto(t, "receive") /\ UNCHANGED request
  /\ copy' = [copy EXCEPT ![t] = Nothing]

(* An exception leaves the code that uses the database, whose locals go    *)
(* out of scope.  The handlers of requests do not catch it: the HTTP       *)
(* library answers 500 and the worker serves another request, without a    *)
(* release() when it was /setsupplies.  The listeners catch it and go on   *)
(* to their release().                                                     *)
Abandon(t) == /\ IF t \in Workers THEN FinishRequest(t)
                                  ELSE Goto(t, "release") /\ UNCHANGED request
              /\ copy' = [copy EXCEPT ![t] = Nothing]

(* What no use of the database touches. *)
others == <<queueVars, processVars, moduleVars>>

-------------------------------------------------------------------------------
(***************************************************************************)
(* The semaphore and the lifetime of a database wrapper, the same code in  *)
(* every user of the database.                                             *)
(***************************************************************************)
Acquire(t) ==
  /\ At(t, "acquire")
  /\ semaphore > 0
  /\ semaphore' = semaphore - 1
  /\ Goto(t, "open")
  /\ UNCHANGED <<dbVars, request, copy, message, others>>

(* What is done first with an open database. *)
FirstUse(t) == IF Requests(t, {"deletesupplies", "initdb"}) THEN "put" ELSE "get"

OpenDb(t) ==
  /\ At(t, "open")
  /\ Open(t)
  /\ Goto(t, FirstUse(t))
  /\ UNCHANGED <<semaphore, request, copy, message, others>>

OpenDbThrows(t) ==
  /\ At(t, "open")
  /\ OpenThrows
  /\ Abandon(t)
  /\ UNCHANGED <<dbVars, semaphore, message, others>>

(* The wrapper goes out of scope. *)
CloseDb(t) ==
  /\ At(t, "close")
  /\ Close(t)
  /\ IF Updates(t) THEN Goto(t, "release") /\ UNCHANGED request ELSE FinishRequest(t)
  /\ UNCHANGED <<semaphore, copy, message, others>>

ReleaseMutant(t) ==   \* the emergency listener without its call of end_conn()
  /\ At(t, "release")
  /\ semaphore' = semaphore + 1
  /\ IF t \in Workers
     THEN FinishRequest(t) /\ UNCHANGED message
     ELSE /\ Goto(t, "receive")
          /\ message' = [message EXCEPT ![t] = Nothing]
          /\ UNCHANGED request
  /\ UNCHANGED <<dbVars, copy, others>>

Release(t) ==
  /\ At(t, "release")
  /\ semaphore' = semaphore + 1
  /\ IF t \in Workers
     THEN FinishRequest(t) /\ UNCHANGED message
     ELSE /\ Goto(t, IF t = AlertListener THEN "receive" ELSE "end")
          /\ message' = IF t = AlertListener THEN [message EXCEPT ![t] = Nothing] ELSE message
          /\ UNCHANGED request
  /\ UNCHANGED <<dbVars, copy, others>>

-------------------------------------------------------------------------------
(***************************************************************************)
(* Read-modify-write: set_supply(), alert_listener() and                   *)
(* run_emergency_listener().                                               *)
(***************************************************************************)
SectionOf(t) == CASE t \in Workers -> "supplies"
                  [] t \in Listeners -> "emergency"
                  [] OTHER -> "alerts"

(* What a thread parses before it writes is what it should be. *)
WellFormed(t) == CASE t \in Workers -> request[t].body # Nothing
                   [] t \in Listeners -> message[t].json
                   [] OTHER -> TRUE

ReadForUpdate(t) ==
  /\ At(t, "get") /\ Updates(t)
  /\ WellFormed(t)
  /\ copy' = [copy EXCEPT ![t] = Get(SectionOf(t), Nothing)]
  /\ Goto(t, "put")
  /\ UNCHANGED <<dbVars, semaphore, request, message, others>>

(* An alert is counted only at a location that has a counter already. *)
CanWrite(t) == t = AlertListener => CanCount(copy[t])

(* Parsing throws: the wrapper is destroyed on the way out. *)
UpdateThrows(t) ==
  /\ Updates(t)
  /\ \/ At(t, "get") /\ ~WellFormed(t)
     \/ At(t, "put") /\ ~CanWrite(t)
  /\ Close(t)
  /\ Abandon(t)
  /\ UNCHANGED <<semaphore, message, others>>

(* The section as the thread writes it back. *)
Updated(t) ==
  CASE t \in Workers -> WithSupply(copy[t], request[t].body.item, request[t].body.amount)
    [] t \in Listeners -> WithFailure(copy[t])
    [] OTHER -> WithAlert(copy[t], message[t])

WriteBack(t) ==
  /\ At(t, "put") /\ Updates(t)
  /\ CanWrite(t)
  /\ Put(SectionOf(t), Updated(t))
  /\ copy' = [copy EXCEPT ![t] = Nothing]
  /\ Goto(t, "close")
  /\ UNCHANGED <<semaphore, request, message, others>>

-------------------------------------------------------------------------------
(***************************************************************************)
(* The requests of the HTTP server.  A body that is not JSON, or is empty  *)
(* JSON, is refused before anything is touched and is no step here.        *)
(***************************************************************************)
Serve(w) ==
  /\ At(w, "idle")
  /\ \E k \in Kinds : \E b \in IF k = "setsupplies" THEN Bodies ELSE {Nothing} :
       /\ request' = [request EXCEPT ![w] = Request(k, b)]
       /\ Goto(w, IF k = "setsupplies" THEN "acquire" ELSE "open")
  /\ UNCHANGED <<dbVars, semaphore, copy, message, others>>

(* GET /supplies and GET /alert: one section is read and formatted; an     *)
(* absent one does not parse.                                              *)
SectionShown(w) == IF request[w].kind = "supplies" THEN "supplies" ELSE "alerts"

ShowSection(w) ==
  /\ At(w, "get") /\ Requests(w, {"supplies", "alert"})
  /\ Get(SectionShown(w), Nothing) # Nothing
  /\ Goto(w, "close")
  /\ UNCHANGED <<dbVars, semaphore, request, copy, message, others>>

ShowThrows(w) ==
  /\ At(w, "get") /\ Requests(w, {"supplies", "alert"})
  /\ Get(SectionShown(w), Nothing) = Nothing
  /\ Close(w)
  /\ Abandon(w)
  /\ UNCHANGED <<semaphore, message, others>>

(* GET /database reads the sections one after the other into one string.   *)
AtSection(w) == SectionAt[request[w].stage]

CollectSection(w) ==
  LET text == Get(AtSection(w), request[w].text) IN
  /\ At(w, "get") /\ Requests(w, {"database"})
  /\ text # Nothing
  /\ request' = [request EXCEPT ![w].text = text,
                                ![w].report[AtSection(w)] = text,
                                ![w].stage = @ + 1]
  /\ Goto(w, IF request[w].stage = Len(SectionAt) THEN "close" ELSE "get")
  /\ UNCHANGED <<dbVars, semaphore, copy, message, others>>

CollectThrows(w) ==
  /\ At(w, "get") /\ Requests(w, {"database"})
  /\ Get(AtSection(w), request[w].text) = Nothing
  /\ Close(w)
  /\ Abandon(w)
  /\ UNCHANGED <<semaphore, message, others>>

(* GET /deletesupplies *)
ClearSupplies(w) ==
  /\ At(w, "put") /\ Requests(w, {"deletesupplies"})
  /\ Put("supplies", NoSupplies)
  /\ Goto(w, "close")
  /\ UNCHANGED <<semaphore, request, copy, message, others>>

(* GET /initdb writes the three sections of the seed, one put() each. *)
SeedSection(w) ==
  /\ At(w, "put") /\ Requests(w, {"initdb"})
  /\ Put(AtSection(w), SeedStore[AtSection(w)])
  /\ request' = [request EXCEPT ![w].stage = @ + 1]
  /\ Goto(w, IF request[w].stage = Len(SectionAt) THEN "close" ELSE "put")
  /\ UNCHANGED <<semaphore, copy, message, others>>

-------------------------------------------------------------------------------
(***************************************************************************)
(* The message queue's users.                                              *)
(***************************************************************************)
dbThreadVars == <<dbVars, processVars, semaphore, request, copy>>

(* handle_client() of a new connection starts an emergency listener, which *)
(* nothing ends when the connection does.                                  *)
Connect(l) ==
  /\ At(l, "absent") /\ l \in Listeners
  /\ Goto(l, "receive")
  /\ UNCHANGED <<dbThreadVars, queueVars, message, moduleVars>>

Receive(t) ==
  /\ At(t, "receive")
  /\ \/ /\ t = AlertListener
        /\ ReceiveAlert
        /\ message' = [message EXCEPT ![t] = Head(alerts)]
     \/ /\ t \in Listeners
        /\ ReceiveEmergency
        /\ message' = [message EXCEPT ![t] = Head(emergencies)]
  /\ Goto(t, "acquire")
  /\ UNCHANGED <<dbThreadVars, moduleVars>>

(* One round of the alert module at one entry. *)
NextSensorMutant == sensor' = sensor + 1   \* no return to the first entry
NextSensor == sensor' = (sensor % Len(Entries)) + 1

Sense ==
  /\ Up /\ sensorPc = "sense"
  /\ \E temperature \in Temperatures :
       IF temperature > HighTemperature
       THEN alertsSent < MaxAlerts /\ sensorPc' = "send" /\ UNCHANGED sensor
       ELSE NextSensor /\ UNCHANGED sensorPc
  /\ UNCHANGED <<dbThreadVars, queueVars, pc, message, alertsSent, emergencyPc>>

RaiseAlert ==
  /\ Up /\ sensorPc = "send"
  /\ SendAlert(Entries[sensor])
  /\ NextSensor
  /\ sensorPc' = "sense"
  /\ alertsSent' = alertsSent + 1
  /\ UNCHANGED <<dbThreadVars, pc, message, emergencyPc>>

(* Ten minutes after its start the emergency module announces the end.     *)
RaiseEmergency ==
  /\ Up /\ emergencyPc = "sleep"
  /\ \E wellFormed \in BOOLEAN : SendEmergency([sentIn |-> run, json |-> wellFormed])
  /\ emergencyPc' = "done"
  /\ UNCHANGED <<dbThreadVars, pc, message, sensor, sensorPc, alertsSent>>

-------------------------------------------------------------------------------
(***************************************************************************)
(* The end of the process and its restart.                                 *)
(***************************************************************************)

(* What an ended process takes with it: everything but the database and the *)
(* queues.                                                                  *)
Forget ==
  /\ dbHolder' = NoThread
  /\ semaphore' = Permits
  /\ pc' = StartPc
  /\ request' = [w \in Workers |-> NoRequest]
  /\ copy' = [t \in DbUsers |-> Nothing]
  /\ message' = [t \in MessageListeners |-> Nothing]
  /\ sensor' = 1
  /\ sensorPc' = "sense"
  /\ alertsSent' = 0
  /\ emergencyPc' = "sleep"

EndProcess(how) ==
  /\ status' = how
  /\ killed' = IF how = "killed" THEN killed \union {run} ELSE killed
  /\ Forget
  /\ UNCHANGED <<store, run>>

(* SIGINT or SIGTERM: the handler calls end_conn() on the main thread, the  *)
(* others run on.                                                           *)
Signal ==
  /\ At(Main, "join")
  /\ Goto(Main, "end")
  /\ UNCHANGED <<dbThreadVars, queueVars, message, moduleVars>>

RemoveQueueAtEndMutant(t) ==   \* end_conn() without its msgctl()
  /\ At(t, "end")
  /\ Goto(t, "exit")
  /\ UNCHANGED <<dbThreadVars, queueVars, message, moduleVars>>

(* end_conn(), two seconds after its start. *)
RemoveQueueAtEnd(t) ==
  /\ At(t, "end")
  /\ RemoveQueue
  /\ Goto(t, "exit")
  /\ UNCHANGED <<dbThreadVars, message, moduleVars>>

Exit(t) ==
  /\ At(t, "exit")
  /\ EndProcess("success")
  /\ UNCHANGED queueVars

(* A sender that finds the queue gone, or its identifier 0, ends the process *)
(* itself.                                                                   *)
SenderExits ==
  /\ Up
  /\ sensorPc = "send" \/ emergencyPc = "sleep"
  /\ SendFails
  /\ EndProcess("failure")
  /\ UNCHANGED queueVars

(* SIGKILL, an exception nobody catches, or a fault. *)
Crash ==
  /\ Up
  /\ EndProcess("killed")
  /\ UNCHANGED queueVars

Restart ==
  /\ ~Up /\ run < MaxRuns
  /\ status' = "up"
  /\ run' = run + 1
  /\ CreateQueue
  /\ UNCHANGED <<dbVars, killed, semaphore, request, pc, copy, message, moduleVars>>

-------------------------------------------------------------------------------
Init ==
  /\ store \in StartStores
  /\ dbHolder = NoThread
  /\ key \in Keys
  /\ \E zero \in BOOLEAN : queues = [k \in Keys |-> IF k = key THEN NewQueue(zero) ELSE NoQueue]
  /\ status = "up" /\ run = 1 /\ killed = {}
  /\ semaphore = Permits
  /\ pc = StartPc
  /\ request = [w \in Workers |-> NoRequest]
  /\ copy = [t \in DbUsers |-> Nothing]
  /\ message = [t \in MessageListeners |-> Nothing]
  /\ sensor = 1 /\ sensorPc = "sense" /\ alertsSent = 0
  /\ emergencyPc = "sleep"

(* What a thread does with the semaphore and the database. *)
DbStep(t) == \/ Acquire(t) \/ OpenDb(t) \/ OpenDbThrows(t)
             \/ ReadForUpdate(t) \/ UpdateThrows(t) \/ WriteBack(t)
             \/ CloseDb(t) \/ Release(t)

WorkerStep(w) == \/ DbStep(w)
                 \/ ShowSection(w) \/ ShowThrows(w) \/ CollectSection(w) \/ CollectThrows(w)
                 \/ ClearSupplies(w) \/ SeedSection(w)

ListenerStep(t) == Receive(t) \/ DbStep(t)

EndConnStep(t) == RemoveQueueAtEnd(t) \/ Exit(t)

Next == \/ \E w \in Workers : Serve(w) \/ WorkerStep(w)
        \/ \E l \in Listeners : Connect(l)
        \/ \E t \in MessageListeners : ListenerStep(t)
        \/ \E t \in Listeners \union {Main} : EndConnStep(t)
        \/ Sense \/ RaiseAlert \/ RaiseEmergency \/ SenderExits
        \/ Signal \/ Crash \/ Restart

Spec == Init /\ [][Next]_vars
===============================================================================
