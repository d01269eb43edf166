------------------------ MODULE RefugeServerProperties ------------------------
(***************************************************************************)
(* What is claimed of RefugeServer: its types, safety invariants, action   *)
(* properties, the abstract store it implements, and liveness under the    *)
(* fairness of its scheduling.                                             *)
(***************************************************************************)
EXTENDS RefugeServer, Functions

Store == INSTANCE RefugeStore

(* A worker's request, as its caller sees it. *)
CallOf(r) == CASE r.kind = "none" -> "none"
               [] r.kind = "setsupplies" /\ r.body = Nothing -> "malformed set"
               [] r.kind = "setsupplies" /\ r.body # Nothing -> "set"
               [] OTHER -> "unguarded"

Http == INSTANCE HttpService WITH Callers <- Workers,
                                  permit <- ~Leaked,
                                  call <- [w \in Workers |-> CallOf(request[w])]

(* ---------------------------- Invariants ------------------------------- *)

DbPoints == {"acquire", "open", "get", "put", "close", "release"}

Points == DbPoints \union {"idle", "absent", "receive", "join", "end", "exit"}

PcOf(t) == IF t \in Workers THEN DbPoints \union {"idle"}
           ELSE IF t \in Listeners
                THEN DbPoints \union {"absent", "receive", "end", "exit"}
           ELSE IF t = AlertListener THEN DbPoints \union {"receive"}
           ELSE {"join", "end", "exit"}

Values == AlertTable \union SupplyTable \union Emergencies \union {Nothing}

RequestRecords == [kind : RequestKinds \union {"none"},
                   body : SetBodies \union {Nothing},
                   stage : 1 .. 4,
                   text : Values,
                   report : [Sections -> Values]]

Messages == Locations \union EmergencyMessages \union {Nothing}

DataTypeOK == /\ store \in Stores
              /\ dbHolder \in DbUsers \union {NoThread}
              /\ copy \in [DbUsers -> Values]

QueueRecords == [live : BOOLEAN, zeroId : BOOLEAN,
                 alerts : Seq(Locations), emergencies : Seq(EmergencyMessages)]

QueueTypeOK == /\ queues \in [Keys -> QueueRecords]
               /\ key \in Keys
               /\ message \in [MessageListeners -> Messages]

ThreadTypeOK == /\ pc \in [Threads -> Points]
                /\ \A t \in Threads : pc[t] \in PcOf(t)
                /\ semaphore \in 0 .. Permits

RequestTypeOK == request \in [Workers -> RequestRecords]

ProcessTypeOK == /\ status \in {"up", "success", "failure", "killed"}
                 /\ run \in 1 .. MaxRuns
                 /\ killed \subseteq 1 .. run
                 /\ sensor \in 1 .. Len(Entries)
                 /\ sensorPc \in {"sense", "send"}
                 /\ alertsSent \in 0 .. MaxAlerts
                 /\ emergencyPc \in {"sleep", "done"}

(* Every variable has its type; each thread is at a point of its own code. *)
TypeOK == DataTypeOK /\ QueueTypeOK /\ ThreadTypeOK /\ RequestTypeOK /\ ProcessTypeOK

(* The semaphore excludes: the code between acquire() and release() of      *)
(* /setsupplies and of the two listeners is never run by two threads.       *)
PermitExcludes ==
  \A t, u \in DbUsers : HoldsPermit(t) /\ HoldsPermit(u) => t = u

(* A wrapper lives exactly as long as its thread is inside the code that    *)
(* constructed it, whichever way the thread leaves it.                      *)
WrapperScoped ==
  \A t \in DbUsers : dbHolder = t <=> pc[t] \in {"get", "put", "close"}

(* What set_supply() and the listeners are about to write back was computed *)
(* from the section as it still is.                                         *)
CopyIsCurrent ==
  \A t \in DbUsers : Updates(t) /\ pc[t] = "put" => copy[t] = store[SectionOf(t)]

(* A thread that holds the permit can fail to open the database only        *)
(* because a request that never asks for the permit has it open: among      *)
(* those that do ask, the semaphore is enough.                              *)
BusyOnlyForUnguarded ==
  \A t \in DbUsers :
    HoldsPermit(t) /\ pc[t] = "open" /\ ~DbFree => ~Updates(dbHolder)

(* The sections GET /database has collected so far, three get()s of which   *)
(* are one after the other, are all as they are stored at this moment.      *)
ReportConsistent ==
  \A w \in Workers :
    Requests(w, {"database"}) /\ pc[w] \in {"get", "close"} =>
      \A i \in 1 .. request[w].stage - 1 :
        store[SectionAt[i]] # Nothing =>
          request[w].report[SectionAt[i]] = store[SectionAt[i]]

(* A process that ended by itself, through end_conn() or by the exit() of a  *)
(* sender, leaves no message behind, be it one it inherited, and its queue   *)
(* only if the sender took the identifier 0 of a good queue for an error.    *)
OrderlyEndLeavesNoQueue ==
  ~Up /\ status # "killed" =>
    /\ alerts = <<>> /\ emergencies = <<>>
    /\ queueLive => status = "failure" /\ zeroId

(* No message of the emergency module reaches two listeners: the listeners  *)
(* of one process that have received one have it from different runs.       *)
EmergencyHandledOnce ==
  \A l, m \in Listeners :
    message[l] # Nothing /\ message[l] = message[m] => l = m

(* Nothing is lost on the way of an alert: those sent are in the queue, in  *)
(* the listener's hands or in the counters, until end_conn() throws the     *)
(* queue away or the process is killed.  (Not so when requests use the      *)
(* database unguarded, or the counters are missing.)                        *)
CountedAlerts == SumFunction([l \in Locations |-> store.alerts[l] - SeedAlerts[l]])
AlertsInHand == IF pc[AlertListener] \in {"acquire", "open", "get", "put"} THEN 1 ELSE 0

AlertsConserved ==
  Up /\ queueLive /\ run = 1 => alertsSent = CountedAlerts + AlertsInHand + Len(alerts)

(* What keeps the invariants above, action by action.                       *)

(* The permit is out whenever a thread holds it.                            *)
PermitAccounted ==
  (\E t \in DbUsers : HoldsPermit(t)) => semaphore = 0

(* Where a worker is agrees with the request it serves.                     *)
RequestShape ==
  \A w \in Workers :
    /\ pc[w] = "idle" <=> request[w].kind = "none"
    /\ pc[w] \in {"acquire", "release"} => request[w].kind = "setsupplies"
    /\ pc[w] = "put" => request[w].kind \in {"setsupplies", "deletesupplies", "initdb"}
    /\ pc[w] = "put" /\ request[w].kind = "setsupplies" => request[w].body \in SetBodies
    /\ pc[w] \in {"acquire", "open", "get", "put"} => request[w].stage \in 1 .. 3

(* A listener that is at work has the message it works on.                  *)
MessageShape ==
  /\ \A l \in Listeners :
       pc[l] \in {"acquire", "open", "get", "put"} => message[l] \in EmergencyMessages
  /\ pc[AlertListener] \in {"acquire", "open", "get", "put"} =>
       message[AlertListener] \in Locations

AlertBound == sensorPc = "send" => alertsSent < MaxAlerts

Inductive == /\ TypeOK /\ PermitExcludes /\ PermitAccounted
             /\ WrapperScoped /\ CopyIsCurrent
             /\ RequestShape /\ MessageShape /\ AlertBound

(* The queue is removed, with what it holds, before exit(), and a process   *)
(* that goes on without one is about to end.  Nothing is ever sent to the   *)
(* queue whose identifier is 0.                                             *)
QueueShape ==
  /\ \A t \in Threads : pc[t] = "exit" => ~queueLive
  /\ \A k \in Keys : ~queues[k].live \/ queues[k].zeroId =>
       queues[k].alerts = <<>> /\ queues[k].emergencies = <<>>
  /\ Up /\ ~queueLive => \E t \in Threads : pc[t] = "exit"
  /\ ~Up => \A t \in Threads : pc[t] # "exit"
  /\ status = "success" => ~queueLive
  /\ status = "failure" => ~queueLive \/ zeroId

(* Whatever lies in a queue, those of other keys included, was sent in this *)
(* run or in one that was killed.                                           *)
LeftByKilled ==
  /\ Up => run \notin killed
  /\ \A k \in Keys : \A i \in DOMAIN queues[k].emergencies :
       \/ queues[k].emergencies[i].sentIn \in killed
       \/ Up /\ k = key /\ queues[k].emergencies[i].sentIn = run
  /\ \A k \in Keys : queues[k].alerts # <<>> => killed # {} \/ (Up /\ k = key)

(* A request is at its first section until it has the database open, and    *)
(* what /setsupplies writes has been parsed.                                *)
RequestProgress ==
  \A w \in Workers :
    /\ pc[w] \in {"acquire", "open"} => request[w].stage = 1
    /\ Requests(w, {"setsupplies"}) /\ pc[w] \in {"put", "close", "release"} =>
         request[w].body # Nothing

(* The emergencies in the queues and in the listeners' hands are of runs    *)
(* before r.                                                                *)
SentBefore(r) ==
  /\ \A k \in Keys : \A i \in DOMAIN queues[k].emergencies : queues[k].emergencies[i].sentIn < r
  /\ \A l \in Listeners : message[l] # Nothing => message[l].sentIn < r

(* They are of different runs, and a run that has not sent its own yet is   *)
(* later than all of them.                                                  *)
EmergencyShape ==
  /\ \A l \in Listeners : message[l] \in EmergencyMessages \union {Nothing}
  /\ SentBefore(run + 1)
  /\ Up /\ emergencyPc = "sleep" => SentBefore(run)
  /\ \A k, m \in Keys : \A i \in DOMAIN queues[k].emergencies, j \in DOMAIN queues[m].emergencies :
       queues[k].emergencies[i].sentIn = queues[m].emergencies[j].sentIn => k = m /\ i = j
  /\ \A l \in Listeners : message[l] # Nothing =>
       /\ \A k \in Keys : \A i \in DOMAIN queues[k].emergencies :
            queues[k].emergencies[i].sentIn # message[l].sentIn
       /\ \A m \in Listeners :
            message[m] # Nothing /\ message[m].sentIn = message[l].sentIn => m = l

(* Where every request asks for the permit and the counters are there at    *)
(* the start, they stay there, and no alert is lost.                        *)
GuardedKinds == Kinds \subseteq {"setsupplies"} /\ StartStores \subseteq {SeedStore}

AlertShape ==
  /\ \A w \in Workers : request[w].kind \in Kinds \union {"none"}
  /\ CanCount(store.alerts)
  /\ AlertsConserved

(* All inductive invariants of the proofs. *)
ProofInvariant ==
  Inductive /\ QueueShape /\ LeftByKilled /\ RequestProgress /\ EmergencyShape

(* -------------------------- Action properties -------------------------- *)

(* The permit is lost only by a /setsupplies that fails between acquire()   *)
(* and release(); an exception in a listener never costs it.                *)
LeakedOnlyByFailedSet ==
  [][~Leaked /\ Leaked' =>
       \E w \in Workers : Requests(w, {"setsupplies"}) /\ pc[w] \in {"open", "get"}
                          /\ pc'[w] = "idle"]_vars

(* exit(EXIT_FAILURE) by a sender happens only after end_conn() has removed *)
(* the queue under it, or because the queue's identifier is 0: never        *)
(* because the queue is full.                                               *)
FailureNeedsCause ==
  [][Up /\ status' = "failure" => zeroId \/ \E t \in Threads : pc[t] = "exit"]_vars

(* Only runs that were killed leave messages to later ones, through however *)
(* many processes a queue is passed on.                                     *)
StaleOnlyAfterKill ==
  [][run' # run =>
       /\ \A i \in DOMAIN emergencies' : emergencies'[i].sentIn \in killed
       /\ alerts' # <<>> => killed # {}]_vars

(* The database only ever changes by whole operations on its current state. *)
ImplementsStore == Store!Spec

(* Towards its callers the server is what ClientSession takes it for: no     *)
(* /setsupplies is answered without a permit, unless its failure is what     *)
(* loses it, and that needs a malformed body or a request that uses the      *)
(* database unguarded.  (That an answer comes at all is no part of this.)    *)
ImplementsHttp == Http!Spec

(* ------------------------------ Liveness ------------------------------- *)

(* Every thread goes on while it can.  Clients, signals, crashes and the    *)
(* operator who restarts the process owe nothing.                           *)
Fairness ==
  /\ \A w \in Workers : WF_vars(WorkerStep(w))
  /\ \A t \in MessageListeners : WF_vars(ListenerStep(t))
  /\ \A t \in Listeners \union {Main} : WF_vars(EndConnStep(t))
  /\ WF_vars(RaiseAlert) /\ WF_vars(RaiseEmergency) /\ WF_vars(SenderExits)

FairSpec == Spec /\ Fairness

(* The semaphore keeps no order among those who wait, so nobody is promised *)
(* the permit while others keep taking it.                                  *)
OthersLeaveIt ==
  <>[](\A t \in DbUsers \ Listeners : Updates(t) => pc[t] \in {"idle", "receive"})

Connected == Up /\ \E l \in Listeners : pc[l] = "receive"

(* doc/emergency.md: once a client is connected, the emergency ends the     *)
(* server.                                                                  *)
EmergencyEndsServer == OthersLeaveIt => (Connected ~> ~Up)

(* It does, unless the permit was lost first.                               *)
EmergencyEndsUnlessLeaked == OthersLeaveIt => (Connected ~> (~Up \/ Leaked))
===============================================================================
