-------------------------- MODULE RefugeServerProofs --------------------------
(***************************************************************************)
(* The theorems about RefugeServer, for every number of threads, locations *)
(* and supplies, every seed and every bound: the conjunction Inductive is  *)
(* an inductive invariant, and what follows from it.                       *)
(***************************************************************************)
EXTENDS RefugeServerDbProofs

-------------------------------------------------------------------------------
(* The initial states and the steps that use neither semaphore nor database. *)

(* The queue of the process is one of those of the kernel. *)
LEMMA QueueTyped ==
  ASSUME QueueTypeOK
  PROVE  /\ alerts \in Seq(Locations) /\ emergencies \in Seq(EmergencyMessages)
         /\ queueLive \in BOOLEAN /\ zeroId \in BOOLEAN
  BY DEF QueueTypeOK, QueueRecords, alerts, emergencies, queueLive, zeroId

(* What a step of the queue leaves as it was. *)
OtherQueuesKept == /\ key' = key
                   /\ \A k \in Keys \ {key} : queues'[k] = queues[k]

(* A queue with other messages is a queue, and as live as before. *)
LEMMA ChangedQueueTyped ==
  ASSUME NEW q \in QueueRecords
  PROVE  /\ \A s \in Seq(Locations) :
              LET n == [q EXCEPT !.alerts = s] IN
              /\ n \in QueueRecords /\ n.live = q.live /\ n.zeroId = q.zeroId
              /\ n.alerts = s /\ n.emergencies = q.emergencies
         /\ \A s \in Seq(EmergencyMessages) :
              LET n == [q EXCEPT !.emergencies = s] IN
              /\ n \in QueueRecords /\ n.live = q.live /\ n.zeroId = q.zeroId
              /\ n.alerts = q.alerts /\ n.emergencies = s
  BY DEF QueueRecords

(* An alert is sent to the end of the process's own queue. *)
LEMMA SendAlertFacts ==
  ASSUME QueueTypeOK, NEW m \in Locations, SendAlert(m)
  PROVE  /\ queues' \in [Keys -> QueueRecords] /\ OtherQueuesKept
         /\ alerts' = Append(alerts, m) /\ emergencies' = emergencies
         /\ queueLive /\ queueLive' = queueLive /\ ~zeroId /\ zeroId' = zeroId
  <1>1. Append(alerts, m) \in Seq(Locations) /\ queues[key] \in QueueRecords
    BY QueueTyped DEF QueueTypeOK
  <1>2. queues' = [queues EXCEPT ![key] = [queues[key] EXCEPT !.alerts = Append(alerts, m)]] /\ key' = key
    BY DEF SendAlert, alerts
  <1> DEFINE new == [queues[key] EXCEPT !.alerts = Append(alerts, m)]
  <1>3. /\ new \in QueueRecords /\ new.live = queueLive /\ new.zeroId = zeroId
        /\ new.alerts = Append(alerts, m) /\ new.emergencies = emergencies
    BY <1>1, ChangedQueueTyped DEF emergencies, queueLive, zeroId
  <1>4. queues'[key] = new /\ key \in Keys
    BY <1>2 DEF QueueTypeOK
  <1> HIDE DEF new
  <1>5. queues' \in [Keys -> QueueRecords] /\ OtherQueuesKept
    BY <1>2, <1>3, <1>4 DEF new, QueueTypeOK, OtherQueuesKept
  <1>6. /\ alerts' = Append(alerts, m) /\ emergencies' = emergencies
        /\ queueLive' = queueLive /\ zeroId' = zeroId
    BY <1>2, <1>3, <1>4 DEF alerts, emergencies, queueLive, zeroId
  <1> QED
    BY <1>5, <1>6 DEF SendAlert, CanSend

(* So is an emergency. *)
LEMMA SendEmergencyFacts ==
  ASSUME QueueTypeOK, NEW m \in EmergencyMessages, SendEmergency(m)
  PROVE  /\ queues' \in [Keys -> QueueRecords] /\ OtherQueuesKept
         /\ emergencies' = Append(emergencies, m) /\ alerts' = alerts
         /\ queueLive /\ queueLive' = queueLive /\ ~zeroId /\ zeroId' = zeroId
  <1>1. Append(emergencies, m) \in Seq(EmergencyMessages) /\ queues[key] \in QueueRecords
    BY QueueTyped DEF QueueTypeOK
  <1>2. queues' = [queues EXCEPT ![key] = [queues[key] EXCEPT !.emergencies = Append(emergencies, m)]] /\ key' = key
    BY DEF SendEmergency, emergencies
  <1> DEFINE new == [queues[key] EXCEPT !.emergencies = Append(emergencies, m)]
  <1>3. /\ new \in QueueRecords /\ new.live = queueLive /\ new.zeroId = zeroId
        /\ new.emergencies = Append(emergencies, m) /\ new.alerts = alerts
    BY <1>1, ChangedQueueTyped DEF alerts, queueLive, zeroId
  <1>4. queues'[key] = new /\ key \in Keys
    BY <1>2 DEF QueueTypeOK
  <1> HIDE DEF new
  <1>5. queues' \in [Keys -> QueueRecords] /\ OtherQueuesKept
    BY <1>2, <1>3, <1>4 DEF new, QueueTypeOK, OtherQueuesKept
  <1>6. /\ emergencies' = Append(emergencies, m) /\ alerts' = alerts
        /\ queueLive' = queueLive /\ zeroId' = zeroId
    BY <1>2, <1>3, <1>4 DEF alerts, emergencies, queueLive, zeroId
  <1> QED
    BY <1>5, <1>6 DEF SendEmergency, CanSend

(* The oldest alert is taken from the process's own queue. *)
LEMMA ReceiveAlertFacts ==
  ASSUME QueueTypeOK, ReceiveAlert
  PROVE  /\ queues' \in [Keys -> QueueRecords] /\ OtherQueuesKept
         /\ alerts # <<>> /\ alerts' = Tail(alerts) /\ emergencies' = emergencies
         /\ Head(alerts) \in Locations
         /\ queueLive /\ queueLive' = queueLive /\ zeroId' = zeroId
  <1>1. alerts \in Seq(Locations) /\ alerts # <<>>
    BY QueueTyped DEF ReceiveAlert
  <1>2. /\ Tail(alerts) \in Seq(Locations) /\ Head(alerts) \in Locations
        /\ queues[key] \in QueueRecords
    BY <1>1 DEF QueueTypeOK
  <1>3. queues' = [queues EXCEPT ![key] = [queues[key] EXCEPT !.alerts = Tail(alerts)]] /\ key' = key
    BY DEF ReceiveAlert, alerts
  <1> DEFINE new == [queues[key] EXCEPT !.alerts = Tail(alerts)]
  <1>4. /\ new \in QueueRecords /\ new.live = queueLive /\ new.zeroId = zeroId
        /\ new.alerts = Tail(alerts) /\ new.emergencies = emergencies
    BY <1>2, ChangedQueueTyped DEF emergencies, queueLive, zeroId
  <1>5. queues'[key] = new /\ key \in Keys
    BY <1>3 DEF QueueTypeOK
  <1> HIDE DEF new
  <1>6. queues' \in [Keys -> QueueRecords] /\ OtherQueuesKept
    BY <1>3, <1>4, <1>5 DEF new, QueueTypeOK, OtherQueuesKept
  <1>7. /\ alerts' = Tail(alerts) /\ emergencies' = emergencies
        /\ queueLive' = queueLive /\ zeroId' = zeroId
    BY <1>3, <1>4, <1>5 DEF alerts, emergencies, queueLive, zeroId
  <1> QED
    BY <1>1, <1>2, <1>6, <1>7 DEF ReceiveAlert

(* So is the oldest emergency. *)
LEMMA ReceiveEmergencyFacts ==
  ASSUME QueueTypeOK, ReceiveEmergency
  PROVE  /\ queues' \in [Keys -> QueueRecords] /\ OtherQueuesKept
         /\ emergencies # <<>> /\ emergencies' = Tail(emergencies) /\ alerts' = alerts
         /\ Head(emergencies) \in EmergencyMessages
         /\ queueLive /\ queueLive' = queueLive /\ zeroId' = zeroId
  <1>1. emergencies \in Seq(EmergencyMessages) /\ emergencies # <<>>
    BY QueueTyped DEF ReceiveEmergency
  <1>2. /\ Tail(emergencies) \in Seq(EmergencyMessages) /\ Head(emergencies) \in EmergencyMessages
        /\ queues[key] \in QueueRecords
    BY <1>1 DEF QueueTypeOK
  <1>3. queues' = [queues EXCEPT ![key] = [queues[key] EXCEPT !.emergencies = Tail(emergencies)]] /\ key' = key
    BY DEF ReceiveEmergency, emergencies
  <1> DEFINE new == [queues[key] EXCEPT !.emergencies = Tail(emergencies)]
  <1>4. /\ new \in QueueRecords /\ new.live = queueLive /\ new.zeroId = zeroId
        /\ new.emergencies = Tail(emergencies) /\ new.alerts = alerts
    BY <1>2, ChangedQueueTyped DEF alerts, queueLive, zeroId
  <1>5. queues'[key] = new /\ key \in Keys
    BY <1>3 DEF QueueTypeOK
  <1> HIDE DEF new
  <1>6. queues' \in [Keys -> QueueRecords] /\ OtherQueuesKept
    BY <1>3, <1>4, <1>5 DEF new, QueueTypeOK, OtherQueuesKept
  <1>7. /\ emergencies' = Tail(emergencies) /\ alerts' = alerts
        /\ queueLive' = queueLive /\ zeroId' = zeroId
    BY <1>3, <1>4, <1>5 DEF alerts, emergencies, queueLive, zeroId
  <1> QED
    BY <1>1, <1>2, <1>6, <1>7 DEF ReceiveEmergency

(* A queue that does not exist holds nothing, and neither does a new one. *)
LEMMA NoQueueTyped ==
  /\ NoQueue \in QueueRecords
  /\ \A zero \in BOOLEAN :
       /\ NewQueue(zero) \in QueueRecords
       /\ NewQueue(zero).live /\ NewQueue(zero).zeroId = zero
       /\ NewQueue(zero).alerts = <<>> /\ NewQueue(zero).emergencies = <<>>
  <1>1. <<>> \in Seq(Locations) /\ <<>> \in Seq(EmergencyMessages)
    OBVIOUS
  <1> QED
    BY <1>1 DEF NoQueue, NewQueue, QueueRecords

(* end_conn() leaves the process without a queue. *)
LEMMA RemoveQueueFacts ==
  ASSUME QueueTypeOK, RemoveQueue
  PROVE  /\ queues' \in [Keys -> QueueRecords] /\ OtherQueuesKept
         /\ alerts' = <<>> /\ emergencies' = <<>> /\ queueLive' = FALSE /\ zeroId' = FALSE
  BY NoQueueTyped DEF QueueTypeOK, RemoveQueue, OtherQueuesKept, alerts, emergencies, queueLive,
     zeroId, NoQueue

(* A new process has a queue, and leaves every queue that exists as it is. *)
LEMMA CreateQueueFacts ==
  ASSUME QueueTypeOK, CreateQueue
  PROVE  /\ queues' \in [Keys -> QueueRecords] /\ key' \in Keys /\ queueLive'
         /\ \A k \in Keys :
              \/ queues'[k] = queues[k]
              \/ ~queues[k].live /\ queues'[k].alerts = <<>> /\ queues'[k].emergencies = <<>>
  <1>1. PICK k \in Keys :
          /\ key' = k
          /\ \/ queues[k].live /\ UNCHANGED queues
             \/ /\ ~queues[k].live
                /\ \E zero \in BOOLEAN : queues' = [queues EXCEPT ![k] = NewQueue(zero)]
    BY DEF CreateQueue
  <1>2. CASE queues[k].live /\ UNCHANGED queues
    BY <1>1, <1>2 DEF QueueTypeOK, queueLive
  <1>3. ASSUME ~queues[k].live, NEW zero \in BOOLEAN, queues' = [queues EXCEPT ![k] = NewQueue(zero)]
        PROVE  /\ queues' \in [Keys -> QueueRecords] /\ queues'[k].live
               /\ queues'[k].alerts = <<>> /\ queues'[k].emergencies = <<>>
               /\ \A j \in Keys \ {k} : queues'[j] = queues[j]
    BY <1>3, NoQueueTyped DEF QueueTypeOK
  <1> QED
    BY <1>1, <1>2, <1>3 DEF queueLive

(* The first sensor is that of an entry, and so is the next one after any. *)
LEMMA SensorFacts ==
  /\ 1 \in 1 .. Len(Entries)
  /\ \A s \in 1 .. Len(Entries) : (s % Len(Entries)) + 1 \in 1 .. Len(Entries)
  <1>1. Len(Entries) \in Nat /\ Len(Entries) > 0
    BY ServerAssumption
  <1> QED
    BY <1>1

(* What every thread and variable of a new process starts with is in its type. *)
LEMMA StartTyped ==
  /\ StartPc \in [Threads -> Points]
  /\ \A t \in Threads : StartPc[t] \in PcOf(t)
  /\ \A t \in DbUsers : StartPc[t] \notin DbPoints
  /\ \A w \in Workers : StartPc[w] = "idle"
  /\ NoRequest \in RequestRecords /\ NoRequest.kind = "none"
  /\ Nothing \in Values /\ Nothing \in Messages
  <1>1. /\ StartPc \in [Threads -> Points]
        /\ \A t \in Threads : StartPc[t] \in PcOf(t)
        /\ \A t \in DbUsers : StartPc[t] \notin DbPoints
        /\ \A w \in Workers : StartPc[w] = "idle"
    BY ServerAssumption DEF StartPc, PcOf, Points, DbPoints, Threads, DbUsers, MessageListeners
  <1>2. Nothing \in Values /\ Nothing \in Messages
    BY DEF Values, Messages
  <1>3. NoRequest \in RequestRecords /\ NoRequest.kind = "none"
    BY <1>2 DEF NoRequest, Request, NoReport, RequestRecords
  <1> QED
    BY <1>1, <1>2, <1>3

(* A process that has just started, on any database and queue. *)
LEMMA InductiveInit == Init => Inductive
  <1> SUFFICES ASSUME Init PROVE Inductive
    OBVIOUS
  <1> USE DataAssumption, ServerAssumption, StartTyped DEF Init
  <1>1. DataTypeOK
    BY DEF DataTypeOK, Stores, EmptyStore, SeedStore, Emergencies
  <1>2. QueueTypeOK /\ ThreadTypeOK /\ RequestTypeOK
    BY NoQueueTyped DEF QueueTypeOK, ThreadTypeOK, RequestTypeOK, Permits
  <1>3. ProcessTypeOK
    BY SensorFacts DEF ProcessTypeOK
  <1>4. PermitExcludes /\ PermitAccounted /\ WrapperScoped /\ CopyIsCurrent
    BY DEF PermitExcludes, PermitAccounted, WrapperScoped, CopyIsCurrent, HoldsPermit, DbPoints,
       Threads
  <1>5. RequestShape /\ MessageShape /\ AlertBound
    BY DEF RequestShape, MessageShape, AlertBound, DbUsers, MessageListeners, DbPoints
  <1> QED
    BY <1>1, <1>2, <1>3, <1>4, <1>5 DEF Inductive, TypeOK

(* However a process ends, its database is as the last put() left it and the
   rest is gone. *)
LEMMA EndProcessInductive ==
  ASSUME Inductive, NEW how \in {"success", "failure", "killed"}, EndProcess(how),
         UNCHANGED queueVars
  PROVE  Inductive'
  <1> USE ServerAssumption, StartTyped DEF Inductive, TypeOK, EndProcess, Forget
  <1>1. DataTypeOK'
    BY DEF DataTypeOK
  <1>2. QueueTypeOK' /\ ThreadTypeOK' /\ RequestTypeOK'
    BY DEF QueueTypeOK, ThreadTypeOK, RequestTypeOK, Permits, queueVars
  <1>3. ProcessTypeOK'
    <2>1. run \in 1 .. run /\ killed \subseteq 1 .. run /\ run' = run /\ run' \in 1 .. MaxRuns
      BY DEF ProcessTypeOK
    <2>2. killed' = killed \/ killed' = killed \union {run}
      OBVIOUS
    <2>3. /\ status' \in {"up", "success", "failure", "killed"}
          /\ sensor' \in 1 .. Len(Entries) /\ sensorPc' \in {"sense", "send"}
          /\ alertsSent' \in 0 .. MaxAlerts /\ emergencyPc' \in {"sleep", "done"}
      BY SensorFacts
    <2> HIDE DEF EndProcess
    <2> QED
      BY <2>1, <2>2, <2>3 DEF ProcessTypeOK
  <1>4. PermitExcludes' /\ PermitAccounted' /\ WrapperScoped' /\ CopyIsCurrent'
    BY DEF PermitExcludes, PermitAccounted, WrapperScoped, CopyIsCurrent, HoldsPermit, DbPoints,
       Threads
  <1>5. RequestShape' /\ MessageShape' /\ AlertBound'
    BY DEF RequestShape, MessageShape, AlertBound, DbUsers, MessageListeners, DbPoints
  <1> QED
    BY <1>1, <1>2, <1>3, <1>4, <1>5

(* The points a thread reaches without the database. *)
Outside == {"absent", "receive", "acquire", "join", "end", "exit"}

(* A step outside the database's code keeps everything that is said of it.  *)
LEMMA OutsideKept ==
  ASSUME Inductive, NEW t \in Threads \ Workers, pc[t] \in Outside,
         NEW p \in PcOf(t) \intersect Points \intersect Outside, Goto(t, p),
         UNCHANGED <<dbVars, semaphore, request, copy>>
  PROVE  /\ DataTypeOK' /\ ThreadTypeOK' /\ RequestTypeOK'
         /\ PermitExcludes' /\ PermitAccounted' /\ WrapperScoped' /\ CopyIsCurrent'
         /\ RequestShape'
         /\ pc'[t] = p /\ \A u \in Threads \ {t} : pc'[u] = pc[u]
  <1> USE DEF Inductive, TypeOK, dbVars
  <1>1. /\ pc' \in [Threads -> Points] /\ \A u \in Threads : pc'[u] \in PcOf(u)
        /\ pc'[t] = p /\ \A u \in Threads \ {t} : pc'[u] = pc[u]
    BY GotoFacts
  <1>2. DataTypeOK' /\ ThreadTypeOK' /\ RequestTypeOK'
    BY <1>1 DEF DataTypeOK, ThreadTypeOK, RequestTypeOK
  <1>3. RequestShape'
    BY <1>1 DEF RequestShape, Threads, DbUsers
  <1>4. CASE t \in DbUsers
    <2>1. Frame(t) /\ (InCode(t)' <=> InCode(t))
      BY <1>1 DEF Frame, InCode, Outside
    <2>2. ~HoldsPermit(t)'
      BY <1>1 DEF HoldsPermit, Outside
    <2>3. PermitExcludes' /\ PermitAccounted'
      BY <1>4, <2>1, <2>2, PermitKept
    <2>4. WrapperScoped'
      BY <1>4, <2>1, WrapperKept
    <2>5. CopyIsCurrent'
      BY <1>1, <1>4, <2>1, CopyKept DEF Outside
    <2> QED
      BY <1>1, <1>2, <1>3, <2>3, <2>4, <2>5
  <1>5. CASE t \notin DbUsers
    <2>1. \A u \in DbUsers : pc'[u] = pc[u]
      BY <1>1, <1>5 DEF Threads
    <2>2. PermitExcludes' /\ PermitAccounted' /\ WrapperScoped' /\ CopyIsCurrent'
      BY <2>1 DEF PermitExcludes, PermitAccounted, WrapperScoped, CopyIsCurrent, HoldsPermit,
         Updates, Requests, SectionOf
    <2> QED
      BY <1>1, <1>2, <1>3, <2>2
  <1> QED
    BY <1>4, <1>5

(* No thread moves. *)
LEMMA ThreadsKept ==
  ASSUME Inductive, UNCHANGED <<dbVars, semaphore, request, copy, pc>>
  PROVE  /\ DataTypeOK' /\ ThreadTypeOK' /\ RequestTypeOK'
         /\ PermitExcludes' /\ PermitAccounted' /\ WrapperScoped' /\ CopyIsCurrent'
         /\ RequestShape'
  <1> USE DEF Inductive, TypeOK, dbVars
  <1>1. DataTypeOK' /\ ThreadTypeOK' /\ RequestTypeOK' /\ RequestShape'
    BY DEF DataTypeOK, ThreadTypeOK, RequestTypeOK, RequestShape
  <1>2. PermitExcludes' /\ PermitAccounted' /\ WrapperScoped' /\ CopyIsCurrent'
    BY DEF PermitExcludes, PermitAccounted, WrapperScoped, CopyIsCurrent, HoldsPermit,
       Updates, Requests, SectionOf
  <1> QED
    BY <1>1, <1>2

(* A new connection starts its emergency listener. *)
LEMMA ConnectInductive ==
  ASSUME Inductive, NEW l \in Listeners, Connect(l)
  PROVE  Inductive'
  <1> USE DEF Inductive, TypeOK, dbThreadVars, queueVars, processVars, moduleVars
  <1>1. /\ l \in Threads \ Workers /\ pc[l] \in Outside /\ Goto(l, "receive")
        /\ "receive" \in PcOf(l) \intersect Points \intersect Outside
    BY ServerAssumption DEF Connect, At, Outside, PcOf, Points, Threads, DbUsers,
       MessageListeners
  <1>2. QueueTypeOK' /\ ProcessTypeOK' /\ AlertBound'
    BY DEF Connect, QueueTypeOK, ProcessTypeOK, AlertBound
  <1>3. MessageShape'
    BY <1>1, OutsideKept, ServerAssumption DEF Connect, MessageShape, Threads, DbUsers,
       MessageListeners
  <1> QED
    BY <1>1, <1>2, <1>3, OutsideKept DEF Connect

(* SIGINT or SIGTERM moves the main thread to end_conn(). *)
LEMMA SignalInductive ==
  ASSUME Inductive, Signal
  PROVE  Inductive'
  <1> USE DEF Inductive, TypeOK, dbThreadVars, queueVars, processVars, moduleVars
  <1>1. /\ Main \in Threads \ Workers /\ pc[Main] \in Outside /\ Goto(Main, "end")
        /\ "end" \in PcOf(Main) \intersect Points \intersect Outside
    BY ServerAssumption DEF Signal, At, Outside, PcOf, Points, Threads, DbUsers,
       MessageListeners
  <1>2. QueueTypeOK' /\ ProcessTypeOK' /\ AlertBound'
    BY DEF Signal, QueueTypeOK, ProcessTypeOK, AlertBound
  <1>3. MessageShape'
    BY <1>1, OutsideKept, ServerAssumption DEF Signal, MessageShape, Threads, DbUsers,
       MessageListeners
  <1> QED
    BY <1>1, <1>2, <1>3, OutsideKept DEF Signal

(* end_conn() removes the queue. *)
LEMMA RemoveQueueAtEndInductive ==
  ASSUME Inductive, NEW t \in Listeners \union {Main}, RemoveQueueAtEnd(t)
  PROVE  Inductive'
  <1> USE DEF Inductive, TypeOK, dbThreadVars, processVars, moduleVars
  <1>1. /\ t \in Threads \ Workers /\ pc[t] \in Outside /\ Goto(t, "exit")
        /\ "exit" \in PcOf(t) \intersect Points \intersect Outside
    BY ServerAssumption DEF RemoveQueueAtEnd, At, Outside, PcOf, Points, Threads, DbUsers,
       MessageListeners
  <1>2. QueueTypeOK' /\ ProcessTypeOK' /\ AlertBound'
    <2>1. queues' \in [Keys -> QueueRecords] /\ key' = key /\ message' = message
      BY RemoveQueueFacts DEF RemoveQueueAtEnd, OtherQueuesKept
    <2>3. QueueTypeOK'
      BY <2>1 DEF QueueTypeOK
    <2> QED
      BY <2>3 DEF RemoveQueueAtEnd, ProcessTypeOK, AlertBound
  <1>3. MessageShape'
    BY <1>1, OutsideKept, ServerAssumption DEF RemoveQueueAtEnd, MessageShape, Threads, DbUsers,
       MessageListeners
  <1> QED
    BY <1>1, <1>2, <1>3, OutsideKept DEF RemoveQueueAtEnd

(* msgrcv() takes the oldest message of the listener's type. *)
LEMMA ReceiveInductive ==
  ASSUME Inductive, NEW t \in MessageListeners, Receive(t)
  PROVE  Inductive'
  <1> USE DEF Inductive, TypeOK, dbThreadVars, processVars, moduleVars
  <1>1. /\ t \in Threads \ Workers /\ pc[t] \in Outside /\ Goto(t, "acquire")
        /\ "acquire" \in PcOf(t) \intersect Points \intersect Outside
    BY ServerAssumption DEF Receive, At, Outside, PcOf, Points, DbPoints, Threads, DbUsers,
       MessageListeners
  <1>2. /\ \A u \in MessageListeners \ {t} : message'[u] = message[u]
        /\ t = AlertListener => message'[t] \in Locations
        /\ t \in Listeners => message'[t] \in EmergencyMessages
        /\ QueueTypeOK'
    <2>1. CASE /\ t = AlertListener /\ ReceiveAlert
               /\ message' = [message EXCEPT ![t] = Head(alerts)]
      BY <2>1, ReceiveAlertFacts, ServerAssumption DEF QueueTypeOK, OtherQueuesKept, Messages
    <2>2. CASE /\ t \in Listeners /\ ReceiveEmergency
               /\ message' = [message EXCEPT ![t] = Head(emergencies)]
      BY <2>2, ReceiveEmergencyFacts, ServerAssumption DEF QueueTypeOK, OtherQueuesKept, Messages
    <2> QED
      BY <2>1, <2>2 DEF Receive
  <1>3. ProcessTypeOK' /\ AlertBound'
    BY DEF Receive, ProcessTypeOK, AlertBound
  <1>4. MessageShape'
    BY <1>1, <1>2, OutsideKept, ServerAssumption DEF Receive, MessageShape, Threads, DbUsers,
       MessageListeners
  <1> QED
    BY <1>1, <1>2, <1>3, <1>4, OutsideKept DEF Receive

(* One sensor is read. *)
LEMMA SenseInductive ==
  ASSUME Inductive, Sense
  PROVE  Inductive'
  <1> USE DEF Inductive, TypeOK, dbThreadVars, queueVars, processVars
  <1>1. QueueTypeOK' /\ MessageShape'
    BY DEF Sense, QueueTypeOK, MessageShape
  <1>2. ProcessTypeOK' /\ AlertBound'
    BY SensorFacts DEF Sense, NextSensor, ProcessTypeOK, AlertBound
  <1> QED
    BY <1>1, <1>2, ThreadsKept DEF Sense

(* msgsnd() of an alert, within the bound of the alerts of one run. *)
LEMMA RaiseAlertInductive ==
  ASSUME Inductive, RaiseAlert
  PROVE  Inductive'
  <1> USE DEF Inductive, TypeOK, dbThreadVars, processVars
  <1>1. Entries[sensor] \in Locations
    BY ServerAssumption DEF ProcessTypeOK
  <1>2. QueueTypeOK' /\ MessageShape'
    BY <1>1, SendAlertFacts DEF RaiseAlert, QueueTypeOK, OtherQueuesKept, MessageShape
  <1>3. ProcessTypeOK' /\ AlertBound'
    BY SensorFacts, ServerAssumption DEF RaiseAlert, NextSensor, ProcessTypeOK, AlertBound
  <1> QED
    BY <1>2, <1>3, ThreadsKept DEF RaiseAlert

(* msgsnd() of the emergency. *)
LEMMA RaiseEmergencyInductive ==
  ASSUME Inductive, RaiseEmergency
  PROVE  Inductive'
  <1> USE DEF Inductive, TypeOK, dbThreadVars, processVars
  <1>1. PICK json \in BOOLEAN : SendEmergency([sentIn |-> run, json |-> json])
    BY DEF RaiseEmergency
  <1>2. [sentIn |-> run, json |-> json] \in EmergencyMessages
    BY DEF ProcessTypeOK, EmergencyMessages
  <1>3. QueueTypeOK' /\ MessageShape'
    BY <1>1, <1>2, SendEmergencyFacts DEF RaiseEmergency, QueueTypeOK, OtherQueuesKept, MessageShape
  <1>4. ProcessTypeOK' /\ AlertBound'
    BY DEF RaiseEmergency, ProcessTypeOK, AlertBound
  <1> QED
    BY <1>3, <1>4, ThreadsKept DEF RaiseEmergency

(* A new process gets a new queue or the one that is left. *)
LEMMA RestartInductive ==
  ASSUME Inductive, Restart
  PROVE  Inductive'
  <1> USE DEF Inductive, TypeOK, moduleVars
  <1>1. QueueTypeOK' /\ MessageShape'
    BY CreateQueueFacts DEF Restart, QueueTypeOK, MessageShape
  <1>2. ProcessTypeOK' /\ AlertBound'
    BY ServerAssumption DEF Restart, ProcessTypeOK, AlertBound
  <1> QED
    BY <1>1, <1>2, ThreadsKept DEF Restart

(* A stuttering step. *)
LEMMA StutterInductive ==
  ASSUME Inductive, UNCHANGED vars
  PROVE  Inductive'
  <1> USE DEF Inductive, TypeOK, vars
  <1>1. QueueTypeOK' /\ ProcessTypeOK'
    BY DEF QueueTypeOK, ProcessTypeOK
  <1>2. MessageShape' /\ AlertBound'
    BY DEF MessageShape, AlertBound
  <1> QED
    BY <1>1, <1>2, ThreadsKept DEF dbVars

(* Every use of the semaphore and the database by any thread. *)
LEMMA DbStepInductive ==
  ASSUME Inductive, NEW t \in DbUsers, DbStep(t)
  PROVE  Inductive'
  BY AcquireInductive, OpenDbInductive, OpenDbThrowsInductive, ReadForUpdateInductive,
     UpdateThrowsInductive, WriteBackInductive, CloseDbInductive, ReleaseInductive DEF DbStep

(* Every step of the server. *)
LEMMA NextInductive ==
  ASSUME Inductive, [Next]_vars
  PROVE  Inductive'
  <1>1. ASSUME NEW w \in Workers, Serve(w) \/ WorkerStep(w)
        PROVE  Inductive'
    BY <1>1, ServeInductive, DbStepInductive, ShowSectionInductive, ShowThrowsInductive,
       CollectSectionInductive, CollectThrowsInductive, ClearSuppliesInductive,
       SeedSectionInductive DEF WorkerStep, DbUsers
  <1>2. ASSUME NEW l \in Listeners, Connect(l)
        PROVE  Inductive'
    BY <1>2, ConnectInductive
  <1>3. ASSUME NEW t \in MessageListeners, ListenerStep(t)
        PROVE  Inductive'
    BY <1>3, ReceiveInductive, DbStepInductive DEF ListenerStep, DbUsers
  <1>4. ASSUME NEW t \in Listeners \union {Main}, EndConnStep(t)
        PROVE  Inductive'
    BY <1>4, RemoveQueueAtEndInductive, EndProcessInductive DEF EndConnStep, Exit
  <1>5. CASE SenderExits \/ Crash
    BY <1>5, EndProcessInductive DEF SenderExits, Crash
  <1>6. CASE Sense \/ RaiseAlert \/ RaiseEmergency \/ Signal \/ Restart
    BY <1>6, SenseInductive, RaiseAlertInductive, RaiseEmergencyInductive, SignalInductive,
       RestartInductive
  <1>7. CASE UNCHANGED vars
    BY <1>7, StutterInductive
  <1> QED
    BY <1>1, <1>2, <1>3, <1>4, <1>5, <1>6, <1>7 DEF Next

-------------------------------------------------------------------------------
(* What follows from the invariant. *)

(* The inductive invariant holds in every state of the server. *)
THEOREM Invariance == Spec => []Inductive
  <1>1. Init => Inductive
    BY InductiveInit
  <1>2. Inductive /\ [Next]_vars => Inductive'
    BY NextInductive
  <1> QED
    BY <1>1, <1>2, PTL DEF Spec

(* Every variable keeps its type and every thread stays in its own code; in
   particular release() never takes the semaphore beyond its one permit. *)
THEOREM TypeCorrect == Spec => []TypeOK
  <1>1. Inductive => TypeOK
    BY DEF Inductive
  <1> QED
    BY <1>1, Invariance, PTL

(* No two threads are between acquire() and release() at once: /setsupplies
   and the listeners exclude each other. *)
THEOREM SemaphoreExcludes == Spec => []PermitExcludes
  <1>1. Inductive => PermitExcludes
    BY DEF Inductive
  <1> QED
    BY <1>1, Invariance, PTL

(* A database wrapper lives exactly as long as its thread is in the code that
   constructed it: no path out of a handler leaves the directory locked. *)
THEOREM WrappersAreScoped == Spec => []WrapperScoped
  <1>1. Inductive => WrapperScoped
    BY DEF Inductive
  <1> QED
    BY <1>1, Invariance, PTL

(* The lock of the open database makes read-modify-write atomic, whether or
   not the others who use the database ask for the permit. *)
THEOREM CopiesAreCurrent == Spec => []CopyIsCurrent
  <1>1. Inductive => CopyIsCurrent
    BY DEF Inductive
  <1> QED
    BY <1>1, Invariance, PTL

(* Of two threads with the permit, only one can be at the database. *)
LEMMA GuardedMeetNobody ==
  ASSUME Inductive
  PROVE  BusyOnlyForUnguarded
  <1> SUFFICES ASSUME NEW t \in DbUsers, HoldsPermit(t), pc[t] = "open",
                      ~DbFree, Updates(dbHolder)
               PROVE  FALSE
    BY DEF BusyOnlyForUnguarded
  <1>1. dbHolder \in DbUsers /\ pc[dbHolder] \in {"get", "put", "close"}
    BY DEF Inductive, TypeOK, DataTypeOK, DbFree, WrapperScoped
  <1>2. HoldsPermit(dbHolder)
    BY <1>1 DEF HoldsPermit
  <1> QED
    BY <1>1, <1>2 DEF Inductive, PermitExcludes

(* The holder of the permit finds the database open only by a request that
   does not ask for the permit. *)
THEOREM GuardedNeverCollide == Spec => []BusyOnlyForUnguarded
  <1>1. Inductive => BusyOnlyForUnguarded
    BY GuardedMeetNobody
  <1> QED
    BY <1>1, Invariance, PTL

-------------------------------------------------------------------------------
(* The store. *)

(* A write-back is one operation of the abstract store on the section as it
   is: a supply set, a failure recorded, or an alert counted. *)
LEMMA WriteBackIsOperation ==
  ASSUME Inductive, NEW t \in DbUsers, WriteBack(t)
  PROVE  Store!Next
  <1> USE DEF Inductive, TypeOK
  <1>1. /\ pc[t] = "put" /\ Updates(t) /\ CanWrite(t)
        /\ copy[t] = store[SectionOf(t)]
        /\ store' = [store EXCEPT ![SectionOf(t)] = Updated(t)]
    BY DEF WriteBack, At, CopyIsCurrent, Put
  <1>2. CASE t \in Workers
    <2>1. request[t].body \in SetBodies
      BY <1>1, <1>2, ServerAssumption DEF RequestShape, Updates, Requests, MessageListeners
    <2>2. Updated(t) = WithSupply(store.supplies, request[t].body.item, request[t].body.amount)
      BY <1>1, <1>2, SectionOfFacts DEF Updated
    <2>3. Store!SetSupply(request[t].body.item, request[t].body.amount)
      BY <1>1, <1>2, <2>2, SectionOfFacts DEF WithSupply, Store!SetSupply, Store!NoSupplies,
         NoSupplies
    <2> QED
      BY <2>1, <2>3 DEF Store!Next, SetBodies
  <1>3. CASE t \in Listeners
    <2>1. Updated(t) = [last_event |-> "failure"]
      BY <1>3, ServerAssumption DEF Updated, WithFailure, MessageListeners
    <2>2. Store!RecordFailure
      BY <1>1, <1>3, <2>1, SectionOfFacts DEF Store!RecordFailure
    <2> QED
      BY <2>2 DEF Store!Next
  <1>4. CASE t = AlertListener
    <2>1. Updated(t) = WithAlert(store.alerts, message[t]) /\ store.alerts # Nothing
      BY <1>1, <1>4, ServerAssumption, SectionOfFacts DEF Updated, MessageListeners, CanWrite,
         CanCount
    <2>2. message[t] \in Locations
      BY <1>1, <1>4 DEF MessageShape
    <2>3. Store!CountAlert(message[t])
      BY <1>1, <1>4, <2>1, SectionOfFacts DEF Store!CountAlert, WithAlert
    <2> QED
      BY <2>2, <2>3 DEF Store!Next
  <1> QED
    BY <1>2, <1>3, <1>4 DEF DbUsers, MessageListeners

(* Every step of the server is an operation of the abstract store or leaves
   the store alone, the end of the process and its restart included. *)
LEMMA StepIsOperation ==
  ASSUME Inductive, [Next]_vars
  PROVE  [Store!Next]_store
  <1> USE DEF dbVars, dbThreadVars
  <1>1. ASSUME NEW t \in DbUsers, DbStep(t)
        PROVE  Store!Next \/ store' = store
    BY <1>1, WriteBackIsOperation DEF DbStep, Acquire, OpenDb, OpenDbThrows, ReadForUpdate,
       UpdateThrows, CloseDb, Release, Open, Close
  <1>2. ASSUME NEW w \in Workers, ClearSupplies(w)
        PROVE  Store!Next
    BY <1>2 DEF ClearSupplies, Put, Store!Next, Store!ClearSupplies, NoSupplies,
       Store!NoSupplies
  <1>3. ASSUME NEW w \in Workers, SeedSection(w)
        PROVE  Store!Next
    <2>1. AtSection(w) \in Sections
      BY <1>3 DEF SeedSection, At, Inductive, RequestShape, AtSection, SectionAt, Sections
    <2>2. Store!Seed(AtSection(w))
      BY <1>3 DEF SeedSection, Put, Store!Seed, SeedStore, Store!SeedStore
    <2> QED
      BY <2>1, <2>2 DEF Store!Next, Sections, Store!Sections
  <1>4. ASSUME NEW w \in Workers, Serve(w) \/ WorkerStep(w)
        PROVE  Store!Next \/ store' = store
    BY <1>1, <1>2, <1>3, <1>4 DEF WorkerStep, Serve, ShowSection, ShowThrows, CollectSection,
       CollectThrows, Close, DbUsers
  <1>5. ASSUME NEW l \in Listeners, Connect(l)
        PROVE  store' = store
    BY <1>5 DEF Connect
  <1>6. ASSUME NEW t \in MessageListeners, ListenerStep(t)
        PROVE  Store!Next \/ store' = store
    BY <1>1, <1>6 DEF ListenerStep, Receive, DbUsers
  <1>7. ASSUME NEW t \in Listeners \union {Main}, EndConnStep(t)
        PROVE  store' = store
    BY <1>7 DEF EndConnStep, RemoveQueueAtEnd, Exit, EndProcess
  <1>8. CASE Sense \/ RaiseAlert \/ RaiseEmergency \/ SenderExits \/ Signal \/ Crash \/ Restart
    BY <1>8 DEF Sense, RaiseAlert, RaiseEmergency, SenderExits, Signal, Crash, Restart, EndProcess
  <1>9. CASE UNCHANGED vars
    BY <1>9 DEF vars
  <1> QED
    BY <1>4, <1>5, <1>6, <1>7, <1>8, <1>9 DEF Next

(* The server implements the abstract store: whatever the interleaving of its
   threads, the database changes only by whole operations on its current
   state, and survives the process. *)
THEOREM ImplementsTheStore == Spec => ImplementsStore
  <1>1. Init => Store!Init
    BY ServerAssumption DEF Init, Store!Init, EmptyStore, SeedStore, Store!EmptyStore,
       Store!SeedStore
  <1>2. Inductive /\ [Next]_vars => [Store!Next]_store
    BY StepIsOperation
  <1> QED
    BY <1>1, <1>2, Invariance, PTL DEF Spec, ImplementsStore, Store!Spec

-------------------------------------------------------------------------------
(* The end of the process and the queue. *)

(* Nothing that QueueShape speaks of changes. *)
QueueFrame ==
  /\ UNCHANGED <<queueVars, processVars>>
  /\ \A u \in Threads : pc'[u] = "exit" <=> pc[u] = "exit"

(* A thread that stays away from exit() changes nothing QueueShape speaks of. *)
LEMMA GotoFrame ==
  ASSUME ThreadTypeOK, NEW t \in Threads, NEW p, p # "exit", pc[t] # "exit", Goto(t, p),
         UNCHANGED <<queueVars, processVars>>
  PROVE  QueueFrame
  BY DEF QueueFrame, ThreadTypeOK, Goto

(* No use of the semaphore or the database concerns the queue. *)
LEMMA DbStepFrame ==
  ASSUME Inductive, NEW t \in DbUsers, DbStep(t)
  PROVE  QueueFrame
  <1>1. t \in Threads /\ ThreadTypeOK /\ (t \in Workers \/ Updates(t))
    BY DEF Threads, DbUsers, MessageListeners, Updates, Inductive, TypeOK
  <1> USE DEF At, others
  <1>2. CASE Acquire(t)
    BY <1>1, <1>2, GotoFrame DEF Acquire
  <1>3. CASE OpenDb(t)
    BY <1>1, <1>3, GotoFrame DEF OpenDb, FirstUse
  <1>4. CASE OpenDbThrows(t)
    BY <1>1, <1>4, GotoFrame DEF OpenDbThrows, Abandon, FinishRequest
  <1>5. CASE ReadForUpdate(t)
    BY <1>1, <1>5, GotoFrame DEF ReadForUpdate
  <1>6. CASE UpdateThrows(t)
    BY <1>1, <1>6, GotoFrame DEF UpdateThrows, Abandon, FinishRequest
  <1>7. CASE WriteBack(t)
    BY <1>1, <1>7, GotoFrame DEF WriteBack
  <1>8. CASE CloseDb(t)
    BY <1>1, <1>8, GotoFrame DEF CloseDb, FinishRequest
  <1>9. CASE Release(t)
    BY <1>1, <1>9, GotoFrame DEF Release, FinishRequest
  <1> QED
    BY <1>2, <1>3, <1>4, <1>5, <1>6, <1>7, <1>8, <1>9 DEF DbStep

(* Nor does any other step of a worker. *)
LEMMA WorkerStepFrame ==
  ASSUME Inductive, NEW w \in Workers, Serve(w) \/ WorkerStep(w)
  PROVE  QueueFrame
  <1>1. w \in Threads /\ w \in DbUsers /\ ThreadTypeOK
    BY DEF Threads, DbUsers, Inductive, TypeOK
  <1> USE DEF At, others
  <1>2. CASE Serve(w)
    <2>1. \E p \in {"acquire", "open"} : Goto(w, p)
      BY <1>2 DEF Serve
    <2> QED
      BY <1>1, <1>2, <2>1, GotoFrame DEF Serve
  <1>3. CASE DbStep(w)
    BY <1>1, <1>3, DbStepFrame
  <1>4. CASE ShowSection(w)
    BY <1>1, <1>4, GotoFrame DEF ShowSection
  <1>5. CASE ShowThrows(w) \/ CollectThrows(w)
    BY <1>1, <1>5, GotoFrame DEF ShowThrows, CollectThrows, Abandon, FinishRequest
  <1>6. CASE CollectSection(w)
    BY <1>1, <1>6, GotoFrame DEF CollectSection
  <1>7. CASE ClearSupplies(w)
    BY <1>1, <1>7, GotoFrame DEF ClearSupplies
  <1>8. CASE SeedSection(w)
    BY <1>1, <1>8, GotoFrame DEF SeedSection
  <1> QED
    BY <1>2, <1>3, <1>4, <1>5, <1>6, <1>7, <1>8 DEF WorkerStep

(* What QueueShape says of the queues. *)
QueuesQuiet ==
  \A k \in Keys : ~queues[k].live \/ queues[k].zeroId =>
    queues[k].alerts = <<>> /\ queues[k].emergencies = <<>>

(* A step on the process's own queue is the business of no other, and a
   message is never in one whose identifier is 0. *)
LEMMA OwnQueueQuiet ==
  ASSUME QueueTypeOK, QueuesQuiet, queues' \in [Keys -> QueueRecords], OtherQueuesKept,
         (queueLive' /\ ~zeroId') \/ (alerts' = <<>> /\ emergencies' = <<>>)
  PROVE  QueuesQuiet'
  BY DEF QueueTypeOK, QueuesQuiet, OtherQueuesKept, queueLive, zeroId, alerts, emergencies

(* A message that is received was in a queue that does exist, and whose
   identifier is not 0. *)
LEMMA ReceiveQuiet ==
  ASSUME QueueTypeOK, QueuesQuiet, ReceiveAlert \/ ReceiveEmergency
  PROVE  QueuesQuiet' /\ queueLive /\ queueLive' /\ queues' \in [Keys -> QueueRecords] /\ key' = key
         /\ zeroId' = zeroId
  <1>1. ~zeroId
    BY DEF QueueTypeOK, QueuesQuiet, ReceiveAlert, ReceiveEmergency, queueLive, zeroId, alerts,
       emergencies
  <1>2. /\ queues' \in [Keys -> QueueRecords] /\ OtherQueuesKept
        /\ queueLive /\ queueLive' = queueLive /\ zeroId' = zeroId
    BY ReceiveAlertFacts, ReceiveEmergencyFacts
  <1> QED
    BY <1>1, <1>2, OwnQueueQuiet DEF OtherQueuesKept

(* Queue and process end together, step by step. *)
LEMMA QueueShapeKept ==
  ASSUME Inductive, QueueShape, [Next]_vars
  PROVE  QueueShape'
  <1> USE DEF Up, At
  <1>0. QueueTypeOK /\ QueuesQuiet /\ pc \in [Threads -> Points] /\ key \in Keys
    BY DEF Inductive, TypeOK, ThreadTypeOK, QueueTypeOK, QueueShape, QueuesQuiet
  <1>1. CASE QueueFrame
    <2>1. queueLive' = queueLive /\ zeroId' = zeroId /\ queues' = queues /\ status' = status
      BY <1>1 DEF QueueFrame, queueVars, processVars, queueLive, zeroId
    <2> QED
      BY <1>1, <2>1 DEF QueueFrame, QueueShape
  <1>2. ASSUME NEW t \in DbUsers, t \in Listeners \/ t = AlertListener, Receive(t)
        PROVE  QueueShape'
    <2>1. /\ QueuesQuiet' /\ queueLive /\ queueLive' /\ status' = status
      BY <1>0, <1>2, ReceiveQuiet DEF Receive, dbThreadVars, processVars
    <2>2. \A u \in Threads : pc'[u] = "exit" => pc[u] = "exit"
      BY <1>0, <1>2 DEF Receive, Goto
    <2>3. zeroId' = zeroId
      BY <1>0, <1>2, ReceiveQuiet DEF Receive
    <2> QED
      BY <2>1, <2>2, <2>3 DEF QueueShape, QueuesQuiet
  <1>3. ASSUME NEW l \in Listeners, Connect(l)
        PROVE  QueueShape'
    <2>1. l \in Threads
      BY DEF Threads, DbUsers, MessageListeners
    <2> QED
      BY <1>1, <1>3, <2>1, GotoFrame DEF Connect, dbThreadVars, Inductive, TypeOK
  <1>4. CASE Signal
    <2>1. Main \in Threads
      BY DEF Threads
    <2> QED
      BY <1>1, <1>4, <2>1, GotoFrame DEF Signal, dbThreadVars, Inductive, TypeOK
  <1>5. ASSUME NEW t \in Listeners \union {Main}, RemoveQueueAtEnd(t)
        PROVE  QueueShape'
    <2>1. t \in Threads
      BY <1>5 DEF Threads, DbUsers, MessageListeners
    <2>2. pc'[t] = "exit" /\ status' = status /\ status = "up"
      BY <1>0, <1>5, <2>1 DEF RemoveQueueAtEnd, Goto, dbThreadVars, processVars
    <2>3. QueuesQuiet' /\ ~queueLive'
      BY <1>0, <1>5, RemoveQueueFacts, OwnQueueQuiet DEF RemoveQueueAtEnd
    <2> QED
      BY <2>1, <2>2, <2>3 DEF QueueShape, QueuesQuiet
  <1>6. CASE SenderExits \/ Crash \/ \E t \in Listeners \union {Main} : Exit(t)
    <2>1. \A u \in Threads : pc'[u] # "exit"
      BY <1>6 DEF Exit, SenderExits, Crash, EndProcess, Forget, StartPc
    <2>2. queues' = queues /\ queueLive' = queueLive /\ zeroId' = zeroId
      BY <1>6 DEF Exit, SenderExits, Crash, queueVars, queueLive, zeroId
    <2>3. \/ status' = "success" /\ ~queueLive
          \/ status' = "failure" /\ (~queueLive \/ zeroId)
          \/ status' = "killed"
      BY <1>6 DEF Exit, SenderExits, SendFails, Crash, EndProcess, QueueShape, Threads, DbUsers,
         MessageListeners
    <2> QED
      BY <2>1, <2>2, <2>3 DEF QueueShape
  <1>7. CASE Sense
    BY <1>1, <1>7 DEF Sense, QueueFrame, dbThreadVars
  <1>8. CASE RaiseAlert \/ RaiseEmergency
    <2>1. queueLive /\ queueLive' /\ ~zeroId' /\ queues' \in [Keys -> QueueRecords] /\ OtherQueuesKept
      <3>1. CASE RaiseAlert
        <4>1. Entries[sensor] \in Locations
          BY ServerAssumption DEF Inductive, TypeOK, ProcessTypeOK
        <4> QED
          BY <1>0, <3>1, <4>1, SendAlertFacts DEF RaiseAlert
      <3>2. CASE RaiseEmergency
        <4>1. \A json \in BOOLEAN : [sentIn |-> run, json |-> json] \in EmergencyMessages
          BY DEF Inductive, TypeOK, ProcessTypeOK, EmergencyMessages
        <4> QED
          BY <1>0, <3>2, <4>1, SendEmergencyFacts DEF RaiseEmergency
      <3> QED
        BY <1>8, <3>1, <3>2
    <2>2. QueuesQuiet'
      BY <1>0, <2>1, OwnQueueQuiet
    <2>3. pc' = pc /\ status' = status /\ status = "up"
      BY <1>8 DEF RaiseAlert, RaiseEmergency, dbThreadVars, processVars
    <2> QED
      BY <2>1, <2>2, <2>3 DEF QueueShape, QueuesQuiet
  <1>9. CASE Restart
    <2>1. queueLive' /\ pc' = pc /\ status # "up" /\ status' = "up"
      BY <1>0, <1>9, CreateQueueFacts DEF Restart
    <2>2. QueuesQuiet'
      <3>1. \A k \in Keys : \/ queues'[k] = queues[k]
                            \/ queues'[k].alerts = <<>> /\ queues'[k].emergencies = <<>>
        BY <1>0, <1>9, CreateQueueFacts DEF Restart
      <3> QED
        BY <1>0, <3>1 DEF QueuesQuiet
    <2> QED
      BY <2>1, <2>2 DEF QueueShape, QueuesQuiet
  <1>10. CASE UNCHANGED vars
    BY <1>1, <1>10 DEF vars, QueueFrame, queueVars, processVars
  <1> QED
    BY <1>1, <1>2, <1>3, <1>4, <1>5, <1>6, <1>7, <1>8, <1>9, <1>10, DbStepFrame,
       WorkerStepFrame DEF Next, ListenerStep, EndConnStep, DbUsers, MessageListeners

(* Queue and process end together in every state of the server. *)
LEMMA QueueShapeInvariant == Spec => []QueueShape
  <1>1. Init => QueueShape
    BY NoQueueTyped DEF Init, QueueShape, StartPc, Up, NoQueue, queueLive
  <1>2. Inductive /\ QueueShape /\ [Next]_vars => QueueShape'
    BY QueueShapeKept
  <1> QED
    BY <1>1, <1>2, Invariance, PTL DEF Spec

(* A process that ended otherwise than by a kill leaves no message of its own
   or of an earlier run in its queue, and the queue itself only if the
   identifier 0 made a sender give up. *)
THEOREM OrderlyEnd == Spec => []OrderlyEndLeavesNoQueue
  <1>1. Inductive /\ QueueShape => OrderlyEndLeavesNoQueue
    BY DEF Inductive, TypeOK, ProcessTypeOK, QueueTypeOK, QueueShape, OrderlyEndLeavesNoQueue, Up,
       queueLive, zeroId, alerts, emergencies
  <1> QED
    BY <1>1, Invariance, QueueShapeInvariant, PTL

(* The process starts and ends only by these steps. *)
LEMMA ProcessSteps ==
  ASSUME Next, processVars' # processVars
  PROVE  \/ \E t \in Listeners \union {Main} : Exit(t)
         \/ SenderExits \/ Crash \/ Restart
  <1> USE DEF others, dbThreadVars
  <1>1. \A t \in DbUsers : ~DbStep(t)
    BY DEF DbStep, Acquire, OpenDb, OpenDbThrows, ReadForUpdate, UpdateThrows, WriteBack,
       CloseDb, Release
  <1>2. \A w \in Workers : ~Serve(w) /\ ~WorkerStep(w)
    BY <1>1 DEF Serve, WorkerStep, ShowSection, ShowThrows, CollectSection, CollectThrows,
       ClearSupplies, SeedSection, DbUsers
  <1>3. \A t \in MessageListeners : ~ListenerStep(t)
    BY <1>1 DEF ListenerStep, Receive, DbUsers
  <1>4. /\ \A l \in Listeners : ~Connect(l)
        /\ \A t \in Listeners \union {Main} : EndConnStep(t) => Exit(t)
    BY DEF Connect, EndConnStep, RemoveQueueAtEnd
  <1>5. ~Sense /\ ~RaiseAlert /\ ~RaiseEmergency /\ ~Signal
    BY DEF Sense, RaiseAlert, RaiseEmergency, Signal
  <1> QED
    BY <1>2, <1>3, <1>4, <1>5 DEF Next

(* exit(EXIT_FAILURE) by a sender always has end_conn() on another thread
   behind it, or the identifier 0. *)
THEOREM FailureHasCause == Spec => FailureNeedsCause
  <1>1. QueueShape /\ [Next]_vars =>
          [Up /\ status' = "failure" => zeroId \/ \E t \in Threads : pc[t] = "exit"]_vars
    <2> SUFFICES ASSUME QueueShape, Next, Up, status' = "failure"
                 PROVE  zeroId \/ \E t \in Threads : pc[t] = "exit"
      BY DEF vars
    <2>1. SenderExits
      BY ProcessSteps DEF Exit, Crash, Restart, EndProcess, processVars, Up
    <2> QED
      BY <2>1 DEF SenderExits, SendFails, QueueShape
  <1> QED
    BY <1>1, QueueShapeInvariant, PTL DEF Spec, FailureNeedsCause

(* What LeftByKilled says of one queue. *)
LeftIn(k) ==
  /\ \A i \in DOMAIN queues[k].emergencies :
       \/ queues[k].emergencies[i].sentIn \in killed
       \/ Up /\ k = key /\ queues[k].emergencies[i].sentIn = run
  /\ queues[k].alerts # <<>> => killed # {} \/ (Up /\ k = key)

(* A step of a running process on its own queue needs a look at that one. *)
LEMMA OwnQueueLeft ==
  ASSUME LeftByKilled, Up, UNCHANGED processVars, OtherQueuesKept, LeftIn(key)'
  PROVE  LeftByKilled'
  <1>1. ASSUME NEW k \in Keys  PROVE LeftIn(k)'
    <2>1. CASE k = key
      BY <2>1 DEF OtherQueuesKept
    <2>2. CASE k # key
      BY <2>2 DEF LeftByKilled, LeftIn, OtherQueuesKept, processVars, Up
    <2> QED
      BY <2>1, <2>2
  <1> QED
    BY <1>1 DEF LeftByKilled, LeftIn, processVars, Up

(* What is received leaves the queue, what is sent is of this run. *)
LEMMA MessagesLeft ==
  ASSUME Inductive, LeftByKilled, Up,
         \/ \E t \in MessageListeners : Receive(t)
         \/ RaiseAlert \/ RaiseEmergency
  PROVE  LeftByKilled'
  <1> USE DEF dbThreadVars, processVars, Up
  <1>1. /\ QueueTypeOK /\ UNCHANGED processVars /\ LeftIn(key)
        /\ alerts \in Seq(Locations) /\ emergencies \in Seq(EmergencyMessages)
    BY QueueTyped DEF Inductive, TypeOK, QueueTypeOK, LeftByKilled, LeftIn, Receive, RaiseAlert,
       RaiseEmergency
  <1>2. CASE ReceiveAlert
    <2>1. OtherQueuesKept /\ emergencies' = emergencies
      BY <1>1, <1>2, ReceiveAlertFacts
    <2> QED
      BY <1>1, <2>1, OwnQueueLeft DEF LeftIn, emergencies, OtherQueuesKept
  <1>3. CASE ReceiveEmergency
    <2>1. OtherQueuesKept /\ emergencies # <<>> /\ emergencies' = Tail(emergencies)
      BY <1>1, <1>3, ReceiveEmergencyFacts
    <2>2. \A i \in DOMAIN emergencies' : /\ i + 1 \in DOMAIN emergencies
                                         /\ emergencies'[i] = emergencies[i + 1]
      BY <1>1, <2>1
    <2> QED
      BY <1>1, <2>1, <2>2, OwnQueueLeft DEF LeftIn, emergencies, OtherQueuesKept
  <1>4. CASE RaiseAlert
    <2>1. Entries[sensor] \in Locations
      BY ServerAssumption DEF Inductive, TypeOK, ProcessTypeOK
    <2>2. OtherQueuesKept /\ emergencies' = emergencies
      BY <1>1, <1>4, <2>1, SendAlertFacts DEF RaiseAlert
    <2> QED
      BY <1>1, <2>2, OwnQueueLeft DEF LeftIn, emergencies, OtherQueuesKept
  <1>5. CASE RaiseEmergency
    <2>1. PICK json \in BOOLEAN : SendEmergency([sentIn |-> run, json |-> json])
      BY <1>5 DEF RaiseEmergency
    <2> DEFINE m == [sentIn |-> run, json |-> json]
    <2>2. m \in EmergencyMessages /\ m.sentIn = run
      BY DEF Inductive, TypeOK, ProcessTypeOK, EmergencyMessages
    <2> HIDE DEF m
    <2>3. OtherQueuesKept /\ emergencies' = Append(emergencies, m)
      BY <1>1, <2>1, <2>2, SendEmergencyFacts DEF m
    <2>4. \A i \in DOMAIN emergencies' :
            \/ i \in DOMAIN emergencies /\ emergencies'[i] = emergencies[i]
            \/ emergencies'[i] = m
      BY <1>1, <2>2, <2>3
    <2> QED
      BY <1>1, <2>2, <2>3, <2>4, OwnQueueLeft DEF LeftIn, emergencies, OtherQueuesKept
  <1> QED
    BY <1>2, <1>3, <1>4, <1>5 DEF Receive

(* A process that ends itself has an empty queue, and one that is killed is
   counted among the killed. *)
LEMMA EndLeft ==
  ASSUME Inductive, QueueShape, LeftByKilled, Up,
         SenderExits \/ Crash \/ \E t \in Listeners \union {Main} : Exit(t)
  PROVE  LeftByKilled'
  <1>1. ~Up' /\ queues' = queues /\ key \in Keys /\ run' = run
    BY DEF SenderExits, Crash, Exit, EndProcess, queueVars, Up, Inductive, TypeOK, QueueTypeOK
  <1>2. CASE Crash
    <2>1. killed' = killed \union {run}
      BY <1>2 DEF Crash, EndProcess
    <2> QED
      BY <1>1, <2>1 DEF LeftByKilled
  <1>3. CASE SenderExits \/ \E t \in Listeners \union {Main} : Exit(t)
    <2>1. killed' = killed
      BY <1>3 DEF SenderExits, Exit, EndProcess
    <2>2. ~queueLive \/ zeroId
      BY <1>3 DEF SenderExits, SendFails, Exit, At, QueueShape, Threads, DbUsers, MessageListeners
    <2>3. queues[key].emergencies = <<>> /\ queues[key].alerts = <<>>
      BY <1>1, <2>2 DEF QueueShape, queueLive, zeroId
    <2>4. DOMAIN queues[key].emergencies = {}
      BY <2>3
    <2> QED
      BY <1>1, <2>1, <2>3, <2>4 DEF LeftByKilled
  <1> QED
    BY <1>2, <1>3

(* What a new process finds was left by those that were killed. *)
LEMMA RestartFinds ==
  ASSUME Inductive, LeftByKilled, Restart
  PROVE  /\ LeftByKilled'
         /\ \A k \in Keys : /\ \A i \in DOMAIN queues'[k].emergencies :
                                 queues'[k].emergencies[i].sentIn \in killed
                            /\ queues'[k].alerts # <<>> => killed # {}
  <1>1. ~Up /\ run' = run + 1 /\ killed' = killed /\ run' \notin killed
    BY DEF Restart, Inductive, TypeOK, ProcessTypeOK
  <1>2. ASSUME NEW k \in Keys
        PROVE  /\ \A i \in DOMAIN queues'[k].emergencies : queues'[k].emergencies[i].sentIn \in killed
               /\ queues'[k].alerts # <<>> => killed # {}
    <2>1. CASE queues'[k] = queues[k]
      BY <1>1, <2>1 DEF LeftByKilled
    <2>2. CASE queues'[k].alerts = <<>> /\ queues'[k].emergencies = <<>>
      BY <2>2
    <2> QED
      BY <2>1, <2>2, CreateQueueFacts DEF Restart, Inductive, TypeOK
  <1> QED
    BY <1>1, <1>2 DEF LeftByKilled

(* No other step concerns the queues or the life of the process. *)
LEMMA LeftByKilledKept ==
  ASSUME Inductive, QueueShape, LeftByKilled, [Next]_vars
  PROVE  LeftByKilled'
  <1> USE DEF dbThreadVars
  <1>1. ASSUME UNCHANGED <<queueVars, processVars>>
        PROVE  LeftByKilled'
    BY <1>1 DEF LeftByKilled, queueVars, processVars, Up
  <1>2. ASSUME NEW w \in Workers, Serve(w) \/ WorkerStep(w)
        PROVE  LeftByKilled'
    BY <1>1, <1>2, WorkerStepFrame DEF QueueFrame
  <1>3. ASSUME NEW t \in MessageListeners, ListenerStep(t)
        PROVE  LeftByKilled'
    BY <1>1, <1>3, DbStepFrame, MessagesLeft DEF QueueFrame, ListenerStep, Receive, At, DbUsers
  <1>4. ASSUME NEW t \in Listeners \union {Main}, RemoveQueueAtEnd(t)
        PROVE  LeftByKilled'
    <2>1. /\ OtherQueuesKept /\ alerts' = <<>> /\ emergencies' = <<>>
          /\ Up /\ UNCHANGED processVars
      BY <1>4, RemoveQueueFacts DEF RemoveQueueAtEnd, At, Inductive, TypeOK
    <2>2. DOMAIN emergencies' = {}
      BY <2>1
    <2> QED
      BY <2>1, <2>2, OwnQueueLeft DEF LeftIn, alerts, emergencies
  <1>5. CASE SenderExits \/ Crash \/ \E t \in Listeners \union {Main} : Exit(t)
    BY <1>5, EndLeft DEF SenderExits, Crash, Exit, At
  <1>6. CASE RaiseAlert \/ RaiseEmergency
    BY <1>6, MessagesLeft DEF RaiseAlert, RaiseEmergency
  <1>7. CASE Restart
    BY <1>7, RestartFinds
  <1>8. CASE (\E l \in Listeners : Connect(l)) \/ Sense \/ Signal \/ UNCHANGED vars
    BY <1>1, <1>8 DEF Connect, Sense, Signal, vars, queueVars, processVars
  <1> QED
    BY <1>2, <1>3, <1>4, <1>5, <1>6, <1>7, <1>8 DEF Next, EndConnStep

(* Whatever lies in a queue is of this run or of one that was killed. *)
LEMMA LeftByKilledInvariant == Spec => []LeftByKilled
  <1>1. Init => LeftByKilled
    <2> SUFFICES ASSUME Init  PROVE LeftByKilled
      OBVIOUS
    <2>1. \A k \in Keys : queues[k].alerts = <<>> /\ queues[k].emergencies = <<>>
      BY NoQueueTyped DEF Init, NoQueue
    <2>2. \A k \in Keys : DOMAIN queues[k].emergencies = {}
      BY <2>1
    <2> QED
      BY <2>1, <2>2 DEF Init, LeftByKilled
  <1>2. Inductive /\ QueueShape /\ LeftByKilled /\ [Next]_vars => LeftByKilled'
    BY LeftByKilledKept
  <1> QED
    BY <1>1, <1>2, Invariance, QueueShapeInvariant, PTL DEF Spec

(* A process finds messages of a run before it only if that run was killed,
   however many processes and keys there have been in between. *)
THEOREM StaleAfterKill == Spec => StaleOnlyAfterKill
  <1>1. Inductive /\ LeftByKilled /\ [Next]_vars =>
          [run' # run =>
             /\ \A i \in DOMAIN emergencies' : emergencies'[i].sentIn \in killed
             /\ alerts' # <<>> => killed # {}]_vars
    <2> SUFFICES ASSUME Inductive, LeftByKilled, Next, run' # run
                 PROVE  /\ \A i \in DOMAIN emergencies' : emergencies'[i].sentIn \in killed
                        /\ alerts' # <<>> => killed # {}
      BY DEF vars
    <2>1. Restart
      BY ProcessSteps DEF Exit, SenderExits, Crash, EndProcess, processVars
    <2>2. key' \in Keys
      BY <2>1, CreateQueueFacts DEF Restart, Inductive, TypeOK
    <2> QED
      BY <2>1, <2>2, RestartFinds DEF emergencies, alerts
  <1> QED
    BY <1>1, Invariance, LeftByKilledInvariant, PTL DEF Spec, StaleOnlyAfterKill

-------------------------------------------------------------------------------
(* The permit. *)

(* A step that leaves the semaphore at zero and takes its holder out of the
   code between acquire() and release() is a /setsupplies that fails. *)
LEMMA DbStepLeak ==
  ASSUME Inductive, NEW t \in DbUsers, DbStep(t), ~Leaked, Leaked'
  PROVE  t \in Workers /\ Requests(t, {"setsupplies"}) /\ pc[t] \in {"open", "get"}
         /\ pc'[t] = "idle"
  <1> USE DEF Inductive, TypeOK
  <1>1. t \in Threads /\ (t \notin Workers => Updates(t))
    BY DEF Threads, DbUsers, Updates
  <1>2. semaphore' = 0 /\ ~HoldsPermit(t)' /\ \A u \in DbUsers : ~HoldsPermit(u)'
    BY DEF Leaked, HoldsPermit, Updates, Requests
  <1>3. ~Acquire(t)
    <2> SUFFICES ASSUME Acquire(t) PROVE FALSE
      OBVIOUS
    <2>1. pc[t] = "acquire" /\ pc'[t] = "open" /\ request' = request
      BY <1>1 DEF Acquire, At, Goto, ThreadTypeOK
    <2>2. Updates(t)'
      BY <1>1, <2>1 DEF RequestShape, Updates, Requests
    <2> QED
      BY <1>2, <2>1, <2>2 DEF HoldsPermit
  <1>4. ~Release(t)
    BY <1>2 DEF Release, ThreadTypeOK, Permits
  <1>5. semaphore = 0
    BY <1>2, <1>3, <1>4 DEF DbStep, OpenDb, OpenDbThrows, ReadForUpdate, UpdateThrows, WriteBack,
       CloseDb
  <1>6. HoldsPermit(t)
    <2>1. PICK u \in DbUsers : HoldsPermit(u)
      BY <1>5 DEF Leaked
    <2>2. CASE u # t
      <3>1. Frame(t)
        BY <1>3, <1>4 DEF DbStep, OpenDb, OpenDbThrows, ReadForUpdate, UpdateThrows, WriteBack,
           CloseDb, Abandon, FinishRequest, Goto, Frame, ThreadTypeOK, RequestTypeOK
      <3> QED
        BY <1>2, <2>1, <2>2, <3>1, FrameHolds
    <2> QED
      BY <2>1, <2>2
  <1>7. ~OpenDb(t) /\ ~ReadForUpdate(t) /\ ~WriteBack(t) /\ ~CloseDb(t)
    BY <1>1, <1>2, <1>6 DEF OpenDb, FirstUse, ReadForUpdate, WriteBack, CloseDb, Goto, HoldsPermit,
       Updates, Requests, ThreadTypeOK
  <1>8. Abandon(t) /\ At(t, pc[t])
    BY <1>3, <1>4, <1>7 DEF DbStep, OpenDbThrows, UpdateThrows, At
  <1>9. t \in Workers
    <2> SUFFICES ASSUME t \notin Workers PROVE FALSE
      OBVIOUS
    <2>1. pc'[t] = "release" /\ Updates(t)'
      BY <1>1, <1>8 DEF Abandon, Goto, ThreadTypeOK, Updates, DbUsers
    <2> QED
      BY <1>2, <2>1 DEF HoldsPermit
  <1>10. Requests(t, {"setsupplies"}) /\ pc'[t] = "idle"
    BY <1>1, <1>6, <1>8, <1>9, ServerAssumption DEF HoldsPermit, Updates, Requests, Abandon,
       FinishRequest, Goto, ThreadTypeOK
  <1>11. pc[t] \in {"open", "get"}
    BY <1>3, <1>4, <1>7, <1>9, ServerAssumption DEF DbStep, OpenDbThrows, UpdateThrows, At,
       CanWrite, MessageListeners
  <1> QED
    BY <1>9, <1>10, <1>11

(* No other step touches the semaphore or one of its holders. *)
LEMMA OtherStepKeepsPermit ==
  ASSUME Inductive, Next, \A t \in DbUsers : ~DbStep(t), ~Leaked
  PROVE  ~Leaked'
  <1> USE DEF Inductive, TypeOK, dbThreadVars, others
  <1>1. ASSUME UNCHANGED <<semaphore, pc, request>>
        PROVE  ~Leaked'
    BY <1>1 DEF Leaked, HoldsPermit, Updates, Requests
  <1>2. ASSUME NEW t \in Threads \ Workers, pc[t] \in Outside, NEW p, Goto(t, p),
               UNCHANGED <<semaphore, request>>
        PROVE  ~Leaked'
    <2>1. \A u \in DbUsers : HoldsPermit(u) => u # t /\ HoldsPermit(u)'
      BY <1>2 DEF Goto, Outside, HoldsPermit, Updates, Requests, ThreadTypeOK, Threads
    <2> QED
      BY <1>2, <2>1 DEF Leaked
  <1>3. ASSUME semaphore' = Permits
        PROVE  ~Leaked'
    BY <1>3 DEF Leaked, Permits
  <1>4. ASSUME NEW w \in Workers, Serve(w) \/ WorkerStep(w)
        PROVE  ~Leaked'
    <2>1. w \in DbUsers /\ ~DbStep(w)
      BY DEF DbUsers
    <2>2. Frame(w) /\ semaphore' = semaphore
      BY <1>4, <2>1 DEF WorkerStep, Serve, ShowSection, ShowThrows, CollectSection, CollectThrows,
         ClearSupplies, SeedSection, Abandon, FinishRequest, Goto, Frame, ThreadTypeOK,
         RequestTypeOK
    <2>3. ~HoldsPermit(w)
      BY <1>4, <2>1, ServerAssumption DEF WorkerStep, Serve, ShowSection, ShowThrows,
         CollectSection, CollectThrows, ClearSupplies, SeedSection, HoldsPermit, Updates,
         Requests, At, MessageListeners
    <2> QED
      BY <2>1, <2>2, <2>3, FrameHolds DEF Leaked
  <1>5. ASSUME NEW l \in Listeners, Connect(l)
        PROVE  ~Leaked'
    BY <1>2, <1>5, ServerAssumption DEF Connect, At, Outside, Threads, DbUsers, MessageListeners
  <1>6. ASSUME NEW t \in MessageListeners, ListenerStep(t)
        PROVE  ~Leaked'
    <2>1. Receive(t)
      BY <1>6 DEF ListenerStep, DbUsers
    <2> QED
      BY <1>2, <2>1, ServerAssumption DEF Receive, At, Outside, Threads, DbUsers, MessageListeners
  <1>7. ASSUME NEW t \in Listeners \union {Main}, EndConnStep(t)
        PROVE  ~Leaked'
    <2>1. t \in Threads \ Workers
      BY ServerAssumption DEF Threads, DbUsers, MessageListeners
    <2>2. CASE RemoveQueueAtEnd(t)
      BY <1>2, <2>1, <2>2 DEF RemoveQueueAtEnd, At, Outside
    <2>3. CASE Exit(t)
      BY <1>3, <2>3 DEF Exit, EndProcess, Forget
    <2> QED
      BY <1>7, <2>2, <2>3 DEF EndConnStep
  <1>8. CASE Signal
    BY <1>2, <1>8, ServerAssumption DEF Signal, At, Outside, Threads, DbUsers
  <1>9. CASE SenderExits \/ Crash
    BY <1>3, <1>9 DEF SenderExits, Crash, EndProcess, Forget
  <1>10. CASE Sense \/ RaiseAlert \/ RaiseEmergency \/ Restart
    BY <1>1, <1>10 DEF Sense, RaiseAlert, RaiseEmergency, Restart
  <1> QED
    BY <1>4, <1>5, <1>6, <1>7, <1>8, <1>9, <1>10 DEF Next

(* The permit is lost only by a /setsupplies that fails while it opens the
   database or reads it: no listener's failure, no other request, no end of
   the process and no restart ever costs it. *)
THEOREM LostOnlyByFailedSet == Spec => LeakedOnlyByFailedSet
  <1>1. Inductive /\ [Next]_vars =>
          [~Leaked /\ Leaked' =>
             \E w \in Workers : Requests(w, {"setsupplies"}) /\ pc[w] \in {"open", "get"}
                                /\ pc'[w] = "idle"]_vars
    BY DbStepLeak, OtherStepKeepsPermit DEF vars
  <1> QED
    BY <1>1, Invariance, PTL DEF Spec, LeakedOnlyByFailedSet

-------------------------------------------------------------------------------
(* The macros of a build. *)

(* A sensor never returns MaxTemperature itself, so a build whose threshold is
   one below it raises no alert at all.  MIN_TEMP, MAX_TEMP and HIGH_TEMP of
   alert_module.h are 32, 39 and 38: the server as shipped is such a build. *)
THEOREM ThresholdOutOfReach ==
  ASSUME MaxTemperature - 1 <= HighTemperature
  PROVE  Spec => [](/\ sensorPc = "sense" /\ alertsSent = 0
                    /\ \A k \in Keys : queues[k].alerts = <<>>)
  <1> DEFINE NoAlert == \A k \in Keys : queues[k].alerts = <<>>
             Quiet == sensorPc = "sense" /\ alertsSent = 0 /\ NoAlert
  <1>1. Init => Quiet
    BY NoQueueTyped DEF Init, NoQueue
  <1>2. ASSUME Inductive, Quiet, [Next]_vars
        PROVE  Quiet'
    <2> USE <1>2 DEF others, queueVars, moduleVars, dbThreadVars
    <2>1. ~RaiseAlert
      BY DEF RaiseAlert
    <2>2. ASSUME Sense
          PROVE  Quiet'
      <3>1. \A temperature \in Temperatures : ~(temperature > HighTemperature)
        BY ServerAssumption DEF Temperatures
      <3> QED
        BY <2>2, <3>1 DEF Sense
    <2>3. \A t \in DbUsers : DbStep(t) => Quiet'
      BY DEF DbStep, Acquire, OpenDb, OpenDbThrows, ReadForUpdate, UpdateThrows, WriteBack,
         CloseDb, Release
    <2>4. \A w \in Workers : Serve(w) \/ WorkerStep(w) => Quiet'
      BY <2>3 DEF Serve, WorkerStep, ShowSection, ShowThrows, CollectSection, CollectThrows,
         ClearSupplies, SeedSection, DbUsers
    <2>5. QueueTypeOK /\ key \in Keys
      BY DEF Inductive, TypeOK, QueueTypeOK
    <2>6. ASSUME OtherQueuesKept, alerts' = alerts
          PROVE  NoAlert'
      BY <2>5, <2>6 DEF OtherQueuesKept, alerts
    <2>7. \A t \in MessageListeners : ListenerStep(t) => Quiet'
      <3>1. ~ReceiveAlert
        BY <2>5 DEF ReceiveAlert, alerts
      <3>2. \A t \in MessageListeners : Receive(t) => Quiet'
        BY <2>5, <2>6, <3>1, ReceiveEmergencyFacts DEF Receive
      <3> QED
        BY <2>3, <3>2 DEF ListenerStep, DbUsers
    <2>8. \A l \in Listeners : Connect(l) => Quiet'
      BY DEF Connect
    <2>9. \A t \in Listeners \union {Main} : EndConnStep(t) => Quiet'
      <3>1. alerts = <<>>
        BY <2>5 DEF alerts
      <3>2. \A t \in Listeners \union {Main} : RemoveQueueAtEnd(t) => Quiet'
        BY <2>5, <2>6, <3>1, RemoveQueueFacts DEF RemoveQueueAtEnd
      <3>3. \A t \in Listeners \union {Main} : Exit(t) => Quiet'
        BY DEF Exit, EndProcess, Forget
      <3> QED
        BY <3>2, <3>3 DEF EndConnStep
    <2>10. ASSUME RaiseEmergency
           PROVE  Quiet'
      <3>1. \A json \in BOOLEAN : [sentIn |-> run, json |-> json] \in EmergencyMessages
        BY DEF Inductive, TypeOK, ProcessTypeOK, EmergencyMessages
      <3>2. OtherQueuesKept /\ alerts' = alerts
        BY <2>5, <2>10, <3>1, SendEmergencyFacts DEF RaiseEmergency
      <3> QED
        BY <2>6, <2>10, <3>2 DEF RaiseEmergency
    <2>11. Signal \/ SenderExits \/ Crash => Quiet'
      BY DEF Signal, SenderExits, Crash, EndProcess, Forget
    <2>12. Restart => Quiet'
      BY <2>5, CreateQueueFacts DEF Restart
    <2>13. UNCHANGED vars => Quiet'
      BY DEF vars
    <2> QED
      BY <2>1, <2>2, <2>4, <2>7, <2>8, <2>9, <2>10, <2>11, <2>12, <2>13 DEF Next
  <1> QED
    BY <1>1, <1>2, Invariance, PTL DEF Spec
===============================================================================
