----------------------- MODULE RefugeServerServiceProofs -----------------------
(***************************************************************************)
(* What the callers of the HTTP server and the listeners of the queue can  *)
(* rely on, for every number of threads, messages and runs: reports are of *)
(* one state of the database, no emergency is handled twice, and calls are *)
(* answered as HttpService has it.                                         *)
(***************************************************************************)
EXTENDS RefugeServerProofs, SumLemmas

-------------------------------------------------------------------------------
(* The requests of a worker. *)

(* A step of one thread with the database is the only one to move it or to
   change its request. *)
LEMMA DbStepOwn ==
  ASSUME Inductive, NEW t \in DbUsers, DbStep(t)
  PROVE  Frame(t)
  BY DEF DbStep, Acquire, OpenDb, OpenDbThrows, ReadForUpdate, UpdateThrows, WriteBack, CloseDb,
     Release, Abandon, FinishRequest, Goto, Frame, Inductive, TypeOK, ThreadTypeOK, RequestTypeOK

(* So is every other step of a worker. *)
LEMMA WorkerStepOwn ==
  ASSUME Inductive, NEW w \in Workers, Serve(w) \/ WorkerStep(w)
  PROVE  Frame(w)
  <1>1. CASE DbStep(w)
    BY <1>1, DbStepOwn DEF DbUsers
  <1>2. CASE Serve(w) \/ ShowSection(w) \/ CollectSection(w) \/ ClearSupplies(w) \/ SeedSection(w)
    BY <1>2 DEF Serve, ShowSection, CollectSection, ClearSupplies, SeedSection, Goto, Frame,
       Inductive, TypeOK, ThreadTypeOK, RequestTypeOK
  <1>3. CASE ShowThrows(w) \/ CollectThrows(w)
    BY <1>3 DEF ShowThrows, CollectThrows, Abandon, FinishRequest, Goto, Frame, Inductive, TypeOK,
       ThreadTypeOK, RequestTypeOK
  <1> QED
    BY <1>1, <1>2, <1>3 DEF WorkerStep

(* The end of the process, in whichever way. *)
Ends == /\ pc' = StartPc
        /\ request' = [w \in Workers |-> NoRequest]
        /\ semaphore' = Permits
        /\ message' = [t \in MessageListeners |-> Nothing]
        /\ store' = store

(* A worker moves by steps of its own, or when the process ends. *)
LEMMA WorkerMoves ==
  ASSUME Inductive, [Next]_vars, NEW w \in Workers, ~Serve(w), ~WorkerStep(w)
  PROVE  Ends \/ (pc'[w] = pc[w] /\ request'[w] = request[w])
  <1> DEFINE Still == pc'[w] = pc[w] /\ request'[w] = request[w]
  <1> USE DEF dbThreadVars
  <1>1. w \in Threads /\ w \notin MessageListeners /\ w # Main
    BY ServerAssumption DEF Threads, DbUsers
  <1>2. ASSUME NEW v \in Workers, Serve(v) \/ WorkerStep(v)
        PROVE  Still
    BY <1>1, <1>2, WorkerStepOwn DEF Frame
  <1>3. ASSUME NEW l \in Listeners, Connect(l)
        PROVE  Still
    BY <1>1, <1>3 DEF Connect, Goto, MessageListeners, Inductive, TypeOK, ThreadTypeOK
  <1>4. ASSUME NEW t \in MessageListeners, ListenerStep(t)
        PROVE  Still
    <2>1. CASE DbStep(t)
      BY <1>1, <2>1, DbStepOwn DEF Frame, DbUsers
    <2>2. CASE Receive(t)
      BY <1>1, <2>2 DEF Receive, Goto, Inductive, TypeOK, ThreadTypeOK
    <2> QED
      BY <1>4, <2>1, <2>2 DEF ListenerStep
  <1>5. ASSUME NEW t \in Listeners \union {Main}, EndConnStep(t)
        PROVE  Ends \/ Still
    <2>1. CASE RemoveQueueAtEnd(t)
      BY <1>1, <2>1 DEF RemoveQueueAtEnd, Goto, MessageListeners, Inductive, TypeOK, ThreadTypeOK
    <2>2. CASE Exit(t)
      BY <2>2 DEF Exit, EndProcess, Forget, Ends
    <2> QED
      BY <1>5, <2>1, <2>2 DEF EndConnStep
  <1>6. CASE SenderExits \/ Crash
    BY <1>6 DEF SenderExits, Crash, EndProcess, Forget, Ends
  <1>7. CASE Sense \/ RaiseAlert \/ RaiseEmergency \/ Restart
    BY <1>7 DEF Sense, RaiseAlert, RaiseEmergency, Restart
  <1>8. CASE Signal
    BY <1>1, <1>8 DEF Signal, Goto, Inductive, TypeOK, ThreadTypeOK
  <1>9. CASE UNCHANGED vars
    BY <1>9 DEF vars
  <1> QED
    BY <1>2, <1>3, <1>4, <1>5, <1>6, <1>7, <1>8, <1>9 DEF Next

(* What a worker's step leaves it with: idle, or the request it had, and where. *)
LEMMA WorkerProgress ==
  ASSUME Inductive, NEW w \in Workers, WorkerStep(w)
  PROVE  \/ pc'[w] = "idle" /\ request'[w].kind = "none"
         \/ /\ pc'[w] \in DbPoints /\ request'[w].kind = request[w].kind
            /\ request'[w].body = request[w].body
            /\ pc'[w] = "open" => pc[w] = "acquire" /\ request'[w] = request[w]
            /\ pc'[w] # "acquire"
            /\ pc'[w] = "put" /\ Requests(w, {"setsupplies"}) => WellFormed(w)
            /\ pc'[w] \in {"close", "release"} /\ Requests(w, {"setsupplies"}) =>
                 pc[w] \in {"put", "close", "release"}
  <1> USE DEF Inductive, TypeOK
  <1>1. /\ w \in Threads /\ w \in DbUsers /\ w \notin MessageListeners /\ w # AlertListener
        /\ request \in [Workers -> RequestRecords] /\ pc \in [Threads -> Points]
        /\ NoRequest.kind = "none"
    BY ServerAssumption DEF Threads, DbUsers, MessageListeners, RequestTypeOK, ThreadTypeOK,
       NoRequest, Request
  <1> DEFINE Idles == pc'[w] = "idle" /\ request'[w].kind = "none"
             Goes(from, to) == pc[w] = from /\ pc'[w] = to /\ request' = request
  <1> USE DEF At
  <1>2. Acquire(w) => Goes("acquire", "open")
    BY <1>1 DEF Acquire, Goto
  <1>3. OpenDb(w) => Goes("open", "get") \/ (Goes("open", "put") /\ ~Requests(w, {"setsupplies"}))
    BY <1>1 DEF OpenDb, FirstUse, Goto, Requests
  <1>4. OpenDbThrows(w) \/ UpdateThrows(w) \/ ShowThrows(w) \/ CollectThrows(w) => Idles
    BY <1>1 DEF OpenDbThrows, UpdateThrows, ShowThrows, CollectThrows, Abandon, FinishRequest, Goto
  <1>5. ReadForUpdate(w) => Goes("get", "put") /\ WellFormed(w)
    BY <1>1 DEF ReadForUpdate, Goto
  <1>6. WriteBack(w) => Goes("put", "close")
    BY <1>1 DEF WriteBack, Goto
  <1>7. CloseDb(w) => Goes("close", "release") \/ Idles
    BY <1>1 DEF CloseDb, FinishRequest, Goto
  <1>8. Release(w) => Idles
    BY <1>1 DEF Release, FinishRequest, Goto
  <1>9. ShowSection(w) => Goes("get", "close") /\ ~Requests(w, {"setsupplies"})
    BY <1>1 DEF ShowSection, Requests, Goto
  <1>10. ClearSupplies(w) => Goes("put", "close") /\ ~Requests(w, {"setsupplies"})
    BY <1>1 DEF ClearSupplies, Requests, Goto
  <1>11. CollectSection(w) \/ SeedSection(w) =>
           /\ pc'[w] \in {"get", "put", "close"} /\ ~Requests(w, {"setsupplies"})
           /\ request'[w].kind = request[w].kind /\ request'[w].body = request[w].body
    BY <1>1 DEF CollectSection, SeedSection, Requests, Goto, RequestRecords
  <1> QED
    BY <1>2, <1>3, <1>4, <1>5, <1>6, <1>7, <1>8, <1>9, <1>10, <1>11 DEF WorkerStep, DbStep, DbPoints

(* /setsupplies parses its body before it writes, and every request starts at
   the first section. *)
LEMMA RequestProgressKept ==
  ASSUME Inductive, RequestProgress, [Next]_vars
  PROVE  RequestProgress'
  <1> SUFFICES ASSUME NEW w \in Workers
               PROVE  /\ pc'[w] \in {"acquire", "open"} => request'[w].stage = 1
                      /\ request'[w].kind = "setsupplies" /\ pc'[w] \in {"put", "close", "release"} =>
                           request'[w].body # Nothing
    BY DEF RequestProgress, Requests
  <1>1. w \in Threads /\ pc \in [Threads -> Points] /\ request \in [Workers -> RequestRecords]
    BY DEF Threads, DbUsers, Inductive, TypeOK, ThreadTypeOK, RequestTypeOK
  <1>2. CASE Ends
    BY <1>1, <1>2 DEF Ends, StartPc
  <1>3. CASE Serve(w)
    <2>1. /\ pc'[w] \in {"acquire", "open"}
          /\ \E k \in Kinds, b \in Bodies \union {Nothing} : request'[w] = Request(k, b)
      BY <1>1, <1>3 DEF Serve, Goto
    <2> QED
      BY <2>1 DEF Request
  <1>4. CASE WorkerStep(w)
    <2>1. WellFormed(w) <=> request[w].body # Nothing
      BY ServerAssumption DEF WellFormed, MessageListeners
    <2>2. "acquire" \in DbPoints
      BY DEF DbPoints
    <2> QED
      BY <1>4, <2>1, <2>2, WorkerProgress DEF RequestProgress, Requests
  <1>5. CASE pc'[w] = pc[w] /\ request'[w] = request[w]
    BY <1>5 DEF RequestProgress, Requests
  <1> QED
    BY <1>2, <1>3, <1>4, <1>5, WorkerMoves

(* A new process serves no request. *)
LEMMA RequestProgressInvariant == Spec => []RequestProgress
  <1>1. Init => RequestProgress
    BY DEF Init, RequestProgress, StartPc, Threads, DbUsers
  <1>2. Inductive /\ RequestProgress /\ [Next]_vars => RequestProgress'
    BY RequestProgressKept
  <1> QED
    BY <1>1, <1>2, Invariance, PTL DEF Spec

-------------------------------------------------------------------------------
(* The report of GET /database. *)

(* Only the thread that has the database open changes it. *)
LEMMA OnlyHolderWrites ==
  ASSUME Inductive, [Next]_vars, store' # store
  PROVE  \/ \E t \in DbUsers : DbStep(t) /\ dbHolder = t
         \/ \E w \in Workers : WorkerStep(w) /\ dbHolder = w
  <1> USE DEF dbVars, dbThreadVars
  <1>1. ASSUME NEW t \in DbUsers, DbStep(t)
        PROVE  store' = store \/ dbHolder = t
    BY <1>1 DEF DbStep, Acquire, OpenDb, OpenDbThrows, ReadForUpdate, UpdateThrows, WriteBack,
       CloseDb, Release, Open, Close, At, Inductive, WrapperScoped
  <1>2. ASSUME NEW w \in Workers, Serve(w) \/ WorkerStep(w)
        PROVE  store' = store \/ (WorkerStep(w) /\ dbHolder = w)
    BY <1>1, <1>2 DEF WorkerStep, Serve, ShowSection, ShowThrows, CollectSection, CollectThrows,
       ClearSupplies, SeedSection, Close, At, DbUsers, Inductive, WrapperScoped
  <1>3. ASSUME NEW l \in Listeners, Connect(l)
        PROVE  store' = store
    BY <1>3 DEF Connect
  <1>4. ASSUME NEW t \in MessageListeners, ListenerStep(t)
        PROVE  store' = store \/ (DbStep(t) /\ dbHolder = t)
    BY <1>1, <1>4 DEF ListenerStep, Receive, DbUsers
  <1>5. ASSUME NEW t \in Listeners \union {Main}, EndConnStep(t)
        PROVE  store' = store
    BY <1>5 DEF EndConnStep, RemoveQueueAtEnd, Exit, EndProcess
  <1>6. CASE Sense \/ RaiseAlert \/ RaiseEmergency \/ SenderExits \/ Signal \/ Crash \/ Restart
    BY <1>6 DEF Sense, RaiseAlert, RaiseEmergency, SenderExits, Signal, Crash, Restart, EndProcess
  <1>7. CASE UNCHANGED vars
    BY <1>7 DEF vars
  <1> QED
    BY <1>2, <1>3, <1>4, <1>5, <1>6, <1>7 DEF Next, DbUsers

(* What a worker has collected, and still will show, is as it is stored. *)
ReportCurrent(w) ==
  Requests(w, {"database"}) /\ pc[w] \in {"get", "close"} =>
    \A i \in 1 .. request[w].stage - 1 :
      store[SectionAt[i]] # Nothing =>
        request[w].report[SectionAt[i]] = store[SectionAt[i]]

(* One more section, read from the open database, joins those before it. *)
LEMMA CollectKeepsReport ==
  ASSUME Inductive, NEW w \in Workers, ReportCurrent(w), CollectSection(w)
  PROVE  ReportCurrent(w)'
  <1> DEFINE n == request[w].stage
             k == AtSection(w)
             text == Get(k, request[w].text)
  <1>1. /\ w \in Threads /\ pc[w] = "get" /\ Requests(w, {"database"}) /\ store' = store
        /\ request' = [request EXCEPT ![w].text = text, ![w].report[k] = text, ![w].stage = @ + 1]
    BY DEF CollectSection, At, dbVars, Threads, DbUsers
  <1>2. n \in 1 .. 3 /\ k \in Sections /\ k = SectionAt[n]
        /\ \A i \in 1 .. n - 1 : SectionAt[i] \in Sections /\ SectionAt[i] # k
    BY <1>1 DEF Inductive, RequestShape, AtSection, SectionAt, Sections
  <1>3. request[w] \in RequestRecords /\ request \in [Workers -> RequestRecords]
    BY DEF Inductive, TypeOK, RequestTypeOK
  <1>4. /\ request'[w].stage = n + 1
        /\ request'[w].report[k] = text
        /\ \A i \in 1 .. n - 1 : request'[w].report[SectionAt[i]] = request[w].report[SectionAt[i]]
    <2> HIDE DEF text, k
    <2> QED
      BY <1>1, <1>2, <1>3 DEF RequestRecords
  <1>5. store[k] # Nothing => text = store[k]
    BY DEF Get
  <1>6. \A i \in 1 .. n : store[SectionAt[i]] # Nothing =>
          request'[w].report[SectionAt[i]] = store[SectionAt[i]]
    <2> SUFFICES ASSUME NEW i \in 1 .. n, store[SectionAt[i]] # Nothing
                 PROVE  request'[w].report[SectionAt[i]] = store[SectionAt[i]]
      OBVIOUS
    <2>1. CASE i = n
      BY <1>2, <1>4, <1>5, <2>1
    <2>2. CASE i \in 1 .. n - 1
      BY <1>1, <1>4, <2>2 DEF ReportCurrent
    <2> QED
      BY <1>2, <2>1, <2>2
  <1>7. \A i \in 1 .. request'[w].stage - 1 : i \in 1 .. n
    BY <1>2, <1>4
  <1>8. store' = store
    BY <1>1
  <1> QED
    BY <1>6, <1>7, <1>8 DEF ReportCurrent

(* While a worker has the database open nobody else changes it. *)
LEMMA ReportKept ==
  ASSUME Inductive, RequestProgress, ReportConsistent, [Next]_vars
  PROVE  ReportConsistent'
  <1> SUFFICES ASSUME NEW w \in Workers
               PROVE  ReportCurrent(w)'
    BY DEF ReportConsistent, ReportCurrent
  <1>1. /\ w \in Threads /\ w \in DbUsers /\ ReportCurrent(w)
        /\ pc \in [Threads -> Points] /\ request \in [Workers -> RequestRecords]
    BY DEF Threads, DbUsers, Inductive, TypeOK, ThreadTypeOK, RequestTypeOK, ReportConsistent,
       ReportCurrent
  <1>2. CASE Ends
    BY <1>1, <1>2 DEF Ends, StartPc, ReportCurrent
  <1>3. CASE Serve(w)
    BY <1>1, <1>3 DEF Serve, Goto, ReportCurrent
  <1>4. CASE WorkerStep(w)
    <2>1. CASE CollectSection(w)
      BY <1>1, <2>1, CollectKeepsReport
    <2>2. CASE OpenDb(w)
      <3>1. request' = request /\ request[w].stage = 1
        BY <2>2 DEF OpenDb, At, RequestProgress
      <3> QED
        BY <3>1 DEF ReportCurrent
    <2>3. CASE Acquire(w) \/ CloseDb(w)
      BY <1>1, <2>3 DEF Acquire, CloseDb, FinishRequest, Goto, ReportCurrent
    <2>4. CASE OpenDbThrows(w) \/ UpdateThrows(w) \/ ShowThrows(w) \/ CollectThrows(w) \/ Release(w)
      <3>1. pc'[w] = "idle"
        BY <1>1, <2>4 DEF OpenDbThrows, UpdateThrows, ShowThrows, CollectThrows, Release, Abandon,
           FinishRequest, Goto
      <3> QED
        BY <3>1 DEF ReportCurrent
    <2>5. CASE ReadForUpdate(w) \/ WriteBack(w) \/ ShowSection(w) \/ ClearSupplies(w) \/ SeedSection(w)
      <3>1. ~Requests(w, {"database"})
        BY <2>5, ServerAssumption DEF ReadForUpdate, WriteBack, ShowSection, ClearSupplies,
           SeedSection, Updates, Requests
      <3>2. request'[w].kind = request[w].kind
        BY <1>1, <2>5 DEF ReadForUpdate, WriteBack, ShowSection, ClearSupplies, SeedSection,
           RequestRecords
      <3> QED
        BY <3>1, <3>2 DEF ReportCurrent, Requests
    <2> QED
      BY <1>4, <2>1, <2>2, <2>3, <2>4, <2>5 DEF WorkerStep, DbStep
  <1>5. CASE ~Serve(w) /\ ~WorkerStep(w) /\ pc'[w] = pc[w] /\ request'[w] = request[w]
    <2> SUFFICES ASSUME Requests(w, {"database"}), pc[w] \in {"get", "close"}
                 PROVE  store' = store
      BY <1>1, <1>5 DEF ReportCurrent, Requests
    <2>1. dbHolder = w /\ ~DbStep(w)
      BY <1>1, <1>5 DEF Inductive, WrapperScoped, WorkerStep
    <2> QED
      BY <1>5, <2>1, OnlyHolderWrites
  <1> QED
    BY <1>2, <1>3, <1>4, <1>5, WorkerMoves

(* GET /database, although it asks for no permit and reads three keys one after
   the other, reports sections of one and the same state of the database. *)
THEOREM ReportsAreConsistent == Spec => []ReportConsistent
  <1>1. Init => ReportConsistent
    BY DEF Init, ReportConsistent, StartPc, Threads, DbUsers
  <1>2. Inductive /\ RequestProgress /\ ReportConsistent /\ [Next]_vars => ReportConsistent'
    BY ReportKept
  <1> QED
    BY <1>1, <1>2, Invariance, RequestProgressInvariant, PTL DEF Spec

-------------------------------------------------------------------------------
(* The emergencies. *)

(* Nothing that EmergencyShape speaks of changes. *)
EmergencyFrame ==
  /\ UNCHANGED <<run, emergencyPc, status>>
  /\ \A k \in Keys : queues'[k].emergencies = queues[k].emergencies
  /\ \A l \in Listeners : message'[l] = message[l]

(* Nothing is said of the rest of the state. *)
LEMMA EmergencyFrameKeeps ==
  ASSUME EmergencyShape, EmergencyFrame
  PROVE  EmergencyShape'
  <1>1. SentBefore(run + 1)' /\ (SentBefore(run) => SentBefore(run)')
    BY DEF EmergencyShape, EmergencyFrame, SentBefore
  <1> QED
    BY <1>1 DEF EmergencyShape, EmergencyFrame, Up

(* No use of the semaphore or the database gives a listener a message. *)
LEMMA DbStepEmergency ==
  ASSUME Inductive, NEW t \in DbUsers, DbStep(t)
  PROVE  EmergencyFrame
  <1> USE DEF others, queueVars, processVars, moduleVars
  <1>1. CASE Release(t)
    BY <1>1, ServerAssumption DEF Release, EmergencyFrame, Inductive, TypeOK, QueueTypeOK,
       MessageListeners
  <1>2. CASE ~Release(t)
    BY <1>2 DEF DbStep, Acquire, OpenDb, OpenDbThrows, ReadForUpdate, UpdateThrows, WriteBack,
       CloseDb, EmergencyFrame
  <1> QED
    BY <1>1, <1>2

(* Nor do the requests, a new connection, the sensors, or a signal. *)
LEMMA OtherEmergency ==
  ASSUME Inductive,
         \/ \E w \in Workers : Serve(w) \/ WorkerStep(w)
         \/ \E l \in Listeners : Connect(l)
         \/ Sense \/ RaiseAlert \/ Signal \/ UNCHANGED vars
  PROVE  EmergencyFrame
  <1> USE DEF others, queueVars, processVars, moduleVars, dbThreadVars, EmergencyFrame
  <1>1. ASSUME NEW w \in Workers, Serve(w) \/ WorkerStep(w)
        PROVE  EmergencyFrame
    <2>1. CASE DbStep(w)
      BY <2>1, DbStepEmergency DEF DbUsers
    <2>2. CASE ~DbStep(w)
      <3>1. \/ Serve(w) \/ ShowSection(w) \/ ShowThrows(w) \/ CollectSection(w) \/ CollectThrows(w)
            \/ ClearSupplies(w) \/ SeedSection(w)
        BY <1>1, <2>2 DEF WorkerStep
      <3>2. UNCHANGED <<message, others>>
        BY <3>1 DEF Serve, ShowSection, ShowThrows, CollectSection, CollectThrows, ClearSupplies,
           SeedSection
      <3> QED
        BY <3>2
    <2> QED
      BY <2>1, <2>2
  <1>2. (\E l \in Listeners : Connect(l)) \/ Sense \/ RaiseAlert \/ Signal \/ UNCHANGED vars =>
          EmergencyFrame
    <2>1. (\E l \in Listeners : Connect(l)) \/ Sense \/ Signal \/ UNCHANGED vars => EmergencyFrame
      BY DEF Connect, Sense, Signal, vars
    <2>2. CASE RaiseAlert
      <3>1. QueueTypeOK /\ Entries[sensor] \in Locations
        BY ServerAssumption DEF Inductive, TypeOK, ProcessTypeOK
      <3>2. OtherQueuesKept /\ emergencies' = emergencies
        BY <2>2, <3>1, SendAlertFacts DEF RaiseAlert
      <3> QED
        BY <2>2, <3>2 DEF RaiseAlert, OtherQueuesKept, emergencies
    <2> QED
      BY <2>1, <2>2
  <1> QED
    BY <1>1, <1>2

(* The types that the messages of emergencies have. *)
LEMMA EmergencyTyped ==
  ASSUME Inductive, EmergencyShape
  PROVE  /\ run \in Nat /\ run \in 1 .. MaxRuns
         /\ QueueTypeOK /\ emergencies \in Seq(EmergencyMessages)
         /\ \A k \in Keys : \A i \in DOMAIN queues[k].emergencies :
              i \in Nat /\ queues[k].emergencies[i].sentIn \in Nat
         /\ \A l \in Listeners : message[l] # Nothing => message[l].sentIn \in Nat
         /\ message \in [MessageListeners -> Messages]
  <1>1. \A m \in EmergencyMessages : m.sentIn \in Nat
    BY ServerAssumption DEF EmergencyMessages
  <1>2. \A k \in Keys : queues[k].emergencies \in Seq(EmergencyMessages)
    BY DEF Inductive, TypeOK, QueueTypeOK, QueueRecords
  <1>3. \A k \in Keys : \A i \in DOMAIN queues[k].emergencies :
          i \in Nat /\ queues[k].emergencies[i] \in EmergencyMessages
    BY <1>2
  <1> QED
    BY <1>1, <1>3, QueueTyped, ServerAssumption DEF Inductive, TypeOK, ProcessTypeOK, QueueTypeOK,
       EmergencyShape

(* The emergencies in the queues were in the same queues before, in the same
   order, the first ones perhaps gone. *)
Fewer ==
  \E shift \in [Keys -> Nat] :
    \A k \in Keys : \A i \in DOMAIN queues'[k].emergencies :
      /\ i \in Nat /\ i + shift[k] \in DOMAIN queues[k].emergencies
      /\ queues'[k].emergencies[i] = queues[k].emergencies[i + shift[k]]

(* Queues that are as they were, or empty, hold no others. *)
LEMMA KeptIsFewer ==
  ASSUME Inductive, EmergencyShape,
         \A k \in Keys : queues'[k].emergencies \in {queues[k].emergencies, <<>>}
  PROVE  Fewer
  <1>1. [k \in Keys |-> 0] \in [Keys -> Nat]
    OBVIOUS
  <1>2. ASSUME NEW k \in Keys, NEW i \in DOMAIN queues'[k].emergencies
        PROVE  /\ i \in Nat /\ i + 0 \in DOMAIN queues[k].emergencies
               /\ queues'[k].emergencies[i] = queues[k].emergencies[i + 0]
    <2>1. queues'[k].emergencies = queues[k].emergencies
      OBVIOUS
    <2> QED
      BY <2>1, EmergencyTyped
  <1> QED
    BY <1>1, <1>2 DEF Fewer

(* Fewer emergencies are as different as they were. *)
LEMMA FewerEmergencies ==
  ASSUME EmergencyShape, Fewer
  PROVE  /\ \A r : SentBefore(r) =>
              \A k \in Keys : \A i \in DOMAIN queues'[k].emergencies :
                queues'[k].emergencies[i].sentIn < r
         /\ \A k, m \in Keys :
              \A i \in DOMAIN queues'[k].emergencies, j \in DOMAIN queues'[m].emergencies :
                queues'[k].emergencies[i].sentIn = queues'[m].emergencies[j].sentIn => k = m /\ i = j
         /\ \A l \in Listeners : message[l] # Nothing =>
              \A k \in Keys : \A i \in DOMAIN queues'[k].emergencies :
                queues'[k].emergencies[i].sentIn # message[l].sentIn
  <1>1. PICK shift \in [Keys -> Nat] :
          \A k \in Keys : \A i \in DOMAIN queues'[k].emergencies :
            /\ i \in Nat /\ i + shift[k] \in DOMAIN queues[k].emergencies
            /\ queues'[k].emergencies[i] = queues[k].emergencies[i + shift[k]]
    BY DEF Fewer
  <1>2. ASSUME NEW k \in Keys, NEW m \in Keys, NEW i \in DOMAIN queues'[k].emergencies,
               NEW j \in DOMAIN queues'[m].emergencies,
               queues'[k].emergencies[i].sentIn = queues'[m].emergencies[j].sentIn
        PROVE  k = m /\ i = j
    <2>1. k = m /\ i + shift[k] = j + shift[m]
      BY <1>1, <1>2 DEF EmergencyShape
    <2>2. i \in Nat /\ j \in Nat /\ shift[k] \in Nat
      BY <1>1
    <2> QED
      BY <2>1, <2>2
  <1> QED
    BY <1>1, <1>2 DEF EmergencyShape, SentBefore

(* Where no listener has more than it had. *)
LEMMA FewerKeeps ==
  ASSUME EmergencyShape, Fewer, UNCHANGED <<run, status, emergencyPc>>,
         \A l \in Listeners : message'[l] \in {message[l], Nothing}
  PROVE  EmergencyShape'
  <1>1. \A r : SentBefore(r) => SentBefore(r)'
    BY FewerEmergencies DEF SentBefore
  <1>2. SentBefore(run + 1)' /\ (Up' /\ emergencyPc' = "sleep" => SentBefore(run)')
    <2>1. SentBefore(run + 1) /\ (Up /\ emergencyPc = "sleep" => SentBefore(run))
      BY DEF EmergencyShape
    <2>2. run' = run
      OBVIOUS
    <2>3. SentBefore(run + 1)' /\ (SentBefore(run) => SentBefore(run)')
      BY <2>1, <2>2, FewerEmergencies DEF SentBefore
    <2> QED
      BY <2>1, <2>3 DEF Up
  <1> QED
    BY <1>2, FewerEmergencies DEF EmergencyShape

(* The listener that receives an emergency takes it from the queue. *)
LEMMA ReceiveEmergencyShape ==
  ASSUME Inductive, EmergencyShape, NEW t \in MessageListeners, Receive(t)
  PROVE  EmergencyShape'
  <1> USE DEF dbThreadVars, processVars, moduleVars
  <1>1. CASE t = AlertListener
    <2>1. ReceiveAlert /\ message' = [message EXCEPT ![t] = Head(alerts)]
      BY <1>1, ServerAssumption DEF Receive
    <2>2. \A k \in Keys : queues'[k].emergencies = queues[k].emergencies
      BY <2>1, EmergencyTyped, ReceiveAlertFacts DEF OtherQueuesKept, emergencies
    <2>3. \A l \in Listeners : message'[l] = message[l]
      BY <1>1, <2>1, EmergencyTyped, ServerAssumption DEF MessageListeners
    <2> QED
      BY <2>2, <2>3, EmergencyFrameKeeps DEF Receive, EmergencyFrame
  <1>2. CASE t \in Listeners
    <2> DEFINE m == Head(emergencies)
               shift == [k \in Keys |-> IF k = key THEN 1 ELSE 0]
    <2>1. /\ ReceiveEmergency /\ message' = [message EXCEPT ![t] = m]
          /\ UNCHANGED <<run, status, emergencyPc>>
      BY <1>2, ServerAssumption DEF Receive
    <2>2. /\ emergencies # <<>> /\ emergencies' = Tail(emergencies)
          /\ emergencies \in Seq(EmergencyMessages) /\ OtherQueuesKept /\ key \in Keys
      BY <2>1, EmergencyTyped, ReceiveEmergencyFacts DEF QueueTypeOK
    <2>3. /\ 1 \in DOMAIN emergencies /\ m = emergencies[1] /\ m \in EmergencyMessages
          /\ \A i \in DOMAIN emergencies' : /\ i \in Nat \ {0} /\ i + 1 \in DOMAIN emergencies
                                            /\ emergencies'[i] = emergencies[i + 1]
      BY <2>2
    <2>4. /\ message'[t] = m
          /\ \A l \in Listeners \ {t} : message'[l] = message[l]
      BY <1>2, <2>1, EmergencyTyped DEF MessageListeners
    <2> HIDE DEF m
    <2>5. ASSUME NEW k \in Keys, NEW i \in DOMAIN queues'[k].emergencies
          PROVE  /\ i \in Nat /\ i + shift[k] \in DOMAIN queues[k].emergencies
                 /\ queues'[k].emergencies[i] = queues[k].emergencies[i + shift[k]]
                 /\ k = key => i + shift[k] # 1
      <3>1. CASE k = key
        <4>1. /\ queues'[k].emergencies = emergencies' /\ queues[k].emergencies = emergencies
              /\ shift[k] = 1
          BY <2>2, <3>1 DEF emergencies, OtherQueuesKept
        <4> HIDE DEF shift
        <4> QED
          BY <2>3, <4>1
      <3>2. CASE k # key
        <4>1. queues'[k] = queues[k] /\ shift[k] = 0
          BY <2>2, <3>2 DEF OtherQueuesKept
        <4> QED
          BY <3>2, <4>1, EmergencyTyped
      <3> QED
        BY <3>1, <3>2
    <2>6. Fewer
      <3>1. shift \in [Keys -> Nat]
        OBVIOUS
      <3> HIDE DEF shift
      <3> QED
        BY <2>5, <3>1 DEF Fewer
    <2>7. \A r : SentBefore(r) => m.sentIn < r
      BY <2>2, <2>3 DEF SentBefore, emergencies
    <2>8. SentBefore(run + 1)' /\ (Up' /\ emergencyPc' = "sleep" => SentBefore(run)')
      <3>1. SentBefore(run + 1) /\ (Up /\ emergencyPc = "sleep" => SentBefore(run))
        BY DEF EmergencyShape
      <3>2. SentBefore(run + 1)' /\ (SentBefore(run) => SentBefore(run)')
        BY <2>1, <2>4, <2>6, <2>7, <3>1, FewerEmergencies DEF SentBefore
      <3> QED
        BY <2>1, <3>1, <3>2 DEF Up
    <2>9. \A k \in Keys : \A i \in DOMAIN queues'[k].emergencies :
            queues'[k].emergencies[i].sentIn # m.sentIn
      <3>1. queues[key].emergencies[1] = m /\ 1 \in DOMAIN queues[key].emergencies
        BY <2>3 DEF emergencies
      <3> HIDE DEF shift
      <3> QED
        <4>1. \A k \in Keys : \A i \in DOMAIN queues[k].emergencies :
                queues[k].emergencies[i].sentIn = m.sentIn => k = key /\ i = 1
          BY <2>2, <3>1 DEF EmergencyShape
        <4> QED
          BY <2>5, <4>1
    <2>10. \A l \in Listeners \ {t} : message[l] # Nothing => message[l].sentIn # m.sentIn
      BY <2>2, <2>3 DEF EmergencyShape, emergencies
    <2>11. ASSUME NEW l \in Listeners, message'[l] # Nothing
           PROVE  /\ \A k \in Keys : \A i \in DOMAIN queues'[k].emergencies :
                       queues'[k].emergencies[i].sentIn # message'[l].sentIn
                  /\ \A n \in Listeners :
                       message'[n] # Nothing /\ message'[n].sentIn = message'[l].sentIn => n = l
      BY <2>4, <2>6, <2>9, <2>10, <2>11, FewerEmergencies DEF EmergencyShape
    <2>12. \A l \in Listeners : message'[l] \in EmergencyMessages \union {Nothing}
      BY <2>3, <2>4 DEF EmergencyShape
    <2> QED
      BY <2>6, <2>8, <2>11, <2>12, FewerEmergencies DEF EmergencyShape
  <1> QED
    BY <1>1, <1>2 DEF MessageListeners

(* A new emergency is of the run that sends it, which has sent none before. *)
LEMMA RaiseEmergencyShape ==
  ASSUME Inductive, EmergencyShape, RaiseEmergency
  PROVE  EmergencyShape'
  <1> USE DEF dbThreadVars, processVars
  <1>1. PICK json \in BOOLEAN : SendEmergency([sentIn |-> run, json |-> json])
    BY DEF RaiseEmergency
  <1> DEFINE new == [sentIn |-> run, json |-> json]
             n == Len(emergencies) + 1
  <1>2. /\ Up /\ emergencyPc = "sleep" /\ emergencyPc' = "done"
        /\ UNCHANGED <<run, status, message>> /\ run \in Nat
    BY EmergencyTyped DEF RaiseEmergency
  <1>3. SentBefore(run)
    BY <1>2 DEF EmergencyShape
  <1>4. new \in EmergencyMessages /\ new.sentIn = run
    BY EmergencyTyped DEF EmergencyMessages
  <1> HIDE DEF new
  <1>5. /\ emergencies' = Append(emergencies, new) /\ OtherQueuesKept
        /\ emergencies \in Seq(EmergencyMessages)
    BY <1>1, <1>4, EmergencyTyped, SendEmergencyFacts DEF new
  <1>6. \A i \in DOMAIN emergencies' :
          \/ i \in DOMAIN emergencies /\ emergencies'[i] = emergencies[i]
          \/ i = n /\ emergencies'[i] = new
    BY <1>4, <1>5
  <1> HIDE DEF n
  <1> DEFINE Old(k, i) == /\ i \in DOMAIN queues[k].emergencies
                          /\ queues'[k].emergencies[i] = queues[k].emergencies[i]
                          /\ queues'[k].emergencies[i].sentIn \in Nat
                          /\ queues'[k].emergencies[i].sentIn < run
             New(k, i) == k = key /\ i = n /\ queues'[k].emergencies[i].sentIn = run
  <1>7. ASSUME NEW k \in Keys, NEW i \in DOMAIN queues'[k].emergencies
        PROVE  Old(k, i) \/ New(k, i)
    <2>1. \/ i \in DOMAIN queues[k].emergencies /\ queues'[k].emergencies[i] = queues[k].emergencies[i]
          \/ New(k, i)
      BY <1>4, <1>5, <1>6 DEF emergencies, OtherQueuesKept
    <2> QED
      BY <1>3, <2>1, EmergencyTyped DEF SentBefore
  <1>8. \A l \in Listeners : message[l] # Nothing =>
          message[l].sentIn \in Nat /\ message[l].sentIn < run
    BY <1>3, EmergencyTyped DEF SentBefore
  <1>9. SentBefore(run + 1)'
    <2>1. \A k \in Keys : \A i \in DOMAIN queues'[k].emergencies :
            queues'[k].emergencies[i].sentIn < run + 1
      BY <1>2, <1>7
    <2> QED
      BY <1>2, <1>8, <2>1 DEF SentBefore
  <1>10. ASSUME NEW k \in Keys, NEW m \in Keys, NEW i \in DOMAIN queues'[k].emergencies,
                NEW j \in DOMAIN queues'[m].emergencies,
                queues'[k].emergencies[i].sentIn = queues'[m].emergencies[j].sentIn
         PROVE  k = m /\ i = j
    <2>1. \/ Old(k, i) /\ Old(m, j)
          \/ New(k, i) /\ New(m, j)
      BY <1>2, <1>7, <1>10
    <2> QED
      BY <1>10, <2>1 DEF EmergencyShape
  <1>11. ASSUME NEW l \in Listeners, message[l] # Nothing, NEW k \in Keys,
                NEW i \in DOMAIN queues'[k].emergencies
         PROVE  queues'[k].emergencies[i].sentIn # message[l].sentIn
    <2>1. CASE Old(k, i)
      BY <1>11, <2>1 DEF EmergencyShape
    <2>2. CASE New(k, i)
      BY <1>2, <1>8, <1>11, <2>2
    <2> QED
      BY <1>7, <2>1, <2>2
  <1> QED
    BY <1>2, <1>9, <1>10, <1>11 DEF EmergencyShape

(* The end of a process takes what its listeners had, and the next process is
   of a later run than what is left in the queue. *)
LEMMA EmergencyShapeKept ==
  ASSUME Inductive, EmergencyShape, [Next]_vars
  PROVE  EmergencyShape'
  <1> USE DEF dbThreadVars
  <1>1. ASSUME NEW t \in MessageListeners, ListenerStep(t)
        PROVE  EmergencyShape'
    BY <1>1, DbStepEmergency, EmergencyFrameKeeps, ReceiveEmergencyShape DEF ListenerStep, DbUsers
  <1>2. ASSUME NEW t \in Listeners \union {Main}, RemoveQueueAtEnd(t)
        PROVE  EmergencyShape'
    <2>1. UNCHANGED <<message, run, status, emergencyPc>>
      BY <1>2 DEF RemoveQueueAtEnd, processVars, moduleVars
    <2>2. \A k \in Keys : queues'[k].emergencies \in {queues[k].emergencies, <<>>}
      BY <1>2, EmergencyTyped, RemoveQueueFacts DEF RemoveQueueAtEnd, OtherQueuesKept, emergencies
    <2> QED
      BY <2>1, <2>2, KeptIsFewer, FewerKeeps
  <1>3. CASE SenderExits \/ Crash \/ \E t \in Listeners \union {Main} : Exit(t)
    <2>1. /\ message' = [t \in MessageListeners |-> Nothing]
          /\ ~Up' /\ UNCHANGED <<queues, run>>
      BY <1>3 DEF SenderExits, Crash, Exit, EndProcess, Forget, queueVars, Up
    <2>2. \A l \in Listeners : message'[l] = Nothing
      BY <2>1 DEF MessageListeners
    <2>3. SentBefore(run + 1)'
      BY <2>1, <2>2 DEF SentBefore, EmergencyShape
    <2> QED
      BY <2>1, <2>2, <2>3 DEF EmergencyShape
  <1>4. CASE Restart
    <2>1. run' = run + 1 /\ UNCHANGED <<message, emergencyPc>>
      BY <1>4 DEF Restart, moduleVars
    <2>2. Fewer
      <3>1. \A k \in Keys : queues'[k].emergencies \in {queues[k].emergencies, <<>>}
        BY <1>4, EmergencyTyped, CreateQueueFacts DEF Restart
      <3> QED
        BY <3>1, KeptIsFewer
    <2>3. SentBefore(run + 1) /\ run \in Nat
      BY EmergencyTyped DEF EmergencyShape
    <2>4. \A k \in Keys : \A i \in DOMAIN queues'[k].emergencies :
            /\ queues'[k].emergencies[i].sentIn < run + 1
            /\ queues'[k].emergencies[i].sentIn \in Nat
      <3>1. PICK shift \in [Keys -> Nat] :
              \A k \in Keys : \A i \in DOMAIN queues'[k].emergencies :
                /\ i + shift[k] \in DOMAIN queues[k].emergencies
                /\ queues'[k].emergencies[i] = queues[k].emergencies[i + shift[k]]
        BY <2>2 DEF Fewer
      <3> QED
        BY <2>3, <3>1, EmergencyTyped DEF SentBefore
    <2>5. SentBefore(run)' /\ SentBefore(run + 1)'
      BY <2>1, <2>3, <2>4, EmergencyTyped DEF SentBefore
    <2> QED
      BY <2>1, <2>2, <2>5, FewerEmergencies DEF EmergencyShape
  <1> QED
    BY <1>1, <1>2, <1>3, <1>4, RaiseEmergencyShape, OtherEmergency, EmergencyFrameKeeps
    DEF Next, EndConnStep

(* The emergencies in the queue and in the listeners' hands are of different
   runs of the process. *)
LEMMA EmergencyShapeInvariant == Spec => []EmergencyShape
  <1>1. Init => EmergencyShape
    <2> SUFFICES ASSUME Init  PROVE EmergencyShape
      OBVIOUS
    <2>1. \A k \in Keys : queues[k].emergencies = <<>>
      BY NoQueueTyped DEF Init, NoQueue
    <2>2. \A k \in Keys : DOMAIN queues[k].emergencies = {}
      BY <2>1
    <2>3. \A l \in Listeners : message[l] = Nothing
      BY DEF Init, MessageListeners
    <2> QED
      BY <2>2, <2>3 DEF EmergencyShape, SentBefore
  <1>2. Inductive /\ EmergencyShape /\ [Next]_vars => EmergencyShape'
    BY EmergencyShapeKept
  <1> QED
    BY <1>1, <1>2, Invariance, PTL DEF Spec

(* No emergency is handled by two listeners, of however many clients, and over
   any number of restarts on a queue that was left behind. *)
THEOREM EmergenciesHandledOnce == Spec => []EmergencyHandledOnce
  <1>1. EmergencyShape => EmergencyHandledOnce
    BY DEF EmergencyShape, EmergencyHandledOnce
  <1> QED
    BY <1>1, EmergencyShapeInvariant, PTL

(* All that is said of the states of the server, together. *)
THEOREM ProofInvariantHolds == Spec => []ProofInvariant
  <1>1. Inductive /\ QueueShape /\ LeftByKilled /\ RequestProgress /\ EmergencyShape => ProofInvariant
    BY DEF ProofInvariant
  <1> QED
    BY <1>1, Invariance, QueueShapeInvariant, LeftByKilledInvariant, RequestProgressInvariant,
       EmergencyShapeInvariant, PTL

-------------------------------------------------------------------------------
(* The calls. *)

(* What the callers see of the workers. *)
CallsSeen == [w \in Workers |-> CallOf(request[w])]

(* A step the callers do not see: no call is made or answered, and the permit
   is where it was or has only been passed on. *)
Unseen == (Leaked' <=> Leaked) /\ CallsSeen' = CallsSeen

(* A step of one worker changes the call of no other. *)
LEMMA OneCallChanges ==
  ASSUME NEW w \in Workers, Frame(w)
  PROVE  CallsSeen' = [CallsSeen EXCEPT ![w] = CallOf(request'[w])]
  BY DEF Frame, CallsSeen

(* A step that changes no request's kind or body changes no call. *)
LEMMA NoCallChanges ==
  ASSUME \A w \in Workers : /\ request'[w].kind = request[w].kind
                            /\ request'[w].body = request[w].body
  PROVE  CallsSeen' = CallsSeen
  BY DEF CallsSeen, CallOf

(* The permit is neither lost nor found by a step that leaves the semaphore to
   whoever holds it. *)
LEMMA PermitUnchanged ==
  ASSUME NEW t \in DbUsers, Frame(t), semaphore' = semaphore, HoldsPermit(t)' <=> HoldsPermit(t)
  PROVE  Leaked' <=> Leaked
  BY FrameHolds DEF Leaked

(* acquire() and release() have it in hand or in the semaphore. *)
LEMMA PermitPassed ==
  ASSUME Inductive, NEW t \in DbUsers, Acquire(t) \/ Release(t)
  PROVE  ~Leaked /\ ~Leaked'
  <1> USE DEF Inductive, TypeOK
  <1>1. t \in Threads /\ pc \in [Threads -> Points] /\ semaphore \in 0 .. 1
    BY DEF Threads, ThreadTypeOK, Permits
  <1>2. Updates(t)
    BY DEF Acquire, Release, At, RequestShape, Updates, Requests, DbUsers
  <1>3. CASE Acquire(t)
    <2>1. pc'[t] = "open" /\ request' = request /\ semaphore > 0
      BY <1>1, <1>3 DEF Acquire, Goto
    <2>2. HoldsPermit(t)'
      BY <1>2, <2>1 DEF HoldsPermit, Updates, Requests
    <2> QED
      BY <1>1, <2>1, <2>2 DEF Leaked
  <1>4. CASE Release(t)
    <2>1. HoldsPermit(t) /\ semaphore' = semaphore + 1
      BY <1>2, <1>4 DEF Release, At, HoldsPermit
    <2> QED
      BY <1>1, <2>1 DEF Leaked
  <1> QED
    BY <1>3, <1>4

(* The listeners make no calls, and keep the permit or pass it on. *)
LEMMA ListenerStutters ==
  ASSUME Inductive, NEW t \in MessageListeners, DbStep(t)
  PROVE  Unseen
  <1>1. t \in DbUsers /\ t \in Threads /\ t \notin Workers /\ pc \in [Threads -> Points]
    BY ServerAssumption DEF DbUsers, Threads, Inductive, TypeOK, ThreadTypeOK
  <1>2. Frame(t)
    BY <1>1, DbStepOwn
  <1>3. CallsSeen' = CallsSeen
    BY <1>1, <1>2, NoCallChanges DEF Frame
  <1>4. CASE Acquire(t) \/ Release(t)
    BY <1>1, <1>3, <1>4, PermitPassed DEF Unseen
  <1>5. CASE ~Acquire(t) /\ ~Release(t)
    <2>1. semaphore' = semaphore
      BY <1>5 DEF DbStep, OpenDb, OpenDbThrows, ReadForUpdate, UpdateThrows, WriteBack, CloseDb
    <2>2. Updates(t) /\ Updates(t)'
      BY DEF Updates
    <2>3. /\ pc[t] \in {"open", "get", "put", "close"}
          /\ pc'[t] \in {"get", "put", "close", "release"}
      BY <1>1, <1>5, <2>2 DEF DbStep, OpenDb, FirstUse, OpenDbThrows, ReadForUpdate, UpdateThrows,
         WriteBack, CloseDb, Abandon, At, Goto
    <2> QED
      BY <1>1, <1>2, <1>3, <2>1, <2>2, <2>3, PermitUnchanged DEF HoldsPermit, Unseen
  <1> QED
    BY <1>4, <1>5

(* A new request is a new call. *)
LEMMA ServeMakes ==
  ASSUME Inductive, NEW w \in Workers, Serve(w)
  PROVE  Http!Next
  <1>1. /\ w \in DbUsers /\ w \in Threads /\ w \notin MessageListeners /\ Frame(w)
        /\ pc \in [Threads -> Points] /\ request \in [Workers -> RequestRecords]
    BY WorkerStepOwn, ServerAssumption DEF DbUsers, Threads, Inductive, TypeOK, ThreadTypeOK,
       RequestTypeOK
  <1>2. PICK k \in Kinds : \E b \in IF k = "setsupplies" THEN Bodies ELSE {Nothing} :
          /\ request' = [request EXCEPT ![w] = Request(k, b)]
          /\ Goto(w, IF k = "setsupplies" THEN "acquire" ELSE "open")
    BY DEF Serve
  <1>3. k \in RequestKinds /\ request'[w].kind = k
        /\ pc'[w] = IF k = "setsupplies" THEN "acquire" ELSE "open"
    BY <1>1, <1>2, ServerAssumption DEF Request, Goto
  <1>4. CallsSeen[w] = "none" /\ CallOf(request'[w]) \in Http!Calls
    BY <1>3 DEF CallsSeen, CallOf, Serve, At, Inductive, RequestShape, Http!Calls, RequestKinds
  <1>5. Leaked' <=> Leaked
    <2>1. semaphore' = semaphore /\ ~HoldsPermit(w) /\ ~HoldsPermit(w)'
      BY <1>1, <1>3 DEF Serve, At, HoldsPermit, Updates, Requests
    <2> QED
      BY <1>1, <2>1, PermitUnchanged
  <1> QED
    BY <1>1, <1>4, <1>5, OneCallChanges DEF Http!Next, Http!Make, CallsSeen

(* A request that never asked for the permit is answered, or goes on. *)
LEMMA UnguardedStep ==
  ASSUME Inductive, NEW w \in Workers, WorkerStep(w), ~Requests(w, {"setsupplies"})
  PROVE  Http!Next \/ Unseen
  <1>1. /\ w \in DbUsers /\ w \notin MessageListeners /\ Frame(w)
        /\ request \in [Workers -> RequestRecords]
    BY WorkerStepOwn, ServerAssumption DEF DbUsers, Inductive, TypeOK, RequestTypeOK
  <1>2. ~HoldsPermit(w) /\ ~HoldsPermit(w)'
    BY <1>1, WorkerProgress DEF HoldsPermit, Updates, Requests
  <1>3. semaphore' = semaphore
    BY <1>1 DEF WorkerStep, DbStep, Acquire, OpenDb, OpenDbThrows, ReadForUpdate, UpdateThrows,
       WriteBack, CloseDb, Release, ShowSection, ShowThrows, CollectSection, CollectThrows,
       ClearSupplies, SeedSection, At, Inductive, RequestShape, Requests
  <1>4. Leaked' <=> Leaked
    BY <1>1, <1>2, <1>3, PermitUnchanged
  <1>5. CallsSeen[w] = "unguarded"
    <2>1. pc[w] # "idle"
      BY DEF WorkerStep, DbStep, Acquire, OpenDb, OpenDbThrows, ReadForUpdate, UpdateThrows,
         WriteBack, CloseDb, Release, ShowSection, ShowThrows, CollectSection, CollectThrows,
         ClearSupplies, SeedSection, At
    <2> QED
      BY <1>1, <2>1 DEF CallsSeen, CallOf, Inductive, RequestShape, Requests
  <1>6. CASE request'[w].kind = "none"
    <2>1. CallsSeen' = [CallsSeen EXCEPT ![w] = "none"]
      BY <1>1, <1>6, OneCallChanges DEF CallOf
    <2> QED
      BY <1>4, <1>5, <2>1 DEF Http!Next, Http!Answer, CallsSeen
  <1>7. CASE request'[w].kind = request[w].kind /\ request'[w].body = request[w].body
    BY <1>1, <1>4, <1>7, NoCallChanges DEF Frame, Unseen
  <1> QED
    BY <1>6, <1>7, WorkerProgress

(* A /setsupplies that fails had the permit, and loses it: its body is
   malformed, or an unguarded request has the database open. *)
LEMMA FailedSetLoses ==
  ASSUME Inductive, NEW w \in Workers, Requests(w, {"setsupplies"}),
         OpenDbThrows(w) \/ UpdateThrows(w)
  PROVE  Http!Next
  <1> USE DEF Inductive, TypeOK
  <1>1. /\ w \in DbUsers /\ w \in Threads /\ w \notin MessageListeners
        /\ DbStep(w) /\ Frame(w)
        /\ pc \in [Threads -> Points] /\ request \in [Workers -> RequestRecords]
    BY DbStepOwn, ServerAssumption DEF DbStep, DbUsers, Threads, ThreadTypeOK, RequestTypeOK
  <1>2. pc[w] \in {"open", "get"}
    BY <1>1 DEF OpenDbThrows, UpdateThrows, At, CanWrite, MessageListeners
  <1>3. HoldsPermit(w) /\ semaphore = 0 /\ semaphore' = semaphore
    BY <1>1, <1>2 DEF HoldsPermit, Updates, PermitAccounted, OpenDbThrows, UpdateThrows
  <1>4. pc'[w] = "idle" /\ request'[w].kind = "none"
    BY <1>1 DEF OpenDbThrows, UpdateThrows, Abandon, FinishRequest, Goto, NoRequest, Request
  <1>5. ~Leaked /\ Leaked'
    <2>1. \A u \in DbUsers : ~HoldsPermit(u)'
      <3> SUFFICES ASSUME NEW u \in DbUsers, HoldsPermit(u)' PROVE FALSE
        OBVIOUS
      <3>1. u # w
        BY <1>4 DEF HoldsPermit
      <3> QED
        BY <1>1, <1>3, <3>1, FrameHolds DEF PermitExcludes
    <2> QED
      BY <1>1, <1>3, <2>1 DEF Leaked
  <1>6. CallsSeen' = [CallsSeen EXCEPT ![w] = "none"]
    BY <1>1, <1>4, OneCallChanges DEF CallOf
  <1>7. CASE request[w].body = Nothing
    <2>1. CallsSeen[w] = "malformed set"
      BY <1>7 DEF CallsSeen, CallOf, Requests
    <2> QED
      BY <1>5, <1>6, <2>1 DEF Http!Next, Http!LosePermit, CallsSeen
  <1>8. CASE request[w].body # Nothing
    <2>1. OpenDbThrows(w)
      BY <1>1, <1>8 DEF UpdateThrows, WellFormed, CanWrite, MessageListeners
    <2>2. ~DbFree /\ pc[w] = "open"
      BY <2>1 DEF OpenDbThrows, OpenThrows, At
    <2>3. dbHolder \in DbUsers /\ pc[dbHolder] \in {"get", "put", "close"}
      BY <2>2 DEF DataTypeOK, DbFree, WrapperScoped
    <2>4. ~Updates(dbHolder)
      BY <1>1, <1>3, <2>2, <2>3 DEF HoldsPermit, PermitExcludes
    <2>5. dbHolder \in Workers /\ request[dbHolder].kind \notin {"none", "setsupplies"}
      BY <2>3, <2>4 DEF Updates, Requests, DbUsers, RequestShape
    <2>6. CallsSeen[w] = "set" /\ CallsSeen[dbHolder] = "unguarded"
      BY <1>8, <2>5 DEF CallsSeen, CallOf, Requests
    <2> QED
      BY <1>5, <1>6, <2>5, <2>6 DEF Http!Next, Http!LosePermit, CallsSeen
  <1> QED
    BY <1>7, <1>8

(* Every step of a /setsupplies is one the callers may see of it. *)
LEMMA GuardedStep ==
  ASSUME Inductive, RequestProgress, NEW w \in Workers, WorkerStep(w), Requests(w, {"setsupplies"})
  PROVE  Http!Next \/ Unseen
  <1>1. /\ w \in DbUsers /\ w \in Threads /\ Frame(w) /\ DbStep(w) /\ Updates(w)
        /\ pc \in [Threads -> Points] /\ request \in [Workers -> RequestRecords]
    BY WorkerStepOwn DEF DbUsers, Threads, Inductive, TypeOK, ThreadTypeOK, RequestTypeOK,
       WorkerStep, ShowSection, ShowThrows, CollectSection, CollectThrows, ClearSupplies,
       SeedSection, Requests, Updates
  <1>2. CASE OpenDbThrows(w) \/ UpdateThrows(w)
    BY <1>2, FailedSetLoses
  <1>3. CASE Acquire(w)
    <2>1. request' = request
      BY <1>3 DEF Acquire
    <2> QED
      BY <1>1, <1>3, <2>1, PermitPassed, NoCallChanges DEF Unseen
  <1>4. CASE Release(w)
    <2>1. request'[w].kind = "none"
      BY <1>1, <1>4 DEF Release, FinishRequest, NoRequest, Request
    <2>2. CallsSeen' = [CallsSeen EXCEPT ![w] = "none"]
      BY <1>1, <2>1, OneCallChanges DEF CallOf
    <2>3. CallsSeen[w] = "set"
      BY <1>4 DEF Release, At, RequestProgress, CallsSeen, CallOf, Requests
    <2>4. ~Leaked /\ ~Leaked'
      BY <1>1, <1>4, PermitPassed
    <2> QED
      BY <2>2, <2>3, <2>4 DEF Http!Next, Http!Answer, CallsSeen
  <1>5. CASE OpenDb(w) \/ ReadForUpdate(w) \/ WriteBack(w) \/ CloseDb(w)
    <2>1. request' = request /\ semaphore' = semaphore
      BY <1>1, <1>5 DEF OpenDb, ReadForUpdate, WriteBack, CloseDb
    <2>2. /\ pc[w] \in {"open", "get", "put", "close"}
          /\ pc'[w] \in {"get", "put", "close", "release"}
      BY <1>1, <1>5 DEF OpenDb, FirstUse, ReadForUpdate, WriteBack, CloseDb, At, Goto
    <2>3. HoldsPermit(w) /\ HoldsPermit(w)'
      BY <1>1, <2>1, <2>2 DEF HoldsPermit, Updates, Requests
    <2> QED
      BY <1>1, <2>1, <2>3, PermitUnchanged, NoCallChanges DEF Unseen
  <1> QED
    BY <1>1, <1>2, <1>3, <1>4, <1>5 DEF DbStep

(* With the process all calls end, and the next one has its permit. *)
LEMMA EndResets ==
  ASSUME Ends
  PROVE  Http!Next
  <1>1. ~Leaked'
    BY DEF Ends, Leaked, Permits
  <1>2. CallsSeen' = Http!NoCalls
    BY DEF Ends, CallsSeen, CallOf, NoRequest, Request, Http!NoCalls
  <1> QED
    BY <1>1, <1>2 DEF Http!Next, Http!Reset, CallsSeen

(* Every step of the server is one its callers may see, or none to them. *)
LEMMA StepIsCall ==
  ASSUME Inductive, RequestProgress, [Next]_vars
  PROVE  Http!Next \/ Unseen
  <1> USE DEF dbThreadVars
  <1>1. ASSUME NEW w \in Workers, Serve(w) \/ WorkerStep(w)
        PROVE  Http!Next \/ Unseen
    BY <1>1, ServeMakes, UnguardedStep, GuardedStep
  <1>2. ASSUME NEW t \in Threads \ Workers, pc[t] \in Outside, NEW p \in Outside,
               Goto(t, p), UNCHANGED <<semaphore, request>>
        PROVE  Unseen
    <2>1. \A u \in DbUsers : HoldsPermit(u)' <=> HoldsPermit(u)
      BY <1>2 DEF Goto, Outside, HoldsPermit, Updates, Requests, Inductive, TypeOK, ThreadTypeOK,
         Threads
    <2> QED
      BY <1>2, <2>1 DEF Leaked, CallsSeen, Unseen
  <1>3. ASSUME UNCHANGED <<semaphore, pc, request>>
        PROVE  Unseen
    BY <1>3 DEF Unseen, Leaked, CallsSeen, HoldsPermit, Updates, Requests
  <1>4. ASSUME NEW l \in Listeners, Connect(l)
        PROVE  Unseen
    BY <1>2, <1>4, ServerAssumption DEF Connect, At, Outside, Threads, DbUsers, MessageListeners
  <1>5. ASSUME NEW t \in MessageListeners, ListenerStep(t)
        PROVE  Unseen
    <2>1. CASE Receive(t)
      BY <1>2, <2>1, ServerAssumption DEF Receive, At, Outside, Threads, DbUsers, MessageListeners
    <2> QED
      BY <1>5, <2>1, ListenerStutters DEF ListenerStep
  <1>6. ASSUME NEW t \in Listeners \union {Main}, EndConnStep(t)
        PROVE  Http!Next \/ Unseen
    <2>1. t \in Threads \ Workers
      BY ServerAssumption DEF Threads, DbUsers, MessageListeners
    <2>2. CASE RemoveQueueAtEnd(t)
      BY <1>2, <2>1, <2>2 DEF RemoveQueueAtEnd, At, Outside
    <2>3. CASE Exit(t)
      BY <2>3, EndResets DEF Exit, EndProcess, Forget, Ends
    <2> QED
      BY <1>6, <2>2, <2>3 DEF EndConnStep
  <1>7. CASE Signal
    BY <1>2, <1>7, ServerAssumption DEF Signal, At, Outside, Threads, DbUsers
  <1>8. CASE SenderExits \/ Crash
    BY <1>8, EndResets DEF SenderExits, Crash, EndProcess, Forget, Ends
  <1>9. CASE Sense \/ RaiseAlert \/ RaiseEmergency \/ Restart \/ UNCHANGED vars
    BY <1>3, <1>9 DEF Sense, RaiseAlert, RaiseEmergency, Restart, vars
  <1> QED
    BY <1>1, <1>4, <1>5, <1>6, <1>7, <1>8, <1>9 DEF Next

(* The server implements the HTTP service its sessions rely on: once the permit
   is lost no /setsupplies is answered any more, and it is lost by a
   /setsupplies that is malformed or meets a call that does not ask for it, and
   by nothing else. *)
THEOREM ImplementsTheService == Spec => ImplementsHttp
  <1>1. Init => Http!Init
    BY DEF Init, Http!Init, Http!NoCalls, Leaked, Permits, CallOf, NoRequest, Request
  <1>2. Inductive /\ RequestProgress /\ [Next]_vars =>
          [Http!Next]_<<~Leaked, [w \in Workers |-> CallOf(request[w])]>>
    BY StepIsCall DEF Unseen, CallsSeen
  <1> QED
    BY <1>1, <1>2, Invariance, RequestProgressInvariant, PTL DEF Spec, ImplementsHttp, Http!Spec
-------------------------------------------------------------------------------
(* The alerts. *)

(* Nothing that an alert's way goes through changes. *)
AlertFrame == /\ UNCHANGED <<alerts, queueLive, alertsSent, status, run>>
              /\ store'.alerts = store.alerts
              /\ AlertsInHand' = AlertsInHand

(* A step that moves no alert loses none. *)
LEMMA AlertFrameKeeps ==
  ASSUME AlertsConserved, CanCount(store.alerts), AlertFrame
  PROVE  AlertsConserved' /\ CanCount(store'.alerts)
  <1>1. CountedAlerts' = CountedAlerts
    BY DEF CountedAlerts, AlertFrame
  <1> QED
    BY <1>1 DEF AlertsConserved, AlertFrame, Up, CanCount

(* Before the listener has the counters, and after it has written them, the
   sum of what has been counted is a number. *)
LEMMA CountedTyped ==
  ASSUME Inductive, CanCount(store.alerts)
  PROVE  /\ store.alerts \in AlertTable
         /\ \A l \in Locations : store.alerts[l] \in Nat /\ SeedAlerts[l] \in Nat
         /\ CountedAlerts \in Int
         /\ AlertListener \in DbUsers /\ AlertListener \in MessageListeners
         /\ AlertListener \notin Workers /\ AlertListener \notin Listeners
         /\ AlertListener \in Threads /\ AlertListener # Main
  <1>1. store.alerts \in AlertTable
    BY DEF Inductive, TypeOK, DataTypeOK, Stores, CanCount
  <1>2. \A l \in Locations : store.alerts[l] \in Nat /\ SeedAlerts[l] \in Nat
    BY <1>1, DataAssumption DEF AlertTable
  <1>3. CountedAlerts \in Int
    <2> DEFINE f == [l \in Locations |-> store.alerts[l] - SeedAlerts[l]]
    <2>1. \A l \in Locations : f[l] \in Int
      BY <1>2
    <2>2. DOMAIN f = Locations
      OBVIOUS
    <2> HIDE DEF f
    <2>3. SumFunctionOnSet(f, Locations) \in Int
      BY <2>1, DataAssumption, SumType
    <2> QED
      BY <2>2, <2>3 DEF CountedAlerts, SumFunction, f
  <1> QED
    BY <1>1, <1>2, <1>3, ServerAssumption DEF DbUsers, MessageListeners, Threads

(* A location counted once more is one more alert counted. *)
LEMMA AlertCounted ==
  ASSUME Inductive, CanCount(store.alerts), NEW l \in Locations,
         store'.alerts = WithAlert(store.alerts, l)
  PROVE  CountedAlerts' = CountedAlerts + 1
  <1> DEFINE f == [k \in Locations |-> store.alerts[k] - SeedAlerts[k]]
             g == [k \in Locations |-> store'.alerts[k] - SeedAlerts[k]]
  <1>1. \A k \in Locations : store.alerts[k] \in Nat /\ SeedAlerts[k] \in Nat
    BY CountedTyped
  <1>2. /\ store'.alerts[l] = store.alerts[l] + 1
        /\ \A k \in Locations \ {l} : store'.alerts[k] = store.alerts[k]
    BY CountedTyped DEF WithAlert, AlertTable
  <1>3. /\ \A k \in Locations : f[k] \in Int
        /\ g[l] = f[l] + 1
        /\ \A k \in Locations \ {l} : g[k] = f[k]
    BY <1>1, <1>2
  <1>4. DOMAIN f = Locations /\ DOMAIN g = Locations
    OBVIOUS
  <1>5. CountedAlerts = SumFunctionOnSet(f, Locations) /\ CountedAlerts' = SumFunctionOnSet(g, Locations)
    BY <1>4 DEF CountedAlerts, SumFunction
  <1> HIDE DEF f, g
  <1>6. SumFunctionOnSet(g, Locations) = SumFunctionOnSet(f, Locations) + 1
    BY <1>3, DataAssumption, SumIncrement
  <1> QED
    BY <1>5, <1>6

(* The requests are of the kinds that clients make. *)
LEMMA KindsKept ==
  ASSUME Inductive, [Next]_vars, \A w \in Workers : request[w].kind \in Kinds \union {"none"}
  PROVE  \A w \in Workers : request'[w].kind \in Kinds \union {"none"}
  <1> SUFFICES ASSUME NEW w \in Workers
               PROVE  request'[w].kind \in Kinds \union {"none"}
    OBVIOUS
  <1>1. NoRequest.kind = "none"
    BY DEF NoRequest, Request
  <1>2. CASE Serve(w)
    BY <1>2 DEF Serve, Request, Inductive, TypeOK, RequestTypeOK
  <1>3. CASE WorkerStep(w)
    BY <1>3, WorkerProgress
  <1>4. CASE ~Serve(w) /\ ~WorkerStep(w)
    BY <1>1, <1>4, WorkerMoves DEF Ends
  <1> QED
    BY <1>2, <1>3, <1>4

(* Requests that set supplies, and the emergency listeners, leave the alerts
   alone. *)
LEMMA OthersLeaveAlerts ==
  ASSUME Inductive, NEW t \in DbUsers, t # AlertListener, DbStep(t)
  PROVE  AlertFrame
  <1> USE DEF others, queueVars, processVars, moduleVars
  <1>1. AlertsInHand' = AlertsInHand
    BY DbStepOwn, ServerAssumption DEF AlertsInHand, Frame, Threads, DbUsers, MessageListeners
  <1>2. store'.alerts = store.alerts
    <2>1. CASE WriteBack(t)
      <3>1. SectionOf(t) # "alerts"
        BY DEF SectionOf, DbUsers, MessageListeners
      <3> QED
        BY <2>1, <3>1 DEF WriteBack, Put, Inductive, TypeOK, DataTypeOK, Stores
    <2>2. CASE ~WriteBack(t)
      BY <2>2 DEF DbStep, Acquire, OpenDb, OpenDbThrows, ReadForUpdate, UpdateThrows, CloseDb,
         Release, Open, Close, dbVars
    <2> QED
      BY <2>1, <2>2
  <1>3. UNCHANGED <<alerts, queueLive, alertsSent, status, run>>
    <2>1. UNCHANGED others
      BY DEF DbStep, Acquire, OpenDb, OpenDbThrows, ReadForUpdate, UpdateThrows, WriteBack, CloseDb,
         Release
    <2> QED
      BY <2>1 DEF alerts, queueLive
  <1> QED
    BY <1>1, <1>2, <1>3 DEF AlertFrame

(* Neither do the workers' other steps, as long as all requests ask for the
   permit. *)
LEMMA GuardedRequestsLeaveAlerts ==
  ASSUME Inductive, GuardedKinds, NEW w \in Workers, request[w].kind \in Kinds \union {"none"},
         Serve(w) \/ WorkerStep(w)
  PROVE  AlertFrame
  <1>1. w \in DbUsers /\ w # AlertListener /\ w \in Threads
    BY ServerAssumption DEF DbUsers, MessageListeners, Threads
  <1>2. CASE DbStep(w)
    BY <1>1, <1>2, OthersLeaveAlerts
  <1>3. CASE Serve(w)
    <2>1. AlertsInHand' = AlertsInHand
      BY <1>1, <1>3, WorkerStepOwn, ServerAssumption DEF AlertsInHand, Frame, Threads, DbUsers,
         MessageListeners
    <2> QED
      BY <1>3, <2>1 DEF Serve, AlertFrame, dbVars, others, queueVars, processVars, moduleVars,
         alerts, queueLive
  <1>4. CASE \/ ShowSection(w) \/ ShowThrows(w) \/ CollectSection(w) \/ CollectThrows(w)
             \/ ClearSupplies(w) \/ SeedSection(w)
    BY <1>4 DEF GuardedKinds, ShowSection, ShowThrows, CollectSection, CollectThrows,
       ClearSupplies, SeedSection, Requests
  <1> QED
    BY <1>2, <1>3, <1>4 DEF WorkerStep

(* Where all requests ask for the permit, the listener finds the database free. *)
LEMMA ListenerOpens ==
  ASSUME Inductive, GuardedKinds, \A w \in Workers : request[w].kind \in Kinds \union {"none"}
  PROVE  ~OpenDbThrows(AlertListener)
  <1> SUFFICES ASSUME OpenDbThrows(AlertListener)  PROVE FALSE
    OBVIOUS
  <1>1. AlertListener \in DbUsers /\ AlertListener \in MessageListeners
    BY DEF DbUsers, MessageListeners
  <1>2. HoldsPermit(AlertListener) /\ pc[AlertListener] = "open" /\ ~DbFree
    BY <1>1 DEF OpenDbThrows, OpenThrows, HoldsPermit, Updates, At
  <1>3. ~Updates(dbHolder)
    BY <1>1, <1>2, GuardedMeetNobody DEF BusyOnlyForUnguarded
  <1>4. dbHolder \in Workers /\ pc[dbHolder] \in {"get", "put", "close"}
    BY <1>2, <1>3 DEF Inductive, TypeOK, DataTypeOK, DbFree, WrapperScoped, Updates, DbUsers
  <1>5. request[dbHolder].kind = "setsupplies"
    BY <1>4 DEF GuardedKinds, Inductive, RequestShape
  <1> QED
    BY <1>3, <1>4, <1>5 DEF Updates, Requests

(* It goes from the queue to the counters with one alert at a time. *)
LEMMA ListenerConserves ==
  ASSUME Inductive, GuardedKinds, AlertShape, ListenerStep(AlertListener)
  PROVE  AlertsConserved' /\ CanCount(store'.alerts)
  <1> DEFINE l == AlertListener
  <1> USE DEF others, queueVars, processVars, moduleVars, dbVars, dbThreadVars
  <1>1. /\ l \in DbUsers /\ l \in MessageListeners /\ l \notin Workers /\ l \notin Listeners
        /\ l \in Threads /\ pc \in [Threads -> Points] /\ CanCount(store.alerts)
        /\ CountedAlerts \in Int /\ store.alerts \in AlertTable /\ Updates(l) /\ WellFormed(l)
    BY CountedTyped DEF AlertShape, Inductive, TypeOK, ThreadTypeOK, Updates, WellFormed
  <1>2. QueueTypeOK /\ alerts \in Seq(Locations) /\ alertsSent \in Nat
    BY QueueTyped, ServerAssumption DEF Inductive, TypeOK, ProcessTypeOK
  <1>3. CASE Receive(l)
    <2>1. /\ alerts # <<>> /\ alerts' = Tail(alerts) /\ pc[l] = "receive" /\ pc'[l] = "acquire"
          /\ UNCHANGED <<store, alertsSent, status, run, queueLive>>
      BY <1>1, <1>2, <1>3, ReceiveAlertFacts DEF Receive, Goto, At
    <2>2. AlertsInHand = 0 /\ AlertsInHand' = 1
      BY <2>1 DEF AlertsInHand
    <2>3. Len(alerts) = Len(alerts') + 1 /\ Len(alerts') \in Nat
      BY <1>2, <2>1
    <2>4. CountedAlerts' = CountedAlerts
      BY <2>1 DEF CountedAlerts
    <2> QED
      BY <1>1, <1>2, <2>1, <2>2, <2>3, <2>4 DEF AlertShape, AlertsConserved, Up, CanCount
  <1>4. CASE Acquire(l) \/ OpenDb(l) \/ ReadForUpdate(l) \/ CloseDb(l) \/ Release(l)
    <2>1. AlertsInHand' = AlertsInHand
      BY <1>1, <1>4 DEF Acquire, OpenDb, FirstUse, Requests, ReadForUpdate, CloseDb, Release, Goto, At,
         AlertsInHand
    <2>2. AlertFrame
      BY <1>4, <2>1 DEF Acquire, OpenDb, Open, ReadForUpdate, CloseDb, Close, Release, AlertFrame,
         alerts, queueLive
    <2> QED
      BY <1>1, <2>2, AlertFrameKeeps DEF AlertShape
  <1>5. CASE WriteBack(l)
    <2>1. SectionOf(l) = "alerts" /\ copy[l] = store.alerts /\ message[l] \in Locations
      BY <1>1, <1>5 DEF SectionOf, WriteBack, At, Inductive, CopyIsCurrent, MessageShape
    <2>2. Updated(l) = WithAlert(store.alerts, message[l])
      BY <1>1, <2>1 DEF Updated
    <2>3. store'.alerts = WithAlert(store.alerts, message[l])
      BY <1>5, <2>1, <2>2 DEF WriteBack, Put, Inductive, TypeOK, DataTypeOK, Stores
    <2>4. CountedAlerts' = CountedAlerts + 1
      BY <1>1, <2>1, <2>3, AlertCounted
    <2>5. AlertsInHand = 1 /\ AlertsInHand' = 0
      BY <1>1, <1>5 DEF WriteBack, Goto, At, AlertsInHand
    <2>6. UNCHANGED <<alerts, alertsSent, status, run, queueLive>>
      BY <1>5 DEF WriteBack, alerts, queueLive
    <2>7. CanCount(store'.alerts)
      <3>1. store'.alerts \in AlertTable
        BY <1>1, <2>1, <2>3 DEF WithAlert, AlertTable
      <3> QED
        BY <3>1, DataAssumption DEF CanCount
    <2> QED
      BY <1>1, <1>2, <2>4, <2>5, <2>6, <2>7 DEF AlertShape, AlertsConserved, Up
  <1>6. ~OpenDbThrows(l)
    BY ListenerOpens DEF AlertShape
  <1>7. ~UpdateThrows(l)
    <2> SUFFICES ASSUME UpdateThrows(l)  PROVE FALSE
      OBVIOUS
    <2>1. pc[l] = "put" /\ ~CanCount(copy[l])
      BY <1>1 DEF UpdateThrows, At, CanWrite
    <2>2. copy[l] = store.alerts
      BY <1>1, <2>1 DEF Inductive, CopyIsCurrent, SectionOf
    <2> QED
      BY <1>1, <2>1, <2>2
  <1> QED
    BY <1>3, <1>4, <1>5, <1>6, <1>7 DEF ListenerStep, DbStep

(* An alert is sent into the queue, or waits before it. *)
LEMMA RaiseAlertConserves ==
  ASSUME Inductive, AlertShape, RaiseAlert
  PROVE  AlertsConserved' /\ CanCount(store'.alerts)
  <1>1. /\ QueueTypeOK /\ alerts \in Seq(Locations) /\ alertsSent \in Nat
        /\ Entries[sensor] \in Locations
    BY QueueTyped, ServerAssumption DEF Inductive, TypeOK, ProcessTypeOK
  <1>2. /\ alerts' = Append(alerts, Entries[sensor]) /\ alertsSent' = alertsSent + 1
        /\ UNCHANGED <<store, pc, status, run, queueLive>>
    BY <1>1, SendAlertFacts DEF RaiseAlert, dbThreadVars, dbVars, processVars
  <1>3. Len(alerts') = Len(alerts) + 1 /\ Len(alerts) \in Nat
    BY <1>2, <1>1
  <1>4. CountedAlerts \in Int /\ AlertsInHand \in Int
    BY CountedTyped DEF AlertShape, AlertsInHand
  <1>5. CountedAlerts' = CountedAlerts /\ AlertsInHand' = AlertsInHand
    BY <1>2 DEF CountedAlerts, AlertsInHand
  <1> QED
    BY <1>2, <1>1, <1>3, <1>4, <1>5 DEF AlertShape, AlertsConserved, Up

(* The end of a process or of its queue ends the claim, and a process after the
   first one does not make it. *)
LEMMA AlertShapeKept ==
  ASSUME Inductive, GuardedKinds, AlertShape, [Next]_vars
  PROVE  AlertShape'
  <1> USE DEF dbThreadVars, dbVars, queueVars, processVars, moduleVars
  <1> SUFFICES AlertsConserved' /\ CanCount(store'.alerts)
    BY KindsKept DEF AlertShape
  <1>1. ASSUME AlertFrame  PROVE AlertsConserved' /\ CanCount(store'.alerts)
    BY <1>1, AlertFrameKeeps DEF AlertShape
  <1>2. /\ AlertListener \in Threads /\ AlertListener \notin Listeners /\ AlertListener # Main
        /\ pc \in [Threads -> Points]
    BY CountedTyped DEF AlertShape, Inductive, TypeOK, ThreadTypeOK
  <1>3. ASSUME NEW w \in Workers, Serve(w) \/ WorkerStep(w)
        PROVE  AlertFrame
    BY <1>3, GuardedRequestsLeaveAlerts DEF AlertShape
  <1>4. ASSUME NEW t \in MessageListeners, t # AlertListener, ListenerStep(t)
        PROVE  AlertFrame
    <2>1. CASE Receive(t)
      <3>1. ReceiveEmergency /\ QueueTypeOK
        BY <1>4, <2>1 DEF Receive, Inductive, TypeOK
      <3> QED
        BY <1>2, <1>4, <2>1, <3>1, ReceiveEmergencyFacts DEF Receive, Goto, AlertFrame, AlertsInHand
    <2>2. CASE DbStep(t)
      BY <1>4, <2>2, OthersLeaveAlerts DEF DbUsers
    <2> QED
      BY <1>4, <2>1, <2>2 DEF ListenerStep
  <1>5. (\E l \in Listeners : Connect(l)) \/ Sense \/ RaiseEmergency \/ Signal \/ UNCHANGED vars
          => AlertFrame
    <2>1. ASSUME NEW l \in Listeners, Connect(l)  PROVE AlertFrame
      BY <1>2, <2>1 DEF Connect, Goto, AlertFrame, AlertsInHand, alerts, queueLive
    <2>2. Signal => AlertFrame
      BY <1>2 DEF Signal, Goto, AlertFrame, AlertsInHand, alerts, queueLive
    <2>3. Sense \/ UNCHANGED vars => AlertFrame
      BY DEF Sense, vars, AlertFrame, AlertsInHand, alerts, queueLive
    <2>4. CASE RaiseEmergency
      <3>1. PICK json \in BOOLEAN : SendEmergency([sentIn |-> run, json |-> json])
        BY <2>4 DEF RaiseEmergency
      <3>2. QueueTypeOK /\ [sentIn |-> run, json |-> json] \in EmergencyMessages
        BY DEF Inductive, TypeOK, ProcessTypeOK, EmergencyMessages
      <3>3. UNCHANGED <<alerts, queueLive>>
        BY <3>1, <3>2, SendEmergencyFacts
      <3> QED
        BY <2>4, <3>3 DEF RaiseEmergency, AlertFrame, AlertsInHand
    <2> QED
      BY <2>1, <2>2, <2>3, <2>4
  <1>6. ASSUME NEW t \in Listeners \union {Main}, RemoveQueueAtEnd(t)
        PROVE  store' = store /\ ~queueLive'
    BY <1>6, RemoveQueueFacts DEF RemoveQueueAtEnd, Inductive, TypeOK
  <1>7. CASE SenderExits \/ Crash \/ \E t \in Listeners \union {Main} : Exit(t)
    BY <1>7 DEF SenderExits, Crash, Exit, EndProcess, AlertShape, AlertsConserved, Up, CanCount
  <1>8. CASE Restart
    <2>1. run' # 1 /\ store' = store
      BY <1>8, ServerAssumption DEF Restart, Inductive, TypeOK, ProcessTypeOK
    <2> QED
      BY <2>1 DEF AlertShape, AlertsConserved, CanCount
  <1>9. ASSUME NEW t \in Listeners \union {Main}, RemoveQueueAtEnd(t)
        PROVE  AlertsConserved' /\ CanCount(store'.alerts)
    BY <1>6, <1>9 DEF AlertShape, AlertsConserved, CanCount
  <1> QED
    BY <1>1, <1>3, <1>4, <1>5, <1>7, <1>8, <1>9, ListenerConserves, RaiseAlertConserves
    DEF Next, EndConnStep

(* No alert is lost between the sensor and the counters, for any number of
   locations, listeners and messages and any capacity of the queue, where all
   requests ask for the permit and the database was seeded.  The sum over the
   counters is that of SumLemmas. *)
THEOREM AlertsAreConserved ==
  ASSUME GuardedKinds
  PROVE  Spec => []AlertsConserved
  <1>1. Init => AlertShape
    <2> SUFFICES ASSUME Init  PROVE AlertShape
      OBVIOUS
    <2>1. store.alerts = SeedAlerts /\ CanCount(store.alerts)
      BY DataAssumption DEF Init, GuardedKinds, SeedStore, CanCount
    <2> DEFINE f == [l \in Locations |-> store.alerts[l] - SeedAlerts[l]]
    <2>2. \A l \in Locations : f[l] = 0
      BY <2>1, DataAssumption DEF AlertTable
    <2>3. CountedAlerts = SumFunctionOnSet(f, Locations)
      BY DEF CountedAlerts, SumFunction
    <2> HIDE DEF f
    <2>4. CountedAlerts = 0
      BY <2>2, <2>3, DataAssumption, SumZero
    <2>5. AlertsInHand = 0 /\ alertsSent = 0 /\ Len(alerts) = 0
      BY NoQueueTyped, ServerAssumption DEF Init, StartPc, AlertsInHand, Threads, DbUsers,
         MessageListeners, alerts
    <2>6. \A w \in Workers : request[w].kind = "none"
      BY DEF Init, NoRequest, Request
    <2> QED
      BY <2>1, <2>4, <2>5, <2>6 DEF AlertShape, AlertsConserved
  <1>2. Inductive /\ AlertShape /\ [Next]_vars => AlertShape'
    BY AlertShapeKept
  <1>3. AlertShape => AlertsConserved
    BY DEF AlertShape
  <1> QED
    BY <1>1, <1>2, <1>3, Invariance, PTL DEF Spec

===============================================================================
