------------------------- MODULE RefugeServerDbProofs -------------------------
(***************************************************************************)
(* Every step that uses the semaphore, the database or a request keeps the *)
(* inductive invariant of RefugeServer: facts about the helpers the model  *)
(* is built from, then one lemma per action.                               *)
(***************************************************************************)
EXTENDS RefugeServerProperties, TLAPS

(* No thread but t moves, and no request but its own changes. *)
Frame(t) ==
  /\ \A u \in Threads \ {t} : pc'[u] = pc[u]
  /\ \A w \in Workers \ {t} : request'[w] = request[w]

(* Inside the code that uses its wrapper. *)
InCode(t) == pc[t] \in {"get", "put", "close"}

(* A thread that moves to a point of its own code leaves every thread at one
   of its own, and moves no other. *)
LEMMA GotoFacts ==
  ASSUME ThreadTypeOK, NEW t \in Threads, NEW p \in PcOf(t) \intersect Points, Goto(t, p)
  PROVE  /\ pc' \in [Threads -> Points] /\ \A u \in Threads : pc'[u] \in PcOf(u)
         /\ pc'[t] = p
         /\ \A u \in Threads \ {t} : pc'[u] = pc[u]
  BY DEF ThreadTypeOK, Goto

(* Finishing a request keeps the types and makes the worker idle. *)
LEMMA FinishFacts ==
  ASSUME ThreadTypeOK, RequestTypeOK, NEW w \in Workers, FinishRequest(w)
  PROVE  /\ pc' \in [Threads -> Points] /\ \A u \in Threads : pc'[u] \in PcOf(u)
         /\ RequestTypeOK'
         /\ pc'[w] = "idle"
         /\ request'[w].kind = "none"
         /\ Frame(w)
  <1>1. w \in Threads /\ "idle" \in PcOf(w) \intersect Points
    BY DEF Threads, DbUsers, PcOf, Points
  <1>2. NoRequest \in RequestRecords /\ NoRequest.kind = "none"
    BY DataAssumption DEF NoRequest, Request, NoReport, RequestRecords, Values
  <1>3. RequestTypeOK' /\ request'[w] = NoRequest
        /\ \A v \in Workers \ {w} : request'[v] = request[v]
    BY <1>2 DEF RequestTypeOK, FinishRequest
  <1> QED
    BY <1>1, <1>2, <1>3, GotoFacts DEF FinishRequest, Frame

(* Where an exception leaves a thread and its locals: a worker becomes idle,
   a listener goes to its release(). *)
LEMMA AbandonFacts ==
  ASSUME TypeOK, NEW t \in DbUsers, Abandon(t)
  PROVE  /\ pc' \in [Threads -> Points] /\ \A u \in Threads : pc'[u] \in PcOf(u)
         /\ RequestTypeOK'
         /\ copy' \in [DbUsers -> Values]
         /\ \A u \in DbUsers \ {t} : copy'[u] = copy[u]
         /\ t \in Workers => pc'[t] = "idle" /\ request'[t].kind = "none"
         /\ t \notin Workers => pc'[t] = "release" /\ request' = request
         /\ Frame(t)
  <1>1. copy' \in [DbUsers -> Values] /\ \A u \in DbUsers \ {t} : copy'[u] = copy[u]
    BY DEF Abandon, TypeOK, DataTypeOK, Values
  <1>2. CASE t \in Workers
    BY <1>1, <1>2, FinishFacts DEF Abandon, TypeOK
  <1>3. CASE t \notin Workers
    <2>1. t \in Threads /\ "release" \in PcOf(t) \intersect Points
      BY <1>3 DEF Threads, DbUsers, MessageListeners, PcOf, Points, DbPoints
    <2> QED
      BY <1>1, <1>3, <2>1, GotoFacts DEF Abandon, TypeOK, Frame, RequestTypeOK
  <1> QED
    BY <1>2, <1>3

(* Others neither gain nor lose a permit by a step of one thread. *)
LEMMA FrameHolds ==
  ASSUME NEW t, Frame(t), NEW u \in DbUsers \ {t}
  PROVE  /\ HoldsPermit(u)' <=> HoldsPermit(u)
         /\ Updates(u)' <=> Updates(u)
  BY DEF Frame, HoldsPermit, Updates, Requests, Threads

(* A step that leaves the semaphore alone, and does not bring its thread in
   after acquire(), keeps the exclusion. *)
LEMMA PermitKept ==
  ASSUME PermitExcludes, PermitAccounted, NEW t \in DbUsers, Frame(t),
         semaphore' = semaphore, HoldsPermit(t)' => HoldsPermit(t)
  PROVE  PermitExcludes' /\ PermitAccounted'
  <1>1. \A u \in DbUsers : HoldsPermit(u)' => HoldsPermit(u)
    BY FrameHolds
  <1> QED
    BY <1>1 DEF PermitExcludes, PermitAccounted

(* A step keeps the lifetime of wrappers when the thread's own wrapper is
   constructed on the way into the code that uses it, destroyed on the way
   out, and untouched otherwise. *)
LEMMA WrapperKept ==
  ASSUME WrapperScoped, NEW t \in DbUsers, Frame(t),
         \/ dbHolder' = dbHolder /\ (InCode(t)' <=> InCode(t))
         \/ dbHolder = NoThread /\ dbHolder' = t /\ InCode(t)'
         \/ dbHolder = t /\ dbHolder' = NoThread /\ ~InCode(t)'
  PROVE  WrapperScoped'
  BY ServerAssumption DEF WrapperScoped, Frame, InCode, Threads

(* Only the holder of the database writes to it, so what another thread has
   read stays current. *)
LEMMA CopyKept ==
  ASSUME CopyIsCurrent, WrapperScoped, NEW t \in DbUsers, Frame(t),
         store' = store \/ dbHolder = t,
         \A u \in DbUsers \ {t} : copy'[u] = copy[u],
         Updates(t)' /\ pc'[t] = "put" => copy'[t] = store'[SectionOf(t)]
  PROVE  CopyIsCurrent'
  <1> SUFFICES ASSUME NEW u \in DbUsers, Updates(u)', pc'[u] = "put"
               PROVE  copy'[u] = store'[SectionOf(u)]
    BY DEF CopyIsCurrent, SectionOf
  <1>1. CASE u = t
    BY <1>1
  <1>2. CASE u # t
    <2>1. Updates(u) /\ pc[u] = "put" /\ dbHolder = u
      BY <1>2, FrameHolds DEF Frame, Threads, WrapperScoped
    <2> QED
      BY <1>2, <2>1 DEF CopyIsCurrent
  <1> QED
    BY <1>1, <1>2
(* The for-loops of /database and /initdb: one more section is behind the
   worker, and nothing else of its request changed. *)
LEMMA StageFacts ==
  ASSUME RequestTypeOK, NEW w \in Workers, request[w].stage \in 1 .. 3,
         request' = [request EXCEPT ![w].stage = @ + 1]
  PROVE  /\ RequestTypeOK'
         /\ request'[w].kind = request[w].kind
         /\ request'[w].stage = request[w].stage + 1
  <1>1. request[w] \in RequestRecords
    BY DEF RequestTypeOK
  <1>2. request' = [request EXCEPT ![w] = [request[w] EXCEPT !.stage = request[w].stage + 1]]
    OBVIOUS
  <1>3. [request[w] EXCEPT !.stage = request[w].stage + 1] \in RequestRecords
    BY <1>1 DEF RequestRecords
  <1>4. RequestTypeOK'
    BY <1>2, <1>3 DEF RequestTypeOK
  <1>5. request'[w].kind = request[w].kind /\ request'[w].stage = request[w].stage + 1
    BY DEF RequestTypeOK, RequestRecords
  <1> QED
    BY <1>4, <1>5

(* The type of the section under a key. *)
SectionType(k) == CASE k = "alerts" -> AlertTable \union {Nothing}
                    [] k = "supplies" -> SupplyTable \union {Nothing}
                    [] OTHER -> Emergencies \union {Nothing}

(* Every section of a store has the type of its key. *)
LEMMA SectionTyped ==
  ASSUME store \in Stores, NEW k \in Sections
  PROVE  store[k] \in SectionType(k) /\ store[k] \in Values
  BY DEF Stores, Sections, SectionType, Values

(* Which section each of the read-modify-writers changes. *)
LEMMA SectionOfFacts ==
  /\ \A w \in Workers : SectionOf(w) = "supplies"
  /\ \A l \in Listeners : SectionOf(l) = "emergency"
  /\ SectionOf(AlertListener) = "alerts"
  /\ \A t \in DbUsers : SectionOf(t) \in Sections
  BY ServerAssumption DEF SectionOf, Sections, DbUsers, MessageListeners

(* Put() of a section of the right type gives a store. *)
LEMMA PutFacts ==
  ASSUME store \in Stores, NEW k \in Sections, NEW v \in SectionType(k), Put(k, v)
  PROVE  store' \in Stores
  <1>1. CASE k = "alerts"
    BY <1>1 DEF Stores, SectionType, Put
  <1>2. CASE k = "supplies"
    BY <1>2 DEF Stores, SectionType, Put
  <1>3. CASE k = "emergency"
    BY <1>3 DEF Stores, SectionType, Put
  <1> QED
    BY <1>1, <1>2, <1>3 DEF Sections

(* The seed JSON of /initdb has sections of the right types. *)
LEMMA SeedTyped == \A k \in Sections : SeedStore[k] \in SectionType(k)
  BY DataAssumption DEF SeedStore, Sections, SectionType, Emergencies

(* What set_supply() and the two listeners write back has the type of its
   section. *)
LEMMA UpdatedTyped ==
  ASSUME Inductive, NEW t \in DbUsers, WriteBack(t)
  PROVE  Updated(t) \in SectionType(SectionOf(t))
  <1> USE DEF Inductive, TypeOK
  <1>1. /\ At(t, "put") /\ Updates(t) /\ CanWrite(t)
        /\ copy[t] = store[SectionOf(t)]
        /\ copy[t] \in SectionType(SectionOf(t))
    BY SectionTyped, SectionOfFacts DEF WriteBack, CopyIsCurrent, At, DataTypeOK
  <1>2. CASE t \in Workers
    <2>1. request[t].body \in SetBodies
      BY <1>1, <1>2, ServerAssumption DEF RequestShape, At, Updates, Requests, MessageListeners
    <2>2. copy[t] \in SupplyTable \union {Nothing}
      BY <1>1, <1>2, SectionOfFacts DEF SectionType
    <2>3. NoSupplies \in SupplyTable
      BY DEF NoSupplies, SupplyTable
    <2>4. WithSupply(copy[t], request[t].body.item, request[t].body.amount) \in SupplyTable
      BY <2>1, <2>2, <2>3 DEF WithSupply, SupplyTable, SetBodies
    <2> QED
      BY <1>2, <2>4, SectionOfFacts, ServerAssumption DEF Updated, SectionType, MessageListeners
  <1>3. CASE t \in Listeners
    BY <1>3, ServerAssumption DEF Updated, WithFailure, SectionOf, SectionType, Emergencies,
       MessageListeners
  <1>4. CASE t = AlertListener
    <2>1. t \notin Workers /\ t \notin Listeners
      BY <1>4, ServerAssumption DEF MessageListeners
    <2>2. copy[t] \in AlertTable
      BY <1>1, <1>4, <2>1 DEF SectionOf, SectionType, CanWrite, CanCount
    <2>3. message[t] \in Locations
      BY <1>1, <1>4 DEF MessageShape, At
    <2> QED
      BY <2>1, <2>2, <2>3 DEF Updated, WithAlert, SectionOf, SectionType, AlertTable
  <1> QED
    BY <1>2, <1>3, <1>4 DEF DbUsers, MessageListeners

-------------------------------------------------------------------------------
(* The steps.                                                              *)

(* Acquire() admits a thread only when no thread is between acquire() and
   release(). *)
LEMMA AcquireInductive ==
  ASSUME Inductive, NEW t \in DbUsers, Acquire(t)
  PROVE  Inductive'
  <1> USE DEF Inductive, TypeOK
  <1>1. /\ t \in Threads /\ "open" \in PcOf(t) \intersect Points
        /\ Goto(t, "open") /\ pc[t] = "acquire"
    BY DEF Acquire, At, Threads, DbUsers, MessageListeners, PcOf, Points, DbPoints
  <1>2. /\ pc' \in [Threads -> Points] /\ \A u \in Threads : pc'[u] \in PcOf(u)
        /\ pc'[t] = "open"
        /\ \A u \in Threads \ {t} : pc'[u] = pc[u]
    BY <1>1, GotoFacts
  <1>3. Frame(t)
    BY <1>2 DEF Frame, Acquire
  <1>4. TypeOK'
    BY <1>2 DEF Acquire, others, queueVars, dbVars, processVars, moduleVars, DataTypeOK,
       QueueTypeOK, ThreadTypeOK, RequestTypeOK, ProcessTypeOK, Permits
  <1>5. PermitExcludes' /\ PermitAccounted'
    <2>1. \A u \in DbUsers : ~HoldsPermit(u)
      BY DEF Acquire, PermitAccounted
    <2>2. \A u \in DbUsers \ {t} : ~HoldsPermit(u)'
      BY <1>3, <2>1, FrameHolds
    <2> QED
      BY <2>2 DEF PermitExcludes, PermitAccounted, Acquire, ThreadTypeOK, Permits
  <1>6. WrapperScoped'
    BY <1>1, <1>2, <1>3, WrapperKept DEF InCode, Acquire, dbVars
  <1>7. CopyIsCurrent'
    BY <1>2, <1>3, CopyKept DEF Acquire, dbVars
  <1>8. RequestShape'
    BY <1>1, <1>2 DEF RequestShape, Acquire, RequestTypeOK, RequestRecords, Threads, DbUsers
  <1>9. MessageShape' /\ AlertBound'
    BY <1>1, <1>2 DEF MessageShape, AlertBound, Acquire, others, moduleVars, Threads, DbUsers,
       MessageListeners
  <1> QED
    BY <1>4, <1>5, <1>6, <1>7, <1>8, <1>9

(* The constructor of a wrapper gives its thread the database. *)
LEMMA OpenDbInductive ==
  ASSUME Inductive, NEW t \in DbUsers, OpenDb(t)
  PROVE  Inductive'
  <1> USE DEF Inductive, TypeOK
  <1>1. /\ t \in DbUsers /\ t \in Threads /\ pc[t] = "open"
        /\ Goto(t, "get") \/ (Goto(t, "put") /\ Requests(t, {"deletesupplies", "initdb"}))
    BY ServerAssumption DEF OpenDb, At, Open, DbFree, FirstUse, Threads, DbUsers,
       MessageListeners, PcOf, Points, DbPoints, WrapperScoped, InCode
  <1>2. /\ pc' \in [Threads -> Points] /\ \A u \in Threads : pc'[u] \in PcOf(u)
        /\ Frame(t) /\ pc'[t] \in {"get", "put"}
        /\ (pc'[t] = "put" => Requests(t, {"deletesupplies", "initdb"}))
    <2>1. \E p \in PcOf(t) \intersect Points : Goto(t, p)
            /\ p \in {"get", "put"} /\ (p = "put" => Requests(t, {"deletesupplies", "initdb"}))
      BY <1>1, ServerAssumption DEF OpenDb, Open, DbFree, FirstUse, Threads, DbUsers,
         MessageListeners, PcOf, Points, DbPoints
    <2>2. \A u \in Workers \ {t} : request'[u] = request[u]
      BY DEF OpenDb, RequestTypeOK
    <2> QED
      BY <1>1, <2>1, <2>2, GotoFacts DEF Frame
  <1>3. TypeOK'
    BY <1>1, <1>2 DEF OpenDb, Open, DbFree, FirstUse, others, queueVars, processVars,
       moduleVars, dbVars, DataTypeOK, QueueTypeOK, ThreadTypeOK, RequestTypeOK, ProcessTypeOK,
       Permits
  <1>4. PermitExcludes' /\ PermitAccounted'
    <2>1. HoldsPermit(t)' => HoldsPermit(t)
      BY <1>1, <1>2, ServerAssumption DEF OpenDb, HoldsPermit, Updates, Requests, Open, DbFree,
         FirstUse, InCode, MessageListeners
    <2> QED
      BY <1>1, <1>2, <2>1, PermitKept DEF OpenDb
  <1>5. WrapperScoped'
    BY <1>1, <1>2, WrapperKept DEF InCode, OpenDb, Open, DbFree, FirstUse, dbVars
  <1>6. CopyIsCurrent'
    <2>1. Updates(t)' /\ pc'[t] = "put" => copy'[t] = store'[SectionOf(t)]
      BY <1>1, <1>2, ServerAssumption DEF OpenDb, Open, DbFree, FirstUse, Updates, SectionOf,
         Requests, Threads, DbUsers, MessageListeners
    <2>2. store' = store \/ dbHolder = t
      BY <1>1 DEF OpenDb, Open, DbFree, FirstUse, dbVars, WrapperScoped
    <2>3. \A u \in DbUsers \ {t} : copy'[u] = copy[u]
      BY <1>2 DEF OpenDb, DataTypeOK
    <2> QED
      BY <1>1, <1>2, <2>1, <2>2, <2>3, CopyKept
  <1>7. RequestShape'
    BY <1>1, <1>2, ServerAssumption DEF RequestShape, OpenDb, Open, DbFree, FirstUse,
       RequestTypeOK, RequestRecords, Frame, Threads, DbUsers, MessageListeners, Requests
  <1>8. MessageShape' /\ AlertBound'
    BY <1>1, <1>2, ServerAssumption DEF MessageShape, AlertBound, OpenDb, Open, DbFree,
       FirstUse, others, queueVars, processVars, moduleVars, Frame, Threads, DbUsers,
       MessageListeners
  <1> QED
    BY <1>3, <1>4, <1>5, <1>6, <1>7, <1>8

(* The constructor throws: the thread has no wrapper and leaves. *)
LEMMA OpenDbThrowsInductive ==
  ASSUME Inductive, NEW t \in DbUsers, OpenDbThrows(t)
  PROVE  Inductive'
  <1> USE DEF Inductive, TypeOK
  <1>1. t \in DbUsers /\ t \in Threads /\ pc[t] = "open" /\ Abandon(t)
    BY ServerAssumption DEF OpenDbThrows, At, Threads, DbUsers, MessageListeners, PcOf, Points,
       DbPoints, WrapperScoped, InCode
  <1>2. /\ pc' \in [Threads -> Points] /\ \A u \in Threads : pc'[u] \in PcOf(u)
        /\ Frame(t) /\ RequestTypeOK' /\ copy' \in [DbUsers -> Values]
        /\ \A u \in DbUsers \ {t} : copy'[u] = copy[u]
        /\ t \in Workers => pc'[t] = "idle" /\ request'[t].kind = "none"
        /\ t \notin Workers => pc'[t] = "release" /\ request' = request
    BY <1>1, AbandonFacts DEF OpenDbThrows
  <1>3. TypeOK'
    BY <1>1, <1>2 DEF OpenDbThrows, others, queueVars, processVars, moduleVars, dbVars,
       DataTypeOK, QueueTypeOK, ThreadTypeOK, RequestTypeOK, ProcessTypeOK, Permits
  <1>4. PermitExcludes' /\ PermitAccounted'
    <2>1. HoldsPermit(t)' => HoldsPermit(t)
      BY <1>1, <1>2, ServerAssumption DEF OpenDbThrows, HoldsPermit, Updates, Requests, InCode,
         MessageListeners
    <2> QED
      BY <1>1, <1>2, <2>1, PermitKept DEF OpenDbThrows
  <1>5. WrapperScoped'
    BY <1>1, <1>2, WrapperKept DEF InCode, OpenDbThrows, dbVars
  <1>6. CopyIsCurrent'
    <2>1. Updates(t)' /\ pc'[t] = "put" => copy'[t] = store'[SectionOf(t)]
      BY <1>1, <1>2, ServerAssumption DEF OpenDbThrows, Updates, SectionOf, Requests,
         Threads, DbUsers, MessageListeners
    <2>2. store' = store \/ dbHolder = t
      BY <1>1 DEF OpenDbThrows, dbVars, WrapperScoped
    <2>3. \A u \in DbUsers \ {t} : copy'[u] = copy[u]
      BY <1>2 DEF OpenDbThrows, DataTypeOK
    <2> QED
      BY <1>1, <1>2, <2>1, <2>2, <2>3, CopyKept
  <1>7. RequestShape'
    BY <1>1, <1>2, ServerAssumption DEF RequestShape, OpenDbThrows, RequestTypeOK,
       RequestRecords, Frame, Threads, DbUsers, MessageListeners
  <1>8. MessageShape' /\ AlertBound'
    BY <1>1, <1>2, ServerAssumption DEF MessageShape, AlertBound, OpenDbThrows, others,
       queueVars, processVars, moduleVars, Frame, Threads, DbUsers, MessageListeners
  <1> QED
    BY <1>3, <1>4, <1>5, <1>6, <1>7, <1>8

(* The wrapper goes out of scope: the thread has no use of it left. *)
LEMMA CloseDbInductive ==
  ASSUME Inductive, NEW t \in DbUsers, CloseDb(t)
  PROVE  Inductive'
  <1> USE DEF Inductive, TypeOK
  <1>1. t \in DbUsers /\ t \in Threads /\ pc[t] = "close" /\ dbHolder = t
    BY ServerAssumption DEF CloseDb, At, Close, Threads, DbUsers, MessageListeners, PcOf,
       Points, DbPoints, WrapperScoped, InCode
  <1>2. /\ pc' \in [Threads -> Points] /\ \A u \in Threads : pc'[u] \in PcOf(u)
        /\ Frame(t) /\ RequestTypeOK'
        /\ \/ Updates(t) /\ pc'[t] = "release" /\ request' = request
           \/ t \in Workers /\ pc'[t] = "idle" /\ request'[t].kind = "none"
    <2>1. CASE Updates(t)
      <3>1. "release" \in PcOf(t) \intersect Points
        BY <1>1 DEF Threads, DbUsers, MessageListeners, PcOf, Points, DbPoints
      <3> QED
        BY <1>1, <2>1, <3>1, GotoFacts DEF CloseDb, Frame, RequestTypeOK
    <2>2. CASE ~Updates(t)
      <3>1. t \in Workers /\ FinishRequest(t)
        BY <2>2 DEF CloseDb, Updates, DbUsers
      <3> QED
        BY <3>1, FinishFacts
    <2> QED
      BY <2>1, <2>2
  <1>3. TypeOK'
    BY <1>1, <1>2 DEF CloseDb, Close, others, queueVars, processVars, moduleVars, dbVars,
       DataTypeOK, QueueTypeOK, ThreadTypeOK, RequestTypeOK, ProcessTypeOK, Permits
  <1>4. PermitExcludes' /\ PermitAccounted'
    <2>1. HoldsPermit(t)' => HoldsPermit(t)
      BY <1>1, <1>2, ServerAssumption DEF CloseDb, HoldsPermit, Updates, Requests, Close,
         InCode, MessageListeners
    <2> QED
      BY <1>1, <1>2, <2>1, PermitKept DEF CloseDb
  <1>5. WrapperScoped'
    BY <1>1, <1>2, WrapperKept DEF InCode, CloseDb, Close, dbVars
  <1>6. CopyIsCurrent'
    <2>1. Updates(t)' /\ pc'[t] = "put" => copy'[t] = store'[SectionOf(t)]
      BY <1>1, <1>2, ServerAssumption DEF CloseDb, Close, Updates, SectionOf, Requests,
         Threads, DbUsers, MessageListeners
    <2>2. store' = store \/ dbHolder = t
      BY <1>1 DEF CloseDb, Close, dbVars, WrapperScoped
    <2>3. \A u \in DbUsers \ {t} : copy'[u] = copy[u]
      BY <1>2 DEF CloseDb, DataTypeOK
    <2> QED
      BY <1>1, <1>2, <2>1, <2>2, <2>3, CopyKept
  <1>7. RequestShape'
    BY <1>1, <1>2, ServerAssumption, SMTT(90) DEF RequestShape, CloseDb, Close, RequestTypeOK,
       RequestRecords, Frame, Threads, DbUsers, MessageListeners, Updates, Requests
  <1>8. MessageShape' /\ AlertBound'
    BY <1>1, <1>2, ServerAssumption DEF MessageShape, AlertBound, CloseDb, Close, others,
       queueVars, processVars, moduleVars, Frame, Threads, DbUsers, MessageListeners
  <1> QED
    BY <1>3, <1>4, <1>5, <1>6, <1>7, <1>8

(* Release() is called by a thread that holds the permit, so the count
   cannot pass one. *)
LEMMA ReleaseInductive ==
  ASSUME Inductive, NEW t \in DbUsers, Release(t)
  PROVE  Inductive'
  <1> USE DEF Inductive, TypeOK
  <1>1. t \in DbUsers /\ t \in Threads /\ pc[t] = "release"
    BY ServerAssumption DEF Release, At, Threads, DbUsers, MessageListeners, PcOf, Points,
       DbPoints, WrapperScoped, InCode
  <1>2. /\ pc' \in [Threads -> Points] /\ \A u \in Threads : pc'[u] \in PcOf(u)
        /\ Frame(t) /\ RequestTypeOK'
        /\ pc'[t] \in {"idle", "receive", "end"}
        /\ t \in Workers => pc'[t] = "idle" /\ request'[t].kind = "none"
        /\ t \notin Workers => request' = request
    <2>1. CASE t \in Workers
      BY <2>1, FinishFacts DEF Release
    <2>2. CASE t \notin Workers
      <3>1. \E p \in PcOf(t) \intersect Points : Goto(t, p) /\ p \in {"receive", "end"}
        BY <1>1, <2>2, ServerAssumption DEF Release, Threads, DbUsers, MessageListeners, PcOf,
           Points, DbPoints
      <3> QED
        BY <1>1, <2>2, <3>1, GotoFacts DEF Release, Frame, RequestTypeOK
    <2> QED
      BY <2>1, <2>2
  <1>3. TypeOK'
    <2>1. HoldsPermit(t)
      BY <1>1 DEF HoldsPermit, Updates, Requests, RequestShape, DbUsers
    <2>2. semaphore = 0
      BY <2>1 DEF PermitAccounted
    <2>3. message' \in [MessageListeners -> Messages]
      BY DEF Release, QueueTypeOK, Messages
    <2> QED
      BY <1>1, <1>2, <2>2, <2>3 DEF Release, others, queueVars, processVars, moduleVars, dbVars,
         DataTypeOK, QueueTypeOK, ThreadTypeOK, RequestTypeOK, ProcessTypeOK, Permits
  <1>4. PermitExcludes' /\ PermitAccounted'
    <2>1. HoldsPermit(t)
      BY <1>1 DEF HoldsPermit, Updates, Requests, RequestShape, DbUsers
    <2>2. \A u \in DbUsers : ~HoldsPermit(u)'
      <3>1. \A u \in DbUsers \ {t} : ~HoldsPermit(u)'
        BY <1>2, <2>1, FrameHolds DEF PermitExcludes
      <3> QED
        BY <1>2, <3>1 DEF HoldsPermit
    <2> QED
      BY <2>2 DEF PermitExcludes, PermitAccounted
  <1>5. WrapperScoped'
    BY <1>1, <1>2, WrapperKept DEF InCode, Release, dbVars
  <1>6. CopyIsCurrent'
    <2>1. Updates(t)' /\ pc'[t] = "put" => copy'[t] = store'[SectionOf(t)]
      BY <1>1, <1>2, ServerAssumption DEF Release, Updates, SectionOf, Requests,
         Threads, DbUsers, MessageListeners
    <2>2. store' = store \/ dbHolder = t
      BY <1>1 DEF Release, dbVars, WrapperScoped
    <2>3. \A u \in DbUsers \ {t} : copy'[u] = copy[u]
      BY <1>2 DEF Release, DataTypeOK
    <2> QED
      BY <1>1, <1>2, <2>1, <2>2, <2>3, CopyKept
  <1>7. RequestShape'
    BY <1>1, <1>2, ServerAssumption DEF RequestShape, Release, RequestTypeOK, RequestRecords,
       Frame, Threads, DbUsers, MessageListeners
  <1>8. MessageShape' /\ AlertBound'
    BY <1>1, <1>2, ServerAssumption DEF MessageShape, AlertBound, Release, others, queueVars,
       processVars, moduleVars, Frame, Threads, DbUsers, MessageListeners, QueueTypeOK
  <1> QED
    BY <1>3, <1>4, <1>5, <1>6, <1>7, <1>8

(* The section read is the section as it is stored. *)
LEMMA ReadForUpdateInductive ==
  ASSUME Inductive, NEW t \in DbUsers, ReadForUpdate(t)
  PROVE  Inductive'
  <1> USE DEF Inductive, TypeOK
  <1>1. t \in DbUsers /\ t \in Threads /\ pc[t] = "get" /\ Goto(t, "put")
    BY ServerAssumption DEF ReadForUpdate, At, Threads, DbUsers, MessageListeners, PcOf, Points,
       DbPoints, WrapperScoped, InCode
  <1>2. /\ pc' \in [Threads -> Points] /\ \A u \in Threads : pc'[u] \in PcOf(u)
        /\ Frame(t) /\ pc'[t] = "put"
    <2>1. \E p \in PcOf(t) \intersect Points : Goto(t, p) /\ p = "put"
      BY <1>1, ServerAssumption DEF ReadForUpdate, Threads, DbUsers, MessageListeners, PcOf,
         Points, DbPoints
    <2>2. \A u \in Workers \ {t} : request'[u] = request[u]
      BY DEF ReadForUpdate, RequestTypeOK
    <2> QED
      BY <1>1, <2>1, <2>2, GotoFacts DEF Frame
  <1>3. TypeOK'
    <2>1. copy' \in [DbUsers -> Values]
      BY SectionTyped, SectionOfFacts DEF ReadForUpdate, Get, DataTypeOK, Values
    <2> QED
      BY <1>1, <1>2, <2>1 DEF ReadForUpdate, others, queueVars, processVars, moduleVars, dbVars,
         DataTypeOK, QueueTypeOK, ThreadTypeOK, RequestTypeOK, ProcessTypeOK
  <1>4. PermitExcludes' /\ PermitAccounted'
    <2>1. HoldsPermit(t)' => HoldsPermit(t)
      BY <1>1, <1>2, ServerAssumption DEF ReadForUpdate, HoldsPermit, Updates, Requests, InCode,
         MessageListeners
    <2> QED
      BY <1>1, <1>2, <2>1, PermitKept DEF ReadForUpdate
  <1>5. WrapperScoped'
    BY <1>1, <1>2, WrapperKept DEF InCode, ReadForUpdate, dbVars
  <1>6. CopyIsCurrent'
    <2>1. Updates(t)' /\ pc'[t] = "put" => copy'[t] = store'[SectionOf(t)]
      BY DEF ReadForUpdate, Get, DataTypeOK, dbVars
    <2>2. store' = store \/ dbHolder = t
      BY <1>1 DEF ReadForUpdate, dbVars, WrapperScoped
    <2>3. \A u \in DbUsers \ {t} : copy'[u] = copy[u]
      BY <1>2 DEF ReadForUpdate, DataTypeOK
    <2> QED
      BY <1>1, <1>2, <2>1, <2>2, <2>3, CopyKept
  <1>7. RequestShape'
    BY <1>1, <1>2, ServerAssumption DEF RequestShape, ReadForUpdate, RequestTypeOK,
       RequestRecords, Frame, Threads, DbUsers, MessageListeners, WellFormed, Updates, Requests
  <1>8. MessageShape' /\ AlertBound'
    BY <1>1, <1>2, ServerAssumption DEF MessageShape, AlertBound, ReadForUpdate, others,
       queueVars, processVars, moduleVars, Frame, Threads, DbUsers, MessageListeners
  <1> QED
    BY <1>3, <1>4, <1>5, <1>6, <1>7, <1>8

(* An exception in the code that parses closes the wrapper on its way. *)
LEMMA UpdateThrowsInductive ==
  ASSUME Inductive, NEW t \in DbUsers, UpdateThrows(t)
  PROVE  Inductive'
  <1> USE DEF Inductive, TypeOK
  <1>1. t \in DbUsers /\ t \in Threads /\ InCode(t) /\ dbHolder = t /\ Abandon(t)
    BY ServerAssumption DEF UpdateThrows, At, Close, Threads, DbUsers, MessageListeners, PcOf,
       Points, DbPoints, WrapperScoped, InCode
  <1>2. /\ pc' \in [Threads -> Points] /\ \A u \in Threads : pc'[u] \in PcOf(u)
        /\ Frame(t) /\ RequestTypeOK' /\ copy' \in [DbUsers -> Values]
        /\ \A u \in DbUsers \ {t} : copy'[u] = copy[u]
        /\ t \in Workers => pc'[t] = "idle" /\ request'[t].kind = "none"
        /\ t \notin Workers => pc'[t] = "release" /\ request' = request
    BY <1>1, AbandonFacts DEF UpdateThrows
  <1>3. TypeOK'
    BY <1>1, <1>2 DEF UpdateThrows, Close, others, queueVars, processVars, moduleVars, dbVars,
       DataTypeOK, QueueTypeOK, ThreadTypeOK, RequestTypeOK, ProcessTypeOK, Permits
  <1>4. PermitExcludes' /\ PermitAccounted'
    <2>1. HoldsPermit(t)' => HoldsPermit(t)
      BY <1>1, <1>2, ServerAssumption DEF UpdateThrows, HoldsPermit, Updates, Requests, Close,
         InCode, MessageListeners
    <2> QED
      BY <1>1, <1>2, <2>1, PermitKept DEF UpdateThrows
  <1>5. WrapperScoped'
    BY <1>1, <1>2, WrapperKept DEF InCode, UpdateThrows, Close, dbVars
  <1>6. CopyIsCurrent'
    <2>1. Updates(t)' /\ pc'[t] = "put" => copy'[t] = store'[SectionOf(t)]
      BY <1>1, <1>2, ServerAssumption DEF UpdateThrows, Close, Updates, SectionOf, Requests,
         Threads, DbUsers, MessageListeners
    <2>2. store' = store \/ dbHolder = t
      BY <1>1 DEF UpdateThrows, Close, dbVars, WrapperScoped
    <2>3. \A u \in DbUsers \ {t} : copy'[u] = copy[u]
      BY <1>2 DEF UpdateThrows, DataTypeOK
    <2> QED
      BY <1>1, <1>2, <2>1, <2>2, <2>3, CopyKept
  <1>7. RequestShape'
    BY <1>1, <1>2, ServerAssumption DEF RequestShape, UpdateThrows, Close, RequestTypeOK,
       RequestRecords, Frame, Threads, DbUsers, MessageListeners
  <1>8. MessageShape' /\ AlertBound'
    BY <1>1, <1>2, ServerAssumption DEF MessageShape, AlertBound, UpdateThrows, Close, others,
       queueVars, processVars, moduleVars, Frame, Threads, DbUsers, MessageListeners
  <1> QED
    BY <1>3, <1>4, <1>5, <1>6, <1>7, <1>8

(* Nobody else has the database open while a section is written back. *)
LEMMA WriteBackInductive ==
  ASSUME Inductive, NEW t \in DbUsers, WriteBack(t)
  PROVE  Inductive'
  <1> USE DEF Inductive, TypeOK
  <1>1. t \in DbUsers /\ t \in Threads /\ pc[t] = "put" /\ dbHolder = t
    BY ServerAssumption DEF WriteBack, At, Put, Threads, DbUsers, MessageListeners, PcOf,
       Points, DbPoints, WrapperScoped, InCode
  <1>2. /\ pc' \in [Threads -> Points] /\ \A u \in Threads : pc'[u] \in PcOf(u)
        /\ Frame(t) /\ pc'[t] = "close"
    <2>1. \E p \in PcOf(t) \intersect Points : Goto(t, p) /\ p = "close"
      BY <1>1, ServerAssumption DEF WriteBack, Put, Threads, DbUsers, MessageListeners, PcOf,
         Points, DbPoints
    <2>2. \A u \in Workers \ {t} : request'[u] = request[u]
      BY DEF WriteBack, RequestTypeOK
    <2> QED
      BY <1>1, <2>1, <2>2, GotoFacts DEF Frame
  <1>3. TypeOK'
    <2>1. store' \in Stores
      BY PutFacts, UpdatedTyped, SectionOfFacts DEF WriteBack, DataTypeOK
    <2>2. copy' \in [DbUsers -> Values]
      BY DEF WriteBack, DataTypeOK, Values
    <2> QED
      BY <1>1, <1>2, <2>1, <2>2 DEF WriteBack, Put, others, queueVars, processVars, moduleVars,
         DataTypeOK, QueueTypeOK, ThreadTypeOK, RequestTypeOK, ProcessTypeOK
  <1>4. PermitExcludes' /\ PermitAccounted'
    <2>1. HoldsPermit(t)' => HoldsPermit(t)
      BY <1>1, <1>2, ServerAssumption DEF WriteBack, HoldsPermit, Updates, Requests, Put,
         InCode, MessageListeners
    <2> QED
      BY <1>1, <1>2, <2>1, PermitKept DEF WriteBack
  <1>5. WrapperScoped'
    BY <1>1, <1>2, WrapperKept DEF InCode, WriteBack, Put, dbVars
  <1>6. CopyIsCurrent'
    <2>1. Updates(t)' /\ pc'[t] = "put" => copy'[t] = store'[SectionOf(t)]
      BY <1>1, <1>2, ServerAssumption DEF WriteBack, Put, Updates, SectionOf, Requests,
         Threads, DbUsers, MessageListeners
    <2>2. store' = store \/ dbHolder = t
      BY <1>1 DEF WriteBack, Put, dbVars, WrapperScoped
    <2>3. \A u \in DbUsers \ {t} : copy'[u] = copy[u]
      BY <1>2 DEF WriteBack, DataTypeOK
    <2> QED
      BY <1>1, <1>2, <2>1, <2>2, <2>3, CopyKept
  <1>7. RequestShape'
    BY <1>1, <1>2, ServerAssumption DEF RequestShape, WriteBack, Put, RequestTypeOK,
       RequestRecords, Frame, Threads, DbUsers, MessageListeners
  <1>8. MessageShape' /\ AlertBound'
    BY <1>1, <1>2, ServerAssumption DEF MessageShape, AlertBound, WriteBack, Put, others,
       queueVars, processVars, moduleVars, Frame, Threads, DbUsers, MessageListeners
  <1> QED
    BY <1>3, <1>4, <1>5, <1>6, <1>7, <1>8

(* A request starts at its own first point. *)
LEMMA ServeInductive ==
  ASSUME Inductive, NEW w \in Workers, Serve(w)
  PROVE  Inductive'
  <1> USE DEF Inductive, TypeOK
  <1>1. w \in DbUsers /\ w \in Threads /\ pc[w] = "idle"
    BY ServerAssumption DEF Serve, At, Request, Threads, DbUsers, MessageListeners, PcOf,
       Points, DbPoints, WrapperScoped, InCode
  <1>2. /\ pc' \in [Threads -> Points] /\ \A u \in Threads : pc'[u] \in PcOf(u)
        /\ Frame(w) /\ pc'[w] \in {"acquire", "open"}
        /\ (pc'[w] = "acquire" <=> request'[w].kind = "setsupplies")
    <2>1. \E p \in PcOf(w) \intersect Points : Goto(w, p)
            /\ p \in {"acquire", "open"} /\ (p = "acquire" <=> request'[w].kind = "setsupplies")
      BY <1>1, ServerAssumption DEF Serve, Request, Threads, DbUsers, MessageListeners, PcOf,
         Points, DbPoints, RequestTypeOK
    <2>2. \A u \in Workers \ {w} : request'[u] = request[u]
      BY DEF Serve, RequestTypeOK
    <2> QED
      BY <1>1, <2>1, <2>2, GotoFacts DEF Frame
  <1>3. TypeOK' /\ request'[w].stage = 1 /\ request'[w].kind # "none"
    <2>1. PICK k \in Kinds : \E b \in IF k = "setsupplies" THEN Bodies ELSE {Nothing} :
                 request' = [request EXCEPT ![w] = Request(k, b)]
      BY DEF Serve
    <2>2. PICK b \in SetBodies \union {Nothing} :
                 request' = [request EXCEPT ![w] = Request(k, b)]
      BY <2>1, ServerAssumption
    <2>3. Request(k, b) \in RequestRecords
      BY <2>2, ServerAssumption DEF Request, NoReport, RequestRecords, Values
    <2>4. request'[w] = Request(k, b) /\ RequestTypeOK'
      BY <2>2, <2>3 DEF RequestTypeOK
    <2>5. request'[w].stage = 1 /\ request'[w].kind # "none"
      BY <2>4, ServerAssumption DEF Request, RequestKinds
    <2> QED
      BY <1>1, <1>2, <2>4, <2>5 DEF Serve, others, queueVars, processVars, moduleVars, dbVars,
         DataTypeOK, QueueTypeOK, ThreadTypeOK, RequestTypeOK, ProcessTypeOK
  <1>4. PermitExcludes' /\ PermitAccounted'
    <2>1. HoldsPermit(w)' => HoldsPermit(w)
      BY <1>1, <1>2, <1>3, ServerAssumption DEF Serve, HoldsPermit, Updates, Requests, Request,
         InCode, MessageListeners
    <2> QED
      BY <1>1, <1>2, <2>1, PermitKept DEF Serve
  <1>5. WrapperScoped'
    BY <1>1, <1>2, WrapperKept DEF InCode, Serve, Request, dbVars
  <1>6. CopyIsCurrent'
    <2>1. Updates(w)' /\ pc'[w] = "put" => copy'[w] = store'[SectionOf(w)]
      BY <1>1, <1>2, <1>3, ServerAssumption DEF Serve, Request, Updates, SectionOf, Requests,
         Threads, DbUsers, MessageListeners
    <2>2. store' = store \/ dbHolder = w
      BY <1>1 DEF Serve, Request, dbVars, WrapperScoped
    <2>3. \A u \in DbUsers \ {w} : copy'[u] = copy[u]
      BY <1>2 DEF Serve, DataTypeOK
    <2> QED
      BY <1>1, <1>2, <2>1, <2>2, <2>3, CopyKept
  <1>7. RequestShape'
    BY <1>1, <1>2, <1>3, ServerAssumption DEF RequestShape, Serve, Request, RequestTypeOK,
       RequestRecords, Frame, Threads, DbUsers, MessageListeners
  <1>8. MessageShape' /\ AlertBound'
    BY <1>1, <1>2, <1>3, ServerAssumption DEF MessageShape, AlertBound, Serve, Request, others,
       queueVars, processVars, moduleVars, Frame, Threads, DbUsers, MessageListeners
  <1> QED
    BY <1>3, <1>4, <1>5, <1>6, <1>7, <1>8

(* GET /supplies and GET /alert change nothing. *)
LEMMA ShowSectionInductive ==
  ASSUME Inductive, NEW w \in Workers, ShowSection(w)
  PROVE  Inductive'
  <1> USE DEF Inductive, TypeOK
  <1>1. w \in DbUsers /\ w \in Threads /\ pc[w] = "get" /\ Requests(w, {"supplies", "alert"})
    BY ServerAssumption DEF ShowSection, At, Threads, DbUsers, MessageListeners, PcOf, Points,
       DbPoints, WrapperScoped, InCode
  <1>2. /\ pc' \in [Threads -> Points] /\ \A u \in Threads : pc'[u] \in PcOf(u)
        /\ Frame(w) /\ pc'[w] = "close"
    <2>1. \E p \in PcOf(w) \intersect Points : Goto(w, p) /\ p = "close"
      BY <1>1, ServerAssumption DEF ShowSection, Threads, DbUsers, MessageListeners, PcOf,
         Points, DbPoints
    <2>2. \A u \in Workers \ {w} : request'[u] = request[u]
      BY DEF ShowSection, RequestTypeOK
    <2> QED
      BY <1>1, <2>1, <2>2, GotoFacts DEF Frame
  <1>3. TypeOK'
    BY <1>1, <1>2 DEF ShowSection, others, queueVars, processVars, moduleVars, dbVars,
       DataTypeOK, QueueTypeOK, ThreadTypeOK, RequestTypeOK, ProcessTypeOK, Permits
  <1>4. PermitExcludes' /\ PermitAccounted'
    <2>1. HoldsPermit(w)' => HoldsPermit(w)
      BY <1>1, <1>2, ServerAssumption DEF ShowSection, HoldsPermit, Updates, Requests, InCode,
         MessageListeners
    <2> QED
      BY <1>1, <1>2, <2>1, PermitKept DEF ShowSection
  <1>5. WrapperScoped'
    BY <1>1, <1>2, WrapperKept DEF InCode, ShowSection, dbVars
  <1>6. CopyIsCurrent'
    <2>1. Updates(w)' /\ pc'[w] = "put" => copy'[w] = store'[SectionOf(w)]
      BY <1>1, <1>2, ServerAssumption DEF ShowSection, Updates, SectionOf, Requests,
         Threads, DbUsers, MessageListeners
    <2>2. store' = store \/ dbHolder = w
      BY <1>1 DEF ShowSection, dbVars, WrapperScoped
    <2>3. \A u \in DbUsers \ {w} : copy'[u] = copy[u]
      BY <1>2 DEF ShowSection, DataTypeOK
    <2> QED
      BY <1>1, <1>2, <2>1, <2>2, <2>3, CopyKept
  <1>7. RequestShape'
    BY <1>1, <1>2, ServerAssumption DEF RequestShape, ShowSection, RequestTypeOK,
       RequestRecords, Frame, Threads, DbUsers, MessageListeners
  <1>8. MessageShape' /\ AlertBound'
    BY <1>1, <1>2, ServerAssumption DEF MessageShape, AlertBound, ShowSection, others,
       queueVars, processVars, moduleVars, Frame, Threads, DbUsers, MessageListeners
  <1> QED
    BY <1>3, <1>4, <1>5, <1>6, <1>7, <1>8

(* An absent section closes the wrapper on the way out. *)
LEMMA ShowThrowsInductive ==
  ASSUME Inductive, NEW w \in Workers, ShowThrows(w)
  PROVE  Inductive'
  <1> USE DEF Inductive, TypeOK
  <1>1. w \in DbUsers /\ w \in Threads /\ InCode(w) /\ dbHolder = w /\ Abandon(w)
    BY ServerAssumption DEF ShowThrows, At, Close, Threads, DbUsers, MessageListeners, PcOf,
       Points, DbPoints, WrapperScoped, InCode
  <1>2. /\ pc' \in [Threads -> Points] /\ \A u \in Threads : pc'[u] \in PcOf(u)
        /\ Frame(w) /\ RequestTypeOK' /\ copy' \in [DbUsers -> Values]
        /\ \A u \in DbUsers \ {w} : copy'[u] = copy[u]
        /\ w \in Workers => pc'[w] = "idle" /\ request'[w].kind = "none"
        /\ w \notin Workers => pc'[w] = "release" /\ request' = request
    BY <1>1, AbandonFacts DEF ShowThrows
  <1>3. TypeOK'
    BY <1>1, <1>2 DEF ShowThrows, Close, others, queueVars, processVars, moduleVars, dbVars,
       DataTypeOK, QueueTypeOK, ThreadTypeOK, RequestTypeOK, ProcessTypeOK, Permits
  <1>4. PermitExcludes' /\ PermitAccounted'
    <2>1. HoldsPermit(w)' => HoldsPermit(w)
      BY <1>1, <1>2, ServerAssumption DEF ShowThrows, HoldsPermit, Updates, Requests, Close,
         InCode, MessageListeners
    <2> QED
      BY <1>1, <1>2, <2>1, PermitKept DEF ShowThrows
  <1>5. WrapperScoped'
    BY <1>1, <1>2, WrapperKept DEF InCode, ShowThrows, Close, dbVars
  <1>6. CopyIsCurrent'
    <2>1. Updates(w)' /\ pc'[w] = "put" => copy'[w] = store'[SectionOf(w)]
      BY <1>1, <1>2, ServerAssumption DEF ShowThrows, Close, Updates, SectionOf, Requests,
         Threads, DbUsers, MessageListeners
    <2>2. store' = store \/ dbHolder = w
      BY <1>1 DEF ShowThrows, Close, dbVars, WrapperScoped
    <2>3. \A u \in DbUsers \ {w} : copy'[u] = copy[u]
      BY <1>2 DEF ShowThrows, DataTypeOK
    <2> QED
      BY <1>1, <1>2, <2>1, <2>2, <2>3, CopyKept
  <1>7. RequestShape'
    BY <1>1, <1>2, ServerAssumption, SMTT(90) DEF RequestShape, ShowThrows, Close, RequestTypeOK,
       RequestRecords, Frame, Threads, DbUsers, MessageListeners
  <1>8. MessageShape' /\ AlertBound'
    BY <1>1, <1>2, ServerAssumption DEF MessageShape, AlertBound, ShowThrows, Close, others,
       queueVars, processVars, moduleVars, Frame, Threads, DbUsers, MessageListeners
  <1> QED
    BY <1>3, <1>4, <1>5, <1>6, <1>7, <1>8

(* GET /database walks the three sections and stops after the last. *)
LEMMA CollectSectionInductive ==
  ASSUME Inductive, NEW w \in Workers, CollectSection(w)
  PROVE  Inductive'
  <1> USE DEF Inductive, TypeOK
  <1>1. w \in DbUsers /\ w \in Threads /\ pc[w] = "get" /\ Requests(w, {"database"})
    BY ServerAssumption DEF CollectSection, At, Threads, DbUsers, MessageListeners, PcOf,
       Points, DbPoints, WrapperScoped, InCode
  <1>2. /\ pc' \in [Threads -> Points] /\ \A u \in Threads : pc'[u] \in PcOf(u)
        /\ Frame(w) /\ pc'[w] \in {"get", "close"} /\ (pc'[w] = "get" => request[w].stage # 3)
    <2>1. \E p \in PcOf(w) \intersect Points : Goto(w, p)
            /\ p \in {"get", "close"} /\ (p = "get" => request[w].stage # 3)
      BY <1>1, ServerAssumption DEF CollectSection, Threads, DbUsers, MessageListeners, PcOf,
         Points, DbPoints, SectionAt
    <2>2. \A u \in Workers \ {w} : request'[u] = request[u]
      BY DEF CollectSection, RequestTypeOK
    <2> QED
      BY <1>1, <2>1, <2>2, GotoFacts DEF Frame
  <1>3. TypeOK' /\ request'[w].kind = request[w].kind
               /\ request'[w].stage = request[w].stage + 1
    <2>1. AtSection(w) \in Sections /\ request[w].stage \in 1 .. 3
      BY <1>1 DEF RequestShape, AtSection, SectionAt, Sections
    <2>2. Get(AtSection(w), request[w].text) \in Values
      BY <2>1, SectionTyped DEF Get, RequestTypeOK, RequestRecords, DataTypeOK
    <2>3. /\ RequestTypeOK' /\ request'[w].kind = request[w].kind
          /\ request'[w].stage = request[w].stage + 1
      BY <2>1, <2>2 DEF CollectSection, RequestTypeOK, RequestRecords
    <2> QED
      BY <1>1, <1>2, <2>3 DEF CollectSection, others, queueVars, processVars, moduleVars, dbVars,
         DataTypeOK, QueueTypeOK, ThreadTypeOK, ProcessTypeOK
  <1>4. PermitExcludes' /\ PermitAccounted'
    <2>1. HoldsPermit(w)' => HoldsPermit(w)
      BY <1>1, <1>2, <1>3, ServerAssumption DEF CollectSection, HoldsPermit, Updates, Requests,
         InCode, MessageListeners
    <2> QED
      BY <1>1, <1>2, <2>1, PermitKept DEF CollectSection
  <1>5. WrapperScoped'
    BY <1>1, <1>2, WrapperKept DEF InCode, CollectSection, dbVars
  <1>6. CopyIsCurrent'
    <2>1. Updates(w)' /\ pc'[w] = "put" => copy'[w] = store'[SectionOf(w)]
      BY <1>1, <1>2, <1>3, ServerAssumption DEF CollectSection, Updates, SectionOf, Requests,
         Threads, DbUsers, MessageListeners
    <2>2. store' = store \/ dbHolder = w
      BY <1>1 DEF CollectSection, dbVars, WrapperScoped
    <2>3. \A u \in DbUsers \ {w} : copy'[u] = copy[u]
      BY <1>2 DEF CollectSection, DataTypeOK
    <2> QED
      BY <1>1, <1>2, <2>1, <2>2, <2>3, CopyKept
  <1>7. RequestShape'
    BY <1>1, <1>2, <1>3, ServerAssumption, SMTT(90) DEF RequestShape, CollectSection, RequestTypeOK,
       RequestRecords, Frame, Threads, DbUsers, MessageListeners, Requests
  <1>8. MessageShape' /\ AlertBound'
    BY <1>1, <1>2, <1>3, ServerAssumption DEF MessageShape, AlertBound, CollectSection, others,
       queueVars, processVars, moduleVars, Frame, Threads, DbUsers, MessageListeners
  <1> QED
    BY <1>3, <1>4, <1>5, <1>6, <1>7, <1>8

(* An absent first section closes the wrapper on the way out. *)
LEMMA CollectThrowsInductive ==
  ASSUME Inductive, NEW w \in Workers, CollectThrows(w)
  PROVE  Inductive'
  <1> USE DEF Inductive, TypeOK
  <1>1. w \in DbUsers /\ w \in Threads /\ InCode(w) /\ dbHolder = w /\ Abandon(w)
    BY ServerAssumption DEF CollectThrows, At, Close, Threads, DbUsers, MessageListeners, PcOf,
       Points, DbPoints, WrapperScoped, InCode
  <1>2. /\ pc' \in [Threads -> Points] /\ \A u \in Threads : pc'[u] \in PcOf(u)
        /\ Frame(w) /\ RequestTypeOK' /\ copy' \in [DbUsers -> Values]
        /\ \A u \in DbUsers \ {w} : copy'[u] = copy[u]
        /\ w \in Workers => pc'[w] = "idle" /\ request'[w].kind = "none"
        /\ w \notin Workers => pc'[w] = "release" /\ request' = request
    BY <1>1, AbandonFacts DEF CollectThrows
  <1>3. TypeOK'
    BY <1>1, <1>2 DEF CollectThrows, Close, others, queueVars, processVars, moduleVars, dbVars,
       DataTypeOK, QueueTypeOK, ThreadTypeOK, RequestTypeOK, ProcessTypeOK, Permits
  <1>4. PermitExcludes' /\ PermitAccounted'
    <2>1. HoldsPermit(w)' => HoldsPermit(w)
      BY <1>1, <1>2, ServerAssumption DEF CollectThrows, HoldsPermit, Updates, Requests, Close,
         InCode, MessageListeners
    <2> QED
      BY <1>1, <1>2, <2>1, PermitKept DEF CollectThrows
  <1>5. WrapperScoped'
    BY <1>1, <1>2, WrapperKept DEF InCode, CollectThrows, Close, dbVars
  <1>6. CopyIsCurrent'
    <2>1. Updates(w)' /\ pc'[w] = "put" => copy'[w] = store'[SectionOf(w)]
      BY <1>1, <1>2, ServerAssumption DEF CollectThrows, Close, Updates, SectionOf, Requests,
         Threads, DbUsers, MessageListeners
    <2>2. store' = store \/ dbHolder = w
      BY <1>1 DEF CollectThrows, Close, dbVars, WrapperScoped
    <2>3. \A u \in DbUsers \ {w} : copy'[u] = copy[u]
      BY <1>2 DEF CollectThrows, DataTypeOK
    <2> QED
      BY <1>1, <1>2, <2>1, <2>2, <2>3, CopyKept
  <1>7. RequestShape'
    BY <1>1, <1>2, ServerAssumption, SMTT(90) DEF RequestShape, CollectThrows, Close, RequestTypeOK,
       RequestRecords, Frame, Threads, DbUsers, MessageListeners
  <1>8. MessageShape' /\ AlertBound'
    BY <1>1, <1>2, ServerAssumption DEF MessageShape, AlertBound, CollectThrows, Close, others,
       queueVars, processVars, moduleVars, Frame, Threads, DbUsers, MessageListeners
  <1> QED
    BY <1>3, <1>4, <1>5, <1>6, <1>7, <1>8

(* GET /deletesupplies stores the empty supplies. *)
LEMMA ClearSuppliesInductive ==
  ASSUME Inductive, NEW w \in Workers, ClearSupplies(w)
  PROVE  Inductive'
  <1> USE DEF Inductive, TypeOK
  <1>1. /\ w \in DbUsers /\ w \in Threads /\ pc[w] = "put" /\ dbHolder = w
        /\ Requests(w, {"deletesupplies"})
    BY ServerAssumption DEF ClearSupplies, At, Put, Threads, DbUsers, MessageListeners, PcOf,
       Points, DbPoints, WrapperScoped, InCode
  <1>2. /\ pc' \in [Threads -> Points] /\ \A u \in Threads : pc'[u] \in PcOf(u)
        /\ Frame(w) /\ pc'[w] = "close"
    <2>1. \E p \in PcOf(w) \intersect Points : Goto(w, p) /\ p = "close"
      BY <1>1, ServerAssumption DEF ClearSupplies, Put, Threads, DbUsers, MessageListeners,
         PcOf, Points, DbPoints
    <2>2. \A u \in Workers \ {w} : request'[u] = request[u]
      BY DEF ClearSupplies, RequestTypeOK
    <2> QED
      BY <1>1, <2>1, <2>2, GotoFacts DEF Frame
  <1>3. TypeOK'
    <2>1. "supplies" \in Sections /\ NoSupplies \in SectionType("supplies")
      BY DEF Sections, SectionType, NoSupplies, SupplyTable
    <2>2. store' \in Stores
      BY <2>1, PutFacts DEF ClearSupplies, DataTypeOK
    <2> QED
      BY <1>1, <1>2, <2>2 DEF ClearSupplies, Put, others, queueVars, processVars, moduleVars,
         DataTypeOK, QueueTypeOK, ThreadTypeOK, RequestTypeOK, ProcessTypeOK
  <1>4. PermitExcludes' /\ PermitAccounted'
    <2>1. HoldsPermit(w)' => HoldsPermit(w)
      BY <1>1, <1>2, ServerAssumption DEF ClearSupplies, HoldsPermit, Updates, Requests, Put,
         InCode, MessageListeners
    <2> QED
      BY <1>1, <1>2, <2>1, PermitKept DEF ClearSupplies
  <1>5. WrapperScoped'
    BY <1>1, <1>2, WrapperKept DEF InCode, ClearSupplies, Put, dbVars
  <1>6. CopyIsCurrent'
    <2>1. Updates(w)' /\ pc'[w] = "put" => copy'[w] = store'[SectionOf(w)]
      BY <1>1, <1>2, ServerAssumption DEF ClearSupplies, Put, Updates, SectionOf, Requests,
         Threads, DbUsers, MessageListeners
    <2>2. store' = store \/ dbHolder = w
      BY <1>1 DEF ClearSupplies, Put, dbVars, WrapperScoped
    <2>3. \A u \in DbUsers \ {w} : copy'[u] = copy[u]
      BY <1>2 DEF ClearSupplies, DataTypeOK
    <2> QED
      BY <1>1, <1>2, <2>1, <2>2, <2>3, CopyKept
  <1>7. RequestShape'
    BY <1>1, <1>2, ServerAssumption DEF RequestShape, ClearSupplies, Put, RequestTypeOK,
       RequestRecords, Frame, Threads, DbUsers, MessageListeners
  <1>8. MessageShape' /\ AlertBound'
    BY <1>1, <1>2, ServerAssumption DEF MessageShape, AlertBound, ClearSupplies, Put, others,
       queueVars, processVars, moduleVars, Frame, Threads, DbUsers, MessageListeners
  <1> QED
    BY <1>3, <1>4, <1>5, <1>6, <1>7, <1>8

(* GET /initdb walks the three sections and stops after the last. *)
LEMMA SeedSectionInductive ==
  ASSUME Inductive, NEW w \in Workers, SeedSection(w)
  PROVE  Inductive'
  <1> USE DEF Inductive, TypeOK
  <1>1. w \in DbUsers /\ w \in Threads /\ pc[w] = "put" /\ dbHolder = w /\ Requests(w, {"initdb"})
    BY ServerAssumption DEF SeedSection, At, Put, Threads, DbUsers, MessageListeners, PcOf,
       Points, DbPoints, WrapperScoped, InCode
  <1>2. /\ pc' \in [Threads -> Points] /\ \A u \in Threads : pc'[u] \in PcOf(u)
        /\ Frame(w) /\ pc'[w] \in {"put", "close"} /\ (pc'[w] = "put" => request[w].stage # 3)
    <2>1. \E p \in PcOf(w) \intersect Points : Goto(w, p)
            /\ p \in {"put", "close"} /\ (p = "put" => request[w].stage # 3)
      BY <1>1, ServerAssumption DEF SeedSection, Put, Threads, DbUsers, MessageListeners, PcOf,
         Points, DbPoints, SectionAt
    <2>2. \A u \in Workers \ {w} : request'[u] = request[u]
      BY DEF SeedSection, RequestTypeOK
    <2> QED
      BY <1>1, <2>1, <2>2, GotoFacts DEF Frame
  <1>3. TypeOK' /\ request'[w].kind = request[w].kind
               /\ request'[w].stage = request[w].stage + 1
    <2>1. AtSection(w) \in Sections /\ request[w].stage \in 1 .. 3
      BY <1>1 DEF RequestShape, AtSection, SectionAt, Sections
    <2>2. store' \in Stores
      BY <2>1, SeedTyped, PutFacts DEF SeedSection, DataTypeOK
    <2>3. /\ RequestTypeOK' /\ request'[w].kind = request[w].kind
          /\ request'[w].stage = request[w].stage + 1
      BY <2>1, StageFacts DEF SeedSection
    <2> QED
      BY <1>1, <1>2, <2>2, <2>3 DEF SeedSection, Put, others, queueVars, processVars, moduleVars,
         DataTypeOK, QueueTypeOK, ThreadTypeOK, ProcessTypeOK
  <1>4. PermitExcludes' /\ PermitAccounted'
    <2>1. HoldsPermit(w)' => HoldsPermit(w)
      BY <1>1, <1>2, <1>3, ServerAssumption DEF SeedSection, HoldsPermit, Updates, Requests, Put,
         InCode, MessageListeners
    <2> QED
      BY <1>1, <1>2, <2>1, PermitKept DEF SeedSection
  <1>5. WrapperScoped'
    BY <1>1, <1>2, WrapperKept DEF InCode, SeedSection, Put, dbVars
  <1>6. CopyIsCurrent'
    <2>1. Updates(w)' /\ pc'[w] = "put" => copy'[w] = store'[SectionOf(w)]
      BY <1>1, <1>2, <1>3, ServerAssumption DEF SeedSection, Put, Updates, SectionOf, Requests,
         Threads, DbUsers, MessageListeners
    <2>2. store' = store \/ dbHolder = w
      BY <1>1 DEF SeedSection, Put, dbVars, WrapperScoped
    <2>3. \A u \in DbUsers \ {w} : copy'[u] = copy[u]
      BY <1>2 DEF SeedSection, DataTypeOK
    <2> QED
      BY <1>1, <1>2, <2>1, <2>2, <2>3, CopyKept
  <1>7. RequestShape'
    BY <1>1, <1>2, <1>3, ServerAssumption, SMTT(90) DEF RequestShape, SeedSection, Put, RequestTypeOK,
       RequestRecords, Frame, Threads, DbUsers, MessageListeners, Requests
  <1>8. MessageShape' /\ AlertBound'
    BY <1>1, <1>2, <1>3, ServerAssumption DEF MessageShape, AlertBound, SeedSection, Put, others,
       queueVars, processVars, moduleVars, Frame, Threads, DbUsers, MessageListeners
  <1> QED
    BY <1>3, <1>4, <1>5, <1>6, <1>7, <1>8
===============================================================================
