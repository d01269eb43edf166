---------------------------- MODULE ConnectionsProofs ----------------------------
(***************************************************************************)
(* The sockets and connections of the server, for every number of address  *)
(* families, connections and failures.                                     *)
(***************************************************************************)
EXTENDS Connections, TLAPS

(* What main() starts are the families. *)
LEMMA FamiliesAreNames == \A i \in DOMAIN Families : Families[i] \in FamilyNames
  BY DEF FamilyNames

(* Whatever ends the process closes all that is open in it. *)
LEMMA EndClosesAll ==
  ASSUME TypeOK, EndProcess, faults' \in 0 .. MaxFaults
  PROVE  TypeOK'
  <1>1. PICK L \in SUBSET {f \in FamilyNames : sessions[f] > 0} :
          lingering' = [f \in FamilyNames |-> lingering[f] \/ f \in L]
    BY DEF EndProcess
  <1>2. lingering' \in [FamilyNames -> BOOLEAN]
    BY <1>1 DEF TypeOK
  <1>3. \A f \in FamilyNames : pending'[f] = 0 /\ sessions'[f] = 0
    BY DEF EndProcess, NoneOf
  <1>4. /\ pending' \in [FamilyNames -> 0 .. MaxPending]
        /\ sessions' \in [FamilyNames -> 0 .. MaxSessions]
    BY ConnectionsAssumption DEF EndProcess, NoneOf
  <1>5. up' \in BOOLEAN /\ server' \in [FamilyNames -> {"none", "socket", "listening"}]
    BY DEF EndProcess
  <1> QED
    BY <1>2, <1>3, <1>4, <1>5 DEF TypeOK

(* No connection, neither waiting nor accepted, is ever left to a family     *)
(* that does not listen, whichever way processes end and start again; and   *)
(* no count leaves its bounds.                                              *)
THEOREM TypeCorrect == Spec => []TypeOK
  <1> USE DEF TypeOK, Listening
  <1>1. Init => TypeOK
    BY ConnectionsAssumption DEF Init, NoneOf
  <1>2. TypeOK /\ [Next]_vars => TypeOK'
    <2> SUFFICES ASSUME TypeOK, [Next]_vars
                 PROVE  TypeOK'
      OBVIOUS
    <2>1. ASSUME NEW i \in DOMAIN Families, CreateSocket(i)
          PROVE  TypeOK'
      BY <2>1, FamiliesAreNames DEF CreateSocket
    <2>2. ASSUME NEW f \in FamilyNames, Bind(f)
          PROVE  TypeOK'
      BY <2>2 DEF Bind
    <2>3. ASSUME NEW f \in FamilyNames, BindThrows(f)
          PROVE  TypeOK'
      BY <2>3, EndClosesAll DEF BindThrows
    <2>4. ASSUME NEW f \in FamilyNames, ClientConnects(f)
          PROVE  TypeOK'
      BY <2>4, ConnectionsAssumption DEF ClientConnects
    <2>5. ASSUME NEW f \in FamilyNames, Accept(f)
          PROVE  TypeOK'
      <3>1. /\ pending' \in [FamilyNames -> 0 .. MaxPending]
            /\ sessions' \in [FamilyNames -> 0 .. MaxSessions]
        BY <2>5, ConnectionsAssumption DEF Accept
      <3>2. \A g \in FamilyNames \ {f} : pending'[g] = pending[g] /\ sessions'[g] = sessions[g]
        BY <2>5 DEF Accept
      <3> QED
        BY <2>5, <3>1, <3>2 DEF Accept
    <2>6. ASSUME NEW f \in FamilyNames, CloseSession(f)
          PROVE  TypeOK'
      <3>1. sessions' \in [FamilyNames -> 0 .. MaxSessions]
        BY <2>6, ConnectionsAssumption DEF CloseSession
      <3>2. Listening(f) /\ \A g \in FamilyNames \ {f} : sessions'[g] = sessions[g]
        BY <2>6 DEF CloseSession
      <3> QED
        BY <2>6, <3>1, <3>2 DEF CloseSession
    <2>7. ASSUME NEW f \in FamilyNames, Expire(f)
          PROVE  TypeOK'
      BY <2>7 DEF Expire
    <2>8. CASE Fault
      <3>1. faults' \in 0 .. MaxFaults
        BY <2>8, ConnectionsAssumption DEF Fault
      <3> QED
        BY <2>8, <3>1, EndClosesAll DEF Fault
    <2>9. CASE Restart
      BY <2>9 DEF Restart
    <2>10. CASE UNCHANGED vars
      BY <2>10 DEF vars
    <2> QED
      BY <2>1, <2>2, <2>3, <2>4, <2>5, <2>6, <2>7, <2>8, <2>9, <2>10, FamiliesAreNames
      DEF Next, ServerStep
  <1> QED
    BY <1>1, <1>2, PTL DEF Spec

-------------------------------------------------------------------------------
(* Every process starts with nothing open. *)
LEMMA EndOpensNothing ==
  ASSUME EndProcess
  PROVE  OpenedInOrder'
  <1>1. \A f \in FamilyNames : server'[f] = "none"
    BY DEF EndProcess
  <1> QED
    BY <1>1, FamiliesAreNames DEF OpenedInOrder

(* Every step keeps the order of the families. *)
LEMMA OrderKept ==
  ASSUME TypeOK, OpenedInOrder, [Next]_vars
  PROVE  OpenedInOrder'
  <1> USE DEF OpenedInOrder
  <1>1. ASSUME NEW i \in DOMAIN Families, CreateSocket(i)
        PROVE  OpenedInOrder'
    <2>1. \A j \in 1 .. i - 1 : server[Families[j]] = "listening"
      BY <1>1 DEF CreateSocket, MayStart
    <2>2. DOMAIN Families \subseteq Nat \ {0} /\ up' = up /\ up /\ lingering' = lingering
      BY <1>1, ConnectionsAssumption DEF CreateSocket
    <2>3. /\ server[Families[i]] = "none" /\ server'[Families[i]] = "socket"
          /\ \A f \in FamilyNames \ {Families[i]} : server'[f] = server[f]
      BY <1>1, FamiliesAreNames DEF CreateSocket, TypeOK
    <2>4. ASSUME NEW j \in DOMAIN Families, NEW k \in DOMAIN Families,
                 j < k, server'[Families[k]] # "none"
          PROVE  server'[Families[j]] = "listening"
      <3>1. CASE k = i
        BY <2>1, <2>2, <2>3, <2>4, <3>1, FamiliesAreNames, ConnectionsAssumption
      <3>2. CASE k # i
        <4>1. server[Families[k]] # "none"
          BY <2>3, <2>4, <3>2, FamiliesAreNames, ConnectionsAssumption
        <4>2. server[Families[j]] = "listening"
          BY <2>4, <4>1
        <4> QED
          BY <2>3, <4>2, FamiliesAreNames
      <3> QED
        BY <3>1, <3>2
    <2>5. \A f \in FamilyNames : server'[f] = "listening" => ~lingering'[f]
      BY <2>2, <2>3
    <2> QED
      BY <2>2, <2>4, <2>5
  <1>2. ASSUME NEW f \in FamilyNames, Bind(f)
        PROVE  OpenedInOrder'
    <2>1. /\ up' = up /\ up /\ lingering' = lingering /\ ~lingering[f]
          /\ server[f] = "socket" /\ server'[f] = "listening"
          /\ \A g \in FamilyNames \ {f} : server'[g] = server[g]
      BY <1>2 DEF Bind, TypeOK
    <2>2. \A g \in FamilyNames : server'[g] # "none" <=> server[g] # "none"
      BY <2>1
    <2>3. \A g \in FamilyNames : server[g] = "listening" => server'[g] = "listening"
      BY <2>1
    <2> QED
      BY <2>1, <2>2, <2>3, FamiliesAreNames
  <1>3. ASSUME NEW f \in FamilyNames, BindThrows(f)
        PROVE  OpenedInOrder'
    BY <1>3, EndOpensNothing DEF BindThrows
  <1>4. ASSUME NEW f \in FamilyNames, ClientConnects(f) \/ Accept(f) \/ CloseSession(f)
        PROVE  OpenedInOrder'
    BY <1>4 DEF ClientConnects, Accept, CloseSession
  <1>5. ASSUME NEW f \in FamilyNames, Expire(f)
        PROVE  OpenedInOrder'
    BY <1>5 DEF Expire, TypeOK
  <1>6. CASE Fault
    BY <1>6, EndOpensNothing DEF Fault
  <1>7. CASE Restart
    BY <1>7 DEF Restart
  <1>8. CASE UNCHANGED vars
    BY <1>8 DEF vars
  <1> QED
    BY <1>1, <1>2, <1>3, <1>4, <1>5, <1>6, <1>7, <1>8, FamiliesAreNames DEF Next, ServerStep

(* Only run_server() for the families before has let clients in, when the    *)
(* bind() of a family fails.                                                 *)
LEMMA FailureLeavesEarlier ==
  ASSUME TypeOK, OpenedInOrder, NEW k \in DOMAIN Families, BindThrows(Families[k])
  PROVE  LeftByLater
  <1> SUFFICES ASSUME NEW i \in DOMAIN Families,
                      lingering'[Families[i]], ~lingering[Families[i]]
               PROVE  i < k /\ lingering[Families[k]]
    BY DEF LeftByLater
  <1>1. server[Families[k]] = "socket" /\ lingering[Families[k]]
    BY DEF BindThrows
  <1>2. sessions[Families[i]] > 0
    <2>1. PICK L \in SUBSET {f \in FamilyNames : sessions[f] > 0} :
            lingering' = [f \in FamilyNames |-> lingering[f] \/ f \in L]
      BY DEF BindThrows, EndProcess
    <2> QED
      BY <2>1, FamiliesAreNames
  <1>3. server[Families[i]] = "listening"
    <2>1. /\ pending[Families[i]] \in Nat /\ sessions[Families[i]] \in Nat
          /\ pending[Families[i]] + sessions[Families[i]] > 0 => Listening(Families[i])
      BY FamiliesAreNames, ConnectionsAssumption DEF TypeOK
    <2>2. pending[Families[i]] + sessions[Families[i]] > 0
      BY <1>2, <2>1
    <2> QED
      BY <2>1, <2>2 DEF Listening
  <1>4. i # k /\ ~(k < i)
    BY <1>1, <1>3 DEF OpenedInOrder
  <1> QED
    BY <1>1, <1>4, ConnectionsAssumption

(* The families are opened in the order main() starts them, each after all   *)
(* those before listen, and a family that listens has found nothing left of  *)
(* an earlier process.                                                       *)
THEOREM InductiveHolds == Spec => []Inductive
  <1>1. Init => OpenedInOrder
    BY FamiliesAreNames DEF Init, OpenedInOrder
  <1>2. TypeOK /\ OpenedInOrder /\ [Next]_vars => OpenedInOrder'
    BY OrderKept
  <1> QED
    BY <1>1, <1>2, TypeCorrect, PTL DEF Spec, Inductive

(* A failed bind() never makes a family unable to start again that was not   *)
(* opened before one that is: with no other end of the process, the families *)
(* that keep the server from starting run out.                               *)
THEOREM FailuresRunOut == Spec => LeftOnlyByLater
  <1>1. Inductive /\ [Next]_vars => [LeftByLater]_vars
    <2> SUFFICES ASSUME TypeOK, OpenedInOrder, Next
                 PROVE  LeftByLater
      BY DEF vars, Inductive
    <2>1. ASSUME NEW f \in FamilyNames, BindThrows(f)
          PROVE  LeftByLater
      BY <2>1, FailureLeavesEarlier DEF FamilyNames
    <2>2. CASE Fault
      BY <2>2 DEF Fault, LeftByLater
    <2>3. ASSUME NEW f \in FamilyNames, Expire(f)
          PROVE  LeftByLater
      <3>1. \A g \in FamilyNames : lingering'[g] => lingering[g]
        BY <2>3 DEF Expire, TypeOK
      <3> QED
        BY <3>1, FamiliesAreNames DEF LeftByLater
    <2>4. ASSUME lingering' = lingering
          PROVE  LeftByLater
      BY <2>4 DEF LeftByLater
    <2>5. ASSUME NEW i \in DOMAIN Families, CreateSocket(i) \/ Bind(Families[i])
          PROVE  lingering' = lingering
      BY <2>5 DEF CreateSocket, Bind
    <2>6. ASSUME NEW f \in FamilyNames, ClientConnects(f) \/ Accept(f) \/ CloseSession(f)
          PROVE  lingering' = lingering
      BY <2>6 DEF ClientConnects, Accept, CloseSession
    <2>7. CASE Restart
      BY <2>4, <2>7 DEF Restart
    <2> QED
      BY <2>1, <2>2, <2>3, <2>4, <2>5, <2>6, <2>7, FamiliesAreNames DEF Next, ServerStep
  <1> QED
    BY <1>1, InductiveHolds, PTL DEF Spec, LeftOnlyByLater
===============================================================================
