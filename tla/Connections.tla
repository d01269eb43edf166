------------------------------ MODULE Connections ------------------------------
(***************************************************************************)
(* How the server comes to have sessions: run_server() for each of the two *)
(* address families, over the bind() and connect() of the socket library.  *)
(*                                                                         *)
(* Whatever these throw leaves the thread of the family uncaught and ends  *)
(* the whole process.  bind() does not ask for the address to be reused:   *)
(* it fails while the system still holds connections of the last process,  *)
(* those that process had open when it ended.                              *)
(*                                                                         *)
(* The second family is started a second after the first, which is taken   *)
(* for long enough that the first has bound its socket or has failed.      *)
(***************************************************************************)
EXTENDS Naturals, Sequences

CONSTANTS
  Families,     (* in the order main() starts them                         *)
  MaxPending,   (* TCP_BACKLOG                                             *)
  MaxSessions,  (* bound: sessions of one family at a time                 *)
  MaxFaults     (* bound: ends of the process by anything else             *)

ASSUME ConnectionsAssumption ==
  /\ Families \in Seq(STRING) /\ Families # <<>>
  /\ \A i, j \in DOMAIN Families : Families[i] = Families[j] => i = j
  /\ MaxPending \in Nat \ {0} /\ MaxSessions \in Nat \ {0} /\ MaxFaults \in Nat

FamilyNames == {Families[i] : i \in DOMAIN Families}

VARIABLES
  up,         (* there is a process                                        *)
  server,     (* of each family: "none", "socket" or "listening"           *)
  pending,    (* connections the system has made and nobody has accepted   *)
  sessions,   (* accepted ones that are open                               *)
  lingering,  (* the system holds connections of an earlier process        *)
  faults      (* counts towards MaxFaults                                  *)

vars == <<up, server, pending, sessions, lingering, faults>>

Listening(f) == up /\ server[f] = "listening"
NoneOf == [f \in FamilyNames |-> 0]

(* The one before has got through, or has ended the process. *)
MayStartMutant(i) == TRUE   \* no sleep between them

MayStart(i) == \A j \in 1 .. i - 1 : server[Families[j]] = "listening"

-------------------------------------------------------------------------------
CreateSocket(i) ==
  /\ up /\ server[Families[i]] = "none"
  /\ MayStart(i)
  /\ server' = [server EXCEPT ![Families[i]] = "socket"]
  /\ UNCHANGED <<up, pending, sessions, lingering, faults>>

Bind(f) ==
  /\ up /\ server[f] = "socket"
  /\ ~lingering[f]
  /\ server' = [server EXCEPT ![f] = "listening"]
  /\ UNCHANGED <<up, pending, sessions, lingering, faults>>

(* The end of the process closes all its sockets.  The system holds on to   *)
(* those of open sessions, unless their clients had left unread data.       *)
EndProcessMutant ==   \* the sessions outlive it
  /\ up /\ up' = FALSE
  /\ server' = [f \in FamilyNames |-> "none"]
  /\ pending' = NoneOf
  /\ UNCHANGED <<sessions, lingering>>

EndProcess ==
  /\ up /\ up' = FALSE
  /\ server' = [f \in FamilyNames |-> "none"]
  /\ pending' = NoneOf /\ sessions' = NoneOf
  /\ \E L \in SUBSET {f \in FamilyNames : sessions[f] > 0} :
       lingering' = [f \in FamilyNames |-> lingering[f] \/ f \in L]

BindThrows(f) ==
  /\ server[f] = "socket" /\ lingering[f]
  /\ EndProcess
  /\ UNCHANGED faults

ClientConnects(f) ==
  /\ Listening(f) /\ pending[f] < MaxPending
  /\ pending' = [pending EXCEPT ![f] = @ + 1]
  /\ UNCHANGED <<up, server, sessions, lingering, faults>>

Accept(f) ==
  /\ Listening(f) /\ pending[f] > 0 /\ sessions[f] < MaxSessions
  /\ pending' = [pending EXCEPT ![f] = @ - 1]
  /\ sessions' = [sessions EXCEPT ![f] = @ + 1]
  /\ UNCHANGED <<up, server, lingering, faults>>

(* handle_client() returns. *)
CloseSession(f) ==
  /\ up /\ sessions[f] > 0
  /\ sessions' = [sessions EXCEPT ![f] = @ - 1]
  /\ UNCHANGED <<up, server, pending, lingering, faults>>

(* accept() fails, or anything else ends the process. *)
Fault ==
  /\ faults < MaxFaults
  /\ EndProcess
  /\ faults' = faults + 1

(* The system lets go of the connections. *)
Expire(f) ==
  /\ lingering[f]
  /\ lingering' = [lingering EXCEPT ![f] = FALSE]
  /\ UNCHANGED <<up, server, pending, sessions, faults>>

Restart ==
  /\ ~up /\ up' = TRUE
  /\ UNCHANGED <<server, pending, sessions, lingering, faults>>

-------------------------------------------------------------------------------
Init ==
  /\ up = TRUE
  /\ server = [f \in FamilyNames |-> "none"]
  /\ pending = NoneOf /\ sessions = NoneOf
  /\ lingering \in [FamilyNames -> BOOLEAN]
  /\ faults = 0

ServerStep(i) == CreateSocket(i) \/ Bind(Families[i]) \/ BindThrows(Families[i])

Next ==
  \/ \E i \in DOMAIN Families : ServerStep(i)
  \/ \E f \in FamilyNames : ClientConnects(f) \/ Accept(f) \/ CloseSession(f) \/ Expire(f)
  \/ Fault \/ Restart

Spec == Init /\ [][Next]_vars

(* Threads run on, the system lets go in the end, and the operator starts   *)
(* the server again; clients come and go as they like.                      *)
Fairness ==
  /\ \A i \in DOMAIN Families : WF_vars(ServerStep(i))
  /\ \A f \in FamilyNames : WF_vars(Accept(f)) /\ WF_vars(Expire(f))
  /\ WF_vars(Restart)

FairSpec == Spec /\ Fairness

-------------------------------------------------------------------------------
(* Every variable has its type, and only a family that listens has clients. *)
TypeOK ==
  /\ up \in BOOLEAN /\ faults \in 0 .. MaxFaults
  /\ server \in [FamilyNames -> {"none", "socket", "listening"}]
  /\ pending \in [FamilyNames -> 0 .. MaxPending]
  /\ sessions \in [FamilyNames -> 0 .. MaxSessions]
  /\ lingering \in [FamilyNames -> BOOLEAN]
  /\ \A f \in FamilyNames : pending[f] + sessions[f] > 0 => Listening(f)

(* The families are opened one after the other, and what listens has found   *)
(* nothing left of an earlier process.                                       *)
OpenedInOrder ==
  /\ \A i, j \in DOMAIN Families :
       i < j /\ server[Families[j]] # "none" => server[Families[i]] = "listening"
  /\ \A f \in FamilyNames :
       /\ ~up => server[f] = "none"
       /\ server[f] = "listening" => ~lingering[f]

(* What every step keeps.                                                    *)
Inductive == TypeOK /\ OpenedInOrder

(* A start that fails leaves new connections to the system only of families  *)
(* opened before one of which it still holds some: the trouble moves to the  *)
(* front and out, as long as nothing else ends the process.                  *)
LeftByLater ==
  \A i \in DOMAIN Families :
    lingering'[Families[i]] /\ ~lingering[Families[i]] =>
      \/ faults' = faults + 1
      \/ \E j \in DOMAIN Families : i < j /\ lingering[Families[j]]
LeftOnlyByLater == [][LeftByLater]_vars

(* A process that ends with sessions open keeps the next ones from binding  *)
(* their sockets, and each of those may end with new sessions open.  Still  *)
(* the server comes back: when it is only started again, and nothing else   *)
(* ends it, both families listen in the end, and for good.                  *)
ComesBack == <>[](\A f \in FamilyNames : Listening(f))
===============================================================================
