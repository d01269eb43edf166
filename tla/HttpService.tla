------------------------------ MODULE HttpService -----------------------------
(***************************************************************************)
(* What the callers of the HTTP server can tell of it.  A call may be      *)
(* answered at any time after it was made, except that a /setsupplies has  *)
(* no answer once the server has lost its permit.  The permit is lost by a *)
(* failing /setsupplies only, one that is malformed or that met another    *)
(* call, and comes back only with a new process.  Nothing is said of when  *)
(* an answer comes, or that it does.                                       *)
(*                                                                         *)
(* RefugeServer implements this with its workers for callers, and          *)
(* ClientSession uses it with its clients for callers.                     *)
(***************************************************************************)
CONSTANT Callers

VARIABLES permit, call

(* Calls other than /setsupplies never ask for the permit. *)
Calls == {"unguarded", "set", "malformed set"}
NoCalls == [c \in Callers |-> "none"]

Make(c) ==
  /\ call[c] = "none"
  /\ \E k \in Calls : call' = [call EXCEPT ![c] = k]
  /\ UNCHANGED permit

Answer(c) ==
  /\ call[c] = "unguarded" \/ (call[c] = "set" /\ permit)
  /\ call' = [call EXCEPT ![c] = "none"]
  /\ UNCHANGED permit

LosePermit(c) ==
  /\ permit
  /\ \/ call[c] = "malformed set"
     \/ call[c] = "set" /\ \E d \in Callers : call[d] = "unguarded"
  /\ permit' = FALSE
  /\ call' = [call EXCEPT ![c] = "none"]

(* The process ends, and the next one starts afresh. *)
Reset == permit' = TRUE /\ call' = NoCalls

Init == permit = TRUE /\ call = NoCalls

Next == Reset \/ \E c \in Callers : Make(c) \/ Answer(c) \/ LosePermit(c)

Spec == Init /\ [][Next]_<<permit, call>>
===============================================================================
