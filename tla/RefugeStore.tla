------------------------------ MODULE RefugeStore -----------------------------
(***************************************************************************)
(* What the server promises about its database: it changes only by whole   *)
(* operations, each of which takes effect on the state the previous one    *)
(* left.  Nothing is read, kept aside and written back over a newer value, *)
(* and neither the end of the process nor its restart touches the data.    *)
(***************************************************************************)
EXTENDS RefugeData

VARIABLE store

(* One more alert is counted at a location that has a counter. *)
CountAlert(l) ==
  /\ store.alerts # Nothing
  /\ store' = [store EXCEPT !.alerts[l] = @ + 1]

SetSupply(i, n) ==
  store' = [store EXCEPT !.supplies =
              IF @ = Nothing THEN [NoSupplies EXCEPT ![i] = n]
                             ELSE [@ EXCEPT ![i] = n]]

ClearSupplies == store' = [store EXCEPT !.supplies = NoSupplies]

RecordFailure == store' = [store EXCEPT !.emergency = [last_event |-> "failure"]]

Seed(k) == store' = [store EXCEPT ![k] = SeedStore[k]]

Init == store \in {EmptyStore, SeedStore}

Next == \/ \E l \in Locations : CountAlert(l)
        \/ \E i \in Items, n \in Amounts : SetSupply(i, n)
        \/ ClearSupplies
        \/ RecordFailure
        \/ \E k \in Sections : Seed(k)

Spec == Init /\ [][Next]_store
===============================================================================
