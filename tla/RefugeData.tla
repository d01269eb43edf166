------------------------------ MODULE RefugeData ------------------------------
(***************************************************************************)
(* The data the refuge server keeps in its database: three keys, each      *)
(* holding a JSON object as text.  A section is modelled by the object it  *)
(* parses to, and by Nothing where the key is absent, which the code sees  *)
(* as an empty string that no JSON parser accepts.                         *)
(***************************************************************************)
EXTENDS Integers, FiniteSets

CONSTANTS
  Locations,     (* the entries that have a temperature sensor             *)
  Items,         (* supplies, each a pair of supply_type and supply_name   *)
  Amounts,       (* the amounts a supply can be set to                     *)
  Nothing,       (* an absent key, or an item that was never set           *)
  SeedAlerts,    (* the alert counters of the seed JSON                    *)
  SeedSupplies   (* the supplies of the seed JSON                          *)

(* The three keys of the database, in the order the code walks them. *)
SectionAt == <<"alerts", "supplies", "emergency">>
Sections  == {"alerts", "supplies", "emergency"}

AlertTable  == [Locations -> Nat]
SupplyTable == [Items -> Amounts \union {Nothing}]

(* The last event that was saved: that of the seed, or a later failure. *)
Emergencies == [last_event : {"seeded", "failure"}]

ASSUME DataAssumption ==
  /\ IsFiniteSet(Locations)
  /\ Nothing \notin AlertTable \union SupplyTable \union Emergencies \union Amounts
  /\ SeedAlerts \in AlertTable
  /\ SeedSupplies \in SupplyTable

Stores == [alerts    : AlertTable \union {Nothing},
           supplies  : SupplyTable \union {Nothing},
           emergency : Emergencies \union {Nothing}]

(* A database that was just created has no key. *)
EmptyStore == [alerts |-> Nothing, supplies |-> Nothing, emergency |-> Nothing]

SeedStore == [alerts    |-> SeedAlerts,
              supplies  |-> SeedSupplies,
              emergency |-> [last_event |-> "seeded"]]

(* The supplies "{}": no item has an amount. *)
NoSupplies == [i \in Items |-> Nothing]

-------------------------------------------------------------------------------
(* What the read-modify-write code computes from the section it has read.  *)

(* An absent location is null, and null has no integer value to increment. *)
CanCount(table) == table # Nothing

WithAlertMutant(table, l) == [table EXCEPT ![l] = 1]   \* set, not incremented
WithAlert(table, l) == [table EXCEPT ![l] = @ + 1]

WithSupplyMutant(table, i, n) == [NoSupplies EXCEPT ![i] = n]   \* always from "{}"

(* An absent section is "{}": the new item then becomes its only one.      *)
WithSupply(table, i, n) ==
  [(IF table = Nothing THEN NoSupplies ELSE table) EXCEPT ![i] = n]

(* Both fields of the section are overwritten, whatever it held.           *)
WithFailure(section) == [last_event |-> "failure"]
===============================================================================
