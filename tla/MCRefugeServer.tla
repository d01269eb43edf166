---------------------------- MODULE MCRefugeServer ----------------------------
EXTENDS RefugeServerProperties, TLC

CONSTANTS north, south, food, drug

OneEntry == {north}
OneSensor == <<north>>
TwoEntries == {north, south}
TwoSensors == <<north, south>>
MCSeedAlerts == [l \in Locations |-> 70]
MCSeedSupplies == [i \in Items |-> 5]
Seeded == {SeedStore}
Fresh == {EmptyStore}
FreshOrSeeded == {EmptyStore, SeedStore}
WorkerSymmetry == Permutations(Workers)
ListenerSymmetry == Permutations(Listeners)
QueueSymmetry == Permutations(Listeners) \union Permutations(Keys)
GoodBodies == SetBodies
AnyBodies == SetBodies \union {Nothing}
===============================================================================
