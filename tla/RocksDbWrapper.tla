---------------------------- MODULE RocksDbWrapper ----------------------------
(***************************************************************************)
(* The wrapper class over RocksDB.  Every user of the database constructs  *)
(* a wrapper of its own and lets it go out of scope.  RocksDB locks the    *)
(* directory of an open database: while one wrapper exists, constructing   *)
(* another one throws, in another thread of the process too.               *)
(***************************************************************************)
EXTENDS RefugeData

CONSTANT NoThread   (* nobody *)

VARIABLES
  store,     (* the section under each key, on disk                        *)
  dbHolder   (* the thread whose wrapper has the database open             *)

DbFree == dbHolder = NoThread

OpenMutant(t) ==   \* the database opened without taking its lock
  /\ dbHolder' = t
  /\ UNCHANGED store

Open(t) == /\ DbFree
           /\ dbHolder' = t
           /\ UNCHANGED store

(* The constructor throws: the directory is locked. *)
OpenThrows == ~DbFree

Close(t) == /\ dbHolder = t
            /\ dbHolder' = NoThread
            /\ UNCHANGED store

GetMutant(k, value) ==   \* nothing is read into a string that is not empty
  IF value # Nothing THEN value ELSE store[k]

(* get() leaves the caller's string as it was when the key is absent. *)
Get(k, value) == IF store[k] = Nothing THEN value ELSE store[k]

(* put() overwrites. *)
Put(k, value) == /\ store' = [store EXCEPT ![k] = value]
                 /\ UNCHANGED dbHolder
===============================================================================
