----------------------------- MODULE Dictionary -----------------------------
(***************************************************************************)
(* What a table of the kernel module promises its callers: a bounded set   *)
(* of keys with insertion, removal, search and a pass that removes all     *)
(* that is expired.  BPlus implements it.                                  *)
(***************************************************************************)
EXTENDS Integers, FiniteSets

CONSTANTS Key,       \* the keys callers use
          Expiring,  \* the sets of keys that may expire at once
          MaxSize    \* how many entries the table takes

NULL == 0           \* the answer "no record"; a record is known by its key

VARIABLES keys,     \* the keys of the stored records
          ret       \* the answer to the last call

vars == <<keys, ret>>

(* A key already present keeps its record, and the caller is told 0.       *)
Insert(k) ==
  IF Cardinality(keys) = MaxSize
  THEN ret' = -1 /\ UNCHANGED keys
  ELSE ret' = 0 /\ keys' = keys \cup {k}

Delete(k) ==
  /\ ret'  = IF k \in keys THEN k ELSE NULL
  /\ keys' = keys \ {k}

Search(k) ==
  /\ ret' = IF k \in keys THEN k ELSE NULL
  /\ UNCHANGED keys

(* One pass over all the records: exactly the expired ones go.             *)
Expire(dead) ==
  /\ ret'  = 0
  /\ keys' = keys \ dead

Init == keys \in SUBSET Key /\ ret = 0

Next == \/ \E k \in Key : Insert(k) \/ Delete(k) \/ Search(k)
        \/ \E dead \in Expiring : Expire(dead)

Spec == Init /\ [][Next]_vars
=============================================================================
