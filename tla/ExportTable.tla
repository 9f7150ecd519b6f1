---------------------------- MODULE ExportTable ----------------------------
(***************************************************************************)
(* The tables of capnp/rpc.c++ and the ids of an ExportTable: a table is a *)
(* function whose domain is the set of ids in use.                         *)
(***************************************************************************)
EXTENDS Integers, FiniteSets, Functions

CONSTANT
  HighBit      \* highBit(): the top bit marks the ids nextHigh() chooses

ASSUME HighBitAssumption == HighBit \in Nat

Empty == [x \in {} |-> x]

Put(table, id, entry) ==
  [x \in DOMAIN table \cup {id} |-> IF x = id THEN entry ELSE table[x]]

Erase(table, id) == Restrict(table, DOMAIN table \ {id})

isHigh(id) == id >= HighBit

(* ExportTable::next() takes the lowest free id.                           *)
NextId(table) ==
  LET used == {id \in DOMAIN table : ~isHigh(id)}
  IN  CHOOSE id \in 0 .. Cardinality(used) :
        id \notin used /\ \A j \in 0 .. id - 1 : j \in used

=============================================================================
