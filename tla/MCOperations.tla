---------------------------- MODULE MCOperations ----------------------------
(***************************************************************************)
(* Small instances of Operations: for every kind of field, values at the   *)
(* boundaries of its encoding (one and two bytes of a varint, an empty     *)
(* string, a string that looks like a length, an empty container).         *)
(***************************************************************************)
EXTENDS Operations

Key(b) == [i \in 1..33 |-> b]

FieldValues == [
  id |-> {1, 300}, string |-> {<<>>, <<1>>, <<0, 1>>}, asset |-> {0, 300}, u16 |-> {0, 258},
  u32 |-> {7}, bool |-> BOOLEAN, key |-> {BadKey, Key(2), Key(3)},
  signature |-> {[i \in 1..65 |-> 1]}, ids |-> {<<>>, <<1, 300>>},
  stakes |-> {<<>>, <<1, 5>>, <<1, 5, 300, 7>>}, results |-> {<<>>, <<1, 5, 0>>, <<1, 0, 5>>}]

Free == [basic |-> 0, price |-> 0, asset |-> 0]
Cheap == [basic |-> 100, price |-> 1000, asset |-> 0]
Dear == [basic |-> 20, price |-> 4096, asset |-> 200]
AllFees == {Free, Cheap, Dear}

\* What the theorems of OperationsProofs take of the layouts.
ASSUME LayoutAssumption == LayoutIsFaithful /\ LayoutIsTyped
=============================================================================
