-------------------------- MODULE MCTransactionLife --------------------------
(***************************************************************************)
(* A small instance of TransactionLife: blocks of 3 seconds, a period of   *)
(* three blocks, and a reference number of 5 values (the least that the    *)
(* assumption of ValidUntilItExpires allows), which wraps in the chain.    *)
(* Keys are of 3 units and noises of 2, one of them set.                   *)
(***************************************************************************)
EXTENDS TransactionLife

ThisKey == [i \in 0..2 |-> i # 1]
NoKey == [i \in 0..2 |-> FALSE]
MCKeys == {ThisKey, NoKey}
MCNoises == {[i \in 0..1 |-> i = 0]}
TwoRests == {0, 1}

Fate(fate, recid) == [fate |-> fate, recid |-> recid]
\* The first nonce serves; or only the third, the others being of no use or
\* giving high signatures, as the memory behind recid has it.
AtOnce == [n \in (1..3) \X TwoRests |-> Fate("canonical", n[2])]
AtLast == [n \in (1..3) \X TwoRests |->
  IF n[1] = 3 THEN Fate("canonical", 1)
  ELSE Fate(IF n[1] + n[2] = 2 THEN "unusable" ELSE "not canonical", 0)]
MCCurves == {AtOnce, AtLast}
=============================================================================
