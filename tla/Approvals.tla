----------------------------- MODULE Approvals -----------------------------
(***************************************************************************)
(* What handing a transaction round for signing promises, whatever the     *)
(* form it travels in: a party's copy is one transaction with signatures   *)
(* that their owners made over it, a party's own work only adds to them,   *)
(* and a copy that is fetched is one that was posted. A copy may be lost.  *)
(***************************************************************************)
EXTENDS Naturals, Sequences, FiniteSets

CONSTANTS
  Parties,
  Transactions,
  Signatures  \* [Parties \X Transactions -> sets of the texts signDigest may return]

VARIABLES
  copies,  \* per party, the copy it holds
  posted   \* the copies and bare signatures on their way

vars == <<copies, posted>>

Nothing == [of |-> "", by |-> {}]
Copy(t, signatures) == [of |-> t, by |-> signatures]

Init ==
  /\ copies = [p \in Parties |-> Nothing]
  /\ posted = {}

Propose(p, t) ==
  /\ copies' = [copies EXCEPT ![p] = Copy(t, {})]
  /\ UNCHANGED posted

Approve(p) ==
  /\ copies[p].of \in Transactions
  /\ \E s \in Signatures[p, copies[p].of] : copies' = [copies EXCEPT ![p].by = @ \cup {s}]
  /\ UNCHANGED posted

Collect(p) ==
  /\ \E some \in SUBSET {c \in posted : c.of = copies[p].of} :
       copies' = [copies EXCEPT ![p].by = @ \cup UNION {c.by : c \in some}]
  /\ UNCHANGED posted

Post(p) ==
  /\ \/ posted' = posted \cup {copies[p]}
     \/ /\ copies[p].of \in Transactions
        /\ \E s \in Signatures[p, copies[p].of] : posted' = posted \cup {Copy(copies[p].of, {s})}
  /\ UNCHANGED copies

Fetch(p) ==
  /\ \E c \in posted : copies' = [copies EXCEPT ![p] = c]
  /\ UNCHANGED posted

Forget(p) ==
  /\ copies' = [copies EXCEPT ![p] = Nothing]
  /\ UNCHANGED posted

Lose ==
  /\ \E c \in posted : posted' = posted \ {c}
  /\ UNCHANGED copies

Next ==
  \/ \E p \in Parties, t \in Transactions : Propose(p, t)
  \/ \E p \in Parties : Approve(p) \/ Collect(p) \/ Post(p) \/ Fetch(p) \/ Forget(p)
  \/ Lose

Spec == Init /\ [][Next]_vars
=============================================================================
