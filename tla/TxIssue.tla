------------------------------ MODULE TxIssue -------------------------------
(***************************************************************************)
(* What the request builder promises of the transactions it returns: each  *)
(* is made of headers that were current while it was being built, oldest   *)
(* read first, and expires at most one period after the first of them.     *)
(* SnapshotSpec is the stronger promise of builds that no update overlaps: *)
(* one header and one settings value for the whole transaction.            *)
(***************************************************************************)
EXTENDS Integers, Sequences

CONSTANTS Threads, Headers, Settings

VARIABLES
  log,     \* the headers installed, oldest first
  window,  \* per thread: the version current when its build began, or 0
  txs      \* the transactions returned

vars == <<log, window, txs>>

Init ==
  /\ log = <<[time |-> 0, num |-> 0, prefix |-> 0, epoch |-> 0, by |-> "none"]>>
  /\ window = [t \in Threads |-> 0]
  /\ txs = <<>>

\* The epoch of a header counts the changes of the chain time before it.
Install ==
  /\ \E h \in Headers :
       log' = Append(log, [time |-> h.time, num |-> h.block % 65536, prefix |-> h.prefix,
                           epoch |-> log[Len(log)].epoch
                                     + (IF h.time = log[Len(log)].time THEN 0 ELSE 1),
                           by |-> h.by])
  /\ UNCHANGED <<window, txs>>

Begin(t) ==
  /\ window[t] = 0
  /\ window' = [window EXCEPT ![t] = Len(log)]
  /\ UNCHANGED <<log, txs>>

\* Offsets that a settings value lets a build subtract from its expiration.
Offsets(s) == IF s.uniq /\ s.off > 0 THEN 0..(s.off - 1) ELSE {0}

Tx(dnum, dprefix, jnum, jprefix, expiration) ==
  [digest |-> [num |-> dnum, prefix |-> dprefix, expiration |-> expiration],
   json   |-> [num |-> jnum, prefix |-> jprefix, expiration |-> expiration]]

Return(t) ==
  /\ window[t] # 0
  /\ window' = [window EXCEPT ![t] = 0]
  /\ UNCHANGED log

\* The four reference fields are read one by one, in this order.
MadeInOrder(from, tx) ==
  \E s, u \in Settings : \E r \in 0..u.off :
    \E i \in from..Len(log) : \E j \in i..Len(log) :
      \E k \in j..Len(log) : \E l \in k..Len(log) :
        tx = Tx(log[i].num, log[j].prefix, log[k].num, log[l].prefix, log[from].time + s.exp - r)

IssueInOrder(t) ==
  /\ Return(t)
  /\ txs' = Append(txs, txs'[Len(txs) + 1])
  /\ MadeInOrder(window[t], txs'[Len(txs) + 1])

\* All of the transaction comes from one header and one settings value.
IssueSnapshot(t) ==
  /\ Return(t)
  /\ \E s \in Settings : \E r \in Offsets(s) :
       LET header == log[window[t]] IN
         txs' = Append(txs, Tx(header.num, header.prefix, header.num, header.prefix,
                               header.time + s.exp - r))

Next == Install \/ \E t \in Threads : Begin(t) \/ IssueInOrder(t)
Spec == Init /\ [][Next]_vars

SnapshotNext ==
  \/ Install /\ \A t \in Threads : window[t] = 0
  \/ \E t \in Threads : Begin(t) \/ IssueSnapshot(t)
SnapshotSpec == Init /\ [][SnapshotNext]_vars
=============================================================================
