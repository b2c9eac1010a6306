---------------------- MODULE RequestBuilderRefinement ----------------------
(***************************************************************************)
(* RequestBuilder implements TxIssue: a thread's window opens when it      *)
(* reads the chain time and closes when it returns the transaction.        *)
(***************************************************************************)
EXTENDS RequestBuilder

Issue == INSTANCE TxIssue WITH
  window <- [t \in Threads |-> when[t].time]

(* Every transaction is made of headers that were current while it was     *)
(* built, in the order of the reads, whatever the threads interleave.      *)
IssuesInOrder == Issue!Spec

(* When callers run no update during a build, a transaction comes from one *)
(* header and one settings value: makeTransaction is atomic to them.       *)
IssuesSnapshots == Issue!SnapshotSpec
=============================================================================
