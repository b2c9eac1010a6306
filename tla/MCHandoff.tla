----------------------------- MODULE MCHandoff -----------------------------
(***************************************************************************)
(* A small instance of Handoff: alice's two signatures of one transaction   *)
(* sort before and after bob's.                                            *)
(***************************************************************************)
EXTENDS Handoff

AliceAndBob == {"alice", "bob"}
TwoTransactions == {"start", "result"}

AliceTwice == [x \in AliceAndBob \X TwoTransactions |->
  CASE x = <<"alice", "start">> -> {1, 3} [] x = <<"bob", "start">> -> {2}
    [] x = <<"alice", "result">> -> {} [] x = <<"bob", "result">> -> {4}]

Bob == {"bob"}
=============================================================================
