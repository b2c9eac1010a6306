--------------------------- MODULE TransactionLife ---------------------------
(***************************************************************************)
(* A transaction from the header it refers to, over its signature, to the  *)
(* node's checks: the chain of ChainReference goes on while the library    *)
(* signs (Signing) what it has built.                                      *)
(***************************************************************************)
EXTENDS ChainReference, Signing

lifeVars == <<vars, signingVars>>

LifeInit == Init /\ SigningInit

\* A caller asks for a signature of what it has built.
LifeNext ==
  \/ Next /\ UNCHANGED signingVars
  \/ tx # NoTransaction /\ SigningNext /\ UNCHANGED vars

LifeSpec == LifeInit /\ [][LifeNext]_lifeVars /\ WF_lifeVars(SignStep /\ UNCHANGED vars)
-----------------------------------------------------------------------------
\* The node recovers a key from the signature; it must be the user's.
Recovers(s) == s.header - 31 = curve[s.nonce].recid /\ s.key = key
Included(s) == Recovers(s) /\ curve[s.nonce].fate = "canonical" /\ Accepts(tx)

(* What is built on an irreversible header and given to a user to sign     *)
(* becomes a transaction that the node accepts, unless it expires before   *)
(* that or the key is none: no fork and no run of useless nonces is in the *)
(* way (setChainInfo, makeTransaction, sign_digest with SECP256K1_EXT).    *)
EndsAcceptedOrExpired ==
  tx.from = "irreversible" /\ extended /\ IsKey(key) /\ pc \in {"nonce", "check"}
    ~> Expired(tx) \/ \E s \in signatures : Included(s)
=============================================================================
