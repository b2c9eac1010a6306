------------------------------ MODULE Handoff ------------------------------
(***************************************************************************)
(* A transaction is handed from party to party, each with a builder of its *)
(* own, and gathers their signatures (makeBroadcastTransaction). Between   *)
(* them it is a string, in the library's form ([api, method, params]) or   *)
(* in the one of old wallets (the transaction alone). The calls are the    *)
(* library's; who makes them when, and the way between the parties, which  *)
(* may lose, delay, reorder and repeat strings, is the caller's.           *)
(***************************************************************************)
EXTENDS Naturals, Sequences, SequencesExt, FiniteSetsExt

CONSTANTS
  Parties,
  Transactions,    \* bodies: a transaction without its signatures
  Signatures,      \* [Parties \X Transactions -> sets of the texts signDigest may return]
  WalletBuilders,  \* the parties whose settings have all_legacy_from_wallet_api
  MaxInFlight      \* bound: strings on their way at a time

ASSUME HandoffAssumption ==
  /\ "" \notin Transactions /\ "[]" \notin Transactions
  /\ \A p \in Parties, t \in Transactions : Signatures[p, t] \subseteq Nat
  /\ WalletBuilders \subseteq Parties

VARIABLES
  held,     \* per party, the request it holds
  channel   \* the strings on their way

vars == <<held, channel>>
-----------------------------------------------------------------------------
(* Requests. The body is the transaction in params, or params without one: *)
(* "" if empty, "[]" for an empty array. The signatures are the array of   *)
(* that name; the library reads an absent one as an empty one, and that it *)
(* writes an empty one for an empty set is left out.                       *)

WALLET == ""
Request(api, method, body, signatures) ==
  [api |-> api, method |-> method, body |-> body, signatures |-> signatures]

Empty == Request("", "", "", <<>>)
valid(r) == r.method # ""

\* A std::set of strings, written to an array in their order.
Sorted(s) == CHOOSE q \in [1..Cardinality(s) -> s] : \A i, j \in DOMAIN q : i < j => q[i] < q[j]

AppendSigned(r, more, api) ==  \* mutant: a vector in place of the set
  IF r.body \in Transactions
    THEN Request(api, "broadcast_transaction", r.body, r.signatures \o Sorted(more))
    ELSE Empty
OnlyGiven(r, more, api) ==  \* mutant: the signatures the request has are dropped
  IF r.body \in Transactions
    THEN Request(api, "broadcast_transaction", r.body, Sorted(more))
    ELSE Empty
\* makeBroadcastTransaction, for what its settings make of the api.
Signed(r, more, api) ==
  IF r.body \in Transactions
    THEN Request(api, "broadcast_transaction", r.body, Sorted(ToSet(r.signatures) \cup more))
    ELSE Empty

ApiOf(p) == IF p \in WalletBuilders THEN WALLET ELSE "network_broadcast"
-----------------------------------------------------------------------------
(* Strings. The head of a request is its api, 0 for the wallet's.          *)

Text(form, head, method, body, signatures) ==
  [form |-> form, head |-> head, method |-> method, body |-> body, signatures |-> signatures]
NoText == Text("", "", "", "", <<>>)

\* Throws if the request is not valid.
to_string(r) ==
  Text("request", IF r.api = WALLET THEN "0" ELSE r.api, r.method,
       IF r.body = "" THEN "[]" ELSE r.body, r.signatures)

\* The head must be a string.
from_string(s) ==
  IF s.form = "request" /\ s.head # "0" THEN Request(s.head, s.method, s.body, s.signatures) ELSE Empty

to_legacy_transaction_string(r) ==
  IF /\ valid(r)
     /\ r.api \in {WALLET, "network_broadcast"}
     /\ r.method = "broadcast_transaction"
     /\ r.body \in Transactions
    THEN Text("transaction", "", "", r.body, r.signatures)
    ELSE NoText

from_legacy_transaction_string(s) ==
  IF s.form = "transaction"
    THEN Request(WALLET, "broadcast_transaction", s.body, s.signatures)
    ELSE Empty

SignatureText(t, s) == Text("signature", "", "", t, <<s>>)
-----------------------------------------------------------------------------
Init ==
  /\ held = [p \in Parties |-> Empty]
  /\ channel = {}

Hold(p, r) == held' = [held EXCEPT ![p] = r] /\ UNCHANGED channel

\* A transaction as makeTransaction returns it, or the request that has no params.
MakeTransaction(p, t) == Hold(p, Request("network_broadcast", "broadcast_transaction", t, <<>>))
MakeCancelAll(p) == Hold(p, Request("playchain", "cancel_all_tables_subscribe_callback", "", <<>>))

\* A party signs what it holds and adds its signature.
Sign(p) ==
  /\ held[p].body \in Transactions
  /\ \E s \in Signatures[p, held[p].body] : Hold(p, Signed(held[p], {s}, ApiOf(p)))

\* Signatures that came by themselves are added in one call.
AddSignatures(p) ==
  \E some \in SUBSET {s \in channel : s.form = "signature" /\ s.body = held[p].body} :
    some # {} /\ Hold(p, Signed(held[p], UNION {ToSet(s.signatures) : s \in some}, ApiOf(p)))

\* Anything else that is given to be signed comes back empty.
SignOther(p) == held[p].body \notin Transactions /\ Hold(p, Signed(held[p], {0}, ApiOf(p)))

Send(s) ==
  /\ Cardinality(channel \cup {s}) <= MaxInFlight
  /\ channel' = channel \cup {s}
  /\ UNCHANGED held

SendRequest(p) == valid(held[p]) /\ Send(to_string(held[p]))
SendLegacy(p) == Send(to_legacy_transaction_string(held[p]))
SendSignature(p) ==
  /\ held[p].body \in Transactions
  /\ \E s \in Signatures[p, held[p].body] : Send(SignatureText(held[p].body, s))

\* The string stays on its way and may come again; the wrong function may be called.
Receive(p, s) == Hold(p, from_string(s)) \/ Hold(p, from_legacy_transaction_string(s))

Lose(s) == channel' = channel \ {s} /\ UNCHANGED held

Next ==
  \/ \E p \in Parties :
       \/ \E t \in Transactions : MakeTransaction(p, t)
       \/ MakeCancelAll(p)
       \/ Sign(p) \/ AddSignatures(p) \/ SignOther(p)
       \/ SendRequest(p) \/ SendLegacy(p) \/ SendSignature(p)
       \/ \E s \in channel : Receive(p, s)
  \/ \E s \in channel : Lose(s)

Spec == Init /\ [][Next]_vars
-----------------------------------------------------------------------------
(* What must hold. *)

AsCopy(x) ==
  IF x.body \in Transactions THEN [of |-> x.body, by |-> ToSet(x.signatures)] ELSE [of |-> "", by |-> {}]

Abstract == INSTANCE Approvals WITH
  copies <- [p \in Parties |-> AsCopy(held[p])],
  posted <- {AsCopy(s) : s \in channel}

(* Whatever forms a transaction travels in and whoever signs copies of it  *)
(* meanwhile, a copy keeps the signatures it had, gains only ones made     *)
(* over its transaction, and is lost as a whole or not at all              *)
(* (makeBroadcastTransaction, from_string, to_string and the legacy ones). *)
KeepsApprovals == Abstract!Spec

(* Copies with the same signatures are the same text, in whatever order    *)
(* and however often they were added: the array is written from a set      *)
(* (makeBroadcastTransaction).                                             *)
OneTextPerApproval ==
  LET all == {held[p] : p \in Parties} \cup channel IN
    \A x, y \in all :
      x.body = y.body /\ ToSet(x.signatures) = ToSet(y.signatures) => x.signatures = y.signatures
=============================================================================
