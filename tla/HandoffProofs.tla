---------------------------- MODULE HandoffProofs ----------------------------
(***************************************************************************)
(* Handing a transaction round loses and invents no signature, for any     *)
(* number of parties, transactions and signatures, and any way between the *)
(* parties: Handoff implements Approvals. What this rests on is that the   *)
(* array that is written from a set has the set's elements.                *)
(***************************************************************************)
EXTENDS Handoff, InductionLemmas, FunctionTheorems

Ascends(q) == \A i, j \in DOMAIN q : i < j => q[i] < q[j]

\* An array as the library writes it.
Written(signatures) ==
  /\ signatures = Sorted(ToSet(signatures))
  /\ ToSet(signatures) \in SUBSET Nat /\ IsFiniteSet(ToSet(signatures))

Bodies == Transactions \cup {"", "[]"}

RequestOK(r) ==
  /\ r = Request(r.api, r.method, r.body, r.signatures)
  /\ r.body \in Bodies /\ Written(r.signatures)
  /\ r.body \in Transactions => r.api \in {WALLET, "network_broadcast"} /\ r.method = "broadcast_transaction"

TextOK(s) ==
  /\ s = Text(s.form, s.head, s.method, s.body, s.signatures)
  /\ s.body \in Bodies /\ Written(s.signatures)
  /\ s.form = "request" /\ s.body \in Transactions =>
       s.head \in {"0", "network_broadcast"} /\ s.method = "broadcast_transaction"
  /\ s.form \in {"transaction", "signature"} => s.body \in Transactions

IInv ==
  /\ held = [p \in Parties |-> held[p]]
  /\ \A p \in Parties : RequestOK(held[p])
  /\ IsFiniteSet(channel)
  /\ \A s \in channel : TextOK(s)
-----------------------------------------------------------------------------
(* Sorted: the elements of a set, each once, in their order.               *)

LEMMA SomeSortIt ==
  ASSUME NEW S \in SUBSET Nat, IsFiniteSet(S)
  PROVE  \E q \in [1..Cardinality(S) -> S] : Ascends(q)
  <1> DEFINE P == {T \in SUBSET S : \E q \in [1..Cardinality(T) -> T] : Ascends(q)}
  <1>1. {} \in P
    <2>1. Cardinality({}) = 0 /\ <<>> \in [1..0 -> {}] /\ Ascends(<<>>)
      BY FS_EmptySet DEF Ascends
    <2>2. QED
      BY <2>1
  <1>2. ASSUME NEW T \in SUBSET S, T # {}, \A x \in T : T \ {x} \in P PROVE T \in P
    <2>1. PICK x \in T : \A k \in T : x <= k
      BY <1>2, LeastNumber
    <2>2. PICK n \in Nat : n = Cardinality(T) /\ n > 0 /\ Cardinality(T \ {x}) = n - 1
      <3>1. IsFiniteSet(T) /\ Cardinality(T) \in Nat
        BY FS_Subset, FS_CardinalityType
      <3>2. Cardinality(T) # 0 /\ Cardinality(T \ {x}) = Cardinality(T) - 1
        BY <1>2, <3>1, FS_EmptySet, FS_RemoveElement
      <3>3. QED
        BY <3>1, <3>2
    <2>3. PICK q \in [1..n - 1 -> T \ {x}] : Ascends(q)
      BY <1>2, <2>2
    <2> DEFINE r == [i \in 1..n |-> IF i = 1 THEN x ELSE q[i - 1]]
    <2>4. \A i \in 1..n : i # 1 => i - 1 \in 1..n - 1 /\ q[i - 1] \in T /\ x < q[i - 1]
      <3>1. \A i \in 1..n : i # 1 => i - 1 \in 1..n - 1
        BY <2>2
      <3>2. \A k \in T \ {x} : x < k
        BY <2>1
      <3>3. QED
        BY <2>3, <3>1, <3>2
    <2>5. r \in [1..n -> T]
      BY <2>4
    <2>6. Ascends(r)
      BY <2>3, <2>4 DEF Ascends
    <2> HIDE DEF r
    <2>7. \E some \in [1..Cardinality(T) -> T] : Ascends(some)
      BY <2>2, <2>5, <2>6
    <2>8. QED
      BY <2>7
  <1>3. S \in P
    <2> HIDE DEF P
    <2>1. P \in SUBSET SUBSET S
      BY DEF P
    <2>2. QED
      BY <1>1, <1>2, <2>1, InductionOnSubsets
  <1>4. QED
    BY <1>3

LEMMA SortedHasAll ==
  ASSUME NEW S \in SUBSET Nat, IsFiniteSet(S)
  PROVE  Sorted(S) \in [1..Cardinality(S) -> S] /\ ToSet(Sorted(S)) = S
  <1>1. PICK q : q = Sorted(S) /\ q \in [1..Cardinality(S) -> S] /\ Ascends(q)
    BY SomeSortIt DEF Sorted, Ascends
  <1>2. PICK n \in Nat : n = Cardinality(S)
    BY FS_CardinalityType
  <1>3. q \in Injection(1..n, S)
    <2>1. \A i, j \in 1..n : q[i] = q[j] => i = j
      <3>1. \A i, j \in 1..n : i < j => q[i] < q[j]
        BY <1>1, <1>2 DEF Ascends
      <3>2. \A i \in 1..n : q[i] \in Nat
        BY <1>1, <1>2
      <3>3. QED
        BY <3>1, <3>2
    <2>2. QED
      BY <1>1, <1>2, <2>1, Fun_IsInj
  <1>4. q \in Surjection(1..n, S)
    BY <1>2, <1>3, FS_Injection, FS_Interval
  <1>5. \A x \in S : \E i \in 1..n : q[i] = x
    BY <1>4, Fun_SurjectionProperties
  <1>6. QED
    BY <1>1, <1>2, <1>5 DEF ToSet

LEMMA SortedIsWritten ==
  ASSUME NEW S \in SUBSET Nat, IsFiniteSet(S)
  PROVE  Written(Sorted(S)) /\ ToSet(Sorted(S)) = S
  BY SortedHasAll DEF Written

LEMMA EmptyIsWritten == Written(<<>>) /\ ToSet(<<>>) = {}
  <1>1. Sorted({}) = <<>>
    <2>1. Sorted({}) \in [1..0 -> {}]
      BY FS_EmptySet, SortedHasAll
    <2>2. QED
      BY <2>1
  <1>2. QED
    BY <1>1, FS_EmptySet, SortedIsWritten

LEMMA SingletonIsWritten ==
  ASSUME NEW x \in Nat
  PROVE  Written(<<x>>) /\ ToSet(<<x>>) = {x}
  <1>1. IsFiniteSet({x}) /\ Cardinality({x}) = 1
    BY FS_Singleton
  <1>2. Sorted({x}) \in [1..1 -> {x}]
    BY <1>1, SortedHasAll
  <1>3. Sorted({x}) = <<x>>
    BY <1>2
  <1>4. QED
    BY <1>1, <1>3, SortedIsWritten
-----------------------------------------------------------------------------
(* What the library writes and reads.                                      *)

LEMMA EmptyOK == RequestOK(Empty) /\ AsCopy(Empty) = Abstract!Nothing
  BY EmptyIsWritten, HandoffAssumption DEF RequestOK, Empty, Request, Bodies, AsCopy, Abstract!Nothing

\* makeBroadcastTransaction adds to the signatures of a transaction, or empties what is none.
LEMMA SignedOK ==
  ASSUME NEW p \in Parties, NEW r, RequestOK(r), NEW more \in SUBSET Nat, IsFiniteSet(more)
  PROVE  /\ RequestOK(Signed(r, more, ApiOf(p)))
         /\ AsCopy(Signed(r, more, ApiOf(p))) =
              IF r.body \in Transactions
                THEN [of |-> r.body, by |-> ToSet(r.signatures) \cup more] ELSE Abstract!Nothing
  <1>1. CASE r.body \notin Transactions
    BY <1>1, EmptyOK DEF Signed
  <1>2. CASE r.body \in Transactions
    <2>1. PICK all : all = ToSet(r.signatures) \cup more /\ all \in SUBSET Nat /\ IsFiniteSet(all)
      BY FS_Union DEF RequestOK, Written
    <2>2. Written(Sorted(all)) /\ ToSet(Sorted(all)) = all
      BY <2>1, SortedIsWritten
    <2>3. PICK new : new = Signed(r, more, ApiOf(p)) /\ new = Request(ApiOf(p), "broadcast_transaction", r.body, Sorted(all))
      BY <1>2, <2>1 DEF Signed
    <2>4. new.api = ApiOf(p) /\ new.method = "broadcast_transaction" /\ new.body = r.body /\ new.signatures = Sorted(all)
      BY <2>3 DEF Request
    <2>5. ApiOf(p) \in {WALLET, "network_broadcast"}
      BY DEF ApiOf
    <2>6. RequestOK(new)
      BY <1>2, <2>2, <2>3, <2>4, <2>5 DEF RequestOK, Bodies
    <2>7. AsCopy(new) = [of |-> r.body, by |-> all]
      BY <1>2, <2>2, <2>4 DEF AsCopy
    <2>8. QED
      BY <1>2, <2>1, <2>3, <2>6, <2>7
  <1>3. QED
    BY <1>1, <1>2

LEMMA ToStringOK ==
  ASSUME NEW r, RequestOK(r)
  PROVE  TextOK(to_string(r)) /\ AsCopy(to_string(r)) = AsCopy(r)
  <1>1. PICK s : s = to_string(r)
    OBVIOUS
  <1>2. s = Text("request", IF r.api = WALLET THEN "0" ELSE r.api, r.method,
                 IF r.body = "" THEN "[]" ELSE r.body, r.signatures)
    BY <1>1 DEF to_string
  <1>3. /\ s.form = "request" /\ s.head = (IF r.api = WALLET THEN "0" ELSE r.api) /\ s.method = r.method
        /\ s.body = (IF r.body = "" THEN "[]" ELSE r.body) /\ s.signatures = r.signatures
    BY <1>2 DEF Text
  <1>4. s.body \in Bodies /\ (s.body \in Transactions <=> r.body \in Transactions)
        /\ (s.body \in Transactions => s.body = r.body)
    BY <1>3, HandoffAssumption DEF RequestOK, Bodies
  <1>5. s = Text(s.form, s.head, s.method, s.body, s.signatures)
    BY <1>2, <1>3
  <1>6. TextOK(s)
    BY <1>3, <1>4, <1>5 DEF RequestOK, TextOK
  <1>7. AsCopy(s) = AsCopy(r)
    BY <1>3, <1>4 DEF AsCopy
  <1>8. QED
    BY <1>1, <1>6, <1>7

LEMMA ToLegacyOK ==
  ASSUME NEW r, RequestOK(r)
  PROVE  TextOK(to_legacy_transaction_string(r)) /\ AsCopy(to_legacy_transaction_string(r)) = AsCopy(r)
  <1>1. PICK s : s = to_legacy_transaction_string(r)
    OBVIOUS
  <1>2. CASE r.body \in Transactions
    <2>1. s = Text("transaction", "", "", r.body, r.signatures)
      BY <1>1, <1>2 DEF to_legacy_transaction_string, RequestOK, valid
    <2>2. s.form = "transaction" /\ s.head = "" /\ s.method = "" /\ s.body = r.body /\ s.signatures = r.signatures
      BY <2>1 DEF Text
    <2>3. QED
      BY <1>1, <1>2, <2>1, <2>2 DEF RequestOK, TextOK, AsCopy
  <1>3. CASE r.body \notin Transactions
    <2>1. s = Text("", "", "", "", <<>>)
      BY <1>1, <1>3 DEF to_legacy_transaction_string, NoText
    <2>2. s.form = "" /\ s.head = "" /\ s.method = "" /\ s.body = "" /\ s.signatures = <<>>
      BY <2>1 DEF Text
    <2>3. TextOK(s)
      BY <2>1, <2>2, EmptyIsWritten DEF TextOK, Bodies
    <2>4. AsCopy(s) = AsCopy(r)
      BY <1>3, <2>2, HandoffAssumption DEF AsCopy
    <2>5. QED
      BY <1>1, <2>3, <2>4
  <1>4. QED
    BY <1>2, <1>3

LEMMA SignatureTextOK ==
  ASSUME NEW t \in Transactions, NEW x \in Nat
  PROVE  TextOK(SignatureText(t, x)) /\ AsCopy(SignatureText(t, x)) = [of |-> t, by |-> {x}]
  <1>1. PICK s : s = SignatureText(t, x)
    OBVIOUS
  <1>2. s = Text("signature", "", "", t, <<x>>)
    BY <1>1 DEF SignatureText
  <1>3. s.form = "signature" /\ s.head = "" /\ s.method = "" /\ s.body = t /\ s.signatures = <<x>>
    BY <1>2 DEF Text
  <1>4. TextOK(s)
    BY <1>2, <1>3, SingletonIsWritten DEF TextOK, Bodies
  <1>5. AsCopy(s) = [of |-> t, by |-> {x}]
    BY <1>3, SingletonIsWritten DEF AsCopy
  <1>6. QED
    BY <1>1, <1>4, <1>5

\* What is read is the copy that was written, or nothing.
LEMMA ReadOK ==
  ASSUME NEW s, TextOK(s), NEW r, r = from_string(s) \/ r = from_legacy_transaction_string(s)
  PROVE  RequestOK(r) /\ AsCopy(r) \in {AsCopy(s), Abstract!Nothing}
  <1>1. CASE r = Empty
    BY <1>1, EmptyOK
  <1>2. CASE s.form = "request" /\ s.head # "0" /\ r = Request(s.head, s.method, s.body, s.signatures)
    <2>1. r.api = s.head /\ r.method = s.method /\ r.body = s.body /\ r.signatures = s.signatures
      BY <1>2 DEF Request
    <2>2. QED
      BY <1>2, <2>1 DEF TextOK, RequestOK, AsCopy
  <1>3. CASE s.form = "transaction" /\ r = Request(WALLET, "broadcast_transaction", s.body, s.signatures)
    <2>1. r.api = WALLET /\ r.method = "broadcast_transaction" /\ r.body = s.body /\ r.signatures = s.signatures
      BY <1>3 DEF Request
    <2>2. QED
      BY <1>3, <2>1 DEF TextOK, RequestOK, AsCopy
  <1>4. QED
    BY <1>1, <1>2, <1>3 DEF from_string, from_legacy_transaction_string
-----------------------------------------------------------------------------
(* Each step keeps the invariant and maps to a step of Approvals.          *)

Copies == [p \in Parties |-> AsCopy(held[p])]
Posted == {AsCopy(s) : s \in channel}

LEMMA SignaturesAreTexts ==
  ASSUME NEW p \in Parties, NEW t \in Transactions, NEW x \in Signatures[p, t]
  PROVE  x \in Nat
  BY HandoffAssumption, Zenon DEF HandoffAssumption

LEMMA HoldMaps ==
  ASSUME IInv, NEW p \in Parties, NEW r, RequestOK(r), Hold(p, r)
  PROVE  IInv' /\ Copies' = [Copies EXCEPT ![p] = AsCopy(r)] /\ Posted' = Posted
  <1>1. held' = [held EXCEPT ![p] = r] /\ channel' = channel
    BY DEF Hold
  <1>2. held = [q \in Parties |-> held[q]] /\ \A q \in Parties : RequestOK(held[q])
    BY DEF IInv
  <1>3. held' = [q \in Parties |-> IF q = p THEN r ELSE held[q]]
    BY <1>1, <1>2
  <1>4. held' = [q \in Parties |-> held'[q]] /\ \A q \in Parties : RequestOK(held'[q])
    BY <1>2, <1>3
  <1>5. IInv'
    BY <1>1, <1>4 DEF IInv
  <1>6. Copies' = [q \in Parties |-> IF q = p THEN AsCopy(r) ELSE AsCopy(held[q])]
    BY <1>3 DEF Copies
  <1>7. QED
    BY <1>1, <1>5, <1>6 DEF Copies, Posted

LEMMA SendMaps ==
  ASSUME IInv, NEW s, TextOK(s), Send(s)
  PROVE  IInv' /\ Copies' = Copies /\ Posted' = Posted \cup {AsCopy(s)}
  <1>1. held' = held /\ channel' = channel \cup {s}
    BY DEF Send
  <1>2. IsFiniteSet(channel')
    BY <1>1, FS_AddElement DEF IInv
  <1>3. IInv'
    BY <1>1, <1>2 DEF IInv
  <1>4. QED
    BY <1>1, <1>3 DEF Copies, Posted

LEMMA LoseMaps ==
  ASSUME IInv, NEW s \in channel, Lose(s)
  PROVE  IInv' /\ Copies' = Copies /\ Posted' \in {Posted, Posted \ {AsCopy(s)}}
  <1>1. held' = held /\ channel' = channel \ {s}
    BY DEF Lose
  <1>2. IsFiniteSet(channel')
    BY <1>1, FS_RemoveElement DEF IInv
  <1>3. IInv'
    BY <1>1, <1>2 DEF IInv
  <1>4. QED
    BY <1>1, <1>3 DEF Copies, Posted

LEMMA CopyOf ==
  ASSUME IInv, NEW p \in Parties
  PROVE  /\ RequestOK(held[p]) /\ Copies[p] = AsCopy(held[p])
         /\ held[p].body \in Transactions => Copies[p] = [of |-> held[p].body, by |-> ToSet(held[p].signatures)]
         /\ held[p].body \notin Transactions => Copies[p] = Abstract!Nothing
  BY DEF IInv, Copies, AsCopy, Abstract!Nothing

LEMMA NothingHeld ==
  ASSUME NEW p \in Parties, Copies' = [Copies EXCEPT ![p] = Abstract!Nothing], Posted' = Posted
  PROVE  Abstract!Next
  <1>1. Abstract!Forget(p)
    BY DEF Abstract!Forget, Copies, Posted
  <1>2. QED
    BY <1>1 DEF Abstract!Next

LEMMA MadeTransaction ==
  ASSUME IInv, NEW p \in Parties, NEW t \in Transactions, MakeTransaction(p, t)
  PROVE  IInv' /\ Abstract!Next
  <1>1. PICK r : r = Request("network_broadcast", "broadcast_transaction", t, <<>>)
    OBVIOUS
  <1>2. r.api = "network_broadcast" /\ r.method = "broadcast_transaction" /\ r.body = t /\ r.signatures = <<>>
    BY <1>1 DEF Request
  <1>3. RequestOK(r)
    BY <1>1, <1>2, EmptyIsWritten DEF RequestOK, Bodies
  <1>4. AsCopy(r) = Abstract!Copy(t, {})
    BY <1>2, EmptyIsWritten DEF AsCopy, Abstract!Copy
  <1>5. Hold(p, r)
    BY <1>1 DEF MakeTransaction
  <1>6. IInv' /\ Abstract!Propose(p, t)
    BY <1>3, <1>4, <1>5, HoldMaps DEF Abstract!Propose, Copies, Posted
  <1>7. QED
    BY <1>6 DEF Abstract!Next

LEMMA MadeCancelAll ==
  ASSUME IInv, NEW p \in Parties, MakeCancelAll(p)
  PROVE  IInv' /\ Abstract!Next
  <1>1. PICK r : r = Request("playchain", "cancel_all_tables_subscribe_callback", "", <<>>)
    OBVIOUS
  <1>2. r.body = "" /\ r.signatures = <<>> /\ r = Request(r.api, r.method, r.body, r.signatures)
    BY <1>1 DEF Request
  <1>3. RequestOK(r) /\ AsCopy(r) = Abstract!Nothing
    BY <1>2, EmptyIsWritten, HandoffAssumption DEF RequestOK, Bodies, AsCopy, Abstract!Nothing
  <1>4. Hold(p, r)
    BY <1>1 DEF MakeCancelAll
  <1>5. QED
    BY <1>3, <1>4, HoldMaps, NothingHeld

(* A party with a copy adds what it is given to the copy's signatures.     *)
LEMMA AddsTo ==
  ASSUME IInv, NEW p \in Parties, NEW t \in Transactions, t = held[p].body,
         NEW more \in SUBSET Nat, IsFiniteSet(more), Hold(p, Signed(held[p], more, ApiOf(p)))
  PROVE  /\ IInv' /\ Posted' = Posted
         /\ Copies[p].of = t /\ Copies' = [Copies EXCEPT ![p].by = @ \cup more]
  <1>1. PICK by : by = ToSet(held[p].signatures) /\ Copies[p] = [of |-> t, by |-> by]
    BY CopyOf
  <1>2. PICK r : r = Signed(held[p], more, ApiOf(p)) /\ RequestOK(r) /\ AsCopy(r) = [of |-> t, by |-> by \cup more]
    BY <1>1, CopyOf, SignedOK
  <1>3. IInv' /\ Copies' = [Copies EXCEPT ![p] = [of |-> t, by |-> by \cup more]] /\ Posted' = Posted
    BY <1>2, HoldMaps
  <1>4. PICK c : c = [of |-> t, by |-> by]
    OBVIOUS
  <1>5. [c EXCEPT !.by = c.by \cup more] = [of |-> t, by |-> by \cup more]
    BY <1>4
  <1>6. c.of = t /\ Copies[p] = c
    BY <1>1, <1>4
  <1>7. Copies[p].of = t
    BY <1>6, Zenon
  <1>8. QED
    BY <1>3, <1>5, <1>6, <1>7

LEMMA Signs ==
  ASSUME IInv, NEW p \in Parties, Sign(p)
  PROVE  IInv' /\ Abstract!Next
  <1>1. PICK t \in Transactions : t = held[p].body
    BY DEF Sign
  <1>2. \E x \in Signatures[p, t] : Hold(p, Signed(held[p], {x}, ApiOf(p)))
    BY <1>1, Zenon DEF Sign
  <1>3. \A x \in Nat : {x} \in SUBSET Nat /\ IsFiniteSet({x})
    BY FS_Singleton
  <1>4. ASSUME NEW x \in Nat, Hold(p, Signed(held[p], {x}, ApiOf(p)))
        PROVE  /\ IInv' /\ Posted' = Posted
               /\ Copies[p].of = t /\ Copies' = [Copies EXCEPT ![p].by = @ \cup {x}]
    BY <1>1, <1>3, <1>4, AddsTo, Zenon
  <1>5. PICK x \in Signatures[p, t] :
          /\ IInv' /\ Posted' = Posted
          /\ Copies[p].of = t /\ Copies' = [Copies EXCEPT ![p].by = @ \cup {x}]
    BY <1>2, <1>4, SignaturesAreTexts, Zenon
  <1>6. Abstract!Approve(p)
    BY <1>5, Zenon DEF Abstract!Approve, Copies, Posted
  <1>7. QED
    BY <1>5, <1>6 DEF Abstract!Next

LEMMA AddsSignatures ==
  ASSUME IInv, NEW p \in Parties, AddSignatures(p)
  PROVE  IInv' /\ Abstract!Next
  <1>1. PICK some \in SUBSET {s \in channel : s.form = "signature" /\ s.body = held[p].body} :
          some # {} /\ Hold(p, Signed(held[p], UNION {ToSet(s.signatures) : s \in some}, ApiOf(p)))
    BY DEF AddSignatures
  <1>2. PICK t \in Transactions : t = held[p].body
    BY <1>1 DEF IInv, TextOK
  <1>3. PICK more : more = UNION {ToSet(s.signatures) : s \in some}
    OBVIOUS
  <1>4. \A s \in some : /\ ToSet(s.signatures) \in SUBSET Nat /\ IsFiniteSet(ToSet(s.signatures))
                        /\ AsCopy(s) \in Posted /\ AsCopy(s) = [of |-> t, by |-> ToSet(s.signatures)]
    BY <1>1, <1>2 DEF IInv, TextOK, Written, AsCopy, Posted
  <1>5. more \in SUBSET Nat /\ IsFiniteSet(more)
    <2> DEFINE sets == {ToSet(s.signatures) : s \in some}
    <2>1. IsFiniteSet(some)
      BY <1>1, FS_Subset DEF IInv
    <2>2. IsFiniteSet(sets)
      <3> DEFINE image == [s \in some |-> ToSet(s.signatures)]
      <3>1. image \in [some -> sets] /\ \A S \in sets : \E s \in some : image[s] = S
        OBVIOUS
      <3> HIDE DEF image, sets
      <3>2. image \in Surjection(some, sets)
        BY <3>1, Fun_IsSurj
      <3>3. QED
        BY <2>1, <3>2, FS_Surjection
    <2>3. \A S \in sets : IsFiniteSet(S) /\ S \in SUBSET Nat
      BY <1>4
    <2> HIDE DEF sets
    <2>4. IsFiniteSet(UNION sets) /\ UNION sets \in SUBSET Nat
      BY <2>2, <2>3, FS_UNION
    <2>5. QED
      BY <1>3, <2>4 DEF sets
  <1>6. /\ IInv' /\ Posted' = Posted
        /\ Copies[p].of = t /\ Copies' = [Copies EXCEPT ![p].by = @ \cup more]
    BY <1>1, <1>2, <1>3, <1>5, AddsTo, Zenon
  <1>7. PICK fetched : fetched = {AsCopy(s) : s \in some}
    OBVIOUS
  <1>8. \A s \in some : AsCopy(s).of = t /\ AsCopy(s).by = ToSet(s.signatures)
    BY <1>4
  <1>9. fetched \in SUBSET {c \in Posted : c.of = Copies[p].of}
    <2>1. Copies[p].of = t
      BY <1>6
    <2>2. QED
      BY <1>4, <1>7, <1>8, <2>1
  <1>10. UNION {c.by : c \in fetched} = more
    <2>1. {c.by : c \in fetched} = {ToSet(s.signatures) : s \in some}
      BY <1>7, <1>8
    <2>2. QED
      BY <1>3, <2>1
  <1>11. Abstract!Collect(p)
    BY <1>6, <1>9, <1>10, Zenon DEF Abstract!Collect, Copies, Posted
  <1>12. QED
    BY <1>6, <1>11 DEF Abstract!Next

LEMMA SignsOther ==
  ASSUME IInv, NEW p \in Parties, SignOther(p)
  PROVE  IInv' /\ Abstract!Next
  <1>1. held[p].body \notin Transactions /\ Hold(p, Signed(held[p], {0}, ApiOf(p)))
    BY DEF SignOther
  <1>2. PICK more : more = {0} /\ more \in SUBSET Nat /\ IsFiniteSet(more)
    <2>1. IsFiniteSet({0})
      BY FS_Singleton, Zenon
    <2>2. QED
      BY <2>1
  <1>3. PICK r : r = Signed(held[p], more, ApiOf(p)) /\ RequestOK(r) /\ AsCopy(r) = Abstract!Nothing
    BY <1>1, <1>2, CopyOf, SignedOK
  <1>4. QED
    BY <1>1, <1>2, <1>3, HoldMaps, NothingHeld

LEMMA Receives ==
  ASSUME IInv, NEW p \in Parties, NEW s \in channel, Receive(p, s)
  PROVE  IInv' /\ Abstract!Next
  <1>1. PICK r : (r = from_string(s) \/ r = from_legacy_transaction_string(s)) /\ Hold(p, r)
    BY DEF Receive
  <1>2. RequestOK(r) /\ AsCopy(r) \in {AsCopy(s), Abstract!Nothing}
    BY <1>1, ReadOK DEF IInv
  <1>3. IInv' /\ Copies' = [Copies EXCEPT ![p] = AsCopy(r)] /\ Posted' = Posted
    BY <1>1, <1>2, HoldMaps
  <1>4. CASE AsCopy(r) = AsCopy(s)
    <2>1. AsCopy(s) \in Posted
      BY DEF Posted
    <2>2. Abstract!Fetch(p)
      BY <1>3, <1>4, <2>1, Zenon DEF Abstract!Fetch, Copies, Posted
    <2>3. QED
      BY <1>3, <2>2 DEF Abstract!Next
  <1>5. CASE AsCopy(r) = Abstract!Nothing
    BY <1>3, <1>5, NothingHeld
  <1>6. QED
    BY <1>2, <1>4, <1>5

LEMMA Sends ==
  ASSUME IInv, NEW p \in Parties, SendRequest(p) \/ SendLegacy(p) \/ SendSignature(p)
  PROVE  IInv' /\ Abstract!Next
  <1>1. CASE SendRequest(p) \/ SendLegacy(p)
    <2>1. PICK s : (s = to_string(held[p]) \/ s = to_legacy_transaction_string(held[p])) /\ Send(s)
      BY <1>1 DEF SendRequest, SendLegacy
    <2>2. TextOK(s) /\ AsCopy(s) = Copies[p]
      BY <2>1, CopyOf, ToStringOK, ToLegacyOK
    <2>3. IInv' /\ Copies' = Copies /\ Posted' = Posted \cup {Copies[p]}
      BY <2>1, <2>2, SendMaps
    <2>4. Abstract!Post(p)
      BY <2>3 DEF Abstract!Post, Copies, Posted
    <2>5. QED
      BY <2>3, <2>4 DEF Abstract!Next
  <1>2. CASE SendSignature(p)
    <2>1. PICK t \in Transactions : t = held[p].body
      BY <1>2 DEF SendSignature
    <2>2. PICK x \in Signatures[p, t] : Send(SignatureText(t, x))
      BY <1>2, <2>1, Zenon DEF SendSignature
    <2>3. TextOK(SignatureText(t, x)) /\ AsCopy(SignatureText(t, x)) = Abstract!Copy(t, {x})
      BY SignaturesAreTexts, SignatureTextOK DEF Abstract!Copy
    <2>4. IInv' /\ Copies' = Copies /\ Posted' = Posted \cup {Abstract!Copy(t, {x})}
      BY <2>2, <2>3, SendMaps
    <2>5. Copies[p].of = t
      <3>1. PICK c : c = [of |-> t, by |-> ToSet(held[p].signatures)]
        OBVIOUS
      <3>2. c.of = t /\ Copies[p] = c
        BY <2>1, <3>1, CopyOf
      <3>3. QED
        BY <3>2, Zenon
    <2>6. Abstract!Post(p)
      BY <2>4, <2>5, Zenon DEF Abstract!Post, Copies, Posted
    <2>7. QED
      BY <2>4, <2>6 DEF Abstract!Next
  <1>3. QED
    BY <1>1, <1>2

LEMMA Loses ==
  ASSUME IInv, NEW s \in channel, Lose(s)
  PROVE  IInv' /\ (Abstract!Next \/ UNCHANGED Abstract!vars)
  <1>1. IInv' /\ Copies' = Copies /\ Posted' \in {Posted, Posted \ {AsCopy(s)}}
    BY LoseMaps
  <1>2. CASE Posted' = Posted
    BY <1>1, <1>2 DEF Abstract!vars, Copies, Posted
  <1>3. CASE Posted' = Posted \ {AsCopy(s)}
    <2>1. AsCopy(s) \in Posted
      BY DEF Posted
    <2>2. Abstract!Lose
      BY <1>1, <1>3, <2>1, Zenon DEF Abstract!Lose, Copies, Posted
    <2>3. QED
      BY <1>1, <2>2 DEF Abstract!Next
  <1>4. QED
    BY <1>1, <1>2, <1>3

LEMMA IInvStep ==
  ASSUME IInv, [Next]_vars
  PROVE  IInv' /\ [Abstract!Next]_(Abstract!vars)
  <1>1. CASE UNCHANGED vars
    BY <1>1 DEF vars, IInv, Abstract!vars
  <1>2. CASE Next
    BY <1>2, MadeTransaction, MadeCancelAll, Signs, AddsSignatures, SignsOther, Receives, Sends, Loses DEF Next
  <1>3. QED
    BY <1>1, <1>2

LEMMA IInvInit ==
  ASSUME Init
  PROVE  IInv /\ Abstract!Init
  <1>1. held = [p \in Parties |-> Empty] /\ channel = {}
    BY DEF Init
  <1>2. IInv
    BY <1>1, EmptyOK, FS_EmptySet DEF IInv
  <1>3. Abstract!Init
    BY <1>1, EmptyOK DEF Abstract!Init
  <1>4. QED
    BY <1>2, <1>3

LEMMA InvariantHolds == Spec => []IInv
  <1>1. IInv /\ [Next]_vars => IInv'
    BY IInvStep
  <1>2. Init => IInv
    BY IInvInit
  <1>3. QED
    BY <1>1, <1>2, PTL DEF Spec

(* A copy of a transaction keeps the signatures it has, gains only those   *)
(* that their owners made over it, and is lost as a whole or not at all,   *)
(* whatever the parties call, in whatever order, and whatever becomes of   *)
(* the strings on their way (makeBroadcastTransaction, from_string,        *)
(* to_string and the legacy ones).                                         *)
THEOREM ImplementsApprovals == Spec => KeepsApprovals
  <1>1. Init => Abstract!Init
    BY IInvInit
  <1>2. IInv /\ [Next]_vars => [Abstract!Next]_(Abstract!vars)
    BY IInvStep
  <1>3. QED
    BY <1>1, <1>2, InvariantHolds, PTL DEF Spec, KeepsApprovals, Abstract!Spec

(* Two copies, or strings, with the same signatures have the same array:   *)
(* the one the library writes for that set (makeBroadcastTransaction).     *)
THEOREM SameSignaturesSameText == Spec => []OneTextPerApproval
  <1>1. IInv => OneTextPerApproval
    BY DEF IInv, RequestOK, TextOK, Written, OneTextPerApproval
  <1>2. QED
    BY <1>1, InvariantHolds, PTL
=============================================================================
