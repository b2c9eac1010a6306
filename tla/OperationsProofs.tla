-------------------------- MODULE OperationsProofs --------------------------
(***************************************************************************)
(* What holds of every operation a builder function returns, whatever a    *)
(* caller passes and whatever the fees: the node hashes what was signed,   *)
(* since the JSON of an operation, read by the node, is the operation; an  *)
(* operation with a data fee pays for the size it has in the end; and the  *)
(* bytes that are signed have one reading. That the lists of the bytes,    *)
(* of the size and of the JSON follow the declarations is proved of each   *)
(* of the 24 operations. What is taken of their members (distinct numbers  *)
(* and names, values of their kinds) has no parameters, is named           *)
(* LayoutIsFaithful and LayoutIsTyped, and TLC evaluates it.               *)
(***************************************************************************)
EXTENDS Operations, InductionLemmas, SequenceTheorems, FunctionTheorems

\* A value for each field, the given one where there is one.
Fills(fields, values) ==
  /\ values = [i \in DOMAIN fields |-> values[i]]
  /\ \A i \in DOMAIN fields : fields[i].param = "" => values[i] = fields[i].value

Filled(op) ==
  /\ op.type \in DOMAIN Layout
  /\ op = [type |-> op.type, values |-> op.values]
  /\ Fills(Layout[op.type].fields, op.values)

\* A list of them, with its bytes and its JSON.
IInv ==
  /\ result.ops = [i \in DOMAIN result.ops |-> result.ops[i]]
  /\ \A i \in DOMAIN result.ops : Filled(result.ops[i])
  /\ result.raw = RawList(result.ops)
  /\ result.sent = [i \in DOMAIN result.ops |-> Sent(result.ops[i])]
-----------------------------------------------------------------------------
(* Sequences one after another.                                            *)

\* And as far as each of them.
Joined(s, t) == s \o t
IsFlat(h, seqs, n) ==
  /\ h[0] = <<>> /\ \A k \in 1..n : h[k] = Joined(h[k - 1], seqs[k])
  /\ FlattenSeq(seqs) = h[n]

LEMMA JoinedIs ==
  ASSUME NEW S
  PROVE  /\ \A s, t \in Seq(S) : Joined(s, t) \in Seq(S) /\ Len(Joined(s, t)) = Len(s) + Len(t)
         /\ \A s \in Seq(S) : Joined(<<>>, s) = s
         /\ <<>> \in Seq(S)
  <1>1. \A s \in Seq(S) : <<>> \o s = s
    BY ConcatEmptySeq, Zenon
  <1>2. QED
    BY <1>1 DEF Joined

LEMMA FlattensStepByStep ==
  ASSUME NEW S, NEW n \in Nat, NEW seqs \in [1..n -> Seq(S)]
  PROVE  \E h \in [0..n -> Seq(S)] : IsFlat(h, seqs, n)
  <1>1. PICK step : step = [x \in Nat \X Seq(S) |-> IF x[1] \in 1..n THEN Joined(x[2], seqs[x[1]]) ELSE x[2]]
    OBVIOUS
  <1>2. \A k \in Nat, v \in Seq(S) :
          step[<<k, v>>] = (IF k \in 1..n THEN Joined(v, seqs[k]) ELSE v) /\ step[<<k, v>>] \in Seq(S)
    BY <1>1, JoinedIs
  <1>3. PICK first, base, smaller :
          first = {0} /\ base = [k \in {0} |-> <<>>] /\ smaller = [k \in Nat |-> k - 1]
    OBVIOUS
  <1>4. PICK g \in [Nat -> Seq(S)] : IsDescent(g, Nat, first, base, smaller, step)
    <2>1. \A k \in Nat : k \in first => base[k] \in Seq(S)
      BY <1>3
    <2>2. \A k \in Nat : k \notin first => smaller[k] \in 0..k - 1
      BY <1>3
    <2>3. \A k \in Nat, v \in Seq(S) : k \notin first => step[<<k, v>>] \in Seq(S)
      BY <1>2
    <2>4. QED
      BY <2>1, <2>2, <2>3, DescentIsDefined, Zenon
  <1>5. g[0] = <<>> /\ \A k \in 1..n : g[k] = Joined(g[k - 1], seqs[k])
    <2>1. g[0] = base[0] /\ base[0] = <<>>
      BY <1>3, <1>4 DEF IsDescent
    <2>2. ASSUME NEW k \in 1..n PROVE g[k] = Joined(g[k - 1], seqs[k])
      <3> DEFINE j == k - 1
      <3>1. k \in Nat /\ j \in Nat /\ k # 0
        OBVIOUS
      <3> HIDE DEF j
      <3>2. k \notin first /\ smaller[k] = j
        BY <1>3, <3>1 DEF j
      <3>3. g[k] = step[<<k, g[j]>>]
        BY <1>4, <3>1, <3>2, Zenon DEF IsDescent
      <3>4. g[j] \in Seq(S)
        BY <3>1
      <3>5. step[<<k, g[j]>>] = Joined(g[j], seqs[k])
        BY <1>2, <3>1, <3>4, Zenon
      <3>6. QED
        BY <3>3, <3>5, Zenon DEF j
    <2>3. QED
      BY <2>1, <2>2
  <1>6. FlattenSeq(seqs) = g[n]
    <2> DEFINE Is(f) == f = [i \in 1..n |-> IF i = 1 THEN seqs[i] ELSE Joined(f[i - 1], seqs[i])]
               flat == CHOOSE f : Is(f)
    <2>1. Len(seqs) = n
      OBVIOUS
    <2>2. CASE n = 0
      <3>1. FlattenSeq(seqs) = seqs
        BY <2>1, <2>2 DEF FlattenSeq
      <3>2. seqs = <<>>
        BY <2>2
      <3>3. QED
        BY <1>5, <2>2, <3>1, <3>2
    <2>3. CASE n # 0
      <3>1. FlattenSeq(seqs) = flat[n]
        BY <2>1, <2>3 DEF FlattenSeq, Joined
      <3>2. g[1] = seqs[1]
        <4>1. 1 \in 1..n /\ 1 - 1 = 0
          BY <2>3
        <4>2. g[1] = Joined(<<>>, seqs[1]) /\ seqs[1] \in Seq(S)
          BY <1>5, <4>1
        <4>3. QED
          BY <4>2, JoinedIs
      <3>3. \E f : Is(f)
        <4>1. \A i \in 1..n : g[i] = IF i = 1 THEN seqs[i] ELSE Joined(g[i - 1], seqs[i])
          BY <1>5, <3>2, Zenon
        <4>2. PICK f : f = [i \in 1..n |-> g[i]]
          OBVIOUS
        <4>3. \A i \in 1..n : f[i] = IF i = 1 THEN seqs[i] ELSE Joined(f[i - 1], seqs[i])
          <5>1. \A i \in 1..n : i # 1 => i - 1 \in 1..n
            OBVIOUS
          <5>2. QED
            BY <4>1, <4>2, <5>1, Zenon
        <4>4. Is(f)
          BY <4>2, <4>3
        <4>5. QED
          BY <4>4
      <3>4. Is(flat)
        <4> HIDE DEF Is
        <4>1. QED
          BY <3>3
      <3>5. \A i \in 1..n : flat[i] = IF i = 1 THEN seqs[i] ELSE Joined(flat[i - 1], seqs[i])
        <4> HIDE DEF flat
        <4>1. QED
          BY <3>4
      <3> HIDE DEF flat, Is
      <3> DEFINE T == {k \in Nat : k \in 1..n => flat[k] = g[k]}
      <3>6. 0 \in T
        OBVIOUS
      <3>7. ASSUME NEW k \in Nat, k \in T PROVE k + 1 \in T
        <4> SUFFICES ASSUME k + 1 \in 1..n PROVE flat[k + 1] = g[k + 1]
          OBVIOUS
        <4>1. (k + 1) - 1 = k /\ (k # 0 => k + 1 # 1 /\ k \in 1..n) /\ (k = 0 => k + 1 = 1)
          OBVIOUS
        <4>2. CASE k = 0
          BY <3>2, <3>5, <4>1, <4>2, Zenon
        <4>3. CASE k # 0
          <5>1. flat[k] = g[k]
            BY <3>7, <4>1, <4>3
          <5>2. flat[k + 1] = Joined(flat[k], seqs[k + 1])
            BY <3>5, <4>1, <4>3, Zenon
          <5>3. g[k + 1] = Joined(g[k], seqs[k + 1])
            BY <1>5, <4>1, Zenon
          <5>4. QED
            BY <5>1, <5>2, <5>3, Zenon
        <4>4. QED
          BY <4>2, <4>3
      <3>8. T = Nat
        <4> HIDE DEF T
        <4>1. T \in SUBSET Nat
          BY DEF T
        <4>2. QED
          BY <3>6, <3>7, <4>1, InductionOnNumbers
      <3>9. n \in 1..n
        BY <2>3
      <3>10. flat[n] = g[n]
        BY <3>8, <3>9
      <3>11. QED
        BY <3>1, <3>10
    <2>4. QED
      BY <2>2, <2>3
  <1>7. PICK h : h = [k \in 0..n |-> g[k]]
    OBVIOUS
  <1>8. h \in [0..n -> Seq(S)] /\ h[0] = g[0] /\ h[n] = g[n] /\ \A k \in 1..n : h[k] = g[k] /\ h[k - 1] = g[k - 1]
    BY <1>7
  <1>9. QED
    BY <1>5, <1>6, <1>8, Zenon DEF IsFlat

\* What a withdrawal returns: an operation for each balance with a valid id.
Withdrawal(owner, id, amount) ==
  Fill("vesting_balance_withdraw", [vesting_balance |-> id, owner |-> owner, amount |-> amount], fees.basic)

AreWithdrawals(n, ops, owner, ids, amounts) ==
  /\ n \in Nat /\ ops = [i \in 1..n |-> ops[i]]
  /\ \A i \in 1..n : \E b \in DOMAIN ids : ops[i] = Withdrawal(owner, ids[b], amounts[b])

LEMMA WithdrawReturns ==
  ASSUME NEW owner, NEW ids, NEW amounts, Withdraw(owner, ids, amounts)
  PROVE  \E n, ops :
           result' = Returned("made", ops) /\ fees' = fees /\ AreWithdrawals(n, ops, owner, ids, amounts)
  <1> DEFINE S == {Withdrawal(owner, ids[b], amounts[b]) : b \in DOMAIN ids}
             one(i) == IF Balances[i] \in DOMAIN ids THEN <<Withdrawal(owner, ids[Balances[i]], amounts[Balances[i]])>> ELSE <<>>
             seqs == [i \in 1..3 |-> one(i)]
  <1>1. DOMAIN Balances = 1..3
    BY DEF Balances
  <1>2. result' = Returned("made", FlattenSeq(seqs)) /\ fees' = fees
    BY <1>1, Zenon DEF Withdraw, Withdrawal
  <1>3. ASSUME NEW i \in 1..3 PROVE one(i) \in Seq(S)
    <2>1. \A w \in S : <<w>> \in Seq(S)
      OBVIOUS
    <2>2. <<>> \in Seq(S)
      OBVIOUS
    <2>3. Balances[i] \in DOMAIN ids => Withdrawal(owner, ids[Balances[i]], amounts[Balances[i]]) \in S
      BY Zenon
    <2> HIDE DEF S
    <2>4. QED
      BY <2>1, <2>2, <2>3, Zenon
  <1> HIDE DEF S, one
  <1>4. PICK h \in [0..3 -> Seq(S)] : IsFlat(h, seqs, 3)
    <2>1. seqs \in [1..3 -> Seq(S)]
      BY <1>3
    <2> HIDE DEF seqs
    <2>2. QED
      BY <2>1, FlattensStepByStep
  <1> HIDE DEF seqs
  <1>5. PICK ops \in Seq(S) : ops = FlattenSeq(seqs)
    BY <1>4 DEF IsFlat
  <1>6. ops = [i \in 1..Len(ops) |-> ops[i]] /\ Len(ops) \in Nat /\ \A i \in 1..Len(ops) : ops[i] \in S
    OBVIOUS
  <1>7. PICK n \in Nat : n = Len(ops)
    OBVIOUS
  <1>8. \A x \in S : \E b \in DOMAIN ids : x = Withdrawal(owner, ids[b], amounts[b])
    BY DEF S
  <1>9. \A i \in 1..n : \E b \in DOMAIN ids : ops[i] = Withdrawal(owner, ids[b], amounts[b])
    BY <1>6, <1>7, <1>8
  <1>10. result' = Returned("made", ops) /\ fees' = fees /\ ops = [i \in 1..n |-> ops[i]]
    BY <1>2, <1>5, <1>6, <1>7
  <1>11. AreWithdrawals(n, ops, owner, ids, amounts)
    BY <1>9, <1>10, Zenon DEF AreWithdrawals
  <1>12. QED
    BY <1>10, <1>11, Zenon

-----------------------------------------------------------------------------
(* The three lists of an operation against its declared members: the bytes *)
(* and their size take all of them in the order they are declared, and the *)
(* JSON leaves out only what the node supplies.                            *)

\* The operations whose size is asked for.
Priced == {"player_invitation_create", "player_invitation_cancel", "buy_out_table",
  "game_start_playing_check", "game_result_check", "buy_in_reserve", "buy_in_reserving_cancel",
  "account_create", "transfer", "room_create", "room_update", "table_create", "table_update"}

NamesOf(fields) == [i \in DOMAIN fields |-> fields[i].name]

\* A member is sent, or always what the node takes it for.
Given(f, sent) == f.name \in sent \/ (f.param = "" /\ f.value = NodeDefault(f.name, f.kind, sent))
Supplied(fields, sent) == \A i \in DOMAIN fields : Given(fields[i], sent)

Listed(type, member, lists) ==
  /\ lists.raw = NamesOf(member.fields)
  /\ type \in Priced => lists.size = lists.raw
  /\ Supplied(member.fields, ToSet(lists.json))

Listings(members, lists) ==
  DOMAIN members = DOMAIN lists /\ \A t \in DOMAIN members : Listed(t, members[t], lists[t])

LEMMA ListingsMerge ==
  ASSUME NEW f, NEW g, NEW h, NEW k, Listings(f, h), Listings(g, k)
  PROVE  Listings(Merge(f, g), Merge(h, k))
  BY Zenon DEF Merge, Listings

LEMMA NameOfField ==
  /\ \A n : Asset(n).name = <<n>> /\ Id(n).name = <<n>> /\ String(n).name = <<n>>
  /\ \A n, k : Field(n, k).name = <<n>>
  /\ \A n, k, p : From(n, k, p).name = n /\ Always(n, k, p).name = n
  BY DEF Asset, Id, String, Field, From, Always

LEMMA OneName ==
  ASSUME NEW a, NEW p, a.name = <<p>>
  PROVE  NamesOf(<<a>>) = Own(<<p>>)
  BY DEF NamesOf, Own

LEMMA TwoNames ==
  ASSUME NEW a, NEW b, NEW p, NEW q, a.name = <<p>>, b.name = <<q>>
  PROVE  NamesOf(<<a, b>>) = Own(<<p, q>>)
  BY DEF NamesOf, Own

LEMMA ThreeNames ==
  ASSUME NEW a, NEW b, NEW c, NEW p, NEW q, NEW r, a.name = <<p>>, b.name = <<q>>, c.name = <<r>>
  PROVE  NamesOf(<<a, b, c>>) = Own(<<p, q, r>>)
  BY DEF NamesOf, Own

LEMMA FourNames ==
  ASSUME NEW a, NEW b, NEW c, NEW d, NEW p, NEW q, NEW r, NEW s,
         a.name = <<p>>, b.name = <<q>>, c.name = <<r>>, d.name = <<s>>
  PROVE  NamesOf(<<a, b, c, d>>) = Own(<<p, q, r, s>>)
  BY DEF NamesOf, Own

LEMMA FiveNames ==
  ASSUME NEW a, NEW b, NEW c, NEW d, NEW e, NEW p, NEW q, NEW r, NEW s, NEW t,
         a.name = <<p>>, b.name = <<q>>, c.name = <<r>>, d.name = <<s>>, e.name = <<t>>
  PROVE  NamesOf(<<a, b, c, d, e>>) = Own(<<p, q, r, s, t>>)
  BY DEF NamesOf, Own

LEMMA SixNames ==
  ASSUME NEW a, NEW b, NEW c, NEW d, NEW e, NEW f, NEW p, NEW q, NEW r, NEW s, NEW t, NEW u,
         a.name = <<p>>, b.name = <<q>>, c.name = <<r>>, d.name = <<s>>, e.name = <<t>>, f.name = <<u>>
  PROVE  NamesOf(<<a, b, c, d, e, f>>) = Own(<<p, q, r, s, t, u>>)
  BY DEF NamesOf, Own

LEMMA SevenNames ==
  ASSUME NEW a, NEW b, NEW c, NEW d, NEW e, NEW f, NEW g,
         NEW p, NEW q, NEW r, NEW s, NEW t, NEW u, NEW v,
         a.name = <<p>>, b.name = <<q>>, c.name = <<r>>, d.name = <<s>>, e.name = <<t>>, f.name = <<u>>, g.name = <<v>>
  PROVE  NamesOf(<<a, b, c, d, e, f, g>>) = Own(<<p, q, r, s, t, u, v>>)
  BY DEF NamesOf, Own

LEMMA SixParts ==
  ASSUME NEW m, NEW a, NEW b, NEW c, NEW d, NEW e, NEW f, NEW p, NEW q, NEW r, NEW s, NEW t, NEW u,
         a.name = <<m, p>>, b.name = <<m, q>>, c.name = <<m, r>>,
         d.name = <<m, s>>, e.name = <<m, t>>, f.name = <<m, u>>
  PROVE  NamesOf(<<a, b, c, d, e, f>>) = Part(m, <<p, q, r, s, t, u>>)
  BY DEF NamesOf, Part

LEMMA TwoParts ==
  ASSUME NEW m, NEW a, NEW b, NEW p, NEW q, a.name = <<m, p>>, b.name = <<m, q>>
  PROVE  NamesOf(<<a, b>>) = Part(m, <<p, q>>)
  BY DEF NamesOf, Part

LEMMA SentAreSupplied ==
  ASSUME NEW fields, NEW sent, ToSet(NamesOf(fields)) \subseteq sent
  PROVE  Supplied(fields, sent)
  <1>1. ASSUME NEW i \in DOMAIN fields PROVE fields[i].name \in sent
    <2>1. i \in DOMAIN NamesOf(fields) /\ NamesOf(fields)[i] = fields[i].name
      BY DEF NamesOf
    <2>2. QED
      BY <2>1, Zenon DEF ToSet
  <1>2. QED
    BY <1>1, Zenon DEF Supplied, Given

IsSeq(s) == \E S : s \in Seq(S)
LEMMA OneAfterAnother ==
  ASSUME NEW s, NEW t, IsSeq(s), IsSeq(t)
  PROVE  /\ IsSeq(s \o t) /\ NamesOf(s \o t) = NamesOf(s) \o NamesOf(t)
         /\ ToSet(s \o t) = ToSet(s) \cup ToSet(t)
         /\ \A sent : Supplied(s, sent) /\ Supplied(t, sent) => Supplied(s \o t, sent)
  <1>1. PICK S : s \in Seq(S) /\ t \in Seq(S)
    <2>1. PICK U, V : s \in Seq(U) /\ t \in Seq(V)
      BY DEF IsSeq
    <2>2. s \in Seq(U \cup V) /\ t \in Seq(U \cup V)
      BY <2>1
    <2>3. QED
      BY <2>2
  <1>2. PICK m, n \in Nat : m = Len(s) /\ n = Len(t) /\ DOMAIN s = 1..m /\ DOMAIN t = 1..n
    BY <1>1
  <1>3. /\ s \o t \in Seq(S) /\ Len(s \o t) = m + n /\ DOMAIN (s \o t) = 1..m + n
        /\ \A i \in 1..m + n : (s \o t)[i] = IF i <= m THEN s[i] ELSE t[i - m]
    BY <1>1, <1>2, ConcatProperties
  <1>4. IsSeq(s \o t)
    BY <1>3 DEF IsSeq
  <1>5. NamesOf(s \o t) = NamesOf(s) \o NamesOf(t)
    <2>1. PICK T : T = {x.name : x \in S}
      OBVIOUS
    <2>2. PICK u, v : u = NamesOf(s) /\ v = NamesOf(t)
      OBVIOUS
    <2>3. /\ u \in Seq(T) /\ v \in Seq(T) /\ Len(u) = m /\ Len(v) = n
          /\ \A i \in 1..m : u[i] = s[i].name
          /\ \A i \in 1..n : v[i] = t[i].name
      BY <1>1, <1>2, <2>1, <2>2 DEF NamesOf
    <2>4. /\ u \o v \in Seq(T) /\ Len(u \o v) = m + n
          /\ \A i \in 1..m + n : (u \o v)[i] = IF i <= m THEN u[i] ELSE v[i - m]
      BY <2>3, ConcatProperties
    <2>5. \A i \in 1..m + n : (u \o v)[i] = (s \o t)[i].name
      <3>1. \A i \in 1..m + n : (i <= m => i \in 1..m) /\ (~(i <= m) => i - m \in 1..n)
        BY <1>2
      <3>2. QED
        BY <1>3, <2>3, <2>4, <3>1, Zenon
    <2>6. PICK w : w = u \o v
      OBVIOUS
    <2>7. w = [i \in 1..m + n |-> w[i]] /\ \A i \in 1..m + n : w[i] = (s \o t)[i].name
      <3>1. w \in Seq(T) /\ Len(w) = m + n
        BY <2>4, <2>6
      <3>2. w = [i \in 1..m + n |-> w[i]]
        BY <3>1
      <3>3. QED
        BY <2>5, <2>6, <3>2, Zenon
    <2>8. w = [i \in 1..m + n |-> (s \o t)[i].name]
      BY <2>7
    <2>9. NamesOf(s \o t) = [i \in 1..m + n |-> (s \o t)[i].name]
      BY <1>3, Zenon DEF NamesOf
    <2>10. QED
      BY <2>2, <2>6, <2>8, <2>9
  <1>6. ToSet(s \o t) = ToSet(s) \cup ToSet(t)
    <2>1. \A x : x \in ToSet(s \o t) => x \in ToSet(s) \cup ToSet(t)
      BY <1>2, <1>3 DEF ToSet
    <2>2. ASSUME NEW i \in 1..m PROVE s[i] \in ToSet(s \o t)
      <3>1. i \in 1..m + n /\ i <= m
        OBVIOUS
      <3>2. QED
        BY <1>3, <3>1, Zenon DEF ToSet
    <2>3. ASSUME NEW i \in 1..n PROVE t[i] \in ToSet(s \o t)
      <3>1. m + i \in 1..m + n /\ ~(m + i <= m) /\ (m + i) - m = i
        OBVIOUS
      <3>2. (s \o t)[m + i] = t[i]
        BY <1>3, <3>1
      <3>3. QED
        BY <1>3, <3>1, <3>2, Zenon DEF ToSet
    <2>4. QED
      BY <1>2, <2>1, <2>2, <2>3, Zenon DEF ToSet
  <1>7. \A sent : Supplied(s, sent) /\ Supplied(t, sent) => Supplied(s \o t, sent)
    BY <1>2, <1>3 DEF Supplied
  <1>8. QED
    BY <1>4, <1>5, <1>6, <1>7

LEMMA TuplesAreSeqs ==
  /\ \A a : IsSeq(<<a>>)
  /\ \A a, b : IsSeq(<<a, b>>)
  /\ \A a, b, c, d : IsSeq(<<a, b, c, d>>)
  /\ \A a, b, c, d, e : IsSeq(<<a, b, c, d, e>>)
  /\ \A a, b, c, d, e, f : IsSeq(<<a, b, c, d, e, f>>)
  /\ \A s : IsSeq(s) => IsSeq(Own(s)) /\ \A m : IsSeq(Part(m, s))
  <1>1. \A a : <<a>> \in Seq({a})
    OBVIOUS
  <1>2. \A a, b : <<a, b>> \in Seq({a, b})
    OBVIOUS
  <1>3. \A a, b, c, d : <<a, b, c, d>> \in Seq({a, b, c, d})
    OBVIOUS
  <1>4. \A a, b, c, d, e : <<a, b, c, d, e>> \in Seq({a, b, c, d, e})
    OBVIOUS
  <1>5. \A a, b, c, d, e, f : <<a, b, c, d, e, f>> \in Seq({a, b, c, d, e, f})
    OBVIOUS
  <1>6. ASSUME NEW s, IsSeq(s) PROVE IsSeq(Own(s)) /\ \A m : IsSeq(Part(m, s))
    <2>1. PICK S : s \in Seq(S)
      BY <1>6 DEF IsSeq
    <2>2. Own(s) \in Seq({<<x>> : x \in S})
      BY <2>1 DEF Own
    <2>3. \A m : Part(m, s) \in Seq({<<m, x>> : x \in S})
      BY <2>1 DEF Part
    <2>4. QED
      BY <2>2, <2>3, Zenon DEF IsSeq
  <1>7. QED
    BY <1>1, <1>2, <1>3, <1>4, <1>5, <1>6, Zenon DEF IsSeq

LEMMA ListedOf ==
  ASSUME NEW type, NEW which, NEW fields, NEW raw, NEW size, NEW json,
         raw = NamesOf(fields), type \in Priced => size = raw, Supplied(fields, ToSet(json))
  PROVE  Listed(type, Operation(which, fields), Lists(raw, size, json))
  <1>1. Operation(which, fields).fields = fields
    BY DEF Operation
  <1>2. Lists(raw, size, json).raw = raw /\ Lists(raw, size, json).size = size /\ Lists(raw, size, json).json = json
    BY DEF Lists
  <1>3. QED
    BY <1>1, <1>2, Zenon DEF Listed

\* All three lists are the members.
LEMMA Plain ==
  ASSUME NEW type, NEW which, NEW fields, NEW list, list = NamesOf(fields)
  PROVE  Listed(type, Operation(which, fields), Lists(list, list, list))
  BY ListedOf, SentAreSupplied

LEMMA PlainUnsized ==
  ASSUME NEW type, NEW which, NEW fields, NEW list, list = NamesOf(fields), type \notin Priced
  PROVE  Listed(type, Operation(which, fields), Lists(list, Unsized, list))
  BY ListedOf, SentAreSupplied

LEMMA AuthorityListed ==
  ASSUME NEW n
  PROVE  /\ IsSeq(Authority(n)) /\ NamesOf(Authority(n)) = AuthorityRaw(n)
         /\ \A sent : ToSet(AuthorityJson(n)) \subseteq sent => Supplied(Authority(n), sent)
         /\ IsSeq(AuthorityJson(n)) 
  <1>1. NamesOf(Authority(n)) = AuthorityRaw(n)
    BY SixParts, NameOfField DEF Authority, AuthorityRaw
  <1>2. IsSeq(Authority(n))
    <2>1. \A a, b, c, d, e, f : <<a, b, c, d, e, f>> \in Seq({a, b, c, d, e, f})
      OBVIOUS
    <2>2. QED
      BY <2>1 DEF IsSeq, Authority
  <1>3. ASSUME NEW sent, ToSet(AuthorityJson(n)) \subseteq sent PROVE Supplied(Authority(n), sent)
    <2>1. ToSet(AuthorityJson(n)) = {<<n, "weight_threshold">>, <<n, "account_auths">>, <<n, "key_auths">>, <<n, "key">>, <<n, "weight">>}
      BY DEF ToSet, AuthorityJson, Part
    <2>2. Given(Always(<<n, "obsolete">>, "id", 0), sent)
      <3>1. <<n, "obsolete">> # <<"has_url">> /\ <<n, "obsolete">> # <<"has_key">>
        OBVIOUS
      <3>2. NodeDefault(<<n, "obsolete">>, "id", sent) = 0
        BY <3>1 DEF NodeDefault
      <3>3. Always(<<n, "obsolete">>, "id", 0).name = <<n, "obsolete">> /\ Always(<<n, "obsolete">>, "id", 0).kind = "id"
        /\ Always(<<n, "obsolete">>, "id", 0).param = "" /\ Always(<<n, "obsolete">>, "id", 0).value = 0
        BY DEF Always
      <3>4. QED
        BY <3>2, <3>3, Zenon DEF Given
    <2>3. \A f : f.name \in ToSet(AuthorityJson(n)) => Given(f, sent)
      BY <1>3, Zenon DEF Given
    <2>4. \A a, b, c, d, e, f : Given(a, sent) /\ Given(b, sent) /\ Given(c, sent) /\ Given(d, sent) /\ Given(e, sent) /\ Given(f, sent)
            => Supplied(<<a, b, c, d, e, f>>, sent)
      BY DEF Supplied
    <2>5. QED
      BY <2>1, <2>2, <2>3, <2>4, NameOfField DEF Authority
  <1>4. IsSeq(AuthorityJson(n))
    BY TuplesAreSeqs DEF AuthorityJson
  <1>5. QED
    BY <1>1, <1>2, <1>3, <1>4, Zenon
LEMMA InvitationsListed == Listings(InvitationMembers, InvitationLists)
  <1>1. /\ DOMAIN InvitationMembers =
             {"player_invitation_create", "player_invitation_resolve", "player_invitation_cancel"}
        /\ DOMAIN InvitationLists = DOMAIN InvitationMembers
    BY DEF InvitationMembers, InvitationLists
  <1>2. Listed("player_invitation_create", InvitationMembers["player_invitation_create"],
               InvitationLists["player_invitation_create"])
    BY FiveNames, NameOfField, Plain DEF InvitationMembers, InvitationLists
  <1>3. Listed("player_invitation_cancel", InvitationMembers["player_invitation_cancel"],
               InvitationLists["player_invitation_cancel"])
    BY ThreeNames, NameOfField, Plain DEF InvitationMembers, InvitationLists
  <1>4. Listed("player_invitation_resolve", InvitationMembers["player_invitation_resolve"],
               InvitationLists["player_invitation_resolve"])
    <2> DEFINE first == <<Asset("fee"), Id("inviter"), String("uid"), Field("mandat", "signature"), String("name")>>
               listed == Own(<<"fee", "inviter", "uid", "mandat", "name">>)
               fields == first \o Authority("owner") \o Authority("active")
               json == listed \o AuthorityJson("owner") \o AuthorityJson("active")
    <2>1. IsSeq(first) /\ IsSeq(listed) /\ NamesOf(first) = listed
      BY FiveNames, NameOfField, TuplesAreSeqs
    <2>2. PICK raw : raw = listed \o AuthorityRaw("owner") \o AuthorityRaw("active")
      OBVIOUS
    <2>3. /\ InvitationMembers["player_invitation_resolve"] = Operation(57, fields)
          /\ InvitationLists["player_invitation_resolve"] = Lists(raw, Unsized, json)
      BY <2>2 DEF InvitationMembers, InvitationLists
    <2> HIDE DEF first, listed
    <2>4. raw = NamesOf(fields)
      <3>1. PICK a : a = first \o Authority("owner") /\ IsSeq(a) /\ NamesOf(a) = listed \o AuthorityRaw("owner")
        BY <2>1, OneAfterAnother, AuthorityListed
      <3>2. NamesOf(a \o Authority("active")) = NamesOf(a) \o AuthorityRaw("active")
        BY <3>1, OneAfterAnother, AuthorityListed
      <3>3. QED
        BY <2>2, <3>1, <3>2, Zenon
    <2>5. Supplied(fields, ToSet(json))
      <3>1. /\ ToSet(listed) \subseteq ToSet(json) /\ ToSet(AuthorityJson("owner")) \subseteq ToSet(json)
            /\ ToSet(AuthorityJson("active")) \subseteq ToSet(json)
        BY <2>1, OneAfterAnother, AuthorityListed
      <3>2. Supplied(first, ToSet(json))
        BY <2>1, <3>1, SentAreSupplied
      <3>3. Supplied(Authority("owner"), ToSet(json)) /\ Supplied(Authority("active"), ToSet(json))
        BY <3>1, AuthorityListed
      <3> HIDE DEF json
      <3>4. QED
        BY <2>1, <3>2, <3>3, OneAfterAnother, AuthorityListed
    <2>6. "player_invitation_resolve" \notin Priced
      BY DEF Priced
    <2> HIDE DEF fields, json
    <2>7. QED
      BY <2>3, <2>4, <2>5, <2>6, ListedOf
  <1>5. QED
    BY <1>1, <1>2, <1>3, <1>4, Zenon DEF Listings

LEMMA TablesListed == Listings(TableMembers, TableLists)
  <1>1. DOMAIN TableMembers = {"buy_in_table", "buy_out_table"} /\ DOMAIN TableLists = DOMAIN TableMembers
    BY DEF TableMembers, TableLists
  <1>2. "buy_in_table" \notin Priced
    BY DEF Priced
  <1>3. Listed("buy_in_table", TableMembers["buy_in_table"], TableLists["buy_in_table"])
    BY <1>2, FiveNames, NameOfField, PlainUnsized DEF TableMembers, TableLists
  <1>4. Listed("buy_out_table", TableMembers["buy_out_table"], TableLists["buy_out_table"])
    BY SixNames, NameOfField, Plain DEF TableMembers, TableLists
  <1>5. QED
    BY <1>1, <1>3, <1>4, Zenon DEF Listings

LEMMA GamesListed == Listings(GameMembers, GameLists)
  <1>1. /\ DOMAIN GameMembers = {"game_start_playing_check", "game_result_check"}
        /\ DOMAIN GameLists = DOMAIN GameMembers
    BY DEF GameMembers, GameLists
  <1> DEFINE first == <<Asset("fee"), Id("table"), Id("table_owner"), Id("voter")>>
             listed == Own(<<"fee", "table", "table_owner", "voter">>)
  <1>2. IsSeq(first) /\ NamesOf(first) = listed
    BY FourNames, NameOfField, TuplesAreSeqs
  <1>3. IsSeq(GameInitialData) /\ NamesOf(GameInitialData) = GameInitialDataRaw
    BY TwoParts, NameOfField, TuplesAreSeqs DEF GameInitialData, GameInitialDataRaw
  <1>4. IsSeq(GameResult) /\ NamesOf(GameResult) = GameResultRaw
    BY TwoParts, NameOfField, TuplesAreSeqs DEF GameResult, GameResultRaw
  <1>5. /\ GameMembers["game_start_playing_check"] = Operation(68, first \o GameInitialData)
        /\ GameLists["game_start_playing_check"] =
             Lists(listed \o GameInitialDataRaw, listed \o GameInitialDataRaw, listed \o GameInitialDataRaw)
    BY DEF GameMembers, GameLists, GameInitialDataRaw, GameInitialDataJson
  <1>6. /\ GameMembers["game_result_check"] = Operation(69, first \o GameResult)
        /\ GameLists["game_result_check"] =
             Lists(listed \o GameResultRaw, listed \o GameResultRaw, listed \o GameResultRaw)
    BY DEF GameMembers, GameLists, GameResultRaw, GameResultJson
  <1> HIDE DEF first, listed
  <1>7. /\ listed \o GameInitialDataRaw = NamesOf(first \o GameInitialData)
        /\ listed \o GameResultRaw = NamesOf(first \o GameResult)
    BY <1>2, <1>3, <1>4, OneAfterAnother
  <1>8. QED
    BY <1>1, <1>5, <1>6, <1>7, Plain, Zenon DEF Listings

LEMMA BalancesListed == Listings(BalanceMembers, BalanceLists)
  <1>1. /\ DOMAIN BalanceMembers = {"vesting_balance_withdraw", "game_reset"}
        /\ DOMAIN BalanceLists = DOMAIN BalanceMembers
    BY DEF BalanceMembers, BalanceLists
  <1>2. "vesting_balance_withdraw" \notin Priced /\ "game_reset" \notin Priced
    BY DEF Priced
  <1>3. ASSUME NEW t \in DOMAIN BalanceMembers PROVE Listed(t, BalanceMembers[t], BalanceLists[t])
    BY <1>2, FourNames, NameOfField, PlainUnsized DEF BalanceMembers, BalanceLists
  <1>4. QED
    BY <1>1, <1>3, Zenon DEF Listings

LEMMA ReservesListed == Listings(ReserveMembers, ReserveLists)
  <1>1. /\ DOMAIN ReserveMembers = {"buy_in_reserve", "buy_in_reserving_cancel", "buy_in_reserving_resolve"}
        /\ DOMAIN ReserveLists = DOMAIN ReserveMembers
    BY DEF ReserveMembers, ReserveLists
  <1>2. "buy_in_reserving_resolve" \notin Priced
    BY DEF Priced
  <1>3. Listed("buy_in_reserve", ReserveMembers["buy_in_reserve"], ReserveLists["buy_in_reserve"])
    BY SixNames, NameOfField, Plain DEF ReserveMembers, ReserveLists
  <1>4. Listed("buy_in_reserving_cancel", ReserveMembers["buy_in_reserving_cancel"],
               ReserveLists["buy_in_reserving_cancel"])
    BY ThreeNames, NameOfField, Plain DEF ReserveMembers, ReserveLists
  <1>5. Listed("buy_in_reserving_resolve", ReserveMembers["buy_in_reserving_resolve"],
               ReserveLists["buy_in_reserving_resolve"])
    BY <1>2, FourNames, NameOfField, PlainUnsized DEF ReserveMembers, ReserveLists
  <1>6. QED
    BY <1>1, <1>3, <1>4, <1>5, Zenon DEF Listings

LEMMA RoomsListed == Listings(RoomMembers, RoomLists)
  <1>1. /\ DOMAIN RoomMembers = {"room_create", "room_update", "table_create", "table_update"}
        /\ DOMAIN RoomLists = DOMAIN RoomMembers
    BY DEF RoomMembers, RoomLists
  <1>2. ASSUME NEW t \in DOMAIN RoomMembers PROVE Listed(t, RoomMembers[t], RoomLists[t])
    BY FiveNames, SixNames, NameOfField, Plain DEF RoomMembers, RoomLists
  <1>3. QED
    BY <1>1, <1>2, Zenon DEF Listings

\* A member that is never sent, and that is no flag of an optional.
LEMMA LeftOut ==
  ASSUME NEW f, NEW name, NEW kind, NEW value, NEW sent, f = Always(name, kind, value),
         name \notin {<<"has_url">>, <<"has_key">>}, value = IF kind = "bool" THEN FALSE ELSE 0
  PROVE  Given(f, sent)
  <1>1. f.name = name /\ f.kind = kind /\ f.param = "" /\ f.value = value
    BY DEF Always
  <1>2. NodeDefault(name, kind, sent) = IF kind = "bool" THEN FALSE ELSE 0
    BY Zenon DEF NodeDefault
  <1>3. QED
    BY <1>1, <1>2, Zenon DEF Given

LEMMA AccountsListed == Listings(AccountMembers, AccountLists)
  <1>1. /\ DOMAIN AccountMembers = {"account_create", "transfer", "player_create_by_room_owner"}
        /\ DOMAIN AccountLists = DOMAIN AccountMembers
    BY DEF AccountMembers, AccountLists
  <1>2. Listed("player_create_by_room_owner", AccountMembers["player_create_by_room_owner"],
               AccountLists["player_create_by_room_owner"])
    <2>1. "player_create_by_room_owner" \notin Priced
      BY DEF Priced
    <2>2. QED
      BY <2>1, ThreeNames, NameOfField, PlainUnsized DEF AccountMembers, AccountLists
  <1>3. \A sent : Given(Always(<<"extensions">>, "id", 0), sent) /\ Given(Always(<<"memo">>, "bool", FALSE), sent)
    <2>1. <<"extensions">> \notin {<<"has_url">>, <<"has_key">>} /\ <<"memo">> \notin {<<"has_url">>, <<"has_key">>}
      OBVIOUS
    <2>2. PICK f, g : f = Always(<<"extensions">>, "id", 0) /\ g = Always(<<"memo">>, "bool", FALSE)
      OBVIOUS
    <2>3. \A sent : Given(f, sent)
      <3>1. 0 = IF "id" = "bool" THEN FALSE ELSE 0
        OBVIOUS
      <3>2. QED
        BY <2>1, <2>2, <3>1, LeftOut, Zenon
    <2>4. \A sent : Given(g, sent)
      <3>1. FALSE = IF "bool" = "bool" THEN FALSE ELSE 0
        OBVIOUS
      <3>2. QED
        BY <2>1, <2>2, <3>1, LeftOut, Zenon
    <2>5. QED
      BY <2>2, <2>3, <2>4, Zenon
  <1>4. Listed("transfer", AccountMembers["transfer"], AccountLists["transfer"])
    <2> DEFINE first == <<Asset("fee"), Id("from"), Id("to"), Asset("amount")>>
               fields == <<Asset("fee"), Id("from"), Id("to"), Asset("amount"),
                           Always(<<"memo">>, "bool", FALSE), Always(<<"extensions">>, "id", 0)>>
               raw == Own(<<"fee", "from", "to", "amount", "memo", "extensions">>)
               json == Own(<<"fee", "from", "to", "amount">>)
    <2>1. /\ AccountMembers["transfer"] = Operation(0, fields)
          /\ AccountLists["transfer"] = Lists(raw, raw, json)
      BY DEF AccountMembers, AccountLists
    <2>2. raw = NamesOf(fields)
      <3>1. Always(<<"memo">>, "bool", FALSE).name = <<"memo">>
        BY DEF Always
      <3>2. Always(<<"extensions">>, "id", 0).name = <<"extensions">>
        BY DEF Always
      <3>3. /\ Asset("fee").name = <<"fee">> /\ Id("from").name = <<"from">> /\ Id("to").name = <<"to">>
            /\ Asset("amount").name = <<"amount">>
        BY NameOfField, Zenon
      <3>4. \A e, f : e.name = <<"memo">> /\ f.name = <<"extensions">>
              => NamesOf(<<Asset("fee"), Id("from"), Id("to"), Asset("amount"), e, f>>) = raw
        BY <3>3, SixNames
      <3> HIDE DEF raw
      <3>5. QED
        BY <3>1, <3>2, <3>4, Zenon
    <2>3. Supplied(first, ToSet(json))
      <3>1. NamesOf(first) = json
        BY FourNames, NameOfField
      <3> HIDE DEF first, json
      <3>2. QED
        BY <3>1, SentAreSupplied
    <2>4. Supplied(fields, ToSet(json))
      <3>1. ASSUME NEW a, NEW b, NEW c, NEW d, NEW e, NEW f, NEW sent,
                   Supplied(<<a, b, c, d>>, sent), Given(e, sent), Given(f, sent)
            PROVE  Supplied(<<a, b, c, d, e, f>>, sent)
        BY <3>1 DEF Supplied
      <3> HIDE DEF json
      <3>2. QED
        BY <1>3, <2>3, <3>1
    <2> HIDE DEF fields, raw, json
    <2>5. QED
      BY <2>1, <2>2, <2>4, ListedOf
  <1>5. Listed("account_create", AccountMembers["account_create"], AccountLists["account_create"])
    <2> DEFINE first == <<Asset("fee"), Id("registrar"), From(<<"referrer">>, "id", "registrar"),
                          Always(<<"referrer_percent">>, "u16", 0), String("name")>>
               last == <<Always(<<"extensions">>, "id", 0)>>
               listed == Own(<<"fee", "registrar", "referrer", "referrer_percent", "name">>)
               ending == Own(<<"extensions">>)
               fields == first \o Authority("owner") \o Authority("active") \o AccountOptions \o last
               raw == listed \o AuthorityRaw("owner") \o AuthorityRaw("active") \o AccountOptionsRaw \o ending
               json == listed \o AuthorityJson("owner") \o AuthorityJson("active") \o AccountOptionsJson
    <2>1. IsSeq(first) /\ IsSeq(listed) /\ NamesOf(first) = listed
      BY FiveNames, NameOfField, TuplesAreSeqs
    <2>2. IsSeq(last) /\ NamesOf(last) = ending
      BY OneName, NameOfField, TuplesAreSeqs
    <2>3. IsSeq(AccountOptions) /\ IsSeq(AccountOptionsJson) /\ NamesOf(AccountOptions) = AccountOptionsRaw
      <3>1. IsSeq(AccountOptions)
        BY TuplesAreSeqs, Zenon DEF AccountOptions
      <3>2. IsSeq(AccountOptionsJson)
        BY TuplesAreSeqs, Zenon DEF AccountOptionsJson
      <3>3. /\ From(<<"options", "memo_key">>, "key", "new_pub_key").name = <<"options", "memo_key">>
            /\ Always(<<"options", "voting_account">>, "id", 5).name = <<"options", "voting_account">>
            /\ Always(<<"options", "num_witness">>, "u16", 0).name = <<"options", "num_witness">>
            /\ Always(<<"options", "num_committee">>, "u16", 0).name = <<"options", "num_committee">>
            /\ Always(<<"options", "votes">>, "id", 0).name = <<"options", "votes">>
            /\ Always(<<"options", "extensions">>, "id", 0).name = <<"options", "extensions">>
        BY NameOfField, Zenon
      <3>4. NamesOf(AccountOptions) = AccountOptionsRaw
        BY <3>3, SixParts DEF AccountOptions, AccountOptionsRaw
      <3>5. QED
        BY <3>1, <3>2, <3>4
    <2>4. /\ AccountMembers["account_create"] = Operation(5, fields)
          /\ AccountLists["account_create"] = Lists(raw, raw, json)
      BY DEF AccountMembers, AccountLists
    <2>5. Supplied(last, ToSet(json))
      <3>1. \A f, sent : Given(f, sent) => Supplied(<<f>>, sent)
        BY DEF Supplied
      <3> HIDE DEF json
      <3>2. QED
        BY <1>3, <3>1
    <2> HIDE DEF first, last, listed, ending
    <2>6. raw = NamesOf(fields)
      <3>1. PICK a : a = first \o Authority("owner") /\ IsSeq(a) /\ NamesOf(a) = listed \o AuthorityRaw("owner")
        BY <2>1, OneAfterAnother, AuthorityListed
      <3>2. PICK b : b = a \o Authority("active") /\ IsSeq(b) /\ NamesOf(b) = NamesOf(a) \o AuthorityRaw("active")
        BY <3>1, OneAfterAnother, AuthorityListed
      <3>3. PICK c : c = b \o AccountOptions /\ IsSeq(c) /\ NamesOf(c) = NamesOf(b) \o AccountOptionsRaw
        BY <2>3, <3>2, OneAfterAnother
      <3>4. NamesOf(c \o last) = NamesOf(c) \o ending
        BY <2>2, <3>3, OneAfterAnother
      <3>5. QED
        BY <3>1, <3>2, <3>3, <3>4, Zenon
    <2>7. Supplied(fields, ToSet(json))
      <3>1. PICK a : a = listed \o AuthorityJson("owner") /\ IsSeq(a)
                     /\ ToSet(a) = ToSet(listed) \cup ToSet(AuthorityJson("owner"))
        BY <2>1, OneAfterAnother, AuthorityListed
      <3>2. PICK b : b = a \o AuthorityJson("active") /\ IsSeq(b)
                     /\ ToSet(b) = ToSet(a) \cup ToSet(AuthorityJson("active"))
        BY <3>1, OneAfterAnother, AuthorityListed
      <3>3. ToSet(b \o AccountOptionsJson) = ToSet(b) \cup ToSet(AccountOptionsJson)
        BY <2>3, <3>2, OneAfterAnother
      <3>4. PICK sent : sent = ToSet(json)
        OBVIOUS
      <3>5. sent = ToSet(listed) \cup ToSet(AuthorityJson("owner")) \cup ToSet(AuthorityJson("active"))
                   \cup ToSet(AccountOptionsJson)
        BY <3>1, <3>2, <3>3, <3>4
      <3>6. Supplied(first, sent)
        BY <2>1, <3>5, SentAreSupplied
      <3>7. Supplied(Authority("owner"), sent) /\ Supplied(Authority("active"), sent)
        BY <3>5, AuthorityListed
      <3>8. Supplied(AccountOptions, sent)
        <4>1. AccountOptionsRaw = AccountOptionsJson
          BY DEF AccountOptionsRaw, AccountOptionsJson
        <4>2. QED
          BY <2>3, <3>5, <4>1, SentAreSupplied
      <3>9. Supplied(last, sent)
        BY <2>5, <3>4
      <3> HIDE DEF json
      <3>10. QED
        <4>1. IsSeq(first \o Authority("owner")) /\ Supplied(first \o Authority("owner"), sent)
          BY <2>1, <3>6, <3>7, OneAfterAnother, AuthorityListed
        <4>2. PICK both : both = first \o Authority("owner") \o Authority("active") /\ IsSeq(both) /\ Supplied(both, sent)
          BY <3>7, <4>1, OneAfterAnother, AuthorityListed
        <4>3. PICK c : c = both \o AccountOptions /\ IsSeq(c) /\ Supplied(c, sent)
          BY <2>3, <3>8, <4>2, OneAfterAnother
        <4>4. Supplied(c \o last, sent)
          BY <2>2, <3>9, <4>3, OneAfterAnother
        <4>5. QED
          BY <3>4, <4>2, <4>3, <4>4, Zenon
    <2> HIDE DEF fields, raw, json
    <2>8. QED
      BY <2>4, <2>6, <2>7, ListedOf
  <1>6. QED
    BY <1>1, <1>2, <1>4, <1>5, Zenon DEF Listings

LEMMA UpkeepListed == Listings(UpkeepMembers, UpkeepLists)
  <1>1. /\ DOMAIN UpkeepMembers = {"buy_in_reserving_cancel_all", "witness_update", "table_alive"}
        /\ DOMAIN UpkeepLists = DOMAIN UpkeepMembers
    BY DEF UpkeepMembers, UpkeepLists
  <1>2. Listed("buy_in_reserving_cancel_all", UpkeepMembers["buy_in_reserving_cancel_all"],
               UpkeepLists["buy_in_reserving_cancel_all"])
    BY TwoNames, NameOfField, Plain DEF UpkeepMembers, UpkeepLists
  <1>3. Listed("table_alive", UpkeepMembers["table_alive"], UpkeepLists["table_alive"])
    BY ThreeNames, NameOfField, Plain DEF UpkeepMembers, UpkeepLists
  <1>4. Listed("witness_update", UpkeepMembers["witness_update"], UpkeepLists["witness_update"])
    <2> DEFINE has_url == Always(<<"has_url">>, "bool", TRUE)
               has_key == Always(<<"has_key">>, "bool", TRUE)
               key == From(<<"new_signing_key">>, "key", "new_pub_key")
               fields == <<Asset("fee"), Id("witness"), Id("witness_account"),
                           has_url, String("new_url"), has_key, key>>
               raw == Own(<<"fee", "witness", "witness_account", "has_url", "new_url", "has_key", "new_signing_key">>)
               json == Own(<<"fee", "witness", "witness_account", "new_url", "new_signing_key">>)
    <2>1. /\ UpkeepMembers["witness_update"] = Operation(21, fields)
          /\ UpkeepLists["witness_update"] = Lists(raw, raw, json)
      BY DEF UpkeepMembers, UpkeepLists
    <2>2. raw = NamesOf(fields)
      <3>1. has_url.name = <<"has_url">> /\ has_key.name = <<"has_key">> /\ key.name = <<"new_signing_key">>
        BY DEF Always, From
      <3> HIDE DEF has_url, has_key, key
      <3>2. QED
        BY <3>1, SevenNames, NameOfField
    <2>3. PICK sent : sent = ToSet(json)
      OBVIOUS
    <2>4. sent = {<<"fee">>, <<"witness">>, <<"witness_account">>, <<"new_url">>, <<"new_signing_key">>}
      BY <2>3 DEF ToSet, Own
    <2>5. /\ has_url.name = <<"has_url">> /\ has_url.param = "" /\ has_url.value = TRUE /\ has_url.kind = "bool"
          /\ has_key.name = <<"has_key">> /\ has_key.param = "" /\ has_key.value = TRUE /\ has_key.kind = "bool"
      BY DEF Always
    <2>6. NodeDefault(<<"has_url">>, "bool", sent) = TRUE
      <3>1. NodeDefault(<<"has_url">>, "bool", sent) = (<<"new_url">> \in sent)
        BY Zenon DEF NodeDefault
      <3>2. <<"new_url">> \in sent
        BY <2>4, Zenon
      <3>3. QED
        BY <3>1, <3>2, Zenon
    <2>7. NodeDefault(<<"has_key">>, "bool", sent) = TRUE
      <3>1. <<"has_key">> # <<"has_url">>
        OBVIOUS
      <3>2. NodeDefault(<<"has_key">>, "bool", sent) = (<<"new_signing_key">> \in sent)
        BY <3>1, Zenon DEF NodeDefault
      <3>3. <<"new_signing_key">> \in sent
        BY <2>4, Zenon
      <3>4. QED
        BY <3>2, <3>3, Zenon
    <2>8. Given(has_url, sent) /\ Given(has_key, sent)
      <3> HIDE DEF has_url, has_key
      <3>1. QED
        BY <2>5, <2>6, <2>7, Zenon DEF Given
    <2>9. /\ Given(Asset("fee"), sent) /\ Given(Id("witness"), sent) /\ Given(Id("witness_account"), sent)
          /\ Given(String("new_url"), sent) /\ Given(key, sent)
      <3>1. \A f : f.name \in sent => Given(f, sent)
        BY Zenon DEF Given
      <3>2. QED
        BY <2>4, <3>1, NameOfField
    <2>10. Supplied(fields, sent)
      <3>1. ASSUME NEW a, NEW b, NEW c, NEW d, NEW e, NEW f, NEW g, Given(a, sent), Given(b, sent), Given(c, sent),
                   Given(d, sent), Given(e, sent), Given(f, sent), Given(g, sent)
            PROVE  Supplied(<<a, b, c, d, e, f, g>>, sent)
        BY <3>1 DEF Supplied
      <3> HIDE DEF has_url, has_key, key
      <3>2. QED
        BY <2>8, <2>9, <3>1
    <2> HIDE DEF fields, raw, json
    <2>11. QED
      BY <2>1, <2>2, <2>3, <2>10, ListedOf
  <1>5. QED
    BY <1>1, <1>2, <1>3, <1>4, Zenon DEF Listings

LEMMA AllListed == Listings(Layout, PackLists)
  BY InvitationsListed, TablesListed, GamesListed, BalancesListed, ReservesListed, AccountsListed,
     RoomsListed, UpkeepListed, ListingsMerge, Zenon DEF Layout, PackLists

\* Only of these is the size asked for.
OnlyPriced(charge) == \A t \in DOMAIN charge : charge[t] = "priced" => t \in Priced

LEMMA PricedAreListed == OnlyPriced(Charge)
  <1>1. ASSUME NEW f, NEW g, OnlyPriced(f), OnlyPriced(g) PROVE OnlyPriced(Merge(f, g))
    BY <1>1, Zenon DEF OnlyPriced, Merge
  <1>2. OnlyPriced(PendingBuyinBuilders)
    BY DEF OnlyPriced, PendingBuyinBuilders, Priced
  <1>3. OnlyPriced(InvitationBuilders)
    BY DEF OnlyPriced, InvitationBuilders, Priced
  <1>4. OnlyPriced(TableBuilders)
    BY DEF OnlyPriced, TableBuilders, Priced
  <1>5. OnlyPriced(AccountBuilders)
    BY DEF OnlyPriced, AccountBuilders, Priced
  <1>6. OnlyPriced(RoomBuilders)
    BY DEF OnlyPriced, RoomBuilders, Priced
  <1>7. QED
    BY <1>1, <1>2, <1>3, <1>4, <1>5, <1>6, Zenon DEF Charge

LEMMA NamesAreFound ==
  ASSUME LayoutIsFaithful, NEW t \in DOMAIN Layout, NEW i \in DOMAIN Layout[t].fields
  PROVE  Position(t, Layout[t].fields[i].name) = i
  <1>1. \A j \in DOMAIN Layout[t].fields : Layout[t].fields[j].name = Layout[t].fields[i].name => j = i
    BY Zenon DEF LayoutIsFaithful
  <1>2. QED
    BY <1>1, Zenon DEF Position

\* The bytes are those the node hashes of the operation, and the size is theirs.
LEMMA BytesAreTheNodes ==
  ASSUME LayoutIsFaithful, NEW op, op.type \in DOMAIN Layout
  PROVE  /\ Body(op) = NodeBody(op)
         /\ op.type \in Priced => Size(op) = Len(Body(op))
  <1>1. PICK type, fields, lists :
          /\ type \in DOMAIN Layout /\ type = op.type /\ fields = Layout[type].fields /\ lists = PackLists[type]
    OBVIOUS
  <1>2. lists.raw = NamesOf(fields) /\ (type \in Priced => lists.size = lists.raw)
    BY <1>1, AllListed, Zenon DEF Listings, Listed
  <1>3. DOMAIN lists.raw = DOMAIN fields /\ \A i \in DOMAIN fields : lists.raw[i] = fields[i].name
    BY <1>2 DEF NamesOf
  <1>4. RawOrder[type] = [i \in DOMAIN fields |-> Position(type, lists.raw[i])]
    BY <1>1, <1>3, Zenon DEF RawOrder, Order
  <1>5. \A i \in DOMAIN fields : Position(type, lists.raw[i]) = i
    BY <1>1, <1>3, NamesAreFound, Zenon
  <1>6. PICK order : order = RawOrder[type]
    OBVIOUS
  <1>7. DOMAIN order = DOMAIN fields /\ \A i \in DOMAIN fields : order[i] = i
    BY <1>4, <1>5, <1>6
  <1>8. Body(op) = FlattenSeq([i \in DOMAIN fields |-> Pack(fields[order[i]].kind, op.values[order[i]])])
    BY <1>1, <1>6, <1>7, Zenon DEF Body, Packed
  <1>9. [i \in DOMAIN fields |-> Pack(fields[order[i]].kind, op.values[order[i]])]
          = [i \in DOMAIN fields |-> Pack(fields[i].kind, op.values[i])]
    BY <1>7, Zenon
  <1>10. NodeBody(op) = FlattenSeq([i \in DOMAIN fields |-> Pack(fields[i].kind, op.values[i])])
    BY <1>1, Zenon DEF NodeBody
  <1>11. Body(op) = NodeBody(op)
    BY <1>8, <1>9, <1>10, Zenon
  <1>12. op.type \in Priced => Size(op) = Len(Body(op))
    <2>1. ASSUME op.type \in Priced PROVE SizeOrder[type] = RawOrder[type]
      BY <1>1, <1>2, <2>1, Zenon DEF SizeOrder, RawOrder
    <2>2. QED
      BY <1>1, <2>1, Zenon DEF Size, Body
  <1>13. QED
    BY <1>11, <1>12
-----------------------------------------------------------------------------
(* What the node makes of the JSON of values are the values.               *)

LEMMA ValuesComeBack ==
  ASSUME LayoutIsFaithful, NEW op, Filled(op)
  PROVE  NodeValues(Layout[op.type].fields, JsonBody(op)) = op.values
  <1>1. PICK type, fields, values, sent :
          /\ type \in DOMAIN Layout /\ type = op.type /\ fields = Layout[type].fields /\ values = op.values
          /\ sent = JsonNames[type] /\ Fills(fields, values)
    BY Zenon DEF Filled
  <1>2. Supplied(fields, sent)
    <2>1. sent = ToSet(PackLists[type].json)
      BY <1>1, Zenon DEF JsonNames
    <2>2. QED
      BY <1>1, <2>1, AllListed, Zenon DEF Listings, Listed
  <1>3. PICK body : body = JsonBody(op) /\ body = [name \in sent |-> values[Position(type, name)]]
    BY <1>1, Zenon DEF JsonBody
  <1>4. DOMAIN body = sent
    BY <1>3
  <1>5. ASSUME NEW i \in DOMAIN fields, fields[i].name \in sent PROVE body[fields[i].name] = values[i]
    <2>1. Position(type, fields[i].name) = i
      BY <1>1, NamesAreFound, Zenon
    <2>2. body[fields[i].name] = values[Position(type, fields[i].name)]
      BY <1>3, <1>5, Zenon
    <2>3. QED
      BY <2>1, <2>2, Zenon
  <1>6. ASSUME NEW i \in DOMAIN fields, fields[i].name \notin sent
        PROVE  NodeDefault(fields[i].name, fields[i].kind, sent) = values[i]
    BY <1>1, <1>2, <1>6, Zenon DEF Supplied, Given, Fills
  <1>7. \A i \in DOMAIN fields :
          (IF fields[i].name \in DOMAIN body
             THEN body[fields[i].name]
             ELSE NodeDefault(fields[i].name, fields[i].kind, DOMAIN body)) = values[i]
    BY <1>4, <1>5, <1>6, Zenon
  <1>8. NodeValues(fields, body) = [i \in DOMAIN fields |-> values[i]]
    BY <1>7, Zenon DEF NodeValues
  <1>9. values = [i \in DOMAIN fields |-> values[i]]
    BY <1>1, Zenon DEF Fills
  <1>10. QED
    BY <1>1, <1>3, <1>8, <1>9, Zenon

LEMMA NodeReadsFilled ==
  ASSUME LayoutIsFaithful, NEW op, Filled(op)
  PROVE  NodeReads(Sent(op)) = op
  <1>1. PICK t, values :
          t \in DOMAIN Layout /\ t = op.type /\ values = op.values /\ op = [type |-> t, values |-> values]
    BY Zenon DEF Filled
  <1>2. TypeOf(Layout[t].which) = t
    BY <1>1, Zenon DEF LayoutIsFaithful, TypeOf
  <1>3. PICK js : js = Sent(op) /\ js.which = Layout[t].which /\ js.body = JsonBody(op)
    <2>1. Sent(op) = [which |-> Layout[t].which, body |-> JsonBody(op)]
      BY <1>1, Zenon DEF Sent
    <2>2. QED
      BY <2>1
  <1>4. NodeReads(js) = [type |-> t, values |-> NodeValues(Layout[t].fields, JsonBody(op))]
    BY <1>2, <1>3 DEF NodeReads
  <1>5. NodeValues(Layout[t].fields, JsonBody(op)) = values
    BY <1>1, ValuesComeBack, Zenon
  <1>6. QED
    BY <1>1, <1>3, <1>4, <1>5, Zenon

LEMMA FillFills ==
  ASSUME NEW t \in DOMAIN Layout, NEW args, NEW fee
  PROVE  Filled(Fill(t, args, fee))
  <1>1. PICK fields, values : fields = Layout[t].fields /\ values = [i \in DOMAIN fields |-> FieldValue(fields[i], args, fee)]
    OBVIOUS
  <1>2. Fill(t, args, fee) = [type |-> t, values |-> values]
    BY <1>1, Zenon DEF Fill
  <1>3. \A i \in DOMAIN fields : fields[i].param = "" => FieldValue(fields[i], args, fee) = fields[i].value
    BY Zenon DEF FieldValue
  <1>4. Fills(fields, values)
    BY <1>1, <1>3 DEF Fills
  <1>5. QED
    BY <1>1, <1>2, <1>4 DEF Filled

LEMMA ReturnedKeeps ==
  ASSUME NEW status, NEW ops, ops = [i \in DOMAIN ops |-> ops[i]],
         \A i \in DOMAIN ops : Filled(ops[i]), result' = Returned(status, ops)
  PROVE  IInv'
  <1>1. result'.ops = ops /\ result'.raw = RawList(ops) /\ result'.sent = [i \in DOMAIN ops |-> Sent(ops[i])]
    BY DEF Returned
  <1>2. QED
    BY <1>1 DEF IInv

LEMMA NothingKeeps ==
  ASSUME result'.ops = <<>>, result'.raw = RawList(<<>>), result'.sent = <<>>
  PROVE  IInv'
  BY DEF IInv

LEMMA IInvInit == Init => IInv
  BY DEF Init, Nothing, IInv

LEMMA MakeKeeps ==
  ASSUME LayoutIsFaithful, NEW type \in DOMAIN Charge, NEW args, Make(type, args)
  PROVE  IInv'
  <1>1. type \in DOMAIN Layout
    BY DEF LayoutIsFaithful
  <1>2. PICK op : op = Fill(type, args, Fee(type, args)) /\ Filled(op) /\ result' = Returned("made", <<op>>)
    BY <1>1, FillFills DEF Make
  <1>3. QED
    BY <1>2, ReturnedKeeps

LEMMA RefuseKeeps ==
  ASSUME NEW type, NEW args, RefuseDataFee(type, args) \/ RefuseKey(type, args)
  PROVE  IInv'
  <1>1. PICK status : result' = Returned(status, <<>>)
    BY DEF RefuseDataFee, RefuseKey
  <1>2. <<>> = [i \in DOMAIN <<>> |-> <<>>[i]] /\ \A i \in DOMAIN <<>> : Filled(<<>>[i])
    OBVIOUS
  <1>3. QED
    BY <1>1, <1>2, ReturnedKeeps, Zenon

LEMMA WithdrawKeeps ==
  ASSUME LayoutIsFaithful, NEW owner, NEW ids, NEW amounts, Withdraw(owner, ids, amounts)
  PROVE  IInv'
  <1>1. PICK n, ops : result' = Returned("made", ops) /\ AreWithdrawals(n, ops, owner, ids, amounts)
    BY WithdrawReturns, Zenon
  <1>2. /\ DOMAIN ops = 1..n /\ ops = [i \in 1..n |-> ops[i]]
        /\ \A i \in 1..n : \E b \in DOMAIN ids : ops[i] = Withdrawal(owner, ids[b], amounts[b])
    BY <1>1 DEF AreWithdrawals
  <1>3. \A id, amount : Filled(Withdrawal(owner, id, amount))
    BY FillFills DEF LayoutIsFaithful, Withdrawal
  <1>4. ops = [i \in DOMAIN ops |-> ops[i]] /\ \A i \in DOMAIN ops : Filled(ops[i])
    BY <1>2, <1>3
  <1>5. QED
    BY <1>1, <1>4, ReturnedKeeps

LEMMA IInvStep == LayoutIsFaithful /\ IInv /\ [Next]_vars => IInv'
  <1> SUFFICES ASSUME LayoutIsFaithful, IInv, [Next]_vars PROVE IInv'
    OBVIOUS
  <1>1. ASSUME NEW f \in Fees, UpdateFees(f) PROVE IInv'
    <2>1. result = Nothing /\ result' = [result EXCEPT !.fees = f]
      BY <1>1 DEF UpdateFees, Idle
    <2>2. result'.ops = <<>> /\ result'.raw = RawList(<<>>) /\ result'.sent = <<>>
      BY <2>1 DEF Nothing
    <2>3. QED
      BY <2>2, NothingKeeps
  <1>2. ASSUME TakeResult PROVE IInv'
    BY <1>2, NothingKeeps DEF TakeResult, Nothing
  <1>3. ASSUME UNCHANGED vars PROVE IInv'
    BY <1>3 DEF vars, IInv
  <1>4. QED
    BY <1>1, <1>2, <1>3, MakeKeeps, RefuseKeeps, WithdrawKeeps DEF Next
-----------------------------------------------------------------------------
(* The node that reads the JSON hashes the bytes that were signed, for all *)
(* values, fees and limits (pack_object, twice).                           *)
THEOREM NodeHashesTheSigned ==
  ASSUME LayoutIsFaithful
  PROVE  Spec => []NodeHashesWhatWasSigned
  <1>1. ASSUME IInv PROVE NodeHashesWhatWasSigned
    <2>1. PICK ops : ops = result.ops
      OBVIOUS
    <2>2. [i \in DOMAIN result.sent |-> NodeReads(result.sent[i])] = [i \in DOMAIN ops |-> NodeReads(Sent(ops[i]))]
      BY <1>1, <2>1 DEF IInv
    <2>3. \A i \in DOMAIN ops : NodeReads(Sent(ops[i])) = ops[i]
      BY <1>1, <2>1, NodeReadsFilled DEF IInv
    <2>4. [i \in DOMAIN ops |-> NodeReads(Sent(ops[i]))] = ops
      BY <1>1, <2>1, <2>3 DEF IInv
    <2>5. NodeList(ops) = RawList(ops)
      <3>1. \A i \in DOMAIN ops : NodeRaw(ops[i]) = Raw(ops[i])
        <4>1. \A i \in DOMAIN ops : ops[i].type \in DOMAIN Layout
          BY <1>1, <2>1, Zenon DEF IInv, Filled
        <4>2. QED
          BY <4>1, BytesAreTheNodes, Zenon DEF NodeRaw, Raw
      <3>2. QED
        BY <3>1, Zenon DEF NodeList, RawList
    <2>6. NodeList([i \in DOMAIN result.sent |-> NodeReads(result.sent[i])]) = NodeList(ops)
      BY <2>2, <2>4, Zenon
    <2>7. result.raw = RawList(ops)
      BY <1>1, <2>1, Zenon DEF IInv
    <2>8. QED
      BY <2>5, <2>6, <2>7, Zenon DEF NodeHashesWhatWasSigned
  <1>2. QED
    BY <1>1, IInvInit, IInvStep, PTL DEF Spec
-----------------------------------------------------------------------------
(* Bytes: what the recursive functions compute.                            *)

Bytes == Seq(0..255)

LEMMA OneByte ==
  ASSUME NEW b \in 0..255
  PROVE  <<b>> \in Bytes /\ Len(<<b>>) = 1
  BY DEF Bytes

LEMMA BytesJoin ==
  ASSUME NEW s \in Bytes, NEW t \in Bytes
  PROVE  s \o t \in Bytes /\ Len(s \o t) = Len(s) + Len(t) /\ Len(s) \in Nat /\ Len(t) \in Nat
  BY DEF Bytes

\* A varint's last byte, and one that is followed by more.
LastByte(n) == <<n>>
MoreBytes(n, v) == <<128 + (n % 128)>> \o v

LEMMA VarintBytes ==
  /\ \A n \in 0..127 : LastByte(n) \in Bytes
  /\ \A n \in Nat, v \in Bytes : MoreBytes(n, v) \in Bytes
  <1>1. ASSUME NEW n \in 0..127 PROVE LastByte(n) \in Bytes
    <2>1. n \in 0..255
      OBVIOUS
    <2>2. QED
      BY <2>1, OneByte DEF LastByte
  <1>2. ASSUME NEW n \in Nat, NEW v \in Bytes PROVE MoreBytes(n, v) \in Bytes
    <2>1. PICK b \in 0..255 : b = 128 + (n % 128)
      OBVIOUS
    <2>2. <<b>> \in Bytes
      BY OneByte
    <2>3. QED
      BY <2>1, <2>2, BytesJoin, Zenon DEF MoreBytes
  <1>3. QED
    BY <1>1, <1>2

LEMMA VarintIs ==
  /\ \A n \in Nat : Varint[n] = IF n < 128 THEN LastByte(n) ELSE MoreBytes(n, Varint[n \div 128])
  /\ Varint \in [Nat -> Bytes]
  <1> DEFINE Is(f) == f = [n \in Nat |-> IF n < 128 THEN LastByte(n) ELSE MoreBytes(n, f[n \div 128])]
  <1>1. PICK first, base, smaller :
          first = 0..127 /\ base = [n \in 0..127 |-> LastByte(n)] /\ smaller = [n \in Nat |-> n \div 128]
    OBVIOUS
  <1>2. PICK step : step = [x \in Nat \X Bytes |-> MoreBytes(x[1], x[2])]
    OBVIOUS
  <1>3. \A n \in Nat, v \in Bytes : step[<<n, v>>] = MoreBytes(n, v) /\ step[<<n, v>>] \in Bytes
    BY <1>2, VarintBytes
  <1>4. PICK g \in [Nat -> Bytes] : IsDescent(g, Nat, first, base, smaller, step)
    <2>1. \A n \in Nat : n \in first => base[n] \in Bytes
      BY <1>1, VarintBytes
    <2>2. \A n \in Nat : n \notin first => smaller[n] \in 0..n - 1
      BY <1>1
    <2>3. \A n \in Nat, v \in Bytes : n \notin first => step[<<n, v>>] \in Bytes
      BY <1>3
    <2>4. QED
      BY <2>1, <2>2, <2>3, DescentIsDefined, Zenon
  <1>5. Is(g)
    <2>1. ASSUME NEW n \in Nat
          PROVE  g[n] = IF n < 128 THEN LastByte(n) ELSE MoreBytes(n, g[n \div 128])
      <3>1. g[n] = IF n \in first THEN base[n] ELSE step[<<n, g[smaller[n]]>>]
        BY <1>4 DEF IsDescent
      <3>2. CASE n < 128
        BY <1>1, <3>1, <3>2
      <3>3. CASE ~(n < 128)
        <4>1. PICK k \in Nat : n \notin first /\ smaller[n] = k /\ k = n \div 128
          BY <1>1, <3>3
        <4>2. g[n] = step[<<n, g[k]>>]
          BY <3>1, <4>1
        <4>3. g[n] = MoreBytes(n, g[k])
          BY <1>3, <1>4, <4>1, <4>2
        <4>4. QED
          BY <3>3, <4>1, <4>3
      <3>4. QED
        BY <3>2, <3>3
    <2>2. QED
      BY <1>4, <2>1
  <1>6. Is(Varint)
    <2>1. Varint = CHOOSE f : Is(f)
      BY DEF Varint, LastByte, MoreBytes
    <2> HIDE DEF Is
    <2>2. QED
      BY <1>5, <2>1
  <1>7. \A n \in Nat : Varint[n] = IF n < 128 THEN LastByte(n) ELSE MoreBytes(n, Varint[n \div 128])
    BY <1>6
  <1>8. Varint = [n \in Nat |-> Varint[n]]
    BY <1>6
  <1> HIDE DEF Is
  <1> DEFINE T == {n \in Nat : Varint[n] \in Bytes}
  <1>9. ASSUME NEW n \in Nat, \A k \in 0..n - 1 : k \in T PROVE n \in T
    <2>1. CASE n < 128
      BY <1>7, <2>1, VarintBytes
    <2>2. CASE ~(n < 128)
      <3>1. PICK k \in Nat : k = n \div 128 /\ k \in 0..n - 1
        BY <2>2
      <3>2. Varint[n] = MoreBytes(n, Varint[k]) /\ Varint[k] \in Bytes
        BY <1>7, <1>9, <2>2, <3>1
      <3>3. QED
        BY <3>2, VarintBytes
    <2>3. QED
      BY <2>1, <2>2
  <1>10. T = Nat
    <2> HIDE DEF T
    <2>1. T \in SUBSET Nat
      BY DEF T
    <2>2. QED
      BY <1>9, <2>1, CompleteInduction
  <1>11. QED
    BY <1>7, <1>8, <1>10

OneMore(n, v) == <<n % 256>> \o v

LEMMA LittleEndianIs ==
  /\ \A w \in Nat, n \in Nat : LittleEndian[w][n] = IF w = 0 THEN <<>> ELSE OneMore(n, LittleEndian[w - 1][n \div 256])
  /\ \A w \in Nat, n \in Nat : LittleEndian[w][n] \in Bytes /\ Len(LittleEndian[w][n]) = w
  <1> DEFINE V == [Nat -> Bytes]
             Longer(v) == [n \in Nat |-> OneMore(n, v[n \div 256])]
             None == [n \in Nat |-> <<>>]
             Is(f) == f = [w \in Nat |-> [n \in Nat |-> IF w = 0 THEN <<>> ELSE OneMore(n, f[w - 1][n \div 256])]]
  <1>1. ASSUME NEW n \in Nat, NEW v \in Bytes PROVE OneMore(n, v) \in Bytes /\ Len(OneMore(n, v)) = 1 + Len(v)
    <2>1. PICK b \in 0..255 : b = n % 256
      OBVIOUS
    <2>2. <<b>> \in Bytes /\ Len(<<b>>) = 1
      BY OneByte
    <2>3. OneMore(n, v) \in Bytes /\ Len(OneMore(n, v)) = Len(<<b>>) + Len(v)
      BY <2>1, <2>2, BytesJoin, Zenon DEF OneMore
    <2>4. QED
      BY <2>2, <2>3
  <1>2. \A n \in Nat : n \div 256 \in Nat
    OBVIOUS
  <1>3. ASSUME NEW v \in V PROVE Longer(v) \in V
    BY <1>1, <1>2
  <1>4. None \in V
    BY DEF Bytes
  <1>5. PICK first, base, smaller :
          first = {0} /\ base = [k \in {0} |-> None] /\ smaller = [k \in Nat |-> k - 1]
    OBVIOUS
  <1> HIDE DEF V, Longer, None
  <1>6. PICK step : step = [x \in Nat \X V |-> Longer(x[2])]
    OBVIOUS
  <1>7. \A w \in Nat, v \in V : step[<<w, v>>] = Longer(v) /\ step[<<w, v>>] \in V
    BY <1>3, <1>6
  <1>8. PICK g \in [Nat -> V] : IsDescent(g, Nat, first, base, smaller, step)
    <2>1. \A k \in Nat : k \in first => base[k] \in V
      BY <1>4, <1>5
    <2>2. \A k \in Nat : k \notin first => smaller[k] \in 0..k - 1
      BY <1>5
    <2>3. \A k \in Nat, v \in V : k \notin first => step[<<k, v>>] \in V
      BY <1>7
    <2>4. QED
      BY <2>1, <2>2, <2>3, DescentIsDefined, Zenon
  <1>9. \A w \in Nat : g[w] = IF w = 0 THEN None ELSE Longer(g[w - 1])
    <2>1. ASSUME NEW w \in Nat PROVE g[w] = IF w = 0 THEN None ELSE Longer(g[w - 1])
      <3>1. g[w] = IF w \in first THEN base[w] ELSE step[<<w, g[smaller[w]]>>]
        BY <1>8 DEF IsDescent
      <3>2. CASE w = 0
        BY <1>5, <3>1, <3>2
      <3>3. CASE w # 0
        <4>1. PICK k \in Nat : k = w - 1 /\ w \notin first /\ smaller[w] = k
          BY <1>5, <3>3
        <4>2. QED
          BY <1>7, <1>8, <3>1, <3>3, <4>1
      <3>4. QED
        BY <3>2, <3>3
    <2>2. QED
      BY <2>1
  <1>10. Is(g)
    <2>1. \A w \in Nat : g[w] = [n \in Nat |-> IF w = 0 THEN <<>> ELSE OneMore(n, g[w - 1][n \div 256])]
      BY <1>9 DEF None, Longer
    <2>2. QED
      BY <1>8, <2>1
  <1>11. Is(LittleEndian)
    <2>1. LittleEndian = CHOOSE f : Is(f)
      BY DEF LittleEndian, OneMore
    <2> HIDE DEF Is
    <2>2. QED
      BY <1>10, <2>1
  <1>12. \A w \in Nat, n \in Nat :
           LittleEndian[w][n] = IF w = 0 THEN <<>> ELSE OneMore(n, LittleEndian[w - 1][n \div 256])
    BY <1>11
  <1> HIDE DEF Is
  <1> DEFINE T == {w \in Nat : \A n \in Nat : LittleEndian[w][n] \in Bytes /\ Len(LittleEndian[w][n]) = w}
  <1>13. 0 \in T
    <2>1. <<>> \in Bytes /\ Len(<<>>) = 0
      BY DEF Bytes
    <2>2. \A n \in Nat : LittleEndian[0][n] = <<>>
      BY <1>12
    <2>3. QED
      BY <2>1, <2>2
  <1>14. ASSUME NEW w \in Nat, w \in T PROVE w + 1 \in T
    <2>1. ASSUME NEW n \in Nat PROVE LittleEndian[w + 1][n] \in Bytes /\ Len(LittleEndian[w + 1][n]) = w + 1
      <3>1. PICK k \in Nat : k = n \div 256
        BY <1>2
      <3>2. LittleEndian[w + 1][n] = OneMore(n, LittleEndian[w][k])
        BY <1>12, <3>1
      <3>3. PICK v \in Bytes : v = LittleEndian[w][k] /\ Len(v) = w
        BY <1>14
      <3>4. OneMore(n, v) \in Bytes /\ Len(OneMore(n, v)) = 1 + w
        BY <1>1, <3>3
      <3>5. QED
        BY <3>2, <3>3, <3>4
    <2>2. QED
      BY <2>1
  <1>15. T = Nat
    <2> HIDE DEF T
    <2>1. T \in SUBSET Nat
      BY DEF T
    <2>2. QED
      BY <1>13, <1>14, <2>1, InductionOnNumbers
  <1>16. QED
    BY <1>12, <1>15

LEMMA FlatBytes ==
  ASSUME NEW n \in Nat, NEW seqs \in [1..n -> Bytes]
  PROVE  FlattenSeq(seqs) \in Bytes
  <1>1. PICK h \in [0..n -> Bytes] : IsFlat(h, seqs, n)
    BY FlattensStepByStep DEF Bytes
  <1>2. n \in 0..n
    OBVIOUS
  <1>3. QED
    BY <1>1, <1>2 DEF IsFlat

\* The kinds that stand for one value.
ScalarKinds == {"id", "u16", "u32", "bool", "asset", "string", "key", "signature"}

LEMMA ScalarBytes ==
  ASSUME NEW kind \in ScalarKinds, NEW v, IsScalar(kind, v)
  PROVE  PackScalar(kind, v) \in Bytes
  <1>1. CASE kind = "id"
    <2>1. v \in Nat
      BY <1>1, Zenon DEF IsScalar
    <2>2. PackScalar(kind, v) = Varint[v]
      BY <1>1, Zenon DEF PackScalar
    <2>3. QED
      BY <2>1, <2>2, VarintIs
  <1>2. CASE kind = "u16"
    <2>1. v \in Nat
      BY <1>2, Zenon DEF IsScalar
    <2>2. PackScalar(kind, v) = LittleEndian[2][v]
      BY <1>2, Zenon DEF PackScalar
    <2>3. QED
      BY <2>1, <2>2, LittleEndianIs
  <1>3. CASE kind = "u32"
    <2>1. v \in Nat
      BY <1>3, Zenon DEF IsScalar
    <2>2. PackScalar(kind, v) = LittleEndian[4][v]
      BY <1>3, Zenon DEF PackScalar
    <2>3. QED
      BY <2>1, <2>2, LittleEndianIs
  <1>4. CASE kind = "bool"
    <2>1. PackScalar(kind, v) = IF v THEN <<1>> ELSE <<0>>
      BY <1>4, Zenon DEF PackScalar
    <2>2. <<1>> \in Bytes /\ <<0>> \in Bytes
      BY OneByte
    <2>3. QED
      BY <2>1, <2>2, Zenon
  <1>5. CASE kind = "asset"
    <2>1. v \in [amount : Nat, asset_id : Nat]
      BY <1>5, Zenon DEF IsScalar
    <2>2. PackScalar(kind, v) = LittleEndian[8][v.amount] \o Varint[v.asset_id]
      BY <1>5, Zenon DEF PackScalar
    <2>3. LittleEndian[8][v.amount] \in Bytes /\ Varint[v.asset_id] \in Bytes
      BY <2>1, LittleEndianIs, VarintIs
    <2>4. QED
      BY <2>2, <2>3, BytesJoin, Zenon
  <1>6. CASE kind = "string"
    <2>1. v \in Bytes
      BY <1>6, Zenon DEF IsScalar, Bytes
    <2>2. PackScalar(kind, v) = Varint[Len(v)] \o v
      BY <1>6, Zenon DEF PackScalar
    <2>3. Len(v) \in Nat
      BY <2>1, BytesJoin
    <2>4. Varint[Len(v)] \in Bytes
      BY <2>3, VarintIs
    <2>5. QED
      BY <2>1, <2>2, <2>4, BytesJoin, Zenon
  <1>7. CASE kind \in {"key", "signature"}
    <2>1. v \in Bytes
      BY <1>7, Zenon DEF IsScalar, Bytes
    <2>2. PackScalar(kind, v) = v
      BY <1>7, Zenon DEF PackScalar
    <2>3. QED
      BY <2>1, <2>2
  <1>8. QED
    BY <1>1, <1>2, <1>3, <1>4, <1>5, <1>6, <1>7, Zenon DEF ScalarKinds

\* The elements of an entry are numbers and amounts, at most three.
LEMMA EntryKinds ==
  ASSUME NEW kind \in DOMAIN Entry
  PROVE  /\ Len(Entry[kind]) \in 1..3
         /\ \A j \in 1..Len(Entry[kind]) : Entry[kind][j] \in ScalarKinds
  <1>1. CASE kind = "ids"
    <2>1. Entry[kind] = <<"id">>
      BY <1>1 DEF Entry
    <2>2. QED
      BY <2>1 DEF ScalarKinds
  <1>2. CASE kind = "stakes"
    <2>1. Entry[kind] = <<"id", "asset">>
      BY <1>2 DEF Entry
    <2>2. QED
      BY <2>1 DEF ScalarKinds
  <1>3. CASE kind = "results"
    <2>1. Entry[kind] = <<"id", "asset", "asset">>
      BY <1>3 DEF Entry
    <2>2. QED
      BY <2>1 DEF ScalarKinds
  <1>4. QED
    BY <1>1, <1>2, <1>3 DEF Entry

LEMMA PositionInEntry ==
  ASSUME NEW n \in 1..3, NEW i \in Nat
  PROVE  i \div n \in Nat /\ (i # 0 => 1 + ((i - 1) % n) \in 1..n)
  <1>1. CASE n = 1
    BY <1>1
  <1>2. CASE n = 2
    BY <1>2
  <1>3. CASE n = 3
    BY <1>3
  <1>4. QED
    BY <1>1, <1>2, <1>3

LEMMA ValueBytes ==
  ASSUME NEW kind \in Kinds, NEW v, IsValue(kind, v)
  PROVE  Pack(kind, v) \in Bytes
  <1>1. CASE kind \notin DOMAIN Entry
    <2>1. kind \in ScalarKinds
      BY <1>1 DEF Kinds, ScalarKinds, Entry
    <2>2. IsScalar(kind, v) /\ Pack(kind, v) = PackScalar(kind, v)
      BY <1>1, Zenon DEF IsValue, Pack
    <2>3. QED
      BY <2>1, <2>2, ScalarBytes, Zenon
  <1>2. CASE kind \in DOMAIN Entry
    <2>1. PICK kinds, width :
            /\ kinds = Entry[kind] /\ width = Len(kinds) /\ width \in 1..3
            /\ \A j \in 1..width : kinds[j] \in ScalarKinds
      BY <1>2, EntryKinds, Zenon
    <2>2. /\ Len(v) \in Nat /\ v = [i \in 1..Len(v) |-> v[i]]
          /\ \A i \in 1..Len(v) : IsScalar(kinds[1 + ((i - 1) % width)], v[i])
      BY <1>2, <2>1, Zenon DEF IsValue
    <2>3. PICK n \in Nat : n = Len(v) /\ DOMAIN v = 1..n
      BY <2>2
    <2> DEFINE packed(i) == PackScalar(kinds[1 + ((i - 1) % width)], v[i])
    <2>4. \A i \in 1..n : packed(i) \in Bytes
      <3>1. ASSUME NEW i \in 1..n PROVE kinds[1 + ((i - 1) % width)] \in ScalarKinds
        <4>1. i \in Nat /\ i # 0
          OBVIOUS
        <4>2. 1 + ((i - 1) % width) \in 1..width
          BY <2>1, <4>1, PositionInEntry
        <4>3. QED
          BY <2>1, <4>2, Zenon
      <3>2. QED
        BY <2>2, <2>3, <3>1, ScalarBytes, Zenon
    <2>5. Pack(kind, v) = Varint[n \div width] \o FlattenSeq([i \in 1..n |-> packed(i)])
      BY <1>2, <2>1, <2>3, Zenon DEF Pack, PackContainer
    <2> HIDE DEF packed
    <2>6. FlattenSeq([i \in 1..n |-> packed(i)]) \in Bytes
      <3>1. [i \in 1..n |-> packed(i)] \in [1..n -> Bytes]
        BY <2>4
      <3>2. QED
        BY <3>1, FlatBytes
    <2>7. Varint[n \div width] \in Bytes
      BY <2>1, PositionInEntry, VarintIs
    <2>8. QED
      BY <2>5, <2>6, <2>7, BytesJoin, Zenon
  <1>3. QED
    BY <1>1, <1>2
-----------------------------------------------------------------------------
(* Arguments: what a caller can pass, parameter by parameter.              *)

TypedArgs(type, args) ==
  \A p \in Params(type) : p \in DOMAIN args /\ args[p] \in Values[KindOf(type, p)]

LEMMA ParamsAreFinite ==
  ASSUME LayoutIsTyped, NEW type \in DOMAIN Layout
  PROVE  IsFiniteSet(Params(type))
  <1>1. PICK fields, n : fields = Layout[type].fields /\ n \in Nat /\ DOMAIN fields = 1..n
    BY Zenon DEF LayoutIsTyped, Typed
  <1>2. PICK D : D = 1..n /\ IsFiniteSet(D)
    <2>1. IsFiniteSet(1..n)
      BY <1>1, IntervalIsFinite, Zenon
    <2>2. QED
      BY <2>1
  <1> DEFINE params == {fields[i].param : i \in D}
             param == [i \in D |-> fields[i].param]
  <1>3. param \in Surjection(D, params)
    BY Fun_IsSurj
  <1>4. IsFiniteSet(params)
    BY <1>2, <1>3, FS_Surjection
  <1>5. Params(type) \subseteq params
    BY <1>1, <1>2 DEF Params
  <1>6. QED
    BY <1>4, <1>5, FS_Subset

LEMMA ArgsAreTyped ==
  ASSUME LayoutIsTyped, NEW type \in DOMAIN Layout, NEW args \in Args(type)
  PROVE  TypedArgs(type, args)
  <1>1. PICK S : S = Params(type) /\ IsFiniteSet(S)
    BY ParamsAreFinite
  <1> DEFINE values(p) == Values[KindOf(type, p)]
             All == UNION {values(p) : p \in S}
             V == SUBSET (UNION {[T -> All] : T \in SUBSET S})
             next(p, some) == {With(a, p, v) : a \in some, v \in values(p)}
             pick == [T \in SUBSET S |-> CHOOSE p \in T : TRUE]
             Is(g) == g = [T \in SUBSET S |->
                             IF T = {} THEN {<<>>} ELSE next(CHOOSE p \in T : TRUE, g[T \ {CHOOSE p \in T : TRUE}])]
             fold == CHOOSE g : Is(g)
  <1>2. Args(type) = fold[S]
    BY <1>1 DEF Args, FoldSet, MapThenFoldSet
  <1>3. \E g : Is(g)
    <2>1. {<<>>} \in V
      <3>1. <<>> \in [{} -> All]
        OBVIOUS
      <3>2. QED
        BY <3>1
    <2>2. ASSUME NEW p \in S, NEW some \in V PROVE next(p, some) \in V
      <3>1. ASSUME NEW a \in some, NEW v \in values(p)
            PROVE  \E T \in SUBSET S : With(a, p, v) \in [T -> All]
        <4>1. PICK T \in SUBSET S : a \in [T -> All]
          OBVIOUS
        <4>2. v \in All
          OBVIOUS
        <4> HIDE DEF All, values
        <4>3. With(a, p, v) \in [T \cup {p} -> All]
          BY <4>1, <4>2 DEF With
        <4>4. QED
          BY <4>3
      <3> HIDE DEF All, values
      <3>2. QED
        BY <3>1
    <2> HIDE DEF V, next
    <2>3. PICK step : step = [x \in S \X V |-> next(x[1], x[2])]
      OBVIOUS
    <2>4. \A p \in S, some \in V : step[<<p, some>>] = next(p, some) /\ step[<<p, some>>] \in V
      BY <2>2, <2>3
    <2>5. \A T \in SUBSET S : T # {} => pick[T] \in T
      OBVIOUS
    <2>6. PICK g \in [SUBSET S -> V] : IsFold(g, S, {<<>>}, pick, step)
      <3> HIDE DEF pick
      <3>1. QED
        BY <1>1, <2>1, <2>4, <2>5, FoldOverSubsets, Zenon
    <2>7. ASSUME NEW T \in SUBSET S
          PROVE  g[T] = IF T = {} THEN {<<>>} ELSE next(CHOOSE p \in T : TRUE, g[T \ {CHOOSE p \in T : TRUE}])
      <3>1. g[T] = IF T = {} THEN {<<>>} ELSE step[<<pick[T], g[T \ {pick[T]}]>>]
        BY <2>6 DEF IsFold
      <3>2. CASE T = {}
        BY <3>1, <3>2
      <3>3. CASE T # {}
        <4>1. PICK p \in S : p = pick[T] /\ p = (CHOOSE q \in T : TRUE)
          BY <2>5, <3>3
        <4>2. T \ {p} \in SUBSET S /\ g[T \ {p}] \in V
          OBVIOUS
        <4>3. g[T] = step[<<p, g[T \ {p}]>>]
          BY <3>1, <3>3, <4>1
        <4>4. g[T] = next(p, g[T \ {p}])
          BY <2>4, <4>2, <4>3
        <4>5. QED
          BY <3>3, <4>1, <4>4
      <3>4. QED
        BY <3>2, <3>3
    <2>8. Is(g)
      BY <2>7
    <2>9. QED
      BY <2>8
  <1>4. Is(fold)
    <2> HIDE DEF Is
    <2>1. QED
      BY <1>3
  <1>5. \A T \in SUBSET S :
          fold[T] = IF T = {} THEN {<<>>} ELSE next(CHOOSE p \in T : TRUE, fold[T \ {CHOOSE p \in T : TRUE}])
    <2> HIDE DEF fold, next
    <2>1. QED
      BY <1>4
  <1> HIDE DEF fold, Is
  <1> DEFINE Good(T) == \A a \in fold[T] : \A p \in T : p \in DOMAIN a /\ a[p] \in values(p)
             P == {T \in SUBSET S : Good(T)}
  <1>6. {} \in P
    OBVIOUS
  <1>7. \A p, some : \A a \in next(p, some) : \E b \in some, v \in values(p) : a = With(b, p, v)
    <2> HIDE DEF values
    <2>1. QED
      OBVIOUS
  <1>8. ASSUME NEW T \in SUBSET S, T # {}, \A x \in T : T \ {x} \in P PROVE T \in P
    <2>1. PICK p \in T : p = CHOOSE q \in T : TRUE
      BY <1>8
    <2>2. fold[T] = next(p, fold[T \ {p}])
      <3> HIDE DEF next
      <3>1. QED
        BY <1>5, <1>8, <2>1, Zenon
    <2>3. Good(T \ {p})
      BY <1>8, <2>1
    <2>4. ASSUME NEW a \in fold[T], NEW q \in T PROVE q \in DOMAIN a /\ a[q] \in values(q)
      <3>1. a \in next(p, fold[T \ {p}])
        <4> HIDE DEF next
        <4>1. QED
          BY <2>2
      <3>2. PICK b \in fold[T \ {p}], v \in values(p) : a = With(b, p, v)
        <4> HIDE DEF next, values
        <4>1. QED
          BY <1>7, <3>1
      <3>3. DOMAIN a = DOMAIN b \cup {p} /\ \A r \in DOMAIN a : a[r] = IF r = p THEN v ELSE b[r]
        BY <3>2 DEF With
      <3>4. q # p => q \in DOMAIN b /\ b[q] \in values(q)
        BY <2>3
      <3> HIDE DEF values
      <3>5. QED
        BY <3>3, <3>4
    <2>5. QED
      BY <2>4
  <1>9. S \in P
    <2>1. P \in SUBSET SUBSET S
      OBVIOUS
    <2> HIDE DEF P
    <2>2. QED
      BY <1>1, <1>6, <1>8, <2>1, InductionOnSubsets
  <1>10. QED
    BY <1>1, <1>2, <1>9 DEF TypedArgs

\* What a caller can pass for a parameter of a kind.
LEMMA ValuesOfKinds ==
  /\ \A kind \in {"id", "asset", "u16", "u32"} : \A v \in Values[kind] : v \in Nat
  /\ \A v \in Values["bool"] : v \in BOOLEAN
  /\ \A kind \in {"string", "key", "signature"} : \A v \in Values[kind] : v \in Bytes
  /\ \A kind \in {"ids", "stakes", "results"} : \A v \in Values[kind] : v \in Seq(Nat)
  BY ValuesAssumption DEF Bytes

Amount(n, asset) == [amount |-> n, asset_id |-> asset]

LEMMA NumbersAreValues ==
  ASSUME NEW v \in Seq(Nat)
  PROVE  IsValue("ids", v)
  <1>1. Entry["ids"] = <<"id">> /\ "ids" \in DOMAIN Entry
    BY DEF Entry
  <1>2. Len(v) \in Nat /\ v = [i \in 1..Len(v) |-> v[i]] /\ \A i \in 1..Len(v) : v[i] \in Nat
    OBVIOUS
  <1>3. Len(Entry["ids"]) = 1 /\ \A i \in 1..Len(v) : 1 + ((i - 1) % 1) = 1
    BY <1>1
  <1>4. Entry["ids"][1] = "id"
    BY <1>1
  <1>5. \A i \in 1..Len(v) : IsScalar("id", v[i])
    BY <1>2, Zenon DEF IsScalar
  <1>6. QED
    BY <1>1, <1>2, <1>3, <1>4, <1>5, Zenon DEF IsValue

\* A list of entries, each of them a number followed by amounts.
Entries(kind, v, asset) ==
  [i \in DOMAIN v |-> IF (i - 1) % Len(Entry[kind]) = 0 THEN v[i] ELSE Amount(v[i], asset)]

LEMMA EntriesAreValues ==
  ASSUME NEW kind \in {"stakes", "results"}, NEW v \in Seq(Nat), NEW asset \in Nat
  PROVE  IsValue(kind, Entries(kind, v, asset))
  <1>1. PICK kinds, width, n, list :
          kinds = Entry[kind] /\ width = Len(kinds) /\ n = Len(v) /\ list = Entries(kind, v, asset)
    OBVIOUS
  <1>2. /\ kind \in DOMAIN Entry /\ width \in {2, 3} /\ kinds[1] = "id"
        /\ \A j \in 1..width : j # 1 => kinds[j] = "asset"
    <2>1. CASE kind = "stakes"
      <3>1. kinds = <<"id", "asset">>
        BY <1>1, <2>1 DEF Entry
      <3>2. QED
        BY <1>1, <2>1, <3>1 DEF Entry
    <2>2. CASE kind = "results"
      <3>1. kinds = <<"id", "asset", "asset">>
        BY <1>1, <2>2 DEF Entry
      <3>2. QED
        BY <1>1, <2>2, <3>1 DEF Entry
    <2>3. QED
      BY <2>1, <2>2
  <1>3. n \in Nat /\ DOMAIN v = 1..n /\ \A i \in 1..n : v[i] \in Nat
    BY <1>1
  <1>4. list = [i \in 1..n |-> IF (i - 1) % width = 0 THEN v[i] ELSE Amount(v[i], asset)]
    BY <1>1, <1>3, Zenon DEF Entries
  <1>5. DOMAIN list = 1..n /\ Len(list) = n /\ list = [i \in 1..n |-> list[i]]
    BY <1>3, <1>4
  <1>6. ASSUME NEW i \in 1..n PROVE IsScalar(kinds[1 + ((i - 1) % width)], list[i])
    <2>1. 1 + ((i - 1) % width) \in 1..width
      BY <1>2, <1>3
    <2>2. CASE (i - 1) % width = 0
      <3>1. list[i] \in Nat /\ 1 + ((i - 1) % width) = 1
        BY <1>3, <1>4, <2>2
      <3>2. IsScalar("id", list[i])
        BY <3>1, Zenon DEF IsScalar
      <3>3. QED
        BY <1>2, <3>1, <3>2, Zenon
    <2>3. CASE (i - 1) % width # 0
      <3>1. 1 + ((i - 1) % width) # 1
        BY <1>2, <1>3, <2>3
      <3>2. kinds[1 + ((i - 1) % width)] = "asset"
        BY <1>2, <2>1, <3>1, Zenon
      <3>3. list[i] = Amount(v[i], asset) /\ v[i] \in Nat
        BY <1>3, <1>4, <2>3, Zenon
      <3>4. list[i] \in [amount : Nat, asset_id : Nat]
        BY <3>3 DEF Amount
      <3>5. IsScalar("asset", list[i])
        BY <3>4, Zenon DEF IsScalar
      <3>6. QED
        BY <3>2, <3>5, Zenon
    <2>4. QED
      BY <2>2, <2>3
  <1>7. QED
    BY <1>1, <1>2, <1>3, <1>5, <1>6, Zenon DEF IsValue

LEMMA FieldsHoldValues ==
  ASSUME LayoutIsTyped, fees \in Fees, NEW type \in DOMAIN Layout, NEW i \in DOMAIN Layout[type].fields,
         NEW args, TypedArgs(type, args), NEW fee \in Nat
  PROVE  IsValue(Layout[type].fields[i].kind, FieldValue(Layout[type].fields[i], args, fee))
  <1>1. PICK fields, f : fields = Layout[type].fields /\ f = fields[i]
    OBVIOUS
  <1>2. PICK asset \in Nat : asset = fees.asset
    BY FeesAssumption
  <1>3. /\ f.kind \in Kinds /\ (f.param = "fee" => i = 1) /\ (f.param = "" => IsValue(f.kind, f.value))
        /\ f.param \notin {"", "fee"} => KindOf(type, f.param) = f.kind
        /\ fields[1].kind = "asset"
    BY <1>1, Zenon DEF LayoutIsTyped, Typed
  <1>4. CASE f.param = ""
    BY <1>1, <1>3, <1>4, Zenon DEF FieldValue
  <1>5. CASE f.param = "fee"
    <2>1. FieldValue(f, args, fee) = Amount(fee, asset)
      BY <1>2, <1>5, Zenon DEF FieldValue, Amount
    <2>2. Amount(fee, asset) \in [amount : Nat, asset_id : Nat]
      BY DEF Amount
    <2>3. IsScalar("asset", Amount(fee, asset)) /\ "asset" \notin DOMAIN Entry
      BY <2>2, Zenon DEF IsScalar, Entry
    <2>4. QED
      BY <1>1, <1>3, <1>5, <2>1, <2>3, Zenon DEF IsValue
  <1>6. CASE f.param \notin {"", "fee"}
    <2>1. PICK v : v = args[f.param] /\ v \in Values[f.kind]
      <3>1. f.param \in Params(type)
        BY <1>1, <1>6 DEF Params
      <3>2. QED
        BY <1>3, <1>6, <3>1 DEF TypedArgs
    <2>2. CASE f.kind = "asset"
      <3>1. v \in Nat
        BY <2>1, <2>2, ValuesOfKinds
      <3>2. FieldValue(f, args, fee) = Amount(v, asset)
        BY <1>2, <1>6, <2>1, <2>2, Zenon DEF FieldValue, Amount
      <3>3. Amount(v, asset) \in [amount : Nat, asset_id : Nat]
        BY <3>1 DEF Amount
      <3>4. IsScalar("asset", Amount(v, asset)) /\ "asset" \notin DOMAIN Entry
        BY <3>3, Zenon DEF IsScalar, Entry
      <3>5. QED
        BY <1>1, <2>2, <3>2, <3>4, Zenon DEF IsValue
    <2>3. CASE f.kind \in {"stakes", "results"}
      <3>1. v \in Seq(Nat)
        BY <2>1, <2>3, ValuesOfKinds
      <3>2. FieldValue(f, args, fee) = Entries(f.kind, v, asset)
        BY <1>2, <1>6, <2>1, <2>3, Zenon DEF FieldValue, Amount, Entries
      <3>3. QED
        BY <1>1, <2>3, <3>1, <3>2, EntriesAreValues, Zenon
    <2>4. CASE f.kind \notin {"asset", "stakes", "results"}
      <3>1. FieldValue(f, args, fee) = v
        BY <1>6, <2>1, <2>4, Zenon DEF FieldValue
      <3>2. IsValue(f.kind, v)
        <4>1. CASE f.kind = "ids"
          BY <2>1, <4>1, ValuesOfKinds, NumbersAreValues
        <4>2. CASE f.kind \in {"id", "u16", "u32"}
          <5>1. v \in Nat /\ f.kind \notin DOMAIN Entry
            BY <2>1, <4>2, ValuesOfKinds DEF Entry
          <5>2. QED
            BY <4>2, <5>1, Zenon DEF IsValue, IsScalar
        <4>3. CASE f.kind = "bool"
          <5>1. v \in BOOLEAN /\ f.kind \notin DOMAIN Entry
            BY <2>1, <4>3, ValuesOfKinds DEF Entry
          <5>2. QED
            BY <4>3, <5>1, Zenon DEF IsValue, IsScalar
        <4>4. CASE f.kind \in {"string", "key", "signature"}
          <5>1. v \in Bytes /\ f.kind \notin DOMAIN Entry
            BY <2>1, <4>4, ValuesOfKinds DEF Entry
          <5>2. QED
            BY <4>4, <5>1, Zenon DEF IsValue, IsScalar, Bytes
        <4>5. QED
          BY <1>3, <2>4, <4>1, <4>2, <4>3, <4>4, Zenon DEF Kinds
      <3>3. QED
        BY <1>1, <3>1, <3>2, Zenon
    <2>5. QED
      BY <2>2, <2>3, <2>4
  <1>7. QED
    BY <1>4, <1>5, <1>6
-----------------------------------------------------------------------------
(* The size of an operation does not depend on the fee it holds.           *)

LEMMA SameLengthsSameSize ==
  ASSUME NEW n \in Nat, NEW s \in [1..n -> Bytes], NEW t \in [1..n -> Bytes],
         \A i \in 1..n : Len(s[i]) = Len(t[i])
  PROVE  Len(FlattenSeq(s)) = Len(FlattenSeq(t))
  <1>1. PICK g \in [0..n -> Bytes] : IsFlat(g, s, n)
    BY FlattensStepByStep DEF Bytes
  <1>2. PICK h \in [0..n -> Bytes] : IsFlat(h, t, n)
    BY FlattensStepByStep DEF Bytes
  <1> DEFINE T == {k \in Nat : k <= n => Len(g[k]) = Len(h[k])}
  <1>3. 0 \in T
    BY <1>1, <1>2 DEF IsFlat
  <1>4. ASSUME NEW k \in Nat, k \in T PROVE k + 1 \in T
    <2> SUFFICES ASSUME k + 1 <= n PROVE Len(g[k + 1]) = Len(h[k + 1])
      OBVIOUS
    <2>1. k + 1 \in 1..n /\ (k + 1) - 1 = k /\ k \in 0..n
      OBVIOUS
    <2>2. PICK x, y : x = s[k + 1] /\ y = t[k + 1] /\ x \in Bytes /\ y \in Bytes /\ Len(x) = Len(y)
      BY <2>1
    <2>3. PICK v, w : v = g[k] /\ w = h[k] /\ v \in Bytes /\ w \in Bytes /\ Len(v) = Len(w)
      BY <1>4, <2>1
    <2>4. g[k + 1] = Joined(v, x) /\ h[k + 1] = Joined(w, y)
      BY <1>1, <1>2, <2>1, <2>2, <2>3, Zenon DEF IsFlat
    <2>5. Len(Joined(v, x)) = Len(v) + Len(x) /\ Len(Joined(w, y)) = Len(w) + Len(y)
      BY <2>2, <2>3, BytesJoin, Zenon DEF Joined
    <2>6. QED
      BY <2>2, <2>3, <2>4, <2>5
  <1>5. n \in T
    <2> HIDE DEF T
    <2>1. T \in SUBSET Nat
      BY DEF T
    <2>2. QED
      BY <1>3, <1>4, <2>1, InductionOnNumbers
  <1>6. Len(g[n]) = Len(h[n])
    BY <1>5
  <1>7. FlattenSeq(s) = g[n] /\ FlattenSeq(t) = h[n]
    BY <1>1, <1>2, Zenon DEF IsFlat
  <1>8. QED
    BY <1>6, <1>7, Zenon

LEMMA FeeHasOneLength ==
  ASSUME NEW m \in Nat, NEW n \in Nat, NEW asset \in Nat
  PROVE  Len(Pack("asset", Amount(m, asset))) = Len(Pack("asset", Amount(n, asset)))
  <1>1. ASSUME NEW k \in Nat
        PROVE  Len(Pack("asset", Amount(k, asset))) = 8 + Len(Varint[asset])
    <2>1. "asset" \notin DOMAIN Entry
      BY DEF Entry
    <2>2. Amount(k, asset).amount = k /\ Amount(k, asset).asset_id = asset
      BY DEF Amount
    <2>3. Pack("asset", Amount(k, asset)) = LittleEndian[8][k] \o Varint[asset]
      BY <2>1, <2>2, Zenon DEF Pack, PackScalar
    <2>4. LittleEndian[8][k] \in Bytes /\ Len(LittleEndian[8][k]) = 8
      BY LittleEndianIs
    <2>5. Varint[asset] \in Bytes
      BY VarintIs
    <2>6. QED
      BY <2>2, <2>3, <2>4, <2>5, BytesJoin, Zenon
  <1>2. QED
    BY <1>1

LEMMA BytesOfAnyFee ==
  ASSUME LayoutIsFaithful, LayoutIsTyped, fees \in Fees, NEW type \in DOMAIN Layout, NEW args, TypedArgs(type, args),
         NEW m \in Nat, NEW n \in Nat
  PROVE  /\ Len(Body(Fill(type, args, m))) \in Nat
         /\ Len(Body(Fill(type, args, m))) = Len(Body(Fill(type, args, n)))
         /\ Fill(type, args, m).values[1] = Amount(m, fees.asset)
  <1>1. PICK fields, count :
          /\ fields = Layout[type].fields /\ count \in Nat \ {0} /\ DOMAIN fields = 1..count
          /\ fields[1].param = "fee" /\ fields[1].kind = "asset"
          /\ \A i \in DOMAIN fields : fields[i].kind \in Kinds /\ (fields[i].param = "fee" => i = 1)
    BY Zenon DEF LayoutIsTyped, Typed
  <1>2. PICK asset \in Nat : asset = fees.asset
    BY FeesAssumption
  <1> DEFINE value(i, fee) == FieldValue(fields[i], args, fee)
             packed(fee) == [i \in 1..count |-> Pack(fields[i].kind, value(i, fee))]
  <1>3. ASSUME NEW fee \in Nat
        PROVE  /\ Len(Body(Fill(type, args, fee))) = Len(FlattenSeq(packed(fee)))
               /\ packed(fee) \in [1..count -> Bytes]
               /\ Fill(type, args, fee).values[1] = value(1, fee)
    <2>1. PICK op : op = Fill(type, args, fee) /\ op.type = type /\ op.values = [i \in 1..count |-> value(i, fee)]
      <3>1. PICK values : values = [i \in 1..count |-> value(i, fee)]
        OBVIOUS
      <3>2. Fill(type, args, fee) = [type |-> type, values |-> values]
        BY <1>1, <3>1, Zenon DEF Fill
      <3>3. Fill(type, args, fee).type = type /\ Fill(type, args, fee).values = values
        BY <3>2
      <3> HIDE DEF value
      <3>4. QED
        BY <3>1, <3>3, Zenon
    <2>2. \A i \in 1..count : Pack(fields[i].kind, op.values[i]) = packed(fee)[i]
      BY <2>1
    <2>3. Body(op) = FlattenSeq([i \in 1..count |-> Pack(fields[i].kind, op.values[i])])
      <3>1. op.type \in DOMAIN Layout
        BY <2>1, Zenon
      <3>2. Body(op) = NodeBody(op)
        BY <3>1, BytesAreTheNodes, Zenon
      <3>3. QED
        BY <1>1, <2>1, <3>2, Zenon DEF NodeBody
    <2>4. [i \in 1..count |-> Pack(fields[i].kind, op.values[i])] = packed(fee)
      BY <2>2
    <2>5. \A i \in 1..count : Pack(fields[i].kind, value(i, fee)) \in Bytes
      BY <1>1, FieldsHoldValues, ValueBytes, Zenon
    <2>6. packed(fee) \in [1..count -> Bytes]
      <3> HIDE DEF value
      <3>1. QED
        BY <2>5
    <2>7. op.values[1] = value(1, fee)
      <3>1. 1 \in 1..count
        BY <1>1
      <3> HIDE DEF value
      <3>2. QED
        BY <2>1, <3>1
    <2>8. QED
      BY <2>1, <2>3, <2>4, <2>6, <2>7, Zenon
  <1>4. \A fee \in Nat : value(1, fee) = Amount(fee, asset)
    BY <1>1, <1>2, Zenon DEF FieldValue, Amount
  <1>5. \A i \in 1..count : i # 1 => value(i, m) = value(i, n)
    BY <1>1, Zenon DEF FieldValue
  <1> HIDE DEF value
  <1>6. \A i \in 1..count : Len(packed(m)[i]) = Len(packed(n)[i])
    <2>1. ASSUME NEW i \in 1..count PROVE Len(packed(m)[i]) = Len(packed(n)[i])
      <3>1. CASE i = 1
        <4>1. \A fee \in Nat : packed(fee)[i] = Pack("asset", Amount(fee, asset))
          BY <1>1, <1>4, <3>1
        <4> HIDE DEF packed
        <4>2. packed(m)[i] = Pack("asset", Amount(m, asset)) /\ packed(n)[i] = Pack("asset", Amount(n, asset))
          BY <4>1, Zenon
        <4>3. Len(Pack("asset", Amount(m, asset))) = Len(Pack("asset", Amount(n, asset)))
          BY FeeHasOneLength, Zenon
        <4>4. QED
          BY <4>2, <4>3, Zenon
      <3>2. CASE i # 1
        BY <1>5, <3>2
      <3>3. QED
        BY <3>1, <3>2
    <2>2. QED
      BY <2>1
  <1> HIDE DEF packed
  <1>7. Len(FlattenSeq(packed(m))) = Len(FlattenSeq(packed(n)))
    BY <1>1, <1>3, <1>6, SameLengthsSameSize
  <1>8. FlattenSeq(packed(m)) \in Bytes
    BY <1>1, <1>3, FlatBytes
  <1>9. QED
    BY <1>2, <1>3, <1>4, <1>7, <1>8 DEF Bytes

\* And so the size that is asked for is the size of the bytes, whatever the fee.
LEMMA SizeIsOfAnyFee ==
  ASSUME LayoutIsFaithful, LayoutIsTyped, fees \in Fees, NEW type \in DOMAIN Charge, Charge[type] = "priced",
         NEW args, TypedArgs(type, args), NEW m \in Nat, NEW n \in Nat
  PROVE  /\ Size(Fill(type, args, m)) \in Nat
         /\ Len(Body(Fill(type, args, n))) = Size(Fill(type, args, m))
         /\ Fill(type, args, n).values[1] = Amount(n, fees.asset)
  <1>1. type \in DOMAIN Layout
    BY Zenon DEF LayoutIsFaithful
  <1>2. type \in Priced
    BY PricedAreListed, Zenon DEF OnlyPriced
  <1>3. PICK op : op = Fill(type, args, m) /\ op.type = type
    <2>1. Fill(type, args, m).type = type
      BY DEF Fill
    <2>2. QED
      BY <2>1, Zenon
  <1>4. Size(op) = Len(Body(op))
    BY <1>1, <1>2, <1>3, BytesAreTheNodes, Zenon
  <1>5. /\ Len(Body(Fill(type, args, m))) \in Nat
        /\ Len(Body(Fill(type, args, m))) = Len(Body(Fill(type, args, n)))
    BY <1>1, BytesOfAnyFee
  <1>6. Fill(type, args, n).values[1] = Amount(n, fees.asset)
    BY <1>1, BytesOfAnyFee
  <1>7. QED
    BY <1>3, <1>4, <1>5, <1>6, Zenon
-----------------------------------------------------------------------------
(* What is charged covers what it is charged for.                          *)

\* An operation with a data fee pays for its size.
Covers(op, settings) ==
  op.type \in DOMAIN Charge /\ Charge[op.type] = "priced" =>
    /\ op.values[1].amount >= settings.basic + ((Len(Body(op)) * settings.price) \div 1024)
    /\ op.values[1].asset_id = settings.asset

Covered(res) == \A i \in DOMAIN res.ops : Covers(res.ops[i], res.fees)

PaidInv == fees \in Fees /\ Covered(result)

LEMMA FilledIsCovered ==
  ASSUME LayoutIsFaithful, LayoutIsTyped, fees \in Fees, NEW type \in DOMAIN Layout, NEW args \in Args(type)
  PROVE  Covers(Fill(type, args, Fee(type, args)), fees)
  <1> SUFFICES ASSUME type \in DOMAIN Charge, Charge[type] = "priced"
               PROVE  Covers(Fill(type, args, Fee(type, args)), fees)
    <2>1. Fill(type, args, Fee(type, args)).type = type
      BY DEF Fill
    <2>2. QED
      BY <2>1, Zenon DEF Covers
  <1>1. PICK basic \in Nat, price \in Nat : basic = fees.basic /\ price = fees.price
    BY FeesAssumption
  <1>2. TypedArgs(type, args)
    BY ArgsAreTyped
  <1>3. PICK size \in Nat : size = Size(Fill(type, args, basic))
    BY <1>2, SizeIsOfAnyFee
  <1>4. (size * price) \div 1024 \in Nat
    <2>1. size * price \in Nat
      OBVIOUS
    <2>2. QED
      BY <2>1
  <1>5. PICK fee : fee = Fee(type, args)
    OBVIOUS
  <1>6. fee = basic + ((size * price) \div 1024)
    BY <1>1, <1>3, <1>5, Zenon DEF Fee, DataFee
  <1>7. fee \in Nat
    BY <1>4, <1>6
  <1>8. PICK op : op = Fill(type, args, fee) /\ Len(Body(op)) = size /\ op.values[1] = Amount(fee, fees.asset)
    <2>1. /\ Len(Body(Fill(type, args, fee))) = Size(Fill(type, args, basic))
          /\ Fill(type, args, fee).values[1] = Amount(fee, fees.asset)
      BY <1>2, <1>7, SizeIsOfAnyFee
    <2>2. QED
      BY <1>3, <2>1, Zenon
  <1>9. op.values[1].amount = fee /\ op.values[1].asset_id = fees.asset
    BY <1>8 DEF Amount
  <1>10. op.values[1].amount >= fees.basic + ((Len(Body(op)) * fees.price) \div 1024)
    <2>1. fees.basic + ((Len(Body(op)) * fees.price) \div 1024) = fee
      BY <1>1, <1>6, <1>8
    <2>2. QED
      BY <1>7, <1>9, <2>1
  <1>11. QED
    BY <1>5, <1>8, <1>9, <1>10, Zenon DEF Covers

LEMMA ReturnedIsCovered ==
  ASSUME NEW status, NEW ops, \A i \in DOMAIN ops : Covers(ops[i], fees), result' = Returned(status, ops)
  PROVE  Covered(result')
  <1>1. result'.ops = ops /\ result'.fees = fees
    BY DEF Returned
  <1>2. QED
    BY <1>1, Zenon DEF Covered

LEMMA PaidInvStep ==
  ASSUME LayoutIsFaithful, LayoutIsTyped, PaidInv, [Next]_vars
  PROVE  PaidInv'
  <1>1. ASSUME NEW f \in Fees, UpdateFees(f) PROVE PaidInv'
    <2>1. result = Nothing /\ result' = [result EXCEPT !.fees = f] /\ fees' = f
      BY <1>1 DEF UpdateFees, Idle
    <2>2. result'.ops = <<>>
      BY <2>1 DEF Nothing
    <2>3. QED
      BY <2>1, <2>2 DEF PaidInv, Covered
  <1>2. ASSUME TakeResult PROVE PaidInv'
    <2>1. result'.ops = <<>> /\ fees' = fees
      BY <1>2 DEF TakeResult, Nothing
    <2>2. QED
      BY <2>1 DEF PaidInv, Covered
  <1>3. ASSUME NEW type \in DOMAIN Charge, NEW args \in Args(type),
               Make(type, args) \/ RefuseDataFee(type, args) \/ RefuseKey(type, args)
        PROVE  PaidInv'
    <2>1. fees' = fees
      BY <1>3 DEF Make, RefuseDataFee, RefuseKey
    <2>2. CASE Make(type, args)
      <3>1. PICK op : op = Fill(type, args, Fee(type, args)) /\ result' = Returned("made", <<op>>)
        BY <2>2 DEF Make
      <3>2. type \in DOMAIN Layout
        BY DEF LayoutIsFaithful
      <3>3. Covers(op, fees)
        BY <3>1, <3>2, FilledIsCovered DEF PaidInv
      <3>4. \A i \in DOMAIN <<op>> : Covers(<<op>>[i], fees)
        BY <3>3
      <3>5. QED
        BY <2>1, <3>1, <3>4, ReturnedIsCovered DEF PaidInv
    <2>3. CASE RefuseDataFee(type, args) \/ RefuseKey(type, args)
      <3>1. PICK status : result' = Returned(status, <<>>)
        BY <2>3 DEF RefuseDataFee, RefuseKey
      <3>2. result'.ops = <<>>
        BY <3>1 DEF Returned
      <3>3. QED
        BY <2>1, <3>2 DEF PaidInv, Covered
    <2>4. QED
      BY <1>3, <2>2, <2>3
  <1>4. ASSUME NEW owner, NEW ids, NEW amounts, Withdraw(owner, ids, amounts) PROVE PaidInv'
    <2>1. PICK n, ops :
            result' = Returned("made", ops) /\ fees' = fees /\ AreWithdrawals(n, ops, owner, ids, amounts)
      BY <1>4, WithdrawReturns, Zenon
    <2>2. DOMAIN ops = 1..n /\ \A i \in 1..n : \E b \in DOMAIN ids : ops[i] = Withdrawal(owner, ids[b], amounts[b])
      BY <2>1 DEF AreWithdrawals
    <2>3. \A id, amount : Withdrawal(owner, id, amount).type = "vesting_balance_withdraw"
      BY DEF Fill, Withdrawal
    <2>4. \A i \in DOMAIN ops : ops[i].type \notin DOMAIN Charge
      <3>1. "vesting_balance_withdraw" \notin DOMAIN Charge
        BY DEF LayoutIsTyped
      <3>2. ASSUME NEW i \in DOMAIN ops PROVE ops[i].type = "vesting_balance_withdraw"
        <4>1. i \in 1..n
          BY <2>2, Zenon
        <4>2. PICK b \in DOMAIN ids : ops[i] = Withdrawal(owner, ids[b], amounts[b])
          BY <2>2, <4>1, Zenon
        <4>3. Withdrawal(owner, ids[b], amounts[b]).type = "vesting_balance_withdraw"
          BY <2>3, Zenon
        <4>4. QED
          BY <4>2, <4>3, Zenon
      <3>3. QED
        BY <3>1, <3>2, Zenon
    <2>5. \A i \in DOMAIN ops : Covers(ops[i], fees)
      BY <2>4, Zenon DEF Covers
    <2>6. QED
      BY <2>1, <2>5, ReturnedIsCovered DEF PaidInv
  <1>5. ASSUME UNCHANGED vars PROVE PaidInv'
    BY <1>5 DEF vars, PaidInv
  <1>6. QED
    BY <1>1, <1>2, <1>3, <1>4, <1>5, Zenon DEF Next

(* An operation with a data fee pays for the size it has in the end, in    *)
(* the asset of the settings, although the fee is computed from the size   *)
(* it had with another fee in it (calculate_data_fee).                     *)
THEOREM PaysForItsSize ==
  ASSUME LayoutIsFaithful, LayoutIsTyped
  PROVE  Spec => []FeeCoversSize
  <1>1. Init => PaidInv
    BY DEF Init, Nothing, PaidInv, Covered
  <1>2. ASSUME PaidInv PROVE FeeCoversSize
    BY <1>2, Zenon DEF PaidInv, Covered, Covers, FeeCoversSize
  <1>3. QED
    BY <1>1, <1>2, PaidInvStep, PTL DEF Spec
-----------------------------------------------------------------------------
(* Reading: every number ends where its reader finds its end.              *)

LEMMA ByteAhead ==
  ASSUME NEW b \in 0..255, NEW s \in Bytes
  PROVE  /\ <<b>> \o s \in Bytes /\ <<b>> \o s # <<>>
         /\ Head(<<b>> \o s) = b /\ Tail(<<b>> \o s) = s
  <1>1. <<b>> \in Bytes
    BY OneByte
  <1>2. PICK u : u = <<b>> \o s /\ u \in Bytes /\ Len(u) = 1 + Len(s) /\ Len(s) \in Nat
    BY <1>1, BytesJoin, OneByte, Zenon
  <1>3. u[1] = b /\ \A i \in 1..Len(s) : u[i + 1] = s[i]
    BY <1>2 DEF Bytes
  <1>4. u # <<>> /\ Head(u) = b
    BY <1>2, <1>3 DEF Bytes
  <1>5. Tail(u) = [i \in 1..Len(s) |-> u[i + 1]]
    BY <1>2, <1>4 DEF Bytes
  <1>6. Tail(u) = [i \in 1..Len(s) |-> s[i]]
    BY <1>3, <1>5
  <1>7. s = [i \in 1..Len(s) |-> s[i]]
    BY DEF Bytes
  <1>8. QED
    BY <1>2, <1>4, <1>6, <1>7

LEMMA BytesAssociate ==
  ASSUME NEW s \in Bytes, NEW t \in Bytes, NEW u \in Bytes
  PROVE  (s \o t) \o u = s \o (t \o u)
  BY DEF Bytes

LEMMA TailIsBytes ==
  ASSUME NEW s \in Bytes, s # <<>>
  PROVE  Tail(s) \in Bytes /\ Head(s) \in 0..255
  BY HeadTailProperties, Zenon DEF Bytes

\* A number that was read, and what follows it.
Readings == [value : Nat, rest : Bytes]

LEMMA ReadIs ==
  /\ \A n \in Nat, s \in Bytes : Read(n, s) \in Readings
  /\ \A r \in Readings : r.value \in Nat /\ r.rest \in Bytes
  /\ \A v, s : Read(v, s).value = v /\ Read(v, s).rest = s
  BY DEF Read, Readings

(* A reader of numbers takes a byte after the other: it is defined.        *)
IsReader(g, from) ==
  \A m \in Nat, s \in Bytes :
    g[m][s] = IF m = 0 \/ s = <<>> THEN Read(0, s) ELSE from[<<s, g[m - 1][Tail(s)]>>]

LEMMA ReaderIsDefined ==
  ASSUME NEW from, \A s \in Bytes, r \in Readings : s # <<>> => from[<<s, r>>] \in Readings
  PROVE  \E g \in [Nat -> [Bytes -> Readings]] : IsReader(g, from)
  <1> DEFINE V == [Bytes -> Readings]
             base == [s \in Bytes |-> Read(0, s)]
             longer(v) == [s \in Bytes |-> IF s = <<>> THEN Read(0, s) ELSE from[<<s, v[Tail(s)]>>]]
  <1>1. base \in V
    BY ReadIs
  <1>2. ASSUME NEW v \in V PROVE longer(v) \in V
    <2>1. ASSUME NEW s \in Bytes PROVE (IF s = <<>> THEN Read(0, s) ELSE from[<<s, v[Tail(s)]>>]) \in Readings
      <3>1. CASE s = <<>>
        BY <3>1, ReadIs
      <3>2. CASE s # <<>>
        <4>1. v[Tail(s)] \in Readings
          BY <3>2, TailIsBytes
        <4>2. QED
          BY <3>2, <4>1
      <3>3. QED
        BY <3>1, <3>2
    <2>2. QED
      BY <2>1
  <1> HIDE DEF V, longer, base
  <1>3. PICK step : step = [v \in V |-> longer(v)]
    OBVIOUS
  <1>4. \A v \in V : step[v] = longer(v) /\ step[v] \in V
    BY <1>2, <1>3
  <1>5. PICK g \in [Nat -> V] : GoesBySteps(g, base, step)
    BY <1>1, <1>4, StepsAreDefined, Zenon
  <1>6. g[0] = base /\ \A n \in Nat : g[n + 1] = longer(g[n])
    BY <1>4, <1>5 DEF GoesBySteps
  <1>7. ASSUME NEW m \in Nat, NEW s \in Bytes
        PROVE  g[m][s] = IF m = 0 \/ s = <<>> THEN Read(0, s) ELSE from[<<s, g[m - 1][Tail(s)]>>]
    <2>1. CASE m = 0
      BY <1>6, <2>1 DEF base
    <2>2. CASE m # 0
      <3>1. PICK k \in Nat : k = m - 1 /\ m = k + 1
        BY <2>2
      <3>2. g[m] = longer(g[k])
        BY <1>6, <3>1
      <3>3. g[m][s] = IF s = <<>> THEN Read(0, s) ELSE from[<<s, g[k][Tail(s)]>>]
        BY <3>2 DEF longer
      <3>4. QED
        BY <2>2, <3>1, <3>3
    <2>3. QED
      BY <2>1, <2>2
  <1>8. QED
    BY <1>5, <1>7 DEF IsReader, V

VarintFrom(s, more) ==
  IF Head(s) < 128 THEN Read(Head(s), Tail(s)) ELSE Read((Head(s) % 128) + (128 * more.value), more.rest)
NumberFrom(s, more) == Read(Head(s) + (256 * more.value), more.rest)

LEMMA FromIsReading ==
  ASSUME NEW s \in Bytes, s # <<>>, NEW r \in Readings
  PROVE  VarintFrom(s, r) \in Readings /\ NumberFrom(s, r) \in Readings
  <1>1. PICK n \in Nat, t \in Bytes : n = r.value /\ t = r.rest
    BY ReadIs
  <1>2. PICK b \in 0..255, u \in Bytes : b = Head(s) /\ u = Tail(s)
    BY TailIsBytes
  <1>3. b \in Nat /\ (b % 128) + (128 * n) \in Nat /\ b + (256 * n) \in Nat
    OBVIOUS
  <1>4. Read(b, u) \in Readings /\ Read((b % 128) + (128 * n), t) \in Readings /\ Read(b + (256 * n), t) \in Readings
    BY <1>3, ReadIs
  <1>5. QED
    BY <1>1, <1>2, <1>4, Zenon DEF VarintFrom, NumberFrom

LEMMA TakeVarintIs ==
  \A m \in Nat, s \in Bytes :
    TakeVarint[m][s] = IF m = 0 \/ s = <<>> THEN Read(0, s) ELSE VarintFrom(s, TakeVarint[m - 1][Tail(s)])
  <1> DEFINE value(f, m, s) == IF m = 0 \/ s = <<>> THEN Read(0, s) ELSE VarintFrom(s, f[m - 1][Tail(s)])
             Is(f) == f = [m \in Nat |-> [s \in Bytes |-> value(f, m, s)]]
  <1>1. PICK from : from = [x \in Bytes \X Readings |-> VarintFrom(x[1], x[2])]
    OBVIOUS
  <1>2. \A s \in Bytes, r \in Readings : from[<<s, r>>] = VarintFrom(s, r)
    BY <1>1
  <1>3. PICK g \in [Nat -> [Bytes -> Readings]] : IsReader(g, from)
    <2>1. \A s \in Bytes, r \in Readings : s # <<>> => from[<<s, r>>] \in Readings
      BY <1>2, FromIsReading
    <2>2. QED
      BY <2>1, ReaderIsDefined
  <1>4. ASSUME NEW m \in Nat, NEW s \in Bytes PROVE g[m][s] = value(g, m, s)
    <2>1. g[m][s] = IF m = 0 \/ s = <<>> THEN Read(0, s) ELSE from[<<s, g[m - 1][Tail(s)]>>]
      BY <1>3 DEF IsReader
    <2>2. CASE m = 0 \/ s = <<>>
      BY <2>1, <2>2
    <2>3. CASE ~(m = 0 \/ s = <<>>)
      <3>1. m - 1 \in Nat /\ Tail(s) \in Bytes
        BY <2>3, TailIsBytes
      <3>2. g[m - 1][Tail(s)] \in Readings
        BY <3>1
      <3>3. QED
        BY <1>2, <2>1, <2>3, <3>2
    <2>4. QED
      BY <2>2, <2>3
  <1> HIDE DEF value
  <1>5. Is(g)
    <2>1. \A m \in Nat : g[m] = [s \in Bytes |-> value(g, m, s)]
      BY <1>4
    <2>2. QED
      BY <2>1
  <1>6. Is(TakeVarint)
    <2>1. TakeVarint = CHOOSE f : Is(f)
      BY DEF TakeVarint, VarintFrom, Bytes, value
    <2> HIDE DEF Is
    <2>2. QED
      BY <1>5, <2>1
  <1>7. \A m \in Nat, s \in Bytes : TakeVarint[m][s] = value(TakeVarint, m, s)
    BY <1>6
  <1>8. QED
    BY <1>7 DEF value

LEMMA TakeNumberIs ==
  \A m \in Nat, s \in Bytes :
    TakeNumber[m][s] = IF m = 0 \/ s = <<>> THEN Read(0, s) ELSE NumberFrom(s, TakeNumber[m - 1][Tail(s)])
  <1> DEFINE value(f, m, s) == IF m = 0 \/ s = <<>> THEN Read(0, s) ELSE NumberFrom(s, f[m - 1][Tail(s)])
             Is(f) == f = [m \in Nat |-> [s \in Bytes |-> value(f, m, s)]]
  <1>1. PICK from : from = [x \in Bytes \X Readings |-> NumberFrom(x[1], x[2])]
    OBVIOUS
  <1>2. \A s \in Bytes, r \in Readings : from[<<s, r>>] = NumberFrom(s, r)
    BY <1>1
  <1>3. PICK g \in [Nat -> [Bytes -> Readings]] : IsReader(g, from)
    <2>1. \A s \in Bytes, r \in Readings : s # <<>> => from[<<s, r>>] \in Readings
      BY <1>2, FromIsReading
    <2>2. QED
      BY <2>1, ReaderIsDefined
  <1>4. ASSUME NEW m \in Nat, NEW s \in Bytes PROVE g[m][s] = value(g, m, s)
    <2>1. g[m][s] = IF m = 0 \/ s = <<>> THEN Read(0, s) ELSE from[<<s, g[m - 1][Tail(s)]>>]
      BY <1>3 DEF IsReader
    <2>2. CASE m = 0 \/ s = <<>>
      BY <2>1, <2>2
    <2>3. CASE ~(m = 0 \/ s = <<>>)
      <3>1. m - 1 \in Nat /\ Tail(s) \in Bytes
        BY <2>3, TailIsBytes
      <3>2. g[m - 1][Tail(s)] \in Readings
        BY <3>1
      <3>3. QED
        BY <1>2, <2>1, <2>3, <3>2
    <2>4. QED
      BY <2>2, <2>3
  <1> HIDE DEF value
  <1>5. Is(g)
    <2>1. \A m \in Nat : g[m] = [s \in Bytes |-> value(g, m, s)]
      BY <1>4
    <2>2. QED
      BY <2>1
  <1>6. Is(TakeNumber)
    <2>1. TakeNumber = CHOOSE f : Is(f)
      BY DEF TakeNumber, NumberFrom, Bytes, value
    <2> HIDE DEF Is
    <2>2. QED
      BY <1>5, <2>1
  <1>7. \A m \in Nat, s \in Bytes : TakeNumber[m][s] = value(TakeNumber, m, s)
    BY <1>6
  <1>8. QED
    BY <1>7 DEF value

(* A varint is read back, from whatever follows it.                        *)
LEMMA VarintReadBack ==
  ASSUME NEW n \in Nat, NEW t \in Bytes
  PROVE  TakeSize(Varint[n] \o t) = Read(n, t)
  <1> DEFINE T == {k \in Nat : \A m \in Nat : Len(Varint[k]) <= m => TakeVarint[m][Varint[k] \o t] = Read(k, t)}
  <1>1. ASSUME NEW k \in Nat, \A j \in 0..k - 1 : j \in T PROVE k \in T
    <2> SUFFICES ASSUME NEW m \in Nat, Len(Varint[k]) <= m PROVE TakeVarint[m][Varint[k] \o t] = Read(k, t)
      OBVIOUS
    <2>1. CASE k < 128
      <3>1. Varint[k] = <<k>> /\ k \in 0..255
        BY <2>1, VarintIs DEF LastByte
      <3>2. PICK s : s = <<k>> \o t /\ s \in Bytes /\ s # <<>> /\ Head(s) = k /\ Tail(s) = t
        BY <3>1, ByteAhead
      <3>3. m # 0
        BY <3>1
      <3>4. TakeVarint[m][s] = VarintFrom(s, TakeVarint[m - 1][Tail(s)])
        BY <3>2, <3>3, TakeVarintIs
      <3>5. VarintFrom(s, TakeVarint[m - 1][Tail(s)]) = Read(k, t)
        BY <2>1, <3>2, Zenon DEF VarintFrom
      <3>6. QED
        BY <3>1, <3>2, <3>4, <3>5
    <2>2. CASE ~(k < 128)
      <3>1. PICK j \in Nat : j = k \div 128 /\ j \in 0..k - 1
        BY <2>2
      <3>2. PICK b \in 0..255 : b = 128 + (k % 128)
        OBVIOUS
      <3>3. PICK v \in Bytes : v = Varint[j] /\ Varint[k] = <<b>> \o v
        <4>1. Varint[k] = MoreBytes(k, Varint[k \div 128]) /\ Varint[j] \in Bytes
          BY <2>2, <3>1, VarintIs
        <4>2. QED
          BY <3>1, <3>2, <4>1, Zenon DEF MoreBytes
      <3>4. PICK l \in Nat : m = l + 1 /\ Len(v) <= l
        <4>1. <<b>> \in Bytes /\ Len(<<b>>) = 1
          BY OneByte
        <4>2. Len(Varint[k]) = Len(<<b>>) + Len(v) /\ Len(v) \in Nat
          BY <3>3, <4>1, BytesJoin, Zenon
        <4>3. m - 1 \in Nat /\ Len(v) <= m - 1 /\ m = (m - 1) + 1
          BY <4>1, <4>2
        <4>4. QED
          BY <4>3
      <3>5. PICK u \in Bytes : u = v \o t
        BY BytesJoin
      <3>6. Varint[k] \o t = <<b>> \o u
        <4>1. <<b>> \in Bytes
          BY OneByte
        <4>2. (<<b>> \o v) \o t = <<b>> \o (v \o t)
          BY <4>1, BytesAssociate
        <4>3. QED
          BY <3>3, <3>5, <4>2, Zenon
      <3>7. PICK s : s = <<b>> \o u /\ s \in Bytes /\ s # <<>> /\ Head(s) = b /\ Tail(s) = u
        BY ByteAhead
      <3>8. TakeVarint[l][u] = Read(j, t)
        BY <1>1, <3>1, <3>3, <3>4, <3>5
      <3>9. TakeVarint[m][s] = VarintFrom(s, Read(j, t))
        <4>1. m # 0 /\ m - 1 = l
          BY <3>4
        <4>2. TakeVarint[m][s] = IF m = 0 \/ s = <<>> THEN Read(0, s) ELSE VarintFrom(s, TakeVarint[m - 1][Tail(s)])
          BY <3>7, TakeVarintIs, Zenon
        <4>3. QED
          BY <3>7, <3>8, <4>1, <4>2, Zenon
      <3>10. ~(b < 128) /\ (b % 128) + (128 * j) = k
        BY <3>1, <3>2
      <3>11. VarintFrom(s, Read(j, t)) = Read(k, t)
        <4>1. Read(j, t).value = j /\ Read(j, t).rest = t
          BY ReadIs
        <4>2. QED
          BY <3>7, <3>10, <4>1, Zenon DEF VarintFrom
      <3>12. QED
        BY <3>6, <3>7, <3>9, <3>11
    <2>3. QED
      BY <2>1, <2>2
  <1>2. T = Nat
    <2> HIDE DEF T
    <2>1. T \in SUBSET Nat
      BY DEF T
    <2>2. QED
      BY <1>1, <2>1, CompleteInduction
  <1>3. PICK v \in Bytes : v = Varint[n]
    BY VarintIs
  <1>4. Len(v \o t) \in Nat /\ Len(v) <= Len(v \o t)
    BY BytesJoin
  <1>5. QED
    BY <1>2, <1>3, <1>4 DEF TakeSize

(* The bytes of a number.                                                  *)
LEMMA BeyondIs ==
  /\ \A w \in Nat, n \in Nat : Beyond[w][n] \in Nat
  /\ \A n \in Nat : Beyond[0][n] = n
  /\ \A w \in Nat, n \in Nat : Beyond[w + 1][n] = Beyond[w][n \div 256]
  <1> DEFINE V == [Nat -> Nat]
             All == [n \in Nat |-> n]
             Higher(v) == [n \in Nat |-> v[n \div 256]]
             Is(f) == f = [w \in Nat |-> [n \in Nat |-> IF w = 0 THEN n ELSE f[w - 1][n \div 256]]]
  <1>1. \A n \in Nat : n \div 256 \in Nat
    OBVIOUS
  <1>2. All \in V /\ \A v \in V : Higher(v) \in V
    BY <1>1
  <1> HIDE DEF V, All, Higher
  <1>3. PICK step : step = [v \in V |-> Higher(v)]
    OBVIOUS
  <1>4. PICK g \in [Nat -> V] : GoesBySteps(g, All, step)
    <2>1. \A v \in V : step[v] \in V
      BY <1>2, <1>3
    <2>2. QED
      BY <1>2, <2>1, StepsAreDefined, Zenon
  <1>5. g[0] = All /\ \A w \in Nat : g[w + 1] = Higher(g[w])
    BY <1>3, <1>4 DEF GoesBySteps
  <1>6. ASSUME NEW w \in Nat PROVE g[w] = [n \in Nat |-> IF w = 0 THEN n ELSE g[w - 1][n \div 256]]
    <2>1. CASE w = 0
      BY <1>5, <2>1 DEF All
    <2>2. CASE w # 0
      <3>1. PICK k \in Nat : k = w - 1 /\ w = k + 1
        BY <2>2
      <3>2. g[w] = Higher(g[k])
        BY <1>5, <3>1
      <3>3. QED
        BY <2>2, <3>1, <3>2 DEF Higher
    <2>3. QED
      BY <2>1, <2>2
  <1>7. Is(Beyond)
    <2>1. Is(g)
      BY <1>4, <1>6
    <2>2. Beyond = CHOOSE f : Is(f)
      BY DEF Beyond
    <2> HIDE DEF Is
    <2>3. QED
      BY <2>1, <2>2
  <1>8. \A w \in Nat, n \in Nat : Beyond[w][n] = IF w = 0 THEN n ELSE Beyond[w - 1][n \div 256]
    BY <1>7
  <1> HIDE DEF Is
  <1>9. \A w \in Nat : w + 1 \in Nat /\ w + 1 # 0 /\ (w + 1) - 1 = w
    OBVIOUS
  <1>10. \A w \in Nat, n \in Nat : Beyond[w + 1][n] = Beyond[w][n \div 256]
    BY <1>8, <1>9
  <1> DEFINE T == {w \in Nat : \A n \in Nat : Beyond[w][n] \in Nat}
  <1>11. 0 \in T
    BY <1>8
  <1>12. ASSUME NEW w \in Nat, w \in T PROVE w + 1 \in T
    BY <1>1, <1>10, <1>12
  <1>13. T = Nat
    <2> HIDE DEF T
    <2>1. T \in SUBSET Nat
      BY DEF T
    <2>2. QED
      BY <1>11, <1>12, <2>1, InductionOnNumbers
  <1>14. QED
    BY <1>8, <1>10, <1>13

LEMMA BeyondSteps ==
  ASSUME NEW w \in Nat, NEW n \in Nat
  PROVE  Beyond[w + 1][n] = Beyond[w][n \div 256]
  <1>1. \A k \in Nat, i \in Nat : Beyond[k + 1][i] = Beyond[k][i \div 256]
    BY BeyondIs
  <1>2. QED
    BY <1>1, Zenon

LEMMA DivisionKeepsOrder ==
  ASSUME NEW i \in Nat, NEW j \in Nat, i <= j
  PROVE  i \div 256 \in Nat /\ j \div 256 \in Nat /\ i \div 256 <= j \div 256
  <1>1. PICK q, r : q = i \div 256 /\ r = i % 256 /\ q \in Nat /\ r \in 0..255 /\ i = 256 * q + r
    OBVIOUS
  <1>2. PICK s, t : s = j \div 256 /\ t = j % 256 /\ s \in Nat /\ t \in 0..255 /\ j = 256 * s + t
    OBVIOUS
  <1>3. q <= s
    BY <1>1, <1>2
  <1>4. QED
    BY <1>1, <1>2, <1>3, Zenon

LEMMA LessFits ==
  ASSUME NEW w \in Nat, NEW m \in Nat, NEW n \in Nat, m <= n, Fits(w, n)
  PROVE  Fits(w, m)
  <1> DEFINE T == {k \in Nat : \A i, j \in Nat : i <= j => Beyond[k][i] <= Beyond[k][j]}
  <1>1. 0 \in T
    BY BeyondIs
  <1>2. ASSUME NEW k \in Nat, k \in T PROVE k + 1 \in T
    <2>1. ASSUME NEW i \in Nat, NEW j \in Nat, i <= j PROVE Beyond[k + 1][i] <= Beyond[k + 1][j]
      <3>1. i \div 256 \in Nat /\ j \div 256 \in Nat /\ i \div 256 <= j \div 256
        BY <2>1, DivisionKeepsOrder, Zenon
      <3>2. Beyond[k + 1][i] = Beyond[k][i \div 256]
        BY BeyondSteps, Zenon
      <3>3. Beyond[k + 1][j] = Beyond[k][j \div 256]
        BY BeyondSteps, Zenon
      <3>4. \A x, y \in Nat : x <= y => Beyond[k][x] <= Beyond[k][y]
        BY <1>2, Zenon
      <3>5. PICK x, y : x = i \div 256 /\ y = j \div 256 /\ x \in Nat /\ y \in Nat /\ x <= y
        BY <3>1, Zenon
      <3>6. Beyond[k + 1][i] = Beyond[k][x] /\ Beyond[k + 1][j] = Beyond[k][y]
        BY <3>2, <3>3, <3>5, Zenon
      <3>7. Beyond[k][x] <= Beyond[k][y]
        BY <3>4, <3>5, Zenon
      <3>8. QED
        BY <3>6, <3>7, Zenon
    <2>2. QED
      BY <2>1
  <1>3. T = Nat
    <2> HIDE DEF T
    <2>1. T \in SUBSET Nat
      BY DEF T
    <2>2. QED
      BY <1>1, <1>2, <2>1, InductionOnNumbers
  <1>4. Beyond[w][m] <= Beyond[w][n] /\ Beyond[w][m] \in Nat
    BY <1>3, BeyondIs
  <1>5. QED
    BY <1>4 DEF Fits

LEMMA NumberReadBack ==
  ASSUME NEW w \in Nat, NEW n \in Nat, Fits(w, n), NEW t \in Bytes
  PROVE  TakeNumber[w][LittleEndian[w][n] \o t] = Read(n, t)
  <1> DEFINE T == {k \in Nat : \A i \in Nat : Fits(k, i) => TakeNumber[k][LittleEndian[k][i] \o t] = Read(i, t)}
  <1>1. 0 \in T
    <2>1. ASSUME NEW i \in Nat, Fits(0, i) PROVE TakeNumber[0][LittleEndian[0][i] \o t] = Read(i, t)
      <3>1. i = 0 /\ LittleEndian[0][i] = <<>>
        BY <2>1, BeyondIs, LittleEndianIs DEF Fits
      <3>2. <<>> \o t = t
        BY ConcatEmptySeq DEF Bytes
      <3>3. QED
        BY <3>1, <3>2, TakeNumberIs
    <2>2. QED
      BY <2>1
  <1>2. ASSUME NEW k \in Nat, k \in T PROVE k + 1 \in T
    <2> SUFFICES ASSUME NEW i \in Nat, Fits(k + 1, i)
                 PROVE  TakeNumber[k + 1][LittleEndian[k + 1][i] \o t] = Read(i, t)
      OBVIOUS
    <2>1. PICK j \in Nat, b \in 0..255 : j = i \div 256 /\ b = i % 256 /\ b + (256 * j) = i
      OBVIOUS
    <2>2. k + 1 \in Nat /\ k + 1 # 0 /\ (k + 1) - 1 = k
      OBVIOUS
    <2>3. PICK v \in Bytes : v = LittleEndian[k][j] /\ LittleEndian[k + 1][i] = <<b>> \o v
      <3>1. LittleEndian[k][j] \in Bytes
        BY LittleEndianIs, Zenon
      <3>2. LittleEndian[k + 1][i] =
              IF k + 1 = 0 THEN <<>> ELSE OneMore(i, LittleEndian[(k + 1) - 1][i \div 256])
        BY <2>2, LittleEndianIs, Zenon
      <3>3. LittleEndian[k + 1][i] = OneMore(i, LittleEndian[k][i \div 256])
        BY <2>2, <3>2, Zenon
      <3>4. QED
        BY <2>1, <3>1, <3>3, Zenon DEF OneMore
    <2>4. PICK u \in Bytes : u = v \o t
      BY BytesJoin
    <2>5. LittleEndian[k + 1][i] \o t = <<b>> \o u
      <3>1. <<b>> \in Bytes
        BY OneByte
      <3>2. (<<b>> \o v) \o t = <<b>> \o (v \o t)
        BY <3>1, BytesAssociate
      <3>3. QED
        BY <2>3, <2>4, <3>2, Zenon
    <2>6. PICK s : s = <<b>> \o u /\ s \in Bytes /\ s # <<>> /\ Head(s) = b /\ Tail(s) = u
      BY ByteAhead
    <2>7. Fits(k, j)
      <3>1. Beyond[k + 1][i] = Beyond[k][j]
        <4>1. Beyond[k + 1][i] = Beyond[k][i \div 256]
          BY BeyondIs, Zenon
        <4>2. QED
          BY <2>1, <4>1, Zenon
      <3>2. QED
        BY <3>1, Zenon DEF Fits
    <2>8. TakeNumber[k][u] = Read(j, t)
      BY <1>2, <2>3, <2>4, <2>7
    <2>9. TakeNumber[k + 1][s] = NumberFrom(s, Read(j, t))
      <3>1. TakeNumber[k + 1][s] =
              IF k + 1 = 0 \/ s = <<>> THEN Read(0, s) ELSE NumberFrom(s, TakeNumber[(k + 1) - 1][Tail(s)])
        BY <2>2, <2>6, TakeNumberIs, Zenon
      <3>2. QED
        BY <2>2, <2>6, <2>8, <3>1, Zenon
    <2>10. NumberFrom(s, Read(j, t)) = Read(i, t)
      <3>1. Read(j, t).value = j /\ Read(j, t).rest = t
        BY ReadIs
      <3>2. QED
        BY <2>1, <2>6, <3>1, Zenon DEF NumberFrom
    <2>11. QED
      BY <2>5, <2>6, <2>9, <2>10
  <1>3. T = Nat
    <2> HIDE DEF T
    <2>1. T \in SUBSET Nat
      BY DEF T
    <2>2. QED
      BY <1>1, <1>2, <2>1, InductionOnNumbers
  <1>4. QED
    BY <1>3

LEMMA BytesReadBack ==
  ASSUME NEW v \in Bytes, NEW t \in Bytes
  PROVE  TakeBytes(Len(v), v \o t) = Read(v, t)
  <1>1. PICK s : s = v \o t /\ s \in Bytes /\ Len(s) = Len(v) + Len(t)
    BY BytesJoin
  <1>2. SubSeq(s, 1, Len(v)) = v
    BY <1>1 DEF Bytes
  <1>3. SubSeq(s, Len(v) + 1, Len(s)) = t
    BY <1>1 DEF Bytes
  <1>4. QED
    BY <1>1, <1>2, <1>3 DEF TakeBytes

\* An amount, and a string: one reading after another.
LEMMA AssetReadBack ==
  ASSUME NEW amount \in Nat, Fits(8, amount), NEW asset \in Nat, NEW t \in Bytes
  PROVE  TakeAsset((LittleEndian[8][amount] \o Varint[asset]) \o t) = Read([amount |-> amount, asset_id |-> asset], t)
  <1>1. PICK a \in Bytes, b \in Bytes : a = LittleEndian[8][amount] /\ b = Varint[asset]
    BY LittleEndianIs, VarintIs
  <1>2. (a \o b) \o t = a \o (b \o t) /\ b \o t \in Bytes
    BY BytesAssociate, BytesJoin
  <1>3. TakeNumber[8][a \o (b \o t)] = Read(amount, b \o t)
    BY <1>1, <1>2, NumberReadBack, Zenon
  <1>4. TakeSize(b \o t) = Read(asset, t)
    BY <1>1, VarintReadBack
  <1>5. PICK s : s = (a \o b) \o t
    OBVIOUS
  <1>6. TakeNumber[8][s].value = amount /\ TakeSize(TakeNumber[8][s].rest) = Read(asset, t)
    <2>1. TakeNumber[8][s].value = amount /\ TakeNumber[8][s].rest = b \o t
      <3>1. TakeNumber[8][s] = Read(amount, b \o t)
        BY <1>2, <1>3, <1>5, Zenon
      <3>2. Read(amount, b \o t).value = amount /\ Read(amount, b \o t).rest = b \o t
        BY ReadIs
      <3>3. QED
        BY <3>1, <3>2, Zenon
    <2>2. QED
      BY <1>4, <2>1, Zenon
  <1>7. Read(asset, t).value = asset /\ Read(asset, t).rest = t
    BY ReadIs
  <1>8. TakeAsset(s) = Read([amount |-> amount, asset_id |-> asset], t)
    BY <1>6, <1>7, Zenon DEF TakeAsset
  <1>9. QED
    BY <1>1, <1>5, <1>8, Zenon

LEMMA StringReadBack ==
  ASSUME NEW v \in Bytes, NEW t \in Bytes
  PROVE  TakeScalar("string", (Varint[Len(v)] \o v) \o t) = Read(v, t)
  <1>1. PICK a \in Bytes, n \in Nat : n = Len(v) /\ a = Varint[n]
    BY VarintIs, BytesJoin
  <1>2. (a \o v) \o t = a \o (v \o t) /\ v \o t \in Bytes
    BY BytesAssociate, BytesJoin
  <1>3. TakeSize((a \o v) \o t) = Read(n, v \o t)
    BY <1>1, <1>2, VarintReadBack, Zenon
  <1>4. Read(n, v \o t).value = n /\ Read(n, v \o t).rest = v \o t
    BY ReadIs
  <1>5. TakeScalar("string", (a \o v) \o t) = TakeBytes(n, v \o t)
    BY <1>3, <1>4, Zenon DEF TakeScalar
  <1>6. QED
    BY <1>1, <1>5, BytesReadBack, Zenon

LEMMA FlagReadBack ==
  ASSUME NEW v \in BOOLEAN, NEW t \in Bytes
  PROVE  TakeScalar("bool", (IF v THEN <<1>> ELSE <<0>>) \o t) = Read(v, t)
  <1>1. \A s : TakeScalar("bool", s) = Read(Head(s) = 1, Tail(s))
    BY Zenon DEF TakeScalar
  <1>2. Head(<<1>> \o t) = 1 /\ Tail(<<1>> \o t) = t /\ Head(<<0>> \o t) = 0 /\ Tail(<<0>> \o t) = t
    <2>1. 0 \in 0..255 /\ 1 \in 0..255
      OBVIOUS
    <2>2. QED
      BY <2>1, ByteAhead, Zenon
  <1>3. CASE v
    <2>1. (Head(<<1>> \o t) = 1) = v
      BY <1>2, <1>3
    <2>2. QED
      BY <1>1, <1>2, <1>3, <2>1, Zenon
  <1>4. CASE ~v
    <2>1. (Head(<<0>> \o t) = 1) = v
      BY <1>2, <1>4
    <2>2. QED
      BY <1>1, <1>2, <1>4, <2>1, Zenon
  <1>5. QED
    BY <1>3, <1>4

(* What is packed of one value is read back.                               *)
LEMMA ScalarReadBack ==
  ASSUME NEW kind \in ScalarKinds, NEW v, IsScalar(kind, v), FitsScalar(kind, v), NEW t \in Bytes
  PROVE  TakeScalar(kind, PackScalar(kind, v) \o t) = Read(v, t)
  <1>1. CASE kind = "id"
    <2>1. v \in Nat
      BY <1>1, Zenon DEF IsScalar
    <2>2. PackScalar(kind, v) = Varint[v] /\ \A s : TakeScalar(kind, s) = TakeSize(s)
      BY <1>1, Zenon DEF PackScalar, TakeScalar
    <2>3. QED
      BY <2>1, <2>2, VarintReadBack, Zenon
  <1>2. CASE kind = "u16"
    <2>1. v \in Nat /\ Fits(2, v)
      BY <1>2, Zenon DEF IsScalar, FitsScalar
    <2>2. PackScalar(kind, v) = LittleEndian[2][v] /\ \A s : TakeScalar(kind, s) = TakeNumber[2][s]
      BY <1>2, Zenon DEF PackScalar, TakeScalar
    <2>3. TakeNumber[2][LittleEndian[2][v] \o t] = Read(v, t)
      BY <2>1, NumberReadBack
    <2>4. QED
      BY <2>2, <2>3, Zenon
  <1>3. CASE kind = "u32"
    <2>1. v \in Nat /\ Fits(4, v)
      BY <1>3, Zenon DEF IsScalar, FitsScalar
    <2>2. PackScalar(kind, v) = LittleEndian[4][v] /\ \A s : TakeScalar(kind, s) = TakeNumber[4][s]
      BY <1>3, Zenon DEF PackScalar, TakeScalar
    <2>3. TakeNumber[4][LittleEndian[4][v] \o t] = Read(v, t)
      BY <2>1, NumberReadBack
    <2>4. QED
      BY <2>2, <2>3, Zenon
  <1>4. CASE kind = "bool"
    <2>1. v \in BOOLEAN
      BY <1>4, Zenon DEF IsScalar
    <2>2. PackScalar(kind, v) = IF v THEN <<1>> ELSE <<0>>
      BY <1>4, Zenon DEF PackScalar
    <2>3. QED
      BY <1>4, <2>1, <2>2, FlagReadBack, Zenon
  <1>5. CASE kind = "asset"
    <2>1. v \in [amount : Nat, asset_id : Nat] /\ Fits(8, v.amount)
      BY <1>5, Zenon DEF IsScalar, FitsScalar
    <2>2. PICK amount \in Nat, asset \in Nat :
            v.amount = amount /\ v.asset_id = asset /\ v = [amount |-> amount, asset_id |-> asset]
      BY <2>1
    <2>3. PackScalar(kind, v) = LittleEndian[8][amount] \o Varint[asset] /\ \A s : TakeScalar(kind, s) = TakeAsset(s)
      BY <1>5, <2>2, Zenon DEF PackScalar, TakeScalar
    <2>4. Fits(8, amount)
      BY <2>1, <2>2
    <2>5. QED
      <3>1. TakeAsset((LittleEndian[8][amount] \o Varint[asset]) \o t)
              = Read([amount |-> amount, asset_id |-> asset], t)
        BY <2>4, AssetReadBack
      <3>2. QED
        BY <2>2, <2>3, <3>1, Zenon
  <1>6. CASE kind = "string"
    <2>1. v \in Bytes
      BY <1>6, Zenon DEF IsScalar, Bytes
    <2>2. PackScalar(kind, v) = Varint[Len(v)] \o v
      BY <1>6, Zenon DEF PackScalar
    <2>3. QED
      BY <1>6, <2>1, <2>2, StringReadBack, Zenon
  <1>7. CASE kind = "key"
    <2>1. v \in Bytes /\ Len(v) = 33
      BY <1>7, Zenon DEF IsScalar, FitsScalar, Bytes
    <2>2. PackScalar(kind, v) = v /\ \A s : TakeScalar(kind, s) = TakeBytes(33, s)
      BY <1>7, Zenon DEF PackScalar, TakeScalar
    <2>3. TakeBytes(Len(v), v \o t) = Read(v, t)
      BY <2>1, BytesReadBack
    <2>4. QED
      BY <2>1, <2>2, <2>3, Zenon
  <1>8. CASE kind = "signature"
    <2>1. v \in Bytes /\ Len(v) = 65
      BY <1>8, Zenon DEF IsScalar, FitsScalar, Bytes
    <2>2. PackScalar(kind, v) = v /\ \A s : TakeScalar(kind, s) = TakeBytes(65, s)
      BY <1>8, Zenon DEF PackScalar, TakeScalar
    <2>3. TakeBytes(Len(v), v \o t) = Read(v, t)
      BY <2>1, BytesReadBack
    <2>4. QED
      BY <2>1, <2>2, <2>3, Zenon
  <1>9. QED
    BY <1>1, <1>2, <1>3, <1>4, <1>5, <1>6, <1>7, <1>8, Zenon DEF ScalarKinds

(* Of sequences one after another, what is left after each.                *)
IsRest(rest, seqs, n, t) ==
  /\ rest[0] = Joined(FlattenSeq(seqs), t) /\ rest[n] = t
  /\ \A k \in 1..n : rest[k - 1] = Joined(seqs[k], rest[k])

LEMMA EachHasARest ==
  ASSUME NEW n \in Nat, NEW seqs \in [1..n -> Bytes], NEW t \in Bytes
  PROVE  \E rest \in [0..n -> Bytes] : IsRest(rest, seqs, n, t)
  <1>1. PICK step : step = [x \in Nat \X Bytes |-> IF n - x[1] + 1 \in 1..n THEN Joined(seqs[n - x[1] + 1], x[2]) ELSE t]
    OBVIOUS
  <1>2. \A s \in Bytes, u \in Bytes : Joined(s, u) \in Bytes
    BY BytesJoin DEF Joined
  <1>3. \A k \in Nat, v \in Bytes :
          step[<<k, v>>] = (IF n - k + 1 \in 1..n THEN Joined(seqs[n - k + 1], v) ELSE t) /\ step[<<k, v>>] \in Bytes
    BY <1>1, <1>2
  <1>4. PICK first, base, smaller :
          first = {0} /\ base = [k \in {0} |-> t] /\ smaller = [k \in Nat |-> k - 1]
    OBVIOUS
  <1>5. PICK g \in [Nat -> Bytes] : IsDescent(g, Nat, first, base, smaller, step)
    <2>1. \A k \in Nat : k \in first => base[k] \in Bytes
      BY <1>4
    <2>2. \A k \in Nat : k \notin first => smaller[k] \in 0..k - 1
      BY <1>4
    <2>3. \A k \in Nat, v \in Bytes : k \notin first => step[<<k, v>>] \in Bytes
      BY <1>3
    <2>4. QED
      BY <2>1, <2>2, <2>3, DescentIsDefined, Zenon
  <1>6. g[0] = t
    BY <1>4, <1>5 DEF IsDescent
  <1>7. ASSUME NEW k \in 1..n PROVE g[n - (k - 1)] = Joined(seqs[k], g[n - k])
    <2>1. PICK j \in Nat : j = n - (k - 1) /\ j - 1 = n - k /\ j # 0 /\ n - j + 1 = k
      OBVIOUS
    <2>2. j \notin first /\ smaller[j] = j - 1 /\ j - 1 \in Nat
      BY <1>4, <2>1
    <2>3. g[j] = step[<<j, g[j - 1]>>]
      BY <1>5, <2>2, Zenon DEF IsDescent
    <2>4. g[j - 1] \in Bytes
      BY <2>2
    <2>5. step[<<j, g[j - 1]>>] = IF n - j + 1 \in 1..n THEN Joined(seqs[n - j + 1], g[j - 1]) ELSE t
      BY <1>3, <2>4, Zenon
    <2>6. step[<<j, g[j - 1]>>] = Joined(seqs[k], g[j - 1])
      BY <2>1, <2>5, Zenon
    <2>7. QED
      BY <2>1, <2>3, <2>6, Zenon
  <1>8. PICK rest : rest = [k \in 0..n |-> g[n - k]]
    OBVIOUS
  <1>9. rest \in [0..n -> Bytes] /\ rest[n] = t
    <2>1. \A k \in 0..n : n - k \in Nat
      OBVIOUS
    <2>2. n \in 0..n /\ n - n = 0
      OBVIOUS
    <2>3. QED
      BY <1>6, <1>8, <2>1, <2>2
  <1>10. \A k \in 1..n : rest[k - 1] = Joined(seqs[k], rest[k])
    <2>1. \A k \in 1..n : k - 1 \in 0..n /\ k \in 0..n
      OBVIOUS
    <2>2. QED
      BY <1>7, <1>8, <2>1
  <1>11. PICK h \in [0..n -> Bytes] : IsFlat(h, seqs, n)
    BY FlattensStepByStep DEF Bytes
  <1> DEFINE T == {k \in Nat : k <= n => Joined(h[k], rest[k]) = rest[0]}
  <1>12. 0 \in T
    <2>1. h[0] = <<>> /\ rest[0] \in Bytes
      BY <1>9, <1>11 DEF IsFlat
    <2>2. Joined(<<>>, rest[0]) = rest[0]
      BY <2>1, JoinedIs DEF Bytes
    <2>3. QED
      BY <2>1, <2>2
  <1>13. ASSUME NEW k \in Nat, k \in T PROVE k + 1 \in T
    <2> SUFFICES ASSUME k + 1 <= n PROVE Joined(h[k + 1], rest[k + 1]) = rest[0]
      OBVIOUS
    <2>1. k + 1 \in 1..n /\ (k + 1) - 1 = k /\ k \in 0..n /\ k + 1 \in 0..n
      OBVIOUS
    <2>2. PICK a \in Bytes, b \in Bytes, c \in Bytes : a = h[k] /\ b = seqs[k + 1] /\ c = rest[k + 1]
      BY <1>9, <2>1
    <2>3. h[k + 1] = Joined(a, b)
      BY <1>11, <2>1, <2>2, Zenon DEF IsFlat
    <2>4. rest[k] = Joined(b, c)
      BY <1>10, <2>1, <2>2, Zenon
    <2>5. Joined(Joined(a, b), c) = Joined(a, Joined(b, c))
      BY BytesAssociate DEF Joined
    <2>6. Joined(h[k], rest[k]) = rest[0]
      BY <1>13, <2>1
    <2>7. QED
      BY <2>2, <2>3, <2>4, <2>5, <2>6, Zenon
  <1>14. n \in T
    <2> HIDE DEF T
    <2>1. T \in SUBSET Nat
      BY DEF T
    <2>2. QED
      BY <1>12, <1>13, <2>1, InductionOnNumbers
  <1>15. rest[0] = Joined(FlattenSeq(seqs), t)
    <2>1. FlattenSeq(seqs) = h[n]
      BY <1>11, Zenon DEF IsFlat
    <2>2. Joined(h[n], rest[n]) = rest[0]
      BY <1>14
    <2>3. QED
      BY <1>9, <2>1, <2>2, Zenon
  <1>16. QED
    BY <1>9, <1>10, <1>15, Zenon DEF IsRest

\* What has been read of a list, and that one more makes it longer.
Prefix(v, k) == [j \in 1..k |-> v[j]]

LEMMA PrefixGrows ==
  ASSUME NEW v, NEW k \in Nat
  PROVE  Prefix(v, 0) = <<>> /\ Append(Prefix(v, k), v[k + 1]) = Prefix(v, k + 1)
  <1> DEFINE S == {v[j] : j \in 1..k + 1}
  <1>1. PICK p : p = Prefix(v, k)
    OBVIOUS
  <1>2. p \in Seq(S) /\ Len(p) = k /\ \A j \in 1..k : p[j] = v[j]
    BY <1>1 DEF Prefix
  <1>3. PICK q : q = Append(p, v[k + 1])
    OBVIOUS
  <1>4. v[k + 1] \in S
    OBVIOUS
  <1> HIDE DEF S
  <1>5. q = [j \in 1..k + 1 |-> IF j = k + 1 THEN v[k + 1] ELSE p[j]]
    BY <1>2, <1>3, <1>4
  <1>6. \A j \in 1..k + 1 : (IF j = k + 1 THEN v[k + 1] ELSE p[j]) = v[j]
    BY <1>2
  <1>7. q = Prefix(v, k + 1)
    BY <1>5, <1>6 DEF Prefix
  <1>8. QED
    BY <1>1, <1>3, <1>7 DEF Prefix

LEMMA SameAsExpected ==
  ASSUME NEW n \in Nat, NEW f, NEW e, f[0] = e[0], \A k \in 1..n : f[k - 1] = e[k - 1] => f[k] = e[k]
  PROVE  f[n] = e[n]
  <1> DEFINE T == {k \in Nat : k <= n => f[k] = e[k]}
  <1>1. 0 \in T
    OBVIOUS
  <1>2. ASSUME NEW k \in Nat, k \in T PROVE k + 1 \in T
    <2> SUFFICES ASSUME k + 1 <= n PROVE f[k + 1] = e[k + 1]
      OBVIOUS
    <2>1. k + 1 \in 1..n /\ (k + 1) - 1 = k /\ f[k] = e[k]
      BY <1>2
    <2>2. f[(k + 1) - 1] = e[(k + 1) - 1]
      BY <2>1
    <2>3. QED
      BY <2>1, <2>2, Zenon
  <1>3. n \in T
    <2> HIDE DEF T
    <2>1. T \in SUBSET Nat
      BY DEF T
    <2>2. QED
      BY <1>1, <1>2, <2>1, InductionOnNumbers
  <1>4. QED
    BY <1>3
-----------------------------------------------------------------------------
(* Things that are read one after another.                                 *)

\* One more thing read.
OneMoreRead(before, next) == Read(Append(before.value, next.value), next.rest)

\* What has been read after each of them.
Expected(v, rest, n) == [k \in 0..n |-> Read(Prefix(v, k), rest[k])]

LEMMA ExpectedGrows ==
  ASSUME NEW n \in Nat, NEW v, NEW rest, NEW k \in 1..n
  PROVE  /\ Expected(v, rest, n)[k - 1].rest = rest[k - 1]
         /\ OneMoreRead(Expected(v, rest, n)[k - 1], Read(v[k], rest[k])) = Expected(v, rest, n)[k]
  <1>1. PICK j \in Nat : j = k - 1 /\ k = j + 1 /\ j \in 0..n /\ k \in 0..n
    OBVIOUS
  <1>2. /\ Expected(v, rest, n)[j] = Read(Prefix(v, j), rest[j])
        /\ Expected(v, rest, n)[k] = Read(Prefix(v, k), rest[k])
    BY <1>1, Zenon DEF Expected
  <1>3. Append(Prefix(v, j), v[k]) = Prefix(v, k)
    BY <1>1, PrefixGrows
  <1>4. /\ Read(Prefix(v, j), rest[j]).value = Prefix(v, j) /\ Read(Prefix(v, j), rest[j]).rest = rest[j]
        /\ Read(v[k], rest[k]).value = v[k] /\ Read(v[k], rest[k]).rest = rest[k]
    BY ReadIs, Zenon
  <1>5. OneMoreRead(Expected(v, rest, n)[j], Read(v[k], rest[k])) = Read(Prefix(v, k), rest[k])
    BY <1>2, <1>3, <1>4, Zenon DEF OneMoreRead
  <1>6. QED
    BY <1>1, <1>2, <1>4, <1>5, Zenon

LEMMA ExpectedEnds ==
  ASSUME NEW n \in Nat, NEW v, v = [i \in 1..n |-> v[i]], NEW rest
  PROVE  /\ Expected(v, rest, n)[0] = Read(<<>>, rest[0])
         /\ Expected(v, rest, n)[n] = Read(v, rest[n])
  <1>1. 0 \in 0..n /\ n \in 0..n
    OBVIOUS
  <1>2. Prefix(v, 0) = <<>> /\ Prefix(v, n) = v
    BY PrefixGrows DEF Prefix
  <1>3. QED
    BY <1>1, <1>2, Zenon DEF Expected

(* A container is read back, entry by entry.                               *)
LEMMA ContainerReadBack ==
  ASSUME NEW kind \in DOMAIN Entry, NEW v, IsValue(kind, v), FitsValue(kind, v), NEW t \in Bytes
  PROVE  Take(kind, Pack(kind, v) \o t) = Read(v, t)
  <1>0. PICK kinds : kinds = Entry[kind]
    OBVIOUS
  <1> DEFINE width == Len(kinds)
  <1>1. kinds = Entry[kind] /\ width \in 1..3 /\ \A j \in 1..width : kinds[j] \in ScalarKinds
    BY <1>0, EntryKinds, Zenon
  <1>2. /\ Len(v) \in Nat /\ v = [i \in 1..Len(v) |-> v[i]] /\ Len(v) % width = 0
        /\ \A i \in 1..Len(v) : IsScalar(kinds[1 + ((i - 1) % width)], v[i])
        /\ \A i \in 1..Len(v) : FitsScalar(kinds[1 + ((i - 1) % width)], v[i])
    BY <1>1, Zenon DEF IsValue, FitsValue
  <1>3. PICK n \in Nat, count \in Nat : n = Len(v) /\ DOMAIN v = 1..n /\ count = n \div width /\ count * width = n
    <2>1. PICK n \in Nat : n = Len(v) /\ DOMAIN v = 1..n /\ n % width = 0
      BY <1>2
    <2>2. n \div width \in Nat /\ (n \div width) * width = n
      <3>1. CASE width = 1
        BY <2>1, <3>1
      <3>2. CASE width = 2
        BY <2>1, <3>2
      <3>3. CASE width = 3
        BY <2>1, <3>3
      <3>4. QED
        BY <1>1, <3>1, <3>2, <3>3
    <2>3. QED
      BY <2>1, <2>2
  <1> DEFINE kindAt(i) == kinds[1 + ((i - 1) % width)]
             packed == [i \in 1..n |-> PackScalar(kindAt(i), v[i])]
  <1>4. \A i \in 1..n : kindAt(i) \in ScalarKinds
    <2>1. ASSUME NEW i \in 1..n PROVE kindAt(i) \in ScalarKinds
      <3>1. i \in Nat /\ i # 0
        OBVIOUS
      <3>2. 1 + ((i - 1) % width) \in 1..width
        BY <1>1, <3>1, PositionInEntry
      <3>3. QED
        BY <1>1, <3>2, Zenon
    <2>2. QED
      BY <2>1
  <1>5. \A i \in 1..n : IsScalar(kindAt(i), v[i]) /\ FitsScalar(kindAt(i), v[i])
    BY <1>2, <1>3
  <1>6. Pack(kind, v) = Varint[count] \o FlattenSeq(packed)
    BY <1>1, <1>3, Zenon DEF Pack, PackContainer
  <1> HIDE DEF kindAt
  <1>7. packed \in [1..n -> Bytes]
    <2>1. \A i \in 1..n : PackScalar(kindAt(i), v[i]) \in Bytes
      BY <1>4, <1>5, ScalarBytes, Zenon
    <2>2. QED
      BY <2>1
  <1>8. \A i \in 1..n, u \in Bytes : TakeScalar(kindAt(i), Joined(packed[i], u)) = Read(v[i], u)
    <2>1. \A i \in 1..n : packed[i] = PackScalar(kindAt(i), v[i])
      OBVIOUS
    <2> HIDE DEF packed
    <2>2. QED
      BY <1>4, <1>5, <2>1, ScalarReadBack, Zenon DEF Joined
  <1> HIDE DEF packed
  <1>9. PICK rest \in [0..n -> Bytes] : IsRest(rest, packed, n, t)
    BY <1>7, EachHasARest
  <1>10. PICK whole : whole = Pack(kind, v) \o t /\ TakeSize(whole) = Read(count, rest[0])
    <2>1. FlattenSeq(packed) \in Bytes /\ Varint[count] \in Bytes
      BY <1>7, FlatBytes, VarintIs
    <2>2. (Varint[count] \o FlattenSeq(packed)) \o t = Varint[count] \o (FlattenSeq(packed) \o t)
      BY <2>1, BytesAssociate
    <2>3. rest[0] = FlattenSeq(packed) \o t /\ rest[0] \in Bytes
      <3>1. 0 \in 0..n
        OBVIOUS
      <3>2. QED
        BY <1>9, <3>1, Zenon DEF IsRest, Joined
    <2>4. TakeSize(Varint[count] \o rest[0]) = Read(count, rest[0])
      BY <2>3, VarintReadBack
    <2>5. QED
      BY <1>6, <2>2, <2>3, <2>4, Zenon
  <1> DEFINE next(before, i) == OneMoreRead(before, TakeScalar(kindAt(i), before.rest))
             Is(f, m, s) == f = [i \in 0..m |-> IF i = 0 THEN Read(<<>>, s) ELSE next(f[i - 1], i)]
             taken == CHOOSE f : Is(f, n, rest[0])
  <1>11. Take(kind, whole) = taken[n]
    <2>1. Take(kind, whole) = TakeContainer(kinds, whole)
      BY <1>1, Zenon DEF Take
    <2>2. TakeContainer(kinds, whole) =
            (CHOOSE f : Is(f, TakeSize(whole).value * width, TakeSize(whole).rest))[TakeSize(whole).value * width]
      BY <1>1, Zenon DEF TakeContainer, TakeEach, OneMoreRead, kindAt
    <2>3. TakeSize(whole).value = count /\ TakeSize(whole).rest = rest[0]
      <3>1. Read(count, rest[0]).value = count /\ Read(count, rest[0]).rest = rest[0]
        BY ReadIs
      <3>2. QED
        BY <1>10, <3>1, Zenon
    <2> HIDE DEF Is
    <2>4. QED
      BY <1>3, <2>1, <2>2, <2>3, Zenon
  <1>12. PICK e : e = Expected(v, rest, n)
    OBVIOUS
  <1>13. e[0] = Read(<<>>, rest[0]) /\ e[n] = Read(v, t)
    <2>1. v = [i \in 1..n |-> v[i]] /\ rest[n] = t
      BY <1>2, <1>3, <1>9, Zenon DEF IsRest
    <2>2. Expected(v, rest, n)[0] = Read(<<>>, rest[0]) /\ Expected(v, rest, n)[n] = Read(v, rest[n])
      BY <2>1, ExpectedEnds
    <2>3. QED
      BY <1>12, <2>1, <2>2, Zenon
  <1>14. ASSUME NEW i \in 1..n PROVE next(e[i - 1], i) = e[i]
    <2>1. rest[i] \in Bytes /\ rest[i - 1] = Joined(packed[i], rest[i])
      BY <1>9 DEF IsRest
    <2>2. TakeScalar(kindAt(i), rest[i - 1]) = Read(v[i], rest[i])
      BY <1>8, <2>1, Zenon
    <2>3. e[i - 1].rest = rest[i - 1] /\ OneMoreRead(e[i - 1], Read(v[i], rest[i])) = e[i]
      <3>1. /\ Expected(v, rest, n)[i - 1].rest = rest[i - 1]
            /\ OneMoreRead(Expected(v, rest, n)[i - 1], Read(v[i], rest[i])) = Expected(v, rest, n)[i]
        BY ExpectedGrows
      <3>2. QED
        BY <1>12, <3>1, Zenon
    <2>4. QED
      BY <2>2, <2>3, Zenon
  <1> HIDE DEF next
  <1>15. Is(e, n, rest[0])
    <2>1. e = [i \in 0..n |-> e[i]]
      BY <1>12 DEF Expected
    <2>2. \A i \in 0..n : e[i] = IF i = 0 THEN Read(<<>>, rest[0]) ELSE next(e[i - 1], i)
      <3>1. \A i \in 0..n : i # 0 => i \in 1..n
        OBVIOUS
      <3>2. QED
        BY <1>13, <1>14, <3>1, Zenon
    <2>3. QED
      BY <2>1, <2>2, Zenon
  <1>16. Is(taken, n, rest[0])
    <2> HIDE DEF Is
    <2>1. QED
      BY <1>15
  <1>17. taken[0] = e[0] /\ \A i \in 1..n : taken[i] = next(taken[i - 1], i)
    <2> HIDE DEF taken
    <2>1. 0 \in 0..n /\ \A i \in 1..n : i \in 0..n /\ i # 0
      OBVIOUS
    <2>2. QED
      BY <1>13, <1>16, <2>1, Zenon
  <1> HIDE DEF taken, Is
  <1>18. taken[n] = e[n]
    <2>1. \A i \in 1..n : taken[i - 1] = e[i - 1] => taken[i] = e[i]
      BY <1>14, <1>17, Zenon
    <2>2. QED
      BY <1>17, <2>1, SameAsExpected, Zenon
  <1>19. QED
    BY <1>10, <1>11, <1>13, <1>18, Zenon

(* And so is the value of a field.                                         *)
LEMMA ValueReadBack ==
  ASSUME NEW kind \in Kinds, NEW v, IsValue(kind, v), FitsValue(kind, v), NEW t \in Bytes
  PROVE  Take(kind, Joined(Pack(kind, v), t)) = Read(v, t)
  <1>1. CASE kind \in DOMAIN Entry
    BY <1>1, ContainerReadBack DEF Joined
  <1>2. CASE kind \notin DOMAIN Entry
    <2>1. kind \in ScalarKinds
      BY <1>2 DEF Kinds, ScalarKinds, Entry
    <2>2. /\ IsScalar(kind, v) /\ FitsScalar(kind, v) /\ Pack(kind, v) = PackScalar(kind, v)
          /\ \A s : Take(kind, s) = TakeScalar(kind, s)
      BY <1>2, Zenon DEF IsValue, FitsValue, Pack, Take
    <2>3. TakeScalar(kind, PackScalar(kind, v) \o t) = Read(v, t)
      BY <2>1, <2>2, ScalarReadBack
    <2>4. QED
      BY <2>2, <2>3, Zenon DEF Joined
  <1>3. QED
    BY <1>1, <1>2

\* An operation of values that fit their fields.
Sound(op) ==
  /\ op.type \in DOMAIN Layout /\ op = [type |-> op.type, values |-> op.values]
  /\ op.values = [i \in DOMAIN Layout[op.type].fields |-> op.values[i]]
  /\ \A i \in DOMAIN Layout[op.type].fields :
       /\ IsValue(Layout[op.type].fields[i].kind, op.values[i])
       /\ FitsValue(Layout[op.type].fields[i].kind, op.values[i])

(* An operation is read back: its number says which fields to expect.      *)
LEMMA OperationReadBack ==
  ASSUME LayoutIsFaithful, LayoutIsTyped, NEW op, Sound(op), NEW t \in Bytes
  PROVE  Raw(op) \in Bytes /\ TakeOperation(Joined(Raw(op), t)) = Read(op, t)
  <1>0. PICK type, v : type \in DOMAIN Layout /\ type = op.type /\ v = op.values /\ op = [type |-> type, values |-> v]
    BY Zenon DEF Sound
  <1> DEFINE fields == Layout[type].fields
  <1>1. type \in DOMAIN Layout /\ type = op.type /\ v = op.values /\ op = [type |-> type, values |-> v]
    BY <1>0
  <1>2. Layout[type].which \in Nat /\ TypeOf(Layout[type].which) = type
    <2>1. Layout[type].which \in Nat
      BY <1>1, Zenon DEF LayoutIsTyped
    <2>2. TypeOf(Layout[type].which) = type
      BY <1>1, Zenon DEF LayoutIsFaithful, TypeOf
    <2>3. QED
      BY <2>1, <2>2
  <1>3. PICK n \in Nat : n = Len(fields) /\ DOMAIN fields = 1..n /\ \A i \in 1..n : fields[i].kind \in Kinds
    BY <1>1, Zenon DEF LayoutIsTyped, Typed
  <1>4. /\ v = [i \in 1..n |-> v[i]]
        /\ \A i \in 1..n : IsValue(fields[i].kind, v[i]) /\ FitsValue(fields[i].kind, v[i])
    BY <1>1, <1>3, Zenon DEF Sound
  <1> DEFINE packed == [i \in 1..n |-> Pack(fields[i].kind, v[i])]
  <1>5. PICK number \in Bytes : number = Varint[Layout[type].which] /\ Raw(op) = number \o FlattenSeq(packed)
    <2>1. Varint[Layout[type].which] \in Bytes
      BY <1>2, VarintIs
    <2>2. Body(op) = FlattenSeq(packed)
      <3>1. Body(op) = NodeBody(op)
        BY <1>1, BytesAreTheNodes, Zenon
      <3>2. QED
        BY <1>1, <1>3, <3>1, Zenon DEF NodeBody
    <2> HIDE DEF packed
    <2>3. QED
      BY <1>1, <2>1, <2>2, Zenon DEF Raw
  <1>6. packed \in [1..n -> Bytes]
    <2>1. \A i \in 1..n : Pack(fields[i].kind, v[i]) \in Bytes
      BY <1>3, <1>4, ValueBytes, Zenon
    <2>2. QED
      BY <2>1
  <1>7. \A i \in 1..n, u \in Bytes : Take(fields[i].kind, Joined(packed[i], u)) = Read(v[i], u)
    <2>1. \A i \in 1..n : packed[i] = Pack(fields[i].kind, v[i])
      OBVIOUS
    <2> HIDE DEF packed, fields
    <2>2. ASSUME NEW i \in 1..n, NEW u \in Bytes PROVE Take(fields[i].kind, Joined(Pack(fields[i].kind, v[i]), u)) = Read(v[i], u)
      BY <1>3, <1>4, ValueReadBack, Zenon
    <2>3. QED
      BY <2>1, <2>2, Zenon
  <1> HIDE DEF packed
  <1>8. PICK rest \in [0..n -> Bytes] : IsRest(rest, packed, n, t)
    BY <1>6, EachHasARest
  <1>9. FlattenSeq(packed) \in Bytes
    BY <1>6, FlatBytes
  <1>10. PICK whole : whole = Joined(Raw(op), t) /\ TakeSize(whole) = Read(Layout[type].which, rest[0])
    <2>1. (number \o FlattenSeq(packed)) \o t = number \o (FlattenSeq(packed) \o t)
      BY <1>9, BytesAssociate
    <2>2. 0 \in 0..n
      OBVIOUS
    <2>3. rest[0] = FlattenSeq(packed) \o t /\ rest[0] \in Bytes
      BY <1>8, <2>2, Zenon DEF IsRest, Joined
    <2>4. TakeSize(number \o rest[0]) = Read(Layout[type].which, rest[0])
      BY <1>2, <1>5, <2>3, VarintReadBack, Zenon
    <2>5. QED
      BY <1>5, <2>1, <2>3, <2>4, Zenon DEF Joined
  <1> DEFINE next(before, i) == OneMoreRead(before, Take(fields[i].kind, before.rest))
             Is(f, s) == f = [i \in 0..Len(fields) |-> IF i = 0 THEN Read(<<>>, s) ELSE next(f[i - 1], i)]
             taken == CHOOSE f : Is(f, rest[0])
  <1>11. TakeOperation(whole) = Read([type |-> type, values |-> taken[n].value], taken[n].rest)
    <2>1. Read(Layout[type].which, rest[0]).value = Layout[type].which /\ Read(Layout[type].which, rest[0]).rest = rest[0]
      BY ReadIs
    <2>2. TypeOf(TakeSize(whole).value) = type /\ TakeSize(whole).rest = rest[0]
      BY <1>2, <1>10, <2>1, Zenon
    <2> DEFINE after(f, o, i) == OneMoreRead(f[i - 1], Take(Layout[o].fields[i].kind, f[i - 1].rest))
               all(f, o, u) == f = [i \in 0..Len(Layout[o].fields) |-> IF i = 0 THEN Read(<<>>, u) ELSE after(f, o, i)]
               body(o, u) == (CHOOSE f : all(f, o, u))[Len(Layout[o].fields)]
    <2>3. TakeOperation(whole) =
            Read([type |-> TypeOf(TakeSize(whole).value),
                  values |-> body(TypeOf(TakeSize(whole).value), TakeSize(whole).rest).value],
                 body(TypeOf(TakeSize(whole).value), TakeSize(whole).rest).rest)
      BY Zenon DEF TakeOperation, TakeEach, OneMoreRead
    <2>4. body(type, rest[0]) = taken[n]
      BY <1>3, Zenon
    <2> HIDE DEF body, taken
    <2>5. QED
      BY <2>2, <2>3, <2>4, Zenon
  <1>12. PICK e : e = Expected(v, rest, n)
    OBVIOUS
  <1>13. e[0] = Read(<<>>, rest[0]) /\ e[n] = Read(v, t)
    <2>1. v = [i \in 1..n |-> v[i]] /\ rest[n] = t
      BY <1>4, <1>8, Zenon DEF IsRest
    <2>2. Expected(v, rest, n)[0] = Read(<<>>, rest[0]) /\ Expected(v, rest, n)[n] = Read(v, rest[n])
      BY <2>1, ExpectedEnds
    <2>3. QED
      BY <1>12, <2>1, <2>2, Zenon
  <1>14. ASSUME NEW i \in 1..n PROVE next(e[i - 1], i) = e[i]
    <2>1. rest[i] \in Bytes /\ rest[i - 1] = Joined(packed[i], rest[i])
      BY <1>8 DEF IsRest
    <2>2. Take(fields[i].kind, rest[i - 1]) = Read(v[i], rest[i])
      BY <1>7, <2>1, Zenon
    <2>3. e[i - 1].rest = rest[i - 1] /\ OneMoreRead(e[i - 1], Read(v[i], rest[i])) = e[i]
      <3>1. /\ Expected(v, rest, n)[i - 1].rest = rest[i - 1]
            /\ OneMoreRead(Expected(v, rest, n)[i - 1], Read(v[i], rest[i])) = Expected(v, rest, n)[i]
        BY ExpectedGrows
      <3>2. QED
        BY <1>12, <3>1, Zenon
    <2>4. QED
      BY <2>2, <2>3, Zenon
  <1> HIDE DEF next
  <1>15. Is(e, rest[0])
    <2>1. e = [i \in 0..n |-> e[i]]
      BY <1>12 DEF Expected
    <2>2. \A i \in 0..n : e[i] = IF i = 0 THEN Read(<<>>, rest[0]) ELSE next(e[i - 1], i)
      <3>1. \A i \in 0..n : i # 0 => i \in 1..n
        OBVIOUS
      <3>2. QED
        BY <1>13, <1>14, <3>1, Zenon
    <2>3. QED
      BY <1>3, <2>1, <2>2, Zenon
  <1>16. Is(taken, rest[0])
    <2> HIDE DEF Is
    <2>1. QED
      BY <1>15
  <1>17. taken[0] = e[0] /\ \A i \in 1..n : taken[i] = next(taken[i - 1], i)
    <2> HIDE DEF taken
    <2>1. 0 \in 0..n /\ \A i \in 1..n : i \in 0..n /\ i # 0
      OBVIOUS
    <2>2. QED
      BY <1>3, <1>13, <1>16, <2>1, Zenon
  <1> HIDE DEF taken, Is
  <1>18. taken[n] = Read(v, t)
    <2>1. \A i \in 1..n : taken[i - 1] = e[i - 1] => taken[i] = e[i]
      BY <1>14, <1>17, Zenon
    <2>2. taken[n] = e[n]
      BY <1>17, <2>1, SameAsExpected, Zenon
    <2>3. QED
      BY <1>13, <2>2, Zenon
  <1>19. TakeOperation(whole) = Read(op, t)
    <2>1. taken[n].value = v /\ taken[n].rest = t
      BY <1>18, ReadIs, Zenon
    <2>2. QED
      BY <1>1, <1>11, <2>1, Zenon
  <1>20. Raw(op) \in Bytes
    BY <1>5, <1>9, BytesJoin, Zenon
  <1>21. QED
    BY <1>10, <1>19, <1>20, Zenon

(* And a list of them, which is all there is.                              *)
LEMMA ListReadBack ==
  ASSUME LayoutIsFaithful, LayoutIsTyped, NEW n \in Nat, NEW ops, ops = [i \in 1..n |-> ops[i]],
         \A i \in 1..n : Sound(ops[i])
  PROVE  Decode(RawList(ops)) = Read(ops, <<>>)
  <1>1. DOMAIN ops = 1..n /\ Len(ops) = n
    OBVIOUS
  <1> DEFINE raws == [i \in 1..n |-> Raw(ops[i])]
  <1>2. PICK number \in Bytes : number = Varint[n] /\ RawList(ops) = number \o FlattenSeq(raws)
    <2>1. Varint[n] \in Bytes
      BY VarintIs
    <2>2. RawList(ops) = Varint[n] \o FlattenSeq(raws)
      BY <1>1, Zenon DEF RawList
    <2> HIDE DEF raws
    <2>3. QED
      BY <2>1, <2>2, Zenon
  <1>3. <<>> \in Bytes
    BY DEF Bytes
  <1>4. raws \in [1..n -> Bytes]
    <2>1. \A i \in 1..n : Raw(ops[i]) \in Bytes
      BY <1>3, OperationReadBack, Zenon
    <2>2. QED
      BY <2>1
  <1>5. \A i \in 1..n, u \in Bytes : TakeOperation(Joined(raws[i], u)) = Read(ops[i], u)
    <2>1. \A i \in 1..n : raws[i] = Raw(ops[i])
      OBVIOUS
    <2> HIDE DEF raws
    <2>2. QED
      BY <2>1, OperationReadBack, Zenon
  <1> HIDE DEF raws
  <1>6. PICK rest \in [0..n -> Bytes] : IsRest(rest, raws, n, <<>>)
    BY <1>3, <1>4, EachHasARest
  <1>7. PICK whole : whole = RawList(ops) /\ TakeSize(whole) = Read(n, rest[0])
    <2>1. FlattenSeq(raws) \in Bytes
      BY <1>4, FlatBytes
    <2>2. FlattenSeq(raws) \o <<>> = FlattenSeq(raws)
      BY <2>1, ConcatEmptySeq, Zenon DEF Bytes
    <2>3. rest[0] = FlattenSeq(raws)
      BY <1>6, <2>2, Zenon DEF IsRest, Joined
    <2>4. TakeSize(number \o FlattenSeq(raws)) = Read(n, FlattenSeq(raws))
      BY <1>2, <2>1, VarintReadBack, Zenon
    <2>5. QED
      BY <1>2, <2>3, <2>4, Zenon
  <1> DEFINE next(before, i) == OneMoreRead(before, TakeOperation(before.rest))
             Is(f, m, s) == f = [i \in 0..m |-> IF i = 0 THEN Read(<<>>, s) ELSE next(f[i - 1], i)]
             taken == CHOOSE f : Is(f, n, rest[0])
  <1>8. Decode(whole) = taken[n]
    <2>1. Decode(whole) = (CHOOSE f : Is(f, TakeSize(whole).value, TakeSize(whole).rest))[TakeSize(whole).value]
      BY Zenon DEF Decode, TakeEach, OneMoreRead
    <2>2. Read(n, rest[0]).value = n /\ Read(n, rest[0]).rest = rest[0]
      BY ReadIs
    <2>3. TakeSize(whole).value = n /\ TakeSize(whole).rest = rest[0]
      BY <1>7, <2>2, Zenon
    <2> HIDE DEF Is
    <2>4. QED
      BY <2>1, <2>3, Zenon
  <1>9. PICK e : e = Expected(ops, rest, n)
    OBVIOUS
  <1>10. e[0] = Read(<<>>, rest[0]) /\ e[n] = Read(ops, <<>>)
    <2>1. rest[n] = <<>>
      BY <1>6, Zenon DEF IsRest
    <2>2. Expected(ops, rest, n)[0] = Read(<<>>, rest[0]) /\ Expected(ops, rest, n)[n] = Read(ops, rest[n])
      BY ExpectedEnds
    <2>3. QED
      BY <1>9, <2>1, <2>2, Zenon
  <1>11. ASSUME NEW i \in 1..n PROVE next(e[i - 1], i) = e[i]
    <2>1. rest[i] \in Bytes /\ rest[i - 1] = Joined(raws[i], rest[i])
      BY <1>6 DEF IsRest
    <2>2. TakeOperation(rest[i - 1]) = Read(ops[i], rest[i])
      BY <1>5, <2>1, Zenon
    <2>3. e[i - 1].rest = rest[i - 1] /\ OneMoreRead(e[i - 1], Read(ops[i], rest[i])) = e[i]
      <3>1. /\ Expected(ops, rest, n)[i - 1].rest = rest[i - 1]
            /\ OneMoreRead(Expected(ops, rest, n)[i - 1], Read(ops[i], rest[i])) = Expected(ops, rest, n)[i]
        BY ExpectedGrows
      <3>2. QED
        BY <1>9, <3>1, Zenon
    <2>4. QED
      BY <2>2, <2>3, Zenon
  <1> HIDE DEF next
  <1>12. Is(e, n, rest[0])
    <2>1. e = [i \in 0..n |-> e[i]]
      BY <1>9 DEF Expected
    <2>2. \A i \in 0..n : e[i] = IF i = 0 THEN Read(<<>>, rest[0]) ELSE next(e[i - 1], i)
      <3>1. \A i \in 0..n : i # 0 => i \in 1..n
        OBVIOUS
      <3>2. QED
        BY <1>10, <1>11, <3>1, Zenon
    <2>3. QED
      BY <2>1, <2>2, Zenon
  <1>13. Is(taken, n, rest[0])
    <2> HIDE DEF Is
    <2>1. QED
      BY <1>12
  <1>14. taken[0] = e[0] /\ \A i \in 1..n : taken[i] = next(taken[i - 1], i)
    <2> HIDE DEF taken
    <2>1. 0 \in 0..n /\ \A i \in 1..n : i \in 0..n /\ i # 0
      OBVIOUS
    <2>2. QED
      BY <1>10, <1>13, <2>1, Zenon
  <1> HIDE DEF taken, Is
  <1>15. taken[n] = Read(ops, <<>>)
    <2>1. \A i \in 1..n : taken[i - 1] = e[i - 1] => taken[i] = e[i]
      BY <1>11, <1>14, Zenon
    <2>2. taken[n] = e[n]
      BY <1>14, <2>1, SameAsExpected, Zenon
    <2>3. QED
      BY <1>10, <2>2, Zenon
  <1>16. QED
    BY <1>7, <1>8, <1>15, Zenon
-----------------------------------------------------------------------------
(* What a builder function fills in fits the fields.                       *)

LEMMA EntriesFit ==
  ASSUME NEW kind \in {"stakes", "results"}, NEW v \in Values[kind], NEW asset \in Nat
  PROVE  FitsValue(kind, Entries(kind, v, asset))
  <1>1. PICK kinds, width, n, list :
          kinds = Entry[kind] /\ width = Len(kinds) /\ n = Len(v) /\ list = Entries(kind, v, asset)
    OBVIOUS
  <1>2. /\ kind \in DOMAIN Entry /\ width \in {2, 3} /\ kinds[1] = "id"
        /\ \A j \in 1..width : j # 1 => kinds[j] = "asset"
    <2>1. CASE kind = "stakes"
      <3>1. kinds = <<"id", "asset">>
        BY <1>1, <2>1 DEF Entry
      <3>2. QED
        BY <1>1, <2>1, <3>1 DEF Entry
    <2>2. CASE kind = "results"
      <3>1. kinds = <<"id", "asset", "asset">>
        BY <1>1, <2>2 DEF Entry
      <3>2. QED
        BY <1>1, <2>2, <3>1 DEF Entry
    <2>3. QED
      BY <2>1, <2>2
  <1>3. n \in Nat /\ DOMAIN v = 1..n /\ \A i \in 1..n : v[i] \in Nat
    <2>1. v \in Seq(Nat)
      BY ValuesOfKinds
    <2>2. QED
      BY <1>1, <2>1
  <1>4. n % width = 0 /\ \A i \in 1..n : (i - 1) % width # 0 => Fits(8, v[i])
    BY <1>1, <1>3, ValuesFit, Zenon
  <1>5. list = [i \in 1..n |-> IF (i - 1) % width = 0 THEN v[i] ELSE Amount(v[i], asset)]
    BY <1>1, <1>3, Zenon DEF Entries
  <1>6. Len(list) = n
    BY <1>3, <1>5
  <1>7. ASSUME NEW i \in 1..n PROVE FitsScalar(kinds[1 + ((i - 1) % width)], list[i])
    <2>1. 1 + ((i - 1) % width) \in 1..width
      BY <1>2, <1>3
    <2>2. CASE (i - 1) % width = 0
      <3>1. 1 + ((i - 1) % width) = 1
        BY <2>2
      <3>2. FitsScalar("id", list[i])
        BY Zenon DEF FitsScalar
      <3>3. QED
        BY <1>2, <3>1, <3>2, Zenon
    <2>3. CASE (i - 1) % width # 0
      <3>1. 1 + ((i - 1) % width) # 1
        BY <1>2, <1>3, <2>3
      <3>2. kinds[1 + ((i - 1) % width)] = "asset"
        BY <1>2, <2>1, <3>1, Zenon
      <3>3. list[i] = Amount(v[i], asset) /\ Fits(8, v[i])
        BY <1>4, <1>5, <2>3, Zenon
      <3>4. Amount(v[i], asset).amount = v[i]
        BY DEF Amount
      <3>5. FitsScalar("asset", list[i])
        BY <3>3, <3>4, Zenon DEF FitsScalar
      <3>6. QED
        BY <3>2, <3>5, Zenon
    <2>4. QED
      BY <2>2, <2>3
  <1>8. QED
    BY <1>1, <1>2, <1>4, <1>6, <1>7, Zenon DEF FitsValue

LEMMA ArgumentsFit ==
  ASSUME NEW kind \in Kinds \ {"asset", "stakes", "results"}, NEW v \in Values[kind], kind = "key" => v # BadKey
  PROVE  FitsValue(kind, v)
  <1>1. CASE kind = "ids"
    <2>1. v \in Seq(Nat)
      BY <1>1, ValuesOfKinds
    <2>2. Entry[kind] = <<"id">> /\ kind \in DOMAIN Entry
      BY <1>1 DEF Entry
    <2>3. Len(Entry[kind]) = 1 /\ Entry[kind][1] = "id" /\ Len(v) \in Nat
      BY <2>1, <2>2
    <2>4. Len(v) % 1 = 0 /\ \A i \in 1..Len(v) : 1 + ((i - 1) % 1) = 1
      BY <2>3
    <2>5. \A i \in 1..Len(v) : FitsScalar("id", v[i])
      BY Zenon DEF FitsScalar
    <2>6. QED
      BY <2>2, <2>3, <2>4, <2>5, Zenon DEF FitsValue
  <1>2. CASE kind # "ids"
    <2>1. kind \notin DOMAIN Entry
      BY <1>2 DEF Entry, Kinds
    <2>2. FitsScalar(kind, v)
      <3>1. kind = "u16" => Fits(2, v)
        BY ValuesFit
      <3>2. kind = "u32" => Fits(4, v)
        BY ValuesFit
      <3>3. kind = "key" => Len(v) = 33
        BY ValuesFit
      <3>4. kind = "signature" => Len(v) = 65
        BY ValuesFit
      <3>5. QED
        BY <3>1, <3>2, <3>3, <3>4, Zenon DEF FitsScalar
    <2>3. QED
      BY <2>1, <2>2, Zenon DEF FitsValue
  <1>3. QED
    BY <1>1, <1>2

LEMMA FieldsFit ==
  ASSUME LayoutIsTyped, fees \in Fees, NEW type \in DOMAIN Layout, NEW i \in DOMAIN Layout[type].fields,
         NEW args, TypedArgs(type, args), ~TakesBadKey(args), NEW fee \in Nat, Fits(8, fee)
  PROVE  FitsValue(Layout[type].fields[i].kind, FieldValue(Layout[type].fields[i], args, fee))
  <1>1. PICK fields, f : fields = Layout[type].fields /\ f = fields[i]
    OBVIOUS
  <1>2. PICK asset \in Nat : asset = fees.asset
    BY FeesAssumption
  <1>3. /\ f.kind \in Kinds /\ (f.param = "fee" => i = 1) /\ (f.param = "" => FitsValue(f.kind, f.value))
        /\ (f.kind = "key" => f.param = "new_pub_key")
        /\ f.param \notin {"", "fee"} => KindOf(type, f.param) = f.kind
        /\ fields[1].kind = "asset"
    BY <1>1, Zenon DEF LayoutIsTyped, Typed
  <1>4. ASSUME NEW n, Fits(8, n) PROVE FitsValue("asset", Amount(n, asset))
    <2>1. Amount(n, asset).amount = n /\ "asset" \notin DOMAIN Entry
      BY DEF Amount, Entry
    <2>2. QED
      BY <1>4, <2>1, Zenon DEF FitsValue, FitsScalar
  <1>5. CASE f.param = ""
    BY <1>1, <1>3, <1>5, Zenon DEF FieldValue
  <1>6. CASE f.param = "fee"
    <2>1. FieldValue(f, args, fee) = Amount(fee, asset)
      BY <1>2, <1>6, Zenon DEF FieldValue, Amount
    <2>2. QED
      BY <1>1, <1>3, <1>4, <1>6, <2>1, Zenon
  <1>7. CASE f.param \notin {"", "fee"}
    <2>1. PICK v : v = args[f.param] /\ v \in Values[f.kind] /\ f.param \in DOMAIN args
      <3>1. f.param \in Params(type)
        BY <1>1, <1>7 DEF Params
      <3>2. QED
        BY <1>3, <1>7, <3>1 DEF TypedArgs
    <2>2. CASE f.kind = "asset"
      <3>1. Fits(8, v)
        BY <2>1, <2>2, ValuesFit
      <3>2. FieldValue(f, args, fee) = Amount(v, asset)
        BY <1>2, <1>7, <2>1, <2>2, Zenon DEF FieldValue, Amount
      <3>3. QED
        BY <1>1, <1>4, <2>2, <3>1, <3>2, Zenon
    <2>3. CASE f.kind \in {"stakes", "results"}
      <3>1. FieldValue(f, args, fee) = Entries(f.kind, v, asset)
        BY <1>2, <1>7, <2>1, <2>3, Zenon DEF FieldValue, Amount, Entries
      <3>2. QED
        BY <1>1, <2>1, <2>3, <3>1, EntriesFit, Zenon
    <2>4. CASE f.kind \notin {"asset", "stakes", "results"}
      <3>1. FieldValue(f, args, fee) = v
        BY <1>7, <2>1, <2>4, Zenon DEF FieldValue
      <3>2. f.kind = "key" => v # BadKey
        BY <1>3, <2>1, Zenon DEF TakesBadKey
      <3>3. FitsValue(f.kind, v)
        BY <1>3, <2>1, <2>4, <3>2, ArgumentsFit
      <3>4. QED
        BY <1>1, <3>1, <3>3, Zenon
    <2>5. QED
      BY <2>2, <2>3, <2>4
  <1>8. QED
    BY <1>5, <1>6, <1>7

LEMMA FillIsSound ==
  ASSUME LayoutIsTyped, fees \in Fees, NEW type \in DOMAIN Layout,
         NEW args, TypedArgs(type, args), ~TakesBadKey(args), NEW fee \in Nat, Fits(8, fee)
  PROVE  Sound(Fill(type, args, fee))
  <1>1. PICK fields : fields = Layout[type].fields
    OBVIOUS
  <1> DEFINE value(i) == FieldValue(fields[i], args, fee)
  <1>2. PICK values : values = [i \in DOMAIN fields |-> value(i)]
    OBVIOUS
  <1>3. PICK op : op = Fill(type, args, fee) /\ op = [type |-> type, values |-> values]
    BY <1>1, <1>2, Zenon DEF Fill
  <1>4. op.type = type /\ op.values = values
    BY <1>3
  <1>5. \A i \in DOMAIN fields : IsValue(fields[i].kind, value(i)) /\ FitsValue(fields[i].kind, value(i))
    BY <1>1, FieldsHoldValues, FieldsFit, Zenon
  <1> HIDE DEF value
  <1>6. values = [i \in DOMAIN fields |-> values[i]] /\ \A i \in DOMAIN fields : values[i] = value(i)
    BY <1>2
  <1>7. \A i \in DOMAIN fields : IsValue(fields[i].kind, values[i]) /\ FitsValue(fields[i].kind, values[i])
    BY <1>5, <1>6, Zenon
  <1>8. Layout[op.type].fields = fields /\ op.type \in DOMAIN Layout /\ op = [type |-> op.type, values |-> op.values]
    BY <1>1, <1>3, <1>4
  <1>9. Sound(op)
    BY <1>4, <1>6, <1>7, <1>8, Zenon DEF Sound
  <1>10. QED
    BY <1>3, <1>9

LEMMA FeeFits ==
  ASSUME LayoutIsFaithful, LayoutIsTyped, fees \in Fees, NEW type \in DOMAIN Charge, NEW args \in Args(type),
         Fee(type, args) - fees.basic < DataFeeLimit
  PROVE  Fee(type, args) \in Nat /\ Fits(8, Fee(type, args))
  <1>1. PICK basic \in Nat, price \in Nat : basic = fees.basic /\ price = fees.price
    BY FeesAssumption
  <1>2. Fits(8, basic + DataFeeLimit) /\ basic + DataFeeLimit \in Nat
    BY <1>1, FeesFit, LimitAssumption
  <1>3. PICK fee : fee = Fee(type, args)
    OBVIOUS
  <1>4. fee \in Nat /\ fee <= basic + DataFeeLimit
    <2>1. CASE Charge[type] = "free"
      <3>1. fee = 0
        BY <1>3, <2>1, Zenon DEF Fee
      <3>2. QED
        BY <1>2, <3>1
    <2>2. CASE Charge[type] = "basic"
      <3>1. fee = basic
        BY <1>1, <1>3, <2>2, Zenon DEF Fee
      <3>2. QED
        BY <3>1, LimitAssumption
    <2>3. CASE Charge[type] = "priced"
      <3>1. type \in DOMAIN Layout
        BY DEF LayoutIsFaithful
      <3>2. TypedArgs(type, args)
        BY <3>1, ArgsAreTyped
      <3>3. PICK size \in Nat : size = Size(Fill(type, args, basic))
        BY <2>3, <3>2, SizeIsOfAnyFee
      <3>4. PICK data \in Nat : data = (size * price) \div 1024
        <4>1. PICK product : product = size * price /\ product \in Nat
          OBVIOUS
        <4>2. product \div 1024 \in Nat
          BY <4>1
        <4>3. QED
          BY <4>1, <4>2, Zenon
      <3>5. fee = basic + data
        BY <1>1, <1>3, <2>3, <3>3, <3>4, Zenon DEF Fee, DataFee
      <3>6. fee - basic < DataFeeLimit
        BY <1>1, <1>3
      <3>7. QED
        BY <3>5, <3>6, LimitAssumption
    <2>4. QED
      BY <2>1, <2>2, <2>3 DEF LayoutIsTyped
  <1>5. Fits(8, fee)
    BY <1>2, <1>4, LessFits
  <1>6. QED
    BY <1>3, <1>4, <1>5

LEMMA WithdrawalIsSound ==
  ASSUME LayoutIsFaithful, LayoutIsTyped, fees \in Fees,
         NEW owner \in Values.id, NEW id \in Values.id, NEW amount \in Values.asset
  PROVE  Sound(Withdrawal(owner, id, amount))
  <1>1. PICK args : args = [vesting_balance |-> id, owner |-> owner, amount |-> amount]
    OBVIOUS
  <1>2. TypedArgs("vesting_balance_withdraw", args)
    <2>1. ASSUME NEW p \in Params("vesting_balance_withdraw")
          PROVE  p \in DOMAIN args /\ args[p] \in Values[KindOf("vesting_balance_withdraw", p)]
      <3>1. \/ p \in {"vesting_balance", "owner"} /\ KindOf("vesting_balance_withdraw", p) = "id"
            \/ p = "amount" /\ KindOf("vesting_balance_withdraw", p) = "asset"
        BY Zenon DEF LayoutIsTyped
      <3>2. /\ DOMAIN args = {"vesting_balance", "owner", "amount"}
            /\ args["vesting_balance"] = id /\ args["owner"] = owner /\ args["amount"] = amount
        BY <1>1
      <3>3. id \in Values["id"] /\ owner \in Values["id"] /\ amount \in Values["asset"]
        OBVIOUS
      <3>4. QED
        BY <3>1, <3>2, <3>3, Zenon
    <2>2. QED
      BY <2>1, Zenon DEF TypedArgs
  <1>3. ~TakesBadKey(args)
    BY <1>1 DEF TakesBadKey
  <1>4. PICK basic \in Nat : basic = fees.basic /\ Fits(8, basic)
    <2>1. PICK basic \in Nat : basic = fees.basic
      BY FeesAssumption
    <2>2. Fits(8, basic + DataFeeLimit) /\ basic + DataFeeLimit \in Nat /\ basic <= basic + DataFeeLimit
      BY <2>1, FeesFit, LimitAssumption
    <2>3. QED
      BY <2>1, <2>2, LessFits
  <1>5. "vesting_balance_withdraw" \in DOMAIN Layout
    BY DEF LayoutIsFaithful
  <1>6. Sound(Fill("vesting_balance_withdraw", args, basic))
    BY <1>2, <1>3, <1>4, <1>5, FillIsSound
  <1>7. QED
    BY <1>1, <1>4, <1>6, Zenon DEF Withdrawal
-----------------------------------------------------------------------------
(* The operations of a result are sound, and its bytes are theirs.         *)

SoundList(ops) == \E n \in Nat : ops = [i \in 1..n |-> ops[i]] /\ \A i \in 1..n : Sound(ops[i])

SoundInv == fees \in Fees /\ SoundList(result.ops) /\ result.raw = RawList(result.ops)

LEMMA NoneIsSound == SoundList(<<>>)
  <1>1. <<>> = [i \in 1..0 |-> <<>>[i]] /\ \A i \in 1..0 : Sound(<<>>[i])
    OBVIOUS
  <1>2. QED
    BY <1>1, Zenon DEF SoundList

LEMMA ReturnedIsSound ==
  ASSUME NEW status, NEW ops, SoundList(ops), result' = Returned(status, ops)
  PROVE  SoundList(result'.ops) /\ result'.raw = RawList(result'.ops)
  <1>1. result'.ops = ops /\ result'.raw = RawList(ops)
    BY DEF Returned
  <1>2. QED
    BY <1>1

LEMMA SoundInvStep ==
  ASSUME LayoutIsFaithful, LayoutIsTyped, SoundInv, [Next]_vars
  PROVE  SoundInv'
  <1>1. ASSUME NEW f \in Fees, UpdateFees(f) PROVE SoundInv'
    <2>1. result = Nothing /\ result' = [result EXCEPT !.fees = f] /\ fees' = f
      BY <1>1 DEF UpdateFees, Idle
    <2>2. result'.ops = <<>> /\ result'.raw = RawList(<<>>)
      BY <2>1 DEF Nothing
    <2>3. QED
      BY <2>1, <2>2, NoneIsSound DEF SoundInv
  <1>2. ASSUME TakeResult PROVE SoundInv'
    <2>1. result'.ops = <<>> /\ result'.raw = RawList(<<>>) /\ fees' = fees
      BY <1>2 DEF TakeResult, Nothing
    <2>2. QED
      BY <2>1, NoneIsSound DEF SoundInv
  <1>3. ASSUME NEW type \in DOMAIN Charge, NEW args \in Args(type), Make(type, args) PROVE SoundInv'
    <2>1. PICK fee \in Nat : fee = Fee(type, args) /\ Fits(8, fee)
      BY <1>3, FeeFits DEF Make, SoundInv
    <2>2. type \in DOMAIN Layout
      BY DEF LayoutIsFaithful
    <2>3. TypedArgs(type, args)
      BY <2>2, ArgsAreTyped
    <2>4. PICK op : op = Fill(type, args, fee) /\ Sound(op)
      BY <1>3, <2>1, <2>2, <2>3, FillIsSound DEF Make, SoundInv
    <2>5. result' = Returned("made", <<op>>) /\ fees' = fees
      BY <1>3, <2>1, <2>4 DEF Make
    <2>6. SoundList(<<op>>)
      <3>1. <<op>> = [i \in 1..1 |-> <<op>>[i]] /\ \A i \in 1..1 : <<op>>[i] = op
        OBVIOUS
      <3>2. \A i \in 1..1 : Sound(<<op>>[i])
        BY <2>4, <3>1
      <3>3. QED
        BY <3>1, <3>2 DEF SoundList
    <2>7. QED
      BY <2>5, <2>6, ReturnedIsSound DEF SoundInv
  <1>4. ASSUME NEW type, NEW args, RefuseDataFee(type, args) \/ RefuseKey(type, args) PROVE SoundInv'
    <2>1. PICK status : result' = Returned(status, <<>>) /\ fees' = fees
      BY <1>4 DEF RefuseDataFee, RefuseKey
    <2>2. QED
      BY <2>1, NoneIsSound, ReturnedIsSound DEF SoundInv
  <1>5. ASSUME NEW owner \in Values.id, NEW valid, NEW ids \in [valid -> Values.id],
               NEW amounts \in [valid -> Values.asset], Withdraw(owner, ids, amounts)
        PROVE  SoundInv'
    <2>1. PICK n, ops :
            result' = Returned("made", ops) /\ fees' = fees /\ AreWithdrawals(n, ops, owner, ids, amounts)
      BY <1>5, WithdrawReturns, Zenon
    <2>2. /\ n \in Nat /\ ops = [i \in 1..n |-> ops[i]]
          /\ \A i \in 1..n : \E b \in DOMAIN ids : ops[i] = Withdrawal(owner, ids[b], amounts[b])
      BY <2>1, Zenon DEF AreWithdrawals
    <2>3. \A b \in DOMAIN ids : Sound(Withdrawal(owner, ids[b], amounts[b]))
      <3>1. \A b \in DOMAIN ids : ids[b] \in Values.id /\ amounts[b] \in Values.asset
        OBVIOUS
      <3>2. QED
        BY <3>1, WithdrawalIsSound, Zenon DEF SoundInv
    <2>4. SoundList(ops)
      BY <2>2, <2>3, Zenon DEF SoundList
    <2>5. QED
      BY <2>1, <2>4, ReturnedIsSound DEF SoundInv
  <1>6. ASSUME UNCHANGED vars PROVE SoundInv'
    BY <1>6 DEF vars, SoundInv
  <1>7. QED
    BY <1>1, <1>2, <1>3, <1>4, <1>5, <1>6, Zenon DEF Next

(* The bytes that are signed have one reading, so two lists of operations  *)
(* that differ in any field are not signed alike (pack_to_raw_helper.h).   *)
THEOREM BytesHaveOneReading ==
  ASSUME LayoutIsFaithful, LayoutIsTyped
  PROVE  Spec => []OneReading
  <1>1. Init => SoundInv
    <2>1. ASSUME Init PROVE SoundInv
      <3>1. fees \in Fees /\ result.ops = <<>> /\ result.raw = RawList(<<>>)
        BY <2>1 DEF Init, Nothing
      <3>2. QED
        BY <3>1, NoneIsSound DEF SoundInv
    <2>2. QED
      BY <2>1
  <1>2. ASSUME SoundInv PROVE OneReading
    <2>1. PICK ops : ops = result.ops /\ result.raw = RawList(ops)
      BY <1>2 DEF SoundInv
    <2>2. PICK n \in Nat : ops = [i \in 1..n |-> ops[i]] /\ \A i \in 1..n : Sound(ops[i])
      BY <1>2, <2>1 DEF SoundInv, SoundList
    <2>3. Decode(RawList(ops)) = Read(ops, <<>>)
      BY <2>2, ListReadBack
    <2>4. QED
      BY <2>1, <2>3, Zenon DEF OneReading, Read
  <1>3. QED
    BY <1>1, <1>2, SoundInvStep, PTL DEF Spec
=============================================================================
