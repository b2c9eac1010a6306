--------------------------- MODULE ResponsesProofs ---------------------------
(***************************************************************************)
(* What the node's answers become, for answers of any length and contents, *)
(* settings, keys and widths of any size: the settings charge what one     *)
(* answer says and meet what the builder's constructor asserts, lists are  *)
(* whole, amounts are of one asset, and fees, identifiers, amounts, votes  *)
(* and versions read back as they were written.                            *)
(***************************************************************************)
EXTENDS Responses, InductionLemmas, SequenceTheorems, FunctionTheorems
-----------------------------------------------------------------------------
(* The fees of an answer: parse_blockchain_fees, one entry after another.  *)

\* What a parse does with one entry.
Take(p, k, t) == IF p.fees[k].op \in Operations THEN parse_fee(p.fees[k], t, Uint32(p.scale)) ELSE t

(* The settings after each entry. *)
IsParse(h, p, n, s) ==
  /\ h[0] = s /\ \A k \in 1..n : h[k] = Take(p, k, h[k - 1])
  /\ parse_blockchain_fees(p, s) = h[n]

LEMMA FoldOfFees ==
  ASSUME NEW p, NEW n \in Nat, DOMAIN p.fees = 1..n, NEW V, NEW s \in V,
         \A k \in 1..n, t \in V : Take(p, k, t) \in V
  PROVE  \E h \in [0..n -> V] : IsParse(h, p, n, s)
  <1> DEFINE Is(g) == g = [T \in SUBSET (1..n) |-> IF T = {} THEN s ELSE Take(p, Max(T), g[T \ {Max(T)}])]
             fold == CHOOSE g : Is(g)
  <1>1. parse_blockchain_fees(p, s) = fold[1..n]
    BY DEF parse_blockchain_fees, FoldLeft, MapThenFoldSet, Take
  <1>2. PICK step : step = [x \in (1..n) \X V |-> Take(p, x[1], x[2])]
    OBVIOUS
  <1>3. \A k \in 1..n, t \in V : step[<<k, t>>] = Take(p, k, t) /\ step[<<k, t>>] \in V
    BY <1>2
  <1>4. \E g : Is(g)
    <2>1. PICK g \in [SUBSET (1..n) -> V] : IsFoldOfPositions(g, n, s, step)
      BY <1>3, FoldOverPositions
    <2>2. \A T \in SUBSET (1..n) : T # {} => Max(T) \in T /\ Max(T) \in 1..n /\ g[T \ {Max(T)}] \in V
      BY <2>1, MaxIsLargest
    <2>3. \A T \in SUBSET (1..n) : g[T] = IF T = {} THEN s ELSE Take(p, Max(T), g[T \ {Max(T)}])
      BY <1>3, <2>1, <2>2 DEF IsFoldOfPositions
    <2>4. g = [T \in SUBSET (1..n) |-> IF T = {} THEN s ELSE Take(p, Max(T), g[T \ {Max(T)}])]
      BY <2>1, <2>3
    <2>5. QED
      BY <2>4
  <1>5. Is(fold)
    <2> HIDE DEF Is
    <2>1. QED
      BY <1>4
  <1>6. fold[{}] = s /\ \A k \in 1..n : fold[1..k] = Take(p, k, fold[1..k - 1])
    <2> HIDE DEF fold
    <2>1. \A T \in SUBSET (1..n) : fold[T] = IF T = {} THEN s ELSE Take(p, Max(T), fold[T \ {Max(T)}])
      BY <1>5
    <2>2. ASSUME NEW k \in 1..n PROVE fold[1..k] = Take(p, k, fold[1..k - 1])
      <3>1. 1..k # {} /\ Max(1..k) = k /\ (1..k) \ {k} = 1..k - 1
        <4>1. k \in Nat /\ k # 0
          OBVIOUS
        <4>2. QED
          BY <4>1, MaxOfFirst
      <3>2. 1..k \in SUBSET (1..n)
        OBVIOUS
      <3>3. QED
        BY <2>1, <3>1, <3>2
    <2>3. QED
      BY <2>1, <2>2
  <1> HIDE DEF fold, Is
  <1>7. \A k \in 0..n : fold[1..k] \in V
    <2>1. \A k \in 1..n : fold[1..k - 1] \in V => fold[1..k] = step[<<k, fold[1..k - 1]>>]
      BY <1>3, <1>6
    <2>2. \A k \in 1..n, t \in V : step[<<k, t>>] \in V
      BY <1>3
    <2>3. fold[{}] \in V
      BY <1>6
    <2>4. QED
      BY <2>1, <2>2, <2>3, FoldStepByStep, Zenon
  <1>8. PICK h : h = [k \in 0..n |-> fold[1..k]]
    OBVIOUS
  <1>9. h \in [0..n -> V] /\ h[0] = s /\ h[n] = fold[1..n]
    <2>1. 1..0 = {}
      OBVIOUS
    <2>2. QED
      BY <1>6, <1>7, <1>8, <2>1
  <1>10. \A k \in 1..n : h[k] = Take(p, k, h[k - 1])
    BY <1>6, <1>8
  <1>11. QED
    BY <1>1, <1>9, <1>10 DEF IsParse

-----------------------------------------------------------------------------
(* What an answer charges, of its first k entries.                         *)
EntriesTo(p, op, k) == {j \in 1..k : p.fees[j].op = op}
PricedTo(p, op, k) == {j \in EntriesTo(p, op, k) : Has(p.fees[j], "price_per_kbyte")}
FeeOfEntry(p, j) == Scaled(BasicFee(p.fees[j]), Uint32(p.scale))
PriceOfEntry(p, j) == Scaled(Price(p.fees[j]), Uint32(p.scale))
FeeTo(p, op, k) == IF EntriesTo(p, op, k) = {} THEN DefaultFee[op] ELSE FeeOfEntry(p, Latest(EntriesTo(p, op, k)))
PriceTo(p, op, k) == IF PricedTo(p, op, k) = {} THEN 0 ELSE PriceOfEntry(p, Latest(PricedTo(p, op, k)))

AllFees(p, k) == [op \in Operations |-> FeeTo(p, op, k)]
AllPrices(p, k) == [op \in Priced |-> PriceTo(p, op, k)]
After(p, k) ==
  [fee |-> AllFees(p, k), price |-> AllPrices(p, k), exp |-> DefaultExp, off |-> DefaultOff, choice |-> DefaultChoice]

LEMMA LatestOf ==
  ASSUME NEW k \in Nat, NEW ks \in SUBSET (1..k), k \in ks
  PROVE  Latest(ks) = k
  <1>1. \A l \in ks : l \in 1..k
    OBVIOUS
  <1>2. \A l \in ks : l <= k
    BY <1>1
  <1>3. \A j \in ks : (\A l \in ks : l <= j) => j = k
    BY <1>1
  <1>4. QED
    BY <1>2, <1>3 DEF Latest

LEMMA EntriesOneMore ==
  ASSUME NEW p, NEW op, NEW k \in Nat \ {0}
  PROVE  EntriesTo(p, op, k) = EntriesTo(p, op, k - 1) \cup (IF p.fees[k].op = op THEN {k} ELSE {})
  <1>1. 1..k = 1..k - 1 \cup {k}
    OBVIOUS
  <1>2. QED
    BY <1>1 DEF EntriesTo

LEMMA FeeOneMore ==
  ASSUME NEW p, NEW op, NEW k \in Nat \ {0}
  PROVE  FeeTo(p, op, k) = IF p.fees[k].op = op THEN FeeOfEntry(p, k) ELSE FeeTo(p, op, k - 1)
  <1>1. CASE p.fees[k].op = op
    <2>1. k \in EntriesTo(p, op, k) /\ EntriesTo(p, op, k) \in SUBSET (1..k)
      BY <1>1 DEF EntriesTo
    <2>2. Latest(EntriesTo(p, op, k)) = k
      BY <2>1, LatestOf
    <2>3. QED
      BY <1>1, <2>1, <2>2 DEF FeeTo
  <1>2. CASE p.fees[k].op # op
    <2>1. EntriesTo(p, op, k) = EntriesTo(p, op, k - 1)
      <3>1. EntriesTo(p, op, k) = EntriesTo(p, op, k - 1) \cup {}
        BY <1>2, EntriesOneMore
      <3>2. QED
        BY <3>1
    <2>2. QED
      BY <1>2, <2>1 DEF FeeTo
  <1>3. QED
    BY <1>1, <1>2

LEMMA PriceOneMore ==
  ASSUME NEW p, NEW op, NEW k \in Nat \ {0}
  PROVE  PriceTo(p, op, k) =
           IF p.fees[k].op = op /\ Has(p.fees[k], "price_per_kbyte") THEN PriceOfEntry(p, k) ELSE PriceTo(p, op, k - 1)
  <1>1. CASE p.fees[k].op = op /\ Has(p.fees[k], "price_per_kbyte")
    <2>1. k \in PricedTo(p, op, k) /\ PricedTo(p, op, k) \in SUBSET (1..k)
      BY <1>1 DEF PricedTo, EntriesTo
    <2>2. Latest(PricedTo(p, op, k)) = k
      BY <2>1, LatestOf
    <2>3. QED
      BY <1>1, <2>1, <2>2 DEF PriceTo
  <1>2. CASE ~(p.fees[k].op = op /\ Has(p.fees[k], "price_per_kbyte"))
    <2>1. PricedTo(p, op, k) = PricedTo(p, op, k - 1)
      BY <1>2, EntriesOneMore DEF PricedTo
    <2>2. QED
      BY <1>2, <2>1 DEF PriceTo
  <1>3. QED
    BY <1>1, <1>2

LEMMA AfterOneMore ==
  ASSUME NEW p, NEW k \in Nat \ {0}
  PROVE  After(p, k) = Take(p, k, After(p, k - 1))
  <1>1. PICK t : t = After(p, k - 1)
    OBVIOUS
  <1>2. t = [fee |-> AllFees(p, k - 1), price |-> AllPrices(p, k - 1), exp |-> DefaultExp, off |-> DefaultOff, choice |-> DefaultChoice]
    BY <1>1 DEF After
  <1>3. t.fee = AllFees(p, k - 1) /\ t.price = AllPrices(p, k - 1) /\ t.exp = DefaultExp /\ t.off = DefaultOff /\ t.choice = DefaultChoice
    BY <1>2
  <1>4. CASE p.fees[k].op \notin Operations
    <2>1. \A op \in Operations : p.fees[k].op # op
      BY <1>4
    <2>2. AllFees(p, k) = AllFees(p, k - 1)
      BY <2>1, FeeOneMore DEF AllFees
    <2>3. AllPrices(p, k) = AllPrices(p, k - 1)
      BY <2>1, PriceOneMore, SettingsRefreshAssumption DEF AllPrices
    <2>4. QED
      BY <1>4, <2>2, <2>3 DEF Take, After
  <1>5. CASE p.fees[k].op \in Operations
    <2>1. PICK e : e = p.fees[k]
      OBVIOUS
    <2>2. AllFees(p, k) = [AllFees(p, k - 1) EXCEPT ![e.op] = Scaled(BasicFee(e), Uint32(p.scale))]
      <3>1. \A op \in Operations : FeeTo(p, op, k) = IF e.op = op THEN Scaled(BasicFee(e), Uint32(p.scale)) ELSE FeeTo(p, op, k - 1)
        BY <2>1, FeeOneMore DEF FeeOfEntry
      <3>2. QED
        BY <3>1 DEF AllFees
    <2>3. AllPrices(p, k) = [op \in Priced |->
            IF op = e.op /\ Has(e, "price_per_kbyte") THEN Scaled(Price(e), Uint32(p.scale)) ELSE AllPrices(p, k - 1)[op]]
      <3>1. \A op \in Priced : PriceTo(p, op, k) =
              IF op = e.op /\ Has(e, "price_per_kbyte") THEN Scaled(Price(e), Uint32(p.scale)) ELSE PriceTo(p, op, k - 1)
        BY <2>1, PriceOneMore DEF PriceOfEntry
      <3>2. QED
        BY <3>1 DEF AllPrices
    <2>4. parse_fee(e, t, Uint32(p.scale)) = After(p, k)
      BY <1>3, <2>2, <2>3 DEF parse_fee, After
    <2>5. QED
      BY <1>1, <1>5, <2>1, <2>4 DEF Take
  <1>6. QED
    BY <1>4, <1>5

(* The settings that a parse may come by.                                  *)
Charges(p, n) ==
  {DefaultFee[op] : op \in Operations} \cup {FeeOfEntry(p, k) : k \in 1..n}
    \cup {0} \cup {PriceOfEntry(p, k) : k \in 1..n}
SettingsOf(p, n) ==
  [fee : [Operations -> Charges(p, n)], price : [Priced -> Charges(p, n)],
   exp : {DefaultExp}, off : {DefaultOff}, choice : {DefaultChoice}]

LEMMA TakeOfSettings ==
  ASSUME NEW p, NEW n \in Nat, NEW k \in 1..n, NEW t \in SettingsOf(p, n)
  PROVE  Take(p, k, t) \in SettingsOf(p, n)
  <1>1. CASE p.fees[k].op \notin Operations
    BY <1>1 DEF Take
  <1>2. CASE p.fees[k].op \in Operations
    <2>1. PICK e : e = p.fees[k]
      OBVIOUS
    <2>2. Scaled(BasicFee(e), Uint32(p.scale)) \in Charges(p, n)
      BY <2>1 DEF Charges, FeeOfEntry
    <2>3. Scaled(Price(e), Uint32(p.scale)) \in Charges(p, n)
      BY <2>1 DEF Charges, PriceOfEntry
    <2>4. t.fee \in [Operations -> Charges(p, n)] /\ t.price \in [Priced -> Charges(p, n)]
          /\ t.exp = DefaultExp /\ t.off = DefaultOff /\ t.choice = DefaultChoice
      BY DEF SettingsOf
    <2>5. parse_fee(e, t, Uint32(p.scale)) \in SettingsOf(p, n)
      BY <2>2, <2>3, <2>4 DEF parse_fee, SettingsOf
    <2>6. QED
      BY <1>2, <2>1, <2>5 DEF Take
  <1>3. QED
    BY <1>1, <1>2

LEMMA AfterNothing ==
  ASSUME NEW p, NEW n \in Nat
  PROVE  DefaultSettings = After(p, 0) /\ DefaultSettings \in SettingsOf(p, n)
  <1>1. \A op \in Operations : EntriesTo(p, op, 0) = {} /\ PricedTo(p, op, 0) = {}
    BY DEF EntriesTo, PricedTo
  <1>2. DefaultFee = [op \in Operations |-> FeeTo(p, op, 0)]
    BY <1>1, SettingsRefreshAssumption DEF FeeTo
  <1>3. [op \in Priced |-> 0] = [op \in Priced |-> PriceTo(p, op, 0)]
    BY <1>1, SettingsRefreshAssumption DEF PriceTo
  <1>4. DefaultFee \in [Operations -> Charges(p, n)]
    BY SettingsRefreshAssumption DEF Charges
  <1>5. [op \in Priced |-> 0] \in [Priced -> Charges(p, n)]
    BY DEF Charges
  <1>6. QED
    BY <1>2, <1>3, <1>4, <1>5 DEF DefaultSettings, After, AllFees, AllPrices, SettingsOf

LEMMA FeesOfAnswer ==
  ASSUME NEW p, NEW n \in Nat, DOMAIN p.fees = 1..n
  PROVE  parse_blockchain_fees(p, DefaultSettings) = After(p, n)
  <1>1. \A k \in 1..n, t \in SettingsOf(p, n) : Take(p, k, t) \in SettingsOf(p, n)
    BY TakeOfSettings
  <1>2. PICK h \in [0..n -> SettingsOf(p, n)] : IsParse(h, p, n, DefaultSettings)
    BY <1>1, AfterNothing, FoldOfFees
  <1> DEFINE S == {k \in Nat : k <= n => h[k] = After(p, k)}
  <1>3. 0 \in S
    BY <1>2, AfterNothing DEF IsParse
  <1>4. ASSUME NEW k \in Nat, k \in S PROVE k + 1 \in S
    <2>1. SUFFICES ASSUME k + 1 <= n PROVE h[k + 1] = After(p, k + 1)
      OBVIOUS
    <2>2. k + 1 \in 1..n /\ (k + 1) - 1 = k /\ h[k] = After(p, k)
      BY <1>4, <2>1
    <2>3. After(p, k + 1) = Take(p, k + 1, After(p, k))
      BY <2>2, AfterOneMore
    <2>4. QED
      BY <1>2, <2>2, <2>3 DEF IsParse
  <1>5. S = Nat
    <2> HIDE DEF S
    <2>1. S \in SUBSET Nat
      BY DEF S
    <2>2. QED
      BY <1>3, <1>4, <2>1, InductionOnNumbers
  <1>6. QED
    BY <1>2, <1>5 DEF IsParse
-----------------------------------------------------------------------------
(* The builder's settings.                                                 *)

\* What a period must be, given the parameters it comes from.
PeriodOK(s, from) ==
  /\ s.exp \in Int /\ s.off \in Int /\ s.off <= s.exp \div 3
  /\ from # Refusal => s.exp <= Uint32(from.expiration)

\* What the fees must be.
FeesOK(s, from) ==
  from # Refusal =>
    /\ from \in Parameters
    /\ s.fee = AllFees(from, Len(from.fees)) /\ s.price = AllPrices(from, Len(from.fees))

SettingsInv ==
  /\ chain \in Parameters
  /\ answers \subseteq Parameters \cup {Refusal}
  /\ \E s : settings = WithPeriod(s, settings.exp, settings.off)
  /\ PeriodOK(settings, source) /\ FeesOK(settings, source)

LEMMA SmallerIs ==
  ASSUME NEW a \in Int, NEW b \in Int
  PROVE  Smaller(a, b) \in Int /\ Smaller(a, b) <= a
  BY DEF Smaller

LEMMA PeriodOfAnswer ==
  ASSUME NEW p \in Parameters, NEW s
  PROVE  LET t == parse_blockchain_options(p, s) IN
           PeriodOK(t, p) /\ t = WithPeriod(s, t.exp, t.off)
  <1>1. Uint32(p.expiration) \in Int /\ DefaultExp \in Int /\ DefaultOff \in Int
    BY SettingsRefreshAssumption DEF Uint32
  <1>2. PICK exp \in Int : exp = Smaller(Uint32(p.expiration), DefaultExp) /\ exp <= Uint32(p.expiration)
    BY <1>1, SmallerIs
  <1>3. exp \div 3 \in Int
    BY <1>2
  <1>4. PICK off \in Int : off = Smaller(exp \div 3, DefaultOff) /\ off <= exp \div 3
    BY <1>1, <1>3, SmallerIs
  <1>5. PICK t : t = parse_blockchain_options(p, s)
    OBVIOUS
  <1>6. t = WithPeriod(s, exp, off)
    BY <1>2, <1>4, <1>5 DEF parse_blockchain_options
  <1>7. t.exp = exp /\ t.off = off
    BY <1>6 DEF WithPeriod
  <1>8. PeriodOK(t, p)
    BY <1>2, <1>4, <1>7 DEF PeriodOK
  <1>9. QED
    BY <1>5, <1>6, <1>7, <1>8

LEMMA FeesOfParsed ==
  ASSUME NEW p \in Parameters
  PROVE  FeesOK(Parsed(p), p)
  <1>1. PICK n \in Nat : n = Len(p.fees) /\ DOMAIN p.fees = 1..n
    BY SettingsRefreshAssumption
  <1>2. PICK s : s = After(p, n) /\ s = parse_blockchain_fees(p, FreshSettings)
    BY <1>1, FeesOfAnswer DEF FreshSettings
  <1>3. s.fee = AllFees(p, n) /\ s.price = AllPrices(p, n)
    <2>1. s = [fee |-> AllFees(p, n), price |-> AllPrices(p, n), exp |-> DefaultExp, off |-> DefaultOff,
               choice |-> DefaultChoice]
      BY <1>2 DEF After
    <2>2. QED
      BY <2>1
  <1>4. PICK t : t = parse_blockchain_options(p, s)
    OBVIOUS
  <1>5. t.fee = s.fee /\ t.price = s.price
    BY <1>4 DEF parse_blockchain_options, WithPeriod
  <1>6. QED
    BY <1>1, <1>2, <1>3, <1>4, <1>5 DEF Parsed, FeesOK

LEMMA SettingsInvInit == Init => SettingsInv
  <1> SUFFICES ASSUME Init PROVE SettingsInv
    OBVIOUS
  <1>1. settings = WithPeriod(DefaultSettings, DefaultExp, DefaultOff)
    BY DEF Init, DefaultSettings, WithPeriod
  <1>2. settings.exp = DefaultExp /\ settings.off = DefaultOff
    BY <1>1 DEF WithPeriod
  <1>3. PeriodOK(settings, source)
    BY <1>2, SettingsRefreshAssumption DEF Init, PeriodOK
  <1>4. QED
    BY <1>1, <1>2, <1>3 DEF Init, SettingsInv, FeesOK

LEMMA SettingsInvStep == SettingsInv /\ [Next]_vars => SettingsInv'
  <1> SUFFICES ASSUME SettingsInv, [Next]_vars PROVE SettingsInv'
    OBVIOUS
  <1>1. ASSUME NEW p \in Parameters, ChangeParameters(p) PROVE SettingsInv'
    BY <1>1 DEF ChangeParameters, SettingsInv, PeriodOK, FeesOK
  <1>2. ASSUME Answer(chain) \/ Answer(Refusal) PROVE SettingsInv'
    BY <1>2 DEF Answer, SettingsInv, PeriodOK, FeesOK
  <1>3. ASSUME NEW a \in answers, Refresh(a) PROVE SettingsInv'
    <2>1. a \in Parameters
      BY <1>3 DEF Refresh, Parses, SettingsInv
    <2>2. settings' = Parsed(a) /\ source' = a /\ answers' = answers \ {a} /\ chain' = chain
      BY <1>3 DEF Refresh
    <2>3. PeriodOK(settings', a) /\ \E s : settings' = WithPeriod(s, settings'.exp, settings'.off)
      BY <2>1, <2>2, PeriodOfAnswer DEF Parsed
    <2>4. FeesOK(settings', a)
      BY <2>1, <2>2, FeesOfParsed
    <2>5. QED
      BY <2>2, <2>3, <2>4 DEF SettingsInv, PeriodOK, FeesOK
  <1>4. ASSUME NEW a \in answers, Discard(a) PROVE SettingsInv'
    BY <1>4 DEF Discard, SettingsInv, PeriodOK, FeesOK
  <1>5. ASSUME NEW c \in OwnChoices, Choose(c) PROVE SettingsInv'
    <2>1. PICK s : settings = WithPeriod(s, settings.exp, settings.off)
      BY DEF SettingsInv
    <2>2. settings' = [settings EXCEPT !.choice = c] /\ UNCHANGED <<chain, answers, source>>
      BY <1>5 DEF Choose
    <2>3. settings' = WithPeriod([fee |-> s.fee, price |-> s.price, choice |-> c], settings.exp, settings.off)
      BY <2>1, <2>2 DEF WithPeriod
    <2>4. settings'.exp = settings.exp /\ settings'.off = settings.off /\ settings'.fee = s.fee /\ settings'.price = s.price
      BY <2>3 DEF WithPeriod
    <2>5. settings.fee = s.fee /\ settings.price = s.price
      BY <2>1 DEF WithPeriod
    <2>6. QED
      BY <2>2, <2>3, <2>4, <2>5 DEF SettingsInv, PeriodOK, FeesOK
  <1>6. ASSUME UNCHANGED vars PROVE SettingsInv'
    BY <1>6 DEF vars, SettingsInv, PeriodOK, FeesOK
  <1>7. QED
    BY <1>1, <1>2, <1>3, <1>4, <1>5, <1>6 DEF Next

LEMMA SettingsInvariant == AnswersSpec => []SettingsInv
  <1>1. AnswersInit => SettingsInv
    BY SettingsInvInit DEF AnswersInit
  <1>2. SettingsInv /\ [AnswersNext]_<<vars, responseVars>> => SettingsInv'
    <2>1. [AnswersNext]_<<vars, responseVars>> => [Next]_vars
      BY DEF AnswersNext
    <2>2. QED
      BY <2>1, SettingsInvStep
  <1>3. QED
    BY <1>1, <1>2, PTL DEF AnswersSpec

(* Settings that come from the node meet what the builder's constructor    *)
(* asserts and updateSettings does not check (playchain_settings.h:61).    *)
THEOREM SettingsMeetRequirement == AnswersSpec => []MeetsRequirement
  <1>1. SettingsInv => MeetsRequirement
    BY DEF SettingsInv, PeriodOK, MeetsRequirement
  <1>2. QED
    BY <1>1, SettingsInvariant, PTL

(* The fees that the builder charges are those of one answer, each from    *)
(* the last entry of its operation, whatever the answers before it said    *)
(* and in whatever order the entries stand (parse_blockchain_fees).        *)
THEOREM FeesAreOfOneAnswer == AnswersSpec => []ChargesOneAnswer
  <1>1. SettingsInv => ChargesOneAnswer
    <2> SUFFICES ASSUME SettingsInv, source # Refusal PROVE ChargesOneAnswer
      BY DEF ChargesOneAnswer
    <2>1. PICK n \in Nat : n = Len(source.fees) /\ DOMAIN source.fees = 1..n
      BY SettingsRefreshAssumption DEF SettingsInv, FeesOK
    <2>2. settings.fee = AllFees(source, n) /\ settings.price = AllPrices(source, n)
      BY <2>1 DEF SettingsInv, FeesOK
    <2>3. \A op : Entries(source, op) = EntriesTo(source, op, n) /\ WithPrice(source, op) = PricedTo(source, op, n)
      BY <2>1 DEF Entries, EntriesTo, WithPrice, PricedTo
    <2>4. \A op \in Operations : settings.fee[op] = FeeTo(source, op, n)
      BY <2>2 DEF AllFees
    <2>5. \A op \in Priced : settings.price[op] = PriceTo(source, op, n)
      BY <2>2 DEF AllPrices
    <2>6. QED
      BY <2>3, <2>4, <2>5 DEF ChargesOneAnswer, FeeTo, PriceTo, FeeOfEntry, PriceOfEntry
  <1>2. QED
    BY <1>1, SettingsInvariant, PTL
-----------------------------------------------------------------------------
(* A parse: what it has gathered of the entries it has been through.       *)

ItemsOf(f) == SoundItems \cup StrangeItems(f)

\* Of the first m entries, the first of each key.
Firsts(all, m) == {all[i] : i \in {j \in 1..m : \A l \in 1..j - 1 : all[l].key # all[j].key}}

\* The entries left are those from the next one on.
IsRest(left, all, m) == Len(left) = Len(all) - m /\ \A i \in 1..Len(left) : left[i] = all[m + i]

GatheredList(data, all, m) == Len(data) = m /\ \A i \in 1..m : data[i] = all[i]
GatheredMap(data, all, m) ==
  /\ ToSet(data) = Firsts(all, m)
  /\ \A i, j \in 1..Len(data) : data[i].key = data[j].key => i = j

\* An entry that nothing refused.
Taken(f, e, during) == HasAmount(f) => e.asset \in during

Progress(f, left, data, all) ==
  /\ Functions[f].shape \in {"list", "map"} =>
       \E m \in 0..Len(all) :
         /\ IsRest(left, all, m)
         /\ Functions[f].shape = "list" => GatheredList(data, all, m)
         /\ Functions[f].shape = "map" => GatheredMap(data, all, m)
  /\ Functions[f].shape \notin {"list", "map"} => Len(left) + Len(data) <= 1

ParseOK(f, left, data, all, during, asset) ==
  /\ all \in Seq(ItemsOf(f)) /\ left \in Seq(ItemsOf(f)) /\ data \in Seq(ItemsOf(f))
  /\ Progress(f, left, data, all)
  /\ \A i \in 1..Len(data) : Taken(f, data[i], during)
  /\ asset \in during

ParseInv ==
  /\ Running => ParseOK(call.f, call.left, call.data, call.all, call.during, parser)
  /\ ListsAreWhole /\ AmountsAreOfOneAsset

LEMMA AnswersAreSequences ==
  ASSUME NEW f, NEW entries \in AnswersOf(f)
  PROVE  entries \in Seq(ItemsOf(f))
  <1>1. \A n : SeqsOf(SoundItems, n) \subseteq Seq(ItemsOf(f))
    BY DEF SeqsOf, ItemsOf
  <1>2. CASE entries \in SeqsOf(SoundItems, MaxEntries)
    BY <1>1, <1>2
  <1>3. CASE \E es \in SeqsOf(SoundItems, MaxEntries) : \E k \in DOMAIN es, e \in StrangeItems(f) : entries = [es EXCEPT ![k] = e]
    <2>1. PICK es \in SeqsOf(SoundItems, MaxEntries) : \E k \in DOMAIN es, e \in StrangeItems(f) : entries = [es EXCEPT ![k] = e]
      BY <1>3
    <2>2. es \in Seq(ItemsOf(f))
      BY <1>1
    <2>3. \A e \in StrangeItems(f) : e \in ItemsOf(f)
      BY DEF ItemsOf
    <2>4. QED
      BY <2>1, <2>2, <2>3
  <1>4. QED
    BY <1>2, <1>3 DEF AnswersOf

LEMMA BegunOK ==
  ASSUME NEW f \in DOMAIN Functions, NEW entries \in Seq(ItemsOf(f)), Begin(f, entries)
  PROVE  ParseOK(call.f, call.left, call.data, call.all, call.during, parser)'
  <1>1. PICK left : left = IF Functions[f].shape = "first" /\ entries # <<>> THEN <<entries[1]>> ELSE entries
    OBVIOUS
  <1>2. call' = Parse(f, left, <<>>, entries, {parser}) /\ parser' = parser
    BY <1>1 DEF Begin
  <1>3. call'.f = f /\ call'.left = left /\ call'.data = <<>> /\ call'.all = entries /\ call'.during = {parser}
    BY <1>2 DEF Parse
  <1>4. left \in Seq(ItemsOf(f))
    BY <1>1
  <1>5. Progress(f, left, <<>>, entries)
    <2>1. CASE Functions[f].shape \in {"list", "map"}
      <3>1. left = entries
        BY <1>1, <2>1
      <3>2. 0 \in 0..Len(entries) /\ IsRest(left, entries, 0)
        BY <3>1 DEF IsRest
      <3>3. GatheredList(<<>>, entries, 0)
        BY DEF GatheredList
      <3>4. GatheredMap(<<>>, entries, 0)
        BY DEF GatheredMap, Firsts, ToSet
      <3>5. QED
        BY <2>1, <3>2, <3>3, <3>4 DEF Progress
    <2>2. CASE Functions[f].shape \notin {"list", "map"}
      <3>1. Functions[f].shape \notin Lists => Len(entries) = 1
        BY DEF Begin
      <3>2. Len(left) <= 1
        <4>1. CASE Functions[f].shape = "first" /\ entries # <<>>
          <5>1. PICK e : e = entries[1]
            OBVIOUS
          <5>2. left = <<e>>
            BY <1>1, <4>1, <5>1
          <5>3. QED
            BY <5>2
        <4>2. CASE ~(Functions[f].shape = "first" /\ entries # <<>>)
          <5>1. left = entries /\ (entries = <<>> \/ Len(entries) = 1)
            BY <1>1, <2>2, <3>1, <4>2 DEF Lists
          <5>2. CASE Len(entries) = 1
            BY <5>1, <5>2
          <5>3. CASE entries = <<>>
            BY <5>1, <5>3
          <5>4. QED
            BY <5>1, <5>2, <5>3
        <4>3. QED
          BY <4>1, <4>2
      <3>3. QED
        BY <1>4, <2>2, <3>2 DEF Progress
    <2>3. QED
      BY <2>1, <2>2
  <1>6. ParseOK(f, left, <<>>, entries, {parser}, parser)
    BY <1>4, <1>5 DEF ParseOK
  <1>7. QED
    BY <1>2, <1>3, <1>6

LEMMA KeysOfFirsts ==
  ASSUME NEW all, NEW m \in Nat, NEW l \in 1..m
  PROVE  \E x \in Firsts(all, m) : x.key = all[l].key
  <1> DEFINE same == {j \in 1..m : all[j].key = all[l].key}
  <1>1. same \in SUBSET Nat /\ same # {}
    OBVIOUS
  <1> HIDE DEF same
  <1>2. PICK j \in same : \A i \in same : j <= i
    BY <1>1, LeastNumber
  <1>3. j \in 1..m /\ all[j].key = all[l].key
    BY DEF same
  <1>4. \A i \in 1..j - 1 : all[i].key # all[j].key
    <2>1. \A i \in 1..j - 1 : i \in 1..m /\ ~(j <= i)
      BY <1>3
    <2>2. QED
      BY <1>2, <1>3, <2>1 DEF same
  <1>5. all[j] \in Firsts(all, m)
    BY <1>3, <1>4 DEF Firsts
  <1>6. QED
    BY <1>3, <1>5

LEMMA FirstsOneMore ==
  ASSUME NEW all, NEW m \in Nat
  PROVE  Firsts(all, m + 1) =
           IF \E l \in 1..m : all[l].key = all[m + 1].key THEN Firsts(all, m) ELSE Firsts(all, m) \cup {all[m + 1]}
  <1>1. 1..m + 1 = 1..m \cup {m + 1} /\ (m + 1) - 1 = m
    OBVIOUS
  <1>2. PICK old : old = {j \in 1..m : \A l \in 1..j - 1 : all[l].key # all[j].key}
    OBVIOUS
  <1>3. PICK new : new = {j \in 1..m + 1 : \A l \in 1..j - 1 : all[l].key # all[j].key}
    OBVIOUS
  <1>4. CASE \E l \in 1..m : all[l].key = all[m + 1].key
    <2>1. new = old
      BY <1>1, <1>2, <1>3, <1>4
    <2>2. QED
      BY <1>2, <1>3, <1>4, <2>1 DEF Firsts
  <1>5. CASE \A l \in 1..m : all[l].key # all[m + 1].key
    <2>1. new = old \cup {m + 1}
      BY <1>1, <1>2, <1>3, <1>5
    <2>2. Firsts(all, m + 1) = {all[i] : i \in old \cup {m + 1}} /\ Firsts(all, m) = {all[i] : i \in old}
      BY <1>2, <1>3, <2>1 DEF Firsts
    <2>3. QED
      BY <1>5, <2>2
  <1>6. QED
    BY <1>4, <1>5

(* One more entry, which the list, or the map if it has none of its key,   *)
(* takes.                                                                  *)
LEMMA ListTakes ==
  ASSUME NEW S, NEW all \in Seq(S), NEW data \in Seq(S), NEW m \in Nat, NEW e \in S, e = all[m + 1],
         GatheredList(data, all, m)
  PROVE  GatheredList(Append(data, e), all, m + 1)
  BY DEF GatheredList

MapWith(data, e) == IF \E k \in DOMAIN data : data[k].key = e.key THEN data ELSE Append(data, e)

LEMMA MapTakes ==
  ASSUME NEW S, NEW all \in Seq(S), NEW data \in Seq(S), NEW m \in Nat, NEW e \in S, e = all[m + 1],
         GatheredMap(data, all, m)
  PROVE  GatheredMap(MapWith(data, e), all, m + 1)
  <1> DEFINE new == MapWith(data, e)
  <1>1. ToSet(data) = {data[i] : i \in 1..Len(data)} /\ ToSet(data) = Firsts(all, m) /\ DOMAIN data = 1..Len(data)
    BY DEF ToSet, GatheredMap
  <1>2. (\E k \in DOMAIN data : data[k].key = e.key) <=> \E l \in 1..m : all[l].key = e.key
    <2>1. ASSUME NEW k \in DOMAIN data, data[k].key = e.key PROVE \E l \in 1..m : all[l].key = e.key
      <3>1. data[k] \in Firsts(all, m)
        BY <1>1
      <3>2. PICK l \in 1..m : data[k] = all[l]
        BY <3>1 DEF Firsts
      <3>3. QED
        BY <2>1, <3>2
    <2>2. ASSUME NEW l \in 1..m, all[l].key = e.key PROVE \E k \in DOMAIN data : data[k].key = e.key
      <3>1. PICK x \in Firsts(all, m) : x.key = e.key
        BY <2>2, KeysOfFirsts
      <3>2. QED
        BY <1>1, <3>1
    <2>3. QED
      BY <2>1, <2>2
  <1>3. CASE \E k \in DOMAIN data : data[k].key = e.key
    <2>1. new = data /\ Firsts(all, m + 1) = Firsts(all, m)
      BY <1>2, <1>3, FirstsOneMore DEF MapWith
    <2> HIDE DEF new
    <2>2. GatheredMap(new, all, m + 1)
      BY <2>1 DEF GatheredMap
    <2>3. QED
      BY <2>2 DEF new
  <1>4. CASE ~ \E k \in DOMAIN data : data[k].key = e.key
    <2>1. new = Append(data, e) /\ Firsts(all, m + 1) = Firsts(all, m) \cup {e}
      BY <1>2, <1>4, FirstsOneMore DEF MapWith
    <2> HIDE DEF new
    <2>2. ToSet(new) = ToSet(data) \cup {e}
      BY <2>1 DEF ToSet
    <2>3. \A i, j \in 1..Len(new) : new[i].key = new[j].key => i = j
      <3>1. Len(new) = Len(data) + 1 /\ new[Len(data) + 1] = e /\ \A i \in 1..Len(data) : new[i] = data[i] /\ data[i].key # e.key
        BY <1>1, <1>4, <2>1
      <3>2. \A i, j \in 1..Len(data) : data[i].key = data[j].key => i = j
        BY DEF GatheredMap
      <3>3. QED
        BY <3>1, <3>2
    <2>4. GatheredMap(new, all, m + 1)
      BY <1>1, <2>1, <2>2, <2>3 DEF GatheredMap
    <2>5. QED
      BY <2>4 DEF new
  <1>5. QED
    BY <1>3, <1>4

LEMMA EntryParsed ==
  ASSUME NEW f, NEW left, NEW data, NEW all, NEW during, ParseOK(f, left, data, all, during, parser),
         f = call.f, data = call.data, left # <<>>, ~Refused(f, Head(left)), f \in DOMAIN Functions
  PROVE  ParseOK(f, Tail(left), Gathered(f, Head(left)), all, during, parser)
  <1>1. all \in Seq(ItemsOf(f)) /\ left \in Seq(ItemsOf(f)) /\ data \in Seq(ItemsOf(f)) /\ parser \in during
        /\ Progress(f, left, data, all) /\ \A i \in 1..Len(data) : Taken(f, data[i], during)
    BY DEF ParseOK
  <1>2. PICK e \in ItemsOf(f) : e = Head(left) /\ e = left[1]
    BY <1>1
  <1>3. PICK rest \in Seq(ItemsOf(f)) :
          rest = Tail(left) /\ Len(rest) = Len(left) - 1 /\ \A i \in 1..Len(rest) : rest[i] = left[i + 1]
    BY <1>1, HeadTailProperties, Zenon
  <1>4. PICK new : new = Gathered(f, e)
    OBVIOUS
  <1>5. new = data \/ new = Append(data, e)
    BY <1>4 DEF Gathered
  <1>6. new \in Seq(ItemsOf(f)) /\ \A i \in 1..Len(new) : Taken(f, new[i], during)
    <2>1. Taken(f, e, during)
      BY <1>1, <1>2 DEF Refused, OtherAsset, Taken
    <2>2. CASE new = data
      BY <1>1, <2>2
    <2>3. CASE new = Append(data, e)
      <3>1. new \in Seq(ItemsOf(f)) /\ Len(new) = Len(data) + 1
        BY <1>1, <1>2, <2>3
      <3>2. new[Len(data) + 1] = e /\ \A i \in 1..Len(data) : new[i] = data[i]
        BY <1>1, <1>2, <2>3
      <3>3. QED
        BY <1>1, <2>1, <3>1, <3>2
    <2>4. QED
      BY <1>5, <2>2, <2>3
  <1>7. Progress(f, rest, new, all)
    <2>1. CASE Functions[f].shape \in {"list", "map"}
      <3>1. PICK m \in 0..Len(all) :
              /\ IsRest(left, all, m)
              /\ Functions[f].shape = "list" => GatheredList(data, all, m)
              /\ Functions[f].shape = "map" => GatheredMap(data, all, m)
        BY <1>1, <2>1 DEF Progress
      <3>2. m \in Nat /\ m + 1 \in 0..Len(all) /\ e = all[m + 1]
        BY <1>1, <1>2, <3>1 DEF IsRest
      <3>3. IsRest(rest, all, m + 1)
        BY <1>1, <1>3, <3>1 DEF IsRest
      <3>4. Functions[f].shape = "list" => GatheredList(new, all, m + 1)
        <4>1. Functions[f].shape = "list" => new = Append(data, e)
          BY <1>4 DEF Gathered
        <4>2. QED
          BY <1>1, <3>1, <3>2, <4>1, ListTakes, Zenon
      <3>5. Functions[f].shape = "map" => GatheredMap(new, all, m + 1)
        <4>1. Functions[f].shape = "map" => new = MapWith(data, e)
          BY <1>4 DEF Gathered, Known, MapWith
        <4>2. QED
          BY <1>1, <3>1, <3>2, <4>1, MapTakes, Zenon
      <3>6. QED
        BY <2>1, <3>2, <3>3, <3>4, <3>5 DEF Progress
    <2>2. CASE Functions[f].shape \notin {"list", "map"}
      <3>1. Len(left) + Len(data) <= 1
        BY <1>1, <2>2 DEF Progress
      <3>2. Len(new) <= Len(data) + 1
        BY <1>1, <1>2, <1>5
      <3>3. Len(rest) + Len(new) <= 1
        BY <1>1, <1>3, <1>6, <3>1, <3>2
      <3>4. QED
        BY <2>2, <3>3 DEF Progress
    <2>3. QED
      BY <2>1, <2>2
  <1>8. QED
    BY <1>1, <1>2, <1>3, <1>4, <1>6, <1>7 DEF ParseOK

LEMMA NoFunctions ==
  "" \notin DOMAIN Functions /\ "aborted" \notin DOMAIN Functions /\ \A f \in DOMAIN Scalars : f \notin DOMAIN Functions
  BY DEF Functions, Scalars

\* What a list that is returned must be, and the entries in it.
Whole(f, data, all) ==
  /\ Functions[f].shape = "list" => data = all
  /\ Functions[f].shape = "map" =>
       /\ ToSet(data) = {FirstOf(all, k) : k \in {e.key : e \in ToSet(all)}}
       /\ Len(data) = Cardinality(ToSet(data))
  /\ Functions[f].shape \notin {"list", "map"} => Len(data) <= 1
OfOneAsset(f, data, during) ==
  \A e \in ToSet(data) :
    HasAmount(f) /\ e.at # "null" => e.asset \in during

LEMMA ResultProperties ==
  ASSUME NEW how, NEW f, NEW data, NEW all, NEW during, result' = Result(how, f, data, all, during),
         how = "valid" /\ f \in DOMAIN Functions => Whole(f, data, all) /\ OfOneAsset(f, data, during)
  PROVE  ListsAreWhole' /\ AmountsAreOfOneAsset'
  <1>1. result'.how = how /\ result'.f = f /\ result'.data = data /\ result'.all = all /\ result'.during = during
    BY DEF Result
  <1>2. CASE ~(how = "valid" /\ f \in DOMAIN Functions)
    BY <1>1, <1>2 DEF ListsAreWhole, AmountsAreOfOneAsset
  <1>3. CASE how = "valid" /\ f \in DOMAIN Functions
    <2>1. ListsAreWhole'
      BY <1>1, <1>3 DEF ListsAreWhole, Whole
    <2>2. AmountsAreOfOneAsset'
      BY <1>1, <1>3 DEF AmountsAreOfOneAsset, OfOneAsset
    <2>3. QED
      BY <2>1, <2>2
  <1>4. QED
    BY <1>2, <1>3

LEMMA LeastKeyed ==
  ASSUME NEW S, NEW all \in Seq(S), NEW i \in 1..Len(all), \A l \in 1..i - 1 : all[l].key # all[i].key
  PROVE  FirstOf(all, all[i].key) = all[i]
  <1>1. PICK ks : ks = {k \in DOMAIN all : all[k].key = all[i].key}
    OBVIOUS
  <1>2. i \in ks /\ \A k \in ks : k \in 1..Len(all) /\ i <= k
    BY <1>1
  <1>3. \A j \in ks : (\A k \in ks : j <= k) => j = i
    BY <1>2
  <1>4. Min(ks) = i
    BY <1>2, <1>3 DEF Min
  <1>5. QED
    BY <1>1, <1>4 DEF FirstOf

LEMMA FirstsAreFirst ==
  ASSUME NEW S, NEW all \in Seq(S)
  PROVE  Firsts(all, Len(all)) = {FirstOf(all, k) : k \in {e.key : e \in ToSet(all)}}
  <1>1. ToSet(all) = {all[i] : i \in 1..Len(all)}
    BY DEF ToSet
  <1>2. ASSUME NEW x \in Firsts(all, Len(all)) PROVE x = FirstOf(all, x.key) /\ x \in ToSet(all)
    <2>1. PICK i \in 1..Len(all) : x = all[i] /\ \A l \in 1..i - 1 : all[l].key # all[i].key
      BY DEF Firsts
    <2>2. QED
      BY <1>1, <2>1, LeastKeyed
  <1>3. ASSUME NEW e \in ToSet(all) PROVE FirstOf(all, e.key) \in Firsts(all, Len(all))
    <2>1. PICK l \in 1..Len(all) : e = all[l]
      BY <1>1
    <2>2. Len(all) \in Nat
      OBVIOUS
    <2>3. PICK x \in Firsts(all, Len(all)) : x.key = all[l].key
      BY <2>2, KeysOfFirsts
    <2>4. QED
      BY <1>2, <2>1, <2>3
  <1>4. QED
    BY <1>2, <1>3

LEMMA OneEach ==
  ASSUME NEW S, NEW data \in Seq(S), \A i, j \in 1..Len(data) : data[i].key = data[j].key => i = j
  PROVE  Len(data) = Cardinality(ToSet(data))
  <1>1. PICK n \in Nat : n = Len(data) /\ data \in [1..n -> ToSet(data)]
    BY DEF ToSet
  <1>2. data \in Injection(1..n, ToSet(data))
    BY <1>1, Fun_IsInj
  <1>3. data \in Surjection(1..n, ToSet(data))
    <2>1. \A x \in ToSet(data) : \E i \in 1..n : data[i] = x
      BY <1>1 DEF ToSet
    <2>2. QED
      BY <1>1, <2>1, Fun_IsSurj
  <1>4. IsFiniteSet(1..n) /\ Cardinality(1..n) = n
    <2>1. 1 \in Int /\ n \in Int
      OBVIOUS
    <2>2. IsFiniteSet(1..n) /\ Cardinality(1..n) = IF 1 > n THEN 0 ELSE n - 1 + 1
      BY <2>1, FS_Interval, Zenon
    <2>3. PICK S1 : S1 = 1..n /\ Cardinality(S1) = IF 1 > n THEN 0 ELSE n - 1 + 1
      BY <2>2, Zenon
    <2>4. Cardinality(S1) = n
      BY <2>3
    <2>5. QED
      BY <2>2, <2>3, <2>4
  <1>5. QED
    BY <1>1, <1>2, <1>3, <1>4, FS_Surjection

LEMMA ParsedIsWhole ==
  ASSUME NEW f, NEW data, NEW all, NEW during, NEW asset, ParseOK(f, <<>>, data, all, during, asset)
  PROVE  Whole(f, data, all) /\ OfOneAsset(f, data, during)
  <1>1. all \in Seq(ItemsOf(f)) /\ data \in Seq(ItemsOf(f)) /\ Progress(f, <<>>, data, all)
        /\ \A i \in 1..Len(data) : Taken(f, data[i], during)
    BY DEF ParseOK
  <1>2. OfOneAsset(f, data, during)
    <2>1. \A e \in ToSet(data) : Taken(f, e, during)
      BY <1>1 DEF ToSet
    <2>2. QED
      BY <2>1 DEF OfOneAsset, Taken
  <1>3. ASSUME NEW m \in 0..Len(all), IsRest(<<>>, all, m) PROVE m = Len(all)
    BY <1>1, <1>3 DEF IsRest
  <1>4. CASE Functions[f].shape = "list"
    <2>1. GatheredList(data, all, Len(all))
      BY <1>1, <1>3, <1>4 DEF Progress
    <2>2. data = all
      BY <1>1, <2>1 DEF GatheredList
    <2>3. QED
      BY <1>2, <1>4, <2>2 DEF Whole
  <1>5. CASE Functions[f].shape = "map"
    <2>1. GatheredMap(data, all, Len(all))
      BY <1>1, <1>3, <1>5 DEF Progress
    <2>2. Len(data) = Cardinality(ToSet(data))
      BY <1>1, <2>1, OneEach DEF GatheredMap
    <2>3. ToSet(data) = {FirstOf(all, k) : k \in {e.key : e \in ToSet(all)}}
      BY <1>1, <2>1, FirstsAreFirst DEF GatheredMap
    <2>4. QED
      BY <1>2, <1>5, <2>2, <2>3 DEF Whole
  <1>6. CASE Functions[f].shape \notin {"list", "map"}
    <2>1. Len(<<>>) + Len(data) <= 1
      BY <1>1, <1>6 DEF Progress
    <2>2. Len(data) <= 1
      BY <1>1, <2>1
    <2>3. QED
      BY <1>2, <1>6, <2>2 DEF Whole
  <1>7. QED
    BY <1>4, <1>5, <1>6

LEMMA Unchanged ==
  ASSUME ParseInv, UNCHANGED <<parser, call, result>>
  PROVE  ParseInv'
  BY DEF ParseInv, Running, ListsAreWhole, AmountsAreOfOneAsset, HasAmount

LEMMA IdleParsesNothing == Idle.f = ""
  BY DEF Idle, Parse

\* The parse ends, with a result that is as it must be.
LEMMA ParseEnds ==
  ASSUME NEW how, NEW f, NEW data, NEW all, NEW during,
         call' = Idle \/ (UNCHANGED call /\ ~Running), result' = Result(how, f, data, all, during),
         how = "valid" /\ f \in DOMAIN Functions => Whole(f, data, all) /\ OfOneAsset(f, data, during)
  PROVE  ParseInv'
  <1>1. ~Running'
    BY NoFunctions, IdleParsesNothing DEF Running
  <1>2. ListsAreWhole' /\ AmountsAreOfOneAsset'
    BY ResultProperties, Zenon
  <1>3. QED
    BY <1>1, <1>2 DEF ParseInv

LEMMA ParseRunsOn ==
  ASSUME ParseInv, UNCHANGED result,
         call'.f \in DOMAIN Functions => ParseOK(call.f, call.left, call.data, call.all, call.during, parser)'
  PROVE  ParseInv'
  BY DEF ParseInv, Running, ListsAreWhole, AmountsAreOfOneAsset, HasAmount

LEMMA QuiescentIsNotRunning == Quiescent => ~Running
  BY NoFunctions, IdleParsesNothing DEF Quiescent, Running

LEMMA OneItem ==
  ASSUME NEW e
  PROVE  ToSet(<<e>>) = {e} /\ Len(<<e>>) = 1
  <1>1. PICK s : s = <<e>>
    OBVIOUS
  <1>2. DOMAIN s = {1} /\ s[1] = e
    <2>1. DOMAIN <<e>> = {1}
      OBVIOUS
    <2>2. <<e>>[1] = e
      OBVIOUS
    <2>3. QED
      BY <1>1, <2>1, <2>2
  <1>3. ToSet(s) = {e}
    BY <1>2 DEF ToSet
  <1>4. Len(<<e>>) = 1
    OBVIOUS
  <1>5. QED
    BY <1>1, <1>3, <1>4

LEMMA NullIsWhole ==
  ASSUME NEW f, Functions[f].shape \notin {"list", "map"}
  PROVE  Whole(f, <<Null>>, <<>>) /\ OfOneAsset(f, <<Null>>, {})
  <1>1. PICK e : e = Null
    OBVIOUS
  <1>2. e.at = "null" /\ e.value = "null"
    BY <1>1 DEF Null, Item
  <1>3. ToSet(<<e>>) = {e} /\ Len(<<e>>) = 1
    BY OneItem
  <1>4. Whole(f, <<e>>, <<>>)
    <2>1. PICK data : data = <<e>> /\ Len(data) = 1
      BY <1>3, Zenon
    <2>2. Whole(f, data, <<>>)
      BY <2>1 DEF Whole
    <2>3. QED
      BY <2>1, <2>2
  <1>5. OfOneAsset(f, <<e>>, {})
    BY <1>2, <1>3 DEF OfOneAsset
  <1>6. QED
    BY <1>1, <1>4, <1>5

LEMMA ParseStep ==
  ASSUME ParseInv, ParseNext
  PROVE  ParseInv'
  <1>1. ASSUME NEW f \in DOMAIN Functions, NEW entries \in AnswersOf(f), Begin(f, entries) PROVE ParseInv'
    <2>1. ParseOK(call.f, call.left, call.data, call.all, call.during, parser)'
      BY <1>1, AnswersAreSequences, BegunOK
    <2>2. QED
      BY <1>1, <2>1, ParseRunsOn DEF Begin
  <1>2. ASSUME NEW f \in DOMAIN Functions, Unparsable(f) PROVE ParseInv'
    BY <1>2, QuiescentIsNotRunning, ParseEnds DEF Unparsable
  <1>3. ASSUME NEW f \in DOMAIN Functions, NullResult(f) PROVE ParseInv'
    <2>1. ~Running /\ UNCHANGED call
      BY <1>3, QuiescentIsNotRunning DEF NullResult
    <2>2. CASE Functions[f].shape = "object or null"
      <3>1. result' = Result("valid", f, <<Null>>, <<>>, {})
        BY <1>3, <2>2 DEF NullResult
      <3>2. Functions[f].shape \notin {"list", "map"}
        BY <2>2
      <3>3. QED
        BY <2>1, <3>1, <3>2, NullIsWhole, ParseEnds, Zenon
    <2>3. CASE Functions[f].shape # "object or null"
      <3>1. result' = Result("invalid", f, <<>>, <<>>, {})
        BY <1>3, <2>3 DEF NullResult
      <3>2. QED
        BY <2>1, <3>1, ParseEnds
    <2>4. QED
      BY <2>2, <2>3
  <1>4. ASSUME NEW f \in DOMAIN Scalars, NEW value \in ScalarValues, ParseScalar(f, value) PROVE ParseInv'
    <2>1. ~Running /\ UNCHANGED call /\ f \notin DOMAIN Functions
      BY <1>4, QuiescentIsNotRunning, NoFunctions DEF ParseScalar
    <2>2. PICK how, data : result' = Result(how, f, data, <<>>, {})
      BY <1>4 DEF ParseScalar
    <2>3. QED
      BY <2>1, <2>2, ParseEnds, Zenon
  <1>5. ASSUME ParseEntry PROVE ParseInv'
    <2>1. call.f \in DOMAIN Functions /\ call.left # <<>> /\ ~Refused(call.f, Head(call.left))
      BY <1>5 DEF ParseEntry, Running
    <2>2. PICK left, data : left = Tail(call.left) /\ data = Gathered(call.f, Head(call.left))
      OBVIOUS
    <2>3. call' = Parse(call.f, left, data, call.all, call.during) /\ UNCHANGED <<parser, result>>
      BY <1>5, <2>2 DEF ParseEntry
    <2>4. call'.f = call.f /\ call'.left = left /\ call'.data = data /\ call'.all = call.all /\ call'.during = call.during
      BY <2>3 DEF Parse
    <2>5. ParseOK(call.f, call.left, call.data, call.all, call.during, parser)
      BY <2>1 DEF ParseInv, Running
    <2>6. ParseOK(call.f, left, data, call.all, call.during, parser)
      BY <2>1, <2>2, <2>5, EntryParsed
    <2>7. QED
      BY <2>3, <2>4, <2>6, ParseRunsOn
  <1>6. ASSUME RefuseEntry PROVE ParseInv'
    <2>1. call' = Idle /\ result' = Result("invalid", call.f, <<>>, call.all, call.during)
      BY <1>6 DEF RefuseEntry, Ended, Invalid
    <2>2. QED
      BY <2>1, ParseEnds, Zenon
  <1>7. ASSUME Abort PROVE ParseInv'
    <2>1. call'.f = "aborted" /\ UNCHANGED result
      BY <1>7 DEF Abort, Parse
    <2>2. QED
      BY <2>1, NoFunctions, ParseRunsOn
  <1>8. ASSUME Return PROVE ParseInv'
    <2>1. ParseOK(call.f, <<>>, call.data, call.all, call.during, parser)
      BY <1>8 DEF Return, ParseInv
    <2>2. result' = Result("valid", call.f, call.data, call.all, call.during) /\ call' = Idle
      BY <1>8 DEF Return, Ended, Valid
    <2>3. Whole(call.f, call.data, call.all) /\ OfOneAsset(call.f, call.data, call.during)
      BY <2>1, ParsedIsWhole, Zenon
    <2>4. QED
      BY <2>2, <2>3, ParseEnds, Zenon
  <1>9. ASSUME TakeResult PROVE ParseInv'
    <2>1. call' = Idle /\ result' = Result("none", "", <<>>, <<>>, {})
      BY <1>9 DEF TakeResult, NoResult
    <2>2. QED
      BY <2>1, ParseEnds, Zenon
  <1>10. ASSUME NEW c \in OwnChoices, UpdateParser(c) PROVE ParseInv'
    <2>1. CASE Running
      <3>1. PICK during : during = call.during \cup {c}
        OBVIOUS
      <3>2. call' = Parse(call.f, call.left, call.data, call.all, during) /\ parser' = c /\ UNCHANGED result
        BY <1>10, <2>1, <3>1 DEF UpdateParser
      <3>3. call'.f = call.f /\ call'.left = call.left /\ call'.data = call.data /\ call'.all = call.all /\ call'.during = during
        BY <3>2 DEF Parse
      <3>4. ParseOK(call.f, call.left, call.data, call.all, during, c)
        BY <2>1, <3>1 DEF ParseInv, ParseOK, Taken
      <3>5. QED
        BY <3>2, <3>3, <3>4, ParseRunsOn
    <2>2. CASE ~Running
      BY <1>10, <2>2, ParseRunsOn DEF UpdateParser, Running
    <2>3. QED
      BY <2>1, <2>2
  <1>11. QED
    BY <1>1, <1>2, <1>3, <1>4, <1>5, <1>6, <1>7, <1>8, <1>9, <1>10 DEF ParseNext

LEMMA ParseInvariant == AnswersSpec => []ParseInv
  <1>1. AnswersInit => ParseInv
    <2> SUFFICES ASSUME AnswersInit PROVE ParseInv
      OBVIOUS
    <2>1. ~Running
      BY NoFunctions, IdleParsesNothing DEF AnswersInit, ResponseInit, Running
    <2>2. result.how = "none"
      BY DEF AnswersInit, ResponseInit, NoResult, Result
    <2>3. QED
      BY <2>1, <2>2 DEF ParseInv, ListsAreWhole, AmountsAreOfOneAsset
  <1>2. ParseInv /\ [AnswersNext]_<<vars, responseVars>> => ParseInv'
    <2> SUFFICES ASSUME ParseInv, [AnswersNext]_<<vars, responseVars>> PROVE ParseInv'
      OBVIOUS
    <2>1. CASE ParseNext
      BY <2>1, ParseStep
    <2>2. CASE TextNext
      <3>1. UNCHANGED <<parser, call, result>>
        BY <2>2 DEF TextNext, GetFeeFromTransaction, MakeTransaction, EchoId, EchoAmount, EchoVotes, EchoVersion,
          Echo, callVars
      <3>2. QED
        BY <3>1, Unchanged
    <2>3. CASE UNCHANGED responseVars
      BY <2>3, Unchanged DEF responseVars
    <2>4. QED
      BY <2>1, <2>2, <2>3 DEF AnswersNext
  <1>3. QED
    BY <1>1, <1>2, PTL DEF AnswersSpec

(* A list that is returned has every entry of the answer, in its order, or *)
(* of a map the first of each key, however long the answer is and wherever *)
(* an entry that cannot be read stands in it.                              *)
THEOREM ListsReturnedAreWhole == AnswersSpec => []ListsAreWhole
  <1>1. ParseInv => ListsAreWhole
    BY DEF ParseInv
  <1>2. QED
    BY <1>1, ParseInvariant, PTL

(* No amount is taken of an asset that was not the parser's while it       *)
(* parsed, whatever other threads assign to it meanwhile.                  *)
THEOREM AmountsTakenAreOfOneAsset == AnswersSpec => []AmountsAreOfOneAsset
  <1>1. ParseInv => AmountsAreOfOneAsset
    BY DEF ParseInv
  <1>2. QED
    BY <1>1, ParseInvariant, PTL
-----------------------------------------------------------------------------
(* The fees of a transaction read back.                                    *)

\* The sums of the first fees.
IsSum(h, fees, n) ==
  /\ h[0] = 0 /\ \A k \in 1..n : h[k] = h[k - 1] + fees[k]
  /\ SumOfFees(fees) = h[n]

LEMMA SumStepByStep ==
  ASSUME NEW n \in Nat, NEW fees \in [1..n -> Int]
  PROVE  \E h \in [0..n -> Int] : IsSum(h, fees, n)
  <1> DEFINE Is(g) == g = [T \in SUBSET (1..n) |-> IF T = {} THEN 0 ELSE g[T \ {Max(T)}] + fees[Max(T)]]
             fold == CHOOSE g : Is(g)
  <1>1. SumOfFees(fees) = fold[1..n]
    BY DEF SumOfFees, FoldLeft, MapThenFoldSet
  <1>2. PICK step : step = [x \in (1..n) \X Int |-> x[2] + fees[x[1]]]
    OBVIOUS
  <1>3. \A k \in 1..n, t \in Int : step[<<k, t>>] = t + fees[k] /\ step[<<k, t>>] \in Int
    BY <1>2
  <1>4. \E g : Is(g)
    <2> HIDE DEF Is
    <2>1. PICK g \in [SUBSET (1..n) -> Int] : IsFoldOfPositions(g, n, 0, step)
      <3>1. 0 \in Int /\ \A k \in 1..n, t \in Int : step[<<k, t>>] \in Int
        BY <1>3
      <3>2. QED
        BY <3>1, FoldOverPositions, Zenon
    <2> USE DEF Is
    <2>2. \A T \in SUBSET (1..n) : T # {} => Max(T) \in T /\ Max(T) \in 1..n /\ g[T \ {Max(T)}] \in Int
      BY <2>1, MaxIsLargest
    <2>3. \A T \in SUBSET (1..n) : g[T] = IF T = {} THEN 0 ELSE g[T \ {Max(T)}] + fees[Max(T)]
      BY <1>3, <2>1, <2>2 DEF IsFoldOfPositions
    <2>4. g = [T \in SUBSET (1..n) |-> IF T = {} THEN 0 ELSE g[T \ {Max(T)}] + fees[Max(T)]]
      BY <2>1, <2>3
    <2>5. QED
      BY <2>4
  <1>5. Is(fold)
    <2> HIDE DEF Is
    <2>1. QED
      BY <1>4
  <1>6. fold[{}] = 0 /\ \A k \in 1..n : fold[1..k] = fold[1..k - 1] + fees[k]
    <2> HIDE DEF fold
    <2>1. \A T \in SUBSET (1..n) : fold[T] = IF T = {} THEN 0 ELSE fold[T \ {Max(T)}] + fees[Max(T)]
      BY <1>5
    <2>2. ASSUME NEW k \in 1..n PROVE fold[1..k] = fold[1..k - 1] + fees[k]
      <3>1. 1..k # {} /\ Max(1..k) = k /\ (1..k) \ {k} = 1..k - 1
        <4>1. k \in Nat /\ k # 0
          OBVIOUS
        <4>2. QED
          BY <4>1, MaxOfFirst
      <3>2. 1..k \in SUBSET (1..n)
        OBVIOUS
      <3>3. QED
        BY <2>1, <3>1, <3>2
    <2>3. QED
      BY <2>1, <2>2
  <1> HIDE DEF fold, Is
  <1>7. \A k \in 0..n : fold[1..k] \in Int
    <2>1. \A k \in 1..n : fold[1..k - 1] \in Int => fold[1..k] = step[<<k, fold[1..k - 1]>>]
      BY <1>3, <1>6
    <2>2. \A k \in 1..n, t \in Int : step[<<k, t>>] \in Int
      BY <1>3
    <2>3. fold[{}] \in Int
      BY <1>6
    <2>4. QED
      BY <2>1, <2>2, <2>3, FoldStepByStep, Zenon
  <1>8. PICK h : h = [k \in 0..n |-> fold[1..k]]
    OBVIOUS
  <1>9. h \in [0..n -> Int] /\ h[0] = 0 /\ h[n] = fold[1..n]
    <2>1. 1..0 = {}
      OBVIOUS
    <2>2. QED
      BY <1>6, <1>7, <1>8, <2>1
  <1>10. \A k \in 1..n : h[k] = h[k - 1] + fees[k]
    BY <1>6, <1>8
  <1>11. QED
    BY <1>1, <1>9, <1>10 DEF IsSum

LEMMA SumOfThree ==
  ASSUME NEW n \in 0..3, NEW fees \in [1..n -> Int]
  PROVE  SumOfFees(fees) = FeeAt(fees, 1) + FeeAt(fees, 2) + FeeAt(fees, 3)
  <1>1. PICK h \in [0..n -> Int] : IsSum(h, fees, n)
    BY SumStepByStep
  <1>2. h[0] = 0 /\ (\A k \in 1..n : h[k] = h[k - 1] + fees[k]) /\ SumOfFees(fees) = h[n]
    BY <1>1 DEF IsSum
  <1>3. CASE n = 0
    BY <1>2, <1>3 DEF FeeAt
  <1>4. CASE n = 1
    <2>1. SumOfFees(fees) = 0 + fees[1] /\ fees[1] \in Int
      BY <1>2, <1>4
    <2>2. QED
      BY <1>4, <2>1 DEF FeeAt
  <1>5. CASE n = 2
    <2>1. h[1] = 0 + fees[1] /\ h[2] = h[1] + fees[2] /\ SumOfFees(fees) = h[2] /\ fees[1] \in Int /\ fees[2] \in Int
      BY <1>2, <1>5
    <2>2. QED
      BY <1>5, <2>1 DEF FeeAt
  <1>6. CASE n = 3
    <2>1. /\ h[1] = 0 + fees[1] /\ h[2] = h[1] + fees[2] /\ h[3] = h[2] + fees[3] /\ SumOfFees(fees) = h[3]
          /\ fees[1] \in Int /\ fees[2] \in Int /\ fees[3] \in Int
      BY <1>2, <1>6
    <2>2. QED
      BY <1>6, <2>1 DEF FeeAt
  <1>7. QED
    BY <1>3, <1>4, <1>5, <1>6

TextInv ==
  /\ \E asset : \E n \in {0, 1, 2, 3} : \E fees \in [1..n -> Int] : trx = [asset |-> asset, fees |-> fees]
  /\ FeeReadBack

LEMMA FeeIsReadBack ==
  ASSUME TextInv, GetFeeFromTransaction
  PROVE  FeeReadBack'
  <1>1. PICK asset : \E n \in {0, 1, 2, 3} : \E fees \in [1..n -> Int] : trx = [asset |-> asset, fees |-> fees]
    BY DEF TextInv
  <1>2. PICK n \in {0, 1, 2, 3} : \E fees \in [1..n -> Int] : trx = [asset |-> asset, fees |-> fees]
    BY <1>1
  <1>3. PICK fees \in [1..n -> Int] : trx = [asset |-> asset, fees |-> fees]
    BY <1>2
  <1>4. trx.asset = asset /\ trx.fees = fees
    BY <1>3
  <1>5. SumOfFees(fees) = FeeAt(fees, 1) + FeeAt(fees, 2) + FeeAt(fees, 3)
    <2>1. n \in 0..3
      OBVIOUS
    <2>2. QED
      BY <2>1, SumOfThree
  <1>6. CASE fees # <<>> /\ asset # parser
    <2>1. fee' = [how |-> "throw", value |-> 0, asset |-> parser, of |-> trx]
      BY <1>4, <1>6 DEF GetFeeFromTransaction
    <2>2. fee'.how = "throw" /\ fee'.asset = parser /\ fee'.of = trx
      BY <2>1
    <2>3. QED
      BY <1>4, <1>6, <2>2 DEF FeeReadBack
  <1>7. CASE ~(fees # <<>> /\ asset # parser)
    <2>1. fee' = [how |-> "value", value |-> SumOfFees(fees), asset |-> parser, of |-> trx]
      BY <1>4, <1>7 DEF GetFeeFromTransaction
    <2>2. fee'.how = "value" /\ fee'.asset = parser /\ fee'.of = trx /\ fee'.value = SumOfFees(fees)
      BY <2>1
    <2>3. QED
      BY <1>4, <1>5, <1>7, <2>2 DEF FeeReadBack
  <1>8. QED
    BY <1>6, <1>7

LEMMA TextUnchanged ==
  ASSUME TextInv, UNCHANGED <<trx, fee>>
  PROVE  TextInv'
  BY DEF TextInv, FeeReadBack

NothingRead(t, f) ==
  /\ \E asset : \E n \in {0, 1, 2, 3} : \E fees \in [1..n -> Int] : t = [asset |-> asset, fees |-> fees]
  /\ f.how = "none"

LEMMA NothingIsRead == NothingRead(NoFees, NoFee)
  <1>1. NoFees = [asset |-> DefaultChoice, fees |-> <<>>] /\ <<>> \in [1..0 -> Int]
    BY DEF NoFees
  <1>2. NoFee.how = "none"
    BY DEF NoFee
  <1>3. QED
    BY <1>1, <1>2 DEF NothingRead

LEMMA TextInvariant == AnswersSpec => []TextInv
  <1>1. AnswersInit => TextInv
    BY NothingIsRead DEF AnswersInit, ResponseInit, TextInv, NothingRead, FeeReadBack
  <1>2. TextInv /\ [AnswersNext]_<<vars, responseVars>> => TextInv'
    <2> SUFFICES ASSUME TextInv, [AnswersNext]_<<vars, responseVars>> PROVE TextInv'
      OBVIOUS
    <2>1. CASE TakeResult
      <3>1. trx' = NoFees /\ fee' = NoFee
        BY <2>1 DEF TakeResult
      <3>2. NothingRead(NoFees, NoFee)
        BY NothingIsRead
      <3>3. QED
        BY <3>1, <3>2 DEF TextInv, NothingRead, FeeReadBack
    <2>2. ASSUME NEW fees \in SeqsOf(Prices, MaxFees), MakeTransaction(fees) PROVE TextInv'
      <3>1. PICK n \in 0..3 : fees \in [1..n -> Prices]
        BY DEF SeqsOf, MaxFees
      <3>2. fees \in [1..n -> Int]
        BY <3>1, ResponsesAssumption
      <3>3. trx' = [asset |-> settings.choice, fees |-> fees] /\ UNCHANGED <<fee>>
        BY <2>2 DEF MakeTransaction
      <3>4. n \in {0, 1, 2, 3}
        OBVIOUS
      <3>5. QED
        BY <3>2, <3>3, <3>4 DEF TextInv, FeeReadBack
    <2>3. CASE GetFeeFromTransaction
      BY <2>3, FeeIsReadBack DEF GetFeeFromTransaction, TextInv
    <2>5. CASE UNCHANGED <<trx, fee>>
      BY <2>5, TextUnchanged
    <2>6. ASSUME ParseNext, ~TakeResult PROVE UNCHANGED <<trx, fee>>
      BY <2>6 DEF ParseNext, Begin, Unparsable, NullResult, ParseScalar, ParseEntry, RefuseEntry, Abort, Return,
        UpdateParser, textVars
    <2>7. ASSUME TextNext, ~GetFeeFromTransaction,
                 ~ \E fees \in SeqsOf(Prices, MaxFees) : MakeTransaction(fees)
          PROVE  UNCHANGED <<trx, fee>>
      BY <2>7 DEF TextNext, EchoId, EchoAmount, EchoVotes, EchoVersion, Echo
    <2>8. QED
      BY <2>1, <2>2, <2>3, <2>5, <2>6, <2>7 DEF AnswersNext, responseVars
  <1>3. QED
    BY <1>1, <1>2, PTL DEF AnswersSpec

(* What getFeeFromTransaction reads is what the builder charged for all of *)
(* up to three operations, the most that one of its functions makes, and   *)
(* whatever the fees; it throws if and only if the parser's asset is       *)
(* another than the builder's was (response_parser.cpp).                   *)
THEOREM FeesReadBack == AnswersSpec => []FeeReadBack
  <1>1. TextInv => FeeReadBack
    BY DEF TextInv
  <1>2. QED
    BY <1>1, TextInvariant, PTL
-----------------------------------------------------------------------------
(* Powers of ten.                                                          *)

LEMMA TenToIs ==
  /\ TenTo[0] = 1
  /\ \A k \in Nat : TenTo[k] \in Nat /\ TenTo[k + 1] = 10 * TenTo[k]
  <1> DEFINE Is(f) == f = [k \in Nat |-> IF k = 0 THEN 1 ELSE 10 * f[k - 1]]
  <1>1. PICK step : step = [v \in Nat |-> 10 * v]
    OBVIOUS
  <1>2. PICK g \in [Nat -> Nat] : GoesBySteps(g, 1, step)
    <2>1. 1 \in Nat /\ \A v \in Nat : step[v] \in Nat
      BY <1>1
    <2>2. QED
      BY <2>1, StepsAreDefined, Zenon
  <1>3. g[0] = 1 /\ \A k \in Nat : g[k] \in Nat /\ g[k + 1] = 10 * g[k]
    BY <1>1, <1>2 DEF GoesBySteps
  <1>4. \A k \in Nat : g[k] = IF k = 0 THEN 1 ELSE 10 * g[k - 1]
    <2>1. ASSUME NEW k \in Nat, k # 0 PROVE g[k] = 10 * g[k - 1]
      <3>1. PICK j \in Nat : j + 1 = k /\ j = k - 1
        BY <2>1
      <3>2. QED
        BY <1>3, <3>1
    <2>2. QED
      BY <1>3, <2>1
  <1>5. Is(g)
    BY <1>2, <1>4
  <1>6. Is(TenTo)
    <2>1. TenTo = CHOOSE f : Is(f)
      BY DEF TenTo
    <2> HIDE DEF Is
    <2>2. QED
      BY <1>5, <2>1
  <1>7. \A k \in Nat : TenTo[k] = IF k = 0 THEN 1 ELSE 10 * TenTo[k - 1]
    BY <1>6
  <1> HIDE DEF Is
  <1>8. TenTo[0] = 1 /\ \A k \in Nat : TenTo[k + 1] = 10 * TenTo[k]
    <2>1. \A k \in Nat : k + 1 \in Nat /\ k + 1 # 0 /\ (k + 1) - 1 = k
      OBVIOUS
    <2>2. QED
      BY <1>7, <2>1
  <1> DEFINE T == {k \in Nat : TenTo[k] \in Nat}
  <1>9. T = Nat
    <2>1. 0 \in T /\ \A k \in Nat : k \in T => k + 1 \in T
      BY <1>8
    <2> HIDE DEF T
    <2>2. T \in SUBSET Nat
      BY DEF T
    <2>3. QED
      BY <2>1, <2>2, InductionOnNumbers
  <1>10. QED
    BY <1>8, <1>9

LEMMA TenToPositive == \A k \in Nat : TenTo[k] \in Nat /\ 1 <= TenTo[k]
  <1> DEFINE T == {k \in Nat : 1 <= TenTo[k]}
  <1>1. 0 \in T
    BY TenToIs
  <1>2. \A k \in Nat : k \in T => k + 1 \in T
    BY TenToIs
  <1>3. T = Nat
    <2> HIDE DEF T
    <2>1. T \in SUBSET Nat
      BY DEF T
    <2>2. QED
      BY <1>1, <1>2, <2>1, InductionOnNumbers
  <1>4. QED
    BY <1>3, TenToIs

LEMMA TenToSum ==
  ASSUME NEW j \in Nat, NEW k \in Nat
  PROVE  TenTo[j + k] = TenTo[j] * TenTo[k]
  <1> DEFINE T == {i \in Nat : TenTo[j + i] = TenTo[j] * TenTo[i]}
  <1>1. 0 \in T
    BY TenToIs
  <1>2. ASSUME NEW i \in Nat, i \in T PROVE i + 1 \in T
    <2>0. j + i \in Nat
      OBVIOUS
    <2>1. PICK a, b, c \in Nat : a = TenTo[j] /\ b = TenTo[i] /\ c = TenTo[j + i]
      BY <2>0, TenToIs
    <2>2. c = a * b
      BY <1>2, <2>1
    <2>3. TenTo[i + 1] = 10 * b
      BY <2>1, TenToIs
    <2>4. TenTo[(j + i) + 1] = 10 * c
      BY <2>1, TenToIs
    <2>5. 10 * c = a * (10 * b)
      BY <2>2
    <2>6. j + (i + 1) = (j + i) + 1
      OBVIOUS
    <2>7. TenTo[j + (i + 1)] = TenTo[j] * TenTo[i + 1]
      BY <2>1, <2>3, <2>4, <2>5, <2>6
    <2>8. QED
      BY <2>7
  <1>3. T = Nat
    <2> HIDE DEF T
    <2>1. T \in SUBSET Nat
      BY DEF T
    <2>2. QED
      BY <1>1, <1>2, <2>1, InductionOnNumbers
  <1>4. QED
    BY <1>3

\* Products keep the order, and divide without rest.
LEMMA ProductsKeepOrder ==
  ASSUME NEW a \in Nat, NEW b \in Nat, NEW c \in Nat, 1 <= c
  PROVE  /\ a < b <=> a * c < b * c
         /\ a <= b <=> a * c <= b * c
  OBVIOUS

LEMMA ExactDivision ==
  ASSUME NEW a \in Nat, NEW b \in Nat, 1 <= b
  PROVE  (a * b) \div b = a
  OBVIOUS

LEMMA TenToGrows ==
  ASSUME NEW j \in Nat, NEW k \in Nat, j <= k
  PROVE  TenTo[j] <= TenTo[k]
  <1>1. PICK i \in Nat : k = j + i
    <2>1. k - j \in Nat /\ k = j + (k - j)
      OBVIOUS
    <2>2. QED
      BY <2>1
  <1>2. PICK a, b \in Nat : a = TenTo[j] /\ b = TenTo[i] /\ 1 <= b
    BY TenToPositive
  <1>3. TenTo[k] = a * b
    BY <1>1, <1>2, TenToSum
  <1>4. a <= a * b
    BY <1>2
  <1>5. QED
    BY <1>2, <1>3, <1>4
-----------------------------------------------------------------------------
(* Digits.                                                                 *)

AppendDigit(s, d) == Append(s, d)

LEMMA AppendDigitIs ==
  /\ \A s \in Seq(0..9), d \in 0..9 : AppendDigit(s, d) \in Seq(0..9) /\ Len(AppendDigit(s, d)) = Len(s) + 1
  /\ \A d \in 0..9 : <<d>> \in Seq(0..9) /\ Len(<<d>>) = 1
  BY DEF AppendDigit

LEMMA DigitsAre ==
  /\ \A n \in Nat : Digits[n] = IF n < 10 THEN <<n>> ELSE AppendDigit(Digits[n \div 10], n % 10)
  /\ \A n \in Nat : Digits[n] \in Seq(0..9)
  <1> DEFINE Is(f) == f = [n \in Nat |-> IF n < 10 THEN <<n>> ELSE AppendDigit(f[n \div 10], n % 10)]
  <1>1. PICK S : S = Seq(0..9)
    OBVIOUS
  <1>2. PICK first, base, smaller :
          first = 0..9 /\ base = [n \in 0..9 |-> <<n>>] /\ smaller = [n \in Nat |-> n \div 10]
    OBVIOUS
  <1>3. PICK step : step = [x \in Nat \X S |-> AppendDigit(x[2], x[1] % 10)]
    OBVIOUS
  <1>4. \A n \in Nat, v \in S : step[<<n, v>>] = AppendDigit(v, n % 10) /\ step[<<n, v>>] \in S
    <2>1. ASSUME NEW n \in Nat, NEW v \in S PROVE step[<<n, v>>] = AppendDigit(v, n % 10) /\ step[<<n, v>>] \in S
      <3>1. step[<<n, v>>] = AppendDigit(v, n % 10)
        BY <1>3
      <3>2. n % 10 \in 0..9
        OBVIOUS
      <3>3. QED
        BY <1>1, <3>1, <3>2, AppendDigitIs
    <2>2. QED
      BY <2>1
  <1>5. PICK g \in [Nat -> S] : IsDescent(g, Nat, first, base, smaller, step)
    <2>1. \A n \in Nat : n \in first => base[n] \in S
      BY <1>1, <1>2, AppendDigitIs
    <2>2. \A n \in Nat : n \notin first => smaller[n] \in 0..n - 1
      BY <1>2
    <2>3. \A n \in Nat, v \in S : n \notin first => step[<<n, v>>] \in S
      BY <1>4
    <2>4. QED
      BY <2>1, <2>2, <2>3, DescentIsDefined, Zenon
  <1>6. Is(g)
    <2>1. ASSUME NEW n \in Nat PROVE g[n] = IF n < 10 THEN <<n>> ELSE AppendDigit(g[n \div 10], n % 10)
      <3>1. g[n] = IF n \in first THEN base[n] ELSE step[<<n, g[smaller[n]]>>]
        BY <1>5 DEF IsDescent
      <3>2. CASE n < 10
        <4>1. n \in 0..9
          BY <3>2
        <4>2. n \in first /\ base[n] = <<n>>
          <5>1. n \in first
            BY <1>2, <4>1, Zenon
          <5>2. base[n] = <<n>>
            BY <1>2, <4>1, Zenon
          <5>3. QED
            BY <5>1, <5>2
        <4>3. QED
          BY <3>1, <3>2, <4>2, Zenon
      <3>3. CASE ~(n < 10)
        <4>1. PICK k \in Nat : n \notin first /\ smaller[n] = k /\ k = n \div 10
          BY <1>2, <3>3
        <4>2. g[n] = step[<<n, g[k]>>]
          BY <3>1, <4>1
        <4>3. g[n] = AppendDigit(g[k], n % 10)
          BY <1>4, <1>5, <4>1, <4>2
        <4>4. QED
          BY <3>3, <4>1, <4>3
      <3>4. QED
        BY <3>2, <3>3
    <2>2. QED
      BY <1>5, <2>1
  <1>7. Is(Digits)
    <2>1. Digits = CHOOSE f : Is(f)
      BY DEF Digits, AppendDigit
    <2> HIDE DEF Is
    <2>2. QED
      BY <1>6, <2>1
  <1>8. \A n \in Nat : Digits[n] = IF n < 10 THEN <<n>> ELSE AppendDigit(Digits[n \div 10], n % 10)
    BY <1>7
  <1> HIDE DEF Is
  <1> DEFINE T == {n \in Nat : Digits[n] \in Seq(0..9)}
  <1>9. ASSUME NEW n \in Nat, \A k \in 0..n - 1 : k \in T PROVE n \in T
    <2>1. CASE n < 10
      <3>1. n \in 0..9
        BY <2>1
      <3>2. <<n>> \in Seq(0..9)
        BY <3>1, AppendDigitIs, Zenon
      <3>3. Digits[n] = <<n>>
        BY <1>8, <2>1, Zenon
      <3>4. QED
        BY <3>2, <3>3
    <2>2. CASE ~(n < 10)
      <3>1. PICK k \in Nat : k = n \div 10 /\ k \in 0..n - 1 /\ n % 10 \in 0..9
        BY <2>2
      <3>2. Digits[n] = AppendDigit(Digits[k], n % 10) /\ Digits[k] \in Seq(0..9)
        BY <1>8, <1>9, <2>2, <3>1
      <3>3. QED
        BY <3>1, <3>2, AppendDigitIs
    <2>3. QED
      BY <2>1, <2>2
  <1>10. T = Nat
    <2> HIDE DEF T
    <2>1. T \in SUBSET Nat
      BY DEF T
    <2>2. QED
      BY <1>9, <2>1, CompleteInduction
  <1>11. QED
    BY <1>8, <1>10

\* The last digit, and the others.
LEMMA LastDigit ==
  ASSUME NEW n \in Nat, 10 <= n
  PROVE  \E m \in Nat : \E d \in 0..9 :
           /\ n = 10 * m + d /\ 1 <= m /\ m \in 0..n - 1 /\ Digits[n] = AppendDigit(Digits[m], d)
  <1>1. PICK m, d : m = n \div 10 /\ d = n % 10
    OBVIOUS
  <1>2. m \in Nat /\ d \in 0..9 /\ n = 10 * m + d /\ 1 <= m /\ m \in 0..n - 1
    BY <1>1
  <1>3. ~(n < 10)
    OBVIOUS
  <1>4. Digits[n] = AppendDigit(Digits[n \div 10], n % 10)
    BY <1>3, DigitsAre, Zenon
  <1>5. QED
    BY <1>1, <1>2, <1>4, Zenon

\* A number has as many digits as the least power of ten above it tells.
LEMMA DigitsTell ==
  ASSUME NEW n \in Nat
  PROVE  \E k \in Nat : Len(Digits[n]) = k + 1 /\ n < TenTo[k + 1] /\ (1 <= n => TenTo[k] <= n)
  <1> DEFINE Tells(i) == \E k \in Nat : Len(Digits[i]) = k + 1 /\ i < TenTo[k + 1] /\ (1 <= i => TenTo[k] <= i)
             T == {i \in Nat : Tells(i)}
  <1>1. ASSUME NEW i \in Nat, \A m \in 0..i - 1 : m \in T PROVE i \in T
    <2>1. CASE i < 10
      <3>1. Digits[i] = <<i>> /\ Len(<<i>>) = 1
        BY <2>1, DigitsAre, AppendDigitIs
      <3>2. TenTo[0] = 1 /\ TenTo[0 + 1] = 10
        BY TenToIs
      <3>3. Tells(i)
        BY <2>1, <3>1, <3>2
      <3>4. QED
        BY <3>3
    <2>2. CASE ~(i < 10)
      <3>1. PICK m \in Nat, d \in 0..9 :
              i = 10 * m + d /\ 1 <= m /\ m \in 0..i - 1 /\ Digits[i] = AppendDigit(Digits[m], d)
        BY <2>2, LastDigit
      <3>2. PICK k \in Nat : Len(Digits[m]) = k + 1 /\ m < TenTo[k + 1] /\ TenTo[k] <= m
        BY <1>1, <3>1
      <3>3. Len(Digits[i]) = (k + 1) + 1
        BY <3>1, <3>2, DigitsAre, AppendDigitIs
      <3>4. PICK a, b \in Nat : a = TenTo[k] /\ b = TenTo[k + 1] /\ b = 10 * a /\ TenTo[(k + 1) + 1] = 10 * b
        BY TenToIs
      <3>5. i < 10 * b /\ b <= i
        BY <3>1, <3>2, <3>4
      <3>6. k + 1 \in Nat /\ Len(Digits[i]) = (k + 1) + 1 /\ i < TenTo[(k + 1) + 1] /\ (1 <= i => TenTo[k + 1] <= i)
        BY <3>3, <3>4, <3>5
      <3> HIDE DEF T
      <3>7. Tells(i)
        BY <3>6, Zenon
      <3>8. QED
        BY <3>7 DEF T
    <2>3. QED
      BY <2>1, <2>2
  <1>2. T = Nat
    <2> HIDE DEF T
    <2>1. T \in SUBSET Nat
      BY DEF T
    <2>2. QED
      BY <1>1, <2>1, CompleteInduction
  <1>3. QED
    BY <1>2
-----------------------------------------------------------------------------
(* The fraction: zeros, and its digits without the zeros at the end.       *)

LEMMA TrimmedIs == \A n \in Nat : Trimmed[n] = IF n >= 10 /\ n % 10 = 0 THEN Trimmed[n \div 10] ELSE n
  <1> DEFINE Is(f) == f = [n \in Nat |-> IF n >= 10 /\ n % 10 = 0 THEN f[n \div 10] ELSE n]
  <1>1. PICK last, base, smaller :
          /\ last = {n \in Nat : ~(n >= 10 /\ n % 10 = 0)}
          /\ base = [n \in Nat |-> n] /\ smaller = [n \in Nat |-> n \div 10]
    OBVIOUS
  <1>2. PICK step : step = [x \in Nat \X Nat |-> x[2]]
    OBVIOUS
  <1>3. \A n \in Nat, v \in Nat : step[<<n, v>>] = v
    BY <1>2
  <1>4. PICK g \in [Nat -> Nat] : IsDescent(g, Nat, last, base, smaller, step)
    <2>1. \A n \in Nat : n \in last => base[n] \in Nat
      BY <1>1
    <2>2. \A n \in Nat : n \notin last => smaller[n] \in 0..n - 1
      BY <1>1
    <2>3. \A n \in Nat, v \in Nat : n \notin last => step[<<n, v>>] \in Nat
      BY <1>3
    <2>4. QED
      BY <2>1, <2>2, <2>3, DescentIsDefined, Zenon
  <1>5. Is(g)
    <2>1. ASSUME NEW n \in Nat PROVE g[n] = IF n >= 10 /\ n % 10 = 0 THEN g[n \div 10] ELSE n
      <3>1. g[n] = IF n \in last THEN base[n] ELSE step[<<n, g[smaller[n]]>>]
        BY <1>4 DEF IsDescent
      <3>2. CASE n \in last
        BY <1>1, <3>1, <3>2
      <3>3. CASE n \notin last
        <4>1. PICK k \in Nat : smaller[n] = k /\ k = n \div 10
          BY <1>1
        <4>2. g[n] = step[<<n, g[k]>>] /\ g[k] \in Nat
          BY <1>4, <3>1, <3>3, <4>1
        <4>3. g[n] = g[k]
          BY <1>3, <4>2
        <4>4. n >= 10 /\ n % 10 = 0
          BY <1>1, <3>3
        <4>5. QED
          BY <4>1, <4>3, <4>4
      <3>4. QED
        BY <3>2, <3>3
    <2>2. QED
      BY <1>4, <2>1
  <1>6. Is(Trimmed)
    <2>1. Trimmed = CHOOSE f : Is(f)
      BY DEF Trimmed
    <2> HIDE DEF Is
    <2>2. QED
      BY <1>5, <2>1
  <1>7. QED
    BY <1>6

\* What is trimmed are zeros at the end.
LEMMA TrimmedOfZeros ==
  ASSUME NEW n \in Nat, 1 <= n
  PROVE  \E e \in Nat : Trimmed[n] \in Nat /\ 1 <= Trimmed[n] /\ n = Trimmed[n] * TenTo[e]
  <1> DEFINE Ok(i) == \E e \in Nat : Trimmed[i] \in Nat /\ 1 <= Trimmed[i] /\ i = Trimmed[i] * TenTo[e]
             T == {i \in Nat : 1 <= i => Ok(i)}
  <1>1. ASSUME NEW i \in Nat, \A m \in 0..i - 1 : m \in T PROVE i \in T
    <2> SUFFICES ASSUME 1 <= i PROVE Ok(i)
      OBVIOUS
    <2>1. CASE i >= 10 /\ i % 10 = 0
      <3>1. PICK m \in Nat : m = i \div 10 /\ i = 10 * m /\ 1 <= m /\ m \in 0..i - 1
        BY <2>1
      <3>2. PICK e \in Nat : Trimmed[m] \in Nat /\ 1 <= Trimmed[m] /\ m = Trimmed[m] * TenTo[e]
        BY <1>1, <3>1
      <3>3. Trimmed[i] = Trimmed[m]
        BY <2>1, <3>1, TrimmedIs
      <3>4. PICK t, p \in Nat : t = Trimmed[m] /\ p = TenTo[e] /\ TenTo[e + 1] = 10 * p
        BY <3>2, TenToIs
      <3>5. i = t * (10 * p)
        BY <3>1, <3>2, <3>4
      <3>6. e + 1 \in Nat /\ Trimmed[i] \in Nat /\ 1 <= Trimmed[i] /\ i = Trimmed[i] * TenTo[e + 1]
        BY <3>2, <3>3, <3>4, <3>5
      <3>7. QED
        BY <3>6, Zenon
    <2>2. CASE ~(i >= 10 /\ i % 10 = 0)
      <3>1. Trimmed[i] = i
        BY <2>2, TrimmedIs
      <3>2. 0 \in Nat /\ Trimmed[i] \in Nat /\ 1 <= Trimmed[i] /\ i = Trimmed[i] * TenTo[0]
        BY <3>1, TenToIs
      <3>3. QED
        BY <3>2, Zenon
    <2>3. QED
      BY <2>1, <2>2
  <1>2. T = Nat
    <2> HIDE DEF T
    <2>1. T \in SUBSET Nat
      BY DEF T
    <2>2. QED
      BY <1>1, <2>1, CompleteInduction
  <1>3. QED
    BY <1>2

\* Zeros fill a fraction of k + 1 digits up to all the decimals.
LEMMA ZerosFill ==
  ASSUME NEW f \in Nat, NEW k \in Nat, f < TenTo[k + 1], TenTo[k] <= f, f < Precision
  PROVE  k + 1 <= Decimals /\ Zeros(f) = [i \in 1..Decimals - (k + 1) |-> 0]
  <1>1. Decimals \in Nat /\ Precision = TenTo[Decimals]
    BY TextsAssumption DEF Precision
  <1>2. k + 1 <= Decimals
    <2>1. ASSUME Decimals <= k PROVE FALSE
      <3>1. TenTo[Decimals] <= TenTo[k]
        BY <1>1, <2>1, TenToGrows
      <3>2. PICK a, b \in Nat : a = TenTo[Decimals] /\ b = TenTo[k]
        BY <1>1, TenToIs
      <3>3. QED
        BY <1>1, <3>1, <3>2
    <2>2. QED
      BY <1>1, <2>1
  <1>3. PICK z \in Nat : z = Decimals - (k + 1)
    BY <1>1, <1>2
  <1> DEFINE ds == {d \in 1..Decimals : f * TenTo[d] < Precision}
  <1>4. ASSUME NEW d \in 1..Decimals PROVE f * TenTo[d] < Precision <=> d \in 1..z
    <2>1. PICK p \in Nat : p = TenTo[d] /\ 1 <= p
      BY TenToPositive
    <2>2. CASE d <= z
      <3>1. (k + 1) + d \in Nat /\ (k + 1) + d <= Decimals /\ k + 1 \in Nat /\ d \in Nat
        BY <1>1, <1>3, <2>2
      <3>2. TenTo[(k + 1) + d] <= TenTo[Decimals]
        BY <1>1, <3>1, TenToGrows
      <3>3. PICK a, b \in Nat : a = TenTo[k + 1] /\ b = TenTo[Decimals]
        BY <1>1, <3>1, TenToIs
      <3>4. TenTo[(k + 1) + d] = a * p
        BY <2>1, <3>1, <3>3, TenToSum
      <3>5. f * p < a * p
        BY <2>1, <3>3, ProductsKeepOrder
      <3>6. PICK x, y \in Nat : x = f * p /\ y = a * p
        OBVIOUS
      <3>7. x < b
        BY <3>2, <3>3, <3>4, <3>5, <3>6
      <3>8. QED
        BY <1>1, <2>1, <2>2, <3>3, <3>6, <3>7
    <2>3. CASE ~(d <= z)
      <3>1. k + d \in Nat /\ Decimals <= k + d /\ d \in Nat
        BY <1>1, <1>3, <2>3
      <3>2. TenTo[Decimals] <= TenTo[k + d]
        BY <1>1, <3>1, TenToGrows
      <3>3. PICK a, b \in Nat : a = TenTo[k] /\ b = TenTo[Decimals]
        BY <1>1, TenToIs
      <3>4. TenTo[k + d] = a * p
        BY <2>1, <3>1, <3>3, TenToSum
      <3>5. a * p <= f * p
        BY <2>1, <3>3, ProductsKeepOrder
      <3>6. PICK x, y \in Nat : x = f * p /\ y = a * p
        OBVIOUS
      <3>7. ~(x < b)
        BY <3>2, <3>3, <3>4, <3>5, <3>6
      <3>8. QED
        BY <1>1, <2>1, <2>3, <3>3, <3>6, <3>7
    <2>4. QED
      BY <2>2, <2>3
  <1>5. ds = 1..z
    <2>1. 1..z \subseteq 1..Decimals
      BY <1>1, <1>2, <1>3
    <2>2. QED
      BY <1>4, <2>1
  <1>6. Cardinality(1..z) = z
    <2>1. 1 \in Int /\ z \in Int
      OBVIOUS
    <2>2. Cardinality(1..z) = IF 1 > z THEN 0 ELSE z - 1 + 1
      BY <2>1, FS_Interval, Zenon
    <2>3. PICK c : c = Cardinality(1..z)
      OBVIOUS
    <2>4. c = z
      BY <2>2, <2>3
    <2>5. QED
      BY <2>3, <2>4
  <1>7. Zeros(f) = [i \in 1..z |-> 0]
    BY <1>5, <1>6 DEF Zeros
  <1>8. QED
    BY <1>2, <1>3, <1>7
-----------------------------------------------------------------------------
(* A text is read one character after another.                             *)

Signs == (0..9) \cup {Dot, Comma, Space, PLC, Junk}
Counts == Nat \cup {-1}
Readings == [amount : Nat, cents : Counts, done : BOOLEAN]

LEMMA ReadingTypes == \A a \in Nat, m \in Counts, d \in BOOLEAN : Reading(a, m, d) \in Readings
  BY DEF Reading, Readings

LEMMA PrecisionIs == Precision \in Nat /\ 1 <= Precision /\ Decimals \in Nat /\ Precision = TenTo[Decimals]
  BY TextsAssumption, TenToPositive DEF Precision

LEMMA ReadDone ==
  ASSUME NEW r, NEW c, r.done
  PROVE  ReadDigit(r, c) = r
  BY Zenon DEF ReadDigit

LEMMA ReadPoint ==
  ASSUME NEW r, NEW c \in {Dot, Comma}, ~r.done
  PROVE  ReadDigit(r, c) = Reading(r.amount, 0, r.cents >= 0)
  <1>1. c \notin 0..9
    BY DEF Dot, Comma
  <1>2. QED
    BY <1>1, Zenon DEF ReadDigit

LEMMA ReadWhole ==
  ASSUME NEW r, NEW c \in 0..9, ~r.done, r.cents < 0, ~(r.cents >= 0)
  PROVE  ReadDigit(r, c) = Reading(r.amount * 10 + (c * Precision), r.cents, FALSE)
  <1>1. c \notin {Dot, Comma}
    BY DEF Dot, Comma
  <1>2. QED
    BY <1>1, Zenon DEF ReadDigit

LEMMA ReadDecimal ==
  ASSUME NEW r, NEW c \in 0..9, ~r.done, r.cents >= 0, ~(r.cents < 0)
  PROVE  ReadDigit(r, c) = Reading(r.amount + ((c * Precision) \div TenTo[r.cents + 1]), r.cents + 1, FALSE)
  <1>1. c \notin {Dot, Comma}
    BY DEF Dot, Comma
  <1>2. QED
    BY <1>1, Zenon DEF ReadDigit

LEMMA ReadOther ==
  ASSUME NEW r, NEW c, c \notin {Dot, Comma}, c \notin 0..9, ~r.done
  PROVE  ReadDigit(r, c) = Reading(r.amount, r.cents, TRUE)
  BY Zenon DEF ReadDigit

LEMMA ReadingIsTyped ==
  ASSUME NEW r \in Readings, NEW c \in Signs
  PROVE  ReadDigit(r, c) \in Readings
  <1>1. r.amount \in Nat /\ r.cents \in Counts /\ r.done \in BOOLEAN
    BY DEF Readings
  <1>2. CASE r.done
    BY <1>2, ReadDone, Zenon
  <1>3. CASE ~r.done /\ c \in {Dot, Comma}
    <2>1. 0 \in Counts /\ (r.cents >= 0) \in BOOLEAN
      BY DEF Counts
    <2>2. Reading(r.amount, 0, r.cents >= 0) \in Readings
      BY <1>1, <2>1, ReadingTypes, Zenon
    <2>3. QED
      BY <1>3, <2>2, ReadPoint, Zenon
  <1>4. CASE ~r.done /\ c \in 0..9 /\ r.cents < 0
    <2>1. ~(r.cents >= 0)
      BY <1>1, <1>4 DEF Counts
    <2>2. PICK n \in Nat : n = r.amount * 10 + (c * Precision)
      <3>1. PICK p \in Nat : p = Precision
        BY PrecisionIs
      <3>2. PICK a \in Nat : a = r.amount
        BY <1>1
      <3>3. c * p \in Nat /\ a * 10 \in Nat
        BY <1>4
      <3>4. a * 10 + c * p \in Nat
        BY <3>3
      <3>5. QED
        BY <3>1, <3>2, <3>4
    <2>3. Reading(n, r.cents, FALSE) \in Readings
      BY <1>1, <2>2, ReadingTypes, Zenon
    <2>4. QED
      BY <1>4, <2>1, <2>2, <2>3, ReadWhole, Zenon
  <1>5. CASE ~r.done /\ c \in 0..9 /\ ~(r.cents < 0)
    <2>1. r.cents >= 0 /\ r.cents \in Nat /\ r.cents + 1 \in Nat /\ r.cents + 1 \in Counts
      BY <1>1, <1>5 DEF Counts
    <2>2. PICK n \in Nat : n = r.amount + ((c * Precision) \div TenTo[r.cents + 1])
      <3>1. PICK p, q \in Nat : p = Precision /\ q = TenTo[r.cents + 1] /\ 1 <= q
        BY <2>1, PrecisionIs, TenToPositive
      <3>2. PICK x \in Nat : x = c * p
        BY <1>5
      <3>3. x \div q \in Nat
        BY <3>1
      <3>4. r.amount + (x \div q) \in Nat
        BY <1>1, <3>3
      <3>5. QED
        BY <3>1, <3>2, <3>4
    <2>3. Reading(n, r.cents + 1, FALSE) \in Readings
      BY <2>1, <2>2, ReadingTypes, Zenon
    <2>4. QED
      BY <1>5, <2>1, <2>2, <2>3, ReadDecimal, Zenon
  <1>6. CASE ~r.done /\ c \notin {Dot, Comma} /\ c \notin 0..9
    <2>1. Reading(r.amount, r.cents, TRUE) \in Readings
      BY <1>1, ReadingTypes, Zenon
    <2>2. QED
      BY <1>6, <2>1, ReadOther, Zenon
  <1>7. QED
    BY <1>2, <1>3, <1>4, <1>5, <1>6

Start == Reading(0, -1, FALSE)

\* The readings after each character, as far as one of them.
Leads(h, w, n) == h[0] = Start /\ \A k \in 1..n : h[k] = ReadDigit(h[k - 1], w[k])
Reads(w, q) == \E n \in Nat : \E h : n = Len(w) /\ Leads(h, w, n) /\ h[n] = q

LEMMA ReadsNothing == Reads(<<>>, Start)
  <1>1. PICK h : h = [k \in {0} |-> Start]
    OBVIOUS
  <1>2. h[0] = Start /\ 0 \in Nat /\ 0 = Len(<<>>) /\ 1..0 = {}
    BY <1>1
  <1>3. Leads(h, <<>>, 0)
    BY <1>2 DEF Leads
  <1>4. QED
    BY <1>2, <1>3, Zenon DEF Reads

LEMMA ReadsOneMore ==
  ASSUME NEW w \in Seq(Signs), NEW c \in Signs, NEW q, Reads(w, q)
  PROVE  Reads(Append(w, c), ReadDigit(q, c))
  <1>1. PICK n \in Nat : \E h : n = Len(w) /\ Leads(h, w, n) /\ h[n] = q
    BY Zenon DEF Reads
  <1>2. PICK h : n = Len(w) /\ Leads(h, w, n) /\ h[n] = q
    BY <1>1, Zenon
  <1>3. PICK v, last : v = Append(w, c) /\ last = ReadDigit(q, c)
    OBVIOUS
  <1>4. Len(v) = n + 1 /\ v[n + 1] = c /\ \A k \in 1..n : v[k] = w[k]
    BY <1>2, <1>3
  <1>5. PICK g : g = [k \in 0..n + 1 |-> IF k = n + 1 THEN last ELSE h[k]]
    OBVIOUS
  <1>6. g[n + 1] = last /\ \A k \in 0..n : g[k] = h[k]
    BY <1>5
  <1>7. ASSUME NEW k \in 1..n + 1 PROVE g[k] = ReadDigit(g[k - 1], v[k])
    <2>1. CASE k = n + 1
      <3>1. g[k - 1] = q /\ v[k] = c /\ g[k] = last
        BY <1>2, <1>4, <1>6, <2>1
      <3>2. QED
        BY <1>3, <3>1, Zenon
    <2>2. CASE k \in 1..n
      <3>1. g[k - 1] = h[k - 1] /\ g[k] = h[k] /\ v[k] = w[k]
        BY <1>4, <1>6, <2>2
      <3>2. h[k] = ReadDigit(h[k - 1], w[k])
        BY <1>2, <2>2, Zenon DEF Leads
      <3>3. QED
        BY <3>1, <3>2, Zenon
    <2>3. QED
      BY <2>1, <2>2
  <1>8. g[0] = Start
    <2>1. g[0] = h[0]
      BY <1>6
    <2>2. QED
      BY <1>2, <2>1, Zenon DEF Leads
  <1>9. n + 1 \in Nat /\ n + 1 = Len(v) /\ Leads(g, v, n + 1) /\ g[n + 1] = last
    <2>1. n + 1 \in Nat
      OBVIOUS
    <2>2. Leads(g, v, n + 1)
      BY <1>7, <1>8, Zenon DEF Leads
    <2>3. QED
      BY <1>4, <1>6, <2>1, <2>2
  <1>10. Reads(v, last)
    BY <1>9, Zenon DEF Reads
  <1>11. QED
    BY <1>3, <1>10, Zenon

LEMMA FoldOfText ==
  ASSUME NEW n \in Nat, NEW w \in [1..n -> Signs]
  PROVE  \E h : Leads(h, w, n) /\ FoldLeft(ReadDigit, Start, w) = h[n]
  <1> DEFINE Is(g) == g = [T \in SUBSET (1..n) |-> IF T = {} THEN Start ELSE ReadDigit(g[T \ {Max(T)}], w[Max(T)])]
             fold == CHOOSE g : Is(g)
  <1>1. FoldLeft(ReadDigit, Start, w) = fold[1..n]
    BY DEF FoldLeft, MapThenFoldSet
  <1>2. PICK step : step = [x \in (1..n) \X Readings |-> ReadDigit(x[2], w[x[1]])]
    OBVIOUS
  <1>3. ASSUME NEW k \in 1..n, NEW t \in Readings
        PROVE  step[<<k, t>>] = ReadDigit(t, w[k]) /\ step[<<k, t>>] \in Readings
    <2>1. step[<<k, t>>] = ReadDigit(t, w[k])
      BY <1>2
    <2>2. w[k] \in Signs
      OBVIOUS
    <2>3. ReadDigit(t, w[k]) \in Readings
      BY <2>2, ReadingIsTyped
    <2>4. QED
      BY <2>1, <2>3, Zenon
  <1>4. Start \in Readings
    BY ReadingTypes DEF Start, Counts
  <1>5. \E g : Is(g)
    <2> HIDE DEF Is
    <2>1. PICK g \in [SUBSET (1..n) -> Readings] : IsFoldOfPositions(g, n, Start, step)
      BY <1>3, <1>4, FoldOverPositions, Zenon
    <2> USE DEF Is
    <2>2. \A T \in SUBSET (1..n) : T # {} => Max(T) \in T /\ Max(T) \in 1..n /\ g[T \ {Max(T)}] \in Readings
      BY <2>1, MaxIsLargest
    <2>3. ASSUME NEW T \in SUBSET (1..n)
          PROVE  g[T] = IF T = {} THEN Start ELSE ReadDigit(g[T \ {Max(T)}], w[Max(T)])
      <3>1. g[T] = IF T = {} THEN Start ELSE step[<<Max(T), g[T \ {Max(T)}]>>]
        BY <2>1, Zenon DEF IsFoldOfPositions
      <3>2. QED
        BY <1>3, <2>2, <3>1, Zenon
    <2>4. g = [T \in SUBSET (1..n) |-> IF T = {} THEN Start ELSE ReadDigit(g[T \ {Max(T)}], w[Max(T)])]
      BY <2>1, <2>3
    <2>5. QED
      BY <2>4
  <1>6. Is(fold)
    <2> HIDE DEF Is
    <2>1. QED
      BY <1>5
  <1>7. fold[{}] = Start /\ \A k \in 1..n : fold[1..k] = ReadDigit(fold[1..k - 1], w[k])
    <2> HIDE DEF fold
    <2>1. \A T \in SUBSET (1..n) : fold[T] = IF T = {} THEN Start ELSE ReadDigit(fold[T \ {Max(T)}], w[Max(T)])
      BY <1>6
    <2>2. ASSUME NEW k \in 1..n PROVE fold[1..k] = ReadDigit(fold[1..k - 1], w[k])
      <3>1. 1..k # {} /\ Max(1..k) = k /\ (1..k) \ {k} = 1..k - 1
        <4>1. k \in Nat /\ k # 0
          OBVIOUS
        <4>2. QED
          BY <4>1, MaxOfFirst
      <3>2. 1..k \in SUBSET (1..n)
        OBVIOUS
      <3>3. QED
        BY <2>1, <3>1, <3>2
    <2>3. QED
      BY <2>1, <2>2
  <1> HIDE DEF fold, Is
  <1>8. PICK h : h = [k \in 0..n |-> fold[1..k]]
    OBVIOUS
  <1>9. h[0] = fold[{}] /\ h[n] = fold[1..n]
    <2>1. 1..0 = {} /\ 0 \in 0..n /\ n \in 0..n
      OBVIOUS
    <2>2. QED
      BY <1>8, <2>1
  <1>10. ASSUME NEW k \in 1..n PROVE h[k] = ReadDigit(h[k - 1], w[k])
    <2>1. k \in 0..n /\ k - 1 \in 0..n
      OBVIOUS
    <2>2. h[k] = fold[1..k] /\ h[k - 1] = fold[1..k - 1]
      BY <1>8, <2>1
    <2>3. QED
      BY <1>7, <2>2, Zenon
  <1>11. QED
    BY <1>1, <1>7, <1>9, <1>10, Zenon DEF Leads

LEMMA ReadsIsFold ==
  ASSUME NEW w \in Seq(Signs), NEW q, Reads(w, q)
  PROVE  FoldLeft(ReadDigit, Start, w) = q
  <1>1. PICK n \in Nat : \E h : n = Len(w) /\ Leads(h, w, n) /\ h[n] = q
    BY Zenon DEF Reads
  <1>2. PICK h : n = Len(w) /\ Leads(h, w, n) /\ h[n] = q
    BY <1>1, Zenon
  <1>3. w \in [1..n -> Signs]
    BY <1>2
  <1>4. PICK g : Leads(g, w, n) /\ FoldLeft(ReadDigit, Start, w) = g[n]
    BY <1>3, FoldOfText
  <1> DEFINE T == {k \in Nat : k <= n => g[k] = h[k]}
  <1>5. 0 \in T
    BY <1>2, <1>4 DEF Leads
  <1>6. ASSUME NEW k \in Nat, k \in T PROVE k + 1 \in T
    <2> SUFFICES ASSUME k + 1 <= n PROVE g[k + 1] = h[k + 1]
      OBVIOUS
    <2>1. k + 1 \in 1..n /\ (k + 1) - 1 = k /\ g[k] = h[k]
      BY <1>6
    <2>2. g[k + 1] = ReadDigit(g[(k + 1) - 1], w[k + 1]) /\ h[k + 1] = ReadDigit(h[(k + 1) - 1], w[k + 1])
      BY <1>2, <1>4, <2>1, Zenon DEF Leads
    <2>3. QED
      BY <2>1, <2>2, Zenon
  <1>7. T = Nat
    <2> HIDE DEF T
    <2>1. T \in SUBSET Nat
      BY DEF T
    <2>2. QED
      BY <1>5, <1>6, <2>1, InductionOnNumbers
  <1>8. g[n] = h[n]
    BY <1>7
  <1>9. QED
    BY <1>2, <1>4, <1>8, Zenon
-----------------------------------------------------------------------------
(* An amount is read back: its whole part, its decimals, and what follows. *)

LEMMA TextsOfDigits ==
  /\ \A n \in Nat : Digits[n] \in Seq(Signs)
  /\ \A w \in Seq(Signs), v \in Seq(Signs) : w \o v \in Seq(Signs)
  /\ \A w \in Seq(Signs), c \in Signs : Append(w, c) \in Seq(Signs)
  /\ 0..9 \subseteq Signs /\ {Dot, Space, PLC} \subseteq Signs /\ <<>> \in Seq(Signs)
  <1>1. 0..9 \subseteq Signs /\ {Dot, Space, PLC} \subseteq Signs
    BY DEF Signs
  <1>2. \A s \in Seq(0..9) : s \in Seq(Signs)
    BY <1>1
  <1>3. QED
    BY <1>1, <1>2, DigitsAre

\* One more digit of the whole part.
LEMMA WholeOneMore ==
  ASSUME NEW w \in Seq(Signs), NEW m \in Nat, NEW d \in 0..9, Reads(w, Reading(m * Precision, -1, FALSE))
  PROVE  Reads(Append(w, d), Reading((10 * m + d) * Precision, -1, FALSE))
  <1>1. PICK r : r = Reading(m * Precision, -1, FALSE)
    OBVIOUS
  <1>2. r.amount = m * Precision /\ r.cents = -1 /\ ~r.done
    BY <1>1 DEF Reading
  <1>3. r.cents < 0 /\ ~(r.cents >= 0)
    BY <1>2
  <1>4. ReadDigit(r, d) = Reading(r.amount * 10 + (d * Precision), r.cents, FALSE)
    BY <1>2, <1>3, ReadWhole, Zenon
  <1>5. r.amount * 10 + (d * Precision) = (10 * m + d) * Precision
    <2>1. PICK p \in Nat : p = Precision
      BY PrecisionIs
    <2>2. (m * p) * 10 + (d * p) = (10 * m + d) * p
      OBVIOUS
    <2>3. QED
      BY <1>2, <2>1, <2>2, Zenon
  <1>6. ReadDigit(r, d) = Reading((10 * m + d) * Precision, -1, FALSE)
    BY <1>2, <1>4, <1>5, Zenon
  <1>7. d \in Signs
    BY TextsOfDigits
  <1>8. Reads(Append(w, d), ReadDigit(r, d))
    BY <1>1, <1>7, ReadsOneMore, Zenon
  <1>9. QED
    BY <1>6, <1>8, Zenon

LEMMA WholeIsRead ==
  ASSUME NEW n \in Nat
  PROVE  Reads(Digits[n], Reading(n * Precision, -1, FALSE))
  <1> DEFINE T == {i \in Nat : Reads(Digits[i], Reading(i * Precision, -1, FALSE))}
  <1>1. ASSUME NEW i \in Nat, \A m \in 0..i - 1 : m \in T PROVE i \in T
    <2>1. CASE i < 10
      <3>1. i \in 0..9 /\ 10 * 0 + i = i
        BY <2>1
      <3>2. Digits[i] = Append(<<>>, i)
        <4>1. Digits[i] = <<i>>
          BY <2>1, DigitsAre, Zenon
        <4>2. Append(<<>>, i) = <<i>>
          OBVIOUS
        <4>3. QED
          BY <4>1, <4>2, Zenon
      <3>3. Reads(<<>>, Reading(0 * Precision, -1, FALSE))
        <4>1. 0 * Precision = 0
          BY PrecisionIs
        <4>2. QED
          BY <4>1, ReadsNothing, Zenon DEF Start
      <3>4. <<>> \in Seq(Signs) /\ 0 \in Nat
        BY TextsOfDigits, Zenon
      <3>5. Reads(Append(<<>>, i), Reading((10 * 0 + i) * Precision, -1, FALSE))
        BY <3>1, <3>3, <3>4, WholeOneMore, Zenon
      <3>6. QED
        BY <3>1, <3>2, <3>5, Zenon
    <2>2. CASE ~(i < 10)
      <3>1. PICK m \in Nat, d \in 0..9 :
              i = 10 * m + d /\ 1 <= m /\ m \in 0..i - 1 /\ Digits[i] = AppendDigit(Digits[m], d)
        BY <2>2, LastDigit
      <3>2. Reads(Digits[m], Reading(m * Precision, -1, FALSE)) /\ Digits[m] \in Seq(Signs)
        BY <1>1, <3>1, TextsOfDigits, Zenon
      <3>3. Reads(Append(Digits[m], d), Reading((10 * m + d) * Precision, -1, FALSE))
        BY <3>2, WholeOneMore, Zenon
      <3>4. QED
        BY <3>1, <3>3, Zenon DEF AppendDigit
    <2>3. QED
      BY <2>1, <2>2
  <1>2. T = Nat
    <2> HIDE DEF T
    <2>1. T \in SUBSET Nat
      BY DEF T
    <2>2. QED
      BY <1>1, <2>1, CompleteInduction
  <1>3. QED
    BY <1>2

\* One more decimal, of those the precision has: what it stands for is whole.
LEMMA DecimalOneMore ==
  ASSUME NEW w \in Seq(Signs), NEW a \in Nat, NEW m \in Nat, m + 1 <= Decimals, NEW d \in 0..9,
         Reads(w, Reading(a, m, FALSE))
  PROVE  Reads(Append(w, d), Reading(a + d * TenTo[Decimals - (m + 1)], m + 1, FALSE))
  <1>1. PICK r : r = Reading(a, m, FALSE)
    OBVIOUS
  <1>2. r.amount = a /\ r.cents = m /\ ~r.done
    BY <1>1 DEF Reading
  <1>3. r.cents >= 0 /\ ~(r.cents < 0)
    BY <1>2
  <1>4. ReadDigit(r, d) = Reading(r.amount + ((d * Precision) \div TenTo[r.cents + 1]), r.cents + 1, FALSE)
    BY <1>2, <1>3, ReadDecimal, Zenon
  <1>5. (d * Precision) \div TenTo[m + 1] = d * TenTo[Decimals - (m + 1)]
    <2>1. PICK k \in Nat : k = Decimals - (m + 1) /\ Decimals = k + (m + 1) /\ m + 1 \in Nat
      BY PrecisionIs
    <2>2. PICK x, y \in Nat : x = TenTo[k] /\ y = TenTo[m + 1] /\ 1 <= y
      BY <2>1, TenToPositive
    <2>3. Precision = x * y
      BY <2>1, <2>2, PrecisionIs, TenToSum
    <2>4. PICK z \in Nat : z = d * x
      OBVIOUS
    <2>5. d * (x * y) = z * y
      BY <2>4
    <2>6. (z * y) \div y = z
      BY <2>2, ExactDivision
    <2>7. QED
      BY <2>1, <2>2, <2>3, <2>4, <2>5, <2>6, Zenon
  <1>6. ReadDigit(r, d) = Reading(a + d * TenTo[Decimals - (m + 1)], m + 1, FALSE)
    BY <1>2, <1>4, <1>5, Zenon
  <1>7. d \in Signs
    BY TextsOfDigits
  <1>8. Reads(Append(w, d), ReadDigit(r, d))
    BY <1>1, <1>7, ReadsOneMore, Zenon
  <1>9. QED
    BY <1>6, <1>8, Zenon

LEMMA ZerosAreRead ==
  ASSUME NEW w \in Seq(Signs), NEW a \in Nat, Reads(w, Reading(a, 0, FALSE)), NEW z \in Nat, z <= Decimals
  PROVE  /\ w \o [i \in 1..z |-> 0] \in Seq(Signs)
         /\ Reads(w \o [i \in 1..z |-> 0], Reading(a, z, FALSE))
  <1> DEFINE Text(k) == w \o [i \in 1..k |-> 0]
             Ok(k) == Text(k) \in Seq(Signs) /\ Reads(Text(k), Reading(a, k, FALSE))
             T == {k \in Nat : k <= Decimals => Ok(k)}
  <1>1. 0 \in T
    <2>1. Text(0) = w
      <3>1. [i \in 1..0 |-> 0] = <<>>
        OBVIOUS
      <3>2. w \o <<>> = w
        OBVIOUS
      <3>3. QED
        BY <3>1, <3>2
    <2>2. QED
      BY <2>1
  <1>2. ASSUME NEW k \in Nat, k \in T PROVE k + 1 \in T
    <2> HIDE DEF Ok
    <2> SUFFICES ASSUME k + 1 <= Decimals PROVE Ok(k + 1)
      OBVIOUS
    <2>0. Ok(k)
      BY <1>2, PrecisionIs
    <2> USE DEF Ok
    <2> HIDE DEF Text
    <2>1. Text(k) \in Seq(Signs) /\ Reads(Text(k), Reading(a, k, FALSE))
      BY <2>0
    <2> USE DEF Text
    <2>2. Text(k + 1) = Append(Text(k), 0)
      <3>1. PICK u, v : u = [i \in 1..k |-> 0] /\ v = [i \in 1..k + 1 |-> 0]
        OBVIOUS
      <3>2. u \in Seq(Signs) /\ v = Append(u, 0)
        <4>1. 0 \in Signs
          BY TextsOfDigits
        <4>2. QED
          BY <3>1, <4>1
      <3>3. w \o Append(u, 0) = Append(w \o u, 0)
        <4>1. 0 \in Signs
          BY TextsOfDigits
        <4>2. QED
          BY <3>2, <4>1
      <3>4. QED
        BY <3>1, <3>2, <3>3, Zenon
    <2>3. Reads(Append(Text(k), 0), Reading(a + 0 * TenTo[Decimals - (k + 1)], k + 1, FALSE))
      <3>1. 0 \in 0..9
        OBVIOUS
      <3> HIDE DEF Text
      <3>2. QED
        BY <2>1, <3>1, DecimalOneMore, Zenon
    <2>4. a + 0 * TenTo[Decimals - (k + 1)] = a
      <3>1. Decimals - (k + 1) \in Nat
        BY PrecisionIs
      <3>2. PICK x \in Nat : x = TenTo[Decimals - (k + 1)]
        BY <3>1, TenToIs
      <3>3. QED
        BY <3>2
    <2>5. Append(Text(k), 0) \in Seq(Signs)
      <3>1. 0 \in Signs
        BY TextsOfDigits
      <3> HIDE DEF Text
      <3>2. QED
        BY <2>1, <3>1, TextsOfDigits, Zenon
    <2> HIDE DEF Text
    <2>6. QED
      BY <2>2, <2>3, <2>4, <2>5, Zenon
  <1>3. T = Nat
    <2> HIDE DEF T
    <2>1. T \in SUBSET Nat
      BY DEF T
    <2>2. QED
      BY <1>1, <1>2, <2>1, InductionOnNumbers
  <1>4. QED
    BY <1>3

\* The digits of a fraction after z zeros, as long as the decimals go.
LEMMA FractionIsRead ==
  ASSUME NEW w \in Seq(Signs), NEW a \in Nat, NEW z \in Nat, Reads(w, Reading(a, z, FALSE)),
         NEW f \in Nat, z + Len(Digits[f]) <= Decimals
  PROVE  Reads(w \o Digits[f],
               Reading(a + f * TenTo[Decimals - (z + Len(Digits[f]))], z + Len(Digits[f]), FALSE))
  <1> DEFINE End(i) == z + Len(Digits[i])
             Ok(i) == Reads(w \o Digits[i], Reading(a + i * TenTo[Decimals - End(i)], End(i), FALSE))
             T == {i \in Nat : End(i) <= Decimals => Ok(i)}
  <1>1. ASSUME NEW i \in Nat, \A m \in 0..i - 1 : m \in T PROVE i \in T
    <2> HIDE DEF Ok
    <2> SUFFICES ASSUME End(i) <= Decimals PROVE Ok(i)
      OBVIOUS
    <2>1. CASE i < 10
      <3>1. i \in 0..9 /\ Digits[i] = <<i>> /\ Len(Digits[i]) = 1
        <4>1. Digits[i] = <<i>>
          BY <2>1, DigitsAre, Zenon
        <4>2. i \in 0..9 /\ Len(<<i>>) = 1
          BY <2>1
        <4>3. QED
          BY <4>1, <4>2, Zenon
      <3>2. End(i) = z + 1 /\ z + 1 <= Decimals
        BY <3>1
      <3>3. Reads(Append(w, i), Reading(a + i * TenTo[Decimals - (z + 1)], z + 1, FALSE))
        BY <3>1, <3>2, DecimalOneMore, Zenon
      <3>4. w \o <<i>> = Append(w, i)
        <4>1. i \in Signs
          BY <3>1, TextsOfDigits
        <4>2. QED
          BY <4>1
      <3>5. QED
        BY <3>1, <3>2, <3>3, <3>4, Zenon DEF Ok
    <2>2. CASE ~(i < 10)
      <3>1. PICK m \in Nat, d \in 0..9 :
              i = 10 * m + d /\ 1 <= m /\ m \in 0..i - 1 /\ Digits[i] = AppendDigit(Digits[m], d)
        BY <2>2, LastDigit
      <3>2. PICK u : u = Digits[m] /\ u \in Seq(Signs) /\ u \in Seq(0..9)
        BY DigitsAre, TextsOfDigits, Zenon
      <3>3. PICK e \in Nat : e = End(m) /\ Len(u) \in Nat
        <4>1. Len(u) \in Nat
          BY <3>2
        <4>2. QED
          BY <3>2, <4>1
      <3>4. End(i) = e + 1 /\ e + 1 <= Decimals
        <4>1. Len(Digits[i]) = Len(u) + 1
          BY <3>1, <3>2, AppendDigitIs, Zenon
        <4>2. QED
          BY <3>2, <3>3, <4>1
      <3>5. Ok(m)
        BY <1>1, <3>1, <3>3, <3>4, PrecisionIs
      <3>6. PICK k \in Nat : k = Decimals - (e + 1) /\ Decimals - e = k + 1
        BY <3>4, PrecisionIs
      <3>7. PICK x \in Nat : x = TenTo[k] /\ TenTo[k + 1] = 10 * x
        BY TenToIs
      <3>8. PICK b \in Nat : b = a + m * (10 * x)
        <4>1. m * (10 * x) \in Nat
          OBVIOUS
        <4>2. QED
          BY <4>1
      <3>9. PICK v : v = w \o u /\ v \in Seq(Signs)
        BY <3>2, TextsOfDigits, Zenon
      <3>10. Reads(v, Reading(b, e, FALSE))
        BY <3>2, <3>3, <3>5, <3>6, <3>7, <3>8, <3>9, Zenon DEF Ok
      <3>11. Reads(Append(v, d), Reading(b + d * TenTo[Decimals - (e + 1)], e + 1, FALSE))
        BY <3>4, <3>9, <3>10, DecimalOneMore, Zenon
      <3>12. b + d * x = a + i * x
        <4>1. (a + m * (10 * x)) + d * x = a + (10 * m + d) * x
          OBVIOUS
        <4>2. QED
          BY <3>1, <3>8, <4>1, Zenon
      <3>13. w \o Digits[i] = Append(v, d)
        <4>1. d \in Signs
          BY TextsOfDigits
        <4>2. w \o Append(u, d) = Append(w \o u, d)
          BY <3>2, <4>1
        <4>3. QED
          BY <3>1, <3>2, <3>9, <4>2, Zenon DEF AppendDigit
      <3>14. QED
        BY <3>4, <3>6, <3>7, <3>11, <3>12, <3>13, Zenon DEF Ok
    <2>3. QED
      BY <2>1, <2>2
  <1>2. T = Nat
    <2> HIDE DEF T
    <2>1. T \in SUBSET Nat
      BY DEF T
    <2>2. QED
      BY <1>1, <2>1, CompleteInduction
  <1>3. QED
    BY <1>2

LEMMA AppendInFront ==
  ASSUME NEW w \in Seq(Signs), NEW c \in Signs, NEW s \in Seq(Signs), NEW t \in Seq(Signs)
  PROVE  (Append(w, c) \o s) \o t = w \o (<<c>> \o s \o t)
  <1>1. <<c>> \in Seq(Signs)
    OBVIOUS
  <1>2. Append(w, c) = w \o <<c>>
    BY AppendIsConcat
  <1>3. (w \o <<c>>) \o s = w \o (<<c>> \o s)
    BY <1>1, ConcatAssociative
  <1>4. <<c>> \o s \in Seq(Signs)
    BY <1>1, ConcatProperties
  <1>5. (w \o (<<c>> \o s)) \o t = w \o ((<<c>> \o s) \o t)
    BY <1>4, ConcatAssociative
  <1>6. QED
    BY <1>2, <1>3, <1>5

\* A fraction is read back with the whole part in front of it.
LEMMA FractionReadBack ==
  ASSUME NEW w \in Seq(Signs), NEW a \in Nat, Reads(w, Reading(a, -1, FALSE)), NEW f \in Nat, 1 <= f, f < Precision
  PROVE  \E m \in Nat :
           /\ w \o (<<Dot>> \o Zeros(f) \o Digits[Trimmed[f]]) \in Seq(Signs)
           /\ Reads(w \o (<<Dot>> \o Zeros(f) \o Digits[Trimmed[f]]), Reading(a + f, m, FALSE))
  <1>1. PICK e \in Nat : Trimmed[f] \in Nat /\ 1 <= Trimmed[f] /\ f = Trimmed[f] * TenTo[e]
    BY TrimmedOfZeros
  <1>2. PICK t, p \in Nat : t = Trimmed[f] /\ p = TenTo[e] /\ 1 <= t /\ f = t * p /\ 1 <= p
    BY <1>1, TenToPositive
  <1>3. PICK k \in Nat : Len(Digits[t]) = k + 1 /\ t < TenTo[k + 1] /\ TenTo[k] <= t
    BY <1>2, DigitsTell
  <1>4. PICK x, y \in Nat : x = TenTo[k] /\ y = TenTo[k + 1] /\ t < y /\ x <= t
    <2>1. k + 1 \in Nat
      OBVIOUS
    <2>2. PICK x, y \in Nat : x = TenTo[k] /\ y = TenTo[k + 1]
      BY <2>1, TenToIs
    <2>3. t < y /\ x <= t
      BY <1>2, <1>3, <2>2, Zenon
    <2>4. QED
      BY <2>2, <2>3, Zenon
  <1>5. x * p <= f /\ f < y * p
    <2>1. x * p <= t * p
      BY <1>2, <1>4, ProductsKeepOrder
    <2>2. t * p < y * p
      BY <1>2, <1>4, ProductsKeepOrder
    <2>3. QED
      BY <1>2, <2>1, <2>2, Zenon
  <1>6. TenTo[k + e] = x * p /\ TenTo[(k + 1) + e] = y * p
    BY <1>2, <1>4, TenToSum
  <1>7. PICK j \in Nat : j = k + e /\ j + 1 = (k + 1) + e
    OBVIOUS
  <1>8. f < TenTo[j + 1] /\ TenTo[j] <= f
    BY <1>5, <1>6, <1>7
  <1>9. j + 1 <= Decimals /\ Zeros(f) = [i \in 1..Decimals - (j + 1) |-> 0]
    BY <1>8, ZerosFill
  <1>10. PICK z \in Nat : z = Decimals - (j + 1) /\ z <= Decimals /\ z + (k + 1) <= Decimals
                          /\ Decimals - (z + (k + 1)) = e
    BY <1>7, <1>9, PrecisionIs
  <1>11. PICK u : u = Append(w, Dot) /\ u \in Seq(Signs)
    BY TextsOfDigits
  <1>12. Reads(u, Reading(a, 0, FALSE))
    <2>1. PICK r : r = Reading(a, -1, FALSE)
      OBVIOUS
    <2>2. r.amount = a /\ r.cents = -1 /\ ~r.done
      BY <2>1 DEF Reading
    <2>3. (r.cents >= 0) = FALSE
      BY <2>2
    <2>4. ReadDigit(r, Dot) = Reading(a, 0, FALSE)
      BY <2>2, <2>3, ReadPoint, Zenon
    <2>5. Dot \in Signs
      BY TextsOfDigits
    <2>6. Reads(Append(w, Dot), ReadDigit(r, Dot))
      BY <2>1, <2>5, ReadsOneMore, Zenon
    <2>7. QED
      BY <1>11, <2>4, <2>6, Zenon
  <1>13. PICK v : v = u \o Zeros(f) /\ v \in Seq(Signs) /\ Reads(v, Reading(a, z, FALSE))
    BY <1>9, <1>10, <1>11, <1>12, ZerosAreRead, Zenon
  <1>14. PICK g : g = Digits[t] /\ g \in Seq(Signs) /\ Len(g) = k + 1
    BY <1>3, TextsOfDigits, Zenon
  <1>15. Reads(v \o g, Reading(a + t * TenTo[Decimals - (z + (k + 1))], z + (k + 1), FALSE))
    BY <1>10, <1>13, <1>14, FractionIsRead, Zenon
  <1>16. Reads(v \o g, Reading(a + f, z + (k + 1), FALSE))
    BY <1>2, <1>10, <1>15, Zenon
  <1>17. v \o g = w \o (<<Dot>> \o Zeros(f) \o g)
    <2>1. PICK s : s = Zeros(f) /\ s \in Seq(Signs)
      <3>1. 0 \in Signs
        BY TextsOfDigits
      <3>2. [i \in 1..z |-> 0] \in Seq(Signs)
        BY <3>1
      <3>3. QED
        BY <1>9, <1>10, <3>2, Zenon
    <2>2. Dot \in Signs
      BY TextsOfDigits
    <2>3. (Append(w, Dot) \o s) \o g = w \o (<<Dot>> \o s \o g)
      BY <1>14, <2>1, <2>2, AppendInFront, Zenon
    <2>4. QED
      BY <1>11, <1>13, <2>1, <2>3, Zenon
  <1>18. v \o g \in Seq(Signs) /\ z + (k + 1) \in Nat
    BY <1>13, <1>14, TextsOfDigits
  <1>19. QED
    BY <1>2, <1>14, <1>16, <1>17, <1>18, Zenon

\* What follows the number ends it.
LEMMA SpaceEnds ==
  ASSUME NEW w \in Seq(Signs), NEW a, NEW m, Reads(w, Reading(a, m, FALSE))
  PROVE  plc_from_str(w \o <<Space, PLC>>) = a
  <1>1. PICK s, n : s = w \o <<Space, PLC>> /\ n = Len(w)
    OBVIOUS
  <1>2. n \in Nat /\ Len(s) = n + 2 /\ s[n + 2] = PLC /\ SubSeq(s, 1, n + 1) = Append(w, Space)
    <2>1. Space \in Signs /\ PLC \in Signs
      BY TextsOfDigits
    <2>2. n \in Nat /\ Len(s) = n + 2 /\ s[n + 2] = PLC
      BY <1>1, <2>1
    <2>3. s \in Seq(Signs)
      BY <1>1, <2>1
    <2>4. \A i \in 1..n + 1 : s[i] = Append(w, Space)[i]
      BY <1>1, <2>1
    <2>5. Append(w, Space) \in Seq(Signs) /\ Len(Append(w, Space)) = n + 1
      BY <1>1, <2>1
    <2>6. SubSeq(s, 1, n + 1) = Append(w, Space)
      BY <2>2, <2>3, <2>4, <2>5
    <2>7. QED
      BY <2>2, <2>6
  <1> DEFINE at == {k \in 1..Len(s) : s[k] = PLC}
  <1>3. at # {} /\ Max(at) = n + 2
    <2>1. n + 2 \in at /\ \A k \in at : k <= n + 2 /\ k \in Int
      BY <1>2
    <2> HIDE DEF at
    <2>2. Max(at) \in at /\ \A k \in at : k <= Max(at)
      BY <2>1 DEF Max
    <2>3. PICK x : x = Max(at)
      OBVIOUS
    <2>4. x \in at /\ n + 2 <= x /\ x <= n + 2 /\ x \in Int
      BY <2>1, <2>2, <2>3
    <2>5. x = n + 2
      BY <1>2, <2>4
    <2>6. QED
      BY <2>1, <2>3, <2>5
  <1>4. SubSeq(s, 1, Max(at) - 1) = Append(w, Space)
    <2>1. (n + 2) - 1 = n + 1
      BY <1>2
    <2> HIDE DEF at
    <2>2. QED
      BY <1>2, <1>3, <2>1, Zenon
  <1>5. plc_from_str(s) = FoldLeft(ReadDigit, Start, Append(w, Space)).amount
    <2>1. plc_from_str(s) = FoldLeft(ReadDigit, Start, SubSeq(s, 1, Max(at) - 1)).amount
      BY <1>3, Zenon DEF plc_from_str, Start
    <2> HIDE DEF at
    <2>2. QED
      BY <1>4, <2>1, Zenon
  <1>6. PICK r : r = Reading(a, m, FALSE)
    OBVIOUS
  <1>7. r.amount = a /\ r.cents = m /\ ~r.done
    BY <1>6 DEF Reading
  <1>8. Space \notin {Dot, Comma} /\ Space \notin 0..9 /\ Space \in Signs
    BY DEF Dot, Comma, Space, Signs
  <1>9. ReadDigit(r, Space) = Reading(a, m, TRUE)
    BY <1>7, <1>8, ReadOther, Zenon
  <1>10. Reads(Append(w, Space), Reading(a, m, TRUE))
    BY <1>6, <1>8, <1>9, ReadsOneMore, Zenon
  <1>11. Append(w, Space) \in Seq(Signs)
    BY <1>8
  <1>12. FoldLeft(ReadDigit, Start, Append(w, Space)) = Reading(a, m, TRUE)
    BY <1>10, <1>11, ReadsIsFold, Zenon
  <1>13. Reading(a, m, TRUE).amount = a
    BY DEF Reading
  <1>14. QED
    BY <1>1, <1>5, <1>12, <1>13, Zenon

(* An amount is read as what was written.                                  *)
LEMMA AmountReadBack ==
  ASSUME NEW n \in Nat
  PROVE  plc_from_str(plc_to_str(n)) = n
  <1>1. PICK p \in Nat : p = Precision /\ 1 <= p
    BY PrecisionIs
  <1>2. PICK x, f \in Nat : x = n \div p /\ f = n % p /\ f < p /\ n = x * p + f
    BY <1>1
  <1>3. PICK w : w = Digits[x] /\ w \in Seq(Signs)
    BY TextsOfDigits, Zenon
  <1>4. PICK a \in Nat : a = x * p /\ n = a + f
    BY <1>2
  <1>5. Reads(w, Reading(a, -1, FALSE))
    BY <1>1, <1>3, <1>4, WholeIsRead, Zenon
  <1> DEFINE fraction == IF f > 0 THEN <<Dot>> \o Zeros(f) \o Digits[Trimmed[f]] ELSE <<>>
  <1>6. plc_to_str(n) = w \o fraction \o <<Space, PLC>>
    BY <1>1, <1>2, <1>3, Zenon DEF plc_to_str
  <1>7. CASE f > 0
    <2>1. 1 <= f
      BY <1>7
    <2>2. fraction = <<Dot>> \o Zeros(f) \o Digits[Trimmed[f]]
      BY <1>7, Zenon
    <2> HIDE DEF fraction
    <2>3. PICK m \in Nat : w \o fraction \in Seq(Signs) /\ Reads(w \o fraction, Reading(a + f, m, FALSE))
      BY <1>1, <1>2, <1>3, <1>5, <2>1, <2>2, FractionReadBack, Zenon
    <2>4. plc_from_str(w \o fraction \o <<Space, PLC>>) = a + f
      BY <2>3, SpaceEnds, Zenon
    <2>5. QED
      BY <1>4, <1>6, <2>4, Zenon
  <1>8. CASE ~(f > 0)
    <2>1. w \o fraction = w
      <3>1. fraction = <<>>
        BY <1>8, Zenon
      <3> HIDE DEF fraction
      <3>2. w \o <<>> = w
        BY <1>3
      <3>3. QED
        BY <3>1, <3>2, Zenon
    <2> HIDE DEF fraction
    <2>2. plc_from_str(w \o <<Space, PLC>>) = a
      BY <1>3, <1>5, SpaceEnds, Zenon
    <2>3. n = a
      BY <1>2, <1>4, <1>8
    <2>4. QED
      BY <1>6, <2>1, <2>2, <2>3, Zenon
  <1>9. QED
    BY <1>7, <1>8
-----------------------------------------------------------------------------
(* Identifiers are told apart by space and type.                           *)

LEMMA FourBytesIs == FourBytes \in Nat
  <1>1. PICK b \in Nat : b = ByteWord
    BY TextsAssumption
  <1>2. b * b \in Nat
    OBVIOUS
  <1>3. b * b * b \in Nat
    BY <1>2
  <1>4. b * b * b * b \in Nat
    BY <1>3
  <1>5. QED
    BY <1>1, <1>4 DEF FourBytes

LEMMA IdsDiffer ==
  ASSUME NEW s \in DOMAIN IdTypes, NEW t \in DOMAIN IdTypes,
         IdTypes[s][1] = IdTypes[t][1], IdTypes[s][2] = IdTypes[t][2]
  PROVE  s = t
  BY DEF IdTypes

LEMMA PartOf ==
  ASSUME NEW s \in Seq(Int), NEW i \in 1..Len(s)
  PROVE  SubSeq(s, i, i) = <<s[i]>>
  <1>1. SubSeq(s, i, i) = [k \in 1..(i - i) + 1 |-> s[(i + k) - 1]]
    OBVIOUS
  <1>2. (i - i) + 1 = 1 /\ (i + 1) - 1 = i
    OBVIOUS
  <1>3. QED
    BY <1>1, <1>2

\* Where the parts of a text of an identifier are.
PartsAre(s, a, b, n) ==
  /\ find(s, Dot, 1) = 2 /\ find(s, Dot, 2 + 1) = 4
  /\ Between(s, 0, 2) = <<a>> /\ Between(s, 2, 4) = <<b>> /\ Between(s, 4, npos) = <<n>>

LEMMA PartsOfId ==
  ASSUME NEW a \in Nat, NEW b \in Nat, NEW n \in Nat, NEW s, s = <<a, Dot, b, Dot, n>>
  PROVE  PartsAre(s, a, b, n)
  <1>1. s \in Seq(Int) /\ Len(s) = 5 /\ s[1] = a /\ s[2] = Dot /\ s[3] = b /\ s[4] = Dot /\ s[5] = n
    BY DEF Dot
  <1>2. a # Dot /\ b # Dot /\ n # Dot
    BY DEF Dot
  <1>3. {k \in 1..Len(s) : s[k] = Dot} = {2, 4}
    BY <1>1, <1>2
  <1>4. {k \in 2 + 1..Len(s) : s[k] = Dot} = {4}
    BY <1>1, <1>2
  <1>5. Min({2, 4}) = 2 /\ Min({4}) = 4
    BY DEF Min
  <1>6. find(s, Dot, 1) = 2
    BY <1>3, <1>5, Zenon DEF find
  <1>7. find(s, Dot, 2 + 1) = 4
    BY <1>4, <1>5, Zenon DEF find
  <1>8. Between(s, 0, 2) = <<a>>
    <2>1. 0 + 1 = 1 /\ 2 - 1 = 1 /\ 2 # npos
      BY DEF npos
    <2>2. SubSeq(s, 1, 1) = <<a>>
      <3>1. 1 \in 1..Len(s)
        BY <1>1
      <3>2. SubSeq(s, 1, 1) = <<s[1]>>
        BY <1>1, <3>1, PartOf, Zenon
      <3>3. QED
        BY <1>1, <3>2, Zenon
    <2>3. QED
      BY <2>1, <2>2, Zenon DEF Between
  <1>9. Between(s, 2, 4) = <<b>>
    <2>1. 2 + 1 = 3 /\ 4 - 1 = 3 /\ 4 # npos
      BY DEF npos
    <2>2. SubSeq(s, 3, 3) = <<b>>
      <3>1. 3 \in 1..Len(s)
        BY <1>1
      <3>2. SubSeq(s, 3, 3) = <<s[3]>>
        BY <1>1, <3>1, PartOf, Zenon
      <3>3. QED
        BY <1>1, <3>2, Zenon
    <2>3. QED
      BY <2>1, <2>2, Zenon DEF Between
  <1>10. Between(s, 4, npos) = <<n>>
    <2>1. 4 + 1 = 5
      OBVIOUS
    <2>2. SubSeq(s, 5, 5) = <<n>>
      <3>1. 5 \in 1..Len(s)
        BY <1>1
      <3>2. SubSeq(s, 5, 5) = <<s[5]>>
        BY <1>1, <3>1, PartOf, Zenon
      <3>3. QED
        BY <1>1, <3>2, Zenon
    <2>3. QED
      BY <1>1, <2>1, <2>2, Zenon DEF Between
  <1>11. QED
    BY <1>6, <1>7, <1>8, <1>9, <1>10 DEF PartsAre

LEMMA ThreeParts ==
  ASSUME NEW a, NEW b, NEW c
  PROVE  <<a, b, c>>[1] = a /\ <<a, b, c>>[2] = b /\ <<a, b, c>>[3] = c
  OBVIOUS

LEMMA IntsAreRead ==
  ASSUME NEW n \in 0..(FourBytes \div 2) - 1
  PROVE  n \in Nat /\ Readable(<<n>>) /\ to_int(<<n>>) = n
  <1>1. n \in Nat /\ n < FourBytes \div 2 /\ n \in 0..FourBytes - 1
    BY FourBytesIs
  <1>2. <<n>> # <<>> /\ <<n>>[1] = n
    OBVIOUS
  <1>3. QED
    BY <1>1, <1>2, Zenon DEF Readable, to_int

(* A valid identifier is read as what was written, and as none where one   *)
(* of another type is expected.                                            *)
LEMMA IdReadBack ==
  ASSUME NEW type \in DOMAIN IdTypes, NEW as \in DOMAIN IdTypes, NEW n \in 0..(FourBytes \div 2) - 1
  PROVE  id_from_str(as, id_to_str(type, n)) = IF as = type THEN n ELSE NoInstance(as)
  <1>1. PICK a, b, x, y : a = IdTypes[type][1] /\ b = IdTypes[type][2] /\ x = IdTypes[as][1] /\ y = IdTypes[as][2]
    OBVIOUS
  <1>2. a \in 0..(FourBytes \div 2) - 1 /\ b \in 0..(FourBytes \div 2) - 1
    BY <1>1, IdsAssumption
  <1>3. /\ a \in Nat /\ Readable(<<a>>) /\ to_int(<<a>>) = a
        /\ b \in Nat /\ Readable(<<b>>) /\ to_int(<<b>>) = b
        /\ n \in Nat /\ Readable(<<n>>) /\ to_int(<<n>>) = n
    BY <1>2, IntsAreRead, Zenon
  <1>4. PICK s : s = id_to_str(type, n) /\ s = <<a, Dot, b, Dot, n>>
    <2>1. id_to_str(type, n) = <<a, Dot, b, Dot, n>>
      BY <1>1, Zenon DEF id_to_str
    <2>2. QED
      BY <2>1, Zenon
  <1>5. /\ find(s, Dot, 1) = 2 /\ find(s, Dot, 2 + 1) = 4
        /\ Between(s, 0, 2) = <<a>> /\ Between(s, 2, 4) = <<b>> /\ Between(s, 4, npos) = <<n>>
    <2>1. PartsAre(s, a, b, n)
      BY <1>3, <1>4, PartsOfId, Zenon
    <2>2. QED
      BY <2>1, Zenon DEF PartsAre
  <1>6. PICK parts : parts = <<Between(s, 0, 2), Between(s, 2, 4), Between(s, 4, npos)>>
    OBVIOUS
  <1>7. parts[1] = <<a>> /\ parts[2] = <<b>> /\ parts[3] = <<n>>
    <2>1. parts = <<<<a>>, <<b>>, <<n>>>>
      BY <1>5, <1>6, Zenon
    <2>2. QED
      BY <2>1, ThreeParts, Zenon
  <1>8. \A k \in 1..3 : Readable(parts[k])
    <2>1. \A k \in 1..3 : k = 1 \/ k = 2 \/ k = 3
      OBVIOUS
    <2>2. QED
      BY <1>3, <1>7, <2>1, Zenon
  <1>9. 2 # 4 /\ 2 \notin {1, npos}
    BY DEF npos
  <1>10. id_from_str(as, s) = IF a = x /\ b = y THEN n ELSE NoInstance(as)
    <2>1. id_from_str(as, s) =
            IF /\ 2 # 4 /\ 2 \notin {1, npos}
               /\ \A k \in 1..3 : Readable(parts[k])
               /\ to_int(parts[1]) = x /\ to_int(parts[2]) = y
              THEN to_int(parts[3]) ELSE NoInstance(as)
      BY <1>1, <1>5, <1>6, Zenon DEF id_from_str
    <2>2. QED
      BY <1>3, <1>7, <1>8, <1>9, <2>1, Zenon
  <1>11. a = x /\ b = y <=> as = type
    BY <1>1, IdsDiffer, Zenon
  <1>12. QED
    BY <1>4, <1>10, <1>11, Zenon
-----------------------------------------------------------------------------
(* Versions.                                                               *)

LEMMA VersionReadBack ==
  ASSUME NEW v \in Nat
  PROVE  version_from_str(version_to_str(v)) = v
  <1>1. PICK w \in Nat : w = ByteWord /\ 1 <= w
    BY TextsAssumption
  <1>2. PICK u \in Nat : u = w * w /\ 1 <= u
    <2>1. w * w \in Nat /\ 1 <= w * w
      BY <1>1
    <2>2. QED
      BY <2>1
  <1>3. PICK x \in Nat : x = u * w /\ 1 <= x
    <2>1. u * w \in Nat /\ 1 <= u * w
      BY <1>1, <1>2
    <2>2. QED
      BY <2>1
  <1>4. PICK q, patch \in Nat : q = v \div u /\ patch = v % u /\ v = u * q + patch /\ patch < u
    BY <1>2
  <1>5. PICK major, minor \in Nat : major = q \div w /\ minor = q % w /\ q = w * major + minor /\ minor < w
    BY <1>1
  <1>6. v \div x = major
    <2>1. PICK r \in Nat : r = u * minor + patch
      <3>1. u * minor + patch \in Nat
        OBVIOUS
      <3>2. QED
        BY <3>1
    <2>2. r < x
      <3>1. u * (minor + 1) <= u * w
        BY <1>2, <1>5, <1>1
      <3>2. u * (minor + 1) = u * minor + u
        OBVIOUS
      <3>3. PICK c, d \in Nat : c = u * minor /\ d = u * w
        OBVIOUS
      <3>4. QED
        BY <1>3, <1>4, <2>1, <3>1, <3>2, <3>3
    <2>3. v = x * major + r
      <3>1. u * (w * major + minor) = (u * w) * major + u * minor
        OBVIOUS
      <3>2. PICK c, d, e \in Nat : c = u * (w * major + minor) /\ d = (u * w) * major /\ e = u * minor
        OBVIOUS
      <3>3. x * major = d
        BY <1>3, <3>2
      <3>4. v = c + patch
        BY <1>4, <1>5, <3>2
      <3>5. QED
        BY <2>1, <3>1, <3>2, <3>3, <3>4
    <2>4. QED
      BY <1>3, <2>1, <2>2, <2>3
  <1>7. major_of(v) = major
    <2>1. ByteWord * ByteWord * ByteWord = x
      BY <1>1, <1>2, <1>3, Zenon
    <2>2. QED
      BY <1>6, <2>1, Zenon DEF major_of
  <1>8. minor_of(v) = minor
    BY <1>1, <1>2, <1>4, <1>5, Zenon DEF minor_of
  <1>9. patch_of(v) = patch
    BY <1>1, <1>2, <1>4, Zenon DEF patch_of
  <1>10. version_from_str(version_to_str(v)) = v_num(major, minor, patch)
    <2>1. PICK s : s = version_to_str(v) /\ s = <<major, Dot, minor, Dot, patch>>
      BY <1>7, <1>8, <1>9, Zenon DEF version_to_str
    <2>2. s[1] = major /\ s[3] = minor /\ s[5] = patch
      BY <2>1
    <2>3. QED
      BY <2>1, <2>2, Zenon DEF version_from_str
  <1>11. v_num(major, minor, patch) = v
    <2>1. v_num(major, minor, patch) = (major * w * w * w) + (minor * w * w) + patch
      BY <1>1, Zenon DEF v_num
    <2>2. major * w * w * w = u * (w * major)
      BY <1>2
    <2>3. minor * w * w = u * minor
      BY <1>2
    <2>4. u * (w * major) + u * minor = u * (w * major + minor)
      OBVIOUS
    <2>5. u * (w * major) + u * minor + patch = v
      BY <1>4, <1>5, <2>4
    <2>6. QED
      BY <2>1, <2>2, <2>3, <2>5, Zenon
  <1>12. QED
    BY <1>10, <1>11, Zenon
-----------------------------------------------------------------------------
(* What is written and read back in an answer.                             *)

LEMMA EchoIs ==
  ASSUME NEW of, NEW wrote, NEW read, Echo(of, wrote, read),
         of \in {"id", "amount", "votes", "version"} => read = wrote,
         of = "other id" => read = NoInstance("Asset")
  PROVE  TextsReadBack'
  <1>1. echo' = [of |-> of, wrote |-> wrote, read |-> read]
    BY Zenon DEF Echo
  <1>2. echo'.of = of /\ echo'.wrote = wrote /\ echo'.read = read
    BY <1>1
  <1>3. QED
    BY <1>2 DEF TextsReadBack

LEMMA FirstInstances == \A t \in DOMAIN IdTypes : IdTypes[t][3] \in Int
  BY DEF IdTypes

LEMMA IdsReadBack ==
  ASSUME NEW type \in DOMAIN IdTypes, NEW as \in DOMAIN IdTypes, NEW n \in Instances, EchoId(type, as, n)
  PROVE  TextsReadBack'
  <1>1. PICK read : read = id_from_str(as, id_to_str(type, n))
    OBVIOUS
  <1>2. n \in 0..(FourBytes \div 2) - 1
    BY ResponsesAssumption
  <1>3. read = IF as = type THEN n ELSE NoInstance(as)
    BY <1>1, <1>2, IdReadBack, Zenon
  <1>4. CASE as = type
    <2>1. IdValid(as, read) /\ read = n
      BY <1>3, <1>4, Zenon DEF EchoId
    <2>2. Echo("id", n, n)
      BY <1>1, <1>4, <2>1, Zenon DEF EchoId
    <2>3. "id" # "other id"
      OBVIOUS
    <2>4. QED
      BY <2>2, <2>3, EchoIs, Zenon
  <1>5. CASE as # type
    <2>1. read = NoInstance(as)
      BY <1>3, <1>5, Zenon
    <2>2. ~IdValid(as, read)
      <3>1. PICK m \in Int : m = IdTypes[as][3]
        BY FirstInstances
      <3>2. read = m
        BY <2>1, <3>1, Zenon DEF NoInstance
      <3>3. ~(m > m)
        OBVIOUS
      <3>4. QED
        BY <3>1, <3>2, <3>3, Zenon DEF IdValid
    <2>3. Echo("other id", n, NoInstance("Asset"))
      BY <1>1, <1>5, <2>2, Zenon DEF EchoId
    <2>4. "other id" \notin {"id", "amount", "votes", "version"}
      OBVIOUS
    <2>5. QED
      BY <2>3, <2>4, EchoIs, Zenon
  <1>6. QED
    BY <1>4, <1>5

LEMMA TextsInvariant == AnswersSpec => []TextsReadBack
  <1>1. NoEcho.of \notin {"id", "amount", "votes", "version", "other id"}
    BY DEF NoEcho
  <1>2. AnswersInit => TextsReadBack
    BY <1>1 DEF AnswersInit, ResponseInit, TextsReadBack
  <1>3. TextsReadBack /\ [AnswersNext]_<<vars, responseVars>> => TextsReadBack'
    <2> SUFFICES ASSUME TextsReadBack, [AnswersNext]_<<vars, responseVars>> PROVE TextsReadBack'
      OBVIOUS
    <2>1. CASE TakeResult
      <3>1. echo' = NoEcho
        BY <2>1 DEF TakeResult
      <3>2. QED
        BY <1>1, <3>1 DEF TextsReadBack
    <2>2. CASE \E type, as \in DOMAIN IdTypes, n \in Instances : EchoId(type, as, n)
      BY <2>2, IdsReadBack
    <2>3. CASE \E n \in Amounts : EchoAmount(n)
      <3>1. PICK n \in Amounts : EchoAmount(n)
        BY <2>3
      <3>2. n \in Nat
        BY ResponsesAssumption
      <3>3. Echo("amount", n, n)
        BY <3>1, <3>2, AmountReadBack, Zenon DEF EchoAmount
      <3>4. "amount" # "other id"
        OBVIOUS
      <3>5. QED
        BY <3>3, <3>4, EchoIs, Zenon
    <2>4. CASE \E n \in Instances, as_number \in BOOLEAN : EchoVotes(n, as_number)
      <3>1. PICK n \in Instances, as_number \in BOOLEAN : EchoVotes(n, as_number)
        BY <2>4
      <3>2. CASE as_number = TRUE
        <4>1. Echo("votes, a number", n, 1)
          BY <3>1, <3>2, Zenon DEF EchoVotes, parse_votes
        <4>2. "votes, a number" \notin {"id", "amount", "votes", "version", "other id"}
          OBVIOUS
        <4>3. QED
          BY <4>1, <4>2, EchoIs
      <3>3. CASE as_number = FALSE
        <4>1. Echo("votes", n, n)
          BY <3>1, <3>3, Zenon DEF EchoVotes, parse_votes
        <4>2. "votes" # "other id"
          OBVIOUS
        <4>3. QED
          BY <4>1, <4>2, EchoIs, Zenon
      <3>4. QED
        BY <3>2, <3>3
    <2>5. CASE \E v \in Versions : EchoVersion(v)
      <3>1. PICK v \in Versions : EchoVersion(v)
        BY <2>5
      <3>2. v \in Nat
        BY ResponsesAssumption
      <3>3. Echo("version", v, v)
        BY <3>1, <3>2, VersionReadBack, Zenon DEF EchoVersion
      <3>4. "version" # "other id"
        OBVIOUS
      <3>5. QED
        BY <3>3, <3>4, EchoIs, Zenon
    <2>6. CASE UNCHANGED echo
      BY <2>6 DEF TextsReadBack
    <2>7. ASSUME ParseNext, ~TakeResult PROVE UNCHANGED echo
      BY <2>7 DEF ParseNext, Begin, Unparsable, NullResult, ParseScalar, ParseEntry, RefuseEntry, Abort, Return,
        UpdateParser, textVars
    <2>8. ASSUME TextNext,
                 ~ \E type, as \in DOMAIN IdTypes, n \in Instances : EchoId(type, as, n),
                 ~ \E n \in Amounts : EchoAmount(n),
                 ~ \E n \in Instances, as_number \in BOOLEAN : EchoVotes(n, as_number),
                 ~ \E v \in Versions : EchoVersion(v)
          PROVE  UNCHANGED echo
      BY <2>8 DEF TextNext, GetFeeFromTransaction, MakeTransaction
    <2>9. QED
      BY <2>1, <2>2, <2>3, <2>4, <2>5, <2>6, <2>7, <2>8 DEF AnswersNext, responseVars
  <1>4. QED
    BY <1>2, <1>3, PTL DEF AnswersSpec

(* Identifiers, amounts, votes and versions read as what was written, and  *)
(* no identifier reads as one of another type, for numbers of any size,    *)
(* bytes of any width and amounts of any precision (playchain_types.cpp).  *)
THEOREM TextsAreReadBack == AnswersSpec => []TextsReadBack
  BY TextsInvariant
=============================================================================
