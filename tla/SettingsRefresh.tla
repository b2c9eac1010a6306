--------------------------- MODULE SettingsRefresh ---------------------------
(***************************************************************************)
(* The settings a builder works with come from the node: a caller asks for *)
(* the chain's parameters, parses the answer into a PlaychainSettings      *)
(* (parsePlaychainSettingFromProperties) and hands it to updateSettings.   *)
(* The parameters change meanwhile, and answers come late or in any order. *)
(* Integers are of Word values: 2^32 in the code; wide ones of Word * Word.*)
(***************************************************************************)
EXTENDS Integers, Sequences, SequencesExt, FiniteSets

CONSTANTS
  Operations,     \* operations with a fee in the settings
  Priced,         \* those that have a price per kbyte, too
  DefaultFee,     \* [Operations -> Nat]: the fees of PlaychainSettings {}
  DefaultExp, DefaultOff,  \* TRANSACTION_EXPIRATION_SEC and _OFFSET_SEC
  FullScale,      \* GRAPHENE_100_PERCENT
  Word,           \* how many values a uint32_t has
  Parameters,     \* parameters the chain may have
  OwnChoices,        \* what callers choose by themselves (all_legacy_from_wallet_api ...)
  DefaultChoice,
  MaxAnswers      \* bound: answers on their way

ASSUME SettingsRefreshAssumption ==
  /\ Priced \subseteq Operations /\ DefaultFee \in [Operations -> Nat]
  /\ DefaultExp \in Nat /\ DefaultOff \in Nat /\ DefaultOff <= DefaultExp \div 3
  /\ FullScale \in Nat \ {0} /\ Word \in Nat \ {0}
  /\ \A p \in Parameters : p.expiration \in Int /\ Len(p.fees) \in Nat /\ DOMAIN p.fees = 1..Len(p.fees)
  /\ DefaultChoice \in OwnChoices /\ MaxAnswers \in Nat

VARIABLES
  chain,     \* the node's parameters: [fees (a sequence of entries), scale, expiration]
  answers,   \* answers on their way: parameters, or a refusal
  settings,  \* the builder's settings
  source     \* history: the parameters the builder's settings come from

vars == <<chain, answers, settings, source>>

Refusal == [fees |-> <<>>, scale |-> 0, expiration |-> -1]  \* an answer without "result"

DefaultSettings ==
  [fee |-> DefaultFee, price |-> [op \in Priced |-> 0], exp |-> DefaultExp, off |-> DefaultOff,
   choice |-> DefaultChoice]
-----------------------------------------------------------------------------
(* The parser. Members of an entry are those it has: fee, or basic_fee and *)
(* premium_fee, and price_per_kbyte.                                       *)

Smaller(a, b) == IF a < b THEN a ELSE b
Larger(a, b) == IF a < b THEN b ELSE a
Uint32(n) == n % Word
IsInt(n) == -(Word \div 2) <= n /\ n < Word \div 2

Has(entry, member) == member \in DOMAIN entry.members
\* A member's value as uint32_t; the fee is 0 if there is none.
ValueOf(entry, member) == IF Has(entry, member) THEN Uint32(entry.members[member]) ELSE 0

BasicFee(entry) ==
  IF Has(entry, "fee")
    THEN ValueOf(entry, "fee")
    ELSE Larger(ValueOf(entry, "basic_fee"), ValueOf(entry, "premium_fee"))

\* A fee is widened to 64 bits as the unsigned it was read into, a price with its sign.
Price(entry) == entry.members["price_per_kbyte"]
Uint64(n) == n % (Word * Word)
Scaled(n, scale) == Uint32(Uint64(n * scale) \div FullScale)

\* What is read of an entry; each must be an int.
FeeMembers(entry) == IF Has(entry, "fee") THEN {"fee"} ELSE {"basic_fee", "premium_fee"}
MembersRead(entry) ==
  FeeMembers(entry) \cup (IF entry.op \in Priced THEN {"price_per_kbyte"} ELSE {})
WellFormed(entry) == \A m \in MembersRead(entry) : Has(entry, m) => IsInt(entry.members[m])

parse_fee(entry, s, scale) ==
  [fee |-> [s.fee EXCEPT ![entry.op] = Scaled(BasicFee(entry), scale)],
   price |-> [op \in Priced |->
     IF op = entry.op /\ Has(entry, "price_per_kbyte")
       THEN Scaled(Price(entry), scale) ELSE s.price[op]],
   exp |-> s.exp, off |-> s.off, choice |-> s.choice]

\* An operation that the settings have no fee of is passed over.
parse_blockchain_fees(p, s) ==
  FoldLeft(LAMBDA t, e : IF e.op \in Operations THEN parse_fee(e, t, Uint32(p.scale)) ELSE t, s, p.fees)

WithPeriod(s, exp, off) == [fee |-> s.fee, price |-> s.price, exp |-> exp, off |-> off, choice |-> s.choice]

OffsetOfDefault(p, s) ==  \* mutant: the offset of the default period
  WithPeriod(s, Smaller(Uint32(p.expiration), DefaultExp), Smaller(DefaultExp \div 3, DefaultOff))
parse_blockchain_options(p, s) ==
  LET exp == Smaller(Uint32(p.expiration), DefaultExp) IN
    WithPeriod(s, exp, Smaller(exp \div 3, DefaultOff))

\* Both of the two answers parse; one that does not makes a refusal of them.
Parses(p) ==
  /\ p # Refusal
  /\ IsInt(p.scale) /\ IsInt(p.expiration)
  /\ \A k \in DOMAIN p.fees : p.fees[k].op \in Operations => WellFormed(p.fees[k])

FromCurrent == settings  \* mutant: parsed over the settings in use
FreshSettings == DefaultSettings

\* parsePlaychainSettingFromProperties of an answer that parses.
Parsed(p) == parse_blockchain_options(p, parse_blockchain_fees(p, FreshSettings))
-----------------------------------------------------------------------------
Init ==
  /\ chain \in Parameters
  /\ answers = {}
  /\ settings = DefaultSettings
  /\ source = Refusal

ChangeParameters(p) == chain' = p /\ UNCHANGED <<answers, settings, source>>

Answer(a) ==
  /\ Cardinality(answers \cup {a}) <= MaxAnswers
  /\ answers' = answers \cup {a}
  /\ UNCHANGED <<chain, settings, source>>

\* The caller looks whether the answer is valid before it updates.
Refresh(a) ==
  /\ Parses(a)
  /\ settings' = Parsed(a)
  /\ source' = a
  /\ answers' = answers \ {a}
  /\ UNCHANGED chain

Discard(a) == answers' = answers \ {a} /\ UNCHANGED <<chain, settings, source>>

\* The caller updates the builder with settings it has changed itself.
Choose(c) == settings' = [settings EXCEPT !.choice = c] /\ UNCHANGED <<chain, answers, source>>

Next ==
  \/ \E p \in Parameters : ChangeParameters(p)
  \/ Answer(chain) \/ Answer(Refusal)
  \/ \E a \in answers : Refresh(a) \/ Discard(a)
  \/ \E c \in OwnChoices : Choose(c)

Spec == Init /\ [][Next]_vars
-----------------------------------------------------------------------------
(* What must hold. *)

Entries(p, op) == {k \in DOMAIN p.fees : p.fees[k].op = op}
Latest(ks) == CHOOSE k \in ks : \A l \in ks : l <= k
WithPrice(p, op) == {k \in Entries(p, op) : Has(p.fees[k], "price_per_kbyte")}

(* The builder charges what one answer of the node says, all of it and     *)
(* nothing else: the last entry of each operation, scaled, wherever it     *)
(* stands among entries of others, known or not; operations the answer     *)
(* does not name have the default fee, whatever earlier answers said.      *)
ChargesOneAnswer ==
  source # Refusal =>
    /\ \A op \in Operations : settings.fee[op] =
         IF Entries(source, op) = {}
           THEN DefaultFee[op]
           ELSE Scaled(BasicFee(source.fees[Latest(Entries(source, op))]), Uint32(source.scale))
    /\ \A op \in Priced : settings.price[op] =
         IF WithPrice(source, op) = {}
           THEN 0
           ELSE Scaled(Price(source.fees[Latest(WithPrice(source, op))]), Uint32(source.scale))

(* Settings from the node meet what the builder's constructor asserts and  *)
(* updateSettings does not check (playchain_settings.h:61), and no period  *)
(* is longer than the chain takes.                                         *)
MeetsRequirement ==
  /\ settings.off <= settings.exp \div 3
  /\ source # Refusal => settings.exp <= Uint32(source.expiration)
=============================================================================
