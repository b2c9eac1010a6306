------------------------ MODULE TransactionLifeProofs ------------------------
(***************************************************************************)
(* A transaction's reference to its block, for chains, forks and times of  *)
(* any length: if the number's lowest bits do not come round within a      *)
(* period, the reference means its block for as long as the transaction    *)
(* lives. Blocks are told apart by their prefixes, which grow along the    *)
(* chain; blocks are at least a slot apart, so that a period holds few.    *)
(*                                                                         *)
(* Whose signatures sign_digest makes and how many, for keys and noises of *)
(* any size, any curve, and any number of calls. What is encoded with a    *)
(* noise decodes to itself; nonces are drawn in one order in each call, so *)
(* that with SECP256K1_EXT each call stops at the same one, the first that *)
(* serves.                                                                 *)
(***************************************************************************)
EXTENDS TransactionLife, FiniteSetTheorems, TLAPS


\* Fewer blocks in a period than ref_block_num has values.
PeriodIsShort == Exp < Interval * (Word - 1)

Slots(n) == n * Interval

\* Prefixes grow along the chain, and blocks are slots apart.
ChainInv ==
  /\ \A k \in 1..Len(chain) : 1 <= chain[k].prefix /\ chain[k].prefix <= made
  /\ \A j, k \in 1..Len(chain) : j < k => chain[j].prefix < chain[k].prefix
  /\ \A j, k \in 1..Len(chain) : j <= k => Slots(k - j) <= chain[k].time - chain[j].time

\* What a header says of the chain, as long as its block is there: an irreversible
\* header comes with the block after the one it names.
Refers(h) ==
  /\ h.from \in {"irreversible", "head"} =>
       /\ 1 <= h.ref /\ 1 <= h.prefix /\ h.prefix <= made
       /\ \A k \in 1..Len(chain) : chain[k].prefix = h.prefix => k = h.ref
  /\ h.from = "head" => \A k \in 1..Len(chain) : chain[k].prefix = h.prefix => chain[k].time = h.time
  /\ h.from = "irreversible" =>
       h.ref < lib /\ chain[h.ref].prefix = h.prefix /\ chain[h.ref + 1].time = h.time
  /\ h.from \notin {"irreversible", "head"} => h.prefix = 0 /\ h.ref = 0

ReferenceInv == Refers(answer) /\ Refers(ctx.header) /\ Refers(tx)

\* The number that was written, and the period from the header's time.
NumbersInv ==
  /\ answer # NoHeader => answer.num = Number(answer.ref)
  /\ ctx.header.from \in {"irreversible", "head"} => ctx.header.num = Number(ctx.header.ref) % Word
  /\ tx.from \in {"irreversible", "head"} =>
       tx.num = Number(tx.ref) % Word /\ tx.expiration <= tx.time + Exp

ReferencesInv == ReferenceTypeOK /\ ChainInv /\ ReferenceInv /\ NumbersInv
-----------------------------------------------------------------------------
(* Slots are linear in their number.                                       *)

LEMMA SlotsAdd ==
  ASSUME NEW m \in Int, NEW n \in Int
  PROVE  Slots(m) \in Int /\ Slots(m + n) = Slots(m) + Slots(n)
  BY ReferenceAssumption DEF Slots

LEMMA SlotsGrow ==
  ASSUME NEW m \in Int, NEW n \in Int, m <= n
  PROVE  Slots(m) <= Slots(n)
  <1>1. PICK d \in Nat : n = m + d
    <2>1. n - m \in Nat /\ n = m + (n - m)
      OBVIOUS
    <2>2. QED
      BY <2>1
  <1>2. 0 <= d * Interval
    BY ReferenceAssumption
  <1>3. Slots(n) = Slots(m) + Slots(d) /\ Slots(m) \in Int /\ Slots(d) \in Int
    BY <1>1, SlotsAdd
  <1>4. QED
    BY <1>2, <1>3 DEF Slots

LEMMA LaterStill ==
  ASSUME NEW x \in Int, NEW y \in Int, NEW z \in Int, NEW s \in Int, NEW t \in Int, x <= s - t, y <= z
  PROVE  x + y <= (s + z) - t
  OBVIOUS

LEMMA SlotsNone == Slots(0) = 0 /\ Slots(1) = Interval
  BY ReferenceAssumption DEF Slots

\* Numbers less than a word apart differ in their lowest bits.
LEMMA NumbersDiffer ==
  ASSUME NEW j \in Nat, NEW k \in Nat, j < k, k - j < Word
  PROVE  Number(j) % Word # Number(k) % Word
  <1>1. PICK a \in Nat, b \in Nat : a = Number(j) /\ b = Number(k) /\ a < b /\ b - a < Word
    BY ReferenceAssumption DEF Number
  <1>2. PICK p \in Int, q \in Int : p = a \div Word /\ q = b \div Word
    BY <1>1, ReferenceAssumption
  <1>3. a = (Word * p) + (a % Word) /\ b = (Word * q) + (b % Word)
    BY <1>2, ReferenceAssumption
  <1>4. ASSUME a % Word = b % Word PROVE FALSE
    <2>1. a % Word \in Nat /\ b % Word \in Nat
      BY ReferenceAssumption
    <2>2. b - a = Word * (q - p)
      BY <1>3, <1>4, <2>1, ReferenceAssumption
    <2>3. CASE q - p <= 0
      BY <1>1, <2>2, <2>3, ReferenceAssumption
    <2>4. CASE q - p >= 1
      BY <1>1, <2>2, <2>4, ReferenceAssumption
    <2>5. QED
      BY <2>3, <2>4
  <1>5. QED
    BY <1>1, <1>4

LEMMA ChainTypes ==
  ASSUME ReferencesInv
  PROVE  /\ chain \in Seq(Block) /\ Len(chain) \in Nat /\ 2 <= Len(chain)
         /\ lib \in Nat /\ 2 <= lib /\ lib <= Len(chain) /\ made \in Nat
         /\ \A k \in 1..Len(chain) : chain[k] \in Block /\ chain[k].prefix \in Nat /\ chain[k].time \in Nat
  <1>1. chain \in Seq(Block) /\ lib \in 2..Len(chain) /\ made \in Nat
    BY DEF ReferencesInv, ReferenceTypeOK
  <1>2. \A k \in 1..Len(chain) : chain[k] \in Block
    BY <1>1
  <1>3. \A b \in Block : b.prefix \in Nat /\ b.time \in Nat
    BY DEF Block
  <1>4. QED
    BY <1>1, <1>2, <1>3
-----------------------------------------------------------------------------
LEMMA ReferencesInvInit == Init => ReferencesInv
  <1> SUFFICES ASSUME Init PROVE ReferencesInv
    OBVIOUS
  <1>1. chain = <<[prefix |-> 1, time |-> FirstTime], [prefix |-> 2, time |-> FirstTime + Interval]>>
    BY DEF Init
  <1>2. /\ Len(chain) = 2 /\ FirstTime \in Nat /\ FirstTime + Interval \in Nat
        /\ chain[1] = [prefix |-> 1, time |-> FirstTime]
        /\ chain[2] = [prefix |-> 2, time |-> FirstTime + Interval]
    BY <1>1, ReferenceAssumption DEF FirstTime
  <1>3. chain \in Seq(Block)
    BY <1>1, <1>2 DEF Block
  <1>4. ReferenceTypeOK
    <2>1. NoHeader \in HeaderType /\ NoHeader.num = 0
      BY DEF NoHeader, HeaderType
    <2>2. ctx = [header |-> NoHeader, next_id |-> 0] /\ answer = NoHeader
      BY DEF Init
    <2>3. ctx \in ContextType /\ ctx.header.num = 0
      BY <2>1, <2>2 DEF ContextType
    <2>4. NoTransaction \in TransactionType /\ NoTransaction.num = 0
      BY DEF NoTransaction, TransactionType
    <2>5. lib \in 2..Len(chain) /\ made \in Nat
      BY <1>2 DEF Init
    <2>6. tx = NoTransaction
      BY DEF Init
    <2>7. QED
      BY <1>3, <2>1, <2>2, <2>3, <2>4, <2>5, <2>6, ReferenceAssumption DEF ReferenceTypeOK
  <1>5. ChainInv
    BY <1>2, SlotsNone, ReferenceAssumption DEF Init, ChainInv
  <1>6. ReferenceInv /\ NumbersInv
    BY DEF Init, ReferenceInv, NumbersInv, Refers, NoHeader, NoTransaction
  <1>7. QED
    BY <1>4, <1>5, <1>6 DEF ReferencesInv
-----------------------------------------------------------------------------
(* The node's steps leave blocks up to the last irreversible one alone,    *)
(* and blocks that are new have prefixes no block had.                     *)

NodeStep ==
  /\ chain' \in Seq(Block) /\ made' \in Nat /\ made <= made'
  /\ lib' \in Nat /\ lib <= lib' /\ lib' <= Len(chain')
  /\ \A k \in 1..Len(chain') : chain'[k].prefix <= made => k <= Len(chain) /\ chain'[k] = chain[k]
  /\ \A k \in 1..lib : chain'[k] = chain[k]
  /\ UNCHANGED <<answer, ctx, tx>>

LEMMA RefersKept ==
  ASSUME ReferencesInv, NodeStep, NEW h, Refers(h), h.prefix \in Nat, h.ref \in Nat
  PROVE  Refers(h)'
  <1>1. /\ chain \in Seq(Block) /\ Len(chain) \in Nat /\ lib \in Nat /\ lib <= Len(chain) /\ made \in Nat
        /\ \A k \in 1..Len(chain) : chain[k].prefix \in Nat
    BY ChainTypes
  <1>2. Len(chain') \in Nat /\ made' \in Nat /\ lib' \in Nat
    BY DEF NodeStep
  <1>3. ASSUME h.prefix <= made, NEW k \in 1..Len(chain'), chain'[k].prefix = h.prefix
        PROVE  k \in 1..Len(chain) /\ chain[k].prefix = h.prefix /\ chain[k] = chain'[k]
    BY <1>1, <1>2, <1>3 DEF NodeStep
  <1>4. ASSUME h.from = "irreversible"
        PROVE  h.ref < lib' /\ chain'[h.ref].prefix = h.prefix /\ chain'[h.ref + 1].time = h.time
    <2>1. h.ref \in 1..lib /\ h.ref + 1 \in 1..lib /\ h.ref < lib
      BY <1>1, <1>4 DEF Refers
    <2>2. QED
      BY <1>1, <1>2, <1>4, <2>1 DEF NodeStep, Refers
  <1>5. h.from \in {"irreversible", "head"} => 1 <= h.ref /\ 1 <= h.prefix /\ h.prefix <= made'
    BY <1>1, <1>2 DEF NodeStep, Refers
  <1>6. QED
    BY <1>3, <1>4, <1>5 DEF Refers

LEMMA NodeStepKeeps ==
  ASSUME ReferencesInv, NodeStep, ChainInv'
  PROVE  ReferencesInv'
  <1>1. answer' = answer /\ ctx' = ctx /\ tx' = tx
    BY DEF NodeStep
  <1>2. ReferenceTypeOK'
    BY <1>1 DEF ReferencesInv, ReferenceTypeOK, NodeStep
  <1>3. NumbersInv'
    BY <1>1 DEF ReferencesInv, NumbersInv
  <1>4. /\ answer.prefix \in Nat /\ answer.ref \in Nat
        /\ ctx.header.prefix \in Nat /\ ctx.header.ref \in Nat
        /\ tx.prefix \in Nat /\ tx.ref \in Nat
    BY DEF ReferencesInv, ReferenceTypeOK, HeaderType, ContextType, TransactionType
  <1>5. ReferenceInv'
    <2>1. PICK h : h = answer
      OBVIOUS
    <2>2. PICK g : g = ctx.header
      OBVIOUS
    <2>3. PICK t : t = tx
      OBVIOUS
    <2>4. Refers(h) /\ Refers(g) /\ Refers(t)
      BY <2>1, <2>2, <2>3 DEF ReferencesInv, ReferenceInv
    <2>5. Refers(h)' /\ Refers(g)' /\ Refers(t)'
      BY <1>4, <2>1, <2>2, <2>3, <2>4, RefersKept
    <2>6. QED
      BY <1>1, <2>1, <2>2, <2>3, <2>5 DEF ReferenceInv
  <1>6. QED
    BY <1>2, <1>3, <1>5 DEF ReferencesInv

LEMMA ProduceKeeps ==
  ASSUME ReferencesInv, NEW skip \in Skips, Produce(skip)
  PROVE  ReferencesInv'
  <1>1. PICK c \in Seq(Block), n \in Nat, m \in Nat : c = chain /\ n = Len(chain) /\ n >= 2 /\ m = made
    BY DEF ReferencesInv, ReferenceTypeOK
  <1>2. PICK time \in Nat : time = c[n].time + Slots(skip)
    <2>1. c[n].time \in Nat
      BY <1>1, ChainTypes
    <2>2. Slots(skip) \in Nat
      BY ReferenceAssumption DEF Slots
    <2>3. QED
      BY <2>1, <2>2
  <1>3. /\ chain' = Append(c, [prefix |-> m + 1, time |-> time]) /\ made' = m + 1 /\ lib' = lib
        /\ answer' = answer /\ ctx' = ctx /\ tx' = tx
    BY <1>1, <1>2 DEF Produce, HeadBlock, Slots
  <1>4. /\ Len(chain') = n + 1 /\ chain' \in Seq(Block)
        /\ \A k \in 1..n : chain'[k] = c[k]
        /\ chain'[n + 1].prefix = m + 1 /\ chain'[n + 1].time = time
    BY <1>1, <1>3 DEF Block
  <1>5. lib \in Nat /\ 2 <= lib /\ lib <= n
    BY <1>1 DEF ReferencesInv, ReferenceTypeOK
  <1>6. \A k \in 1..n : c[k].prefix \in Nat /\ c[k].time \in Nat /\ 1 <= c[k].prefix /\ c[k].prefix <= m
    BY <1>1, ChainTypes DEF ReferencesInv, ChainInv
  <1>7. NodeStep
    <2>1. ASSUME NEW k \in 1..Len(chain'), chain'[k].prefix <= made PROVE k <= n /\ chain'[k] = c[k]
      BY <1>1, <1>4, <2>1
    <2>2. QED
      BY <1>1, <1>3, <1>4, <1>5, <2>1 DEF NodeStep
  <1>8. ChainInv'
    <2>1. ASSUME NEW k \in 1..Len(chain') PROVE 1 <= chain'[k].prefix /\ chain'[k].prefix <= made'
      BY <1>3, <1>4, <1>6
    <2>2. ASSUME NEW j \in 1..Len(chain'), NEW k \in 1..Len(chain'), j < k
          PROVE  chain'[j].prefix < chain'[k].prefix
      <3>1. j \in 1..n
        BY <1>4, <2>2
      <3>2. CASE k \in 1..n
        BY <1>1, <1>4, <2>2, <3>1, <3>2 DEF ReferencesInv, ChainInv
      <3>3. CASE k = n + 1
        BY <1>4, <1>6, <3>1, <3>3
      <3>4. QED
        BY <1>4, <3>2, <3>3
    <2>3. ASSUME NEW j \in 1..Len(chain'), NEW k \in 1..Len(chain'), j <= k
          PROVE  Slots(k - j) <= chain'[k].time - chain'[j].time
      <3>1. CASE k \in 1..n
        <4>1. j \in 1..n
          BY <2>3, <3>1
        <4>2. QED
          BY <1>1, <1>4, <2>3, <3>1, <4>1 DEF ReferencesInv, ChainInv
      <3>2. CASE k = n + 1 /\ j = n + 1
        BY <1>4, <3>2, SlotsNone
      <3>3. CASE k = n + 1 /\ j \in 1..n
        <4>1. Slots(n - j) <= c[n].time - c[j].time
          BY <1>1, <3>3 DEF ReferencesInv, ChainInv
        <4>2. skip \in Int /\ 1 <= skip
          BY ReferenceAssumption
        <4>3. Slots(1) <= Slots(skip) /\ Slots(1) \in Int /\ Slots(skip) \in Int
          BY <4>2, SlotsGrow, SlotsAdd
        <4>4. Slots(k - j) = Slots(n - j) + Slots(1) /\ Slots(n - j) \in Int
          <5>1. k - j = (n - j) + 1 /\ n - j \in Int
            BY <3>3
          <5>2. PICK d \in Int, one \in Int : d = n - j /\ one = 1
            BY <5>1
          <5>3. Slots(d + one) = Slots(d) + Slots(one) /\ Slots(d) \in Int
            BY SlotsAdd
          <5>4. QED
            BY <5>1, <5>2, <5>3
        <4>5. c[n].time \in Nat /\ c[j].time \in Nat /\ chain'[j] = c[j] /\ chain'[k].time = c[n].time + Slots(skip)
          BY <1>1, <1>2, <1>4, <1>6, <3>3
        <4>6. Slots(n - j) + Slots(1) <= (c[n].time + Slots(skip)) - c[j].time
          <5>1. PICK x, y, z, s, t :
                  /\ x = Slots(n - j) /\ y = Slots(1) /\ z = Slots(skip) /\ s = c[n].time /\ t = c[j].time
                  /\ x \in Int /\ y \in Int /\ z \in Int /\ s \in Int /\ t \in Int
            BY <4>3, <4>4, <4>5
          <5>2. x <= s - t /\ y <= z
            BY <4>1, <4>3, <5>1, Zenon
          <5>3. x + y <= (s + z) - t
            BY <5>1, <5>2, LaterStill, Zenon
          <5>4. QED
            BY <5>1, <5>3, Zenon
        <4>7. QED
          BY <4>4, <4>5, <4>6
      <3>4. QED
        BY <1>4, <2>3, <3>1, <3>2, <3>3
    <2>4. QED
      BY <2>1, <2>2, <2>3 DEF ChainInv
  <1>9. QED
    BY <1>7, <1>8, NodeStepKeeps

LEMMA SwitchKeeps ==
  ASSUME ReferencesInv, NEW skip \in Skips, NEW n \in lib..Len(chain) - 1, Switch(n, skip)
  PROVE  ReferencesInv'
  <1>1. PICK c \in Seq(Block), e \in Nat, m \in Nat : c = chain /\ e = Len(chain) /\ e >= 2 /\ m = made
    BY DEF ReferencesInv, ReferenceTypeOK
  <1>2. lib \in Nat /\ 2 <= lib /\ lib <= n /\ n \in Nat /\ n < e
    BY <1>1 DEF ReferencesInv, ReferenceTypeOK
  <1>3. skip \in Nat /\ 1 <= skip
    BY ReferenceAssumption
  <1>4. \A k \in 1..e : c[k].prefix \in Nat /\ c[k].time \in Nat /\ 1 <= c[k].prefix /\ c[k].prefix <= m
    BY <1>1, ChainTypes DEF ReferencesInv, ChainInv
  <1> DEFINE ft(k) == c[n].time + Slots(skip + k - n - 1)
  <1>5. \A k \in n + 1..e + 1 : ft(k) \in Nat
    <2> SUFFICES ASSUME NEW k \in n + 1..e + 1 PROVE ft(k) \in Nat
      OBVIOUS
    <2>1. 0 <= skip + k - n - 1 /\ skip + k - n - 1 \in Int
      BY <1>2, <1>3
    <2>2. Slots(0) <= Slots(skip + k - n - 1) /\ Slots(skip + k - n - 1) \in Int
      BY <2>1, SlotsGrow, SlotsAdd
    <2>3. c[n].time \in Nat
      BY <1>2, <1>4
    <2>4. QED
      BY <2>2, <2>3, SlotsNone
  <1>6. /\ chain' = [k \in 1..e + 1 |-> IF k <= n THEN c[k] ELSE [prefix |-> m + k - n, time |-> ft(k)]]
        /\ made' = m + (e + 1 - n) /\ lib' = lib /\ answer' = answer /\ ctx' = ctx /\ tx' = tx
    BY <1>1 DEF Switch, ForkTime, Slots
  <1> HIDE DEF ft
  <1>7. /\ \A k \in 1..n : chain'[k] = c[k]
        /\ \A k \in n + 1..e + 1 : chain'[k] = [prefix |-> m + k - n, time |-> ft(k)]
    BY <1>2, <1>6
  <1>8. chain' \in Seq(Block) /\ Len(chain') = e + 1
    <2>1. \A k \in 1..e + 1 : chain'[k] \in Block
      <3> SUFFICES ASSUME NEW k \in 1..e + 1 PROVE chain'[k] \in Block
        OBVIOUS
      <3>1. CASE k <= n
        BY <1>1, <1>2, <1>7, <3>1
      <3>2. CASE k > n
        <4>1. chain'[k] = [prefix |-> m + k - n, time |-> ft(k)] /\ ft(k) \in Nat
          BY <1>2, <1>5, <1>7, <3>2
        <4>2. m + k - n \in Nat
          BY <1>1, <1>2, <3>2
        <4>3. QED
          BY <4>1, <4>2 DEF Block
      <3>3. QED
        BY <1>2, <3>1, <3>2
    <2>2. chain' = [k \in 1..e + 1 |-> chain'[k]]
      BY <1>6
    <2>3. QED
      BY <2>1, <2>2
  <1>9. ASSUME NEW k \in n + 1..e + 1 PROVE chain'[k].prefix = m + k - n /\ chain'[k].time = ft(k)
    <2>1. chain'[k] = [prefix |-> m + k - n, time |-> ft(k)]
      BY <1>7
    <2>2. QED
      BY <2>1
  <1>10. NodeStep
    <2>1. ASSUME NEW k \in 1..Len(chain'), chain'[k].prefix <= made PROVE k <= e /\ chain'[k] = c[k]
      <3>1. k <= n
        BY <1>1, <1>2, <1>8, <1>9, <2>1
      <3>2. QED
        BY <1>2, <1>7, <1>8, <3>1
    <2>2. made' \in Nat /\ made <= made'
      BY <1>1, <1>2, <1>6
    <2>3. \A k \in 1..lib : chain'[k] = chain[k]
      BY <1>1, <1>2, <1>7
    <2>4. lib' \in Nat /\ lib <= lib' /\ lib' <= Len(chain')
      BY <1>2, <1>6, <1>8
    <2>5. QED
      BY <1>1, <1>6, <1>8, <2>1, <2>2, <2>3, <2>4 DEF NodeStep
  <1>11. ChainInv'
    <2>1. ASSUME NEW k \in 1..Len(chain') PROVE 1 <= chain'[k].prefix /\ chain'[k].prefix <= made'
      <3>1. CASE k <= n
        BY <1>2, <1>4, <1>6, <1>7, <1>8, <3>1
      <3>2. CASE k > n
        BY <1>1, <1>2, <1>6, <1>8, <1>9, <3>2
      <3>3. QED
        BY <1>2, <1>8, <3>1, <3>2
    <2>2. ASSUME NEW j \in 1..Len(chain'), NEW k \in 1..Len(chain'), j < k
          PROVE  chain'[j].prefix < chain'[k].prefix
      <3>1. CASE k <= n
        <4>1. j \in 1..e /\ k \in 1..e /\ chain'[j] = c[j] /\ chain'[k] = c[k]
          BY <1>2, <1>7, <2>2, <3>1
        <4>2. QED
          BY <1>1, <2>2, <4>1 DEF ReferencesInv, ChainInv
      <3>2. CASE j <= n /\ k > n
        BY <1>1, <1>2, <1>4, <1>7, <1>8, <1>9, <3>2
      <3>3. CASE j > n
        <4>1. chain'[j].prefix = m + j - n /\ chain'[k].prefix = m + k - n
          <5>1. j \in n + 1..e + 1 /\ k \in n + 1..e + 1
            BY <1>2, <1>8, <2>2, <3>3
          <5>2. QED
            BY <1>9, <5>1
        <4>2. QED
          BY <1>1, <1>2, <1>8, <2>2, <4>1
      <3>4. QED
        BY <1>2, <2>2, <3>1, <3>2, <3>3
    <2>3. ASSUME NEW j \in 1..Len(chain'), NEW k \in 1..Len(chain'), j <= k
          PROVE  Slots(k - j) <= chain'[k].time - chain'[j].time
      <3>1. CASE k <= n
        <4>1. j \in 1..e /\ k \in 1..e /\ chain'[j] = c[j] /\ chain'[k] = c[k]
          BY <1>2, <1>7, <2>3, <3>1
        <4>2. QED
          BY <1>1, <2>3, <4>1 DEF ReferencesInv, ChainInv
      <3>2. CASE j <= n /\ k > n
        <4>1. PICK a \in Int, b \in Int : a = n - j /\ b = skip + k - n - 1 /\ k - j <= a + b
          BY <1>2, <1>3, <1>8, <3>2
        <4>2. Slots(a) <= c[n].time - c[j].time
          <5>1. j \in 1..e /\ n \in 1..e /\ j <= n
            BY <1>2, <3>2
          <5>2. QED
            BY <1>1, <4>1, <5>1 DEF ReferencesInv, ChainInv
        <4>3. /\ Slots(k - j) <= Slots(a + b) /\ Slots(a + b) = Slots(a) + Slots(b)
              /\ Slots(k - j) \in Int /\ Slots(a) \in Int /\ Slots(b) \in Int
          <5>1. k - j \in Int /\ a + b \in Int
            BY <1>8, <4>1
          <5>2. QED
            BY <4>1, <5>1, SlotsAdd, SlotsGrow
        <4>4. chain'[k].time = c[n].time + Slots(b) /\ c[n].time \in Nat
          <5>1. chain'[k].time = ft(k) /\ n \in 1..e
            BY <1>2, <1>8, <1>9, <3>2
          <5>2. QED
            BY <1>4, <4>1, <5>1 DEF ft
        <4>5. chain'[j].time = c[j].time /\ c[j].time \in Nat
          BY <1>2, <1>4, <1>7, <1>8, <3>2
        <4>6. PICK tn \in Int : tn = c[n].time
          BY <4>4
        <4>7. PICK tj \in Int : tj = c[j].time
          BY <4>5
        <4>8. PICK x \in Int, y \in Int, z \in Int : x = Slots(a) /\ y = Slots(b) /\ z = Slots(k - j)
          BY <4>3
        <4>9. x <= tn - tj
          BY <4>2, <4>6, <4>7, <4>8
        <4>10. z <= x + y
          BY <4>3, <4>8
        <4>11. z <= (tn + y) - tj
          BY <4>9, <4>10
        <4>12. QED
          BY <4>4, <4>5, <4>6, <4>7, <4>8, <4>11
      <3>3. CASE j > n
        <4>1. PICK a \in Int, b \in Int : a = k - j /\ b = skip + j - n - 1 /\ skip + k - n - 1 = a + b
          BY <1>2, <1>3, <1>8
        <4>2. Slots(a + b) = Slots(a) + Slots(b) /\ Slots(a) \in Int /\ Slots(b) \in Int
          BY SlotsAdd
        <4>3. /\ chain'[k].time = c[n].time + Slots(a + b) /\ chain'[j].time = c[n].time + Slots(b)
              /\ c[n].time \in Nat
          <5>1. chain'[k].time = ft(k) /\ chain'[j].time = ft(j) /\ n \in 1..e
            BY <1>2, <1>8, <1>9, <2>3, <3>3
          <5>2. QED
            BY <1>4, <4>1, <5>1 DEF ft
        <4>4. PICK x \in Int, y \in Int, tn \in Int : x = Slots(a) /\ y = Slots(b) /\ tn = c[n].time
          BY <4>2, <4>3
        <4>5. x <= (tn + (x + y)) - (tn + y)
          OBVIOUS
        <4>6. QED
          BY <4>1, <4>2, <4>3, <4>4, <4>5
      <3>4. QED
        BY <1>2, <1>8, <3>1, <3>2, <3>3
    <2>4. QED
      BY <2>1, <2>2, <2>3 DEF ChainInv
  <1>12. QED
    BY <1>10, <1>11, NodeStepKeeps

LEMMA FinalizeKeeps ==
  ASSUME ReferencesInv, Finalize
  PROVE  ReferencesInv'
  <1>1. /\ chain' = chain /\ made' = made /\ lib' = lib + 1 /\ lib < Len(chain)
        /\ answer' = answer /\ ctx' = ctx /\ tx' = tx
    BY DEF Finalize
  <1>2. ChainInv'
    BY <1>1 DEF ReferencesInv, ChainInv
  <1>3. NodeStep
    BY <1>1 DEF ReferencesInv, ReferenceTypeOK, NodeStep
  <1>4. QED
    BY <1>2, <1>3, NodeStepKeeps
-----------------------------------------------------------------------------
(* The client's steps leave the chain alone.                               *)

LEMMA ClientStepKeeps ==
  ASSUME ReferencesInv, UNCHANGED chainVars,
         answer' \in HeaderType, ctx' \in ContextType, ctx'.header.num < Word,
         tx' \in TransactionType, tx'.num < Word, NumbersInv',
         Refers(answer'), Refers(ctx'.header), Refers(tx')
  PROVE  ReferencesInv'
  <1>1. chain' = chain /\ lib' = lib /\ made' = made
    BY DEF chainVars
  <1>2. ReferenceTypeOK' /\ ChainInv'
    BY <1>1 DEF ReferencesInv, ReferenceTypeOK, ChainInv
  <1>3. ReferenceInv'
    BY <1>1 DEF ReferenceInv, Refers
  <1>4. QED
    BY <1>2, <1>3 DEF ReferencesInv

LEMMA NoneRefers == /\ NoHeader \in HeaderType /\ NoHeader.num = 0 /\ Refers(NoHeader)
  BY DEF NoHeader, HeaderType, Refers

LEMMA AnswerKeeps ==
  ASSUME ReferencesInv, AnswerIrreversible \/ AnswerHead
  PROVE  ReferencesInv'
  <1>1. /\ UNCHANGED chainVars /\ ctx' = ctx /\ tx' = tx
        /\ chain \in Seq(Block) /\ lib \in 2..Len(chain) /\ Len(chain) \in Nat /\ made \in Nat
    BY DEF AnswerIrreversible, AnswerHead, ReferencesInv, ReferenceTypeOK
  <1>2. PICK from \in {"irreversible", "head"}, time \in Nat, k \in 1..Len(chain) :
          /\ answer' = Header(from, time, k)
          /\ from = "head" => k = Len(chain) /\ time = chain[k].time
          /\ from = "irreversible" => k < lib /\ time = chain[k + 1].time
    <2>1. CASE AnswerIrreversible
      <3>1. lib - 1 \in 1..Len(chain) /\ lib - 1 < lib /\ (lib - 1) + 1 = lib /\ chain[lib].time \in Nat
        BY <1>1, ChainTypes
      <3>2. QED
        BY <2>1, <3>1 DEF AnswerIrreversible, ParentOfLib
    <2>2. CASE AnswerHead
      <3>1. Len(chain) \in 1..Len(chain) /\ HeadBlock.time \in Nat
        BY <1>1, ChainTypes DEF HeadBlock
      <3>2. QED
        BY <2>2, <3>1 DEF AnswerHead, HeadBlock
    <2>3. QED
      BY <2>1, <2>2
  <1>3. /\ chain[k].prefix \in Nat /\ 1 <= chain[k].prefix /\ chain[k].prefix <= made
        /\ \A j \in 1..Len(chain) : chain[j].prefix = chain[k].prefix => j = k
    <2>1. ASSUME NEW j \in 1..Len(chain), chain[j].prefix = chain[k].prefix PROVE j = k
      <3>1. chain[j].prefix \in Nat /\ chain[k].prefix \in Nat
        BY ChainTypes
      <3>2. ~(j < k) /\ ~(k < j)
        BY <2>1, <3>1 DEF ReferencesInv, ChainInv
      <3>3. QED
        BY <1>1, <3>2
    <2>2. QED
      BY <1>1, <2>1, ChainTypes DEF ReferencesInv, ChainInv
  <1>4. /\ answer'.from = from /\ answer'.time = time /\ answer'.num = Number(k)
        /\ answer'.prefix = chain[k].prefix /\ answer'.ref = k
    BY <1>2 DEF Header
  <1>5. answer' \in HeaderType
    BY <1>1, <1>2, <1>3, ReferenceAssumption DEF Header, HeaderType, Number
  <1>6. Refers(answer')
    BY <1>1, <1>2, <1>3, <1>4 DEF Refers
  <1>7. NumbersInv'
    BY <1>1, <1>4 DEF ReferencesInv, NumbersInv
  <1>8. QED
    BY <1>1, <1>5, <1>6, <1>7, ClientStepKeeps DEF ReferencesInv, ReferenceTypeOK, ReferenceInv

LEMMA LoseAnswerKeeps ==
  ASSUME ReferencesInv, LoseAnswer
  PROVE  ReferencesInv'
  <1>1. UNCHANGED chainVars /\ ctx' = ctx /\ tx' = tx /\ answer' = NoHeader
    BY DEF LoseAnswer
  <1>2. NumbersInv'
    BY <1>1 DEF ReferencesInv, NumbersInv
  <1>3. QED
    BY <1>1, <1>2, NoneRefers, ClientStepKeeps DEF ReferencesInv, ReferenceTypeOK, ReferenceInv

LEMMA SetChainInfoKeeps ==
  ASSUME ReferencesInv, SetChainInfo
  PROVE  ReferencesInv'
  <1> DEFINE header == [answer EXCEPT !.num = RefBlockNum(answer)]
             id == IF answer.time # ctx.header.time THEN 0 ELSE ctx.next_id
  <1>1. /\ UNCHANGED chainVars /\ tx' = tx /\ answer' = NoHeader /\ answer # NoHeader
        /\ ctx' = [header |-> header, next_id |-> id]
    BY DEF SetChainInfo
  <1>2. answer \in HeaderType /\ answer.num \in Nat
    BY DEF ReferencesInv, ReferenceTypeOK, HeaderType
  <1>3. RefBlockNum(answer) \in Nat /\ RefBlockNum(answer) < Word
    BY <1>2, ReferenceAssumption DEF RefBlockNum
  <1>4. /\ header \in HeaderType /\ header.from = answer.from /\ header.time = answer.time
        /\ header.num = RefBlockNum(answer) /\ header.prefix = answer.prefix /\ header.ref = answer.ref
    BY <1>2, <1>3 DEF HeaderType
  <1>5. id \in Nat
    BY DEF ReferencesInv, ReferenceTypeOK, ContextType
  <1> HIDE DEF header, id
  <1>6. ctx' \in ContextType /\ ctx'.header = header
    BY <1>1, <1>4, <1>5 DEF ContextType
  <1>7. Refers(ctx'.header)
    BY <1>4, <1>6 DEF ReferencesInv, ReferenceInv, Refers
  <1>8. NumbersInv'
    <2>1. header.num = Number(header.ref) % Word
      BY <1>1, <1>4 DEF ReferencesInv, NumbersInv, RefBlockNum
    <2>2. QED
      BY <1>1, <1>6, <2>1 DEF ReferencesInv, NumbersInv
  <1>9. QED
    BY <1>1, <1>3, <1>4, <1>6, <1>7, <1>8, NoneRefers, ClientStepKeeps DEF ReferencesInv, ReferenceTypeOK, ReferenceInv

LEMMA BuildOtherKeeps ==
  ASSUME ReferencesInv, BuildOther
  PROVE  ReferencesInv'
  <1>1. UNCHANGED chainVars /\ answer' = answer /\ tx' = tx /\ ctx' = [ctx EXCEPT !.next_id = @ + 1]
    BY DEF BuildOther
  <1>2. ctx' \in ContextType /\ ctx'.header = ctx.header
    BY <1>1 DEF ReferencesInv, ReferenceTypeOK, ContextType
  <1>3. NumbersInv'
    BY <1>1, <1>2 DEF ReferencesInv, NumbersInv
  <1>4. QED
    BY <1>1, <1>2, <1>3, ClientStepKeeps DEF ReferencesInv, ReferenceTypeOK, ReferenceInv

LEMMA BuildKeeps ==
  ASSUME ReferencesInv, Build
  PROVE  ReferencesInv'
  <1>1. PICK h \in HeaderType, n \in Nat : h = ctx.header /\ n = ctx.next_id + 1
    BY DEF ReferencesInv, ReferenceTypeOK, ContextType
  <1>2. /\ UNCHANGED chainVars /\ answer' = NoHeader /\ ctx' = [ctx EXCEPT !.next_id = @ + 1]
        /\ tx' = [from |-> h.from, expiration |-> Expiration(h.time, n), time |-> h.time, num |-> h.num,
                  prefix |-> h.prefix, ref |-> h.ref]
    BY <1>1 DEF Build
  <1>3. ctx' \in ContextType /\ ctx'.header = h
    BY <1>1, <1>2 DEF ReferencesInv, ReferenceTypeOK, ContextType
  <1>4. Expiration(h.time, n) \in Int /\ Expiration(h.time, n) <= h.time + Exp
    <2>1. n % Off \in Nat /\ h.time \in Nat /\ Exp \in Nat
      BY <1>1, ReferenceAssumption DEF HeaderType
    <2>2. QED
      BY <2>1 DEF Expiration
  <1>5. tx' \in TransactionType
    BY <1>1, <1>2, <1>4 DEF TransactionType, HeaderType
  <1>6. h.num < Word
    BY <1>1 DEF ReferencesInv, ReferenceTypeOK
  <1>7. Refers(ctx'.header) /\ Refers(tx')
    BY <1>1, <1>2, <1>3 DEF ReferencesInv, ReferenceInv, Refers
  <1>8. NumbersInv'
    BY <1>1, <1>2, <1>3, <1>4 DEF ReferencesInv, NumbersInv
  <1>9. QED
    BY <1>2, <1>3, <1>5, <1>6, <1>7, <1>8, NoneRefers, ClientStepKeeps

LEMMA ReferencesInvStep == ReferencesInv /\ [Next]_vars => ReferencesInv'
  <1> SUFFICES ASSUME ReferencesInv, [Next]_vars PROVE ReferencesInv'
    OBVIOUS
  <1>1. CASE UNCHANGED vars
    <2>1. chain' = chain /\ lib' = lib /\ made' = made /\ answer' = answer /\ ctx' = ctx /\ tx' = tx
      BY <1>1 DEF vars
    <2>2. QED
      BY <2>1 DEF ReferencesInv, ReferenceTypeOK, ChainInv, ReferenceInv, Refers, NumbersInv
  <1>2. QED
    BY <1>1, ProduceKeeps, SwitchKeeps, FinalizeKeeps, AnswerKeeps, LoseAnswerKeeps, SetChainInfoKeeps,
       BuildOtherKeeps, BuildKeeps DEF Next, NodeNext, ClientNext
-----------------------------------------------------------------------------
(* While a transaction lives its number is not reused: so few blocks come  *)
(* after the one it refers to.                                             *)
LEMMA NumberNotReused ==
  ASSUME PeriodIsShort, ReferencesInv, tx.from \in {"irreversible", "head"}, ~Expired(tx), IsIn(tx)
  PROVE  Finds(tx)
  <1>1. PICK e \in Nat, r \in Nat, time \in Nat, head \in Nat :
          /\ e = Len(chain) /\ r = tx.ref /\ time = tx.time /\ head = HeadBlock.time
          /\ r \in 1..e
    <2>1. tx.ref \in Nat /\ tx.time \in Nat
      BY DEF ReferencesInv, ReferenceTypeOK, TransactionType
    <2>2. tx.ref \in 1..Len(chain)
      BY DEF IsIn
    <2>3. HeadBlock.time \in Nat
      BY ChainTypes DEF HeadBlock
    <2>4. QED
      BY <2>1, <2>2, <2>3, ChainTypes
  <1>2. head <= time + Exp
    <2>1. tx.expiration \in Int /\ head <= tx.expiration
      <3>1. tx.expiration \in Int
        BY DEF ReferencesInv, ReferenceTypeOK, TransactionType
      <3>2. QED
        BY <1>1, <3>1 DEF Expired
    <2>2. tx.expiration <= time + Exp
      BY <1>1 DEF ReferencesInv, NumbersInv
    <2>3. QED
      BY <2>1, <2>2, ReferenceAssumption
  <1>3. Slots(e - r - 1) <= head - time
    <2>1. CASE tx.from = "irreversible"
      <3>1. r + 1 \in 1..e /\ chain[r + 1].time = time
        BY <1>1, <2>1 DEF ReferencesInv, ReferenceTypeOK, ReferenceInv, Refers
      <3>2. e - (r + 1) = e - r - 1 /\ e \in 1..e /\ r + 1 <= e
        BY <3>1
      <3>3. Slots(e - (r + 1)) <= chain[e].time - chain[r + 1].time
        BY <1>1, <3>1, <3>2 DEF ReferencesInv, ChainInv
      <3>4. QED
        BY <1>1, <3>1, <3>2, <3>3 DEF HeadBlock
    <2>2. CASE tx.from = "head"
      <3>1. chain[r].time = time /\ e \in 1..e /\ r <= e
        BY <1>1, <2>2 DEF ReferencesInv, ReferenceInv, Refers, IsIn
      <3>2. Slots(e - r) <= head - time
        BY <1>1, <3>1 DEF ReferencesInv, ChainInv, HeadBlock
      <3>3. Slots(e - r - 1) <= Slots(e - r) /\ Slots(e - r) \in Int /\ Slots(e - r - 1) \in Int
        BY SlotsGrow, SlotsAdd
      <3>4. QED
        BY <3>2, <3>3
    <2>3. QED
      BY <2>1, <2>2
  <1>4. e - r < Word
    <2>1. SUFFICES ASSUME ~(e - r < Word) PROVE FALSE
      OBVIOUS
    <2>2. Word - 1 <= e - r - 1 /\ Word - 1 \in Int /\ e - r - 1 \in Int
      BY <2>1, ReferenceAssumption
    <2>3. Slots(Word - 1) <= Slots(e - r - 1) /\ Slots(Word - 1) \in Int /\ Slots(e - r - 1) \in Int
      BY <2>2, SlotsGrow, SlotsAdd
    <2>4. Exp < Slots(Word - 1)
      BY ReferenceAssumption DEF PeriodIsShort, Slots
    <2>5. QED
      BY <1>2, <1>3, <2>3, <2>4, ReferenceAssumption
  <1>5. \A l \in r + 1..e : Number(l) % Word # Number(r) % Word
    BY <1>4, NumbersDiffer, ReferenceAssumption
  <1>6. tx.num = Number(r) % Word /\ chain[r].prefix = tx.prefix
    BY <1>1 DEF ReferencesInv, NumbersInv, IsIn
  <1>7. QED
    BY <1>1, <1>5, <1>6 DEF Finds

(* Types, with the number that fits its field, for chains of any length.   *)
THEOREM ReferenceTypes == Spec => []ReferenceTypeOK
  <1>1. ReferencesInv => ReferenceTypeOK
    BY DEF ReferencesInv
  <1>2. QED
    BY <1>1, ReferencesInvInit, ReferencesInvStep, PTL DEF Spec

LEMMA ValidWhileItLives ==
  ASSUME PeriodIsShort, ReferencesInv
  PROVE  ValidUntilItExpires
  <1> SUFFICES ASSUME tx.from = "irreversible", ~Expired(tx) PROVE Accepts(tx)
    BY DEF ValidUntilItExpires
  <1>1. IsIn(tx)
    <2>1. tx.ref \in Nat
      BY DEF ReferencesInv, ReferenceTypeOK, TransactionType
    <2>2. 1 <= tx.ref /\ tx.ref < lib /\ chain[tx.ref].prefix = tx.prefix
      BY DEF ReferencesInv, ReferenceInv, Refers
    <2>3. QED
      BY <2>1, <2>2, ChainTypes DEF IsIn
  <1>2. Finds(tx)
    BY <1>1, NumberNotReused
  <1>3. ~TooFarAhead(tx)
    <2>1. PICK e \in Nat, r \in Nat, time \in Nat, head \in Nat :
            e = Len(chain) /\ r = tx.ref /\ time = tx.time /\ head = HeadBlock.time /\ e >= 2
      <3>1. tx.ref \in Nat /\ tx.time \in Nat
        BY DEF ReferencesInv, ReferenceTypeOK, TransactionType
      <3>2. HeadBlock.time \in Nat
        BY ChainTypes DEF HeadBlock
      <3>3. QED
        BY <3>1, <3>2, ChainTypes
    <2>2. r + 1 \in 1..e /\ chain[r + 1].time = time
      BY <2>1 DEF ReferencesInv, ReferenceTypeOK, ReferenceInv, Refers
    <2>3. Slots(e - (r + 1)) <= head - time
      <3>1. e \in 1..e /\ r + 1 <= e
        BY <2>1, <2>2
      <3>2. Slots(e - (r + 1)) <= chain[e].time - chain[r + 1].time
        BY <2>1, <2>2, <3>1 DEF ReferencesInv, ChainInv
      <3>3. QED
        BY <2>1, <2>2, <3>2 DEF HeadBlock
    <2>4. 0 <= Slots(e - (r + 1)) /\ Slots(e - (r + 1)) \in Int
      <3>1. PICK d \in Nat : d = e - (r + 1)
        BY <2>1, <2>2
      <3>2. Slots(0) <= Slots(d) /\ Slots(d) \in Int
        BY SlotsGrow, SlotsAdd
      <3>3. QED
        BY <3>1, <3>2, SlotsNone
    <2>5. tx.expiration \in Int /\ tx.expiration <= time + Exp
      BY <2>1 DEF ReferencesInv, ReferenceTypeOK, TransactionType, NumbersInv
    <2>6. tx.expiration <= head + Exp
      BY <2>3, <2>4, <2>5, ReferenceAssumption
    <2>7. QED
      BY <2>1, <2>5, <2>6, ReferenceAssumption DEF TooFarAhead
  <1>4. QED
    BY <1>2, <1>3 DEF Accepts

(* A transaction built on the last irreversible header is valid until it   *)
(* expires, whatever forks the node takes, if no more blocks fit into a    *)
(* period than ref_block_num has values.                                   *)
THEOREM IrreversibleIsValid ==
  ASSUME PeriodIsShort
  PROVE  Spec => []ValidUntilItExpires
  <1>1. ReferencesInv => ValidUntilItExpires
    BY ValidWhileItLives
  <1>2. QED
    BY <1>1, ReferencesInvInit, ReferencesInvStep, PTL DEF Spec

(* A transaction that lives is found by its reference if and only if the   *)
(* block it was built on is still in the chain.                            *)
THEOREM ReferencesMeanTheirBlocks ==
  ASSUME PeriodIsShort
  PROVE  Spec => []ReferenceMeansItsBlock
  <1>1. ASSUME ReferencesInv PROVE ReferenceMeansItsBlock
    <2>1. \A k \in 1..Len(chain) : chain[k].prefix # 0
      BY <1>1 DEF ReferencesInv, ChainInv
    <2>2. CASE tx.from \notin {"irreversible", "head"}
      <3>1. tx.prefix = 0 /\ tx.ref = 0
        BY <1>1, <2>2 DEF ReferencesInv, ReferenceInv, Refers
      <3>2. ~Finds(tx) /\ ~IsIn(tx)
        BY <2>1, <3>1 DEF Finds, IsIn
      <3>3. QED
        BY <3>2 DEF ReferenceMeansItsBlock, Accepts
    <2>3. CASE tx.from \in {"irreversible", "head"}
      <3>1. Finds(tx) => IsIn(tx)
        BY <1>1, <2>3 DEF ReferencesInv, ReferenceInv, Refers, Finds, IsIn
      <3>2. ~Expired(tx) /\ IsIn(tx) => Finds(tx)
        BY <1>1, <2>3, NumberNotReused
      <3>3. QED
        BY <2>3, <3>1, <3>2 DEF ReferenceMeansItsBlock
    <2>4. QED
      BY <2>2, <2>3
  <1>2. QED
    BY <1>1, ReferencesInvInit, ReferencesInvStep, PTL DEF Spec
-----------------------------------------------------------------------------
(* Signing.                                                                *)


Serves(n) == curve[<<n, 0>>].fate = "canonical"
FirstToServe(n) == Serves(n) /\ \A m \in 1..n - 1 : ~Serves(m)
TextWith(n) == [header |-> 31 + curve[<<n, 0>>].recid, nonce |-> <<n, 0>>, key |-> key]

SigningTypes ==
  /\ extended \in BOOLEAN /\ curve \in Curves /\ key \in Keys
  /\ pc \in {"idle", "ready", "nonce", "check", "thrown"}
  /\ counter \in Nat

\* A user decodes its key, and draws no more nonces than it takes.
CallInv ==
  /\ pc # "idle" => decode(crypted) = key
  /\ pc = "nonce" => counter < MaxTries
  /\ pc = "check" => counter \in 1..MaxTries /\ \E r \in Rests : nonce = <<counter, r>>

MadeInv == \A s \in signatures : s.key = key /\ curve[s.nonce].fate = "canonical"

\* Nonces before the one at hand did not serve.
OrderInv ==
  extended =>
    /\ pc = "nonce" => \A n \in 1..counter : ~Serves(n)
    /\ pc = "check" => nonce = <<counter, 0>> /\ \A n \in 1..counter - 1 : ~Serves(n)
    /\ \A s \in signatures : \E n \in Nat \ {0} : FirstToServe(n) /\ s = TextWith(n)

SigningInv == SigningTypes /\ CallInv /\ MadeInv /\ OrderInv
-----------------------------------------------------------------------------
(* private_key_sec gives back the key it was given.                        *)

LEMMA DecodesItself ==
  ASSUME NEW k \in Keys, NEW noise \in Noises
  PROVE  decode(encode(k, noise)) = k
  <1>1. /\ k \in [Indices(KeySize) -> BOOLEAN] /\ noise \in [Indices(NoiseSize) -> BOOLEAN]
        /\ KeySize \in Nat /\ NoiseSize \in Nat \ {0}
    BY SigningAssumption
  <1>2. ASSUME NEW i \in Indices(KeySize)
        PROVE  Xor(encode(k, noise)[i + NoiseSize], encode(k, noise)[DecodeOffset(i)]) = k[i]
    <2>1. i \in Nat /\ i < KeySize
      BY <1>1 DEF Indices
    <2>2. PICK j \in Nat, c \in Nat : j = i + NoiseSize /\ c = (i % NoiseSize) /\ c < NoiseSize
      <3>1. (i % NoiseSize) \in Nat /\ (i % NoiseSize) < NoiseSize /\ i + NoiseSize \in Nat
        BY <1>1, <2>1
      <3>2. QED
        BY <3>1, Zenon
    <2>3. j \in Indices(NoiseSize + KeySize) /\ c \in Indices(NoiseSize + KeySize) /\ ~(j < NoiseSize) /\ j - NoiseSize = i
      BY <1>1, <2>1, <2>2 DEF Indices
    <2>4. encode(k, noise)[c] = noise[c]
      BY <2>2, <2>3 DEF encode
    <2>5. encode(k, noise)[j] = Xor(k[i], noise[c])
      BY <2>2, <2>3 DEF encode, Cyclic
    <2>6. k[i] \in BOOLEAN /\ noise[c] \in BOOLEAN
      BY <1>1, <2>2 DEF Indices
    <2>7. PICK x \in BOOLEAN, y \in BOOLEAN : x = k[i] /\ y = noise[c]
      BY <2>6
    <2>8. ((x # y) # y) = x
      BY Zenon
    <2>9. QED
      BY <2>2, <2>4, <2>5, <2>7, <2>8, Zenon DEF Xor, DecodeOffset, Cyclic
  <1>3. decode(encode(k, noise)) = [i \in Indices(KeySize) |-> k[i]]
    BY <1>2 DEF decode
  <1>4. QED
    BY <1>1, <1>3

LEMMA TriesPositive == MaxTries \in Nat /\ 1 <= MaxTries
  <1>1. MaxTries \in Nat \ {0}
    BY SigningAssumption, Zenon
  <1>2. QED
    BY <1>1

LEMMA LastServes ==
  ASSUME SigningInv, NEW r \in Rests
  PROVE  curve[<<MaxTries, r>>].fate = "canonical"
  BY SigningAssumption DEF SigningInv, SigningTypes

LEMMA SigningInvInit == SigningInit => SigningInv
  <1> SUFFICES ASSUME SigningInit PROVE SigningInv
    OBVIOUS
  <1>1. SigningTypes /\ CallInv /\ MadeInv /\ OrderInv
    BY DEF SigningInit, SigningTypes, CallInv, MadeInv, OrderInv
  <1>2. QED
    BY <1>1 DEF SigningInv
-----------------------------------------------------------------------------
LEMMA MakeUserKeeps ==
  ASSUME SigningInv, NEW noise \in Noises, MakeUser(noise)
  PROVE  SigningInv'
  <1>1. /\ extended' = extended /\ curve' = curve /\ key' = key /\ counter' = counter
        /\ signatures' = signatures /\ pc' = "ready" /\ crypted' = encode(key, noise)
    BY DEF MakeUser
  <1>2. SigningTypes' /\ MadeInv'
    BY <1>1 DEF SigningInv, SigningTypes, MadeInv
  <1>3. CallInv'
    <2>1. decode(encode(key, noise)) = key
      BY DecodesItself DEF SigningInv, SigningTypes
    <2>2. QED
      BY <1>1, <2>1 DEF CallInv, decode
  <1>4. OrderInv'
    <2>1. \A n : FirstToServe(n)' = FirstToServe(n) /\ TextWith(n)' = TextWith(n) /\ Serves(n)' = Serves(n)
      BY <1>1 DEF FirstToServe, Serves, TextWith
    <2>2. QED
      BY <1>1, <2>1 DEF SigningInv, OrderInv
  <1>5. QED
    BY <1>2, <1>3, <1>4 DEF SigningInv

LEMMA SignDigestKeeps ==
  ASSUME SigningInv, SignDigest
  PROVE  SigningInv'
  <1>1. /\ extended' = extended /\ curve' = curve /\ key' = key /\ counter' = 0
        /\ signatures' = signatures /\ pc = "ready" /\ pc' = "nonce" /\ crypted' = crypted
    BY DEF SignDigest, Cleared
  <1>2. SigningTypes' /\ MadeInv'
    BY <1>1 DEF SigningInv, SigningTypes, MadeInv
  <1>3. CallInv'
    BY <1>1, TriesPositive DEF SigningInv, CallInv, decode
  <1>4. OrderInv'
    <2>1. \A n : FirstToServe(n)' = FirstToServe(n) /\ TextWith(n)' = TextWith(n) /\ Serves(n)' = Serves(n)
      BY <1>1 DEF FirstToServe, Serves, TextWith
    <2>2. QED
      BY <1>1, <2>1 DEF SigningInv, OrderInv
  <1>5. QED
    BY <1>2, <1>3, <1>4 DEF SigningInv

LEMMA DrawNonceKeeps ==
  ASSUME SigningInv, NEW rest \in Rests, DrawNonce(rest)
  PROVE  SigningInv'
  <1>1. PICK c \in Nat : c = counter /\ c < MaxTries
    BY DEF SigningInv, SigningTypes, CallInv, DrawNonce
  <1>2. /\ extended' = extended /\ curve' = curve /\ key' = key /\ crypted' = crypted
        /\ signatures' = signatures /\ pc = "nonce" /\ counter' = c + 1 /\ nonce' = <<c + 1, rest>>
        /\ extended => rest = 0
        /\ pc' = IF curve[<<c + 1, rest>>].fate = "unusable" THEN "nonce" ELSE "check"
    BY <1>1 DEF DrawNonce, Advanced
  <1>3. SigningTypes' /\ MadeInv'
    BY <1>1, <1>2 DEF SigningInv, SigningTypes, MadeInv
  <1>4. CallInv'
    <2>1. pc' = "nonce" => c + 1 # MaxTries
      BY <1>2, LastServes
    <2>2. c + 1 \in 1..MaxTries
      BY <1>1, TriesPositive
    <2>3. pc' = "nonce" => c + 1 < MaxTries
      BY <1>1, <2>1, <2>2, TriesPositive
    <2>4. QED
      BY <1>1, <1>2, <2>2, <2>3 DEF SigningInv, CallInv, decode
  <1>5. OrderInv'
    <2>1. ASSUME extended PROVE \A n \in 1..c : ~Serves(n)
      BY <1>1, <1>2, <2>1 DEF SigningInv, OrderInv
    <2>2. ASSUME extended, pc' = "nonce" PROVE \A n \in 1..c + 1 : ~Serves(n)
      <3>1. ~Serves(c + 1)
        BY <1>2, <2>2 DEF Serves
      <3>2. QED
        BY <1>1, <2>1, <2>2, <3>1
    <2>3. (c + 1) - 1 = c
      BY <1>1
    <2>4. \A s \in signatures : extended => \E n \in Nat \ {0} : FirstToServe(n) /\ s = TextWith(n)
      BY DEF SigningInv, OrderInv
    <2>5. \A n : Serves(n)' = Serves(n)
      BY <1>2 DEF Serves
    <2>6. \A n : FirstToServe(n)' = FirstToServe(n) /\ TextWith(n)' = TextWith(n)
      BY <1>2 DEF FirstToServe, Serves, TextWith
    <2>7. QED
      BY <1>2, <2>1, <2>2, <2>3, <2>4, <2>5, <2>6 DEF OrderInv
  <1>6. QED
    BY <1>3, <1>4, <1>5 DEF SigningInv

LEMMA RepeatKeeps ==
  ASSUME SigningInv, RepeatUntilCanonical
  PROVE  SigningInv'
  <1>1. PICK c \in 1..MaxTries, r \in Rests : c = counter /\ nonce = <<c, r>>
    BY DEF SigningInv, CallInv, RepeatUntilCanonical
  <1>2. /\ extended' = extended /\ curve' = curve /\ key' = key /\ crypted' = crypted
        /\ signatures' = signatures /\ pc = "check" /\ counter' = c /\ nonce' = nonce
        /\ pc' = "nonce" /\ curve[<<c, r>>].fate # "canonical"
    BY <1>1 DEF RepeatUntilCanonical, Canonical
  <1>3. SigningTypes' /\ MadeInv'
    BY <1>1, <1>2 DEF SigningInv, SigningTypes, MadeInv
  <1>4. c < MaxTries
    BY <1>1, <1>2, LastServes, TriesPositive
  <1>5. CallInv'
    BY <1>2, <1>4 DEF SigningInv, CallInv, decode
  <1>6. OrderInv'
    <2>1. ASSUME extended PROVE \A n \in 1..c : ~Serves(n)
      <3>1. \A n \in 1..c - 1 : ~Serves(n)
        BY <1>1, <1>2, <2>1 DEF SigningInv, OrderInv
      <3>2. ~Serves(c)
        <4>1. nonce = <<c, 0>>
          BY <1>1, <1>2, <2>1 DEF SigningInv, OrderInv
        <4>2. QED
          BY <1>1, <1>2, <4>1 DEF Serves
      <3>3. QED
        BY <1>1, <3>1, <3>2, TriesPositive
    <2>2. \A n : Serves(n)' = Serves(n)
      BY <1>2 DEF Serves
    <2>3. \A n : FirstToServe(n)' = FirstToServe(n) /\ TextWith(n)' = TextWith(n)
      BY <1>2 DEF FirstToServe, Serves, TextWith
    <2>4. \A s \in signatures : extended => \E n \in Nat \ {0} : FirstToServe(n) /\ s = TextWith(n)
      BY DEF SigningInv, OrderInv
    <2>5. QED
      BY <1>2, <2>1, <2>2, <2>3, <2>4 DEF OrderInv
  <1>7. QED
    BY <1>3, <1>5, <1>6 DEF SigningInv

LEMMA ReturnKeeps ==
  ASSUME SigningInv, Return
  PROVE  SigningInv'
  <1>1. PICK c \in 1..MaxTries, r \in Rests : c = counter /\ nonce = <<c, r>>
    BY DEF SigningInv, CallInv, Return
  <1>2. /\ extended' = extended /\ curve' = curve /\ key' = key /\ crypted' = crypted
        /\ counter' = counter /\ signatures' = signatures \cup {Signature}
        /\ pc = "check" /\ pc' = "ready" /\ curve[nonce].fate = "canonical"
    BY DEF Return, Canonical
  <1>3. SigningTypes'
    BY <1>2 DEF SigningInv, SigningTypes
  <1>4. CallInv'
    BY <1>2 DEF SigningInv, CallInv, decode
  <1>5. decode(crypted) = key
    BY <1>2 DEF SigningInv, CallInv
  <1>6. MadeInv'
    BY <1>2, <1>5 DEF SigningInv, MadeInv, Signature
  <1>7. OrderInv'
    <2>1. ASSUME extended PROVE c \in Nat \ {0} /\ FirstToServe(c) /\ Signature = TextWith(c)
      <3>1. nonce = <<c, 0>> /\ \A n \in 1..c - 1 : ~Serves(n)
        BY <1>1, <1>2, <2>1 DEF SigningInv, OrderInv
      <3>2. FirstToServe(c)
        BY <1>2, <3>1 DEF FirstToServe, Serves
      <3>3. Signature = TextWith(c)
        <4>1. Recid = curve[<<c, 0>>].recid
          BY <2>1, <3>1 DEF Recid
        <4>2. QED
          BY <1>5, <3>1, <4>1 DEF Signature, TextWith
      <3>4. QED
        BY <1>1, <3>2, <3>3
    <2>2. \A n : FirstToServe(n)' = FirstToServe(n) /\ TextWith(n)' = TextWith(n)
      BY <1>2 DEF FirstToServe, Serves, TextWith
    <2>3. \A s \in signatures : extended => \E n \in Nat \ {0} : FirstToServe(n) /\ s = TextWith(n)
      BY DEF SigningInv, OrderInv
    <2>4. QED
      BY <1>2, <2>1, <2>2, <2>3 DEF OrderInv
  <1>8. QED
    BY <1>3, <1>4, <1>6, <1>7 DEF SigningInv

LEMMA ThrowKeeps ==
  ASSUME SigningInv, Throw \/ UNCHANGED signingVars
  PROVE  SigningInv'
  <1>1. /\ extended' = extended /\ curve' = curve /\ key' = key /\ crypted' = crypted
        /\ signatures' = signatures /\ counter' = counter /\ nonce' = nonce
        /\ \/ pc' = pc
           \/ pc = "nonce" /\ pc' = "thrown"
    BY DEF Throw, signingVars
  <1>2. SigningTypes' /\ MadeInv'
    BY <1>1 DEF SigningInv, SigningTypes, MadeInv
  <1>3. CallInv'
    BY <1>1 DEF SigningInv, CallInv, decode
  <1>4. OrderInv'
    <2>1. \A n : FirstToServe(n)' = FirstToServe(n) /\ TextWith(n)' = TextWith(n) /\ Serves(n)' = Serves(n)
      BY <1>1 DEF FirstToServe, Serves, TextWith
    <2>2. QED
      BY <1>1, <2>1 DEF SigningInv, OrderInv
  <1>5. QED
    BY <1>2, <1>3, <1>4 DEF SigningInv

LEMMA SigningInvStep == SigningInv /\ [SigningNext]_signingVars => SigningInv'
  <1> SUFFICES ASSUME SigningInv, [SigningNext]_signingVars PROVE SigningInv'
    OBVIOUS
  <1>1. ASSUME NEW noise \in Noises, MakeUser(noise) PROVE SigningInv'
    BY <1>1, MakeUserKeeps
  <1>2. ASSUME NEW rest \in Rests, DrawNonce(rest) PROVE SigningInv'
    BY <1>2, DrawNonceKeeps
  <1>3. QED
    BY <1>1, <1>2, SignDigestKeeps, RepeatKeeps, ReturnKeeps, ThrowKeeps DEF SigningNext, SignStep
-----------------------------------------------------------------------------
LEMMA SignedByTheUser == SigningInv => SignedByItsUser
  <1> SUFFICES ASSUME SigningInv, NEW s \in signatures
               PROVE  /\ s.key = key /\ curve[s.nonce].fate = "canonical"
                      /\ extended => s.header = 31 + curve[s.nonce].recid
    BY DEF SignedByItsUser
  <1>1. s.key = key /\ curve[s.nonce].fate = "canonical"
    BY DEF SigningInv, MadeInv
  <1>2. ASSUME extended PROVE s.header = 31 + curve[s.nonce].recid
    <2>1. PICK n \in Nat \ {0} : s = TextWith(n)
      BY <1>2 DEF SigningInv, OrderInv
    <2>2. QED
      BY <2>1 DEF TextWith
  <1>3. QED
    BY <1>1, <1>2

(* Each signature is made with its user's key, and with SECP256K1_EXT its  *)
(* header is the one that recovers it (sign_digest, private_key_sec).      *)
THEOREM SignaturesAreTheUsers == SigningSpec => []SignedByItsUser
  <1>1. SigningInv => SignedByItsUser
    BY SignedByTheUser
  <1>2. QED
    BY <1>1, SigningInvInit, SigningInvStep, PTL DEF SigningSpec

(* With SECP256K1_EXT a digest is signed with one text, however often.     *)
THEOREM DigestsHaveOneText == SigningSpec => []OneTextPerDigest
  <1>1. SigningInv => OneTextPerDigest
    <2> SUFFICES ASSUME SigningInv, extended PROVE Cardinality(signatures) <= 1
      BY DEF OneTextPerDigest
    <2>1. ASSUME NEW s \in signatures, NEW t \in signatures PROVE s = t
      <3>1. PICK n \in Nat \ {0} : FirstToServe(n) /\ s = TextWith(n)
        BY DEF SigningInv, OrderInv
      <3>2. PICK m \in Nat \ {0} : FirstToServe(m) /\ t = TextWith(m)
        BY DEF SigningInv, OrderInv
      <3>3. ~(n < m) /\ ~(m < n)
        BY <3>1, <3>2 DEF FirstToServe
      <3>4. n = m
        BY <3>3
      <3>5. QED
        BY <3>1, <3>2, <3>4
    <2>2. CASE signatures = {}
      BY <2>2, FS_EmptySet
    <2>3. CASE signatures # {}
      <3>1. PICK s \in signatures : TRUE
        BY <2>3
      <3>2. signatures = {s}
        BY <2>1, <3>1
      <3>3. QED
        BY <3>2, FS_Singleton
    <2>4. QED
      BY <2>2, <2>3
  <1>2. QED
    BY <1>1, SigningInvInit, SigningInvStep, PTL DEF SigningSpec
=============================================================================
