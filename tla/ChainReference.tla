--------------------------- MODULE ChainReference ---------------------------
(***************************************************************************)
(* What becomes of a transaction's reference to a block. A caller asks the *)
(* node for a header, parses the answer (parseGetLastIrreversibleBlock-    *)
(* HeaderResponse, parseLegacyGetLastBlockHeaderResponse), installs it     *)
(* with setChainInfo and builds; the node goes on meanwhile, switches to   *)
(* longer forks, and looks each transaction's block up by the number's     *)
(* lowest bits. Times are seconds, and a block takes Interval of them.     *)
(* The chain and the node's checks are external: they are what the library *)
(* relies on. One transaction is followed.                                 *)
(***************************************************************************)
EXTENDS Integers, Sequences

CONSTANTS
  FirstBlock,  \* number of the block before the first one considered
  Word,        \* values of ref_block_num: 2^16
  Interval,    \* seconds between blocks
  Exp, Off,    \* transaction_expiration_sec and _offset_sec
  Skips,       \* numbers of slots from a block to the next one
  MaxMade,     \* bound: blocks produced, on all forks
  MaxTime,     \* bound: the time of a block
  MaxDraws     \* bound: transactions built on one header

ASSUME ReferenceAssumption ==
  /\ FirstBlock \in Nat /\ Word \in Nat \ {0} /\ Interval \in Nat \ {0}
  /\ Exp \in Nat /\ Off \in 1..Exp
  /\ Skips \subseteq Nat \ {0}
  /\ MaxMade \in Nat /\ MaxTime \in Nat /\ MaxDraws \in Nat

VARIABLES
  chain,   \* the node's blocks, [prefix, time], the k-th of number FirstBlock + k
  lib,     \* index of its last irreversible block
  made,    \* blocks made on all forks; a block's prefix is the number it was made as
  answer,  \* a header on its way to the caller
  ctx,     \* the builder's context
  tx       \* the transaction followed

chainVars == <<chain, lib, made>>
vars == <<chain, lib, made, answer, ctx, tx>>

Number(k) == FirstBlock + k
HeadBlock == chain[Len(chain)]

\* A time after 1970 + Exp, as every block of a chain has.
FirstTime == Exp + 1

(* What is known of a header: its time, the number and prefix of the block *)
(* it names; history: the request it answers and that block's index.       *)
Header(from, time, k) ==
  [from |-> from, time |-> time, num |-> Number(k), prefix |-> chain[k].prefix, ref |-> k]
NoHeader == [from |-> "none", time |-> 0, num |-> 0, prefix |-> 0, ref |-> 0]
NoTransaction == [from |-> "no transaction", expiration |-> 0, time |-> 0, num |-> 0, prefix |-> 0, ref |-> 0]

Init ==
  /\ chain = <<[prefix |-> 1, time |-> FirstTime], [prefix |-> 2, time |-> FirstTime + Interval]>>
  /\ lib = 2 /\ made = 2
  /\ answer = NoHeader
  /\ ctx = [header |-> NoHeader, next_id |-> 0]
  /\ tx = NoTransaction
-----------------------------------------------------------------------------
(* The node.                                                               *)

Produce(skip) ==
  /\ made < MaxMade /\ HeadBlock.time + (skip * Interval) <= MaxTime
  /\ chain' = Append(chain, [prefix |-> made + 1, time |-> HeadBlock.time + (skip * Interval)])
  /\ made' = made + 1
  /\ UNCHANGED <<lib, answer, ctx, tx>>

Finalize == lib < Len(chain) /\ lib' = lib + 1 /\ UNCHANGED <<chain, made, answer, ctx, tx>>

\* Blocks after the n-th are replaced by those of a fork that is longer by one.
ForkTime(n, skip, k) == chain[n].time + ((skip + k - n - 1) * Interval)
Switch(n, skip) ==
  LET more == Len(chain) + 1 - n IN
    /\ made + more <= MaxMade /\ ForkTime(n, skip, Len(chain) + 1) <= MaxTime
    /\ chain' = [k \in 1..Len(chain) + 1 |->
         IF k <= n THEN chain[k] ELSE [prefix |-> made + k - n, time |-> ForkTime(n, skip, k)]]
    /\ made' = made + more
    /\ UNCHANGED <<lib, answer, ctx, tx>>

(* Its checks of a transaction: not expired, not further ahead than the    *)
(* chain takes, and the block it last saw of that number has that prefix.  *)
Expired(t) == t.expiration < HeadBlock.time
TooFarAhead(t) == t.expiration > HeadBlock.time + Exp
Finds(t) ==
  \E k \in 1..Len(chain) :
    /\ Number(k) % Word = t.num /\ chain[k].prefix = t.prefix
    /\ \A l \in k + 1..Len(chain) : Number(l) % Word # t.num
Accepts(t) == ~Expired(t) /\ ~TooFarAhead(t) /\ Finds(t)
-----------------------------------------------------------------------------
(* The client.                                                             *)

Asking == tx = NoTransaction /\ answer = NoHeader

\* "previous" and "timestamp" of the last irreversible block.
HeadOfLib == Len(chain)  \* mutant: the head's number and prefix
ParentOfLib == lib - 1
AnswerIrreversible ==
  /\ Asking
  /\ answer' = Header("irreversible", chain[lib].time, ParentOfLib)
  /\ UNCHANGED <<chainVars, ctx, tx>>

\* "head_block_id" and "time" of the head.
AnswerHead ==
  /\ Asking
  /\ answer' = Header("head", HeadBlock.time, Len(chain))
  /\ UNCHANGED <<chainVars, ctx, tx>>

LoseAnswer == answer # NoHeader /\ answer' = NoHeader /\ UNCHANGED <<chainVars, ctx, tx>>

Untruncated(h) == h.num  \* mutant: the full block number
NumberAfter(h) == (h.num + 1) % Word  \* mutant: the member block_num() in place of the static one
RefBlockNum(h) == h.num % Word

SetChainInfo ==
  /\ tx = NoTransaction /\ answer # NoHeader
  /\ ctx' = [header |-> [answer EXCEPT !.num = RefBlockNum(answer)],
             next_id |-> IF answer.time # ctx.header.time THEN 0 ELSE ctx.next_id]
  /\ answer' = NoHeader
  /\ UNCHANGED <<chainVars, tx>>

AddedOffset(time, n) == time + Exp + (n % Off)  \* mutant: the offset lengthens the period
Expiration(time, n) == time + Exp - (n % Off)

\* makeTransaction, of the same data as others that were built on this header.
BuildOther ==
  /\ tx = NoTransaction /\ ctx.next_id < MaxDraws
  /\ ctx' = [ctx EXCEPT !.next_id = @ + 1]
  /\ UNCHANGED <<chainVars, answer, tx>>

Build ==
  /\ tx = NoTransaction
  /\ ctx' = [ctx EXCEPT !.next_id = @ + 1]
  /\ tx' = [from |-> ctx.header.from, expiration |-> Expiration(ctx.header.time, ctx.next_id + 1),
            time |-> ctx.header.time, num |-> ctx.header.num, prefix |-> ctx.header.prefix,
            ref |-> ctx.header.ref]
  /\ answer' = NoHeader
  /\ UNCHANGED chainVars

NodeNext ==
  \/ \E skip \in Skips : Produce(skip) \/ \E n \in lib..Len(chain) - 1 : Switch(n, skip)
  \/ Finalize

ClientNext ==
  \/ AnswerIrreversible \/ AnswerHead \/ LoseAnswer
  \/ SetChainInfo \/ BuildOther \/ Build

Next == NodeNext \/ ClientNext

Spec == Init /\ [][Next]_vars
-----------------------------------------------------------------------------
(* What must hold. *)

Block == [prefix : Nat, time : Nat]
HeaderType == [from : {"none", "irreversible", "head"}, time : Nat, num : Nat, prefix : Nat, ref : Nat]
ContextType == [header : HeaderType, next_id : Nat]
TransactionType == [from : {"no transaction", "none", "irreversible", "head"}, expiration : Int,
                    time : Nat, num : Nat, prefix : Nat, ref : Nat]

(* Types; what is installed and built has a number that fits the field.    *)
ReferenceTypeOK ==
  /\ chain \in Seq(Block) /\ lib \in 2..Len(chain) /\ made \in Nat
  /\ answer \in HeaderType
  /\ ctx \in ContextType /\ ctx.header.num < Word
  /\ tx \in TransactionType /\ tx.num < Word

(* A transaction built on the header of the last irreversible block is     *)
(* valid until it expires, whatever forks the node takes meanwhile and     *)
(* however late the header came: setChainInfo's number and prefix name a   *)
(* block that stays, its number is not reused while the transaction lives, *)
(* and its expiration is never further ahead than the period               *)
(* (request_builder.cpp:1037, response_parser.cpp:735).                    *)
ValidUntilItExpires == tx.from = "irreversible" /\ ~Expired(tx) => Accepts(tx)

IsIn(t) == t.ref \in 1..Len(chain) /\ chain[t.ref].prefix = t.prefix

(* A transaction that has not expired is found by its reference if and     *)
(* only if the block it was built on is still in the node's chain: one     *)
(* built on the head's header loses it by a switch of forks and in no      *)
(* other way, and one built before the first setChainInfo is never         *)
(* accepted (request_builder.cpp:77, response_parser.cpp:1122).            *)
ReferenceMeansItsBlock ==
  tx # NoTransaction =>
    /\ ~Expired(tx) => (Finds(tx) <=> IsIn(tx))
    /\ tx.from = "none" => ~Accepts(tx)
=============================================================================
