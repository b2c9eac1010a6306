--------------------------- MODULE RequestBuilder ---------------------------
(***************************************************************************)
(* PlaychainRequestBuilder as its threads see it: the context that one     *)
(* setChainInfo call fills and every make...Transaction call reads, the    *)
(* settings, and makeTransaction itself, one action per acquisition of     *)
(* the context's mutex (every getter takes and releases it by itself).     *)
(* All calls build the same operations, the hardest case for uniqueness:   *)
(* a transaction is then told apart by its TaPoS reference and expiration. *)
(* Counters and times are integers: the uint32_t next_id wraps after 2^32  *)
(* draws of one chain time, the digest's uint32_t expiration in 2106.      *)
(***************************************************************************)
EXTENDS Integers, Sequences

CONSTANTS
  Threads,          \* threads that call make...Transaction on one builder
  Headers,          \* block headers a caller may pass to setChainInfo
  Settings,         \* values a caller may pass to updateSettings
  InitialSettings,  \* the value given to the constructor
  Serialized,       \* TRUE: callers run no update while a build is running
  InOrder,          \* TRUE: callers never install an older header
  MaxInstalls,      \* bound: calls of setChainInfo
  MaxBuilds         \* bound: transactions built

\* The answers a header is parsed from; "by" is history, no member of the header.
Requests == {"irreversible", "head"}
Header == [time : Nat, block : Nat, prefix : Nat, by : Requests]
SettingsRecord == [exp : Nat, off : Nat, uniq : BOOLEAN]

\* The constructor's PLAYCHAIN_ASSERT (uint32_t division).
Required(s) == s.off <= s.exp \div 3

ASSUME HeadersAssumption == Headers \subseteq Header
ASSUME SettingsAssumption ==
  /\ Settings \subseteq SettingsRecord
  /\ InitialSettings \in Settings
  /\ Required(InitialSettings)
ASSUME DisciplineAssumption == Serialized \in BOOLEAN /\ InOrder \in BOOLEAN
ASSUME BoundsAssumption == MaxInstalls \in Nat /\ MaxBuilds \in Nat

VARIABLES
  ctx,       \* the context: last_blockchain_time, ref_block_num, ref_block_prefix, next_id
  settings,  \* m_settings
  incoming,  \* a running updateSettings: its argument, the members still to copy
  pc,        \* per thread: the next statement of makeTransaction
  loc,       \* per thread: the locals of makeTransaction
  txs,       \* the transactions returned, oldest first
  log,       \* history: every value the context had, oldest first
  when,      \* history, per thread: the version of the context at each read
  seen       \* history: the versions and settings each transaction was made of

builderVars == <<ctx, log>>
settingsVars == <<settings, incoming>>
callVars == <<pc, loc, when>>
resultVars == <<txs, seen>>
vars == <<ctx, settings, incoming, pc, loc, txs, log, when, seen>>

\* What a uint16_t holds, and the conversion to it.
Uint16Values == 0..65535
Untruncated(n) == n  \* mutant: the full block number
Uint16(n) == n % 65536

\* The version of the context that is current.
Now == Len(log)

Members == {"exp", "off", "uniq"}

NoLocals == [expiration |-> 0, seq |-> 0, exp |-> 0, off |-> 0, num |-> 0, prefix |-> 0, jnum |-> 0]
NoReads == [time |-> 0, seq |-> 0, num |-> 0, prefix |-> 0, jnum |-> 0, jprefix |-> 0]

Init ==
  /\ ctx = [time |-> 0, num |-> 0, prefix |-> 0, next_id |-> 0]
  /\ settings = InitialSettings
  /\ incoming = [to |-> InitialSettings, left |-> {}]
  /\ pc = [t \in Threads |-> "idle"]
  /\ loc = [t \in Threads |-> NoLocals]
  /\ when = [t \in Threads |-> NoReads]
  /\ txs = <<>>
  /\ log = <<[time |-> 0, num |-> 0, prefix |-> 0, epoch |-> 0, by |-> "none"]>>
  /\ seen = <<>>

-----------------------------------------------------------------------------
(* What callers do about updates. *)

NoBuild == \A t \in Threads : pc[t] = "idle"
NoTrap == \A t \in Threads : pc[t] # "trap"
Started == Len(txs) + 1 <= MaxBuilds

MayUpdate == NoTrap /\ (Serialized => NoBuild)
MayBuild == NoTrap /\ (Serialized => incoming.left = {})

\* The counter after an update: it restarts when the chain time changes.
AlwaysRestart(h) == 0  \* mutant: every update restarts it
NextId(h) == IF h.time # ctx.time THEN 0 ELSE ctx.next_id

(* PlaychainRequestBuilder::setChainInfo and Context::update, under the lock. *)
SetChainInfo(h) ==
  /\ MayUpdate
  /\ Now <= MaxInstalls
  /\ InOrder => h.time >= ctx.time
  /\ ctx' = [time |-> h.time, num |-> Uint16(h.block), prefix |-> h.prefix,
             next_id |-> NextId(h)]
  /\ log' = Append(log, [time |-> h.time, num |-> Uint16(h.block), prefix |-> h.prefix,
                         epoch |-> IF h.time # ctx.time THEN log[Now].epoch + 1
                                                        ELSE log[Now].epoch,
                         by |-> h.by])
  /\ UNCHANGED <<settingsVars, callVars, resultVars>>

(* updateSettings assigns m_settings member by member and takes no lock: a  *)
(* build that runs meanwhile reads each member before or after its copy.   *)
(* Assigning the value it already has changes no member and is left out.   *)
BeginUpdateSettings(s) ==
  /\ MayUpdate
  /\ incoming.left = {}
  /\ s # settings
  /\ incoming' = [to |-> s, left |-> Members]
  /\ UNCHANGED <<builderVars, settings, callVars, resultVars>>

CopyMember(m) ==
  /\ NoTrap
  /\ m \in incoming.left
  /\ settings' = [exp  |-> IF m = "exp" THEN incoming.to.exp ELSE settings.exp,
                  off  |-> IF m = "off" THEN incoming.to.off ELSE settings.off,
                  uniq |-> IF m = "uniq" THEN incoming.to.uniq ELSE settings.uniq]
  /\ incoming' = [incoming EXCEPT !.left = @ \ {m}]
  /\ UNCHANGED <<builderVars, callVars, resultVars>>

-----------------------------------------------------------------------------
(* makeTransaction, statement by statement. *)

Goto(t, from, to) == pc[t] = from /\ pc' = [pc EXCEPT ![t] = to]

ReadTime(t) ==
  /\ MayBuild
  /\ Started
  /\ Goto(t, "idle", "uniq")
  /\ loc' = [loc EXCEPT ![t] = [NoLocals EXCEPT !.expiration = ctx.time + settings.exp,
                                                !.exp = settings.exp]]
  /\ when' = [when EXCEPT ![t] = [NoReads EXCEPT !.time = Now]]
  /\ UNCHANGED <<builderVars, settingsVars, resultVars>>

SkipSequence(t) ==
  /\ NoTrap
  /\ ~settings.uniq
  /\ Goto(t, "uniq", "hash_num")
  /\ UNCHANGED <<builderVars, settingsVars, loc, when, resultVars>>

DrawSequence(t) ==
  /\ NoTrap
  /\ settings.uniq
  /\ Goto(t, "uniq", "offset")
  /\ ctx' = [ctx EXCEPT !.next_id = ctx.next_id + 1]
  /\ loc' = [loc EXCEPT ![t].seq = ctx.next_id + 1]
  /\ when' = [when EXCEPT ![t].seq = Now]
  /\ UNCHANGED <<settingsVars, resultVars, log>>

\* The expiration l.expiration less the randomizing part of the offset.
ShortenedByQuotient(l, off) == l.expiration - (l.seq \div off)  \* mutant: / for %
ShortenedByOneMore(l, off) == l.expiration - (l.seq % (off + 1))  \* mutant: off by one
ShortenedTwice(l, off) == l.expiration - off - (l.seq % off)  \* mutant: the offset as well
Shortened(l, off) == l.expiration - (l.seq % off)

SubtractOffset(t) ==
  /\ NoTrap
  /\ settings.off # 0
  /\ Goto(t, "offset", "hash_num")
  /\ loc' = [loc EXCEPT ![t].expiration = Shortened(loc[t], settings.off),
                        ![t].off = settings.off]
  /\ UNCHANGED <<builderVars, settingsVars, when, resultVars>>

\* The remainder by zero ends the process.
TrapOnZeroOffset(t) ==
  /\ NoTrap
  /\ settings.off = 0
  /\ Goto(t, "offset", "trap")
  /\ UNCHANGED <<builderVars, settingsVars, loc, when, resultVars>>

HashRefBlockNum(t) ==
  /\ NoTrap
  /\ Goto(t, "hash_num", "hash_prefix")
  /\ loc' = [loc EXCEPT ![t].num = ctx.num]
  /\ when' = [when EXCEPT ![t].num = Now]
  /\ UNCHANGED <<builderVars, settingsVars, resultVars>>

HashRefBlockPrefix(t) ==
  /\ NoTrap
  /\ Goto(t, "hash_prefix", "json_num")
  /\ loc' = [loc EXCEPT ![t].prefix = ctx.prefix]
  /\ when' = [when EXCEPT ![t].prefix = Now]
  /\ UNCHANGED <<builderVars, settingsVars, resultVars>>

WriteRefBlockNum(t) ==
  /\ NoTrap
  /\ Goto(t, "json_num", "json_prefix")
  /\ loc' = [loc EXCEPT ![t].jnum = ctx.num]
  /\ when' = [when EXCEPT ![t].jnum = Now]
  /\ UNCHANGED <<builderVars, settingsVars, resultVars>>

\* The digest and the JSON that is sent both carry the local expiration.
SwappedReference(l, jprefix) ==  \* mutant: prefix and number swapped in the JSON
  [digest |-> [num |-> l.num, prefix |-> l.prefix, expiration |-> l.expiration],
   json   |-> [num |-> jprefix, prefix |-> l.jnum, expiration |-> l.expiration]]
NumberReadLate(l, jprefix) ==  \* mutant: the digest takes the number read for the JSON
  [digest |-> [num |-> l.jnum, prefix |-> l.prefix, expiration |-> l.expiration],
   json   |-> [num |-> l.jnum, prefix |-> jprefix, expiration |-> l.expiration]]
Transaction(l, jprefix) ==
  [digest |-> [num |-> l.num, prefix |-> l.prefix, expiration |-> l.expiration],
   json   |-> [num |-> l.jnum, prefix |-> jprefix, expiration |-> l.expiration]]

WriteRefBlockPrefix(t) ==
  /\ NoTrap
  /\ Goto(t, "json_prefix", "idle")
  /\ txs' = Append(txs, Transaction(loc[t], ctx.prefix))
  /\ seen' = Append(seen, [at |-> [when[t] EXCEPT !.jprefix = Now],
                           seq |-> loc[t].seq, exp |-> loc[t].exp, off |-> loc[t].off])
  /\ loc' = [loc EXCEPT ![t] = NoLocals]
  /\ when' = [when EXCEPT ![t] = NoReads]
  /\ UNCHANGED <<builderVars, settingsVars>>

MakeTransaction(t) ==
  \/ ReadTime(t)
  \/ SkipSequence(t)
  \/ DrawSequence(t)
  \/ SubtractOffset(t)
  \/ TrapOnZeroOffset(t)
  \/ HashRefBlockNum(t)
  \/ HashRefBlockPrefix(t)
  \/ WriteRefBlockNum(t)
  \/ WriteRefBlockPrefix(t)

\* Callers may stop calling: only with no call under way, or after the trap.
Rest == (NoBuild \/ ~NoTrap) /\ UNCHANGED vars

Next ==
  \/ \E h \in Headers : SetChainInfo(h)
  \/ \E s \in Settings : BeginUpdateSettings(s)
  \/ \E m \in Members : CopyMember(m)
  \/ \E t \in Threads : MakeTransaction(t)
  \/ Rest

Spec == Init /\ [][Next]_vars
-----------------------------------------------------------------------------
(* What must hold. *)

Drew(t) == pc[t] # "idle" /\ loc[t].seq # 0

\* A build during which no header was installed.
Quiet(k) == seen[k].at.time = seen[k].at.jprefix

\* The same chain time, not left in between: the counter was not reset.
SamePeriod(v, w) == log[v].epoch = log[w].epoch

\* Number m drawn at version v and number n drawn at version w do not collide.
Apart(m, v, n, w) == SamePeriod(v, w) => m # n

Context == [time : Nat, num : Uint16Values, prefix : Nat, next_id : Nat]
Locals == [expiration : Int, seq : Nat, exp : Nat, off : Nat, num : Nat, prefix : Nat, jnum : Nat]
Reads == [time : Nat, seq : Nat, num : Nat, prefix : Nat, jnum : Nat, jprefix : Nat]
Refs == [num : Nat, prefix : Nat, expiration : Int]
Issued == [digest : Refs, json : Refs]
Version == [time : Nat, num : Uint16Values, prefix : Nat, epoch : Nat, by : Requests \union {"none"}]
Trace == [at : Reads, seq : Nat, exp : Nat, off : Nat]
Statements ==
  {"idle", "uniq", "offset", "hash_num", "hash_prefix", "json_num", "json_prefix", "trap"}

TypeOK ==
  /\ ctx \in Context
  /\ settings \in SettingsRecord
  /\ incoming \in [to : Settings, left : SUBSET Members]
  /\ pc \in [Threads -> Statements]
  /\ loc \in [Threads -> Locals]
  /\ when \in [Threads -> Reads]
  /\ txs \in Seq(Issued)
  /\ log \in Seq(Version)
  /\ seen \in Seq(Trace)
  /\ Len(seen) = Len(txs)

(* No two builds draw the same number in one chain time, whichever threads *)
(* run them and whenever update resets the counter under them              *)
(* (get_next_sequence_id and the reset in update).                         *)
DrawsUnique ==
  /\ \A t, u \in Threads : t # u /\ Drew(t) /\ Drew(u) =>
       Apart(loc[t].seq, when[t].seq, loc[u].seq, when[u].seq)
  /\ \A t \in Threads, k \in DOMAIN seen : Drew(t) /\ seen[k].seq # 0 =>
       Apart(loc[t].seq, when[t].seq, seen[k].seq, seen[k].at.seq)
  /\ \A j, k \in DOMAIN seen : j # k /\ seen[j].seq # 0 /\ seen[k].seq # 0 =>
       Apart(seen[j].seq, seen[j].at.seq, seen[k].seq, seen[k].at.seq)

(* A build that no setChainInfo overlaps carries, in its digest and in its *)
(* JSON, the reference of one installed header, and expires within the     *)
(* transaction_expiration_sec it read after that header's time.            *)
QuietIsSnapshot ==
  \A k \in DOMAIN txs : Quiet(k) =>
    LET installed == log[seen[k].at.time] IN
      /\ txs[k].digest.num = installed.num /\ txs[k].digest.prefix = installed.prefix
      /\ txs[k].json = txs[k].digest
      /\ txs[k].json.expiration <= installed.time + seen[k].exp

Distance(m, n) == IF m < n THEN n - m ELSE m - n

\* Both drew a number and read the same settings.
SameSettings(j, k) ==
  /\ seen[j].seq # 0 /\ seen[k].seq # 0
  /\ seen[j].exp = seen[k].exp /\ seen[j].off = seen[k].off

\* Neither build overlaps an update, and both read the same chain time.
QuietInOnePeriod(j, k) ==
  Quiet(j) /\ Quiet(k) /\ SamePeriod(seen[j].at.time, seen[k].at.time)

(* Of the builds of one chain time that no update overlaps, any two whose  *)
(* draws are less than the offset apart sign different digests: that is    *)
(* what make_same_transactions_uniq is for.                                *)
SameDataDiffers ==
  \A j, k \in DOMAIN txs :
    (/\ j # k
     /\ SameSettings(j, k)
     /\ QuietInOnePeriod(j, k)
     /\ Distance(seen[j].seq, seen[k].seq) < seen[j].off)
      => txs[j].digest # txs[k].digest

\* The period and the offset that the build read are those of one value that
\* meets the stated requirement. An assignment in between may mix two.
ReadOneValue(k) ==
  \E s \in Settings : Required(s) /\ seen[k].exp = s.exp /\ seen[k].off \in {0, s.off}

(* A transaction outlives half its period counted from the header it was   *)
(* built on, however many draws shortened it and whatever was installed or *)
(* assigned meanwhile, if its build read the period and the offset of one  *)
(* value: a caller that refreshes the header every half period, as         *)
(* setChainInfo's comment allows, never signs one that has expired.        *)
AliveForHalfPeriod ==
  \A k \in DOMAIN txs : ReadOneValue(k) /\ seen[k].exp > 0 =>
    2 * (txs[k].json.expiration - log[seen[k].at.time].time) > seen[k].exp

(* The comment in makeTransaction on its expiration: it lies between       *)
(* t + transaction_expiration_sec - transaction_expiration_offset_sec and  *)
(* t + transaction_expiration_sec, t the chain time it was built on; the   *)
(* settings are a value given to the builder.                              *)
ExpiresInInterval ==
  \A k \in DOMAIN txs :
    LET t == log[seen[k].at.time].time IN
      \E s \in Settings : txs[k].json.expiration \in (t + s.exp - s.off)..(t + s.exp)

(* The comment in update: the lock keeps a reader from seeing some fields  *)
(* of one header and some of another. Each transaction has one reference,  *)
(* the same in the digest that is signed and in the JSON that is sent.     *)
NoTornReference == \A k \in DOMAIN txs : txs[k].digest = txs[k].json

\* Begun after the first setChainInfo, which its comment requires.
AfterChainInfo(k) == seen[k].at.time > 1

\* Built on headers of one request: block n, when irreversible, and the head n - 1
\* are both answered with the block n - 1, at different times.
OneRequest(j, k) == log[seen[j].at.time].by = log[seen[k].at.time].by

(* The comment on make_same_transactions_uniq: transactions built from the *)
(* same data under one settings value, on headers of one request, differ   *)
(* while the draws of one chain time stay below the offset.                *)
UniqForSameData ==
  \A j, k \in DOMAIN txs :
    (/\ j # k
     /\ AfterChainInfo(j) /\ AfterChainInfo(k)
     /\ OneRequest(j, k)
     /\ SameSettings(j, k)
     /\ seen[j].seq < seen[j].off /\ seen[k].seq < seen[k].off)
      => txs[j].digest # txs[k].digest

(* The requirement stated for transaction_expiration_offset_sec (at most a *)
(* third of the period) is all that a settings value owes: under values    *)
(* that meet it no build traps.                                            *)
RequiredIsEnough == (\A s \in Settings : Required(s)) => NoTrap
=============================================================================
