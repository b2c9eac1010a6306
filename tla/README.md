# A TLA+ development of playchain-client

playchain-client is a C++ library without threads, sockets or files of its own.
A program that uses it (a poker room, a witness, a wallet) asks it to *build*
requests to a Playchain node, sends them over a connection that is the program's
own, and has the library *parse* the answers. What the library itself is
responsible for is that a transaction it builds is the one that was meant: hashed,
signed, sent and charged for consistently, told apart from others with the same
content, valid while it is used, and unharmed on its way between the parties that
sign it. This directory states those properties, checks them with TLC and proves
most of the safety properties for every value of the constants with TLAPS.

Paths below are relative to the repository's root (its `src/src`, `src/include`,
`tests` ... are `src/src`, `src/include`, `src/tests` in `PROJECT.json`).

## 1. Inventory

| Component | State | Operations | Interacts by |
|---|---|---|---|
| **Request builder** `request_builder.cpp:25-176, 1037-1051` | a context (time, 16-bit number and prefix of the last header, counter `next_id`) behind a mutex; `m_settings`, unlocked | `setChainInfo`, `updateSettings`, `makeTransaction` (below every `make...Transaction`) | shared by the threads of a program; each getter of the context locks by itself |
| **Operations** `playchain_operations.*`, `pack_to_raw_helper.h`, `pack_to_json_helper.h`, `convert_helper.cpp` | none (fees from the settings) | 24 operations: `pack_object` for bytes, for JSON, `pack_size`; `calculate_data_fee` | bytes go to the digest, JSON to the node, which hashes it again |
| **Hand-off** `playchain_types.cpp:281-434`, `request_builder.cpp:655-718` | `BlockchainRequest`: api, method, params | `to_string`, `from_string`, the legacy two, `makeBroadcastTransaction` | strings exchanged between parties, each with a builder |
| **Subscriptions** `request_builder.cpp:720-756`, `response_parser.cpp:1165-1214` | a function's static counter; the node's list | subscribe, cancel, cancel all, parse a notification | one connection shared by callers who tell notifications apart by identifier |
| **Settings from the node** `response_parser.cpp:352-518, 1145-1163` | the settings installed last | parse fees, scale and expiration; `updateSettings` | answer of the node -> parser -> builder |
| **Response parser** (the rest of `response_parser.cpp`) | a copy of the settings, unlocked | some thirty `parse...` functions, `getFeeFromTransaction`, `updateSettings` | a caller looks whether a result is valid; threads may share a parser |
| **Chain headers** `response_parser.cpp:735-769, 1107-1141` | none | parse the last irreversible block, or the head block | their result is `setChainInfo`'s argument |
| **Query requests** (the rest of `request_builder.cpp`) | none | some twenty functions writing their arguments | none |
| **Signing** `playchain_helper.cpp`, `playchain_user.cpp`, `private_key_sec.cpp` | a key, kept encoded; a static counter of noises | `sign_digest`, `signDigest` | takes the digest, gives the text `makeBroadcastTransaction` is called with |
| **Formats and hashes** `base58.cpp`, `sha*.cpp`, `ripemd160.cpp`, `hash_helper.h` | none | pure functions | below all of the above |
| **Identifiers, amounts, versions** `playchain_types.cpp:1-280` | none | parse and print | fields of operations and answers |
| **Totalpoker helpers, utilities** | none | format a metadata string; print keys | none |

### What is hard about it

*Concurrency.* The builder is made to be shared: its context has a mutex and all
its builder functions are `const`. But the mutex is taken per getter, five times in
one `makeTransaction`; the settings and the subscription counter are not
protected at all. What survives an update between any two of these steps is the
main question of this project.

*Order.* Answers arrive late and out of order, and the header given to
`setChainInfo` decides both the reference and the counter that keeps equal
transactions apart.

*Agreement of several lists.* An operation's fields are listed by hand for the
bytes, for the size and for the JSON; the digest is worthless unless the node
arrives at the same bytes from the JSON.

*Distribution.* Copies of a transaction are signed concurrently and merged, over
channels that lose and repeat, in two textual forms.

*Boundaries.* 16-bit block numbers, 32-bit fees, varints, an offset used as a
divisor, a data fee with a limit.

*The node.* What a transaction refers to lives on: the node produces blocks, misses
slots and switches forks while the library builds and signs, and knows a block by 16
bits of its number.

There is no persistence and no scheduling: crash recovery does not arise, and
nothing in the library repeats anything but the loop in `sign_digest`.

### What makes each component correct

- *Builder:* a transaction refers to one header, the same in the digest and in the
  JSON; transactions with the same data differ; one that is built on a recent
  header is not already expired.
- *Operations:* the node hashes what was signed; what is hashed can be read in one
  way; the fee covers the size.
- *Hand-off:* no signature is lost or invented, whatever the form of transport and
  whoever signs copies meanwhile; equal approvals are equal texts.
- *Subscriptions:* no two identifiers are generated from one counter and clock; nobody
  handles another's notification, unless their identifiers are equal.
- *Answers:* a list is read as a whole or not at all, an amount is of the asset it is
  taken for, fees and texts read as what was written.
- *Chain headers:* a reference means the block it was built on for as long as the
  transaction lives, and nothing else.
- *Signing:* a user signs with its own key, each call ends, and (with
  `SECP256K1_EXT`) the signature can be recovered and is always the same.
- *Settings:* the fees are exactly those of one answer; the values meet the
  requirement that `playchain_settings.h:61` states.

The hazards behind these, each at its line, are in `PROJECT.json`.

## 2. Modules

    RequestBuilder ──> RequestBuilderRefinement ──> RequestBuilderInvariant
        (core)           (INSTANCE TxIssue)           ├─> MCRequestBuilder
                                                      └─> RequestBuilderProofs
                                                           └─> RequestBuilderRefinementProofs
    Operations ──> MCOperations, OperationsProofs
    Handoff (INSTANCE Approvals) ──> MCHandoff, HandoffProofs
    Subscriptions ──> MCSubscriptions, SubscriptionsProofs
    Texts ──┐
    SettingsRefresh ──> Responses ──> MCResponses, ResponsesProofs
    ChainReference ──┐
    Signing ──> TransactionLife ──> MCTransactionLife, TransactionLifeProofs
    InductionLemmas (used by HandoffProofs, OperationsProofs, ResponsesProofs)

`RequestBuilder` takes headers from the chain and settings from `SettingsRefresh`
as constants, and hands its transactions to `Handoff`; `Operations` gives what a
transaction's "same data" stands for in `RequestBuilder`. These are kept
apart because each hazard lives inside one of them: headers, settings and
operations are values that no other component changes after they were handed over.
Two compositions are modelled, where parts do go on changing: `TransactionLife`, in
which the chain goes on while the library signs what it has built, and `Responses`,
in which the parser's copy of the settings and the builder's are refreshed
separately.

### RequestBuilder

One action per acquisition of the context's mutex, in the order of the statements
of `makeTransaction`:

| Action | Code (`request_builder.cpp`) |
|---|---|
| `SetChainInfo` | 35-47, 1037-1051: `update` under the lock, number narrowed to 16 bits, counter reset if the time differs |
| `BeginUpdateSettings`, `CopyMember` | `request_builder.h:28-31`: the assignment, member by member, in any order, without a lock |
| `ReadTime` | 105: `get_last_blockchain_time()` plus the period |
| `SkipSequence` / `DrawSequence` | 107, 70-75: whether transactions are to be unique; `++next_id` |
| `SubtractOffset` / `TrapOnZeroOffset` | 109: the remainder by the offset; by zero it ends the process |
| `HashRefBlockNum`, `HashRefBlockPrefix` | 116-117: into the bytes that are hashed |
| `WriteRefBlockNum`, `WriteRefBlockPrefix` | 121-122: into the JSON, read again; the last one returns the transaction |

The transaction's two halves, `digest` and `json`, are kept as what they say of the
reference and of the expiration. All calls build the same operations, which is the
hard case: nothing else can tell two transactions apart. `log`, `when` and `seen`
are history: they record which version of the context each read saw and influence
nothing. `Serialized` and `InOrder` switch on two disciplines a caller might follow
(no update while a build runs; no header older than the one installed). A header has a
third field of history, `by`: which of the node's two answers it was parsed from. The two
give one reference at different times, that of block *n* - 1 with its own time as the
head and with its child's as the irreversible block's parent. One value stands for the
expiration that is hashed and for the one that is written, which the code narrows to 32
bits for the former, and the counter is not bounded (it wraps after 2^32 draws in one
chain time).

`TxIssue` is the abstract specification, in two strengths. `Spec`: each transaction
is made of headers that were current during its build, in the order of the reads.
`SnapshotSpec`: of exactly one header and one settings value, as if the build were
atomic. `RequestBuilderRefinement` maps the builder to it: a thread's window opens
with `ReadTime` and closes with the return.

### Operations

The members of an operation, in the order its struct declares them, each with its kind
and the parameter it comes from, are `InvitationMembers` ... `UpkeepMembers` (together
`Layout`). What is packed of them is written by hand three times in the source, and so
it is here: `InvitationLists` ... `UpkeepLists` have, per operation, the names that
`pack_object` of the bytes lists, those of `pack_size`, and those of `pack_object` of
the JSON. `authority`, `account_options`, `game_initial_data` and `game_result` have
lists of their own (`AuthorityRaw`, `AuthorityJson` ...), of which the bytes and their
size share one, as `pack_raw_object` is a template. `Body` packs by the first list,
`Size` counts by the second, `Sent` names what is in the third. The node has none of
them: `NodeReads` takes what is sent and assumes of the others what its own defaults
are, and `NodeList` hashes the members as they are declared (external, from how the
source leaves members out). `Decode` is a decoder for the bytes, written from the
encodings alone as functions on what is left of them. `Pack` models numbers, varints and
lengths byte by byte. `Merge` is `@@`, which the provers cannot expand.
The actions are the builder functions (`Make` for the functions of one operation,
`Withdraw` for the one that makes up to three, each with its balance's amount), their two ways to fail (`RefuseDataFee`, `RefuseKey`) and
`UpdateFees`. `Fee` takes the size, as the code does, of the operation while it
holds the basic fee only. `TakeResult` returns to an idle builder, since no call
depends on an earlier one.

### Handoff and Approvals

A party holds one `BlockchainRequest`; the transaction in `params` is a model value
and its signatures a sequence, as in the JSON array. `to_string`, `from_string` and
the legacy pair are modelled by what they keep, write differently or refuse: the
wallet's API is written as the number 0, and `from_string` accepts only a string
there; the legacy form drops the API and comes back as the wallet's. The channel is
a set of strings that stay until lost, so that each may be received never, late, in
any order, and repeatedly, by either function. `Approvals` is what all this is for:
parties with sets of signatures over transactions. `KeepsApprovals` is the
refinement.

### Subscriptions

`ReadCounter`, `WriteCounter` and `ReadClock` are the three parts of `++i` and the
call of `create_pseudo_random_from_time`. The number made of clock and counter is two
remainders, as in the code, of a scrambled number that may be any (`PseudoRandom`, a
constant): it may repeat, and it may be what a caller chose. `drawn` is history: the
clock and the counter an identifier was made from.
`SubscribeAs` is a call with the caller's own identifier, whatever others have taken. The
node, its notifications and the connection are external. `Handle` is
`parseChangeTableInfoNotification` tried with each of a caller's identifiers.

### SettingsRefresh

The parser's arithmetic with integers of `Word` values in place of 2^32: `parse_fee`
(the member `fee`, or the larger of the basic and the premium one; the price per
kbyte where the settings have one; widening to 64 bits, of a fee as the unsigned it was
read into and of a price with its sign; scaling by a scale that may be negative itself,
and narrowing), the loop over the
schedule that passes over unknown operations, and `parse_blockchain_options`. The
actions change the chain's parameters, answer with those current or with a refusal,
and install or discard an answer whenever it comes.

### Responses and Texts

Each parser function is a definition of its own: the shape of its `result` (a list, a
map, an object, an object or null ...) and the members of an entry with their types
(`Table`, `Invitation`, `Witness` ...). A type says what a missing or a mistyped value
does (`Throws`), which for a few members is undefined behaviour (`Undefined`: they are
taken for strings without asking; the model then lets the read throw or the process
end), and which texts are taken although they are none (`loose`: `atoll` reads any text,
an identifier's last number may have anything behind it, a short key is filled up). An answer is a list of entries of which one member may be strange. `Begin`,
`ParseEntry`, `RefuseEntry` and `Return` are a parse, entry by entry, and
`UpdateParser`, another thread's assignment of the parser's settings, may come
between any two of them. `GetFeeFromTransaction` reads back the fees of a transaction
that the builder made with *its* settings, of up to three operations (`MaxFees`, as
withdrawals have); the `Echo...` actions write an identifier, an
amount, a count of votes or a version as `Texts` says and read it again.

`Texts` has the conversions on sequences of numbers and signs: identifiers split at
their first two dots (with `find`'s `npos` as the code uses it), amounts digit by
digit with the precision, versions packed into one number.

### ChainReference

The node's side is a chain of blocks with an index of the last irreversible one:
`Produce` (after any number of missed slots), `Finalize`, and `Switch` to a longer
fork from any block that is not yet final. Each block ever made has its own prefix. The
library's side: `AnswerIrreversible` gives the *parent's* number and prefix with the
block's own time, as the parser takes `previous` and `timestamp`; `AnswerHead` gives
the head's; `SetChainInfo` narrows the number and restarts the counter; `Build` and
`BuildOther` are `makeTransaction`. Answers come late or never. `Accepts` is the node's
check (external): not expired, not too far ahead, and the latest block with that
number has that prefix.

### Signing

`encode` and `decode` are the loops of `private_key_sec.cpp` over units that are
exclusive-ored; `SignDigest`, `DrawNonce`, `RepeatUntilCanonical`, `Return` and `Throw`
are `sign_digest`. The curve is a function from nonces to what the library makes of
them: no use, a signature that is not canonical, or one that is, with a recovery id.
Without `SECP256K1_EXT`, which CMake leaves off by default, `recid` *is* the variable
that the nonce function advances, and the 32 bytes it reads begin with `recid` and go on
with whatever the stack holds (`Rests`): the header then names the number of tries,
and signing twice may give two texts. `SignedByItsUser` and `OneTextPerDigest` therefore
claim recovery and uniqueness only for `extended`.

### TransactionLife

`ChainReference` and `Signing` side by side: once a transaction is built, either the
chain moves or a step of the signing is taken.

## 3. Runs

| Run | Instance | Shows |
|---|---|---|
| `builder_threads` | 2 threads, 2 headers, 2 settings, the offset of one the whole period of the other, 2 installs, 2 builds, no discipline | what the library guarantees on its own: `DrawsUnique`, `QuietIsSnapshot`, `SameDataDiffers`, `AliveForHalfPeriod`, and the refinement `IssuesInOrder`, with settings assigned between any two statements of a build |
| `builder_serialized` | 2 threads, 4 headers, of both requests, so that one reference comes at two times, 4 settings, one with offset 0, both disciplines | with them, `NoTornReference`, `UniqForSameData` and the refinement `IssuesSnapshots` hold |
| `torn_reference` | 1 thread, 1 build | **violation**: the comment at `request_builder.cpp:39` |
| `torn_settings` | 1 thread, the settings of `builder_threads` | **violation**: the comment at `request_builder.cpp:112`, by an assignment between two statements |
| `lost_uniqueness` | 2 threads | **violation**: `playchain_settings.h:104`, by an update between two statements |
| `zero_offset` | 1 thread, serialized | **violation**: the requirement at `playchain_settings.h:61` |
| `operations` | all 24 operations, 3 fee settings, boundary values | the bytes, the JSON and the fee agree |
| `handoff` | 2 parties, 2 transactions, 2 strings under way | no signature lost or invented; one text per set of signatures |
| `subscriptions` | 2 callers, 2 tables, one caller in the function at a time, remainders small enough that identifiers collide by chance and with chosen ones | no two identifiers of one counter and clock; no notification taken by another unless the identifier is shared |
| `subscription_race` | the same, both in the function, remainders large enough that nothing collides by chance | **violation**: the comment at `request_builder.h:168` |
| `answers` | 13 parameters of the chain, all parser functions with lists of up to 2 entries, 8-bit integers, full scale 10, 2 decimals | fees of exactly one answer; lists whole or not at all; amounts of one asset; fees and texts read as what they were |
| `transaction_life` | up to 7 blocks on all forks, a number of 5 values, a period of 3 blocks, 3 nonces, 2 signatures | references mean their blocks until the transaction expires; one recoverable text per digest; signing ends, accepted unless expired |

Each property of a passing run has a mutant in `PROJECT.json`: a change of one
operator, of the kind a slip in the code would make, that violates it.

### Bounds, and why they are enough

*Builder.* `MaxBuilds` 2: every property relates at most two transactions.
In `builder_threads`, the constraint `FewUpdates` leaves one assignment of the settings
(its copies falling between any steps of the builds) with one header after the first,
or two headers without an assignment; threads are interchangeable there (`SYMMETRY`;
the run has no liveness property). `MaxInstalls` 2 or 3: two updates can tear one build twice and reset the counter
twice, and three give one chain time two references. Two threads: each
property relates at most two builds, and a third thread could only draw further
numbers, which `builder_threads` replaces by the offset of 3 wrapping round. The
headers are blocks 65535, 65536 and 65537, so the 16-bit number wraps, two of
them with the same time. All of
the builder's properties are proved for all values as well (section 5).

*Operations.* Per kind of field, values on both sides of a change of width (1 and 2
bytes of a varint), empty strings and containers, and a string that looks like a
length. Three settings: free, a price, and a price that reaches the limit with an
asset identifier of two bytes. Fields are independent of one another except
through the size, so pairs of boundary values are enough.

*Handoff.* Two parties, one of which broadcasts by the wallet's API; the first can
sign one transaction in two ways (a signature need not be deterministic), with
texts before and after the other's, so merging in every order is met; two strings
under way, so an old copy meets a newer one.

*Subscriptions.* Two calls are what uniqueness relates; two clock readings let the
clock stand still or move between them. With the remainders by 7 and 3 equal identifiers
come of different counters, of different clocks and of a caller's choice.

*Answers.* Schedules with repeated, unknown, reordered, wrapped, negative and
unreadable entries, and scales within and beyond their type; expirations of 0 and 2 (an offset of 0), within and above the
default. An answer on its way suffices, since answers are independent; that it may
be older than the chain's parameters is the case that matters. Lists of two entries with
two keys have every order, repetition and strange member; each call is looked at by
itself (`Quiescent`), since none depends on an earlier one. Bytes of 2 bits and integers
of 8 put every boundary of the conversions within the values tried, and all amounts up
to 1300 cents are written and read.

*TransactionLife.* A switch replaces up to two blocks, and one may follow another.
Numbers of 5 values come round within the chain. This bound is tight: with 4 values,
`Exp < Interval * (Word - 1)` fails and TLC finds a transaction that names a newer block
of its number. Three nonces meet every fate in every order that matters (at once, or
after one of no use and one not canonical); a second signature meets what the first
left. Blocks and times run out, so the run may stop (`CHECK_DEADLOCK FALSE`).

### Fairness

The only fairness is that of `SignStep`: a call of `sign_digest` that has begun runs on
its caller's thread, and nothing can take the processor from it for ever. Nothing is
assumed of the node, of its answers, or of callers. With it, `SigningEnds` (the loop
ends, because the nonce function advances and some nonce serves) and
`EndsAcceptedOrExpired` (what was built on an irreversible header and given to be signed
becomes a transaction that the node accepts, unless it expires first). The other
components wait for nothing, so their promises are safety promises; `CHECK_DEADLOCK`
is on where callers may rest for ever (`Rest` in `RequestBuilder`), and off in
`answers` and `transaction_life`, whose bounded environments run out.

## 4. What the violations say

1. **Torn reference.** The comment on `update`'s lock says that it keeps a reader from
   seeing fields of different headers. It cannot: `makeTransaction` takes the lock
   five times. An update in between leaves number and prefix of different headers, or
   a digest that differs from the JSON; the node refuses such a transaction.
2. **Lost uniqueness.** The time is read before the number is drawn. An update in
   between restarts the counter, and two threads that read the same time draw
   the same number: equal digests for two calls.
3. **Zero offset.** An offset of 0 is within the stated requirement, and
   `parse_blockchain_options` computes it for a maximum below 3; with
   `make_same_transactions_uniq` the build takes a remainder by it.
4. **Torn settings.** `updateSettings` assigns the settings without a lock while a build
   reads them. Two values that both meet the requirement (600 and 100 seconds by
   default, 100 and 33 after a refresh) give a transaction with the period of one and the
   offset of the other, which expires outside the interval that the comment states for
   either, a second after the chain's time at worst.
5. **Subscription race.** The static counter behind "uniq identifier" is advanced
   without a lock.

The two disciplines of `builder_serialized`, no update during a build and no header
older than the last, are what a program has to add to get the stronger promises
(1, 2 and 4); an offset above 0 avoids 3.
Both disciplines are needed. `update` restarts the counter whenever the time
*differs*: an old header that arrives late, followed by the current one again,
repeats numbers that were used, with one thread and no overlap. `InOrder = FALSE` in
`builder_serialized.cfg` shows that trace.

## 5. Proofs

The theorems hold for every value of the constants and every bound, under what the
modules declare of them (headers and settings are records of numbers, offsets are
positive, keys are functions on their units, schedules are sequences, a field's values
are of its kind and fit the width it is packed with) and the hypotheses the table names. TLC evaluates each of these
declarations on the runs' constants.

| Theorem | States | Hypotheses |
|---|---|---|
| `TypeCorrect` | `Spec => []TypeOK` | |
| `InductiveInvariant` | `Spec => [](IInv /\ Typed)` | |
| `DrawsAreUnique` | no number is drawn twice in one chain time | |
| `QuietBuildsAreSnapshots` | a build that no update overlaps has one header's reference, in digest and JSON, and expires within the period | |
| `SameDataHasDifferentDigests` | of such builds in one chain time, any two whose draws are less than the offset apart differ | |
| `ImplementsIssueInOrder` | `Spec => Issue!Spec`: the builder implements `TxIssue` | |
| `TransactionsOutliveHalfPeriod` | a transaction whose build read the period and the offset of one value that meets the requirement outlives half its period | |
| `SerializedBuildsAreWhole` | no transaction has parts of two headers | `Serialized` |
| `DisciplinedBuildsAreUniq` | transactions of the same data that were built on headers of one request differ while draws stay below the offset | `Serialized`, `InOrder`, `OneTimePerReference` |
| `SerializedImplementsSnapshots` | `Spec => Issue!SnapshotSpec`: makeTransaction is atomic | `Serialized` |
| `NodeHashesTheSigned` | the bytes that were hashed are those the node arrives at from the JSON; that each operation's three lists agree with its declaration is proved | `LayoutIsFaithful` |
| `PaysForItsSize` | the fee of an operation with a data fee covers its final size, in the asset of the settings | `LayoutIsFaithful`, `LayoutIsTyped` |
| `BytesHaveOneReading` | the signed bytes have one reading: lists of operations that differ in any field are not signed alike | `LayoutIsFaithful`, `LayoutIsTyped` |
| `ImplementsApprovals` | `Spec => KeepsApprovals`: handing copies round implements `Approvals` | |
| `SameSignaturesSameText` | equal signatures of a transaction are equal texts | |
| `IdentifiersAreDrawnOnce` | no two identifiers are made from one counter and clock | `Serialized` |
| `NotificationsReachTheirCaller` | what a caller handles is about a table it subscribed to under that identifier, or two subscriptions share it | |
| `SettingsMeetRequirement` | settings from an answer meet what the constructor asserts | |
| `FeesAreOfOneAnswer` | the fees in use are those of one schedule, each from the last readable entry of its operation | |
| `ListsReturnedAreWhole` | a list is returned whole, a map with the first entry of each key | |
| `AmountsTakenAreOfOneAsset` | no amount is taken of an asset the parser did not have meanwhile | |
| `FeesReadBack` | `getFeeFromTransaction` reads what the builder charged, for up to three operations | |
| `TextsAreReadBack` | identifiers, amounts, votes and versions read as what was written | |
| `ReferenceTypes` | `Spec => []ReferenceTypeOK` | |
| `IrreversibleIsValid` | what is built on an irreversible header is accepted until it expires | `PeriodIsShort` |
| `ReferencesMeanTheirBlocks` | a reference is found exactly while its block is in the chain | `PeriodIsShort` |
| `SignaturesAreTheUsers` | signatures are made with the user's key, and recover it with `SECP256K1_EXT` | |
| `DigestsHaveOneText` | with `SECP256K1_EXT` a user signs a digest with one text | |

`AliveForHalfPeriod` is about builds that read the period and the offset of one settings
value (`ReadOneValue`), however many assignments overlap them; the others may expire at
once, which `torn_settings` shows. `OneTimePerReference` says that two headers *of one
request* with the same 16-bit number and the same 32-bit prefix have the same time, which
is about the chain's hashes: an answer gives one block one time. Of headers of both
requests it is false, and so `UniqForSameData` claims nothing of a transaction on a head
and one on an irreversible header. The time itself is not part of a transaction, so
no counter could tell these apart.

The argument. `DrawsUnique` is not inductive: a state in which the counter lies
*below* a number already drawn satisfies it and the next draw breaks it. `IInv`
adds `CounterInv`, that every draw of the current epoch is at most the counter, where
an *epoch* is a maximal stretch of updates with one time (the counter is reset
exactly when the epoch changes, so draws of other epochs need no bound).
`QuietIsSnapshot` and the refinement need that what a build has read was current
when it read it, and that the versions of its reads ascend (`BuildInv`, and `TxInv`
for those returned); a quiet build is then one whose first and last version
coincide, and all between with them. `LogInv` ties the log to the context.
`SameDataHasDifferentDigests` adds arithmetic: two numbers less than `off` apart
have different remainders (`RemaindersDiffer`). The refinement needs, further, that
every member of the settings a build has read comes from *some* value the builder
was given (`SettingsInv`), not from one and the same.

Each discipline adds an invariant of its own. `Serialized` gives `QuietInv` (the
header that was current when a build began still is, so every build is quiet) and
`WholeInv` (no copy of the settings is under way while a build runs, so what it reads is
one value). `InOrder` gives `OrderInv`: times ascend along the log, so that one time is
one epoch and the counter is never reset to a time already used.

The steps of the proof follow `Next`: one lemma per part of the invariant, one case
per action that can disturb it, and a framing lemma (`BuildStable`, `TxStable`:
appending to the log leaves what was recorded as it was) for the others.

*Induction over data.* The library's induction theorems take an operator as a
parameter, which the provers cannot instantiate. `InductionLemmas` states what is needed
with sets and functions in their place: a property of numbers is the *set* of numbers
that have it (`InductionOnNumbers`, from the well-foundedness of strict inclusion), of
the subsets of a finite set a set of sets (`InductionOnSubsets`), and a recursive
definition is a *function* of steps, of which it is proved that one function
satisfies its equation (`FoldOverSubsets` for the folds of the community modules,
`DescentIsDefined` for a recursive function on numbers, `StepsAreDefined` for one that
refers to the number before). A `CHOOSE` of the function that
satisfies it, which is what TLA+ makes of a recursive definition, then does.

*Operations.* That the lists agree is proved of each of the 24 operations: the list of
the bytes is the declared one (`Listed`), that of the size is the same where the fee
depends on the size, and that of the JSON leaves out members only that are always what
the node supplies (`SentAreSupplied`). Lists of up to seven names are compared name
by name (`SevenNames` ...), lists that hold a struct's part by part (`SixParts`), and the
groups are put together (`ListingsMerge`). An operation's values then come back by
name, and its bytes are those of the declared order (`BytesAreTheNodes`).
`PaysForItsSize` is about the bytes: by induction a varint is
a sequence of bytes, a number of a width has that many (`VarintIs`, `LittleEndianIs`), and
bytes put one after another have a length that is the sum of theirs
(`FlattensStepByStep`). So two copies of an operation that differ in the fee only, whose
amount is always eight bytes, are of one size (`SizeIsOfAnyFee`), and the fee that was
computed with the basic fee in place covers the size with the final one in it. What
the arguments of a call can be is a fold over the parameters (`ArgsAreTyped`). What
is assumed of the 24 layouts are facts without parameters: that operations differ in their
numbers and the members of one in their names (`LayoutIsFaithful`), and that fixed values
and parameters are of their members' kinds (`LayoutIsTyped`). TLC evaluates them as an
assumption of `MCOperations`; the theorems are about all values, fees and limits.

`BytesHaveOneReading` needs that each encoding says where it ends. The lemmas have one
form: of the bytes of a thing followed by *any* bytes, the decoder takes the thing and
leaves the others. They climb from varints and numbers of a width through amounts,
strings and keys to a field, and from there, by induction over what is taken one after
another, to containers, the fields of an operation and the operations of a list.
The invariant is that a result's bytes are those of its operations, and these are of
values that fit their fields (`SoundInv`). A number that does not fit its width would not
come back; `FeesFit` and `ValuesFit` say that none is passed, which the C++ types of the
members see to (`uint16_t`, `uint32_t`, `int64_t`, keys of 33 bytes and signatures of 65),
and that stakes and results come in whole entries, as the loops over their maps write
them. A fee fits because `calculate_data_fee` refuses what is above its limit.

*Hand-off.* Every array of signatures anywhere, held or under way, is its set written in
ascending order (`Written`). A finite set of numbers can be written so, by induction on
the set, and in one way only: a set's two ascending arrays agree at their first element
and so on. With that, arrays and sets of signatures stand for each other, and each
action is a step of `Approvals` or none.

*Subscriptions.* With one caller in the function at a time, counter values that
were used are below the counter, so that no two identifiers are made of one
(`IdentifiersAreDrawnOnce`); whether the remainders differ is the random number's affair.
Each notification is traced to the subscription it was made for, with no discipline
and whatever identifiers collide: if the caller that takes it is not the one that made
that subscription, the identifier is shared by two.

*Answers.* The requirement on the period needs nothing of the fees: the period is
set last and by itself. `FeesAreOfOneAnswer` is an induction along the schedule:
after each entry, every operation has the fee of its last entry so far, and an entry
that cannot be read refuses the whole answer. `ListsReturnedAreWhole` keeps, while a
parse runs, that what was gathered and what is left make up the answer; for a map,
that what was gathered is the first of each key among the entries passed, of each once.
`AmountsTakenAreOfOneAsset` records the assets the parser had since the parse began.
`FeesReadBack` is an induction along the operations, with sums modulo the width.

*Texts.* `TextsAreReadBack` is for decimal digits what `BytesHaveOneReading` is for
bytes. The reader goes over the text once, so the proof follows it (`Reads`: from the
start, a text leaves the reader in a state; `ReadsOneMore`: one character further): after
the digits of a whole number it has the number times the precision (`WholeIsRead`), after
the point and the zeros still that, with the zeros counted (`ZerosAreRead`), and after the
digits of the fraction the fraction's share as well (`FractionIsRead`). A digit there adds
its value times the precision divided by a power of ten, a division that must be exact:
the zeros in front and the digits behind fill the decimals and no more (`ZerosFill`), and
what `Trimmed` takes away are zeros (`TrimmedOfZeros`). (The code divides by ten several
times, the model by the power at once, which of whole numbers gives the same.) Of identifiers, `PartsOfId` says where
the two dots are. The sizes that are assumed, of instances (`ResponsesAssumption`) and of
the numbers of spaces and types (`IdsAssumption`), are those of an `int`, which `to_int`
returns.

*Transactions.* `ChainInv` says that prefixes grow along the chain and that
blocks are slots apart; a step of the node keeps every block up to the last irreversible
one, and gives new blocks prefixes that none had (`NodeStep`). What a header says of
its block (`Refers`) survives all such steps. A period then holds fewer blocks than
numbers have values (`PeriodIsShort`), so two blocks with equal lowest bits
cannot both lie within it (`NumbersDiffer`). 600 seconds against slots of 3
seconds and 65536 numbers meet that with room to spare. Of the keys: what is encoded
decodes to itself (`DecodesItself`); each call draws the nonces 1, 2, 3 ... and so
stops at the first that serves, the same in every call.

Only model-checked: the absence of deadlock and the two liveness properties, since liveness
and `ENABLED` are out of the prover's reach, and each run that expects a violation.

## 6. Not modelled, and why

- *Copying a builder.* The copy constructor reads the context without the lock and
  restarts the counter; nothing in the repository copies a builder in use. Planned.
- *Query requests.* Some twenty functions that write their arguments to an array.
- *`parseNotificationCookie`.* It reads one number of a notice; `Subscriptions` routes
  notifications by the full parser.
- *An invitation's lifetimes* are taken as numbers: each is one subtraction, and what one
  that has expired should have left is stated nowhere.
- *The wrap of a builder's counter*, after 2^32 draws in one chain time.
- *Recovery and verification of signatures, brain keys.* They are the curve's.
- *Hashes, base58, WIF.* Nothing remains of them in a small instance.
- *Totalpoker helpers, utilities.* They format strings and print keys.
- *JSON as text* is abstracted to values; texts that no valid value is written as
  (an identifier with one dot, say) are not read in `Texts`.
- *Sequential consistency* is assumed of unlocked members (settings, the counter of
  subscriptions): values are read and written whole, one at a time.

## 7. What is left

In the order it would add most: a second builder and the copy constructor in
`RequestBuilder`; `RequestBuilder`'s threads on the chain of `ChainReference` (today each
is checked with the other atomic); the read-back of texts that the library did not
write. Every safety property that a passing run checks is a theorem; the theorems worth
having next are about those extensions.
