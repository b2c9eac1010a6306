-------------------------- MODULE MCRequestBuilder --------------------------
(***************************************************************************)
(* Small instances of RequestBuilder. The headers name the last block of   *)
(* the 16-bit range, its successor, whose ref_block_num wraps to 0, and    *)
(* the next one. A block is named by the request for the head at its own   *)
(* time, and by the request for the irreversible block at its child's: the *)
(* head H2AsHead and the irreversible H2 are one reference and two times,  *)
(* close enough that expirations of one settings value may meet.           *)
(***************************************************************************)
EXTENDS RequestBuilderInvariant, TLC

CONSTANTS t1, t2

H1 == [time |-> 10, block |-> 65535, prefix |-> 1, by |-> "irreversible"]
H2AsHead == [time |-> 10, block |-> 65536, prefix |-> 2, by |-> "head"]
H2 == [time |-> 11, block |-> 65536, prefix |-> 2, by |-> "irreversible"]
H3AsHead == [time |-> 11, block |-> 65537, prefix |-> 3, by |-> "head"]

TwoHeaders == {H1, H2}
FourHeaders == {H1, H2AsHead, H2, H3AsHead}

Default == [exp |-> 9, off |-> 3, uniq |-> TRUE]
Longer == [exp |-> 12, off |-> 2, uniq |-> TRUE]
NotUniq == [exp |-> 12, off |-> 4, uniq |-> FALSE]
\* What parse_blockchain_options makes of a maximum_time_until_expiration of 2.
ShortLived == [exp |-> 2, off |-> 0, uniq |-> TRUE]

OneSettings == {Default}
\* Each meets the requirement; the offset of the first is the whole period of the second.
Refreshed == [exp |-> 3, off |-> 1, uniq |-> TRUE]
BeforeAndAfterRefresh == {Default, Refreshed}
TwoPeriods == {Default, ShortLived}
AllSettings == {Default, Longer, NotUniq, ShortLived}

\* Bounds of builder_threads: the settings are assigned at most once, and then
\* one header is installed; without an assignment, MaxInstalls are.
FewUpdates == IF incoming.to = InitialSettings THEN settings = InitialSettings ELSE Len(log) <= 2
AnyThread == Permutations(Threads)
=============================================================================
