-------------------------------- MODULE Texts --------------------------------
(***************************************************************************)
(* Identifiers, amounts and protocol versions as text, written and read.   *)
(* A text is a sequence of numbers, each its digits' value (or a single    *)
(* digit, where an amount is read digit by digit), and signs below zero.   *)
(* A byte has ByteWord values, and PLC_PRECISION is a power of ten.        *)
(***************************************************************************)
EXTENDS Integers, Sequences, SequencesExt, FiniteSets, FiniteSetsExt

CONSTANTS ByteWord, Decimals  \* PLC_PRECISION is 10^Decimals

ASSUME TextsAssumption == ByteWord \in Nat \ {0} /\ Decimals \in Nat

FourBytes == ByteWord * ByteWord * ByteWord * ByteWord

Dot == -1
Comma == -2
Space == -3
PLC == -4
Junk == -5
-----------------------------------------------------------------------------
(* Identifiers: space, type, and the instance from which they are valid.   *)

IdTypes == [
  User |-> <<1, 2, 0>>, Asset |-> <<1, 3, -1>>, VestingBalance |-> <<1, 13, -1>>,
  Room |-> <<3, 2, 0>>, Table |-> <<3, 4, 0>>, PendingBuyin |-> <<3, 7, 0>>,
  Player |-> <<3, 1, 0>>, Witness |-> <<1, 6, 0>>, GameWitness |-> <<3, 3, 0>>]

\* The numbers of spaces and types are ints, which have four bytes and a sign.
ASSUME IdsAssumption ==
  \A t \in DOMAIN IdTypes : {IdTypes[t][1], IdTypes[t][2]} \subseteq 0..(FourBytes \div 2) - 1

IdValid(type, instance) == instance > IdTypes[type][3]
NoInstance(type) == IdTypes[type][3]

id_to_str(type, instance) == <<IdTypes[type][1], Dot, IdTypes[type][2], Dot, instance>>

\* std::stoull reads the number that the text begins with; it must fit 32 bits, and becomes an int.
Readable(s) == s # <<>> /\ s[1] \in 0..FourBytes - 1
to_int(s) == IF s[1] < FourBytes \div 2 THEN s[1] ELSE s[1] - FourBytes

npos == 0
find(s, c, from) ==
  LET at == {k \in from..Len(s) : s[k] = c} IN IF at = {} THEN npos ELSE Min(at)
\* The text between two positions; to the end, where the second one is npos.
Between(s, a, b) == SubSeq(s, a + 1, IF b = npos THEN Len(s) ELSE b - 1)

\* from_string: the instance, or the one that is not valid.
id_from_str(type, s) ==
  LET first == find(s, Dot, 1)
      second == find(s, Dot, first + 1)
      parts == <<Between(s, 0, first), Between(s, first, second), Between(s, second, npos)>>
  IN IF /\ first # second /\ first \notin {1, npos}
        /\ \A k \in 1..3 : Readable(parts[k])
        /\ to_int(parts[1]) = IdTypes[type][1] /\ to_int(parts[2]) = IdTypes[type][2]
       THEN to_int(parts[3])
       ELSE NoInstance(type)
-----------------------------------------------------------------------------
(* Amounts.                                                                *)

TenTo[k \in Nat] == IF k = 0 THEN 1 ELSE 10 * TenTo[k - 1]
Precision == TenTo[Decimals]

Digits[n \in Nat] == IF n < 10 THEN <<n>> ELSE Append(Digits[n \div 10], n % 10)

\* The fraction's zeros in front, and the fraction without those at the end.
TwoZeros(f) == <<0, 0>>  \* mutant: not as many zeros as the fraction's size tells
Zeros(f) == [k \in 1..Cardinality({d \in 1..Decimals : f * TenTo[d] < Precision}) |-> 0]
Trimmed[f \in Nat] == IF f >= 10 /\ f % 10 = 0 THEN Trimmed[f \div 10] ELSE f

plc_to_str(amount) ==
  LET f == amount % Precision IN
    Digits[amount \div Precision]
      \o (IF f > 0 THEN <<Dot>> \o Zeros(f) \o Digits[Trimmed[f]] ELSE <<>>) \o <<Space, PLC>>

\* What was read: cents counts the decimals, and is -1 before the point.
Reading(amount, cents, done) == [amount |-> amount, cents |-> cents, done |-> done]

\* One character.
ReadDigit(r, c) ==
  IF r.done THEN r ELSE
    CASE c \in {Dot, Comma} -> Reading(r.amount, 0, r.cents >= 0)
      [] c \in 0..9 /\ r.cents < 0 -> Reading(r.amount * 10 + (c * Precision), r.cents, FALSE)
      [] c \in 0..9 /\ r.cents >= 0 ->
           Reading(r.amount + ((c * Precision) \div TenTo[r.cents + 1]), r.cents + 1, FALSE)
      [] OTHER -> Reading(r.amount, r.cents, TRUE)

\* What stands before the last PLC; spaces end the number like any other sign.
plc_from_str(s) ==
  LET at == {k \in 1..Len(s) : s[k] = PLC} IN
    IF at = {} THEN 0
    ELSE FoldLeft(ReadDigit, Reading(0, -1, FALSE), SubSeq(s, 1, Max(at) - 1)).amount

\* Votes; of a number, the code returns whether it is one.
parse_votes(n, as_number) == IF as_number THEN 1 ELSE n
-----------------------------------------------------------------------------
(* Protocol versions: v_num holds major, minor and patch.                  *)

v_num(major, minor, patch) == (major * ByteWord * ByteWord * ByteWord) + (minor * ByteWord * ByteWord) + patch
major_of(v) == v \div (ByteWord * ByteWord * ByteWord)
minor_of(v) == (v \div (ByteWord * ByteWord)) % ByteWord
patch_of(v) == v % (ByteWord * ByteWord)

version_to_str(v) == <<major_of(v), Dot, minor_of(v), Dot, patch_of(v)>>

\* Three numbers between two dots, each in its range, and no more; else an exception.
version_readable(s) ==
  /\ Len(s) = 5 /\ s[2] = Dot /\ s[4] = Dot
  /\ s[1] \in 0..ByteWord - 1 /\ s[3] \in 0..ByteWord - 1 /\ s[5] \in 0..(ByteWord * ByteWord) - 1
version_from_str(s) == v_num(s[1], s[3], s[5])
=============================================================================
