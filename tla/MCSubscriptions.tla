--------------------------- MODULE MCSubscriptions ---------------------------
(***************************************************************************)
(* Small instances of Subscriptions; -2 is an identifier that is written   *)
(* as an unsigned number. With the small remainders of subscriptions.cfg   *)
(* a clock and a counter give the identifier of others, and one that a     *)
(* caller chose; with the large ones of subscription_race.cfg they do not. *)
(***************************************************************************)
EXTENDS Subscriptions

CONSTANTS c1, c2, a, b

ChosenIdentifiers == {-2, 1}
Scrambled(now, offset) == (10 * now) + offset
=============================================================================
