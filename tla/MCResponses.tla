---------------------------- MODULE MCResponses ----------------------------
(***************************************************************************)
(* Small instances of SettingsRefresh and Responses: integers of 8 bits    *)
(* (bytes of 2) and a full scale of 10, so that a scaled fee is truncated, *)
(* an amount is no int and a negative one wraps within small schedules;    *)
(* amounts of two decimals.                                                *)
(***************************************************************************)
EXTENDS Responses, TLC

MCOperations == {"transfer", "game_reset"}
MCPriced == {"transfer"}
MCDefaultFee == [op \in MCOperations |-> IF op = "transfer" THEN 3 ELSE 0]

Entry(op, members) == [op |-> op, members |-> members]
Of(fees, scale, expiration) == [fees |-> fees, scale |-> scale, expiration |-> expiration]

Transfer == Entry("transfer", ("fee" :> 20) @@ ("price_per_kbyte" :> 7))
Unpriced == Entry("transfer", ("basic_fee" :> 5) @@ ("premium_fee" :> 9))
Reset == Entry("game_reset", ("fee" :> 4) @@ ("price_per_kbyte" :> 200))
Unknown == Entry("proposal_create", "fee" :> 200)
Large == Entry("transfer", "fee" :> 200)
Negative == Entry("transfer", ("basic_fee" :> -1) @@ ("premium_fee" :> 1) @@ ("price_per_kbyte" :> -7))

\* Each schedule, scale and expiration with others in turn.
MCParameters ==
  { Of(<<>>, 10, 15), Of(<<Transfer, Reset>>, 10, 100), Of(<<Transfer, Reset>>, 127, 2),
    Of(<<Unknown, Unpriced, Reset>>, 10, 0), Of(<<Unknown, Unpriced, Reset>>, 127, 100),
    Of(<<Transfer, Unknown, Unpriced>>, 127, 15), Of(<<Transfer, Unknown, Unpriced>>, 10, 2),
    Of(<<Reset, Large>>, 10, 15), Of(<<Reset>>, 10, 200), Of(<<Negative>>, 10, 60), Of(<<Negative>>, 127, 0),
    Of(<<Transfer, Reset>>, -1, 60), Of(<<Negative>>, -3, 60) }

\* Around the widths: of a 32-bit and a signed integer.
MCInstances == {0, 1, 7, 127}
MCAmounts == 0..1300
=============================================================================
